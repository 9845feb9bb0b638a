-------------------------- MODULE LiveUpdatesProofs --------------------------
(***************************************************************************)
(* For any number of sockets and any cap on the reconnect attempts: the    *)
(* shared WebSocket client keeps at most one live socket and is never left *)
(* without one and without a timer, alone (with disconnect()) and inside a *)
(* session (LiveUpdates).                                                  *)
(***************************************************************************)
EXTENDS LiveUpdates, TLAPS

(* The timer and the current socket tie the client's fields together: a    *)
(* timer is pending only while reconnecting is wanted and no socket is     *)
(* live, and this.ws never names a socket that is gone.                    *)
ClientInv ==
    /\ ClientTypeOK
    /\ LiveIsCurrent
    /\ NeverAbandoned
    /\ TimerSafe
    /\ connectCalled => shouldReconnect
    /\ ws # NoSocket => shouldReconnect /\ sock[ws] # "gone"

(* No attempt yet is within the cap.                                        *)
LEMMA ZeroAttempts == 0 \in 0..maxReconnectAttempts
BY AttemptsAssumption

(* #openSocket, called with no live socket and the timer cancelled. *)
LEMMA OpenSocketStep ==
    ASSUME ClientInv, ~ConnectedOrConnecting, shouldReconnect', OpenSocket(FALSE),
           UNCHANGED isConnected, connectCalled' \in BOOLEAN
    PROVE  ClientInv'
<1>1. CASE \E s \in Sockets :
              /\ sock[s] = "gone"
              /\ sock' = [sock EXCEPT ![s] = "connecting"]
              /\ ws' = s
              /\ reconnectTimer' = FALSE
              /\ UNCHANGED reconnectAttempts
  BY <1>1, SocketAssumption, Zenon DEF ClientInv, ClientTypeOK, LiveIsCurrent, NeverAbandoned,
     TimerSafe, ConnectedOrConnecting, Live, States
<1>2. CASE ScheduleReconnect /\ UNCHANGED <<sock, ws>>
  <2>1. reconnectAttempts' \in 0..maxReconnectAttempts
    BY <1>2, AttemptsAssumption DEF ScheduleReconnect, ClientInv, ClientTypeOK
  <2> QED
    BY <1>2, <2>1 DEF ScheduleReconnect, ClientInv, ClientTypeOK, LiveIsCurrent,
       NeverAbandoned, TimerSafe, ConnectedOrConnecting
<1> QED BY <1>1, <1>2, Zenon DEF OpenSocket

(* Every handler of the class preserves the invariant. *)
LEMMA ClientStep == ClientInv /\ [ClientNext]_clientVars => ClientInv'
<1> SUFFICES ASSUME ClientInv, [ClientNext]_clientVars PROVE ClientInv'
  OBVIOUS
<1>1. CASE connect
  <2>1. CASE ConnectedOrConnecting
    BY <1>1, <2>1, SocketAssumption DEF connect, ClientInv, ClientTypeOK, LiveIsCurrent,
       NeverAbandoned, TimerSafe, ConnectedOrConnecting
  <2>2. CASE ~ConnectedOrConnecting
    BY <1>1, <2>2, OpenSocketStep DEF connect
  <2> QED BY <2>1, <2>2
<1>2. CASE disconnect
  <2>1. ClientTypeOK'
    BY <1>2, ZeroAttempts, Zenon DEF disconnect, ClientInv, ClientTypeOK, States
  <2>2. LiveIsCurrent'
    BY <1>2 DEF disconnect, ClientInv, LiveIsCurrent, Live
  <2> QED
    BY <1>2, <2>1, <2>2 DEF disconnect, ClientInv, NeverAbandoned, TimerSafe
<1>3. CASE ReconnectTimer
  BY <1>3, OpenSocketStep DEF ReconnectTimer, ClientInv, ClientTypeOK, TimerSafe
<1>4. ASSUME NEW s \in Sockets, OpenEvent(s) PROVE ClientInv'
  BY <1>4, SocketAssumption, AttemptsAssumption DEF OpenEvent, ClientInv, ClientTypeOK,
     LiveIsCurrent, NeverAbandoned, TimerSafe, ConnectedOrConnecting, Live, States
<1>5. ASSUME NEW s \in Sockets, CloseEvent(s) PROVE ClientInv'
  <2>1. CASE ws = s
    <3>1. shouldReconnect /\ ScheduleReconnect /\ ws' = NoSocket /\ isConnected' = FALSE
      BY <1>5, <2>1, SocketAssumption DEF CloseEvent, ClientInv
    <3>2. reconnectAttempts' \in 0..maxReconnectAttempts
      BY <3>1, AttemptsAssumption DEF ScheduleReconnect, ClientInv, ClientTypeOK
    <3>3. ClientTypeOK'
      BY <1>5, <3>1, <3>2, Zenon DEF CloseEvent, ScheduleReconnect, ClientInv, ClientTypeOK, States
    <3>4. LiveIsCurrent'
      BY <1>5, <2>1 DEF CloseEvent, ClientInv, ClientTypeOK, LiveIsCurrent, Live
    <3> QED
      BY <1>5, <3>1, <3>3, <3>4 DEF CloseEvent, ScheduleReconnect, ClientInv, NeverAbandoned,
         TimerSafe, ConnectedOrConnecting
  <2>2. CASE ws # s
    BY <1>5, <2>2, SocketAssumption DEF CloseEvent, ClientInv, ClientTypeOK, LiveIsCurrent,
       NeverAbandoned, TimerSafe, ConnectedOrConnecting, Live, States
  <2> QED BY <2>1, <2>2
<1>6. ASSUME NEW s \in Sockets, StartClosing(s) PROVE ClientInv'
  BY <1>6, SocketAssumption DEF StartClosing, ClientInv, ClientTypeOK, LiveIsCurrent,
     NeverAbandoned, TimerSafe, ConnectedOrConnecting, Live, States
<1>7. CASE UNCHANGED clientVars
  BY <1>7 DEF clientVars, ClientInv, ClientTypeOK, LiveIsCurrent, NeverAbandoned, TimerSafe,
     ConnectedOrConnecting
<1> QED BY <1>1, <1>2, <1>3, <1>4, <1>5, <1>6, <1>7 DEF ClientNext

(* The class by itself, disconnect() included: no live socket but this.ws, *)
(* no timer that would open a second one or outlive disconnect(), and      *)
(* always a way back once connect() was called.                            *)
THEOREM ClientSafe == ClientSpec => [](LiveIsCurrent /\ TimerSafe /\ NeverAbandoned)
<1>1. ClientInit => ClientInv
  BY SocketAssumption, ZeroAttempts, Zenon DEF ClientInit, ClientInv, ClientTypeOK, LiveIsCurrent,
     NeverAbandoned, TimerSafe, ConnectedOrConnecting, Live, States
<1>2. ClientInv => LiveIsCurrent /\ TimerSafe /\ NeverAbandoned
  BY DEF ClientInv
<1> QED BY <1>1, <1>2, ClientStep, PTL DEF ClientSpec

(* A session only ever moves its socket through the class's handlers. *)
LEMMA SessionStep == [Next]_vars => [ClientNext]_clientVars
<1> SUFFICES ASSUME [Next]_vars PROVE [ClientNext]_clientVars
  OBVIOUS
<1>1. CASE \E l \in Lists : Serve(l) \/ Fetched(l) \/ FetchFails(l)
  BY <1>1 DEF Serve, Fetched, FetchFails
<1>2. CASE Poll \/ Focus
  BY <1>2, Zenon DEF Poll, Focus
<1>3. CASE \E a \in Admins : \/ \E op \in {"update", "toggle", "client"} : Commit(a, op)
                             \/ ReadList(a) \/ Broadcast(a)
  BY <1>3, Zenon DEF Commit, ReadList, Broadcast
<1>4. CASE Mount \/ Reconnect
  BY <1>4 DEF Mount, Reconnect, ClientNext
<1>5. CASE \E s \in Sockets : Opened(s) \/ Closed(s) \/ Closing(s)
  BY <1>5 DEF Opened, Closed, Closing, ClientNext
<1>6. CASE Deliver \/ InvalidateTimer \/ WindowPasses
  BY <1>6 DEF Deliver, InvalidateTimer, WindowPasses
<1>7. CASE Answered \/ AnswerLost
  BY <1>7 DEF Answered, AnswerLost
<1>8. CASE Move
  BY <1>8 DEF Move, ClientNext
<1>9. CASE UNCHANGED vars
  BY <1>9 DEF vars
<1> QED BY <1>1, <1>2, <1>3, <1>4, <1>5, <1>6, <1>7, <1>8, <1>9 DEF Next

(* A session starts within the client invariant.                            *)
LEMMA SessionInit == Init => ClientInv
<1> SUFFICES ASSUME Init PROVE ClientInv
  OBVIOUS
<1>1. CASE world.connected
  <2>1. ConnectedInit
    BY <1>1 DEF Init
  <2>2. ClientTypeOK
    BY <2>1, ZeroAttempts, Zenon DEF ConnectedInit, ClientTypeOK, States
  <2>3. LiveIsCurrent
    BY <2>1 DEF ConnectedInit, LiveIsCurrent, Live
  <2>4. NeverAbandoned /\ TimerSafe /\ shouldReconnect /\ sock[ws] # "gone"
    BY <2>1, SocketAssumption DEF ConnectedInit, NeverAbandoned, TimerSafe
  <2> QED BY <2>2, <2>3, <2>4 DEF ClientInv
<1>2. CASE ~world.connected
  BY <1>2, SocketAssumption, ZeroAttempts, Zenon DEF Init, ClientInit, ClientInv, ClientTypeOK,
     LiveIsCurrent, NeverAbandoned, TimerSafe, ConnectedOrConnecting, Live, States
<1> QED BY <1>1, <1>2

(* In a session, through every mount, page change, lost connection and     *)
(* failed attempt, a live socket is the one whose messages are read.       *)
THEOREM SessionLiveIsCurrent == Spec => []LiveIsCurrent
<1>1. ClientInv => LiveIsCurrent
  BY DEF ClientInv
<1> QED BY <1>1, SessionInit, SessionStep, ClientStep, PTL DEF Spec

(* In a session, the client always has a socket or a timer once mounted.   *)
THEOREM SessionNeverAbandoned == Spec => []NeverAbandoned
<1>1. ClientInv => NeverAbandoned
  BY DEF ClientInv
<1> QED BY <1>1, SessionInit, SessionStep, ClientStep, PTL DEF Spec
=============================================================================
