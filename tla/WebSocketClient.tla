---------------------------- MODULE WebSocketClient ----------------------------
(***************************************************************************)
(* The panel page's one WebSocket (src/frontend/src/api/websocket.ts): the *)
(* WebSocketClient class every hook shares, its reconnect timer, and the   *)
(* browser's sockets underneath it.  JavaScript runs one callback at a     *)
(* time, so a handler is one step; between two of them any socket event,   *)
(* timer or caller may come.                                               *)
(***************************************************************************)
EXTENDS Integers, FiniteSets

CONSTANTS Sockets,             \* browser sockets that may exist at one time
          NoSocket,            \* null
          maxReconnectAttempts \* 10 in the class's constructor

ASSUME SocketAssumption == NoSocket \notin Sockets
ASSUME AttemptsAssumption == maxReconnectAttempts \in Nat

VARIABLES sock,              \* each socket's readyState; "gone" once closed, when
                             \* it has no event left and its place may be reused
          ws,                \* this.ws
          shouldReconnect,
          isConnected,
          reconnectAttempts,
          reconnectTimer,    \* whether a reconnect timer is pending
          connectCalled      \* history: connect() was called since disconnect()

clientVars == <<sock, ws, shouldReconnect, isConnected, reconnectAttempts,
                reconnectTimer, connectCalled>>

States == {"gone", "connecting", "open", "closing"}
Live == {"connecting", "open"}

ClientTypeOK ==
    /\ sock \in [Sockets -> States]
    /\ ws \in Sockets \cup {NoSocket}
    /\ shouldReconnect \in BOOLEAN
    /\ isConnected \in BOOLEAN
    /\ reconnectAttempts \in 0..maxReconnectAttempts
    /\ reconnectTimer \in BOOLEAN
    /\ connectCalled \in BOOLEAN

ClientInit ==
    /\ sock = [s \in Sockets |-> "gone"]
    /\ ws = NoSocket
    /\ shouldReconnect = TRUE
    /\ isConnected = FALSE
    /\ reconnectAttempts = 0
    /\ reconnectTimer = FALSE
    /\ connectCalled = FALSE

-----------------------------------------------------------------------------
\* Mutant: the client gives up at the cap.
ScheduleReconnectCapped ==
    /\ reconnectTimer' = (reconnectAttempts < maxReconnectAttempts)
    /\ reconnectAttempts' = IF reconnectAttempts < maxReconnectAttempts
                            THEN reconnectAttempts + 1
                            ELSE reconnectAttempts

(* #scheduleReconnect with shouldReconnect set (the only way it does       *)
(* anything): replaces a pending timer and counts up to the cap, past      *)
(* which only the delay changes.                                           *)
ScheduleReconnect ==
    /\ reconnectTimer' = TRUE
    /\ reconnectAttempts' = IF reconnectAttempts < maxReconnectAttempts
                            THEN reconnectAttempts + 1
                            ELSE reconnectAttempts

(* #openSocket: the new socket takes this.ws over at once; when the        *)
(* constructor throws, this.ws stays as it was and a timer is set.         *)
(* `timer' is what the caller left pending.                                *)
OpenSocket(timer) ==
    \/ \E s \in Sockets :
          /\ sock[s] = "gone"
          /\ sock' = [sock EXCEPT ![s] = "connecting"]
          /\ ws' = s
          /\ reconnectTimer' = timer
          /\ UNCHANGED reconnectAttempts
    \/ ScheduleReconnect /\ UNCHANGED <<sock, ws>>

ConnectedOrConnecting == ws # NoSocket /\ sock[ws] \in Live

\* Mutant: connect() without its #cancelReconnect.
connectNoCancel ==
    /\ connectCalled' = TRUE
    /\ UNCHANGED isConnected
    /\ IF ConnectedOrConnecting
       THEN UNCHANGED <<sock, ws, shouldReconnect, reconnectAttempts, reconnectTimer>>
       ELSE shouldReconnect' = TRUE /\ OpenSocket(reconnectTimer)

(* connect(): nothing while the current socket is open or connecting.      *)
connect ==
    /\ connectCalled' = TRUE
    /\ UNCHANGED isConnected
    /\ IF ConnectedOrConnecting
       THEN UNCHANGED <<sock, ws, shouldReconnect, reconnectAttempts, reconnectTimer>>
       ELSE shouldReconnect' = TRUE /\ OpenSocket(FALSE)

(* disconnect(): close() on a live socket leaves it closing. *)
disconnect ==
    /\ connectCalled' = FALSE
    /\ shouldReconnect' = FALSE
    /\ reconnectTimer' = FALSE
    /\ reconnectAttempts' = 0
    /\ sock' = [s \in Sockets |-> IF s = ws THEN "closing" ELSE sock[s]]
    /\ ws' = NoSocket
    /\ isConnected' = FALSE

(* The reconnect timer's callback. *)
ReconnectTimer ==
    /\ reconnectTimer
    /\ UNCHANGED <<shouldReconnect, isConnected, connectCalled>>
    /\ IF shouldReconnect
       THEN OpenSocket(FALSE)
       ELSE reconnectTimer' = FALSE /\ UNCHANGED <<sock, ws, reconnectAttempts>>

(* The 'open' event; every listener returns unless its socket is this.ws.  *)
OpenEvent(s) ==
    /\ sock[s] = "connecting"
    /\ sock' = [sock EXCEPT ![s] = "open"]
    /\ isConnected' = (isConnected \/ ws = s)
    /\ reconnectAttempts' = IF ws = s THEN 0 ELSE reconnectAttempts
    /\ UNCHANGED <<ws, shouldReconnect, reconnectTimer, connectCalled>>

(* The 'close' event: the server went away, refused the connection, or the *)
(* closing handshake ended.  An 'error' event before it changes nothing.   *)
CloseEvent(s) ==
    /\ sock[s] # "gone"
    /\ sock' = [sock EXCEPT ![s] = "gone"]
    /\ UNCHANGED <<shouldReconnect, connectCalled>>
    /\ IF ws = s
       THEN /\ isConnected' = FALSE
            /\ ws' = NoSocket
            /\ IF shouldReconnect
               THEN ScheduleReconnect
               ELSE UNCHANGED <<reconnectAttempts, reconnectTimer>>
       ELSE UNCHANGED <<ws, isConnected, reconnectAttempts, reconnectTimer>>

(* An open socket starts to close: the server sent a close frame, or       *)
(* #onMessage met a payload over MAX_PAYLOAD_BYTES on this.ws.             *)
StartClosing(s) ==
    /\ sock[s] = "open"
    /\ sock' = [sock EXCEPT ![s] = "closing"]
    /\ UNCHANGED <<ws, shouldReconnect, isConnected, reconnectAttempts,
                   reconnectTimer, connectCalled>>

ClientNext ==
    \/ connect
    \/ disconnect
    \/ ReconnectTimer
    \/ \E s \in Sockets : OpenEvent(s) \/ CloseEvent(s) \/ StartClosing(s)

ClientSpec == ClientInit /\ [][ClientNext]_clientVars

-----------------------------------------------------------------------------
(* A connecting or open socket is always the one in this.ws: the listeners *)
(* of any other socket return at once, so a second live socket would hold  *)
(* a server connection whose messages are all thrown away.                 *)
LiveIsCurrent == \A s \in Sockets : sock[s] \in Live => ws = s

(* After connect() the client is never left with nothing to do: it has a   *)
(* socket, or a reconnect timer that will open one.                        *)
NeverAbandoned == connectCalled => ws # NoSocket \/ reconnectTimer

(* A pending reconnect timer never finds a live socket when it fires, and  *)
(* none survives disconnect(): its callback opens a socket unconditionally *)
(* while shouldReconnect is set.                                           *)
TimerSafe == reconnectTimer => shouldReconnect /\ ~ConnectedOrConnecting
=============================================================================
