----------------------------- MODULE LiveUpdates -----------------------------
(***************************************************************************)
(* How one open panel session keeps its inbounds and clients lists up to   *)
(* date: the handlers on the server that commit an edit and then broadcast *)
(* it (controller/inbound.go, controller/client.go, websocket/hub.go), the *)
(* session's socket (WebSocketClient), the bridge that turns a message     *)
(* into a refetch (websocketBridge.ts, invalidationTracker.ts), and the    *)
(* two query caches behind the Inbounds and the Clients page.              *)
(*                                                                         *)
(* A list is abstracted to the number of edits it shows.                   *)
(***************************************************************************)
EXTENDS WebSocketClient, Sequences

CONSTANTS Worlds    \* circumstances: see Circumstances

VARIABLES world,    \* the circumstances of this behaviour, fixed by Init
          version,  \* per list, the edits the server has committed
          job,      \* per admin, the request handler at work for it
          reply,    \* the answer to this session's own request
          net,      \* broadcasts on their way over the open socket
          pending,  \* the bridge's invalidateTimer: what it will refetch
          pinned,   \* the timer was set before the last local invalidation
          recent,   \* isRecentLocalInvalidate()
          page,     \* the page this session shows
          cache,    \* per list, the edits the cached query data shows
          stale,    \* per list, whether the query is marked invalidated
          fetch,    \* per list, the request under way
          budget    \* edits, faults and page changes left

Lists == {"inbounds", "clients"}
Admins == {"me", "other"}
None == "none"
Circumstances == [ops : SUBSET {"update", "toggle", "client"}, admins : SUBSET Admins,
                  large : BOOLEAN, connected : BOOLEAN, edits : Nat, faults : Nat, moves : Nat]

vars == <<clientVars, world, version, job, reply, net, pending, pinned, recent,
          page, cache, stale, fetch, budget>>
serverVars == <<version, job>>
bridgeVars == <<pending, pinned, recent>>
queryVars == <<cache, stale, fetch>>

NoFetch == [step |-> "idle", read |-> 0]
Sent == [step |-> "sent", read |-> 0]
Idle == [op |-> None, step |-> "idle", list |-> 0]

(* The socket is already open. *)
ConnectedInit ==
    /\ ws \in Sockets
    /\ sock = [s \in Sockets |-> IF s = ws THEN "open" ELSE "gone"]
    /\ shouldReconnect = TRUE
    /\ isConnected = TRUE
    /\ reconnectAttempts = 0
    /\ reconnectTimer = FALSE
    /\ connectCalled = TRUE

(* The session has just loaded its page over REST; an edit made between    *)
(* that and the opening of its socket is never announced to it.            *)
Init ==
    /\ world \in Worlds
    /\ IF world.connected THEN ConnectedInit ELSE ClientInit
    /\ version = [l \in Lists |-> 0]
    /\ job = [a \in Admins |-> Idle]
    /\ reply = None
    /\ net = <<>>
    /\ pending = None
    /\ pinned = FALSE
    /\ recent = FALSE
    /\ page \in Lists
    /\ cache = [l \in Lists |-> 0]
    /\ stale = [l \in Lists |-> FALSE]
    /\ fetch = [l \in Lists |-> NoFetch]
    /\ budget = [edits |-> world.edits, faults |-> world.faults, moves |-> world.moves]

Spend(kind) == budget[kind] > 0 /\ budget' = [budget EXCEPT ![kind] = @ - 1]

-----------------------------------------------------------------------------
(* React Query (external).  An invalidated query is refetched at once when *)
(* a mounted component observes it, cancelling a fetch under way; one that *)
(* nobody observes is only marked.  A mount refetches a marked query.      *)

Refetched(ls) == [l \in Lists |-> IF l \in ls THEN Sent ELSE fetch[l]]

invalidateQueries(ls) ==
    /\ stale' = [l \in Lists |-> stale[l] \/ l \in ls]
    /\ fetch' = Refetched(ls \cap {page})
    /\ UNCHANGED cache

setQueryData(l, v) ==
    /\ cache' = [cache EXCEPT ![l] = v]
    /\ stale' = [stale EXCEPT ![l] = FALSE]
    /\ UNCHANGED fetch

(* The server answers a list request with what is committed by then. *)
Serve(l) ==
    /\ fetch[l] = Sent
    /\ fetch' = [fetch EXCEPT ![l] = [step |-> "served", read |-> version[l]]]
    /\ UNCHANGED <<clientVars, world, serverVars, reply, net, bridgeVars, page,
                   cache, stale, budget>>

Fetched(l) ==
    /\ fetch[l].step = "served"
    /\ cache' = [cache EXCEPT ![l] = fetch[l].read]
    /\ stale' = [stale EXCEPT ![l] = FALSE]
    /\ fetch' = [fetch EXCEPT ![l] = NoFetch]
    /\ UNCHANGED <<clientVars, world, serverVars, reply, net, bridgeVars, page, budget>>

(* The request and its one retry fail: the old data stays, marked. *)
FetchFails(l) ==
    /\ fetch[l] # NoFetch
    /\ Spend("faults")
    /\ stale' = [stale EXCEPT ![l] = TRUE]
    /\ fetch' = [fetch EXCEPT ![l] = NoFetch]
    /\ UNCHANGED <<clientVars, world, serverVars, reply, net, bridgeVars, page, cache>>

(* A fetch without cancelling joins the one under way. *)
StartFetch(l) == fetch[l] = NoFetch /\ fetch' = Refetched({l})

\* Mutant: the page is only polled once a message marked it.
PollIfMarked ==
    /\ page = "clients"
    /\ stale["clients"]
    /\ StartFetch("clients")
    /\ UNCHANGED <<clientVars, world, serverVars, reply, net, bridgeVars, page,
                   cache, stale, budget>>

(* useClients' listQuery: refetchInterval 5000, on the Clients page only. *)
Poll ==
    /\ page = "clients"
    /\ StartFetch("clients")
    /\ UNCHANGED <<clientVars, world, serverVars, reply, net, bridgeVars, page,
                   cache, stale, budget>>

(* The window regains focus: useInbounds' slimQuery never goes stale by    *)
(* age, so only a marked one is refetched.                                 *)
Focus ==
    /\ page = "inbounds"
    /\ stale["inbounds"]
    /\ StartFetch("inbounds")
    /\ UNCHANGED <<clientVars, world, serverVars, reply, net, bridgeVars, page,
                   cache, stale, budget>>

-----------------------------------------------------------------------------
(* The server.  An inbound is added, updated or deleted ("update"), its    *)
(* switch or sort index set ("toggle"), or a client is changed ("client"). *)
(* A client is also part of the inbounds it is attached to, and the        *)
(* clients list shows the inbounds.                                        *)

Touches(op) == IF op = "toggle" THEN {"inbounds"} ELSE Lists

Commit(a, op) ==
    /\ op \in world.ops /\ a \in world.admins
    /\ job[a] = Idle
    /\ a = "me" => /\ reply = None
                   /\ page = IF op = "client" THEN "clients" ELSE "inbounds"
    /\ Spend("edits")
    /\ version' = [l \in Lists |-> IF l \in Touches(op) THEN version[l] + 1 ELSE version[l]]
    /\ job' = [job EXCEPT ![a] = [op |-> op, step |-> "committed", list |-> 0]]
    /\ reply' = IF a = "me" THEN op ELSE reply
    /\ UNCHANGED <<clientVars, world, net, bridgeVars, page, queryVars>>

(* broadcastInboundsUpdate reads the list again before it sends it. *)
ReadList(a) ==
    /\ job[a].op = "update" /\ job[a].step = "committed"
    /\ job' = [job EXCEPT ![a].step = "read", ![a].list = version["inbounds"]]
    /\ UNCHANGED <<clientVars, world, version, reply, net, bridgeVars, page,
                   queryVars, budget>>

Invalidate(l) == [type |-> "invalidate", list |-> l, read |-> 0]
Push(v) == [type |-> "push", list |-> "inbounds", read |-> v]

(* What each handler broadcasts after its commit; past 5000 clients (a     *)
(* large panel) the list itself is replaced by a signal to refetch it.     *)
Messages(j) ==
    CASE j.op = "update" -> <<IF world.large THEN Invalidate("inbounds") ELSE Push(j.list),
                              Invalidate("clients")>>
      [] j.op = "toggle" -> <<Invalidate("inbounds")>>
      [] j.op = "client" -> <<Invalidate("clients")>>

SocketOpen == ws # NoSocket /\ sock[ws] = "open"

(* Hub.Broadcast: only a session that is connected gets the message, and   *)
(* the hub drops one when its channel is full or, for a pushed list, when  *)
(* another was pushed less than minBroadcastInterval ago.                  *)
Broadcast(a) ==
    LET msgs == Messages(job[a])
        kept(ok) == SelectSeq([i \in DOMAIN msgs |-> i], LAMBDA i : i \in ok)
    IN  /\ job[a].step = IF job[a].op = "update" THEN "read" ELSE "committed"
        /\ job' = [job EXCEPT ![a] = Idle]
        /\ \E ok \in SUBSET DOMAIN msgs :
              /\ IF ok = DOMAIN msgs THEN UNCHANGED budget ELSE Spend("faults")
              /\ net' = IF SocketOpen
                        THEN net \o [i \in DOMAIN kept(ok) |-> msgs[kept(ok)[i]]]
                        ELSE net
        /\ UNCHANGED <<clientVars, world, version, reply, bridgeVars, page, queryVars>>

-----------------------------------------------------------------------------
(* The session's socket. *)

(* A constructor that throws is a fault; it shows as a timer set again. *)
Connects == IF reconnectTimer' THEN Spend("faults") ELSE UNCHANGED budget

(* useWebSocketBridge mounts with the panel layout. *)
Mount ==
    /\ ~connectCalled
    /\ connect
    /\ Connects
    /\ UNCHANGED <<world, serverVars, reply, net, bridgeVars, page, queryVars>>

Reconnect ==
    /\ ReconnectTimer
    /\ Connects
    /\ UNCHANGED <<world, serverVars, reply, net, bridgeVars, page, queryVars>>

Opened(s) ==
    /\ OpenEvent(s)
    /\ UNCHANGED <<world, serverVars, reply, net, bridgeVars, page, queryVars, budget>>

(* What was on its way over a socket is lost with it.  No listener of      *)
(* 'connected' or 'disconnected' refetches anything.                       *)
Closed(s) ==
    /\ CloseEvent(s)
    /\ IF sock[s] = "closing" THEN UNCHANGED budget ELSE Spend("faults")
    /\ net' = IF ws = s THEN <<>> ELSE net
    /\ UNCHANGED <<world, serverVars, reply, bridgeVars, page, queryVars>>

Closing(s) ==
    /\ StartClosing(s)
    /\ Spend("faults")
    /\ net' = IF ws = s THEN <<>> ELSE net
    /\ UNCHANGED <<world, serverVars, reply, bridgeVars, page, queryVars>>

-----------------------------------------------------------------------------
(* The bridge. *)

(* onInvalidate: one timer for both lists, so the last signal within 200 ms *)
(* decides what is refetched.  onInbounds: the pushed list is the data.    *)
onInvalidate(l) ==
    /\ pending' = l
    /\ pinned' = FALSE
    /\ UNCHANGED <<recent, queryVars>>

onInbounds(v) == setQueryData("inbounds", v) /\ UNCHANGED bridgeVars

Deliver ==
    /\ SocketOpen /\ net # <<>>
    /\ net' = Tail(net)
    /\ LET msg == Head(net)
       IN  IF msg.type = "push" THEN onInbounds(msg.read) ELSE onInvalidate(msg.list)
    /\ UNCHANGED <<clientVars, world, serverVars, reply, page, budget>>

\* Mutant: only what the page on screen shows is refetched.
InvalidateTimerActive ==
    /\ pending # None
    /\ pending' = None
    /\ pinned' = FALSE
    /\ IF recent \/ pending # page THEN UNCHANGED queryVars ELSE invalidateQueries({pending})
    /\ UNCHANGED <<clientVars, world, serverVars, reply, net, recent, page, budget>>

(* The timer's callback: nothing within 1500 ms of a local invalidation. *)
InvalidateTimer ==
    /\ pending # None
    /\ pending' = None
    /\ pinned' = FALSE
    /\ IF recent THEN UNCHANGED queryVars ELSE invalidateQueries({pending})
    /\ UNCHANGED <<clientVars, world, serverVars, reply, net, recent, page, budget>>

(* The 1500 ms pass.  A timer set before the local invalidation runs out   *)
(* first, having only 200 ms.                                              *)
WindowPasses ==
    /\ recent /\ ~pinned
    /\ recent' = FALSE
    /\ UNCHANGED <<clientVars, world, serverVars, reply, net, pending, pinned, page,
                   queryVars, budget>>

-----------------------------------------------------------------------------
(* The admin of this session. *)

(* useClients.invalidateAll, after a client mutation. *)
invalidateAll ==
    /\ recent' = TRUE
    /\ pinned' = (pending # None)
    /\ UNCHANGED pending
    /\ invalidateQueries(Lists)

(* useInbounds.refresh, after an inbound is saved or deleted. *)
refresh == invalidateQueries({"inbounds"}) /\ UNCHANGED bridgeVars

(* The answer to an own request: of a client mutation, of a handler of the *)
(* Inbounds page, and of the switch, whose row was changed in place before *)
(* the request and after which nothing is refetched.                       *)
ClientAnswered == reply = "client" /\ invalidateAll
InboundAnswered == reply = "update" /\ refresh
onSwitchEnable == reply = "toggle" /\ UNCHANGED <<bridgeVars, queryVars>>

Answered ==
    /\ reply' = None
    /\ ClientAnswered \/ InboundAnswered \/ onSwitchEnable
    /\ UNCHANGED <<clientVars, world, serverVars, net, page, budget>>

(* The edit was made but its answer is lost: HttpUtil reports a failure    *)
(* and no query is invalidated.                                            *)
AnswerLost ==
    /\ reply # None
    /\ Spend("faults")
    /\ reply' = None
    /\ UNCHANGED <<clientVars, world, serverVars, net, bridgeVars, page, queryVars>>

(* Going to the other page mounts its hooks: useWebSocket connects, and a  *)
(* query marked meanwhile is refetched.                                    *)
Move ==
    /\ connectCalled
    /\ budget.moves > 0
    /\ connect
    /\ budget' = [budget EXCEPT !.moves = @ - 1, !.faults = IF reconnectTimer' THEN @ - 1 ELSE @]
    /\ budget'.faults >= 0
    /\ \E l \in Lists \ {page} :
          /\ page' = l
          /\ fetch' = IF stale[l] /\ fetch[l] = NoFetch THEN Refetched({l}) ELSE fetch
    /\ UNCHANGED <<world, serverVars, reply, net, bridgeVars, cache, stale>>

Next ==
    \/ \E l \in Lists : Serve(l) \/ Fetched(l) \/ FetchFails(l)
    \/ Poll \/ Focus
    \/ \E a \in Admins : \/ \E op \in {"update", "toggle", "client"} : Commit(a, op)
                         \/ ReadList(a) \/ Broadcast(a)
    \/ Mount \/ Reconnect
    \/ \E s \in Sockets : Opened(s) \/ Closed(s) \/ Closing(s)
    \/ Deliver \/ InvalidateTimer \/ WindowPasses
    \/ Answered \/ AnswerLost \/ Move

(* Requests are served, handlers run on, messages arrive, timers fire, and *)
(* a server that can be reached accepts the connection.                    *)
Fairness ==
    /\ \A l \in Lists : WF_vars(Serve(l)) /\ WF_vars(Fetched(l))
    /\ \A a \in Admins : WF_vars(ReadList(a)) /\ WF_vars(Broadcast(a))
    /\ \A s \in Sockets : WF_vars(Opened(s)) /\ WF_vars(sock[s] = "closing" /\ Closed(s))
    /\ WF_vars(Mount) /\ WF_vars(Reconnect)
    /\ WF_vars(Deliver) /\ WF_vars(InvalidateTimer) /\ WF_vars(WindowPasses)
    /\ WF_vars(Answered) /\ WF_vars(Poll)

Spec == Init /\ [][Next]_vars /\ Fairness

-----------------------------------------------------------------------------
(* Whatever messages, answers and connections were lost, the Clients page  *)
(* ends up showing what the server holds: its list is polled, and every    *)
(* cause of a stale cache (a coalesced or suppressed signal, a reply older *)
(* than a later edit) is repaired by the next poll.                        *)
ClientsFresh == <>[](page = "clients" => cache["clients"] = version["clients"])

(* The switch of an inbound reaches every session that stays connected, by *)
(* the signal alone: through the bridge's timer, a fetch already under way *)
(* and a page that is not on screen.                                       *)
TogglesShown ==
    world.ops = {"toggle"} /\ world.faults = 0 /\ world.connected
        => <>[](page = "inbounds" => cache["inbounds"] = version["inbounds"])

(* A session whose connection fails, is closed or cannot be opened ends up *)
(* connected again, through the reconnect timer and the hooks' connect().  *)
Reconnects == <>[]SocketOpen
=============================================================================
