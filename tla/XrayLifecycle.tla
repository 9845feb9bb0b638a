--------------------------- MODULE XrayLifecycle ---------------------------
(***************************************************************************)
(* The life of the Xray core under the panel: RestartXray, StopXray,       *)
(* ApplyPendingRestart and the hot apply of internal/web/service/xray.go,  *)
(* the process wrapper of internal/xray/process.go, the watchdog job, and  *)
(* the inbound handlers that push their edit to the running core.          *)
(*                                                                         *)
(* A configuration is a function from inbound tags to the port the inbound *)
(* binds, 0 for no inbound.  What else an inbound holds does not matter    *)
(* here.  Three copies of it can differ: db, what GetXrayConfig would      *)
(* render; cfg, the snapshot kept in the Process; live, the handlers of    *)
(* the running core.                                                       *)
(***************************************************************************)
EXTENDS Naturals, FiniteSets

CONSTANTS
    Tags,         \* inbound tags
    Ports,        \* ports an inbound may bind
    Shareable,    \* ports the kernel lets two sockets share
    Editors,      \* request goroutines that edit the configuration
    Worlds,       \* the kinds of edit in play, and how many handlers at once
    MaxEdits,     \* bound: edits in one behaviour
    MaxFaults,    \* bound: crashes and failed calls in one behaviour
    MaxRequests,  \* bound: operator requests to stop or restart the core
    NoOne         \* nobody holds the lock

ASSUME PortsAssumption     == Ports \subseteq Nat \ {0} /\ Shareable \subseteq Ports
ASSUME BoundsAssumption    == {MaxEdits, MaxFaults, MaxRequests} \subseteq Nat
ASSUME WorldsAssumption    ==
    Worlds \subseteq [ops : SUBSET {"add", "del", "update", "settings"}, handlers : Nat]

\* Who calls RestartXray: ApplyPendingRestart, the watchdog, a plain request
\* (controllers, the traffic job) and a forced one (operator, node job).
Restarters == {"pending", "watchdog", "request", "force"}

\* A free lock is held by none of them.
ASSUME NoOneAssumption == NoOne \notin Restarters

NoConfig == [t \in Tags |-> 0]

VARIABLES
    db,               \* the configuration the database holds
    rev,              \* commits to it so far
    lock,             \* the restarter that holds the package lock, or NoOne
    isNeedXrayRestart,
    isManuallyStopped,
    heldBack,         \* xrayState.heldBack is not empty
    core,             \* the process of xrayState; dying: killed, not yet gone
    cfg, cfgRev,      \* its config snapshot, and the commit that is from
    live,             \* the inbound handlers of the core
    strays,           \* earlier cores that outlived their Stop
    pc,               \* per restarter: where RestartXray is
    new, newRev,      \* per restarter: the config it read
    toDel, toAdd,     \* the hot apply in progress: API calls still to make
    checkTime,        \* CheckXrayRunningJob.checkTime
    edit,             \* per editor: the handler in progress
    world,            \* the edits of this behaviour, chosen at its start
    edits, faults, requests

coreVars == <<core, cfg, cfgRev, live, strays, heldBack>>
callVars == <<lock, pc, new, newRev, toDel, toAdd>>
editVars == <<db, rev, edit, edits, world>>
flags == <<isNeedXrayRestart, isManuallyStopped>>
vars == <<coreVars, callVars, editVars, flags, checkTime, faults, requests>>

NoEdit == [op |-> "none", tag |-> NoOne, port |-> 0, step |-> "idle", need |-> FALSE]

\* The panel starts: startTask calls RestartXray(true).
Init ==
    /\ db = NoConfig /\ cfg = NoConfig /\ live = NoConfig
    /\ rev = 0 /\ cfgRev = 0
    /\ lock = NoOne
    /\ isNeedXrayRestart = FALSE /\ isManuallyStopped = FALSE
    /\ heldBack = FALSE
    /\ core = "none" /\ strays = 0
    /\ pc = [a \in Restarters |-> IF a = "force" THEN "want" ELSE "idle"]
    /\ new = [a \in Restarters |-> NoConfig]
    /\ newRev = [a \in Restarters |-> 0]
    /\ toDel = {} /\ toAdd = {}
    /\ checkTime = 0
    /\ edit = [e \in Editors |-> NoEdit]
    /\ world \in Worlds
    /\ edits = 0 /\ faults = 0 /\ requests = 0

\* Process.IsRunning: started, and not seen to exit.
IsRunning == core \in {"starting", "up", "dying"}

Fault == faults < MaxFaults /\ faults' = faults + 1

-----------------------------------------------------------------------------
(* Port conflicts *)

\* The sockets two inbounds of a config share.  The key of a conflict leaves
\* the tags out, as bindPairKey does.
BindPairs(c) == {p \in Ports : \E s, t \in Tags : s # t /\ c[s] = p /\ c[t] = p}

\* Mutant: the collisions of the new config are not looked for.
NoBindConflicts(c, running) == {}

\* Collisions of c, less the ones the running config already serves.
BindConflicts(c, running) == BindPairs(c) \ BindPairs(running)

\* The kernel grants every socket that c shares.
Bindable(c) == BindPairs(c) \subseteq Shareable

-----------------------------------------------------------------------------
(* RestartXray *)

\* An operator's request, forced or not.
RestartRequest(a) ==
    /\ a \in {"request", "force"}
    /\ pc[a] = "idle"
    /\ requests < MaxRequests
    /\ requests' = requests + 1
    /\ pc' = [pc EXCEPT ![a] = "want"]
    /\ UNCHANGED <<coreVars, lock, new, newRev, toDel, toAdd, editVars, flags,
                   checkTime, faults>>

\* The call gives the lock back.  A caller that got an error may act on it;
\* the watchdog starts to count anew either way.
Return(a, failed) ==
    /\ lock' = NoOne
    /\ checkTime' = IF a = "watchdog" THEN 0 ELSE checkTime
    /\ pc' = [pc EXCEPT ![a] = IF failed THEN "failed" ELSE "idle"]
    /\ new' = [new EXCEPT ![a] = NoConfig]
    /\ newRev' = [newRev EXCEPT ![a] = 0]

\* Mutant: the call runs without the package lock.
RestartUnlocked(a) ==
    /\ pc[a] = "want"
    /\ a # "force" => ~isManuallyStopped
    /\ isManuallyStopped' = FALSE
    /\ pc' = [pc EXCEPT ![a] = "read"]
    /\ UNCHANGED <<coreVars, lock, new, newRev, toDel, toAdd, editVars,
                   isNeedXrayRestart, checkTime, faults, requests>>

\* Mutant: a plain restart clears the manual stop too.
RestartStopped(a) ==
    /\ pc[a] = "want"
    /\ lock = NoOne
    /\ lock' = a
    /\ isManuallyStopped' = FALSE
    /\ pc' = [pc EXCEPT ![a] = "read"]
    /\ UNCHANGED <<coreVars, new, newRev, toDel, toAdd, editVars,
                   isNeedXrayRestart, checkTime, faults, requests>>

RestartLock(a) ==
    /\ pc[a] = "want"
    /\ lock = NoOne
    /\ a # "force" => ~isManuallyStopped
    /\ lock' = a
    /\ isManuallyStopped' = FALSE
    /\ pc' = [pc EXCEPT ![a] = "read"]
    /\ UNCHANGED <<coreVars, new, newRev, toDel, toAdd, editVars,
                   isNeedXrayRestart, checkTime, faults, requests>>

\* A call that is not forced leaves a manually stopped core alone.
RestartRefused(a) ==
    /\ pc[a] = "want"
    /\ lock = NoOne
    /\ a # "force" /\ isManuallyStopped
    /\ Return(a, FALSE)
    /\ UNCHANGED <<coreVars, toDel, toAdd, editVars, flags,
                   faults, requests>>

\* GetXrayConfig and RefreshRatePolicy.
RestartRead(a) ==
    /\ pc[a] = "read"
    /\ new' = [new EXCEPT ![a] = db]
    /\ newRev' = [newRev EXCEPT ![a] = rev]
    /\ pc' = [pc EXCEPT ![a] = "decide"]
    /\ UNCHANGED <<coreVars, lock, toDel, toAdd, editVars, flags, checkTime,
                   faults, requests>>

RestartReadFails(a) ==
    /\ pc[a] = "read"
    /\ Fault
    /\ Return(a, TRUE)
    /\ UNCHANGED <<coreVars, toDel, toAdd, editVars, flags,
                   requests>>

\* The running core has this config, and nobody asked for a restart.
Unneeded(a) == a # "force" /\ cfg = new[a] /\ ~isNeedXrayRestart

RestartUnneeded(a) ==
    /\ pc[a] = "decide"
    /\ IsRunning /\ Unneeded(a)
    /\ Return(a, FALSE)
    /\ UNCHANGED <<coreVars, toDel, toAdd, editVars, flags,
                   faults, requests>>

RestartHeldBack(a) ==
    /\ pc[a] = "decide"
    /\ IsRunning /\ ~Unneeded(a)
    /\ BindConflicts(new[a], cfg) # {}
    /\ heldBack' = TRUE
    /\ Return(a, TRUE)
    /\ UNCHANGED <<core, cfg, cfgRev, live, strays, toDel, toAdd,
                   editVars, flags, faults, requests>>

\* tryHotApply up to its first API call: removals, then additions.
HotApply(a) ==
    /\ pc[a] = "decide"
    /\ IsRunning /\ ~Unneeded(a)
    /\ BindConflicts(new[a], cfg) = {}
    /\ a # "force" /\ cfg # new[a]
    /\ toDel' = {t \in Tags : cfg[t] # 0 /\ cfg[t] # new[a][t]}
    /\ toAdd' = {t \in Tags : new[a][t] # 0 /\ cfg[t] # new[a][t]}
    /\ pc' = [pc EXCEPT ![a] = "hot"]
    /\ UNCHANGED <<coreVars, lock, new, newRev, editVars, flags, checkTime,
                   faults, requests>>

\* A restart is forced, asked for by the flag, or the diff cannot be applied
\* through the API (ComputeHotDiff, restartToDropClients, no API port).
RestartFull(a) ==
    /\ pc[a] = "decide"
    /\ IsRunning /\ ~Unneeded(a)
    /\ BindConflicts(new[a], cfg) = {}
    /\ pc' = [pc EXCEPT ![a] = "stop"]
    /\ UNCHANGED <<coreVars, lock, new, newRev, toDel, toAdd, editVars, flags,
                   checkTime, faults, requests>>

\* Nothing runs: conflicts are only logged.
RestartDown(a) ==
    /\ pc[a] = "decide"
    /\ ~IsRunning
    /\ pc' = [pc EXCEPT ![a] = "start"]
    /\ UNCHANGED <<coreVars, lock, new, newRev, toDel, toAdd, editVars, flags,
                   checkTime, faults, requests>>

\* process.Stop, whose error is ignored: a core that outlives SIGKILL by two
\* seconds goes on beside its successor.
RestartStop(a) ==
    /\ pc[a] = "stop"
    /\ \/ strays' = strays /\ faults' = faults
       \/ IsRunning /\ Fault /\ strays' = strays + 1
    /\ core' = "down"
    /\ live' = NoConfig
    /\ pc' = [pc EXCEPT ![a] = "start"]
    /\ UNCHANGED <<cfg, cfgRev, heldBack, lock, new, newRev, toDel, toAdd,
                   editVars, flags, checkTime, requests>>

\* NewProcess, replace and Start; writing the config or the exec may fail.
RestartStart(a) ==
    /\ pc[a] = "start"
    /\ cfg' = new[a] /\ cfgRev' = newRev[a]
    /\ live' = NoConfig
    /\ heldBack' = FALSE
    /\ \/ core' = "starting" /\ faults' = faults /\ Return(a, FALSE)
       \/ core' = "down" /\ Fault /\ Return(a, TRUE)
    /\ UNCHANGED <<strays, toDel, toAdd, editVars, flags, requests>>

\* Mutant: ApplyPendingRestart only logs the error.
CallerFailsDropped(a) ==
    /\ pc[a] = "failed"
    /\ pc' = [pc EXCEPT ![a] = "idle"]
    /\ UNCHANGED <<coreVars, lock, new, newRev, toDel, toAdd, editVars, flags,
                   checkTime, faults, requests>>

\* What the caller does with an error: ApplyPendingRestart and the traffic
\* jobs arm the flag again, controllers and the watchdog only report it.
CallerFails(a) ==
    /\ pc[a] = "failed"
    /\ \/ a # "watchdog" /\ isNeedXrayRestart' = TRUE
       \/ a # "pending" /\ UNCHANGED isNeedXrayRestart
    /\ pc' = [pc EXCEPT ![a] = "idle"]
    /\ UNCHANGED <<coreVars, lock, new, newRev, toDel, toAdd, editVars,
                   isManuallyStopped, checkTime, faults, requests>>

-----------------------------------------------------------------------------
(* tryHotApply: API calls to the core, each of which may fail *)

\* The core can open p for the inbound t.
PortFree(t, p) == p \in Shareable \/ \A s \in Tags \ {t} : live[s] # p

\* A handler the core does not have counts as removed.
HotDel(a) ==
    /\ pc[a] = "hot"
    /\ core = "up"
    /\ \E t \in toDel : /\ live' = [live EXCEPT ![t] = 0]
                       /\ toDel' = toDel \ {t}
    /\ UNCHANGED <<core, cfg, cfgRev, strays, heldBack, lock, pc, new, newRev,
                   toAdd, editVars, flags, checkTime, faults, requests>>

\* addInboundReconciling: a handler of the same tag is replaced.
HotAdd(a) ==
    /\ pc[a] = "hot"
    /\ core = "up"
    /\ toDel = {}
    /\ \E t \in toAdd : /\ PortFree(t, new[a][t])
                       /\ live' = [live EXCEPT ![t] = new[a][t]]
                       /\ toAdd' = toAdd \ {t}
    /\ UNCHANGED <<core, cfg, cfgRev, strays, heldBack, lock, pc, new, newRev,
                   toDel, editVars, flags, checkTime, faults, requests>>

\* A failed call ends the hot apply, in the middle of a replacement perhaps.
HotFails(a) ==
    /\ pc[a] = "hot"
    /\ toDel \cup toAdd # {}
    /\ \/ core # "up" /\ faults' = faults
       \/ /\ toDel = {} /\ faults' = faults
          /\ \E t \in toAdd : ~PortFree(t, new[a][t])
       \/ Fault
    /\ live' \in {live} \cup {[live EXCEPT ![t] = 0] : t \in toAdd}
    /\ toDel' = {} /\ toAdd' = {}
    /\ pc' = [pc EXCEPT ![a] = "stop"]
    /\ UNCHANGED <<core, cfg, cfgRev, strays, heldBack, lock, new, newRev,
                   editVars, flags, checkTime, requests>>

\* Mutant: the snapshot is stored when the removals are done.
HotDoneEarly(a) ==
    /\ pc[a] = "hot"
    /\ toDel = {}
    /\ cfg' = new[a] /\ cfgRev' = newRev[a]
    /\ toAdd' = {}
    /\ Return(a, FALSE)
    /\ UNCHANGED <<core, live, strays, heldBack, toDel,
                   editVars, flags, faults, requests>>

HotDone(a) ==
    /\ pc[a] = "hot"
    /\ toDel = {} /\ toAdd = {}
    /\ cfg' = new[a] /\ cfgRev' = newRev[a]
    /\ Return(a, FALSE)
    /\ UNCHANGED <<core, live, strays, heldBack, toDel, toAdd,
                   editVars, flags, faults, requests>>

-----------------------------------------------------------------------------
(* The other operations on the core *)

\* StopXray; with nothing running it still records the stop.  Its wait for the
\* core to exit may time out.
StopXray ==
    /\ requests < MaxRequests
    /\ requests' = requests + 1
    /\ lock = NoOne
    /\ isManuallyStopped' = TRUE
    /\ \/ core' = (IF IsRunning THEN "down" ELSE core) /\ faults' = faults
       \/ IsRunning /\ Fault /\ core' = "dying"
    /\ live' = NoConfig
    /\ UNCHANGED <<cfg, cfgRev, strays, heldBack, callVars, editVars,
                   isNeedXrayRestart, checkTime>>

\* The cron tick: the flag is taken before the call waits for the lock.
ApplyPendingRestart ==
    /\ pc["pending"] = "idle"
    /\ isNeedXrayRestart
    /\ isNeedXrayRestart' = FALSE
    /\ pc' = [pc EXCEPT !["pending"] = "want"]
    /\ UNCHANGED <<coreVars, lock, new, newRev, toDel, toAdd, editVars,
                   isManuallyStopped, checkTime, faults, requests>>

DidXrayCrash == ~IsRunning /\ ~isManuallyStopped

\* Mutant: the job does not count what it saw on the tick before.
WatchdogTickOnce ==
    /\ pc["watchdog"] = "idle"
    /\ checkTime' = IF DidXrayCrash THEN 1 ELSE 0
    /\ UNCHANGED <<coreVars, callVars, editVars, flags, faults, requests>>

\* CheckXrayRunningJob.Run, which restarts a core found down twice in a row.
WatchdogTick ==
    /\ pc["watchdog"] = "idle"
    /\ checkTime' = IF DidXrayCrash THEN checkTime + 1 ELSE 0
    /\ pc' = IF checkTime' > 1 THEN [pc EXCEPT !["watchdog"] = "want"] ELSE pc
    /\ UNCHANGED <<coreVars, lock, new, newRev, toDel, toAdd, editVars, flags,
                   faults, requests>>

\* The core opens its sockets and then its API, or exits.  An earlier core
\* that still runs holds at least the port of the API inbound.
CoreStarts ==
    /\ core = "starting"
    /\ IF Bindable(cfg) /\ strays = 0
       THEN core' = "up" /\ live' = cfg
       ELSE core' = "down" /\ UNCHANGED live
    /\ UNCHANGED <<cfg, cfgRev, strays, heldBack, callVars, editVars, flags,
                   checkTime, faults, requests>>

CoreExits ==
    /\ \/ core \in {"starting", "up"} /\ Fault
       \/ core = "dying" /\ faults' = faults
    /\ core' = "down" /\ live' = NoConfig
    /\ UNCHANGED <<cfg, cfgRev, strays, heldBack, callVars, editVars, flags,
                   checkTime, requests>>

\* SIGKILL takes effect.
StrayExits ==
    /\ strays > 0
    /\ strays' = strays - 1
    /\ UNCHANGED <<core, cfg, cfgRev, live, heldBack, callVars, editVars, flags,
                   checkTime, faults, requests>>

-----------------------------------------------------------------------------
(* Edits.  The handler commits, then pushes what it committed to the core,  *)
(* then arms the flag if the service reported needRestart.                  *)

Commit(e, op, t, p, step) ==
    /\ op \in world.ops
    /\ Cardinality({d \in Editors : edit[d].step # "idle"}) < world.handlers
    /\ edit[e].step = "idle"
    /\ edits < MaxEdits
    /\ edits' = edits + 1
    /\ rev' = rev + 1
    /\ UNCHANGED world
    /\ db' = [db EXCEPT ![t] = p]
    /\ edit' = [edit EXCEPT ![e] = [op |-> op, tag |-> t, port |-> p,
                                    step |-> step, need |-> op = "settings"]]
    /\ UNCHANGED <<coreVars, callVars, flags, checkTime, faults, requests>>

\* The save-time guard: no other inbound has the port.
PortUnused(t, p) == \A s \in Tags \ {t} : db[s] # p

AddInbound(e, t, p) ==
    /\ db[t] = 0 /\ PortUnused(t, p)
    /\ Commit(e, "add", t, p, "add")

DelInbound(e, t) ==
    /\ db[t] # 0
    /\ Commit(e, "del", t, 0, "del")

UpdateInbound(e, t, p) ==
    /\ db[t] \notin {0, p} /\ PortUnused(t, p)
    /\ Commit(e, "update", t, p, "del")

\* A change that only a rebuilt config carries (the template, a restored
\* database): no push, and no save-time guard on the ports.
SaveSettings(e, t, p) ==
    /\ db[t] # p
    /\ Commit(e, "settings", t, p, "report")

\* Local.DelInbound.  UpdateInbound ignores its error, DelInbound does not.
PushDel(e) ==
    /\ edit[e].step = "del"
    /\ \E ok \in BOOLEAN :
         /\ IF ok THEN core = "up" /\ live[edit[e].tag] # 0 /\ faults' = faults
                  ELSE \/ core # "up" /\ faults' = faults
                       \/ live[edit[e].tag] = 0 /\ faults' = faults
                       \/ Fault
         /\ live' = IF ok THEN [live EXCEPT ![edit[e].tag] = 0] ELSE live
         /\ edit' = [edit EXCEPT
              ![e].step = IF edit[e].op = "update" THEN "add" ELSE "report",
              ![e].need = edit[e].op = "del" /\ ~ok]
    /\ UNCHANGED <<core, cfg, cfgRev, strays, heldBack, callVars, db, rev, edits, world,
                   flags, checkTime, requests>>

\* Local.AddInbound: the core refuses a tag it has and a port it cannot open.
PushAdd(e) ==
    /\ edit[e].step = "add"
    /\ \E ok \in BOOLEAN :
         /\ LET t == edit[e].tag
                can == core = "up" /\ live[t] = 0 /\ PortFree(t, edit[e].port)
            IN IF ok THEN can /\ faults' = faults
                     ELSE (~can /\ faults' = faults) \/ Fault
         /\ live' = IF ok THEN [live EXCEPT ![edit[e].tag] = edit[e].port] ELSE live
         /\ edit' = [edit EXCEPT ![e].step = "report", ![e].need = ~ok]
    /\ UNCHANGED <<core, cfg, cfgRev, strays, heldBack, callVars, db, rev, edits, world,
                   flags, checkTime, requests>>

\* The controller, with the needRestart it was given.
Report(e) ==
    /\ edit[e].step = "report"
    /\ isNeedXrayRestart' = (isNeedXrayRestart \/ edit[e].need)
    /\ edit' = [edit EXCEPT ![e] = NoEdit]
    /\ UNCHANGED <<coreVars, callVars, db, rev, edits, world, isManuallyStopped,
                   checkTime, faults, requests>>

-----------------------------------------------------------------------------
RestartXray(a) ==
    \/ RestartLock(a) \/ RestartRefused(a)
    \/ RestartRead(a) \/ RestartReadFails(a)
    \/ RestartUnneeded(a) \/ RestartHeldBack(a) \/ RestartFull(a) \/ RestartDown(a)
    \/ HotApply(a) \/ HotDel(a) \/ HotAdd(a) \/ HotFails(a) \/ HotDone(a)
    \/ RestartStop(a) \/ RestartStart(a)
    \/ CallerFails(a)

Push(e) == PushDel(e) \/ PushAdd(e) \/ Report(e)

Next ==
    \/ \E a \in Restarters : RestartRequest(a) \/ RestartXray(a)
    \/ StopXray
    \/ ApplyPendingRestart
    \/ WatchdogTick
    \/ CoreStarts \/ CoreExits \/ StrayExits
    \/ \E e \in Editors :
         \/ \E t \in Tags, p \in Ports : AddInbound(e, t, p) \/ UpdateInbound(e, t, p)
         \/ \E t \in Tags : DelInbound(e, t)
         \/ \E t \in Tags, p \in Ports \cup {0} : SaveSettings(e, t, p)
         \/ Push(e)

Spec == Init /\ [][Next]_vars

\* The cron fires its jobs again and again, a call that was made goes on (the
\* mutex of Go is starvation free), the core starts or exits, a killed process
\* dies.  Operator requests, edits and crashes need not happen.
Fairness ==
    /\ \A a \in Restarters : /\ SF_vars(RestartLock(a) \/ RestartRefused(a))
                             /\ WF_vars(RestartXray(a))
    /\ WF_vars(ApplyPendingRestart)
    /\ WF_vars(WatchdogTick)
    /\ WF_vars(CoreStarts)
    /\ WF_vars(core = "dying" /\ CoreExits)
    /\ WF_vars(StrayExits)
    /\ \A e \in Editors : WF_vars(Push(e))

FairSpec == Spec /\ Fairness

-----------------------------------------------------------------------------
(* Properties *)

\* A core that works is never stopped for a config the kernel will not let it
\* bind (the guard of RestartXray, against the comment above it): whatever a
\* restart stops, either its successor can open its sockets or the core it
\* stops had not opened its own.
WorkingCoreKept ==
    [][\A a \in Restarters :
         pc[a] = "stop" /\ pc'[a] = "start" /\ core = "up" => Bindable(new[a])]_vars

\* A core that was stopped from the panel stays down until a forced restart:
\* neither the watchdog, nor a pending restart, nor a plain request that raced
\* the stop for the lock brings it back.
StopSticks ==
    [][isManuallyStopped =>
         /\ core' = "starting" => core = "starting"
         /\ ~isManuallyStopped' => lock' = "force"]_vars

\* The served config never goes back to an older state of the database, though
\* restarts read it, apply it and start the core in separate steps.
ConfigNeverGoesBack == [][cfgRev' >= cfgRev]_vars

\* tryHotApply returns true only when the running instance matches newCfg, as
\* long as no edit is pushed to the core beside it.
HotApplyMatches ==
    [][\A a \in Restarters :
         world.ops = {"settings"} /\ pc[a] = "hot" /\ pc'[a] = "idle" /\ core = "up" => live = new[a]]_vars

\* No restart, edit or armed flag is left that would still change the core.
Quiescent ==
    /\ \A a \in Restarters : pc[a] = "idle"
    /\ \A e \in Editors : edit[e].step = "idle"
    /\ ~isNeedXrayRestart

\* ApplyPendingRestart never drops an edit that goes through a rebuilt config
\* (the template, the settings, a restored database): when nothing is pending
\* any more, the core that is up serves what the database holds, whatever
\* requests, ticks, crashes and failed calls came between.
RebuiltConfigServed ==
    world.ops = {"settings"} /\ Quiescent /\ core = "up" => live = db

\* Unless an operator stops it, the core ends up serving the database, or
\* serves its last config because the new one cannot be bound.
Converges ==
    <>[](\/ isManuallyStopped
         \/ core = "up" /\ live = db
         \/ core = "up" /\ BindConflicts(db, cfg) # {}
         \/ ~Bindable(db))
=============================================================================
