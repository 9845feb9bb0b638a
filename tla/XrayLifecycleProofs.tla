------------------------ MODULE XrayLifecycleProofs ------------------------
(***************************************************************************)
(* Proofs about XrayLifecycle, for any tags, ports, editors and bounds:    *)
(* the package lock and what hangs on it.  A restart reads the             *)
(* configuration, decides, and applies it in separate steps; what keeps a  *)
(* step from acting on a stale view is that the lock is held over all of   *)
(* them (LockInv), so that the snapshot of the core (cfg, cfgRev) only     *)
(* moves under the restart that is going on.                               *)
(*                                                                         *)
(* The second half goes on with what the core serves.                      *)
(***************************************************************************)
EXTENDS XrayLifecycle, TLAPS

Config == [Tags -> Ports \cup {0}]

Points == {"idle", "want", "read", "decide", "hot", "stop", "start", "failed"}

Edit == [op : {"none", "add", "del", "update", "settings"}, tag : Tags \cup {NoOne},
         port : Ports \cup {0}, step : {"idle", "add", "del", "report"}, need : BOOLEAN]

\* The types of the variables, in the groups the steps change together.
CallTypes == pc \in [Restarters -> Points] /\ lock \in Restarters \cup {NoOne}
ReadTypes == new \in [Restarters -> Config] /\ newRev \in [Restarters -> Nat]
DiffTypes == toDel \subseteq Tags /\ toAdd \subseteq Tags
CoreTypes ==
    /\ core \in {"none", "starting", "up", "dying", "down"}
    /\ cfg \in Config /\ live \in Config /\ cfgRev \in Nat
EditTypes == db \in Config /\ rev \in Nat /\ edit \in [Editors -> Edit]

Type == CallTypes /\ ReadTypes /\ DiffTypes /\ CoreTypes /\ EditTypes

\* Inside RestartXray with the lock, and past GetXrayConfig.
Inside == {"read", "decide", "hot", "stop", "start"}
Holding == {"decide", "hot", "stop", "start"}

\* The lock is held by exactly the call that is inside RestartXray.
LockInv == \A a \in Restarters : pc[a] \in Inside <=> lock = a

\* A call that has read the configuration read it after the commit the core
\* is at.
RevInv ==
    /\ cfgRev <= rev
    /\ \A a \in Restarters : pc[a] \in Holding => cfgRev <= newRev[a] /\ newRev[a] <= rev

\* A manual stop left the core down and no restart under way.
ManualInv == isManuallyStopped => lock = NoOne /\ core \notin {"starting", "up"}

CallInv == LockInv /\ RevInv /\ ManualInv

\* A core that is up had its sockets granted, and a call that goes on to
\* change it adds no collision to the ones it serves.
BindInv ==
    /\ core = "up" => Bindable(cfg)
    /\ \A a \in Restarters : pc[a] \in {"hot", "stop"} => BindPairs(new[a]) \subseteq BindPairs(cfg)

IInv == Type /\ CallInv /\ BindInv

-----------------------------------------------------------------------------
(* Steps that leave most of the state alone, and what they leave alone *)

\* The steps of a caller outside RestartXray, and of an old process.
OutsideStep ==
    \/ \E a \in Restarters : RestartRequest(a) \/ CallerFails(a)
    \/ ApplyPendingRestart \/ WatchdogTick \/ StrayExits

\* The ways RestartXray returns without touching the core.
GiveUp(a) ==
    RestartRefused(a) \/ RestartReadFails(a) \/ RestartUnneeded(a) \/ RestartHeldBack(a)

\* The steps of a handler that edits the configuration.
EditorStep(e) ==
    \/ \E t \in Tags, p \in Ports : AddInbound(e, t, p) \/ UpdateInbound(e, t, p)
    \/ \E t \in Tags : DelInbound(e, t)
    \/ \E t \in Tags, p \in Ports \cup {0} : SaveSettings(e, t, p)
    \/ Push(e)

OutsideKept ==
    /\ UNCHANGED <<core, cfg, cfgRev, live, lock, new, newRev, toDel, toAdd>>
    /\ UNCHANGED <<db, rev, edit, world, isManuallyStopped>>
    /\ pc' \in [Restarters -> Points]
    /\ \A b \in Restarters : \/ pc'[b] = pc[b]
                             \/ pc[b] \notin Inside /\ pc'[b] \notin Inside

\* A caller that waits for the lock, or is done, moves nothing but itself, the
\* flag and the watchdog's count.
LEMMA OutsideFrame ==
    ASSUME CallTypes, OutsideStep
    PROVE  OutsideKept
<1> USE DEF OutsideKept, CallTypes, Points, Inside, coreVars, callVars, editVars, flags,
            Restarters
<1>1. ASSUME NEW a \in Restarters, RestartRequest(a)
      PROVE  OutsideKept
  BY <1>1, Zenon DEF RestartRequest
<1>2. ASSUME NEW a \in Restarters, CallerFails(a)
      PROVE  OutsideKept
  BY <1>2, Zenon DEF CallerFails
<1>3. CASE ApplyPendingRestart
  BY <1>3, Zenon DEF ApplyPendingRestart
<1>4. CASE WatchdogTick
  BY <1>4, Zenon DEF WatchdogTick
<1>5. CASE StrayExits
  BY <1>5, Zenon DEF StrayExits
<1> QED
  BY <1>1, <1>2, <1>3, <1>4, <1>5, Zenon DEF OutsideStep

GiveUpKept(a) ==
    /\ UNCHANGED <<core, cfg, cfgRev, live, toDel, toAdd, db, rev, edit, world>>
    /\ UNCHANGED <<isNeedXrayRestart, isManuallyStopped>>
    /\ lock \in {NoOne, a} /\ lock' = NoOne
    /\ pc[a] \notin {"hot", "stop", "start"}
    /\ \E failed \in BOOLEAN : Return(a, failed)

\* A call that gives up returns the lock and leaves core and flags as they are.
LEMMA GiveUpFrame ==
    ASSUME NEW a \in Restarters, LockInv, GiveUp(a)
    PROVE  GiveUpKept(a)
<1> USE DEF GiveUpKept, LockInv, Inside, Return, coreVars, editVars, flags
<1>1. CASE RestartRefused(a)
  BY <1>1, Zenon DEF RestartRefused
<1>2. CASE RestartReadFails(a)
  BY <1>2, Zenon DEF RestartReadFails
<1>3. CASE RestartUnneeded(a)
  BY <1>3, Zenon DEF RestartUnneeded
<1>4. CASE RestartHeldBack(a)
  BY <1>4, Zenon DEF RestartHeldBack
<1> QED
  BY <1>1, <1>2, <1>3, <1>4, Zenon DEF GiveUp

EditKept ==
    /\ UNCHANGED <<core, cfg, cfgRev, strays, isManuallyStopped, world>>
    /\ UNCHANGED <<lock, pc, new, newRev, toDel, toAdd>>
    /\ rev' \in Nat /\ rev' >= rev

\* A handler moves no restart, and no snapshot of the core.
LEMMA EditFrame ==
    ASSUME NEW e \in Editors, EditorStep(e), EditTypes
    PROVE  EditKept
<1> USE DEF EditKept, EditTypes, coreVars, callVars, flags
<1>1. ASSUME NEW op, NEW t, NEW p, NEW step, Commit(e, op, t, p, step)
      PROVE  EditKept
  BY <1>1 DEF Commit
<1>2. CASE PushDel(e)
  BY <1>2 DEF PushDel
<1>3. CASE PushAdd(e)
  BY <1>3 DEF PushAdd
<1>4. CASE Report(e)
  BY <1>4 DEF Report
<1> HIDE DEF EditKept, EditTypes, coreVars, callVars, flags
<1> QED
  BY <1>1, <1>2, <1>3, <1>4, Zenon
     DEF EditorStep, AddInbound, UpdateInbound, DelInbound, SaveSettings, Push

-----------------------------------------------------------------------------
(* The invariant *)

\* A handler's record stays one when it moves on.
LEMMA EditUpdate ==
    ASSUME NEW f \in [Editors -> Edit], NEW e \in Editors,
           NEW step \in {"idle", "add", "del", "report"}, NEW need \in BOOLEAN
    PROVE  [f EXCEPT ![e].step = step, ![e].need = need] \in [Editors -> Edit]
<1>1. ASSUME NEW r \in Edit
      PROVE  [r EXCEPT !.step = step, !.need = need] \in Edit
  BY Zenon DEF Edit
<1>2. [f EXCEPT ![e].step = step, ![e].need = need]
        = [f EXCEPT ![e] = [f[e] EXCEPT !.step = step, !.need = need]]
  BY Zenon
<1> QED
  BY <1>1, <1>2, Zenon

\* A call that returns leaves typed state behind.
LEMMA ReturnTyped ==
    ASSUME NEW a \in Restarters, NEW failed \in BOOLEAN, CallTypes, ReadTypes, Return(a, failed)
    PROVE  CallTypes' /\ ReadTypes'
<1>1. CallTypes'
  BY Zenon DEF CallTypes, Return, Points
<1>2. ReadTypes'
  BY Zenon DEF ReadTypes, Return, Config, NoConfig
<1> QED
  BY <1>1, <1>2, Zenon

\* An edit and its push leave typed state behind.
LEMMA EditTyped ==
    ASSUME NEW e \in Editors, EditorStep(e), Type
    PROVE  EditTypes' /\ live' \in Config
<1> USE DEF Type, EditTypes, CoreTypes, coreVars, callVars, flags, Config
<1>1. ASSUME NEW op \in {"add", "del", "update", "settings"}, NEW t \in Tags,
             NEW p \in Ports \cup {0}, NEW step \in {"add", "del", "report"},
             Commit(e, op, t, p, step)
      PROVE  EditTypes' /\ live' \in Config
  BY <1>1 DEF Commit, Edit
<1> edit \in [Editors -> Edit]
  BY Zenon
<1> HIDE DEF Type, EditTypes, CoreTypes
<1>2. CASE PushDel(e)
  <2>1. live' = live \/ live' = [live EXCEPT ![edit[e].tag] = 0]
    BY <1>2, Zenon DEF PushDel
  <2>2. PICK step \in {"idle", "add", "del", "report"}, need \in BOOLEAN :
          edit' = [edit EXCEPT ![e].step = step, ![e].need = need]
    BY <1>2, Zenon DEF PushDel
  <2>3. live' \in Config
    BY <2>1, Zenon DEF Type, CoreTypes
  <2>4. edit' \in [Editors -> Edit]
    <3>1. [edit EXCEPT ![e].step = step, ![e].need = need] \in [Editors -> Edit]
      BY EditUpdate, Zenon
    <3> QED
      BY <2>2, <3>1, Zenon
  <2> QED
    BY <1>2, <2>3, <2>4, Zenon DEF PushDel, Type, EditTypes
<1>3. CASE PushAdd(e)
  <2>1. live' = live \/ live' = [live EXCEPT ![edit[e].tag] = edit[e].port]
    BY <1>3, Zenon DEF PushAdd
  <2>2. PICK need \in BOOLEAN : edit' = [edit EXCEPT ![e].step = "report", ![e].need = need]
    BY <1>3, Zenon DEF PushAdd
  <2>3. edit[e].port \in Ports \cup {0}
    BY Zenon DEF Edit
  <2>4. live' \in Config
    BY <2>1, <2>3, Zenon DEF Type, CoreTypes
  <2>5. edit' \in [Editors -> Edit]
    <3>1. [edit EXCEPT ![e].step = "report", ![e].need = need] \in [Editors -> Edit]
      BY EditUpdate, Zenon
    <3> QED
      BY <2>2, <3>1, Zenon
  <2> QED
    BY <1>3, <2>4, <2>5, Zenon DEF PushAdd, Type, EditTypes
<1>4. CASE Report(e)
  BY <1>4, Zenon DEF Report, NoEdit, Edit, Type, EditTypes, CoreTypes
<1> HIDE DEF coreVars, callVars, flags, Config
<1> QED
  BY <1>1, <1>2, <1>3, <1>4, Zenon
     DEF EditorStep, AddInbound, UpdateInbound, DelInbound, SaveSettings, Push

\* Every step keeps the types.
LEMMA TypeStep ==
    ASSUME Type, LockInv, Next
    PROVE  Type'
<1> USE DEF coreVars, callVars, editVars, flags
<1>1. ASSUME NEW a \in Restarters, RestartLock(a) PROVE Type'
  BY <1>1, Zenon DEF Type, CallTypes, ReadTypes, DiffTypes, CoreTypes, EditTypes, RestartLock, Points
<1>2. ASSUME NEW a \in Restarters, RestartRead(a) PROVE Type'
  BY <1>2, Zenon DEF Type, CallTypes, ReadTypes, DiffTypes, CoreTypes, EditTypes, RestartRead, Points
<1>3. ASSUME NEW a \in Restarters, RestartFull(a) PROVE Type'
  BY <1>3, Zenon DEF Type, CallTypes, ReadTypes, DiffTypes, CoreTypes, EditTypes, RestartFull, Points
<1>4. ASSUME NEW a \in Restarters, RestartDown(a) PROVE Type'
  BY <1>4, Zenon DEF Type, CallTypes, ReadTypes, DiffTypes, CoreTypes, EditTypes, RestartDown, Points
<1>5. ASSUME NEW a \in Restarters, HotApply(a) PROVE Type'
  BY <1>5, PortsAssumption, Zenon DEF Type, CallTypes, ReadTypes, DiffTypes, CoreTypes, EditTypes, HotApply, Points
<1>6. ASSUME NEW a \in Restarters, HotDel(a) PROVE Type'
  BY <1>6, Zenon DEF Type, CallTypes, ReadTypes, DiffTypes, CoreTypes, EditTypes, HotDel, Points, Config, NoConfig
<1>7. ASSUME NEW a \in Restarters, HotAdd(a) PROVE Type'
  BY <1>7 DEF Type, CallTypes, ReadTypes, DiffTypes, CoreTypes, EditTypes, HotAdd, Points, Config, NoConfig
<1>8. ASSUME NEW a \in Restarters, HotFails(a) PROVE Type'
  BY <1>8, Zenon DEF Type, CallTypes, ReadTypes, DiffTypes, CoreTypes, EditTypes, HotFails, Fault, Points, Config, NoConfig
<1>9. ASSUME NEW a \in Restarters, HotDone(a) PROVE Type'
  BY <1>9, ReturnTyped, Zenon DEF Type, ReadTypes, CoreTypes, DiffTypes, EditTypes, HotDone
<1>10. ASSUME NEW a \in Restarters, RestartStop(a) PROVE Type'
  BY <1>10, Zenon DEF Type, CallTypes, ReadTypes, DiffTypes, CoreTypes, EditTypes, RestartStop, Fault, Points, Config, NoConfig
<1>11. ASSUME NEW a \in Restarters, RestartStart(a) PROVE Type'
  BY <1>11, ReturnTyped, Zenon DEF Type, ReadTypes, CoreTypes, DiffTypes, EditTypes, RestartStart, Config, NoConfig
<1>12. CASE StopXray
  BY <1>12, Zenon DEF Type, CallTypes, ReadTypes, DiffTypes, CoreTypes, EditTypes, StopXray, Fault, Config, NoConfig, IsRunning
<1>13. CASE CoreStarts
  BY <1>13, Zenon DEF Type, CallTypes, ReadTypes, DiffTypes, CoreTypes, EditTypes, CoreStarts
<1>14. CASE CoreExits
  BY <1>14, Zenon DEF Type, CallTypes, ReadTypes, DiffTypes, CoreTypes, EditTypes, CoreExits, Fault, Config, NoConfig, IsRunning
<1>15. ASSUME OutsideStep PROVE Type'
  BY <1>15, OutsideFrame, Zenon DEF OutsideKept, Type, CallTypes, ReadTypes, DiffTypes, CoreTypes, EditTypes
<1>16. ASSUME NEW a \in Restarters, GiveUp(a) PROVE Type'
  BY <1>16, GiveUpFrame, ReturnTyped, Zenon DEF GiveUpKept, Type, DiffTypes, CoreTypes, EditTypes
<1>17. ASSUME NEW e \in Editors, EditorStep(e) PROVE Type'
  BY <1>17, EditFrame, EditTyped, Zenon DEF EditKept, Type, CallTypes, ReadTypes, DiffTypes, CoreTypes
<1> HIDE DEF coreVars, callVars, editVars, flags
<1> QED
  BY <1>1, <1>2, <1>3, <1>4, <1>5, <1>6, <1>7, <1>8, <1>9, <1>10, <1>11, <1>12, <1>13, <1>14, <1>15, <1>16, <1>17,
     Zenon
     DEF Next, RestartXray, OutsideStep, GiveUp, EditorStep

\* Every step keeps the lock with the one call inside RestartXray, the order
\* of the commits, and a manual stop.
LEMMA CallStep ==
    ASSUME Type, CallInv, Next
    PROVE  CallInv'
<1> USE DEF coreVars, callVars, editVars, flags
<1>1. ASSUME NEW a \in Restarters, RestartLock(a) PROVE CallInv'
  BY <1>1, NoOneAssumption, Zenon DEF Type, CallTypes, CallInv, LockInv, RevInv, ManualInv, Inside, Holding, RestartLock
<1>2. ASSUME NEW a \in Restarters, RestartRead(a) PROVE CallInv'
  BY <1>2 DEF Type, CallTypes, CallInv, LockInv, RevInv, ManualInv, Inside, Holding, RestartRead, EditTypes, ReadTypes, CoreTypes
<1>3. ASSUME NEW a \in Restarters, RestartFull(a) PROVE CallInv'
  BY <1>3, Zenon DEF Type, CallTypes, CallInv, LockInv, RevInv, ManualInv, Inside, Holding, RestartFull
<1>4. ASSUME NEW a \in Restarters, RestartDown(a) PROVE CallInv'
  BY <1>4, Zenon DEF Type, CallTypes, CallInv, LockInv, RevInv, ManualInv, Inside, Holding, RestartDown
<1>5. ASSUME NEW a \in Restarters, HotApply(a) PROVE CallInv'
  BY <1>5, Zenon DEF Type, CallTypes, CallInv, LockInv, RevInv, ManualInv, Inside, Holding, HotApply
<1>6. ASSUME NEW a \in Restarters, HotDel(a) PROVE CallInv'
  BY <1>6, Zenon DEF Type, CallTypes, CallInv, LockInv, RevInv, ManualInv, Inside, Holding, HotDel
<1>7. ASSUME NEW a \in Restarters, HotAdd(a) PROVE CallInv'
  BY <1>7, Zenon DEF Type, CallTypes, CallInv, LockInv, RevInv, ManualInv, Inside, Holding, HotAdd
<1>8. ASSUME NEW a \in Restarters, HotFails(a) PROVE CallInv'
  BY <1>8, Zenon DEF Type, CallTypes, CallInv, LockInv, RevInv, ManualInv, Inside, Holding, HotFails, Fault
<1>9. ASSUME NEW a \in Restarters, HotDone(a) PROVE CallInv'
  BY <1>9, NoOneAssumption, Zenon DEF Type, CallTypes, CallInv, LockInv, RevInv, ManualInv, Inside, Holding, HotDone, Return, ReadTypes
<1>10. ASSUME NEW a \in Restarters, RestartStop(a) PROVE CallInv'
  BY <1>10, Zenon DEF Type, CallTypes, CallInv, LockInv, RevInv, ManualInv, Inside, Holding, RestartStop, Fault
<1>11. ASSUME NEW a \in Restarters, RestartStart(a) PROVE CallInv'
  BY <1>11, NoOneAssumption, Zenon DEF Type, CallTypes, CallInv, LockInv, RevInv, ManualInv, Inside, Holding, RestartStart, Return, Fault, ReadTypes
<1>12. CASE StopXray
  BY <1>12, Zenon DEF Type, CallTypes, CallInv, LockInv, RevInv, ManualInv, Inside, Holding, StopXray, Fault, IsRunning
<1>13. CASE CoreStarts
  BY <1>13, Zenon DEF Type, CallTypes, CallInv, LockInv, RevInv, ManualInv, Inside, Holding, CoreStarts
<1>14. CASE CoreExits
  BY <1>14, Zenon DEF Type, CallTypes, CallInv, LockInv, RevInv, ManualInv, Inside, Holding, CoreExits, Fault
<1>15. ASSUME OutsideStep PROVE CallInv'
  BY <1>15, OutsideFrame DEF OutsideKept, Type, CallTypes, CallInv, LockInv, RevInv, ManualInv, Inside, Holding
<1>16. ASSUME NEW a \in Restarters, GiveUp(a) PROVE CallInv'
  BY <1>16, GiveUpFrame, NoOneAssumption DEF GiveUpKept, Return, Type, CallTypes, CallInv, LockInv, RevInv, ManualInv, Inside, Holding
<1>17. ASSUME NEW e \in Editors, EditorStep(e) PROVE CallInv'
  BY <1>17, EditFrame DEF EditKept, Type, EditTypes, CoreTypes, ReadTypes, CallInv, LockInv, RevInv, ManualInv
<1> HIDE DEF coreVars, callVars, editVars, flags
<1> QED
  BY <1>1, <1>2, <1>3, <1>4, <1>5, <1>6, <1>7, <1>8, <1>9, <1>10, <1>11, <1>12, <1>13, <1>14, <1>15, <1>16, <1>17,
     Zenon
     DEF Next, RestartXray, OutsideStep, GiveUp, EditorStep

\* Every step keeps the core within the sockets it can have: the conflict
\* guard of RestartXray is passed before a hot apply and before a stop.
LEMMA BindStep ==
    ASSUME Type, LockInv, BindInv, Next
    PROVE  BindInv'
<1> USE DEF coreVars, callVars, editVars, flags
<1>1. ASSUME NEW a \in Restarters, RestartLock(a) PROVE BindInv'
  BY <1>1, NoOneAssumption, Zenon DEF Type, CallTypes, LockInv, BindInv, Inside, RestartLock
<1>2. ASSUME NEW a \in Restarters, RestartRead(a) PROVE BindInv'
  BY <1>2, Zenon DEF Type, CallTypes, LockInv, BindInv, Inside, RestartRead, ReadTypes
<1>3. ASSUME NEW a \in Restarters, RestartFull(a) PROVE BindInv'
  BY <1>3, Zenon DEF Type, CallTypes, LockInv, BindInv, Inside, RestartFull, BindConflicts
<1>4. ASSUME NEW a \in Restarters, RestartDown(a) PROVE BindInv'
  BY <1>4, Zenon DEF Type, CallTypes, LockInv, BindInv, Inside, RestartDown
<1>5. ASSUME NEW a \in Restarters, HotApply(a) PROVE BindInv'
  BY <1>5, Zenon DEF Type, CallTypes, LockInv, BindInv, Inside, HotApply, BindConflicts
<1>6. ASSUME NEW a \in Restarters, HotDel(a) PROVE BindInv'
  BY <1>6, Zenon DEF Type, CallTypes, LockInv, BindInv, Inside, HotDel
<1>7. ASSUME NEW a \in Restarters, HotAdd(a) PROVE BindInv'
  BY <1>7, Zenon DEF Type, CallTypes, LockInv, BindInv, Inside, HotAdd
<1>8. ASSUME NEW a \in Restarters, HotFails(a) PROVE BindInv'
  BY <1>8, Zenon DEF Type, CallTypes, LockInv, BindInv, Inside, HotFails, Fault
<1>9. ASSUME NEW a \in Restarters, HotDone(a) PROVE BindInv'
  BY <1>9, NoOneAssumption, Zenon DEF Type, CallTypes, LockInv, BindInv, Inside, HotDone, Return, Bindable, ReadTypes
<1>10. ASSUME NEW a \in Restarters, RestartStop(a) PROVE BindInv'
  BY <1>10, Zenon DEF Type, CallTypes, LockInv, BindInv, Inside, RestartStop, Fault
<1>11. ASSUME NEW a \in Restarters, RestartStart(a) PROVE BindInv'
  BY <1>11, NoOneAssumption DEF Type, CallTypes, LockInv, BindInv, Inside, RestartStart, Return, Fault, ReadTypes
<1>12. CASE StopXray
  BY <1>12, Zenon DEF Type, CallTypes, LockInv, BindInv, Inside, StopXray, Fault, IsRunning
<1>13. CASE CoreStarts
  BY <1>13, Zenon DEF Type, CallTypes, LockInv, BindInv, Inside, CoreStarts
<1>14. CASE CoreExits
  BY <1>14, Zenon DEF Type, CallTypes, LockInv, BindInv, Inside, CoreExits, Fault
<1>15. ASSUME OutsideStep PROVE BindInv'
  BY <1>15, OutsideFrame, Zenon DEF OutsideKept, Type, CallTypes, LockInv, BindInv, Inside
<1>16. ASSUME NEW a \in Restarters, GiveUp(a) PROVE BindInv'
  BY <1>16, GiveUpFrame, NoOneAssumption DEF GiveUpKept, Return, Type, CallTypes, LockInv, BindInv, Inside
<1>17. ASSUME NEW e \in Editors, EditorStep(e) PROVE BindInv'
  BY <1>17, EditFrame, Zenon DEF EditKept, Type, CallTypes, LockInv, BindInv, Inside
<1> HIDE DEF coreVars, callVars, editVars, flags
<1> QED
  BY <1>1, <1>2, <1>3, <1>4, <1>5, <1>6, <1>7, <1>8, <1>9, <1>10, <1>11, <1>12, <1>13, <1>14, <1>15, <1>16, <1>17,
     Zenon
     DEF Next, RestartXray, OutsideStep, GiveUp, EditorStep

\* The panel starts with a forced restart on its way and nothing running.
LEMMA InitIInv == Init => IInv
<1> SUFFICES ASSUME Init PROVE IInv
  BY Zenon
<1>1. NoConfig \in Config
  BY Zenon DEF NoConfig, Config
<1>2. NoEdit \in Edit
  BY Zenon DEF NoEdit, Edit
<1>3. CallTypes /\ ReadTypes /\ DiffTypes
  BY <1>1, Zenon DEF Init, CallTypes, ReadTypes, DiffTypes, Points
<1>4. CoreTypes /\ EditTypes
  BY <1>1, <1>2, Zenon DEF Init, CoreTypes, EditTypes
<1>5. CallInv
  BY NoOneAssumption DEF Init, CallInv, LockInv, RevInv, ManualInv, Inside, Holding
<1>6. BindInv
  BY Zenon DEF Init, BindInv
<1> QED
  BY <1>3, <1>4, <1>5, <1>6, Zenon DEF IInv, Type

\* A step that changes nothing.
LEMMA StutterIInv == IInv /\ UNCHANGED vars => IInv'
<1> SUFFICES ASSUME IInv, UNCHANGED vars PROVE IInv'
  BY Zenon
<1> USE DEF vars, coreVars, callVars, editVars, flags
<1>1. Type'
  BY Zenon DEF IInv, Type, CallTypes, ReadTypes, DiffTypes, CoreTypes, EditTypes
<1>2. CallInv' /\ BindInv'
  BY Zenon DEF IInv, CallInv, LockInv, RevInv, ManualInv, BindInv
<1> QED
  BY <1>1, <1>2, Zenon DEF IInv

\* The lock, the order of commits, the manual stop and the sockets: in every
\* reachable state exactly the call that holds the package lock is inside
\* RestartXray, with a config no older than the core's.
THEOREM LifecycleInvariant == Spec => []IInv
<1>1. IInv /\ [Next]_vars => IInv'
  BY TypeStep, CallStep, BindStep, StutterIInv, Zenon DEF IInv, CallInv
<1> QED
  BY <1>1, InitIInv, PTL DEF Spec

-----------------------------------------------------------------------------
(* What follows from it *)

\* WorkingCoreKept: a core that works is never stopped for a config the kernel
\* will not let it bind.
THEOREM WorkingCoresKept == Spec => WorkingCoreKept
<1>1. IInv => [\A a \in Restarters :
                 pc[a] = "stop" /\ pc'[a] = "start" /\ core = "up" => Bindable(new[a])]_vars
  BY Zenon DEF IInv, BindInv, Bindable
<1> QED
  BY <1>1, LifecycleInvariant, PTL DEF WorkingCoreKept

\* Only a hot apply that is done and a start move the snapshot.
LEMMA SnapshotChanges ==
    ASSUME Next
    PROVE  \/ cfgRev' = cfgRev
           \/ \E a \in Restarters : pc[a] \in {"hot", "start"} /\ cfgRev' = newRev[a]
<1>1. ASSUME NEW a \in Restarters, RestartXray(a) \/ RestartRequest(a)
      PROVE  cfgRev' = cfgRev \/ (pc[a] \in {"hot", "start"} /\ cfgRev' = newRev[a])
  <2>1. CASE HotDone(a)
    BY <2>1, Zenon DEF HotDone
  <2>2. CASE RestartStart(a)
    BY <2>2, Zenon DEF RestartStart
  <2>3. ASSUME ~HotDone(a), ~RestartStart(a) PROVE cfgRev' = cfgRev
    BY <1>1, <2>3, Zenon DEF RestartRequest, RestartXray, RestartLock, RestartRefused,
      RestartRead, RestartReadFails, RestartUnneeded, RestartHeldBack, RestartFull,
      RestartDown, HotApply, HotDel, HotAdd, HotFails, RestartStop, CallerFails, coreVars
  <2> QED
    BY <2>1, <2>2, <2>3, Zenon
<1>2. CASE StopXray \/ ApplyPendingRestart \/ WatchdogTick \/ CoreStarts \/ CoreExits \/ StrayExits
  BY <1>2, Zenon DEF StopXray, ApplyPendingRestart, WatchdogTick, CoreStarts, CoreExits,
    StrayExits, coreVars
<1>3. ASSUME NEW e \in Editors, EditorStep(e)
      PROVE  cfgRev' = cfgRev
  BY <1>3, Zenon DEF EditorStep, AddInbound, UpdateInbound, DelInbound, SaveSettings, Commit, Push,
     PushDel, PushAdd, Report, coreVars
<1> QED
  BY <1>1, <1>2, <1>3, Zenon DEF Next, EditorStep

\* ConfigNeverGoesBack: the served config never goes back to an older commit.
THEOREM ConfigMonotone == Spec => ConfigNeverGoesBack
<1>1. IInv /\ [Next]_vars => [cfgRev' >= cfgRev]_vars
  <2> SUFFICES ASSUME IInv, Next PROVE cfgRev' >= cfgRev
    BY Zenon
  <2> QED
    BY SnapshotChanges DEF IInv, Type, CoreTypes, ReadTypes, CallInv, RevInv, Holding
<1> QED
  BY <1>1, LifecycleInvariant, PTL DEF Spec, ConfigNeverGoesBack

\* After a manual stop only the lock of a forced restart is still to be had.
LEMMA StopEnds ==
    ASSUME IInv, Next, isManuallyStopped
    PROVE  /\ core' = "starting" => core = "starting"
           /\ ~isManuallyStopped' => lock' = "force"
<1>0. \A b \in Restarters : pc[b] \notin Inside
  BY NoOneAssumption, Zenon DEF IInv, CallInv, LockInv, ManualInv
<1>1. ASSUME NEW a \in Restarters, RestartXray(a) \/ RestartRequest(a)
      PROVE  /\ core' = "starting" => core = "starting"
             /\ ~isManuallyStopped' => lock' = "force"
  <2>1. RestartRequest(a) \/ RestartLock(a) \/ RestartRefused(a) \/ CallerFails(a)
    BY <1>0, <1>1, Zenon DEF RestartXray, RestartRead, RestartReadFails, RestartUnneeded,
      RestartHeldBack, RestartFull, RestartDown, HotApply, HotDel, HotAdd, HotFails, HotDone,
      RestartStop, RestartStart, Inside
  <2> QED
    BY <2>1, Zenon DEF RestartRequest, RestartLock, RestartRefused, CallerFails, coreVars, flags
<1>2. CASE StopXray \/ ApplyPendingRestart \/ WatchdogTick \/ CoreStarts \/ CoreExits \/ StrayExits
  BY <1>2, Zenon DEF StopXray, ApplyPendingRestart, WatchdogTick, CoreStarts, CoreExits,
    StrayExits, coreVars, flags, IsRunning
<1>3. ASSUME NEW e \in Editors, EditorStep(e)
      PROVE  core' = core /\ isManuallyStopped' = isManuallyStopped
  BY <1>3, EditFrame, Zenon DEF EditKept, IInv, Type
<1> QED
  BY <1>1, <1>2, <1>3, Zenon DEF Next, EditorStep

\* StopSticks: a core stopped from the panel stays down until a forced restart.
THEOREM StopsStick == Spec => StopSticks
<1>1. IInv /\ [Next]_vars =>
        [isManuallyStopped => /\ core' = "starting" => core = "starting"
                              /\ ~isManuallyStopped' => lock' = "force"]_vars
  BY StopEnds, Zenon
<1> QED
  BY <1>1, LifecycleInvariant, PTL DEF Spec, StopSticks
-----------------------------------------------------------------------------

Rebuilt == world.ops = {"settings"}

\* A handler in progress has committed, and will report needRestart.
EditInv ==
    Rebuilt => \A e \in Editors : edit[e].step # "idle" => edit[e].step = "report" /\ edit[e].need

\* Outside a hot apply the core has the inbounds of its snapshot.  After a
\* hot apply that failed it is about to be stopped.
LiveInv ==
    Rebuilt /\ core = "up" /\ (\A a \in Restarters : pc[a] \notin {"hot", "stop"}) => live = cfg

\* During a hot apply the inbounds without a call still to make are those of
\* the new config.  No call was made on a core that has yet to start.
HotInv ==
    \A a \in Restarters : Rebuilt /\ pc[a] = "hot" =>
      /\ core = "starting" => /\ toDel = {t \in Tags : cfg[t] # 0 /\ cfg[t] # new[a][t]}
                              /\ toAdd = {t \in Tags : new[a][t] # 0 /\ cfg[t] # new[a][t]}
      /\ core = "up" => \A t \in Tags : /\ t \notin toDel \cup toAdd => live[t] = new[a][t]
                                        /\ t \in toDel \ toAdd => new[a][t] = 0

ServedInv == LiveInv /\ HotInv

\* A step that leaves the core and its restarts alone.
LEMMA ServedKept ==
    ASSUME ServedInv, UNCHANGED <<core, cfg, cfgRev, strays, isManuallyStopped, world>>,
           UNCHANGED <<lock, pc, new, newRev, toDel, toAdd>>, Rebuilt => live' = live
    PROVE  ServedInv'
BY DEF ServedInv, LiveInv, HotInv, Rebuilt

\* Somebody is still to read the database for the pending restart: the flag
\* is up or will be, or the call that took it has not read yet or failed.
Armed ==
    \/ isNeedXrayRestart
    \/ \E e \in Editors : edit[e].step = "report"
    \/ pc["pending"] \in {"want", "read", "failed"}

\* A config that lacks a commit, in a call's hands or in the core's, is never
\* the last one.
ArmedInv == Rebuilt =>
    /\ \A a \in Restarters : pc[a] \in Holding => new[a] = db \/ Armed
    /\ core \in {"starting", "up"} => cfg = db \/ Armed \/ pc["pending"] \in Holding

SInv == IInv /\ EditInv /\ ServedInv /\ ArmedInv

-----------------------------------------------------------------------------
\* An edit that goes through a rebuilt config only commits and reports.
LEMMA SettingsEdit ==
    ASSUME NEW e \in Editors, EditorStep(e), EditTypes, EditInv, Rebuilt
    PROVE  /\ live' = live
           /\ \/ /\ db' = db /\ isNeedXrayRestart'
                 /\ edit' = [edit EXCEPT ![e] = NoEdit]
              \/ /\ isNeedXrayRestart' = isNeedXrayRestart
                 /\ edit'[e].step = "report" /\ edit'[e].need
                 /\ \A d \in Editors \ {e} : edit'[d] = edit[d]
<1> USE DEF coreVars, callVars, flags
<1>1. ASSUME NEW t, NEW p, SaveSettings(e, t, p)
      PROVE  /\ live' = live
             /\ isNeedXrayRestart' = isNeedXrayRestart
             /\ edit'[e].step = "report" /\ edit'[e].need
             /\ \A d \in Editors \ {e} : edit'[d] = edit[d]
  BY <1>1, Zenon DEF SaveSettings, Commit, EditTypes
<1>2. ASSUME NEW t, NEW p, AddInbound(e, t, p) \/ UpdateInbound(e, t, p) \/ DelInbound(e, t)
      PROVE  FALSE
  BY <1>2, Zenon DEF AddInbound, UpdateInbound, DelInbound, Commit, Rebuilt
<1>3. ~PushDel(e) /\ ~PushAdd(e)
  BY Zenon DEF PushDel, PushAdd, EditInv
<1>4. CASE Report(e)
  BY <1>4, Zenon DEF Report, EditInv
<1> QED
  BY <1>1, <1>2, <1>3, <1>4, Zenon DEF EditorStep, Push

\* No step but a handler's own touches a handler.
LEMMA EditStep ==
    ASSUME Type, LockInv, EditInv, Next
    PROVE  EditInv'
<1>1. CASE UNCHANGED <<edit, world>>
  BY <1>1, Zenon DEF EditInv, Rebuilt
<1>2. ASSUME NEW a \in Restarters, RestartXray(a) \/ RestartRequest(a)
      PROVE  UNCHANGED <<edit, world>>
  BY <1>2, Zenon DEF RestartRequest, RestartXray, RestartLock, RestartRefused, RestartRead, RestartReadFails, RestartUnneeded,
    RestartHeldBack, RestartFull, RestartDown, HotApply, HotDel, HotAdd, HotFails, HotDone,
    RestartStop, RestartStart, CallerFails, editVars
<1>3. CASE StopXray \/ ApplyPendingRestart \/ WatchdogTick \/ CoreStarts \/ CoreExits \/ StrayExits
  <2>1. UNCHANGED <<edit, world>>
    BY <1>3, SMTT(30), Zenon DEF StopXray, ApplyPendingRestart, WatchdogTick, CoreStarts, CoreExits, StrayExits, editVars
  <2> QED
    BY <2>1, <1>1, Zenon
<1>4. ASSUME NEW e \in Editors, EditorStep(e) PROVE EditInv'
  <2>1. EditTypes /\ EditKept
    BY <1>4, EditFrame, Zenon DEF Type
  <2>2. CASE ~Rebuilt
    BY <2>1, <2>2, Zenon DEF EditKept, EditInv, Rebuilt
  <2>3. CASE Rebuilt
    BY <1>4, <2>1, <2>3, SettingsEdit DEF EditInv, EditTypes, NoEdit
  <2> QED
    BY <2>2, <2>3, Zenon
<1> QED
  BY <1>1, <1>2, <1>3, <1>4, Zenon DEF Next, EditorStep


\* Every step keeps what the core serves: the API calls of a hot apply bring
\* the inbounds to the new config one by one, a failed one ends in a stop.
LEMMA ServedStep ==
    ASSUME Type, LockInv, EditInv, ServedInv, Next
    PROVE  ServedInv'
<1> USE DEF coreVars, callVars, editVars, flags
<1>1. ASSUME NEW a \in Restarters, RestartLock(a) PROVE ServedInv'
  BY <1>1, NoOneAssumption, Zenon DEF Type, CallTypes, LockInv, ServedInv, LiveInv, HotInv, Rebuilt, Inside, RestartLock
<1>2. ASSUME NEW a \in Restarters, RestartRead(a) PROVE ServedInv'
  BY <1>2, Zenon DEF Type, CallTypes, LockInv, ServedInv, LiveInv, HotInv, Rebuilt, Inside, RestartRead
<1>3. ASSUME NEW a \in Restarters, RestartFull(a) PROVE ServedInv'
  BY <1>3, Zenon DEF Type, CallTypes, LockInv, ServedInv, LiveInv, HotInv, Rebuilt, Inside, RestartFull
<1>4. ASSUME NEW a \in Restarters, RestartDown(a) PROVE ServedInv'
  BY <1>4, Zenon DEF Type, CallTypes, LockInv, ServedInv, LiveInv, HotInv, Rebuilt, Inside, RestartDown
<1>5. ASSUME NEW a \in Restarters, HotApply(a) PROVE ServedInv'
  <2>1. pc'[a] = "hot" /\ \A b \in Restarters : pc'[b] = "hot" => b = a
    BY <1>5, Zenon DEF Type, CallTypes, LockInv, Inside, HotApply
  <2>2. LiveInv'
    BY <2>1, Zenon DEF LiveInv
  <2>3. /\ Rebuilt' = Rebuilt /\ new' = new /\ UNCHANGED <<core, cfg, live>>
        /\ toDel' = {t \in Tags : cfg[t] # 0 /\ cfg[t] # new[a][t]}
        /\ toAdd' = {t \in Tags : new[a][t] # 0 /\ cfg[t] # new[a][t]}
    BY <1>5, Zenon DEF HotApply, Rebuilt
  <2>4. Rebuilt /\ core = "up" => live = cfg
    BY <1>5, Zenon DEF ServedInv, LiveInv, Type, CallTypes, LockInv, Inside, HotApply
  <2>5. HotInv'
    BY <2>1, <2>3, <2>4, Zenon DEF HotInv
  <2> QED
    BY <2>2, <2>5, Zenon DEF ServedInv
<1>6. ASSUME NEW a \in Restarters, HotDel(a) PROVE ServedInv'
  <2>1. pc[a] = "hot" /\ pc' = pc /\ \A b \in Restarters : pc[b] = "hot" => b = a
    BY <1>6 DEF Type, CallTypes, LockInv, Inside, HotDel
  <2>2. LiveInv'
    BY <2>1, Zenon DEF LiveInv
  <2>3. Rebuilt' = Rebuilt /\ UNCHANGED <<core, new, toAdd>> /\ core = "up"
    BY <1>6, Zenon DEF HotDel, Rebuilt
  <2>4. PICK t \in toDel : live' = [live EXCEPT ![t] = 0] /\ toDel' = toDel \ {t}
    BY <1>6, Zenon DEF HotDel
  <2>5. live \in [Tags -> Ports \cup {0}] /\ toDel \subseteq Tags
    BY SMTT(30), Zenon DEF Type, CoreTypes, DiffTypes, Config
  <2>6. HotInv'
    BY <2>1, <2>3, <2>4, <2>5 DEF ServedInv, HotInv
  <2> QED
    BY <2>2, <2>6, Zenon DEF ServedInv
<1>7. ASSUME NEW a \in Restarters, HotAdd(a) PROVE ServedInv'
  <2>1. pc[a] = "hot" /\ pc' = pc /\ \A b \in Restarters : pc[b] = "hot" => b = a
    BY <1>7 DEF Type, CallTypes, LockInv, Inside, HotAdd
  <2>2. LiveInv'
    BY <2>1, Zenon DEF LiveInv
  <2>3. Rebuilt' = Rebuilt /\ UNCHANGED <<core, new, toDel>> /\ core = "up"
    BY <1>7, Zenon DEF HotAdd, Rebuilt
  <2>4. PICK t \in toAdd : live' = [live EXCEPT ![t] = new[a][t]] /\ toAdd' = toAdd \ {t}
    BY <1>7, Zenon DEF HotAdd
  <2>5. live \in [Tags -> Ports \cup {0}] /\ toAdd \subseteq Tags /\ toDel = {}
    BY <1>7, Zenon DEF Type, CoreTypes, DiffTypes, Config, HotAdd
  <2>6. HotInv'
    BY <2>1, <2>3, <2>4, <2>5 DEF ServedInv, HotInv
  <2> QED
    BY <2>2, <2>6, Zenon, Zenon DEF ServedInv
<1>8. ASSUME NEW a \in Restarters, HotFails(a) PROVE ServedInv'
  BY <1>8, SMTT(30), Zenon DEF Type, CallTypes, LockInv, ServedInv, LiveInv, HotInv, Rebuilt, Inside, HotFails, Fault
<1>9. ASSUME NEW a \in Restarters, HotDone(a) PROVE ServedInv'
  BY <1>9, NoOneAssumption, SMTT(30), Zenon DEF Type, CallTypes, LockInv, ServedInv, LiveInv, HotInv, Rebuilt, Inside, HotDone, Return, Config, CoreTypes, ReadTypes
<1>10. ASSUME NEW a \in Restarters, RestartStop(a) PROVE ServedInv'
  BY <1>10, SMTT(30), Zenon DEF Type, CallTypes, LockInv, ServedInv, LiveInv, HotInv, Rebuilt, Inside, RestartStop, Fault
<1>11. ASSUME NEW a \in Restarters, RestartStart(a) PROVE ServedInv'
  BY <1>11, NoOneAssumption, SMTT(30), Zenon DEF Type, CallTypes, LockInv, ServedInv, LiveInv, HotInv, Rebuilt, Inside, RestartStart, Return, Fault
<1>12. CASE StopXray
  BY <1>12, SMTT(30), Zenon DEF Type, CallTypes, LockInv, ServedInv, LiveInv, HotInv, Rebuilt, Inside, StopXray, Fault, IsRunning
<1>13. CASE CoreStarts
  BY <1>13, SMTT(30), Zenon DEF Type, CallTypes, LockInv, ServedInv, LiveInv, HotInv, Rebuilt, Inside, CoreStarts, Config, CoreTypes, ReadTypes
<1>14. CASE CoreExits
  BY <1>14, SMTT(30), Zenon DEF Type, CallTypes, LockInv, ServedInv, LiveInv, HotInv, Rebuilt, Inside, CoreExits, Fault
<1>15. ASSUME OutsideStep PROVE ServedInv'
  BY <1>15, OutsideFrame, SMTT(30), Zenon DEF OutsideKept, Type, CallTypes, LockInv, ServedInv, LiveInv, HotInv, Rebuilt, Inside
<1>16. ASSUME NEW a \in Restarters, GiveUp(a) PROVE ServedInv'
  BY <1>16, GiveUpFrame, NoOneAssumption DEF GiveUpKept, Return, Type, CallTypes, LockInv, ServedInv, LiveInv, HotInv, Rebuilt, Inside
<1>17. ASSUME NEW e \in Editors, EditorStep(e) PROVE ServedInv'
  <2>1. EditKept
    BY <1>17, EditFrame, Zenon DEF Type
  <2>2. Rebuilt => live' = live
    BY <1>17, SettingsEdit, Zenon DEF Type
  <2> QED
    BY <2>1, <2>2, ServedKept, Zenon DEF EditKept
<1> HIDE DEF coreVars, callVars, editVars, flags
<1> QED
  BY <1>1, <1>2, <1>3, <1>4, <1>5, <1>6, <1>7, <1>8, <1>9, <1>10, <1>11, <1>12, <1>13, <1>14, <1>15, <1>16, <1>17,
     ZenonT(30)
     DEF Next, RestartXray, OutsideStep, GiveUp, EditorStep

\* A caller outside RestartXray does not forget a pending restart.
LEMMA OutsideArmed ==
    ASSUME CallTypes, OutsideStep, Armed
    PROVE  Armed'
<1> USE DEF CallTypes, Armed, Restarters, coreVars, callVars, editVars, flags
<1>1. ASSUME NEW a \in Restarters, RestartRequest(a) PROVE Armed'
  BY <1>1, Zenon DEF RestartRequest
<1>2. ASSUME NEW a \in Restarters, CallerFails(a) PROVE Armed'
  BY <1>2, ZenonT(30) DEF CallerFails
<1>3. CASE ApplyPendingRestart
  BY <1>3, ZenonT(30) DEF ApplyPendingRestart
<1>4. CASE WatchdogTick
  BY <1>4, ZenonT(30) DEF WatchdogTick
<1>5. CASE StrayExits
  BY <1>5, ZenonT(30) DEF StrayExits
<1> HIDE DEF CallTypes, Armed, Restarters, coreVars, callVars, editVars, flags
<1> QED
  BY <1>1, <1>2, <1>3, <1>4, <1>5, Zenon DEF OutsideStep

\* The pending restart gives up only with an error, which arms the flag again,
\* on a core that was stopped by hand, or on a core that has what it read.
LEMMA GiveUpArmed ==
    ASSUME NEW a \in Restarters, CallTypes, ManualInv, GiveUp(a), a = "pending"
    PROVE  \/ pc'[a] = "failed"
           \/ core \notin {"starting", "up"}
           \/ pc[a] = "decide" /\ cfg = new[a]
<1> USE DEF CallTypes, Return
<1>1. CASE RestartRefused(a)
  BY <1>1, Zenon DEF RestartRefused, ManualInv
<1>2. CASE RestartReadFails(a)
  BY <1>2, Zenon DEF RestartReadFails
<1>3. CASE RestartUnneeded(a)
  BY <1>3, Zenon DEF RestartUnneeded, Unneeded
<1>4. CASE RestartHeldBack(a)
  BY <1>4, Zenon DEF RestartHeldBack
<1> QED
  BY <1>1, <1>2, <1>3, <1>4, Zenon DEF GiveUp

\* Every step keeps a commit the core lacks remembered.
LEMMA ArmedStep ==
    ASSUME Type, LockInv, ManualInv, EditInv, ArmedInv, Next
    PROVE  ArmedInv'
<1> USE DEF coreVars, callVars, editVars, flags
<1>1. ASSUME NEW a \in Restarters, RestartLock(a) PROVE ArmedInv'
  BY <1>1, NoOneAssumption, Zenon DEF Type, CallTypes, LockInv, ArmedInv, Armed, Holding, Rebuilt, Inside, Restarters, RestartLock
<1>2. ASSUME NEW a \in Restarters, RestartRead(a) PROVE ArmedInv'
  BY <1>2, Zenon DEF Type, CallTypes, LockInv, ArmedInv, Armed, Holding, Rebuilt, Inside, Restarters, RestartRead, ReadTypes
<1>3. ASSUME NEW a \in Restarters, RestartFull(a) PROVE ArmedInv'
  BY <1>3, Zenon DEF Type, CallTypes, LockInv, ArmedInv, Armed, Holding, Rebuilt, Inside, Restarters, RestartFull
<1>4. ASSUME NEW a \in Restarters, RestartDown(a) PROVE ArmedInv'
  BY <1>4, Zenon DEF Type, CallTypes, LockInv, ArmedInv, Armed, Holding, Rebuilt, Inside, Restarters, RestartDown
<1>5. ASSUME NEW a \in Restarters, HotApply(a) PROVE ArmedInv'
  BY <1>5, Zenon DEF Type, CallTypes, LockInv, ArmedInv, Armed, Holding, Rebuilt, Inside, Restarters, HotApply
<1>6. ASSUME NEW a \in Restarters, HotDel(a) PROVE ArmedInv'
  BY <1>6, Zenon DEF Type, CallTypes, LockInv, ArmedInv, Armed, Holding, Rebuilt, Inside, Restarters, HotDel
<1>7. ASSUME NEW a \in Restarters, HotAdd(a) PROVE ArmedInv'
  BY <1>7, Zenon DEF Type, CallTypes, LockInv, ArmedInv, Armed, Holding, Rebuilt, Inside, Restarters, HotAdd
<1>8. ASSUME NEW a \in Restarters, HotFails(a) PROVE ArmedInv'
  BY <1>8, Zenon DEF Type, CallTypes, LockInv, ArmedInv, Armed, Holding, Rebuilt, Inside, Restarters, HotFails, Fault
<1>9. ASSUME NEW a \in Restarters, HotDone(a) PROVE ArmedInv'
  BY <1>9, NoOneAssumption, Zenon DEF Type, CallTypes, LockInv, ArmedInv, Armed, Holding, Rebuilt, Inside, Restarters, HotDone, Return
<1>10. ASSUME NEW a \in Restarters, RestartStop(a) PROVE ArmedInv'
  BY <1>10, Zenon DEF Type, CallTypes, LockInv, ArmedInv, Armed, Holding, Rebuilt, Inside, Restarters, RestartStop, Fault
<1>11. ASSUME NEW a \in Restarters, RestartStart(a) PROVE ArmedInv'
  BY <1>11, NoOneAssumption DEF Type, CallTypes, LockInv, ArmedInv, Armed, Holding, Rebuilt, Inside, Restarters, RestartStart, Return, Fault
<1>12. CASE StopXray
  BY <1>12, Zenon DEF Type, CallTypes, LockInv, ArmedInv, Armed, Holding, Rebuilt, Inside, Restarters, StopXray, Fault, IsRunning
<1>13. CASE CoreStarts
  BY <1>13, Zenon DEF Type, CallTypes, LockInv, ArmedInv, Armed, Holding, Rebuilt, Inside, Restarters, CoreStarts
<1>14. CASE CoreExits
  BY <1>14, Zenon DEF Type, CallTypes, LockInv, ArmedInv, Armed, Holding, Rebuilt, Inside, Restarters, CoreExits, Fault
<1>15. ASSUME OutsideStep PROVE ArmedInv'
  BY <1>15, OutsideFrame, OutsideArmed, Zenon DEF OutsideKept, ArmedInv, Armed, Rebuilt, Inside, Holding, Restarters, Type, CallTypes
<1>16. ASSUME NEW a \in Restarters, GiveUp(a) PROVE ArmedInv'
  BY <1>16, GiveUpFrame, GiveUpArmed, NoOneAssumption DEF GiveUpKept, Return, ArmedInv, Armed, Rebuilt, Inside, Holding, Restarters, Type, CallTypes, LockInv
<1>17. ASSUME NEW e \in Editors, EditorStep(e) PROVE ArmedInv'
  BY <1>17, EditFrame, SettingsEdit, Zenon DEF EditKept, Type, ArmedInv, Armed, Rebuilt, NoEdit
<1> HIDE DEF coreVars, callVars, editVars, flags
<1> QED
  BY <1>1, <1>2, <1>3, <1>4, <1>5, <1>6, <1>7, <1>8, <1>9, <1>10, <1>11, <1>12, <1>13, <1>14, <1>15, <1>16, <1>17,
     ZenonT(30)
     DEF Next, RestartXray, OutsideStep, GiveUp, EditorStep

\* SInv holds when the panel starts.
LEMMA InitSInv == Init => SInv
<1> SUFFICES ASSUME Init PROVE SInv
  BY Zenon
<1>1. ServedInv
  BY Zenon DEF Init, ServedInv, LiveInv, HotInv
<1>2. EditInv /\ ArmedInv
  BY SMTT(30), Zenon DEF Init, EditInv, ArmedInv, NoEdit, Holding
<1> QED
  BY <1>1, <1>2, InitIInv, Zenon DEF SInv

\* A step that changes nothing.
LEMMA StutterSInv == SInv /\ UNCHANGED vars => EditInv' /\ ServedInv' /\ ArmedInv'
  BY DEF SInv, EditInv, Rebuilt, ServedInv, LiveInv, HotInv, ArmedInv, Armed,
         vars, coreVars, callVars, editVars, flags

\* What the core serves and what is still pending, in every reachable state.
THEOREM ServedInvariant == Spec => []SInv
<1>1. SInv /\ IInv' /\ [Next]_vars => SInv'
  BY EditStep, ServedStep, ArmedStep, StutterSInv, Zenon DEF SInv, IInv, CallInv
<1> QED
  BY <1>1, InitSInv, LifecycleInvariant, PTL DEF Spec

\* RebuiltConfigServed: when nothing is pending any more, the core that is up
\* serves what the database holds.
THEOREM RebuildsServed == Spec => []RebuiltConfigServed
<1>1. SInv => RebuiltConfigServed
  <2> SUFFICES ASSUME SInv, Rebuilt, Quiescent, core = "up" PROVE live = db
    BY Zenon DEF RebuiltConfigServed, Rebuilt
  <2>1. ~Armed
    BY Zenon DEF Quiescent, Armed, Restarters
  <2>2. cfg = db
    BY <2>1, Zenon DEF SInv, ArmedInv, Quiescent, Holding, Restarters
  <2>3. live = cfg
    BY Zenon DEF SInv, ServedInv, LiveInv, Quiescent
  <2> QED
    BY <2>2, <2>3, Zenon
<1> QED
  BY <1>1, ServedInvariant, PTL

\* A hot apply ends with success only when it has no call left to make.
LEMMA HotEnds ==
    ASSUME Type, LockInv, Next, NEW a \in Restarters, pc[a] = "hot", pc'[a] = "idle"
    PROVE  toDel = {} /\ toAdd = {}
<1>1. ASSUME NEW b \in Restarters, RestartXray(b) \/ RestartRequest(b)
      PROVE  toDel = {} /\ toAdd = {}
  <2>1. a = b
    BY <1>1, Zenon DEF Type, CallTypes, RestartRequest, RestartXray, RestartLock, RestartRefused,
      RestartRead, RestartReadFails, RestartUnneeded, RestartHeldBack, RestartFull, RestartDown,
      HotApply, HotDel, HotAdd, HotFails, HotDone, RestartStop, RestartStart, CallerFails, Return
  <2>2. HotDel(a) \/ HotAdd(a) \/ HotFails(a) \/ HotDone(a)
    BY <1>1, <2>1, Zenon DEF RestartRequest, RestartXray, RestartLock, RestartRefused,
      RestartRead, RestartReadFails, RestartUnneeded, RestartHeldBack, RestartFull, RestartDown,
      HotApply, RestartStop, RestartStart, CallerFails
  <2> QED
    BY <2>2, Zenon DEF Type, CallTypes, HotDel, HotAdd, HotFails, HotDone
<1>2. CASE OutsideStep
  BY <1>2, OutsideFrame, Zenon DEF OutsideKept, Inside, Type
<1>3. CASE StopXray \/ CoreStarts \/ CoreExits
  BY <1>3, Zenon DEF StopXray, CoreStarts, CoreExits, callVars
<1>4. ASSUME NEW e \in Editors, EditorStep(e)
      PROVE  pc' = pc
  BY <1>4, EditFrame, Zenon DEF EditKept, Type
<1> QED
  BY <1>1, <1>2, <1>3, <1>4, Zenon DEF Next, OutsideStep, EditorStep

\* HotApplyMatches: tryHotApply returns true only when the running core has the
\* inbounds of the new config.
THEOREM HotAppliesMatch == Spec => HotApplyMatches
<1>1. SInv /\ [Next]_vars =>
        [\A a \in Restarters :
           world.ops = {"settings"} /\ pc[a] = "hot" /\ pc'[a] = "idle" /\ core = "up"
             => live = new[a]]_vars
  <2> SUFFICES ASSUME SInv, Next, Rebuilt, core = "up",
                      NEW a \in Restarters, pc[a] = "hot", pc'[a] = "idle"
               PROVE  live = new[a]
    BY Zenon DEF Rebuilt
  <2>1. toDel = {} /\ toAdd = {}
    BY HotEnds, Zenon DEF SInv, IInv, CallInv
  <2> QED
    BY <2>1, SMTT(30), Zenon DEF SInv, IInv, Type, CoreTypes, ReadTypes, Config, ServedInv, HotInv
<1> QED
  BY <1>1, ServedInvariant, PTL DEF Spec, HotApplyMatches
=============================================================================
