------------------------------ MODULE NodeSync ------------------------------
(***************************************************************************)
(* A master panel that keeps the inbounds of one node in step with its     *)
(* database: internal/web/service/inbound_node.go and node.go,             *)
(* internal/web/runtime/remote.go and                                      *)
(* internal/web/job/node_traffic_sync_job.go.                              *)
(*                                                                         *)
(* Operators edit the master's rows; each edit marks the node dirty.  The  *)
(* sync job reconciles a dirty node (push what differs, sweep what the     *)
(* master does not have), then fetches a snapshot and, when the node is    *)
(* clean, adopts it: what the node's own operator changed wins.  Toggles   *)
(* and deletes also push to the node at once, beside the job.              *)
(*                                                                         *)
(* An inbound is a tag with a configuration and an enabled flag.  The      *)
(* sync mode is "all"; tags are never renamed, so the prefixed aliases     *)
(* and the port-compatible aliases of a tag do not arise.  The master's    *)
(* status of the node and its reachability are one variable; a node that   *)
(* is unreachable though believed online is a lost request.                *)
(***************************************************************************)
EXTENDS Naturals, FiniteSets, Functions

CONSTANTS
  Tags,         \* inbound tags of the node
  Cfgs,         \* configurations of an inbound
  Editors,      \* HTTP handlers on the master that push to the node
  Worlds,       \* the circumstances in play, see Circumstances
  None          \* no row, no call

\* What may happen in a behaviour.  It is chosen at the start and stays.
Circumstances ==
  [tags : SUBSET Tags,          \* the tags that are edited
   cfgs : SUBSET Cfgs,          \* the configurations they get
   onboarding : BOOLEAN,        \* the node starts registered but never synced
   ops : SUBSET {"add", "update", "toggle", "del"},  \* the master's edits
   nodeOps : SUBSET {"add", "update", "del"},  \* edits on the node's own panel
   faultOps : SUBSET {"request", "reply", "empty", "offline", "crash", "same_ms"},
   maxEdits : Nat, maxNodeEdits : Nat, maxFaults : Nat]  \* bounds on each

ASSUME NodeSyncAssumption == Worlds \subseteq Circumstances /\ "job" \notin Editors

VARIABLES
  world,        \* the circumstances of this behaviour
  central,      \* inbounds table: tag -> row or None
  dirty,        \* nodes.config_dirty
  dirtyAt,      \* nodes.config_dirty_at
  adopted,      \* nodes.inbounds_adopted_at # 0
  online,       \* nodes.status
  node,         \* the node's inbounds: live id -> [tag, row]
  nextId,       \* the id the node's next inbound gets
  idCache,      \* Remote.remoteIDByTag: tag -> id, 0 when absent
  pushedFP,     \* Remote.pushedFP: tag -> row last pushed, or None
  call,         \* the request each handler and the job has in flight
  pc,           \* where the job's syncOne is
  n,            \* the node row syncOne was started with
  want,         \* the rows ReconcileNode read
  remote,       \* the tags ReconcileNode listed on the node
  todo,         \* tags still to reconcile or sweep
  errs,         \* some operation of this reconcile failed
  snap,         \* the fetched snapshot: tag -> row or None
  sampled,      \* the dirty flag syncOne or the merge goes by
  base,         \* the rows the merge read before its transaction
  nodeEdit,     \* ghost: the node operator's change of a tag, see NodeNewer
  imported,     \* ghost: tags the master has ever had a row for
  edits, nodeEdits, faults

nodeRow == <<dirty, dirtyAt, adopted, online>>
remoteVars == <<idCache, pushedFP>>
jobVars == <<pc, n, want, remote, todo, errs, snap, sampled, base>>
counters == <<edits, nodeEdits, faults>>
vars == <<world, central, nodeRow, node, nextId, remoteVars, call, jobVars,
          nodeEdit, imported, counters>>

Rows == [cfg : Cfgs, on : BOOLEAN]
WorldRows == [cfg : world.cfgs, on : BOOLEAN]
Callers == Editors \cup {"job"}
Table == [Tags -> Rows \cup {None}]
NoRows == [t \in Tags |-> None]

Requests == [op : {"add", "update", "del"}, tag : Tags, row : Rows \cup {None}, id : Nat,
             res : {"sent", "ok", "err"}]

\* None is neither a row nor a request.
ASSUME NoneAssumption == None \notin Rows /\ None \notin Requests

\* A snapshot or list of the node by tag.
NodeRows ==
  [t \in Tags |-> IF \E i \in DOMAIN node : node[i].tag = t
                  THEN (CHOOSE r \in Rows : \E i \in DOMAIN node : node[i] = [tag |-> t, row |-> r])
                  ELSE None]
NodeIds ==
  [t \in Tags |-> IF \E i \in DOMAIN node : node[i].tag = t
                  THEN CHOOSE i \in DOMAIN node : node[i].tag = t
                  ELSE 0]

\* The node's inbounds with id holding a row.
Put(id, t, row) ==
  [i \in DOMAIN node \cup {id} |-> IF i = id THEN [tag |-> t, row |-> row] ELSE node[i]]

NoNode == [dirty |-> FALSE, dirtyAt |-> 0, adopted |-> FALSE]

\* The node is freshly registered and has inbounds of its own, or it was
\* adopted and both sides agree.
Init ==
  /\ world \in Worlds
  /\ \E own \in Table :
       /\ \A t \in Tags : own[t] # None => t \in world.tags /\ own[t].cfg \in world.cfgs
       /\ LET live == {t \in Tags : own[t] # None} IN
          \E k \in 0 .. Cardinality(Tags) : \E f \in Bijection(1 .. k, live) :
            /\ node = [i \in 1 .. k |-> [tag |-> f[i], row |-> own[f[i]]]]
            /\ nextId = k + 1
       /\ adopted = ~world.onboarding
       /\ central = IF world.onboarding THEN NoRows ELSE own
       /\ nodeEdit = [t \in Tags |->
            IF world.onboarding /\ own[t] # None THEN "latest" ELSE "none"]
       /\ imported = {t \in Tags : central[t] # None}
  /\ dirty = FALSE /\ dirtyAt = 0 /\ online = TRUE
  /\ idCache = [t \in Tags |-> 0] /\ pushedFP = NoRows
  /\ call = [p \in Callers |-> None]
  /\ pc = "idle" /\ n = NoNode
  /\ want = NoRows /\ snap = NoRows /\ base = NoRows
  /\ remote = {} /\ todo = {}
  /\ errs = FALSE /\ sampled = FALSE
  /\ edits = 0 /\ nodeEdits = 0 /\ faults = 0

Fault(kind) == kind \in world.faultOps /\ faults < world.maxFaults /\ faults' = faults + 1
-----------------------------------------------------------------------------
(* Edits on the master. *)

\* The stamp is the wall clock in milliseconds: a later edit has a later one,
\* or the same.
MarkNodeDirty ==
  /\ dirty' = TRUE
  /\ \/ dirtyAt' = edits + 1
     \/ "same_ms" \in world.faultOps /\ dirtyAt > 0 /\ dirtyAt' = dirtyAt
  /\ UNCHANGED <<adopted, online>>

\* A change made on the node's panel is "latest" until the master edits the tag,
\* "overruled" from then until a push replaces it.
NodeNewer(t) == nodeEdit[t] = "latest"
Overrule(t) == nodeEdit' = [nodeEdit EXCEPT ![t] = IF @ = "latest" THEN "overruled" ELSE @]

Edited(t) ==
  /\ edits < world.maxEdits /\ edits' = edits + 1
  /\ Overrule(t)
  /\ UNCHANGED <<nodeEdits, faults>>

\* Adds, updates and client edits run on the serial writer, so never inside
\* a merge.
WriterFree == pc \notin {"mergeRead", "commit"}

\* A disabled inbound does not mark the node dirty: it is not delivered until
\* some other edit is.
AddInbound(t, row) ==
  /\ "add" \in world.ops /\ WriterFree /\ central[t] = None
  /\ central' = [central EXCEPT ![t] = row]
  /\ imported' = imported \cup {t}
  /\ IF row.on
     THEN MarkNodeDirty /\ Edited(t)
     ELSE /\ edits < world.maxEdits /\ edits' = edits + 1
          /\ UNCHANGED <<nodeRow, nodeEdit, nodeEdits, faults>>
  /\ UNCHANGED <<node, nextId, remoteVars, call, jobVars>>

UpdateInbound(t, cfg) ==
  /\ "update" \in world.ops /\ WriterFree
  /\ central[t] # None /\ central[t].cfg # cfg
  /\ central' = [central EXCEPT ![t].cfg = cfg]
  /\ MarkNodeDirty /\ Edited(t)
  /\ UNCHANGED <<node, nextId, remoteVars, call, jobVars, imported>>
-----------------------------------------------------------------------------
(* Requests to the node. *)

NewCall(op, t, row, id) == [op |-> op, tag |-> t, row |-> row, id |-> id, res |-> "sent"]

\* resolveRemoteID: the cached id, else the one of a fresh list (which may be
\* lost or come back empty); 0 when unresolved.
ResolveRemoteID(t, id) ==
  \/ /\ idCache[t] # 0 /\ id = idCache[t]
     /\ UNCHANGED <<idCache, faults>>
  \/ /\ idCache[t] = 0 /\ id = NodeIds[t]
     /\ idCache' = NodeIds /\ UNCHANGED faults
  \/ /\ idCache[t] = 0 /\ id = 0
     /\ \/ Fault("request") /\ UNCHANGED idCache
        \/ Fault("empty") /\ idCache' = [u \in Tags |-> 0]

\* Remote.UpdateInbound: an unresolved tag is added.
PushUpdate(p, t, row) ==
  \E id \in {0, idCache[t], NodeIds[t]} :
    /\ ResolveRemoteID(t, id)
    /\ call' = [call EXCEPT ![p] = NewCall(IF id = 0 THEN "add" ELSE "update", t, row, id)]

\* Remote.DelInbound: an unresolved tag counts as deleted.
PushDel(p, t) ==
  \E id \in {0, idCache[t], NodeIds[t]} :
    /\ ResolveRemoteID(t, id)
    /\ call' = [call EXCEPT ![p] = IF id = 0 THEN None ELSE NewCall("del", t, None, id)]

\* SetInboundEnable reads the row first ...
ToggleRead(e, t) ==
  /\ "toggle" \in world.ops /\ call[e] = None
  /\ central[t] # None /\ edits < world.maxEdits
  /\ call' = [call EXCEPT ![e] = [op |-> "toggle", tag |-> t, row |-> central[t], id |-> 0, res |-> ""]]
  /\ UNCHANGED <<central, nodeRow, node, nextId, remoteVars, jobVars, nodeEdit, imported, counters>>

\* ... then writes the one column outside the serial writer, and pushes the
\* row as it read it.
SetInboundEnable(e) ==
  /\ call[e] # None /\ call[e].op = "toggle"
  /\ LET t == call[e].tag
         row == [call[e].row EXCEPT !.on = ~@]
     IN /\ central' = IF central[t] = None THEN central ELSE [central EXCEPT ![t].on = row.on]
        /\ MarkNodeDirty
        /\ edits < world.maxEdits /\ edits' = edits + 1
        /\ Overrule(t)
        /\ IF online
           THEN PushUpdate(e, t, row)
           ELSE /\ call' = [call EXCEPT ![e] = None]
                /\ UNCHANGED <<idCache, faults>>
  /\ UNCHANGED <<node, nextId, pushedFP, jobVars, imported, nodeEdits>>

\* delInbound also commits outside the serial writer.
DelInbound(e, t) ==
  /\ "del" \in world.ops /\ call[e] = None /\ central[t] # None
  /\ central' = [central EXCEPT ![t] = None]
  /\ MarkNodeDirty
  /\ edits < world.maxEdits /\ edits' = edits + 1
  /\ Overrule(t)
  /\ IF online THEN PushDel(e, t) ELSE UNCHANGED <<idCache, faults, call>>
  /\ UNCHANGED <<node, nextId, pushedFP, jobVars, imported, nodeEdits>>

InFlight(p, res) == call[p] # None /\ call[p].res = res

\* The node's own panel carries the request out.
Serve(p) ==
  /\ InFlight(p, "sent")
  /\ LET c == call[p]
         taken == {i \in DOMAIN node : node[i].tag = c.tag}
         ok == CASE c.op = "add" -> taken = {}
                 [] c.op = "update" -> c.id \in DOMAIN node /\ taken \subseteq {c.id}
                 [] c.op = "del" -> TRUE
         id == IF c.op = "add" THEN nextId ELSE c.id
         left == Restrict(node, DOMAIN node \ {c.id})
     IN /\ node' = CASE ~ok -> node
                     [] c.op = "del" -> left
                     [] OTHER -> Put(id, c.tag, c.row)
        /\ nextId' = CASE ok /\ c.op = "add" -> nextId + 1
                       [] c.op = "del" /\ DOMAIN left = {} -> 1
                       [] OTHER -> nextId
        /\ nodeEdit' = IF ok THEN [nodeEdit EXCEPT ![c.tag] = "none"] ELSE nodeEdit
        /\ call' = [call EXCEPT ![p].id = id, ![p].res = IF ok THEN "ok" ELSE "err"]
  /\ UNCHANGED <<central, nodeRow, remoteVars, jobVars, imported, counters>>

LoseRequest(p) ==
  /\ InFlight(p, "sent") /\ Fault("request")
  /\ call' = [call EXCEPT ![p].res = "err"]
  /\ UNCHANGED <<central, nodeRow, node, nextId, remoteVars, jobVars, nodeEdit, imported, edits, nodeEdits>>

\* The node did it; the caller sees a timeout.
LoseReply(p) ==
  /\ InFlight(p, "ok") /\ Fault("reply")
  /\ call' = [call EXCEPT ![p].res = "err"]
  /\ UNCHANGED <<central, nodeRow, node, nextId, remoteVars, jobVars, nodeEdit, imported, edits, nodeEdits>>

\* What a caller records of a finished request.
Record(c) ==
  IF c.res = "err" THEN UNCHANGED remoteVars
  ELSE /\ idCache' = [idCache EXCEPT ![c.tag] = IF c.op = "del" THEN 0 ELSE c.id]
       /\ pushedFP' = [pushedFP EXCEPT ![c.tag] = c.row]

EditorReturns(e) ==
  /\ InFlight(e, "ok") \/ InFlight(e, "err")
  /\ Record(call[e])
  /\ call' = [call EXCEPT ![e] = None]
  /\ UNCHANGED <<central, nodeRow, node, nextId, jobVars, nodeEdit, imported, counters>>
-----------------------------------------------------------------------------
(* The sync job: one tick of syncOne. *)

OthersUnchanged == UNCHANGED <<call, central, nodeRow, node, nextId, remoteVars,
                               nodeEdit, imported, counters>>

\* Run loads every node row and syncs the ones that are online.
TickStart ==
  /\ pc = "idle" /\ online
  /\ n' = [dirty |-> dirty, dirtyAt |-> dirtyAt, adopted |-> adopted]
  /\ pc' = IF dirty THEN "read" ELSE "fetch"
  /\ UNCHANGED <<want, remote, todo, errs, snap, sampled, base>>
  /\ OthersUnchanged

ReconcileRead ==
  /\ pc = "read" /\ pc' = "list"
  /\ want' = central
  /\ UNCHANGED <<n, remote, todo, errs, snap, sampled, base>>
  /\ OthersUnchanged

\* A list that is lost ends the reconcile; the tick goes on to the snapshot.
ReconcileList ==
  /\ pc = "list"
  /\ \/ /\ remote' = {t \in Tags : NodeRows[t] # None} /\ UNCHANGED faults
        /\ pc' = "push" /\ todo' = {t \in Tags : want[t] # None} /\ UNCHANGED want
     \/ /\ Fault("empty") /\ remote' = {}
        /\ pc' = "push" /\ todo' = {t \in Tags : want[t] # None} /\ UNCHANGED want
     \/ /\ Fault("request") /\ remote' = {}
        /\ pc' = "fetch" /\ want' = NoRows /\ UNCHANGED todo
  /\ UNCHANGED <<n, errs, snap, sampled, base>>
  /\ UNCHANGED <<call, central, nodeRow, node, nextId, remoteVars, nodeEdit, imported, edits, nodeEdits>>

\* ReconcileInbound skips a tag the node reports whose payload is the last one
\* pushed.  An edit back to that payload is no edit to it: a change the node's
\* operator made in between stands.
Unchanged(t) == t \in remote /\ pushedFP[t] = want[t]

ReconcileSkip(t) ==
  /\ pc = "push" /\ call["job"] = None /\ t \in todo /\ Unchanged(t)
  /\ todo' = todo \ {t}
  /\ nodeEdit' = IF nodeEdit[t] # "none" /\ central[t] = pushedFP[t]
                 THEN [nodeEdit EXCEPT ![t] = "latest"] ELSE nodeEdit
  /\ UNCHANGED <<pc, n, want, remote, errs, snap, sampled, base>>
  /\ UNCHANGED <<call, central, nodeRow, node, nextId, remoteVars, imported, counters>>

ReconcilePush(t) ==
  /\ pc = "push" /\ call["job"] = None /\ t \in todo /\ ~Unchanged(t)
  /\ PushUpdate("job", t, want[t])
  /\ UNCHANGED <<central, nodeRow, node, nextId, pushedFP, jobVars, nodeEdit, imported, edits, nodeEdits>>

\* Every tag is tried; a failure (of the push, or of the link policies that
\* follow it) is remembered.  The sweep waits for the first clean adoption.
ReconcileReturns ==
  /\ pc \in {"push", "sweep"}
  /\ InFlight("job", "ok") \/ InFlight("job", "err")
  /\ Record(call["job"])
  /\ call' = [call EXCEPT !["job"] = None]
  /\ todo' = todo \ {call["job"].tag}
  /\ \/ errs' = (errs \/ call["job"].res = "err") /\ UNCHANGED faults
     \/ pc = "push" /\ Fault("request") /\ errs' = TRUE
  /\ UNCHANGED <<pc, n, want, remote, snap, sampled, base>>
  /\ UNCHANGED <<central, nodeRow, node, nextId, nodeEdit, imported, edits, nodeEdits>>

SweepStart ==
  /\ pc = "push" /\ todo = {}
  /\ pc' = IF n.adopted THEN "sweep" ELSE "clear"
  /\ todo' = IF n.adopted THEN {t \in remote : want[t] = None} ELSE {}
  /\ UNCHANGED <<n, want, remote, errs, snap, sampled, base>>
  /\ OthersUnchanged

SweepDel(t) ==
  /\ pc = "sweep" /\ call["job"] = None /\ t \in todo
  /\ PushDel("job", t)
  /\ todo' = IF call'["job"] = None THEN todo \ {t} ELSE todo
  /\ UNCHANGED <<pc, n, want, remote, errs, snap, sampled, base>>
  /\ UNCHANGED <<central, nodeRow, node, nextId, pushedFP, nodeEdit, imported, edits, nodeEdits>>

SweepEnd ==
  /\ pc = "sweep" /\ todo = {} /\ pc' = "clear"
  /\ UNCHANGED <<n, want, remote, todo, errs, snap, sampled, base>>
  /\ OthersUnchanged

\* Mutant: the stamp of the edit is not compared.
ClearNodeDirtyAlways ==
  /\ pc = "clear" /\ pc' = "fetch"
  /\ dirty' = (dirty /\ errs)
  /\ want' = NoRows /\ remote' = {} /\ errs' = FALSE
  /\ UNCHANGED <<n, todo, snap, sampled, base, dirtyAt, adopted, online>>
  /\ UNCHANGED <<call, central, node, nextId, remoteVars, nodeEdit, imported, counters>>

\* A reconcile without errors clears the flag, unless a newer edit set it.
ClearNodeDirty ==
  /\ pc = "clear" /\ pc' = "fetch"
  /\ dirty' = (dirty /\ (errs \/ dirtyAt # n.dirtyAt))
  /\ want' = NoRows /\ remote' = {} /\ errs' = FALSE
  /\ UNCHANGED <<n, todo, snap, sampled, base, dirtyAt, adopted, online>>
  /\ UNCHANGED <<call, central, node, nextId, remoteVars, nodeEdit, imported, counters>>

Finish ==
  /\ pc' = "idle" /\ n' = NoNode
  /\ want' = NoRows /\ snap' = NoRows /\ base' = NoRows
  /\ remote' = {} /\ todo' = {}
  /\ errs' = FALSE /\ sampled' = FALSE

FetchTrafficSnapshot ==
  /\ pc = "fetch"
  /\ \/ /\ snap' = NodeRows /\ pc' = "sample" /\ UNCHANGED faults
        /\ UNCHANGED <<n, want, remote, todo, errs, sampled, base>>
     \/ /\ Fault("empty") /\ snap' = NoRows /\ pc' = "sample"
        /\ UNCHANGED <<n, want, remote, todo, errs, sampled, base>>
     \/ Fault("request") /\ Finish
  /\ UNCHANGED <<call, central, nodeRow, node, nextId, remoteVars, nodeEdit, imported, edits, nodeEdits>>

\* syncOne samples the flag before it queues the merge (and, for a node with
\* inbounds to adopt, before it fetches their hosts).
SampleDirty ==
  /\ pc = "sample" /\ pc' = "merge"
  /\ sampled' = dirty
  /\ UNCHANGED <<n, want, remote, todo, errs, snap, base>>
  /\ OthersUnchanged

\* Mutant: the merge goes by the flag its caller sampled.
MergeDirtyStale ==
  /\ pc = "merge" /\ pc' = "mergeRead"
  /\ n' = [n EXCEPT !.dirty = sampled]
  /\ UNCHANGED <<want, remote, todo, errs, snap, sampled, base>>
  /\ OthersUnchanged

\* setRemoteTrafficLocked, on the serial writer: read the flag again, then the
\* rows, then merge them in a transaction.
MergeDirty ==
  /\ pc = "merge" /\ pc' = "mergeRead"
  /\ n' = [n EXCEPT !.dirty = sampled \/ dirty]
  /\ UNCHANGED <<want, remote, todo, errs, snap, sampled, base>>
  /\ OthersUnchanged

MergeRead ==
  /\ pc = "mergeRead" /\ pc' = "commit"
  /\ base' = central
  /\ UNCHANGED <<n, want, remote, todo, errs, snap, sampled>>
  /\ OthersUnchanged

\* Mutant: a known row keeps the master's values.
AdoptedNewOnly(t) ==
  CASE snap[t] # None /\ base[t] = None -> IF central[t] = None THEN snap[t] ELSE central[t]
    [] snap[t] = None /\ base[t] # None /\ base[t].on /\ snap # NoRows -> None
    [] OTHER -> central[t]

\* Mutant: a row the node no longer reports stays.
AdoptedNoRemoval(t) ==
  CASE snap[t] # None /\ base[t] = None -> IF central[t] = None THEN snap[t] ELSE central[t]
    [] snap[t] # None /\ base[t] # None -> IF central[t] = None THEN None ELSE snap[t]
    [] OTHER -> central[t]

\* What the merge makes of a row: an unknown tag is created, a known one takes
\* the node's values, an enabled one the node no longer reports is removed
\* (unless it reports nothing at all).
Adopted(t) ==
  CASE snap[t] # None /\ base[t] = None -> IF central[t] = None THEN snap[t] ELSE central[t]
    [] snap[t] # None /\ base[t] # None -> IF central[t] = None THEN None ELSE snap[t]
    [] snap[t] = None /\ base[t] # None /\ base[t].on /\ snap # NoRows -> None
    [] OTHER -> central[t]

MergeCommit ==
  /\ pc = "commit" /\ pc' = "mark"
  /\ central' = IF n.dirty THEN central ELSE [t \in Tags |-> Adopted(t)]
  /\ imported' = imported \cup {t \in Tags : central'[t] # None}
  /\ pushedFP' = [t \in Tags |->
       IF ~n.dirty /\ base[t] # None /\ snap[t] # None /\ base[t] # snap[t]
       THEN snap[t] ELSE pushedFP[t]]
  /\ base' = NoRows
  /\ UNCHANGED <<n, want, remote, todo, errs, snap, sampled>>
  /\ UNCHANGED <<call, nodeRow, node, nextId, idCache, nodeEdit, counters>>

\* The first tick that was clean when sampled ends the onboarding.
MarkNodeInboundsAdopted ==
  /\ pc = "mark"
  /\ adopted' = (adopted \/ (~sampled /\ ~n.adopted))
  /\ Finish
  /\ UNCHANGED <<dirty, dirtyAt, online>>
  /\ UNCHANGED <<call, central, node, nextId, remoteVars, nodeEdit, imported, counters>>
-----------------------------------------------------------------------------
(* The node's own operator, and the environment. *)

NodeEdited(t) ==
  /\ nodeEdits < world.maxNodeEdits /\ nodeEdits' = nodeEdits + 1
  /\ nodeEdit' = [nodeEdit EXCEPT ![t] = "latest"]
  /\ UNCHANGED <<central, nodeRow, remoteVars, call, jobVars, imported, edits, faults>>

NodeAdd(t, row) ==
  /\ "add" \in world.nodeOps /\ NodeIds[t] = 0
  /\ node' = Put(nextId, t, row)
  /\ nextId' = nextId + 1
  /\ NodeEdited(t)

NodeUpdate(t, row) ==
  /\ "update" \in world.nodeOps /\ NodeIds[t] # 0 /\ NodeRows[t] # row
  /\ node' = Put(NodeIds[t], t, row)
  /\ UNCHANGED nextId
  /\ NodeEdited(t)

NodeDel(t) ==
  /\ "del" \in world.nodeOps /\ NodeIds[t] # 0
  /\ node' = Restrict(node, DOMAIN node \ {NodeIds[t]})
  /\ nextId' = IF node' = <<>> THEN 1 ELSE nextId
  /\ NodeEdited(t)

GoOffline ==
  /\ online /\ Fault("offline") /\ online' = FALSE
  /\ UNCHANGED <<dirty, dirtyAt, adopted, central, node, nextId, remoteVars, call, jobVars,
                 nodeEdit, imported, edits, nodeEdits>>

Reconnect ==
  /\ ~online /\ online' = TRUE
  /\ UNCHANGED <<dirty, dirtyAt, adopted, central, node, nextId, remoteVars, call, jobVars,
                 nodeEdit, imported, counters>>

\* The panel restarts: the database survives, the Remote and the job do not.
Crash ==
  /\ Fault("crash")
  /\ idCache' = [t \in Tags |-> 0] /\ pushedFP' = NoRows
  /\ call' = [p \in Callers |-> None]
  /\ Finish
  /\ UNCHANGED <<central, nodeRow, node, nextId, nodeEdit, imported, edits, nodeEdits>>
-----------------------------------------------------------------------------
Job ==
  \/ TickStart \/ ReconcileRead \/ ReconcileList
  \/ \E t \in Tags : ReconcileSkip(t) \/ ReconcilePush(t) \/ SweepDel(t)
  \/ ReconcileReturns \/ SweepStart \/ SweepEnd \/ ClearNodeDirty
  \/ FetchTrafficSnapshot \/ SampleDirty \/ MergeDirty \/ MergeRead \/ MergeCommit
  \/ MarkNodeInboundsAdopted

Editor(e) ==
  \/ \E t \in world.tags : ToggleRead(e, t) \/ DelInbound(e, t)
  \/ SetInboundEnable(e) \/ EditorReturns(e)

Edit ==
  \E t \in world.tags :
    \/ \E row \in WorldRows : AddInbound(t, row)
    \/ \E cfg \in world.cfgs : UpdateInbound(t, cfg)

NodeEdit ==
  \E t \in world.tags :
    \/ \E row \in WorldRows : NodeAdd(t, row) \/ NodeUpdate(t, row)
    \/ NodeDel(t)

Steps ==
  \/ Job \/ Edit \/ NodeEdit
  \/ \E e \in Editors : Editor(e)
  \/ \E p \in Callers : Serve(p) \/ LoseRequest(p) \/ LoseReply(p)
  \/ GoOffline \/ Reconnect \/ Crash

Next == Steps /\ UNCHANGED world

Spec == Init /\ [][Next]_vars

\* The job ticks on, requests are answered, handlers finish, the node comes back.
Fairness ==
  /\ WF_vars(Job /\ UNCHANGED world)
  /\ \A p \in Callers : WF_vars(Serve(p) /\ UNCHANGED world)
  /\ \A e \in Editors : /\ WF_vars(SetInboundEnable(e) /\ UNCHANGED world)
                         /\ WF_vars(EditorReturns(e) /\ UNCHANGED world)
  /\ WF_vars(Reconnect /\ UNCHANGED world)

FairSpec == Spec /\ Fairness
-----------------------------------------------------------------------------
\* The node differs from what the master would push.
Differs(t) ==
  NodeRows[t] # central[t] /\ (central[t] = None \/ central[t].on \/ NodeRows[t] # None)

\* No silent drift: whenever the node differs from the master's row, either the
\* dirty flag is set, so that a reconcile will push the row, or the node's own
\* operator made the latest change, which a merge will adopt.
NoSilentDrift == \A t \in Tags : Differs(t) => dirty \/ NodeNewer(t)

\* Adopting a snapshot never undoes an edit that marked the node dirty: a merge
\* changes a row only where the node's operator made the latest change.
EditsKept ==
  [][pc = "commit" /\ pc' = "mark" => \A t \in Tags : central'[t] # central[t] => NodeNewer(t)]_vars

\* A reconcile never deletes from the node an inbound the master has not
\* imported yet ("absent locally" means "not imported yet").
SweepsOnlyImported ==
  [][\A t \in Tags : pc = "sweep" /\ NodeRows[t] # None /\ NodeRows'[t] = None => t \in imported]_vars

\* Once edits, faults and outages end, both sides agree for good: edits of an
\* offline node converge when it reconnects, a node that lost an inbound is
\* re-seeded.  A node that reports no inbound at all while nothing is pending
\* is left alone, as the merge takes an empty list for "nothing to say".
Converges == <>[]((\A t \in Tags : ~Differs(t)) \/ (NodeRows = NoRows /\ ~dirty))
=============================================================================
