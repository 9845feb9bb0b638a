--------------------------- MODULE NodeSyncProofs ---------------------------
(***************************************************************************)
(* The sync of a node, for any tags, configurations, editors and bounds,   *)
(* in the circumstances in which everything the master sends goes through  *)
(* the job: the inductive invariant, the steps of the job, what the node   *)
(* does with a request, the edits on both sides, restarts and the merge;   *)
(* and the theorems.                                                       *)
(***************************************************************************)
EXTENDS NodeSync, TLAPS

(* The master adds and updates inbounds, which the job delivers; it neither
   toggles nor deletes, which its handlers push themselves.  The node's own
   operator adds and updates.  Requests are lost before the node serves them,
   lists come back empty, the node goes offline, the panel restarts; no reply
   is lost and no two edits share a stamp.                                  *)
Serialized(w) ==
    /\ w.ops \subseteq {"add", "update"}
    /\ w.nodeOps \subseteq {"add", "update"}
    /\ w.faultOps \cap {"reply", "same_ms"} = {}

(* Types, by who owns the state.                                            *)
Inbound == [tag : Tags, row : Rows]
jobCall == call["job"]
Points == {"idle", "read", "list", "push", "sweep", "clear", "fetch", "sample", "merge",
           "mergeRead", "commit", "mark"}

NodeTypes ==
    /\ nextId \in Nat \ {0}
    /\ node \in [DOMAIN node -> Inbound]
    /\ DOMAIN node \subseteq 1 .. (nextId - 1)
    /\ \A i, j \in DOMAIN node : node[i].tag = node[j].tag => i = j

TableTypes ==
    /\ central \in Table /\ want \in Table /\ snap \in Table /\ base \in Table /\ pushedFP \in Table
    /\ nodeEdit \in [Tags -> {"none", "latest", "overruled"}] /\ idCache \in [Tags -> Nat]

JobTypes ==
    /\ world \in Worlds
    /\ pc \in Points /\ todo \subseteq Tags /\ remote \subseteq Tags
    /\ n \in [dirty : BOOLEAN, dirtyAt : Nat, adopted : BOOLEAN]
    /\ dirty \in BOOLEAN /\ adopted \in BOOLEAN /\ dirtyAt \in Nat /\ edits \in Nat
    /\ call \in [Callers -> Requests \cup {None}]
    /\ \A e \in Editors : call[e] = None

(* No stamp is ahead of the edits, and a reconcile runs while the node is
   dirty.                                                                   *)
StampInv == dirtyAt <= edits /\ n.dirtyAt <= edits
            /\ (pc \in {"read", "list", "push", "sweep", "clear"} => dirty)

(* The node has tag t under id i.                                           *)
On(t, i) == i \in DOMAIN node /\ node[i].tag = t

(* The job's request: a push carries the row that was read, a sweep a tag that
   was not; its id is the tag's own; once served, the node holds what was
   sent unless its operator changed it since.                               *)
CallInv == jobCall # None =>
    /\ pc = "push" => jobCall.op # "del" /\ jobCall.row # None /\ jobCall.row = want[jobCall.tag]
    /\ pc = "sweep" => jobCall.op = "del" /\ jobCall.row = None /\ want[jobCall.tag] = None
    /\ pc \in {"push", "sweep"} /\ jobCall.tag \in todo
    /\ jobCall.res = "sent" /\ jobCall.op # "add" => On(jobCall.tag, jobCall.id)
    /\ jobCall.res = "ok" /\ jobCall.op # "del" =>
         /\ On(jobCall.tag, jobCall.id)
         /\ NodeRows[jobCall.tag] = jobCall.row \/ nodeEdit[jobCall.tag] # "none"
         /\ dirtyAt = n.dirtyAt => NodeRows[jobCall.tag] = jobCall.row \/ NodeNewer(jobCall.tag)

(* The node has carried out a request for t, the job does not know yet.     *)
Unrecorded(t) == jobCall # None /\ jobCall.tag = t /\ jobCall.res = "ok"

(* A cached id is the tag's own on the node.                                *)
CacheInv ==
    \A t \in Tags : idCache[t] # 0 => On(t, idCache[t]) \/ (Unrecorded(t) /\ jobCall.op = "del")

(* The fingerprint of the last push is what the node holds, unless its operator
   changed the inbound after that.                                          *)
PushedInv ==
    \A t \in Tags : pushedFP[t] # None =>
       NodeRows[t] = pushedFP[t] \/ nodeEdit[t] # "none" \/ Unrecorded(t)

(* An inbound the master has no row for is the node operator's.             *)
OwnInv == \A t \in Tags : NodeRows[t] # None /\ central[t] = None => NodeNewer(t)

Reconciling == pc \in {"list", "push", "sweep", "clear"}

(* What the reconcile read is still the table, as long as the stamp is the one
   it started from; only a disabled row may have come, which does not mark
   the node.                                                                *)
WantInv ==
    /\ Reconciling => \A t \in Tags : want[t] # None => central[t] # None
    /\ pc = "push" => \A t \in todo : want[t] # None
    /\ pc = "sweep" => \A t \in todo : want[t] = None
    /\ Reconciling /\ dirtyAt = n.dirtyAt => \A t \in Tags :
         \/ want[t] = central[t]
         \/ /\ want[t] = None /\ central[t] # None /\ ~central[t].on
            /\ NodeRows[t] = None \/ NodeNewer(t)

(* A reconcile without errors has brought the node to every row it is through
   with, as long as the stamp is the one it started from.                   *)
DoneInv ==
    pc \in {"push", "sweep", "clear"} /\ ~errs /\ dirtyAt = n.dirtyAt => \A t \in Tags :
        want[t] # None /\ ~(pc = "push" /\ t \in todo) => NodeRows[t] = want[t] \/ NodeNewer(t)

(* While the node is clean, the snapshot is the node but for its operator's
   later changes; and what the merge reads is the table it writes.          *)
SnapInv ==
    /\ pc \in {"sample", "merge", "mergeRead", "commit"} /\ ~dirty =>
         snap = NoRows \/ \A t \in Tags : snap[t] = NodeRows[t] \/ NodeNewer(t)
    /\ pc \in {"mergeRead", "commit"} /\ ~n.dirty => ~dirty
    /\ pc = "commit" => base = central

(* The inductive invariant.                                                 *)
IInv ==
    /\ NodeTypes /\ TableTypes /\ JobTypes /\ StampInv /\ CallInv /\ CacheInv /\ PushedInv /\ OwnInv
    /\ WantInv /\ DoneInv /\ SnapInv /\ NoSilentDrift
-----------------------------------------------------------------------------
(* What the node's list says of a tag, as tags are unique on the node.      *)
RowsFacts ==
    /\ NodeRows \in Table /\ NodeIds \in [Tags -> Nat]
    /\ \A t \in Tags : \A i \in DOMAIN node :
         node[i].tag = t => NodeRows[t] = node[i].row /\ NodeIds[t] = i
    /\ \A t \in Tags : (\A i \in DOMAIN node : node[i].tag # t) => NodeRows[t] = None /\ NodeIds[t] = 0

(* The list by tag finds the one inbound of a tag, or none.                 *)
LEMMA NodeByTag == NodeTypes => RowsFacts
<1> SUFFICES ASSUME NodeTypes PROVE RowsFacts
    BY Zenon
<1>1. ASSUME NEW t \in Tags, NEW i \in DOMAIN node, node[i].tag = t
      PROVE  NodeRows[t] = node[i].row /\ NodeIds[t] = i
  <2>1. i \in DOMAIN node /\ node[i] \in Inbound
        BY <1>1, Zenon DEF NodeTypes
  <2>2. \E r \in Rows : \E k \in DOMAIN node : node[k] = [tag |-> t, row |-> r]
        BY <1>1, <2>1, Zenon DEF Inbound
  <2>3. \A r \in Rows, k \in DOMAIN node : node[k] = [tag |-> t, row |-> r] => k = i /\ r = node[i].row
        BY <1>1 DEF NodeTypes
  <2>4. (CHOOSE r \in Rows : \E k \in DOMAIN node : node[k] = [tag |-> t, row |-> r]) = node[i].row
        BY <2>2, <2>3, Zenon
  <2>5. (CHOOSE k \in DOMAIN node : node[k].tag = t) = i
        BY <1>1, Zenon DEF NodeTypes
  <2> QED BY <1>1, <2>4, <2>5, Zenon DEF NodeRows, NodeIds
<1>2. ASSUME NEW t \in Tags, \A i \in DOMAIN node : node[i].tag # t
      PROVE  NodeRows[t] = None /\ NodeIds[t] = 0
      BY <1>2, Zenon DEF NodeRows, NodeIds
<1>3. \A t \in Tags : NodeRows[t] \in Rows \cup {None} /\ NodeIds[t] \in Nat
      BY <1>1, <1>2 DEF NodeTypes, Inbound
<1>4. NodeRows \in Table /\ NodeIds \in [Tags -> Nat]
      BY <1>3, Zenon DEF NodeRows, NodeIds, Table
<1> QED BY <1>1, <1>2, <1>4 DEF RowsFacts

(* The list changes only with the node.                                     *)
LEMMA NodeKept == ASSUME UNCHANGED node PROVE NodeRows' = NodeRows /\ NodeIds' = NodeIds
BY DEF NodeRows, NodeIds

(* After the step the node has tag t under id i; only t's row changed.      *)
OnNext(t, i) == i \in DOMAIN node' /\ node'[i].tag = t
NewRows(t, r) ==
    /\ \A u \in Tags \ {t} : NodeRows'[u] = NodeRows[u]
    /\ NodeRows'[t] = r /\ NodeRows' \in Table

(* Adding or replacing the inbound of a tag changes no other.               *)
LEMMA NodePut ==
  ASSUME NodeTypes, NEW t \in Tags, NEW r \in Rows, NEW i \in Nat \ {0},
         node' = Put(i, t, r),
         \A j \in DOMAIN node : j = i <=> node[j].tag = t,
         nextId' \in Nat, i < nextId', nextId <= nextId'
  PROVE  /\ NodeTypes' /\ NewRows(t, r) /\ OnNext(t, i)
         /\ \A u \in Tags, j \in Nat : On(u, j) => On(u, j)'
<1>1. /\ DOMAIN node' = DOMAIN node \cup {i} /\ node'[i] = [tag |-> t, row |-> r]
      /\ \A j \in DOMAIN node : j # i => node'[j] = node[j]
      /\ node' \in [DOMAIN node' -> Inbound]
      BY Zenon DEF NodeTypes, Inbound, Put
<1>2. NodeTypes'
      BY <1>1 DEF NodeTypes, Inbound
<1>3. RowsFacts /\ RowsFacts'
      BY <1>2, NodeByTag, PTL
<1>4. NodeRows' \in Table /\ NodeRows'[t] = r
      BY <1>1, <1>3 DEF RowsFacts
<1>5. ASSUME NEW u \in Tags \ {t} PROVE NodeRows'[u] = NodeRows[u]
  <2>1. CASE \E j \in DOMAIN node : node[j].tag = u
        BY <2>1, <1>1, <1>3 DEF RowsFacts
  <2>2. CASE \A j \in DOMAIN node : node[j].tag # u
        BY <2>2, <1>1, <1>3 DEF RowsFacts
  <2> QED BY <2>1, <2>2
<1> QED BY <1>1, <1>2, <1>4, <1>5 DEF NewRows, On, OnNext

(* Deleting the inbound of a tag changes no other; ids start over only on an
   empty node.                                                              *)
LEMMA NodeDrop ==
  ASSUME NodeTypes, NEW t \in Tags, NEW i, On(t, i),
         DOMAIN node' = DOMAIN node \ {i}, node' \in [DOMAIN node' -> Inbound],
         \A j \in DOMAIN node' : node'[j] = node[j],
         nextId' = nextId \/ (nextId' = 1 /\ DOMAIN node' = {})
  PROVE  /\ NodeTypes' /\ NewRows(t, None)
         /\ \A u \in Tags \ {t}, j \in Nat : On(u, j) => On(u, j)'
<1>2. NodeTypes'
      BY DEF NodeTypes
<1>3. RowsFacts /\ RowsFacts'
      BY <1>2, NodeByTag, PTL
<1>4. NodeRows' \in Table /\ NodeRows'[t] = None
      BY <1>3 DEF RowsFacts, On, NodeTypes
<1>5. ASSUME NEW u \in Tags \ {t} PROVE NodeRows'[u] = NodeRows[u]
  <2>1. CASE \E j \in DOMAIN node : node[j].tag = u
        BY <2>1, <1>3 DEF RowsFacts, On
  <2>2. CASE \A j \in DOMAIN node : node[j].tag # u
        BY <2>2, <1>3 DEF RowsFacts
  <2> QED BY <2>1, <2>2
<1> QED BY <1>2, <1>4, <1>5 DEF NewRows, On

(* A fresh node, or one that agrees with the master, satisfies the invariant. *)
LEMMA InitIInv == Init => IInv
<1> SUFFICES ASSUME Init PROVE IInv
    BY Zenon
<1> USE NodeSyncAssumption, NoneAssumption
<1>1. PICK own \in Table :
       LET live == {t \in Tags : own[t] # None} IN
       /\ \E k \in 0 .. Cardinality(Tags) : \E f \in Bijection(1 .. k, live) :
            /\ node = [i \in 1 .. k |-> [tag |-> f[i], row |-> own[f[i]]]]
            /\ nextId = k + 1
       /\ central = IF world.onboarding THEN NoRows ELSE own
       /\ nodeEdit = [t \in Tags |-> IF world.onboarding /\ own[t] # None THEN "latest" ELSE "none"]
      BY Zenon DEF Init
<1> DEFINE live == {t \in Tags : own[t] # None}
<1>2. PICK k \in 0 .. Cardinality(Tags) : \E f \in Bijection(1 .. k, live) :
            /\ node = [i \in 1 .. k |-> [tag |-> f[i], row |-> own[f[i]]]]
            /\ nextId = k + 1
      BY <1>1, Zenon
<1>2a. PICK f \in Bijection(1 .. k, live) : node = [i \in 1 .. k |-> [tag |-> f[i], row |-> own[f[i]]]]
      BY <1>2, Zenon
<1>3. k \in Nat /\ nextId = k + 1
      BY <1>2
<1>4. /\ f \in [1 .. k -> live]
      /\ \A i, j \in 1 .. k : f[i] = f[j] => i = j
      /\ \A t \in live : \E i \in 1 .. k : f[i] = t
      BY <1>2a, Zenon DEF Bijection, Injection, Surjection, IsInjective
<1>5. /\ DOMAIN node = 1 .. k
      /\ \A i \in DOMAIN node : f[i] \in live /\ node[i] = [tag |-> f[i], row |-> own[f[i]]]
      BY <1>2a, <1>4, Zenon
<1>6. \A t \in live : t \in Tags /\ own[t] \in Rows
      BY Zenon DEF Table
<1> HIDE DEF live
<1>7. node \in [DOMAIN node -> Inbound]
      BY <1>2a, <1>4, <1>5, <1>6, Zenon DEF Inbound
<1>8. NodeTypes
      BY <1>3, <1>4, <1>5, <1>7 DEF NodeTypes
<1>9. \A t \in Tags : NodeRows[t] = own[t]
  <2> SUFFICES ASSUME NEW t \in Tags PROVE NodeRows[t] = own[t]
      BY Zenon
  <2>1. RowsFacts
        BY <1>8, NodeByTag, Zenon
  <2>2. CASE t \in live
        BY <2>1, <2>2, <1>4, <1>5 DEF RowsFacts
  <2>3. CASE t \notin live
        BY <2>1, <2>3, <1>5 DEF RowsFacts, live
  <2> QED BY <2>2, <2>3
<1>10. TableTypes
       BY <1>1, Zenon DEF Init, TableTypes, Table, NoRows
<1>11. JobTypes /\ StampInv
  <2>1. n \in [dirty : BOOLEAN, dirtyAt : Nat, adopted : BOOLEAN] /\ n.dirtyAt = 0 /\ dirtyAt = 0
        BY Zenon DEF Init, NoNode
  <2>2. dirty \in BOOLEAN /\ adopted \in BOOLEAN /\ world \in Worlds
        BY Zenon DEF Init
  <2>3. pc = "idle" /\ todo = {} /\ remote = {} /\ edits = 0 /\ call = [p \in Callers |-> None]
        BY Zenon DEF Init
  <2> QED BY <2>1, <2>2, <2>3 DEF JobTypes, StampInv, Points, Callers
<1>12. CallInv /\ CacheInv /\ PushedInv /\ WantInv /\ DoneInv /\ SnapInv
       BY Zenon DEF Init, CallInv, CacheInv, PushedInv, WantInv, DoneInv, SnapInv, jobCall, Callers,
              Reconciling, NoRows
<1>13. OwnInv /\ NoSilentDrift
       BY <1>1, <1>9, Zenon DEF OwnInv, NoSilentDrift, Differs, NodeNewer, NoRows
<1> QED BY <1>8, <1>10, <1>11, <1>12, <1>13 DEF IInv

(* What a step of the job on its own variables leaves alone.                *)
core == <<world, call, central, dirty, dirtyAt, node, nextId, idCache, pushedFP, nodeEdit, edits>>

Local == TickStart \/ ReconcileRead \/ ReconcileList \/ SweepStart \/ SweepEnd
         \/ FetchTrafficSnapshot \/ SampleDirty \/ MergeDirty \/ MergeRead \/ MarkNodeInboundsAdopted

(* The job's own steps touch neither side's inbounds.                       *)
LEMMA LocalFrame == ASSUME Local, UNCHANGED world PROVE UNCHANGED core
BY Zenon DEF Local, TickStart, ReconcileRead, ReconcileList, SweepStart, SweepEnd, FetchTrafficSnapshot, SampleDirty,
       MergeDirty, MergeRead, MarkNodeInboundsAdopted, OthersUnchanged, core, nodeRow, remoteVars, counters

(* With both sides unchanged, what relates them is unchanged.               *)
LEMMA CoreKept ==
  ASSUME IInv, UNCHANGED core
  PROVE  /\ NodeTypes' /\ CacheInv' /\ PushedInv' /\ OwnInv' /\ NoSilentDrift'
         /\ NodeRows' = NodeRows /\ \A t : NodeNewer(t)' = NodeNewer(t)
<1>1. NodeRows' = NodeRows
      BY NodeKept, Zenon DEF core
<1>2. NodeTypes' /\ \A t : NodeNewer(t)' = NodeNewer(t)
      BY Zenon DEF core, IInv, NodeTypes, NodeNewer
<1>3. CacheInv' /\ PushedInv' /\ OwnInv' /\ NoSilentDrift'
      BY <1>1, Zenon DEF core, IInv, CacheInv, PushedInv, OwnInv, NoSilentDrift, Differs, NodeNewer, On, Unrecorded, jobCall
<1> QED BY <1>1, <1>2, <1>3

(* The job starts a tick, reads, lists, fetches, samples or finishes.       *)
LEMMA LocalStep == ASSUME IInv, Local, UNCHANGED world PROVE IInv'
<1> USE NodeSyncAssumption, NoneAssumption
<1>1. UNCHANGED core
      BY LocalFrame, Zenon
<1>2. /\ NodeTypes' /\ CacheInv' /\ PushedInv' /\ OwnInv' /\ NoSilentDrift'
      /\ NodeRows' = NodeRows /\ \A t : NodeNewer(t)' = NodeNewer(t)
      BY <1>1, CoreKept, Zenon
<1>3. NodeRows \in Table /\ NoRows \in Table /\ NoNode \in [dirty : BOOLEAN, dirtyAt : Nat, adopted : BOOLEAN]
      BY NodeByTag, Zenon DEF IInv, RowsFacts, Table, NoRows, NoNode
<1> USE DEF core, Local, TickStart, ReconcileRead, ReconcileList, SweepStart, SweepEnd, FetchTrafficSnapshot,
            SampleDirty, MergeDirty, MergeRead, MarkNodeInboundsAdopted, Finish
<1>4. TableTypes'
      BY <1>1, <1>3, Zenon DEF IInv, TableTypes
<1>5. JobTypes'
  <2>1. pc' \in Points /\ todo' \subseteq Tags /\ remote' \subseteq Tags
        BY Zenon DEF IInv, JobTypes, Points
  <2>2. n' \in [dirty : BOOLEAN, dirtyAt : Nat, adopted : BOOLEAN]
    <3>1. \/ n' = n \/ n' = NoNode
          \/ n' = [dirty |-> dirty, dirtyAt |-> dirtyAt, adopted |-> adopted]
          \/ n' = [n EXCEPT !.dirty = (sampled \/ dirty)]
          BY Zenon
    <3> HIDE DEF Local
    <3>2. [dirty |-> dirty, dirtyAt |-> dirtyAt, adopted |-> adopted]
            \in [dirty : BOOLEAN, dirtyAt : Nat, adopted : BOOLEAN]
          BY Zenon DEF IInv, JobTypes
    <3>3. [n EXCEPT !.dirty = (sampled \/ dirty)] \in [dirty : BOOLEAN, dirtyAt : Nat, adopted : BOOLEAN]
          BY Zenon DEF IInv, JobTypes
    <3>4. n \in [dirty : BOOLEAN, dirtyAt : Nat, adopted : BOOLEAN]
          BY Zenon DEF IInv, JobTypes
    <3> QED BY <1>3, <3>1, <3>2, <3>3, <3>4, Zenon
  <2>3. adopted' \in BOOLEAN
        BY Zenon DEF IInv, JobTypes, OthersUnchanged, nodeRow
  <2> HIDE DEF Local
  <2> QED BY <1>1, <2>1, <2>2, <2>3, Zenon DEF IInv, JobTypes
<1>6. StampInv'
      BY <1>1, <1>3 DEF IInv, StampInv, JobTypes, NoNode
<1>7. CallInv'
      BY <1>1, <1>2, Zenon DEF IInv, CallInv, jobCall
<1>8. WantInv'
      BY <1>1, <1>2, SMTT(20) DEF IInv, WantInv, Reconciling, TableTypes, Table
<1>9. DoneInv'
      BY <1>1, <1>2, SMTT(20) DEF IInv, DoneInv, TableTypes, Table
<1>10. SnapInv'
      BY <1>1, <1>2, Zenon DEF IInv, SnapInv, JobTypes
<1> QED BY <1>2, <1>4, <1>5, <1>6, <1>7, <1>8, <1>9, <1>10, Zenon DEF IInv

(* Nothing but the node's status changes.                                   *)
LEMMA KeptStep == ASSUME IInv, UNCHANGED <<core, jobVars, adopted>> PROVE IInv'
<1>1. /\ NodeTypes' /\ CacheInv' /\ PushedInv' /\ OwnInv' /\ NoSilentDrift'
      /\ NodeRows' = NodeRows /\ \A t : NodeNewer(t)' = NodeNewer(t)
      BY CoreKept, Zenon
<1>2. TableTypes' /\ JobTypes' /\ StampInv'
      BY Zenon DEF core, jobVars, IInv, TableTypes, JobTypes, StampInv
<1>3. CallInv' /\ WantInv' /\ DoneInv' /\ SnapInv'
      BY <1>1, Zenon DEF core, jobVars, IInv, CallInv, WantInv, DoneInv, SnapInv, jobCall, On, NodeNewer,
                         Reconciling
<1> QED BY <1>1, <1>2, <1>3, Zenon DEF IInv

(* Clearing the flag is right: with no error and no newer stamp, every row was
   delivered, or skipped because the node holds it.                         *)
LEMMA ClearStep == ASSUME IInv, ClearNodeDirty, UNCHANGED world PROVE IInv'
<1> USE NoneAssumption
<1>1. /\ UNCHANGED <<call, central, node, nextId, idCache, pushedFP, nodeEdit, edits, dirtyAt, adopted, world>>
      /\ UNCHANGED <<n, todo, snap, base>>
      /\ pc = "clear" /\ pc' = "fetch" /\ want' = NoRows /\ remote' = {}
      /\ dirty' = (dirty /\ (errs \/ dirtyAt # n.dirtyAt))
      BY Zenon DEF ClearNodeDirty, remoteVars, counters
<1>2. NodeRows' = NodeRows
      BY <1>1, NodeKept, Zenon
<1>3. NodeTypes' /\ CacheInv' /\ PushedInv' /\ OwnInv'
      BY <1>1, <1>2, Zenon DEF IInv, NodeTypes, CacheInv, PushedInv, OwnInv, On, Unrecorded, jobCall, NodeNewer
<1>4. TableTypes' /\ JobTypes' /\ StampInv'
      BY <1>1 DEF IInv, TableTypes, Table, NoRows, JobTypes, StampInv, Points
<1>5. CallInv' /\ WantInv' /\ DoneInv' /\ SnapInv'
      BY <1>1, Zenon DEF IInv, CallInv, WantInv, DoneInv, SnapInv, jobCall, Reconciling
<1>6. NoSilentDrift'
  <2> SUFFICES ASSUME NEW t \in Tags, Differs(t), ~dirty' PROVE NodeNewer(t)
      BY <1>1, <1>2, Zenon DEF NoSilentDrift, Differs, NodeNewer
  <2>1. ~errs /\ dirtyAt = n.dirtyAt
        BY <1>1, Zenon DEF IInv, StampInv
  <2>2. \/ want[t] = central[t]
        \/ want[t] = None /\ central[t] # None /\ ~central[t].on /\ (NodeRows[t] = None \/ NodeNewer(t))
        BY <1>1, <2>1, Zenon DEF IInv, WantInv, Reconciling
  <2>3. want[t] # None => NodeRows[t] = want[t] \/ NodeNewer(t)
        BY <1>1, <2>1, Zenon DEF IInv, DoneInv
  <2>4. NodeRows[t] # None /\ central[t] = None => NodeNewer(t)
        BY Zenon DEF IInv, OwnInv
  <2> QED BY <2>2, <2>3, <2>4 DEF Differs
<1> QED BY <1>3, <1>4, <1>5, <1>6, Zenon DEF IInv

(* A skipped row is on the node, or the node's operator changed it after the
   push it is equal to.                                                     *)
LEMMA SkipStep == ASSUME IInv, NEW t \in Tags, ReconcileSkip(t), UNCHANGED world PROVE IInv'
<1> USE NoneAssumption
<1>1. /\ UNCHANGED <<call, central, node, nextId, idCache, pushedFP, edits, dirty, dirtyAt, adopted, world>>
      /\ UNCHANGED <<pc, n, want, remote, errs, snap, base>>
      /\ pc = "push" /\ jobCall = None /\ t \in todo /\ pushedFP[t] = want[t] /\ todo' = todo \ {t}
      /\ nodeEdit' = IF nodeEdit[t] # "none" /\ central[t] = pushedFP[t]
                     THEN [nodeEdit EXCEPT ![t] = "latest"] ELSE nodeEdit
      BY Zenon DEF ReconcileSkip, Unchanged, remoteVars, counters, nodeRow, jobCall
<1>2. NodeRows' = NodeRows /\ jobCall' = jobCall
      BY <1>1, NodeKept, Zenon DEF jobCall
<1>3. /\ nodeEdit' \in [Tags -> {"none", "latest", "overruled"}]
      /\ \A u \in Tags : /\ NodeNewer(u) => NodeNewer(u)'
                         /\ nodeEdit[u] # "none" => nodeEdit'[u] # "none"
                         /\ u # t => nodeEdit'[u] = nodeEdit[u]
      /\ nodeEdit[t] # "none" /\ central[t] = pushedFP[t] => NodeNewer(t)'
      BY <1>1, Zenon DEF IInv, TableTypes, NodeNewer
<1>4. NodeTypes' /\ CacheInv' /\ PushedInv' /\ OwnInv'
      BY <1>1, <1>2, <1>3, Zenon DEF IInv, NodeTypes, CacheInv, PushedInv, OwnInv, On, Unrecorded
<1>5. TableTypes' /\ JobTypes' /\ StampInv'
      BY <1>1, <1>3, Zenon DEF IInv, TableTypes, JobTypes, StampInv
<1>6. CallInv' /\ WantInv' /\ SnapInv'
      BY <1>1, <1>2, <1>3, Zenon DEF IInv, CallInv, WantInv, SnapInv, Reconciling
<1>7. DoneInv'
  <2> SUFFICES ASSUME NEW u \in Tags, ~errs, dirtyAt = n.dirtyAt, want[u] # None, ~(u \in todo \ {t})
               PROVE  NodeRows[u] = want[u] \/ NodeNewer(u)'
      BY <1>1, <1>2, Zenon, Zenon DEF DoneInv
  <2>1. CASE u # t
        BY <1>1, <1>3, <2>1, Zenon DEF IInv, DoneInv
  <2>2. CASE u = t
    <3>1. want[t] = central[t]
          BY <1>1, <2>2, Zenon DEF IInv, WantInv, Reconciling
    <3>2. NodeRows[t] = pushedFP[t] \/ nodeEdit[t] # "none"
          BY <1>1, <2>2, Zenon DEF IInv, PushedInv, Unrecorded
    <3> QED BY <1>1, <1>3, <2>2, <3>1, <3>2, Zenon
  <2> QED BY <2>1, <2>2
<1>8. NoSilentDrift'
      BY <1>1, <1>2, <1>3, Zenon DEF IInv, NoSilentDrift, Differs
<1> QED BY <1>4, <1>5, <1>6, <1>7, <1>8, Zenon DEF IInv

(* A resolved id is the tag's own, from the cache or from a fresh list.     *)
LEMMA ResolveId ==
  ASSUME IInv, jobCall = None, NEW t \in Tags, NEW id \in {0, idCache[t], NodeIds[t]}, ResolveRemoteID(t, id)
  PROVE  /\ id \in Nat /\ (id # 0 => On(t, id))
         /\ idCache' \in [Tags -> Nat]
         /\ \A u \in Tags : idCache'[u] # 0 => On(u, idCache'[u])
<1>1. NodeTypes /\ RowsFacts /\ idCache \in [Tags -> Nat]
      BY NodeByTag, Zenon DEF IInv, TableTypes
<1>2. \A u \in Tags : idCache[u] # 0 => On(u, idCache[u])
      BY Zenon DEF IInv, CacheInv, Unrecorded
<1>3. \A u \in Tags : NodeIds[u] # 0 => On(u, NodeIds[u])
      BY <1>1, Zenon DEF RowsFacts, On
<1>4. idCache' = idCache \/ idCache' = NodeIds \/ idCache' = [u \in Tags |-> 0]
      BY Zenon DEF ResolveRemoteID
<1> QED BY <1>1, <1>2, <1>3, <1>4 DEF RowsFacts

(* A push or a sweep of t sends request c, or finds nothing to delete.      *)
SendEffect(t, c) ==
    /\ UNCHANGED <<central, node, nextId, pushedFP, edits, dirty, dirtyAt, adopted, world, nodeEdit>>
    /\ UNCHANGED <<pc, n, want, remote, errs, snap, base>>
    /\ jobCall = None /\ t \in todo /\ todo \ {t} \subseteq todo' /\ todo' \subseteq todo
    /\ \/ c = None /\ pc = "sweep"
       \/ /\ c \in Requests /\ c.tag = t /\ c.row = want[t] /\ c.res = "sent" /\ todo' = todo
          /\ (pc = "push" /\ c.op # "del") \/ (pc = "sweep" /\ c.op = "del")
          /\ c.op # "add" => On(t, c.id)
    /\ call' = [call EXCEPT !["job"] = c]
    /\ idCache' \in [Tags -> Nat] /\ \A u \in Tags : idCache'[u] # 0 => On(u, idCache'[u])

(* ReconcileInbound sends the row that was read, to the tag's own id.       *)
LEMMA PushEffect ==
  ASSUME IInv, UNCHANGED world, NEW t \in Tags, ReconcilePush(t)
  PROVE  \E c : SendEffect(t, c)
<1>1. /\ UNCHANGED <<central, node, nextId, pushedFP, edits, dirty, dirtyAt, adopted, nodeEdit>>
      /\ UNCHANGED <<pc, n, want, remote, todo, errs, snap, base>>
      /\ pc = "push" /\ jobCall = None /\ t \in todo
      /\ PushUpdate("job", t, want[t])
      BY Zenon DEF ReconcilePush, jobVars, nodeRow, jobCall
<1>2. PICK id \in {0, idCache[t], NodeIds[t]} :
        /\ ResolveRemoteID(t, id)
        /\ call' = [call EXCEPT !["job"] = NewCall(IF id = 0 THEN "add" ELSE "update", t, want[t], id)]
      BY <1>1, Zenon DEF PushUpdate
<1>3. /\ id \in Nat /\ (id # 0 => On(t, id))
      /\ idCache' \in [Tags -> Nat]
      /\ \A u \in Tags : idCache'[u] # 0 => On(u, idCache'[u])
      BY <1>1, <1>2, ResolveId, Zenon
<1>4. want[t] \in Rows \cup {None}
      BY Zenon DEF IInv, TableTypes, Table
<1> DEFINE c == NewCall(IF id = 0 THEN "add" ELSE "update", t, want[t], id)
<1>5. /\ c \in Requests /\ c.tag = t /\ c.row = want[t] /\ c.res = "sent" /\ c.op # "del"
      /\ c.op # "add" => On(t, c.id)
      BY <1>3, <1>4, Zenon DEF NewCall, Requests
<1> HIDE DEF c
<1>6. call' = [call EXCEPT !["job"] = c]
      BY <1>2, Zenon DEF c
<1>7. todo \ {t} \subseteq todo' /\ todo' \subseteq todo
      BY <1>1, Zenon
<1> QED BY <1>1, <1>3, <1>5, <1>6, <1>7, Zenon DEF SendEffect

(* The sweep deletes the tag's own id, or finds it gone.                    *)
LEMMA SweepEffect ==
  ASSUME IInv, UNCHANGED world, NEW t \in Tags, SweepDel(t)
  PROVE  \E c : SendEffect(t, c)
<1> USE NodeSyncAssumption, NoneAssumption
<1>1. /\ UNCHANGED <<central, node, nextId, pushedFP, edits, dirty, dirtyAt, adopted, nodeEdit>>
      /\ UNCHANGED <<pc, n, want, remote, errs, snap, base>>
      /\ pc = "sweep" /\ jobCall = None /\ t \in todo
      /\ todo' = IF jobCall' = None THEN todo \ {t} ELSE todo
      /\ PushDel("job", t)
      BY Zenon DEF SweepDel, nodeRow, jobCall
<1>2. PICK id \in {0, idCache[t], NodeIds[t]} :
        /\ ResolveRemoteID(t, id)
        /\ call' = [call EXCEPT !["job"] = IF id = 0 THEN None ELSE NewCall("del", t, None, id)]
      BY <1>1, Zenon, Zenon DEF PushDel
<1>3. /\ id \in Nat /\ (id # 0 => On(t, id))
      /\ idCache' \in [Tags -> Nat]
      /\ \A u \in Tags : idCache'[u] # 0 => On(u, idCache'[u])
      BY <1>1, <1>2, ResolveId, Zenon
<1>4. want[t] = None
      BY <1>1, Zenon DEF IInv, WantInv
<1> DEFINE c == IF id = 0 THEN None ELSE NewCall("del", t, None, id)
<1>5. \/ c = None
      \/ /\ c \in Requests /\ c.tag = t /\ c.row = want[t] /\ c.res = "sent" /\ c.op = "del"
         /\ On(t, c.id)
      BY <1>3, <1>4, Zenon DEF NewCall, Requests
<1> HIDE DEF c
<1>6. call' = [call EXCEPT !["job"] = c] /\ jobCall' = c
      BY <1>2, Zenon DEF c, IInv, JobTypes, Callers, jobCall
<1>7. todo \ {t} \subseteq todo' /\ todo' \subseteq todo /\ (c \in Requests => todo' = todo)
      BY <1>1, <1>6, Zenon
<1> QED BY <1>1, <1>3, <1>5, <1>6, <1>7, Zenon DEF SendEffect

(* A request that is only sent changes nothing on either side.              *)
LEMMA SendStep == ASSUME IInv, NEW t \in Tags, NEW c, SendEffect(t, c) PROVE IInv'
<1> USE NodeSyncAssumption, NoneAssumption
<1>1. /\ UNCHANGED <<central, node, nextId, pushedFP, edits, dirty, dirtyAt, adopted, world, nodeEdit>>
      /\ UNCHANGED <<pc, n, want, remote, errs, snap, base>>
      /\ jobCall = None /\ t \in todo
      BY Zenon, Zenon DEF SendEffect
<1>2. todo' \subseteq todo /\ (pc = "push" => todo' = todo) /\ (c # None => todo' = todo)
      BY Zenon DEF SendEffect
<1>3. NodeRows' = NodeRows /\ (\A u, i : On(u, i)' = On(u, i)) /\ \A u : NodeNewer(u)' = NodeNewer(u)
      BY <1>1, NodeKept, Zenon DEF On, NodeNewer
<1>4. /\ jobCall' = c /\ (c # None => c.res = "sent")
      /\ call' \in [Callers -> Requests \cup {None}] /\ \A e \in Editors : call'[e] = None
      BY Zenon DEF SendEffect, IInv, JobTypes, Callers, jobCall
<1>5. NodeTypes' /\ OwnInv' /\ NoSilentDrift' /\ StampInv'
      BY <1>1, <1>3, Zenon, Zenon DEF IInv, NodeTypes, OwnInv, NoSilentDrift, Differs, StampInv
<1>6. TableTypes' /\ JobTypes'
      BY <1>1, <1>2, <1>4, Zenon DEF SendEffect, IInv, TableTypes, JobTypes
<1>7. CacheInv' /\ PushedInv'
      BY <1>1, <1>3, Zenon DEF SendEffect, IInv, CacheInv, PushedInv, Unrecorded
<1>8. CallInv'
      BY <1>1, <1>3, <1>4, Zenon DEF SendEffect, IInv, WantInv, CallInv
<1>9. WantInv' /\ DoneInv' /\ SnapInv'
      BY <1>1, <1>2, <1>3, Zenon DEF IInv, WantInv, DoneInv, SnapInv, Reconciling
<1> QED BY <1>5, <1>6, <1>7, <1>8, <1>9, Zenon DEF IInv

(* A finished request is recorded as what the node holds.                   *)
LEMMA ReturnStep == ASSUME IInv, ReconcileReturns, UNCHANGED world PROVE IInv'
<1> USE NodeSyncAssumption, NoneAssumption
<1> DEFINE c == jobCall
<1>1. /\ UNCHANGED <<central, node, nextId, edits, dirty, dirtyAt, adopted, world, nodeEdit>>
      /\ UNCHANGED <<pc, n, want, remote, snap, base>>
      /\ c # None /\ pc \in {"push", "sweep"} /\ c.res \in {"ok", "err"}
      /\ Record(c) /\ call' = [call EXCEPT !["job"] = None] /\ todo' = todo \ {c.tag}
      /\ errs' = (errs \/ c.res = "err") \/ errs' = TRUE
      BY Zenon DEF ReconcileReturns, nodeRow, InFlight, jobCall
<1>2. c \in Requests
      BY <1>1, Zenon DEF IInv, JobTypes, Callers, jobCall
<1>3. /\ jobCall' = None
      /\ call' \in [Callers -> Requests \cup {None}] /\ \A e \in Editors : call'[e] = None
      BY <1>1, Zenon DEF IInv, JobTypes, Callers, jobCall
<1>4. NodeRows' = NodeRows /\ (\A u, i : On(u, i)' = On(u, i)) /\ \A u : NodeNewer(u)' = NodeNewer(u)
      BY <1>1, NodeKept, Zenon DEF On, NodeNewer
<1>5. \/ c.res = "err" /\ UNCHANGED <<idCache, pushedFP>>
      \/ /\ c.res = "ok" /\ pushedFP' = [pushedFP EXCEPT ![c.tag] = c.row]
         /\ idCache' = [idCache EXCEPT ![c.tag] = IF c.op = "del" THEN 0 ELSE c.id]
      BY <1>1, Zenon DEF Record, remoteVars
<1>6. idCache' \in [Tags -> Nat] /\ pushedFP' \in Table
      BY <1>2, <1>5 DEF IInv, TableTypes, Table, Requests
<1>7. NodeTypes' /\ OwnInv' /\ NoSilentDrift' /\ StampInv'
      BY <1>1, <1>4, Zenon DEF IInv, NodeTypes, OwnInv, NoSilentDrift, Differs, StampInv
<1>8. TableTypes' /\ JobTypes'
      BY <1>1, <1>3, <1>6, Zenon DEF IInv, TableTypes, JobTypes
<1>9. CacheInv'
      BY <1>1, <1>2, <1>4, <1>5 DEF IInv, CacheInv, Unrecorded, TableTypes, CallInv, Requests
<1>10. PushedInv'
      BY <1>1, <1>2, <1>4, <1>5, SMTT(20) DEF IInv, PushedInv, Unrecorded, TableTypes, Table, CallInv, Requests
<1>11. CallInv'
      BY <1>3, Zenon DEF CallInv
<1>12. WantInv' /\ SnapInv'
      BY <1>1, <1>4, Zenon DEF IInv, WantInv, SnapInv, Reconciling
<1>13. DoneInv'
      BY <1>1, <1>2, <1>4, Zenon DEF IInv, DoneInv, CallInv, Requests
<1> QED BY <1>7, <1>8, <1>9, <1>10, <1>11, <1>12, <1>13, Zenon DEF IInv

(* A request lost before the node saw it changes nothing there.             *)
LEMMA LoseStep == ASSUME IInv, LoseRequest("job"), UNCHANGED world PROVE IInv'
<1> USE NodeSyncAssumption, NoneAssumption
<1>1. /\ UNCHANGED <<central, node, nextId, idCache, pushedFP, edits, dirty, dirtyAt, adopted, world, nodeEdit>>
      /\ UNCHANGED <<pc, n, want, remote, todo, errs, snap, base>>
      /\ jobCall # None /\ jobCall.res = "sent"
      /\ call' = [call EXCEPT !["job"].res = "err"]
      BY Zenon DEF LoseRequest, nodeRow, remoteVars, jobVars, InFlight, jobCall
<1>2. jobCall \in Requests
      BY <1>1, Zenon DEF IInv, JobTypes, Callers, jobCall
<1>3. jobCall' = [jobCall EXCEPT !.res = "err"] /\ \A e \in Editors : call'[e] = call[e]
      BY <1>1, Zenon DEF IInv, JobTypes, Callers, jobCall
<1>4. jobCall' # None /\ jobCall' \in Requests /\ jobCall'.res = "err" /\ jobCall'.op = jobCall.op
      /\ jobCall'.tag = jobCall.tag /\ jobCall'.row = jobCall.row
      BY <1>1, <1>2, <1>3, Zenon DEF Requests
<1>5. NodeRows' = NodeRows /\ (\A u, i : On(u, i)' = On(u, i)) /\ \A u : NodeNewer(u)' = NodeNewer(u)
      BY <1>1, NodeKept, Zenon DEF On, NodeNewer
<1>6. call' \in [Callers -> Requests \cup {None}]
      BY <1>1, <1>3, <1>4, Zenon DEF IInv, JobTypes, Callers, jobCall
<1>7. NodeTypes' /\ OwnInv' /\ NoSilentDrift' /\ StampInv'
      BY <1>1, <1>5, Zenon DEF IInv, NodeTypes, OwnInv, NoSilentDrift, Differs, StampInv
<1>8. TableTypes' /\ JobTypes'
      BY <1>1, <1>3, <1>6, Zenon DEF IInv, TableTypes, JobTypes
<1>9. CacheInv' /\ PushedInv' /\ CallInv'
      BY <1>1, <1>4, <1>5, Zenon DEF IInv, CacheInv, PushedInv, Unrecorded, CallInv
<1>10. WantInv' /\ DoneInv' /\ SnapInv'
      BY <1>1, <1>5, Zenon DEF IInv, WantInv, DoneInv, SnapInv, Reconciling
<1> QED BY <1>7, <1>8, <1>9, <1>10, Zenon DEF IInv

-----------------------------------------------------------------------------
(* The node refuses a request, or carries it out.                           *)
Refused == UNCHANGED <<node, nextId, nodeEdit>> /\ jobCall'.res = "err"
Written ==
    /\ NodeTypes' /\ NewRows(jobCall.tag, jobCall.row)
    /\ \A u \in Tags, j \in Nat : On(u, j) /\ (u = jobCall.tag => jobCall.op # "del") => On(u, j)'
    /\ jobCall.op # "del" => OnNext(jobCall.tag, jobCall'.id)
    /\ nodeEdit' = [nodeEdit EXCEPT ![jobCall.tag] = "none"]
    /\ jobCall'.res = "ok"

(* The node carries a request out on the inbound of its tag, and on no other. *)
LEMMA ServeEffect ==
  ASSUME IInv, Serve("job")
  PROVE  /\ UNCHANGED <<central, edits, dirty, dirtyAt, adopted, idCache, pushedFP>>
         /\ UNCHANGED <<pc, n, want, remote, todo, errs, snap, base>>
         /\ jobCall # None /\ jobCall.res = "sent" /\ jobCall \in Requests
         /\ jobCall' \in Requests /\ jobCall'.op = jobCall.op
         /\ jobCall'.tag = jobCall.tag /\ jobCall'.row = jobCall.row
         /\ call' \in [Callers -> Requests \cup {None}] /\ \A e \in Editors : call'[e] = None
         /\ Refused \/ Written
<1> USE NodeSyncAssumption, NoneAssumption
<1> DEFINE c == jobCall
           taken == {i \in DOMAIN node : node[i].tag = c.tag}
           ok == CASE c.op = "add" -> taken = {}
                   [] c.op = "update" -> c.id \in DOMAIN node /\ taken \subseteq {c.id}
                   [] c.op = "del" -> TRUE
           id == IF c.op = "add" THEN nextId ELSE c.id
           left == Restrict(node, DOMAIN node \ {c.id})
<1>1. /\ c # None /\ c.res = "sent"
      /\ node' = CASE ~ok -> node
                   [] c.op = "del" -> left
                   [] OTHER -> Put(id, c.tag, c.row)
      /\ nextId' = CASE ok /\ c.op = "add" -> nextId + 1
                     [] c.op = "del" /\ DOMAIN left = {} -> 1
                     [] OTHER -> nextId
      /\ nodeEdit' = IF ok THEN [nodeEdit EXCEPT ![c.tag] = "none"] ELSE nodeEdit
      /\ call' = [call EXCEPT !["job"].id = id, !["job"].res = IF ok THEN "ok" ELSE "err"]
      BY Zenon DEF Serve, InFlight, jobCall
<1>2. /\ UNCHANGED <<central, edits, dirty, dirtyAt, adopted, idCache, pushedFP>>
      /\ UNCHANGED <<pc, n, want, remote, todo, errs, snap, base>>
      BY Zenon DEF Serve, nodeRow, remoteVars, jobVars, counters
<1>3. c \in Requests
      BY <1>1, Zenon DEF IInv, JobTypes, Callers, jobCall
<1>4. /\ NodeTypes /\ (c.op # "add" => On(c.tag, c.id)) /\ (c.op # "del" => c.row \in Rows)
      /\ c.op = "del" => c.row = None
      BY <1>1, <1>3, Zenon DEF IInv, CallInv, Requests
<1>5. id \in Nat
      BY <1>3, <1>4, Zenon DEF NodeTypes, Requests
<1>6. c.op \in {"add", "update", "del"} /\ c.tag \in Tags /\ c.id \in Nat
      BY <1>3, Zenon DEF Requests
<1>7. c.op = "update" => c.id \in DOMAIN node /\ taken \subseteq {c.id}
      BY <1>4, Zenon DEF On, NodeTypes
<1>8. jobCall' = [[jobCall EXCEPT !.id = id] EXCEPT !.res = IF ok THEN "ok" ELSE "err"]
      /\ \A e \in Editors : call'[e] = call[e]
      BY <1>1, Zenon DEF IInv, JobTypes, Callers, jobCall
<1>9. /\ jobCall' \in Requests /\ jobCall'.op = c.op /\ jobCall'.tag = c.tag /\ jobCall'.row = c.row
      /\ jobCall'.id = id /\ jobCall'.res = IF ok THEN "ok" ELSE "err"
  <2> HIDE DEF ok, id
  <2> QED BY <1>3, <1>5, <1>8, Zenon DEF Requests
<1>10. call' \in [Callers -> Requests \cup {None}] /\ \A e \in Editors : call'[e] = None
  <2> HIDE DEF ok, id
  <2> QED BY <1>1, <1>8, <1>9 DEF IInv, JobTypes, Callers, jobCall
<1>11. ASSUME c.op = "add" /\ taken # {} PROVE Refused
  <2>1. node' = node /\ nextId' = nextId /\ nodeEdit' = nodeEdit /\ jobCall'.res = "err"
        BY <1>1, <1>9, <1>11, Zenon
  <2> QED BY <2>1 DEF Refused
<1>12. ASSUME c.op = "add" /\ taken = {} PROVE Written
  <2>1. node' = Put(nextId, c.tag, c.row) /\ nextId' = nextId + 1
        BY <1>1, <1>12, Zenon
  <2>2. nodeEdit' = [nodeEdit EXCEPT ![c.tag] = "none"] /\ jobCall'.res = "ok" /\ jobCall'.id = nextId
        BY <1>1, <1>9, <1>12, Zenon
  <2>3. \A j \in DOMAIN node : j = nextId <=> node[j].tag = c.tag
        BY <1>4, <1>12 DEF NodeTypes
  <2>4. c.row \in Rows /\ nextId \in Nat \ {0} /\ nextId' \in Nat /\ nextId < nextId' /\ nextId <= nextId'
        BY <1>4, <1>12, <2>1 DEF NodeTypes
  <2>5. /\ NodeTypes' /\ NewRows(c.tag, c.row) /\ OnNext(c.tag, nextId)
        /\ \A u \in Tags, j \in Nat : On(u, j) => On(u, j)'
        BY <1>4, <1>6, <2>1, <2>3, <2>4, NodePut, Zenon
  <2> QED BY <1>12, <2>2, <2>5 DEF Written
<1>13. ASSUME c.op = "update" PROVE Written
  <2>1. node' = Put(c.id, c.tag, c.row) /\ nextId' = nextId
        BY <1>1, <1>7, <1>13, Zenon
  <2>2. nodeEdit' = [nodeEdit EXCEPT ![c.tag] = "none"] /\ jobCall'.res = "ok" /\ jobCall'.id = c.id
        BY <1>1, <1>7, <1>9, <1>13, Zenon
  <2>3. \A j \in DOMAIN node : j = c.id <=> node[j].tag = c.tag
        BY <1>4, <1>13, Zenon DEF On, NodeTypes
  <2>4. c.row \in Rows /\ c.id \in Nat \ {0} /\ nextId' \in Nat /\ c.id < nextId' /\ nextId <= nextId'
        BY <1>4, <1>13, <2>1 DEF On, NodeTypes
  <2>5. /\ NodeTypes' /\ NewRows(c.tag, c.row) /\ OnNext(c.tag, c.id)
        /\ \A u \in Tags, j \in Nat : On(u, j) => On(u, j)'
        BY <1>4, <1>6, <2>1, <2>3, <2>4, NodePut, Zenon
  <2> QED BY <1>13, <2>2, <2>5 DEF Written
<1>14. ASSUME c.op = "del" PROVE Written
  <2>1. node' = left /\ (nextId' = nextId \/ (nextId' = 1 /\ DOMAIN left = {}))
        BY <1>1, <1>14, Zenon
  <2>2. nodeEdit' = [nodeEdit EXCEPT ![c.tag] = "none"] /\ jobCall'.res = "ok"
        BY <1>1, <1>9, <1>14, Zenon
  <2>3. /\ DOMAIN left = DOMAIN node \ {c.id} /\ left \in [DOMAIN left -> Inbound]
        /\ \A j \in DOMAIN left : left[j] = node[j]
        BY <1>4, Zenon DEF Restrict, NodeTypes
  <2> HIDE DEF left
  <2>4. /\ NodeTypes' /\ NewRows(c.tag, None)
        /\ \A u \in Tags \ {c.tag}, j \in Nat : On(u, j) => On(u, j)'
        BY <1>4, <1>6, <1>14, <2>1, <2>3, NodeDrop, Zenon
  <2> QED BY <1>4, <1>14, <2>2, <2>4 DEF Written
<1>15. Refused \/ Written
      BY <1>6, <1>11, <1>12, <1>13, <1>14, Zenon
<1> QED BY <1>1, <1>2, <1>3, <1>9, <1>10, <1>15, Zenon

(* The node serves the job's request.                                       *)
LEMMA ServeStep == ASSUME IInv, Serve("job"), UNCHANGED world PROVE IInv'
<1> USE NodeSyncAssumption, NoneAssumption
<1> DEFINE c == jobCall
<1>1. /\ UNCHANGED <<central, edits, dirty, dirtyAt, adopted, idCache, pushedFP>>
      /\ UNCHANGED <<pc, n, want, remote, todo, errs, snap, base>>
      /\ c # None /\ c.res = "sent" /\ c \in Requests
      /\ c' \in Requests /\ c'.op = c.op /\ c'.tag = c.tag /\ c'.row = c.row
      /\ call' \in [Callers -> Requests \cup {None}] /\ \A e \in Editors : call'[e] = None
      BY ServeEffect, Zenon
<1>2. Refused \/ Written
      BY ServeEffect, Zenon
<1>3. pc \in {"push", "sweep"} /\ dirty /\ c.tag \in Tags /\ c' # None
      BY <1>1, Zenon DEF IInv, CallInv, StampInv, Requests
<1>4. JobTypes' /\ StampInv' /\ NoSilentDrift' /\ SnapInv'
      BY <1>1, <1>3, Zenon DEF IInv, JobTypes, StampInv, NoSilentDrift, SnapInv
<1>5. CASE Refused
  <2>1. NodeRows' = NodeRows /\ (\A u, i : On(u, i)' = On(u, i)) /\ \A u : NodeNewer(u)' = NodeNewer(u)
        BY <1>5, NodeKept, Zenon DEF Refused, On, NodeNewer
  <2>2. NodeTypes' /\ OwnInv'
        BY <1>1, <1>5, <2>1, Zenon DEF Refused, IInv, NodeTypes, OwnInv
  <2>3. TableTypes'
        BY <1>1, <1>5, Zenon DEF Refused, IInv, TableTypes
  <2>4. CacheInv' /\ PushedInv' /\ CallInv'
        BY <1>1, <1>5, <2>1, Zenon DEF Refused, IInv, CacheInv, PushedInv, Unrecorded, CallInv
  <2>5. WantInv' /\ DoneInv'
        BY <1>1, <2>1, Zenon DEF IInv, WantInv, DoneInv, Reconciling
  <2> QED BY <1>4, <2>2, <2>3, <2>4, <2>5, Zenon DEF IInv
<1>6. CASE Written
  <2>1. /\ nodeEdit' \in [Tags -> {"none", "latest", "overruled"}] /\ nodeEdit'[c.tag] = "none"
        /\ \A u \in Tags : u # c.tag => nodeEdit'[u] = nodeEdit[u]
        BY <1>3, <1>6, Zenon DEF Written, IInv, TableTypes
  <2>2. /\ \A u \in Tags : u # c.tag => NodeRows'[u] = NodeRows[u] /\ NodeNewer(u)' = NodeNewer(u)
        /\ NodeRows'[c.tag] = c.row /\ c'.res = "ok"
        BY <1>3, <1>6, <2>1, Zenon DEF Written, NewRows, NodeNewer
  <2>3. NodeTypes' /\ TableTypes'
        BY <1>1, <1>6, <2>1, Zenon DEF Written, IInv, TableTypes
  <2>4. CacheInv'
        BY <1>1, <1>3, <1>6, Zenon DEF Written, IInv, CacheInv, Unrecorded, TableTypes, Requests
  <2>5. PushedInv'
        BY <1>1, <1>3, <2>1, <2>2, Zenon DEF IInv, PushedInv, Unrecorded
  <2>6. CallInv'
        BY <1>1, <1>3, <1>6, <2>2, Zenon DEF Written, IInv, CallInv, On, OnNext
  <2>7. OwnInv'
        BY <1>1, <1>3, <2>2, Zenon DEF IInv, OwnInv, CallInv, WantInv, Reconciling
  <2>8. WantInv'
        BY <1>1, <1>3, <2>2, Zenon DEF IInv, WantInv, CallInv, Reconciling
  <2>9. DoneInv'
        BY <1>1, <1>3, <2>2, Zenon DEF IInv, DoneInv, CallInv
  <2> QED BY <1>4, <2>3, <2>4, <2>5, <2>6, <2>7, <2>8, <2>9, Zenon DEF IInv
<1> QED BY <1>2, <1>5, <1>6

(* An edit of the master that marks the node dirty, or a disabled row.      *)
EditEffect(t, r, marked) ==
    /\ UNCHANGED <<node, nextId, idCache, pushedFP, call, adopted, world>>
    /\ UNCHANGED <<pc, n, want, remote, todo, errs, snap, base>>
    /\ pc \notin {"mergeRead", "commit"}
    /\ central' = [central EXCEPT ![t] = r] /\ edits' = edits + 1
    /\ IF marked
       THEN dirty' = TRUE /\ dirtyAt' = edits + 1 /\ Overrule(t)
       ELSE central[t] = None /\ ~r.on /\ UNCHANGED <<dirty, dirtyAt, nodeEdit>>

(* AddInbound is such an edit ...                                           *)
LEMMA AddEffect ==
  ASSUME IInv, Serialized(world), UNCHANGED world,
         NEW t \in world.tags, NEW row \in WorldRows, AddInbound(t, row)
  PROVE  t \in Tags /\ row \in Rows /\ (EditEffect(t, row, TRUE) \/ EditEffect(t, row, FALSE))
<1>1. t \in Tags /\ row \in Rows /\ "same_ms" \notin world.faultOps
      BY NodeSyncAssumption, Zenon DEF IInv, JobTypes, Circumstances, WorldRows, Rows, Serialized
<1>2. /\ UNCHANGED <<node, nextId, idCache, pushedFP, call>>
      /\ UNCHANGED <<pc, n, want, remote, todo, errs, snap, base>>
      /\ central[t] = None /\ central' = [central EXCEPT ![t] = row] /\ pc \notin {"mergeRead", "commit"}
      /\ IF row.on THEN MarkNodeDirty /\ Edited(t)
                   ELSE edits' = edits + 1 /\ UNCHANGED <<dirty, dirtyAt, adopted, nodeEdit>>
      BY Zenon DEF AddInbound, WriterFree, remoteVars, jobVars, nodeRow
<1>3. CASE row.on
  <2>1. /\ adopted' = adopted /\ edits' = edits + 1 /\ dirty' = TRUE /\ dirtyAt' = edits + 1 /\ Overrule(t)
        BY <1>1, <1>2, <1>3, Zenon DEF MarkNodeDirty, Edited
  <2> QED BY <1>1, <1>2, <2>1, Zenon DEF EditEffect
<1>4. CASE ~row.on
      BY <1>1, <1>2, <1>4, Zenon DEF EditEffect
<1> QED BY <1>3, <1>4, Zenon

(* ... and so is UpdateInbound.                                             *)
LEMMA UpdateEffect ==
  ASSUME IInv, Serialized(world), UNCHANGED world,
         NEW t \in world.tags, NEW cfg \in world.cfgs, UpdateInbound(t, cfg)
  PROVE  t \in Tags /\ \E row \in Rows : EditEffect(t, row, TRUE)
<1>1. t \in Tags /\ cfg \in Cfgs /\ "same_ms" \notin world.faultOps
      BY NodeSyncAssumption, Zenon DEF IInv, JobTypes, Circumstances, Serialized
<1>2. /\ UNCHANGED <<node, nextId, idCache, pushedFP, call>>
      /\ UNCHANGED <<pc, n, want, remote, todo, errs, snap, base>>
      /\ central[t] # None /\ central' = [central EXCEPT ![t].cfg = cfg] /\ pc \notin {"mergeRead", "commit"}
      BY Zenon DEF UpdateInbound, WriterFree, remoteVars, jobVars
<1>3. adopted' = adopted /\ edits' = edits + 1 /\ dirty' = TRUE /\ dirtyAt' = edits + 1 /\ Overrule(t)
      BY <1>1, Zenon DEF UpdateInbound, MarkNodeDirty, Edited
<1>4. [central[t] EXCEPT !.cfg = cfg] \in Rows /\ central' = [central EXCEPT ![t] = [central[t] EXCEPT !.cfg = cfg]]
      BY <1>1, <1>2, Zenon DEF IInv, TableTypes, Table, Rows
<1> QED BY <1>1, <1>2, <1>3, <1>4, Zenon DEF EditEffect

(* The master edits a row, whatever the job is doing.                       *)
LEMMA EditStep ==
  ASSUME IInv, NEW t \in Tags, NEW row \in Rows, NEW marked \in BOOLEAN, EditEffect(t, row, marked)
  PROVE  IInv'
<1> USE NoneAssumption
<1>1. /\ UNCHANGED <<node, nextId, idCache, pushedFP, call, adopted, world>>
      /\ UNCHANGED <<pc, n, want, remote, todo, errs, snap, base>>
      /\ pc \notin {"mergeRead", "commit"} /\ edits' = edits + 1
      BY Zenon DEF EditEffect
<1>2. central' \in Table /\ central'[t] = row /\ \A u \in Tags : u # t => central'[u] = central[u]
      BY Zenon DEF EditEffect, IInv, TableTypes, Table
<1>3. NodeRows' = NodeRows /\ (\A u, i : On(u, i)' = On(u, i)) /\ jobCall' = jobCall
      BY <1>1, NodeKept, Zenon DEF On, jobCall
<1>4. NodeTypes' /\ CacheInv'
      BY <1>1, <1>3, Zenon DEF IInv, NodeTypes, CacheInv, Unrecorded
<1>5. CASE marked
  <2>1. dirty' = TRUE /\ dirtyAt' = edits + 1 /\ Overrule(t)
        BY <1>5, Zenon DEF EditEffect
  <2>2. /\ nodeEdit' \in [Tags -> {"none", "latest", "overruled"}]
        /\ \A u \in Tags : nodeEdit[u] # "none" => nodeEdit'[u] # "none"
        /\ \A u \in Tags : u # t => nodeEdit'[u] = nodeEdit[u]
        BY <2>1, Zenon DEF Overrule, IInv, TableTypes
  <2>3. StampInv' /\ dirtyAt' # n'.dirtyAt /\ dirtyAt' \in Nat /\ edits' \in Nat
        BY <1>1, <2>1 DEF IInv, StampInv, JobTypes
  <2>4. TableTypes' /\ JobTypes'
        BY <1>1, <1>2, <2>1, <2>2, <2>3, Zenon DEF IInv, TableTypes, JobTypes
  <2>5. CallInv' /\ PushedInv'
        BY <1>1, <1>3, <2>2, <2>3, Zenon DEF IInv, CallInv, PushedInv, Unrecorded, JobTypes, Callers, jobCall, Requests
  <2>6. OwnInv' /\ NoSilentDrift'
        BY <1>2, <1>3, <2>1, <2>2, Zenon DEF IInv, OwnInv, NoSilentDrift, NodeNewer
  <2>7. WantInv' /\ DoneInv' /\ SnapInv'
        BY <1>1, <1>2, <1>3, <2>1, <2>3, Zenon DEF IInv, WantInv, DoneInv, SnapInv, Reconciling
  <2> QED BY <1>4, <2>3, <2>4, <2>5, <2>6, <2>7, Zenon DEF IInv
<1>6. CASE ~marked
  <2>1. central[t] = None /\ ~row.on /\ UNCHANGED <<dirty, dirtyAt, nodeEdit>>
        BY <1>6, Zenon DEF EditEffect
  <2>2. \A u : NodeNewer(u)' = NodeNewer(u)
        BY <2>1, Zenon DEF NodeNewer
  <2>3. TableTypes' /\ JobTypes' /\ StampInv'
        BY <1>1, <1>2, <2>1 DEF IInv, TableTypes, JobTypes, StampInv
  <2>4. CallInv' /\ PushedInv' /\ DoneInv' /\ SnapInv'
        BY <1>1, <1>3, <2>1, <2>2, Zenon DEF IInv, CallInv, PushedInv, Unrecorded, DoneInv, SnapInv
  <2>5. OwnInv' /\ NoSilentDrift'
        BY <1>2, <1>3, <2>1, <2>2, Zenon DEF IInv, OwnInv, NoSilentDrift, Differs
  <2>6. WantInv'
        BY <1>1, <1>2, <1>3, <2>1, <2>2, Zenon DEF IInv, WantInv, OwnInv, Reconciling
  <2> QED BY <1>4, <2>3, <2>4, <2>5, <2>6, Zenon DEF IInv
<1> QED BY <1>5, <1>6

(* The node's operator sets the row of t.                                   *)
NodeEditEffect(t, r) ==
    /\ UNCHANGED <<central, dirty, dirtyAt, adopted, idCache, pushedFP, call, edits>>
    /\ UNCHANGED <<pc, n, want, remote, todo, errs, snap, base>>
    /\ nodeEdit' = [nodeEdit EXCEPT ![t] = "latest"]
    /\ NodeTypes' /\ NewRows(t, r) /\ \A u \in Tags, j \in Nat : On(u, j) => On(u, j)'

(* An add and an update on the node's panel do that.                        *)
LEMMA NodeEditFrame ==
  ASSUME IInv, Serialized(world), NEW t \in world.tags, NEW row \in WorldRows, NodeAdd(t, row) \/ NodeUpdate(t, row)
  PROVE  t \in Tags /\ row \in Rows /\ NodeEditEffect(t, row)
<1>1. t \in Tags /\ row \in Rows /\ NodeTypes /\ RowsFacts
      BY NodeSyncAssumption, NodeByTag, Zenon DEF IInv, JobTypes, Circumstances, WorldRows, Rows
<1>2. NodeEdited(t)
      BY Zenon DEF NodeAdd, NodeUpdate
<1>3. /\ UNCHANGED <<central, dirty, dirtyAt, adopted, idCache, pushedFP, call, edits>>
      /\ UNCHANGED <<pc, n, want, remote, todo, errs, snap, base>>
      /\ nodeEdit' = [nodeEdit EXCEPT ![t] = "latest"]
      BY <1>2, Zenon DEF NodeEdited, nodeRow, remoteVars, jobVars
<1>4. CASE NodeAdd(t, row)
  <2>1. node' = Put(nextId, t, row) /\ nextId' = nextId + 1 /\ \A j \in DOMAIN node : node[j].tag # t
        BY <1>1, <1>4 DEF NodeAdd, RowsFacts, NodeTypes
  <2>2. /\ nextId \in Nat \ {0} /\ nextId' \in Nat /\ nextId < nextId' /\ nextId <= nextId'
        /\ \A j \in DOMAIN node : j = nextId <=> node[j].tag = t
        BY <1>1, <2>1 DEF NodeTypes
  <2>3. NodeTypes' /\ NewRows(t, row) /\ \A u \in Tags, j \in Nat : On(u, j) => On(u, j)'
        BY <1>1, <2>1, <2>2, NodePut, Zenon
  <2> QED BY <1>1, <1>3, <2>3, Zenon DEF NodeEditEffect
<1>5. CASE NodeUpdate(t, row)
  <2>1. node' = Put(NodeIds[t], t, row) /\ nextId' = nextId /\ NodeIds[t] # 0
        BY <1>5, Zenon DEF NodeUpdate
  <2>2. /\ NodeIds[t] \in Nat \ {0} /\ nextId' \in Nat /\ NodeIds[t] < nextId' /\ nextId <= nextId'
        /\ \A j \in DOMAIN node : j = NodeIds[t] <=> node[j].tag = t
        BY <1>1, <2>1 DEF NodeTypes, RowsFacts
  <2>3. NodeTypes' /\ NewRows(t, row) /\ \A u \in Tags, j \in Nat : On(u, j) => On(u, j)'
        BY <1>1, <2>1, <2>2, NodePut, Zenon
  <2> QED BY <1>1, <1>3, <2>3, Zenon DEF NodeEditEffect
<1> QED BY <1>4, <1>5

(* The node's operator edits, whatever the job is doing.                    *)
LEMMA NodeEditStep ==
  ASSUME IInv, UNCHANGED world, NEW t \in Tags, NEW row \in Rows, NodeEditEffect(t, row)
  PROVE  IInv'
<1> USE NoneAssumption
<1>1. /\ UNCHANGED <<central, dirty, dirtyAt, adopted, idCache, pushedFP, call, edits>>
      /\ UNCHANGED <<pc, n, want, remote, todo, errs, snap, base>>
      /\ jobCall' = jobCall /\ NodeTypes'
      BY Zenon, Zenon DEF NodeEditEffect, jobCall
<1>2. /\ nodeEdit' \in [Tags -> {"none", "latest", "overruled"}] /\ NodeNewer(t)' /\ nodeEdit'[t] # "none"
      /\ \A u \in Tags : u # t => nodeEdit'[u] = nodeEdit[u] /\ NodeRows'[u] = NodeRows[u]
      /\ \A u \in Tags : u # t => NodeNewer(u)' = NodeNewer(u)
      BY Zenon DEF NodeEditEffect, NewRows, IInv, TableTypes, NodeNewer
<1>3. \A u \in Tags, j \in Nat : On(u, j) => On(u, j)'
      BY Zenon DEF NodeEditEffect
<1>4. TableTypes' /\ JobTypes' /\ StampInv'
      BY <1>1, <1>2, Zenon DEF IInv, TableTypes, JobTypes, StampInv
<1>5. CacheInv'
      BY <1>1, <1>3, Zenon DEF IInv, CacheInv, Unrecorded, TableTypes
<1>6. PushedInv' /\ OwnInv' /\ NoSilentDrift'
      BY <1>1, <1>2, Zenon DEF IInv, PushedInv, Unrecorded, OwnInv, NoSilentDrift, Differs
<1>7. CallInv'
  <2>1. jobCall # None => jobCall \in Requests /\ jobCall.tag \in Tags /\ jobCall.id \in Nat
        BY Zenon DEF IInv, JobTypes, Callers, jobCall, Requests
  <2>2. jobCall # None /\ On(jobCall.tag, jobCall.id) => On(jobCall.tag, jobCall.id)'
        BY <1>1, <1>3, <2>1, Zenon DEF On
  <2> QED BY <1>1, <1>2, <2>1, <2>2, Zenon DEF IInv, CallInv
<1>8. WantInv' /\ DoneInv'
      BY <1>1, <1>2, Zenon DEF IInv, WantInv, DoneInv, Reconciling
<1>9. SnapInv'
      BY <1>1, <1>2, Zenon DEF IInv, SnapInv
<1> QED BY <1>1, <1>4, <1>5, <1>6, <1>7, <1>8, <1>9, Zenon DEF IInv

(* A restart forgets ids and fingerprints, never the dirty flag.            *)
LEMMA CrashStep == ASSUME IInv, Crash, UNCHANGED world PROVE IInv'
<1> USE NodeSyncAssumption, NoneAssumption
<1>1. /\ UNCHANGED <<central, node, nextId, edits, dirty, dirtyAt, adopted, nodeEdit>>
      /\ idCache' = [t \in Tags |-> 0] /\ pushedFP' = NoRows /\ call' = [p \in Callers |-> None]
      /\ pc' = "idle" /\ n' = NoNode /\ want' = NoRows /\ snap' = NoRows /\ base' = NoRows
      /\ remote' = {} /\ todo' = {}
      BY Zenon DEF Crash, Finish, nodeRow
<1>2. NodeRows' = NodeRows /\ (\A u : NodeNewer(u)' = NodeNewer(u)) /\ jobCall' = None
      BY <1>1, NodeKept, Zenon DEF NodeNewer, jobCall, Callers
<1>3. NodeTypes' /\ OwnInv' /\ NoSilentDrift'
      BY <1>1, <1>2, Zenon DEF IInv, NodeTypes, OwnInv, NoSilentDrift, Differs
<1>4. n' \in [dirty : BOOLEAN, dirtyAt : Nat, adopted : BOOLEAN] /\ n'.dirtyAt = 0
      BY <1>1, Zenon DEF NoNode
<1>5. TableTypes' /\ JobTypes' /\ StampInv'
      BY <1>1, <1>4 DEF IInv, TableTypes, Table, NoRows, JobTypes, StampInv, Points, Callers
<1>6. CacheInv' /\ PushedInv' /\ CallInv' /\ WantInv' /\ DoneInv' /\ SnapInv'
      BY <1>1, <1>2, Zenon DEF CacheInv, PushedInv, CallInv, WantInv, DoneInv, SnapInv, Reconciling, NoRows
<1> QED BY <1>3, <1>5, <1>6, Zenon DEF IInv

(* The merge leaves a row alone unless the node's operator made the latest
   change: the node is clean, so both sides agree on every other row.       *)
LEMMA MergeKeeps ==
  ASSUME IInv, MergeCommit, NEW t \in Tags, ~NodeNewer(t)
  PROVE  central'[t] = central[t]
<1> USE NoneAssumption
<1>1. /\ pc = "commit" /\ base = central
      /\ central' = IF n.dirty THEN central ELSE [u \in Tags |-> Adopted(u)]
      BY Zenon DEF MergeCommit, IInv, SnapInv
<1>2. CASE n.dirty
      BY <1>1, <1>2, Zenon
<1>3. CASE ~n.dirty
  <2>1. ~dirty /\ (snap = NoRows \/ snap[t] = NodeRows[t])
        BY <1>1, <1>3, Zenon DEF IInv, SnapInv
  <2>2. central'[t] = Adopted(t)
        BY <1>1, <1>3, Zenon
  <2>3. ~Differs(t)
        BY <2>1, Zenon DEF IInv, NoSilentDrift
  <2>4. CASE snap = NoRows
        BY <1>1, <2>2, <2>4, Zenon DEF Adopted, NoRows
  <2>5. CASE snap[t] = NodeRows[t]
        BY <1>1, <2>2, <2>3, <2>5, Zenon DEF Adopted, Differs
  <2> QED BY <2>1, <2>4, <2>5, Zenon
<1> QED BY <1>2, <1>3, Zenon

(* The merge commits, and records the payloads it adopted as pushed.        *)
LEMMA CommitStep == ASSUME IInv, MergeCommit, UNCHANGED world PROVE IInv'
<1> USE NoneAssumption
<1>1. /\ UNCHANGED <<call, dirty, dirtyAt, adopted, node, nextId, idCache, nodeEdit, edits>>
      /\ UNCHANGED <<n, want, remote, todo, errs, snap>>
      /\ pc = "commit" /\ pc' = "mark" /\ base' = NoRows
      /\ pushedFP' = [t \in Tags |->
           IF ~n.dirty /\ base[t] # None /\ snap[t] # None /\ base[t] # snap[t]
           THEN snap[t] ELSE pushedFP[t]]
      BY Zenon DEF MergeCommit, nodeRow, counters
<1>2. central' = central \/ central' = [t \in Tags |-> Adopted(t)]
      BY Zenon DEF MergeCommit
<1>3. central' \in Table /\ pushedFP' \in Table
      BY <1>1, <1>2, Zenon DEF IInv, TableTypes, Table, Adopted
<1>4. /\ NodeRows' = NodeRows /\ (\A u, i : On(u, i)' = On(u, i)) /\ (\A u : NodeNewer(u)' = NodeNewer(u))
      /\ jobCall' = jobCall /\ jobCall = None
      BY <1>1, NodeKept, Zenon DEF On, NodeNewer, jobCall, IInv, CallInv
<1>5. \A t \in Tags : ~NodeNewer(t) => central'[t] = central[t]
      BY MergeKeeps, Zenon
<1>6. TableTypes' /\ JobTypes' /\ StampInv'
      BY <1>1, <1>3, Zenon DEF IInv, TableTypes, Table, NoRows, JobTypes, StampInv, Points
<1>7. NodeTypes' /\ CacheInv' /\ CallInv'
      BY <1>1, <1>4, Zenon, Zenon DEF IInv, NodeTypes, CacheInv, Unrecorded, CallInv
<1>8. PushedInv'
  <2> SUFFICES ASSUME NEW t \in Tags, pushedFP'[t] # None PROVE NodeRows[t] = pushedFP'[t] \/ nodeEdit[t] # "none"
      BY <1>1, <1>4, Zenon DEF PushedInv
  <2>1. CASE ~n.dirty /\ base[t] # None /\ snap[t] # None /\ base[t] # snap[t]
    <3>1. pushedFP'[t] = snap[t] /\ (snap = NoRows \/ snap[t] = NodeRows[t] \/ NodeNewer(t))
          BY <1>1, <2>1, Zenon DEF IInv, SnapInv
    <3> QED BY <2>1, <3>1, Zenon DEF NoRows, NodeNewer
  <2>2. CASE ~(~n.dirty /\ base[t] # None /\ snap[t] # None /\ base[t] # snap[t])
        BY <1>1, <1>4, <2>2, Zenon DEF IInv, PushedInv, Unrecorded
  <2> QED BY <2>1, <2>2, Zenon
<1>9. OwnInv' /\ NoSilentDrift'
      BY <1>1, <1>4, <1>5, Zenon DEF IInv, OwnInv, NoSilentDrift, Differs
<1>10. WantInv' /\ DoneInv' /\ SnapInv'
      BY <1>1, Zenon DEF WantInv, DoneInv, SnapInv, Reconciling
<1> QED BY <1>6, <1>7, <1>8, <1>9, <1>10, Zenon DEF IInv

(* Every step keeps the invariant.                                          *)
LEMMA NextIInv == ASSUME IInv, Serialized(world), [Next]_vars PROVE IInv'
<1> USE NodeSyncAssumption
<1>1. CASE UNCHANGED vars
      BY <1>1, KeptStep, Zenon DEF vars, core, nodeRow, remoteVars, counters
<1>2. CASE Next
  <2> UNCHANGED world
      BY <1>2, Zenon DEF Next
  <2>1. \A e \in Editors : ~Editor(e) /\ ~Serve(e) /\ ~LoseRequest(e)
    <3>1. (\A e \in Editors : call[e] = None) /\ "toggle" \notin world.ops /\ "del" \notin world.ops
          BY Zenon DEF IInv, JobTypes, Serialized
    <3> QED BY <3>1, Zenon DEF Editor, ToggleRead, DelInbound, SetInboundEnable, EditorReturns, InFlight, Serve, LoseRequest
  <2>2. (\A p \in Callers : ~LoseReply(p)) /\ \A t \in world.tags : ~NodeDel(t)
        BY Zenon DEF LoseReply, Fault, NodeDel, Serialized
  <2>3. \/ Local \/ ClearNodeDirty \/ ReconcileReturns \/ MergeCommit \/ Crash
        \/ \E t \in Tags : ReconcileSkip(t) \/ ReconcilePush(t) \/ SweepDel(t)
        \/ Edit \/ NodeEdit
        \/ Serve("job") \/ LoseRequest("job") \/ GoOffline \/ Reconnect
        BY <1>2, <2>1, <2>2, Zenon DEF Next, Steps, Job, Local, Callers
  <2>4. CASE Local \/ ClearNodeDirty \/ ReconcileReturns \/ MergeCommit \/ Crash
        BY <2>4, LocalStep, ClearStep, ReturnStep, CommitStep, CrashStep, Zenon
  <2>5. CASE \E t \in Tags : ReconcileSkip(t) \/ ReconcilePush(t) \/ SweepDel(t)
        BY <2>5, SkipStep, PushEffect, SweepEffect, SendStep, Zenon
  <2>6. CASE Serve("job") \/ LoseRequest("job")
        BY <2>6, ServeStep, LoseStep, Zenon
  <2>7. CASE GoOffline \/ Reconnect
        BY <2>7, KeptStep, Zenon DEF GoOffline, Reconnect, core, remoteVars, counters
  <2>8. CASE Edit
    <3>1. PICK t \in world.tags : (\E row \in WorldRows : AddInbound(t, row))
                                  \/ (\E cfg \in world.cfgs : UpdateInbound(t, cfg))
          BY <2>8, Zenon DEF Edit
    <3>2. \E row \in Rows, marked \in BOOLEAN : t \in Tags /\ EditEffect(t, row, marked)
          BY <3>1, AddEffect, UpdateEffect, Zenon
    <3> QED BY <3>2, EditStep, Zenon
  <2>9. CASE NodeEdit
    <3>1. PICK t \in world.tags, row \in WorldRows : NodeAdd(t, row) \/ NodeUpdate(t, row)
          BY <2>2, <2>9, Zenon DEF NodeEdit
    <3>2. t \in Tags /\ row \in Rows /\ NodeEditEffect(t, row)
          BY <3>1, NodeEditFrame, Zenon
    <3> QED BY <3>2, NodeEditStep, Zenon
  <2> QED BY <2>3, <2>4, <2>5, <2>6, <2>7, <2>8, <2>9
<1> QED BY <1>1, <1>2

(* The invariant of the sync between the master's inbounds, the id cache, the
   fingerprints, the job and the node, in serialized circumstances.         *)
THEOREM SyncInvariant ==
  Spec /\ Serialized(world) => [](IInv /\ Serialized(world))
<1>1. IInv /\ Serialized(world) /\ [Next]_vars => IInv'
      BY NextIInv, Zenon
<1>2. Serialized(world) /\ [Next]_vars => Serialized(world)'
      BY Zenon DEF Next, vars, Serialized
<1> QED BY InitIInv, <1>1, <1>2, PTL DEF Spec

(* No silent drift: whatever the number of tags, edits, faults and restarts, a
   node that differs from the master's row is marked dirty, or its own
   operator made the latest change.  ClearNodeDirty never clears the flag of
   an edit the reconcile did not deliver.                                   *)
THEOREM DriftIsKnown ==
  Spec /\ Serialized(world) => []NoSilentDrift
<1>1. IInv => NoSilentDrift
      BY Zenon DEF IInv
<1> QED BY <1>1, SyncInvariant, PTL

(* Only the merge goes from its transaction to the adoption mark.           *)
LEMMA CommitOnly ==
  ASSUME Next, pc = "commit", pc' = "mark"
  PROVE  MergeCommit
<1>1. ASSUME Job PROVE MergeCommit
      BY <1>1, Zenon DEF Job, TickStart, ReconcileRead, ReconcileList, ReconcileSkip, ReconcilePush, SweepDel, ReconcileReturns,
         SweepStart, SweepEnd, ClearNodeDirty, FetchTrafficSnapshot, SampleDirty, MergeDirty, MergeRead,
         MarkNodeInboundsAdopted
<1>2. ~Edit /\ ~NodeEdit /\ ~GoOffline /\ ~Reconnect /\ ~Crash
      BY Zenon DEF Edit, AddInbound, UpdateInbound, NodeEdit, NodeAdd, NodeUpdate, NodeDel, NodeEdited, GoOffline, Reconnect,
         Crash, Finish, jobVars
<1>3. /\ \A e \in Editors : ~Editor(e)
      /\ \A p \in Callers : ~Serve(p) /\ ~LoseRequest(p) /\ ~LoseReply(p)
      BY Zenon DEF Editor, ToggleRead, DelInbound, SetInboundEnable, EditorReturns, Serve, LoseRequest, LoseReply, jobVars
<1> QED BY <1>1, <1>2, <1>3, Zenon, Zenon DEF Next, Steps

(* A merge of the node's snapshot into the master's table changes a row only
   where the node's operator made the latest change: no edit that marked the
   node dirty is undone by a snapshot taken before it.                      *)
THEOREM MergesKeepEdits ==
  Spec /\ Serialized(world) => EditsKept
<1> DEFINE Kept == pc = "commit" /\ pc' = "mark" => \A t \in Tags : central'[t] # central[t] => NodeNewer(t)
<1>1. ASSUME IInv, Next, pc = "commit", pc' = "mark", NEW t \in Tags, central'[t] # central[t]
      PROVE  NodeNewer(t)
  <2>1. MergeCommit
        BY <1>1, CommitOnly, Zenon
  <2> QED BY <1>1, <2>1, MergeKeeps
<1>2. IInv /\ [Next]_vars => [Kept]_vars
      BY <1>1, Zenon
<1> QED BY <1>2, SyncInvariant, PTL DEF EditsKept, Spec
==============================================================================
