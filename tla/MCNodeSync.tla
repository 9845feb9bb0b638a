----------------------------- MODULE MCNodeSync -----------------------------
(***************************************************************************)
(* Instances of NodeSync for TLC.                                          *)
(***************************************************************************)
EXTENDS NodeSync, TLC

CONSTANTS t1, a

Quiet == [tags |-> Tags, cfgs |-> Cfgs, onboarding |-> FALSE, ops |-> {}, nodeOps |-> {},
          faultOps |-> {}, maxEdits |-> 0, maxNodeEdits |-> 0, maxFaults |-> 0]

\* Adds and updates on both sides; requests fail, lists come back empty, the
\* panel restarts.
Both == [Quiet EXCEPT !.ops = {"add", "update"}, !.nodeOps = {"add", "update"},
          !.faultOps = {"request", "empty", "crash"},
          !.maxEdits = 2, !.maxNodeEdits = 1, !.maxFaults = 1]

\* One tag edited, pushed, changed on the node, edited and edited back.
Reverts(t) == [Both EXCEPT !.tags = {t}, !.maxEdits = 3]

Safety == {Both} \cup {Reverts(t) : t \in Tags}

\* Toggles that push beside the job, with lost replies and equal stamps.
Pushes == [Quiet EXCEPT !.tags = {t1}, !.ops = {"toggle", "update"},
            !.faultOps = {"reply", "same_ms"}, !.maxEdits = 3, !.maxFaults = 1]

\* A delete at any moment of the onboarding of a node.
Deletes == [Quiet EXCEPT !.cfgs = {a}, !.onboarding = TRUE, !.ops = {"del"},
             !.nodeOps = {"add", "update"}, !.faultOps = {"offline", "crash"},
             !.maxEdits = 1, !.maxNodeEdits = 1, !.maxFaults = 1]

\* A fresh node whose own operator does everything.
Adopts == [Quiet EXCEPT !.cfgs = {a}, !.onboarding = TRUE,
            !.nodeOps = {"add", "update", "del"}, !.faultOps = {"empty", "offline", "crash"},
            !.maxNodeEdits = 2, !.maxFaults = 1]

Converging == {Pushes, Deletes, Adopts}

\* One edit during the onboarding.
Onboard == {[Quiet EXCEPT !.cfgs = {a}, !.onboarding = TRUE, !.ops = {"add"}, !.maxEdits = 1]}

Symmetry == Permutations(Tags) \cup Permutations(Cfgs)
=============================================================================
