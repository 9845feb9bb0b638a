---- MODULE MCDraftPages ----
EXTENDS DraftPages

MCCallers == Requests
MCSafe == {"reset"}

(* Saves, edits and refetches of two admins over a network that works; and  *)
(* one save with every fault the network and the session can show; and a    *)
(* page that cannot be loaded at first.                                     *)
Busy(p) == [page |-> p, edits |-> 2, saves |-> 2, faults |-> 0, changes |-> 0, others |-> 1]
Faulty(p) == [page |-> p, edits |-> 1, saves |-> 1, faults |-> 1, changes |-> 1, others |-> 0]
Down(p) == [page |-> p, edits |-> 0, saves |-> 0, faults |-> 2, changes |-> 1, others |-> 0]

MCWorlds == {Busy("settings"), Busy("xray"), Faulty("settings"), Faulty("xray"),
             Down("settings")}
====
