---- MODULE MCLiveUpdates ----
EXTENDS LiveUpdates

(* A panel with few clients, where lists are pushed, and everything that can *)
(* be lost, on one page and across a change of page; a panel where only      *)
(* switches are set; a large panel.                                          *)
Faulty == [ops |-> {"update", "client"}, admins |-> Admins, large |-> FALSE, connected |-> FALSE,
           edits |-> 2, faults |-> 2, moves |-> 0]
Moving == [Faulty EXCEPT !.edits = 1, !.moves = 1]
Switches == [ops |-> {"toggle"}, admins |-> Admins, large |-> FALSE, connected |-> TRUE,
             edits |-> 3, faults |-> 0, moves |-> 1]
OneSave == [ops |-> {"update"}, admins |-> {"other"}, large |-> TRUE, connected |-> TRUE,
            edits |-> 1, faults |-> 0, moves |-> 0]

Passing == {Faulty, Moving, Switches, OneSave}
====
