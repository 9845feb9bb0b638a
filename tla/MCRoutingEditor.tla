-------------------------- MODULE MCRoutingEditor --------------------------
(***************************************************************************)
(* Instances of RoutingEditor for TLC: the fresh template, and one where   *)
(* balancer b2 already falls back to b1 through a loopback.                *)
(***************************************************************************)
EXTENDS RoutingEditor, TLC

CONSTANTS o1, o2, b1, b2, in1

Plain(tag) == [tag |-> tag, proxy |-> None]

Fresh == [outbounds |-> <<Plain(o1), Plain(o2)>>, rules |-> <<>>,
          balancers |-> <<>>, obs |-> None, burst |-> None]

Chained ==
    LET pair == << [tag |-> b1, sel |-> {o1}, fb |-> None, strat |-> "leastPing"],
                   [tag |-> b2, sel |-> {o2}, fb |-> loopbackTagFor(b1), strat |-> "random"] >>
        rules == << [in |-> in1, out |-> o1, bal |-> None, on |-> TRUE],
                    [in |-> None, out |-> None, bal |-> b1, on |-> TRUE] >>
    IN syncObservatories(ensureBalancerLoopback(
            [Fresh EXCEPT !.balancers = pair, !.rules = rules], b1))

Session(t, menu, strats, n) ==
    [template |-> t, ops |-> menu, strategies |-> strats, edits |-> n]

(* Short sessions over the whole menu, longer ones over a part of it. *)
AllSessions ==
    {Session(t, {"outbounds", "rename", "order", "balancers", "rules", "editRule", "basics", "warp"},
             {"random", "leastPing"}, 2) : t \in {Fresh, Chained}}
    \cup {Session(Chained, {"balancers", "outbounds"}, {"random"}, 3),
          Session(Fresh, {"balancers"}, {"leastPing", "leastLoad"}, 3),
          Session(Chained, {"rules", "order"}, {}, 3),
          Session(Chained, {"rename", "outbounds", "warp", "basics"}, {}, 3)}
OneDeletion == {Session(Chained, {"outbounds"}, {}, 1)}
TwoSelectors == {{o1}, {o1, o2}}
=============================================================================
