---------------------------- MODULE XrayTemplate ----------------------------
(***************************************************************************)
(* The part of the Xray template the panel's editor keeps consistent:      *)
(* outbounds, routing rules, balancers and the two observers, with the     *)
(* pure functions that repair it (pages/xray/reference-cleanup.ts,         *)
(* balancers/balancer-loopback.ts, balancers/balancer-helpers.ts and       *)
(* basics/helpers.ts under src/frontend/src).                              *)
(*                                                                         *)
(* A template is a record                                                  *)
(*   outbounds  sequence of [tag, proxy]: proxy is sockopt.dialerProxy     *)
(*   rules      sequence of [in, out, bal, on]: in is None for a rule with *)
(*              no inboundTag (a "general" rule)                           *)
(*   balancers  sequence of [tag, sel, fb, strat]                          *)
(*   obs, burst the subjectSelector of the observer, or None when absent   *)
(* An empty or missing tag is None.                                        *)
(***************************************************************************)
EXTENDS Naturals, Sequences, FiniteSets, SequencesExt

CONSTANTS BalTags,      \* tags a balancer may be given
          Direct,       \* the tag of the built-in freedom outbound
          None          \* the empty tag, the absent observer

(* The hidden loopback outbound that turns a balancer into a fallback. *)
loopbackTagFor(b) == <<"_bl_", b>>
Loopbacks == {loopbackTagFor(b) : b \in BalTags}
isBalancerLoopbackTag(t) == t \in Loopbacks
balancerTagFromLoopback(t) == t[2]

OutTags(t) == {o.tag : o \in Range(t.outbounds)}
BalTagsOf(t) == {b.tag : b \in Range(t.balancers)}
Each(s, Op(_)) == [i \in DOMAIN s |-> Op(s[i])]

-----------------------------------------------------------------------------
(* balancer-helpers.ts: which observer the balancers need. *)

collectSelectors(bs) == UNION {b.sel : b \in bs}

balancerRequiresBurstObservatory(b) ==
    b.strat = "leastLoad" \/ (b.strat = "random" /\ b.fb # None)

syncObservatories(t) ==
    LET bs == Range(t.balancers)
        leastPings == {b \in bs : b.strat = "leastPing"}
        required == {b \in bs : balancerRequiresBurstObservatory(b)}
    IN IF required # {}
       THEN [t EXCEPT !.obs = None, !.burst = collectSelectors(required \cup leastPings)]
       ELSE [t EXCEPT !.burst = None,
                      !.obs = IF leastPings # {} THEN collectSelectors(leastPings) ELSE None]

-----------------------------------------------------------------------------
(* balancer-loopback.ts *)

fallbackTargets(t) ==
    {balancerTagFromLoopback(b.fb) : b \in {x \in Range(t.balancers) : isBalancerLoopbackTag(x.fb)}}

isGeneralRoutingRule(r) == r.in = None

firstGeneralRoutingRuleIndex(rules) ==
    LET general == {i \in DOMAIN rules : isGeneralRoutingRule(rules[i])}
    IN IF general = {} THEN Len(rules) + 1 ELSE CHOOSE i \in general : \A j \in general : i <= j

(* The loopback outbound is (re)written, its rule pointed at the target and *)
(* moved in front of the first general rule.                                *)
ensureBalancerLoopback(t, target) ==
    LET lb == loopbackTagFor(target)
        fresh == [tag |-> lb, proxy |-> None]
        at == SelectInSeq(t.outbounds, LAMBDA o : o.tag = lb)
        old == SelectInSeq(t.rules, LAMBDA r : r.in = lb)
        rest == IF old = 0 THEN t.rules ELSE RemoveAt(t.rules, old)
        rule == IF old = 0 THEN [in |-> lb, out |-> None, bal |-> target, on |-> TRUE]
                           ELSE [t.rules[old] EXCEPT !.bal = target]
    IN [t EXCEPT !.outbounds = IF at = 0 THEN Append(@, fresh) ELSE [@ EXCEPT ![at] = fresh],
                 !.rules = InsertAt(rest, firstGeneralRoutingRuleIndex(rest), rule)]

removeBalancerLoopback(t, target) ==
    LET lb == loopbackTagFor(target)
    IN [t EXCEPT !.outbounds = SelectSeq(@, LAMBDA o : o.tag # lb),
                 !.rules = SelectSeq(@, LAMBDA r : r.in # lb)]

removeBalancerLoopbackIfOrphaned(t, target) ==
    IF target \in fallbackTargets(t) THEN t ELSE removeBalancerLoopback(t, target)

\* Mutant: the rename does not reach the rules' inboundTag.
propagateBalancerTagRenameNoRules(t, oldTag, newTag) ==
    LET To(tag) == IF tag = loopbackTagFor(oldTag) THEN loopbackTagFor(newTag) ELSE tag
    IN [t EXCEPT !.outbounds = Each(@, LAMBDA o : [o EXCEPT !.tag = To(@)]),
                 !.balancers = Each(@, LAMBDA b : [b EXCEPT !.fb = To(@)])]

propagateBalancerTagRename(t, oldTag, newTag) ==
    LET To(tag) == IF tag = loopbackTagFor(oldTag) THEN loopbackTagFor(newTag) ELSE tag
    IN [t EXCEPT !.outbounds = Each(@, LAMBDA o : [o EXCEPT !.tag = To(@)]),
                 !.rules = Each(@, LAMBDA r : [r EXCEPT !.in = To(@)]),
                 !.balancers = Each(@, LAMBDA b : [b EXCEPT !.fb = To(@)])]

(* The balancer a fallback chain visits next, None where it ends. *)
NextBalancer(t, tag) ==
    LET at == SelectInSeq(t.balancers, LAMBDA b : b.tag = tag)
    IN IF at = 0 \/ ~isBalancerLoopbackTag(t.balancers[at].fb)
       THEN None ELSE balancerTagFromLoopback(t.balancers[at].fb)

\* Mutant: only a balancer that falls back to itself is a cycle.
detectBalancerCyclesSelf(t) == {b \in BalTagsOf(t) : NextBalancer(t, b) = b}

(* The balancers whose fallback chain comes back to them. *)
detectBalancerCycles(t) ==
    LET walk[b \in BalTags, n \in 0..Len(t.balancers)] ==
            IF n = 0 THEN b
            ELSE IF walk[b, n - 1] = None THEN None ELSE NextBalancer(t, walk[b, n - 1])
    IN {b \in BalTagsOf(t) : \E n \in 1..Len(t.balancers) : walk[b, n] = b}

ensureMissingBalancerLoopbacks(t) ==
    FoldLeft(LAMBDA acc, b : IF isBalancerLoopbackTag(b.fb)
                             THEN ensureBalancerLoopback(acc, balancerTagFromLoopback(b.fb))
                             ELSE acc,
             t, t.balancers)

cleanupOrphanedBalancerLoopbacks(t) ==
    LET orphaned == {o.tag : o \in {x \in Range(t.outbounds) :
                        /\ isBalancerLoopbackTag(x.tag)
                        /\ balancerTagFromLoopback(x.tag) \notin fallbackTargets(t)}}
    IN [t EXCEPT !.outbounds = SelectSeq(@, LAMBDA o : o.tag \notin orphaned),
                 !.rules = SelectSeq(@, LAMBDA r : r.in \notin orphaned)]

-----------------------------------------------------------------------------
(* reference-cleanup.ts *)

(* Balancers whose selector is left empty once the outbounds are gone. *)
balancersEmptiedBy(t, removedOuts) ==
    {b.tag : b \in {x \in Range(t.balancers) : x.sel # {} /\ x.sel \subseteq removedOuts}}

classifyRule(r, removedOuts, removedBals) ==
    [r EXCEPT !.out = IF @ \in removedOuts THEN None ELSE @,
              !.bal = IF @ \in removedBals THEN None ELSE @]

(* The confirmation dialog's list: rule index -> "removed" or "modified". *)
ruleImpacts(t, removedOuts, removedBals) ==
    LET Left(i) == classifyRule(t.rules[i], removedOuts, removedBals)
    IN [i \in {j \in DOMAIN t.rules : Left(j) # t.rules[j]} |->
            IF Left(i).out = None /\ Left(i).bal = None THEN "removed" ELSE "modified"]

\* Mutant: a balancer keeps its dead fallback.
keepFallback(b, removedOuts) == [b EXCEPT !.sel = @ \ removedOuts]

trimBalancer(b, removedOuts) ==
    [b EXCEPT !.sel = @ \ removedOuts, !.fb = IF @ \in removedOuts THEN None ELSE @]

(* Rules lose the destinations that go, and go when they lose the last one; *)
(* balancers and dialers forget the outbounds.                              *)
dropReferences(t, removedOuts, removedBals) ==
    LET Left(r) == classifyRule(r, removedOuts, removedBals)
        Keep(r) == Left(r) = r \/ Left(r).out # None \/ Left(r).bal # None
        Trim(b) == trimBalancer(b, removedOuts)
        Undial(o) == [o EXCEPT !.proxy = IF @ \in removedOuts THEN None ELSE @]
    IN [t EXCEPT !.rules = Each(SelectSeq(@, Keep), Left),
                 !.balancers = Each(SelectSeq(@, LAMBDA b : b.tag \notin removedBals), Trim),
                 !.outbounds = Each(SelectSeq(@, LAMBDA o : o.tag \notin removedOuts), Undial)]

\* Mutant: the observers are not realigned.
applyCleanupUnsynced(t, removedOuts, removedBals) == dropReferences(t, removedOuts, removedBals)

applyCleanup(t, removedOuts, removedBals) ==
    syncObservatories(dropReferences(t, removedOuts, removedBals))

(* What a deletion says it will do, and what it does. *)
Impact(t, removedOuts, removedBals, cascaded) ==
    LET after == applyCleanup(t, removedOuts, removedBals)
    IN [rules |-> ruleImpacts(t, removedOuts, removedBals),
        balancers |-> cascaded,
        observatory |-> t.obs # None /\ after.obs = None,
        burst |-> t.burst # None /\ after.burst = None]

\* Mutant: the preview forgets the cascade.
planOutboundDeletionAlone(t, i) == Impact(t, {t.outbounds[i].tag}, {}, {})

planOutboundDeletion(t, i) ==
    LET out == {t.outbounds[i].tag}
    IN Impact(t, out, balancersEmptiedBy(t, out), balancersEmptiedBy(t, out))

applyOutboundDeletion(t, i) ==
    LET out == {t.outbounds[i].tag} IN applyCleanup(t, out, balancersEmptiedBy(t, out))

planBalancerDeletion(t, i) == Impact(t, {}, {t.balancers[i].tag}, {})

applyBalancerDeletion(t, i) == applyCleanup(t, {}, {t.balancers[i].tag})

-----------------------------------------------------------------------------
(* basics/helpers.ts *)

propagateOutboundTagRename(t, oldTag, newTag) ==
    LET To(tag) == IF tag = oldTag THEN newTag ELSE tag
    IN [t EXCEPT !.rules = Each(@, LAMBDA r : [r EXCEPT !.out = To(@)]),
                 !.balancers = Each(@, LAMBDA b : [b EXCEPT !.fb = To(@), !.sel = {To(s) : s \in @}]),
                 !.outbounds = Each(@, LAMBDA o : [o EXCEPT !.proxy = To(@)])]

(* The outbound the Basics routing controls own: gone when no rule uses it, *)
(* unless it is the first (default) one; back when a rule does.             *)
syncOutbound(t, tag) ==
    LET haveRules == \E r \in Range(t.rules) : r.out = tag
        at == SelectInSeq(t.outbounds, LAMBDA o : o.tag = tag)
    IN CASE ~haveRules /\ at > 1 -> [t EXCEPT !.outbounds = RemoveAt(@, at)]
         [] haveRules /\ at = 0 -> [t EXCEPT !.outbounds = Append(@, [tag |-> tag, proxy |-> None])]
         [] OTHER -> t

(* The chosen outbound becomes the first one; the built-in one is created. *)
setDefaultOutboundTag(t, tag) ==
    LET at == SelectInSeq(t.outbounds, LAMBDA o : o.tag = tag)
    IN CASE at > 0 -> [t EXCEPT !.outbounds = <<@[at]>> \o RemoveAt(@, at)]
         [] at = 0 /\ tag = Direct -> [t EXCEPT !.outbounds = <<[tag |-> tag, proxy |-> None]>> \o @]
         [] OTHER -> t
=============================================================================
