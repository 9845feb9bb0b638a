---------------------------- MODULE RoutingEditor ----------------------------
(***************************************************************************)
(* The Xray page's structured editor: every handler of the Outbounds,      *)
(* Balancers, Routing and Basics tabs that changes the template, the two   *)
(* deletion dialogs, the WARP dialog's side doors and "Save"               *)
(* (src/frontend/src/pages/xray).  A handler mutates a deep clone inside   *)
(* setTemplateSettings, so each one is atomic.                             *)
(*                                                                         *)
(* JSON typed by hand (the Advanced editor, the two Import dialogs) can    *)
(* build any template at all and is left out.                              *)
(***************************************************************************)
EXTENDS XrayTemplate

CONSTANTS Outs,         \* tags an ordinary outbound may be given
          Warp,         \* the tag of the WARP dialog's outbound
          Inbounds,     \* inbound tags a rule may match on
          Selectors,    \* selectors offered to a balancer
          Sessions,     \* editing sessions: the template the server holds, the
                        \* handlers and strategies in use, the bound on edits
          MaxRules      \* bound on user rules

VARIABLES session,  \* the session under way, fixed by Init
          tpl,      \* templateSettings
          saved,    \* nothing was edited since this template went to the server
          dialog,   \* the open deletion dialog: its target and what it announced
          cascaded, \* history: a deletion took a balancer another one fell back to
          ops       \* edits so far

vars == <<session, tpl, saved, dialog, cascaded, ops>>

NoDialog == [kind |-> "none"]

Init ==
    /\ session \in Sessions
    /\ tpl = session.template
    /\ saved = TRUE
    /\ dialog = NoDialog
    /\ cascaded = FALSE
    /\ ops = 0

(* setTemplateSettings(clone) after a handler's mutation. *)
Mutate(op, t) ==
    /\ op \in session.ops
    /\ ops < session.edits
    /\ ops' = ops + 1
    /\ UNCHANGED session
    /\ tpl' = t
    /\ saved' = FALSE

Menu == dialog = NoDialog /\ UNCHANGED <<dialog, cascaded>>

-----------------------------------------------------------------------------
(* Outbounds tab.  Rows hide the loopback outbounds, and every handler maps *)
(* its row back to the index in the full list.                              *)

OutboundRows == SelectSeq([i \in DOMAIN tpl.outbounds |-> i],
                          LAMBDA i : ~isBalancerLoopbackTag(tpl.outbounds[i].tag))
originalOutboundIndex(row) == OutboundRows[row]

dialerProxyTags(except) == {tpl.outbounds[i].tag : i \in DOMAIN tpl.outbounds \ {except}} \cup {None}

AddOutbound ==
    /\ Menu
    /\ \E tag \in (Outs \cup {Warp, Direct}) \ OutTags(tpl), proxy \in dialerProxyTags(0) :
        Mutate("outbounds", [tpl EXCEPT !.outbounds = Append(@, [tag |-> tag, proxy |-> proxy])])

EditOutbound ==
    /\ Menu
    /\ \E row \in DOMAIN OutboundRows :
        LET i == originalOutboundIndex(row)
            oldTag == tpl.outbounds[i].tag
        IN \E newTag \in Outs \ (OutTags(tpl) \ {oldTag}), proxy \in dialerProxyTags(i) :
            LET t == [tpl EXCEPT !.outbounds[i] = [tag |-> newTag, proxy |-> proxy]]
            IN Mutate("rename", IF newTag = oldTag THEN t
                                ELSE propagateOutboundTagRename(t, oldTag, newTag))

Swap(s, i, j) == [s EXCEPT ![i] = s[j], ![j] = s[i]]

SetFirst ==
    /\ Menu
    /\ \E row \in DOMAIN OutboundRows :
        LET i == originalOutboundIndex(row)
        IN Mutate("order", [tpl EXCEPT !.outbounds = <<@[i]>> \o RemoveAt(@, i)])

MoveOutbound ==
    /\ Menu
    /\ \E row \in DOMAIN OutboundRows :
        /\ row > 1
        /\ Mutate("order", [tpl EXCEPT !.outbounds =
                Swap(@, originalOutboundIndex(row - 1), originalOutboundIndex(row))])

(* The dialog announces the impact; OK applies the deletion by index. *)
AskDeleteOutbound ==
    /\ dialog = NoDialog /\ "outbounds" \in session.ops /\ ops < session.edits
    /\ \E row \in DOMAIN OutboundRows :
        LET i == originalOutboundIndex(row)
        IN dialog' = [kind |-> "outbound", idx |-> i, tag |-> tpl.outbounds[i].tag,
                      impact |-> planOutboundDeletion(tpl, i)]
    /\ UNCHANGED <<session, tpl, saved, cascaded, ops>>

DeleteOutbound ==
    /\ dialog.kind = "outbound"
    /\ Mutate("outbounds", applyOutboundDeletion(tpl, dialog.idx))
    /\ cascaded' = (cascaded \/ ~(fallbackTargets(tpl') \subseteq BalTagsOf(tpl')))
    /\ dialog' = NoDialog

-----------------------------------------------------------------------------
(* Balancers tab. *)

(* The fallback of each balancer as the form's cycle check follows it: a    *)
(* loopback resolved through its rule, the entry of the typed tag left out. *)
FormFallback(tag, current) ==
    LET at == SelectInSeq(tpl.balancers, LAMBDA b : b.tag = tag)
        fb == tpl.balancers[at].fb
        via == SelectInSeq(tpl.rules, LAMBDA r : r.in = fb /\ r.bal # None)
    IN IF at = 0 \/ tag = current THEN None
       ELSE IF ~isBalancerLoopbackTag(fb) THEN fb
       ELSE IF via = 0 THEN None ELSE tpl.rules[via].bal

wouldCreateCycle(current, fallback) ==
    LET walk[n \in 0..Len(tpl.balancers)] ==
            IF n = 0 THEN fallback
            ELSE IF walk[n - 1] \in BalTags THEN FormFallback(walk[n - 1], current) ELSE None
    IN \E n \in DOMAIN walk : walk[n] = current

(* What the form lets through: a free tag, a fallback that is an outbound or *)
(* another balancer, and no fallback cycle as far as the form can see.       *)
BalancerForms(editing) ==
    LET others == {tpl.balancers[i].tag : i \in DOMAIN tpl.balancers \ {editing}}
        outs == OutTags(tpl) \ Loopbacks
    IN {f \in [tag : BalTags \ others, sel : Selectors, strat : session.strategies,
               fb : {None} \cup outs \cup others] :
            /\ f.fb # f.tag
            /\ f.fb \in others => ~wouldCreateCycle(f.tag, f.fb)}

ToWire(f) == [f EXCEPT !.fb = IF @ \in BalTags THEN loopbackTagFor(@) ELSE @]

AddBalancer ==
    /\ Menu
    /\ \E f \in BalancerForms(0) :
        LET t == [tpl EXCEPT !.balancers = Append(@, ToWire(f))]
        IN Mutate("balancers", syncObservatories(
                IF f.fb \in BalTags THEN ensureBalancerLoopback(t, f.fb) ELSE t))

(* onConfirm on an existing balancer: replace it, carry a new tag into the  *)
(* rules and the loopbacks, drop the loopback it no longer uses, add the    *)
(* one it now uses, then realign the observers.                             *)
EditBalancerTo(i, f) ==
    LET old == tpl.balancers[i]
        t1 == [tpl EXCEPT !.balancers[i] = ToWire(f)]
        t2 == IF old.tag = f.tag THEN t1
              ELSE propagateBalancerTagRename(
                    [t1 EXCEPT !.rules = Each(@, LAMBDA r :
                        [r EXCEPT !.bal = IF @ = old.tag THEN f.tag ELSE @])],
                    old.tag, f.tag)
        t3 == IF isBalancerLoopbackTag(old.fb) /\ balancerTagFromLoopback(old.fb) # f.fb
              THEN removeBalancerLoopbackIfOrphaned(t2, balancerTagFromLoopback(old.fb)) ELSE t2
        t4 == IF f.fb \in BalTags THEN ensureBalancerLoopback(t3, f.fb) ELSE t3
    IN syncObservatories(t4)

EditBalancer ==
    /\ Menu
    /\ \E i \in DOMAIN tpl.balancers : \E f \in BalancerForms(i) :
        Mutate("balancers", EditBalancerTo(i, f))

(* Refused while another balancer falls back to it. *)
AskDeleteBalancer ==
    /\ dialog = NoDialog /\ "balancers" \in session.ops /\ ops < session.edits
    /\ \E i \in DOMAIN tpl.balancers :
        /\ \A b \in Range(tpl.balancers) :
            b.tag # tpl.balancers[i].tag => b.fb # loopbackTagFor(tpl.balancers[i].tag)
        /\ dialog' = [kind |-> "balancer", idx |-> i, tag |-> tpl.balancers[i].tag,
                      impact |-> planBalancerDeletion(tpl, i)]
    /\ UNCHANGED <<session, tpl, saved, cascaded, ops>>

DeleteBalancer ==
    /\ dialog.kind = "balancer"
    /\ Mutate("balancers", applyBalancerDeletion(
            removeBalancerLoopback(tpl, tpl.balancers[dialog.idx].tag), dialog.idx))
    /\ dialog' = NoDialog
    /\ UNCHANGED cascaded

Cancel == dialog # NoDialog /\ dialog' = NoDialog /\ UNCHANGED <<session, tpl, saved, cascaded, ops>>

-----------------------------------------------------------------------------
(* Routing tab: the rows hide the loopback rules. *)

RuleRows == SelectSeq([i \in DOMAIN tpl.rules |-> i], LAMBDA i : tpl.rules[i].in \notin Loopbacks)
\* Mutant: the row is taken for the index.
rowIndex(row) == row
originalRuleIndex(row) == RuleRows[row]

(* The outbound list of the rule form offers the loopback outbounds too. *)
RuleForms == [in : Inbounds \cup {None}, out : OutTags(tpl) \cup {None},
              bal : BalTagsOf(tpl) \cup {None}, on : {TRUE}]

AddRule ==
    /\ Menu /\ Len(RuleRows) < MaxRules
    /\ \E r \in RuleForms : Mutate("rules", [tpl EXCEPT !.rules = Append(@, r)])

EditRule ==
    /\ Menu
    /\ \E row \in DOMAIN RuleRows, r \in RuleForms :
        Mutate("editRule", [tpl EXCEPT !.rules[originalRuleIndex(row)] = 
                [r EXCEPT !.on = tpl.rules[originalRuleIndex(row)].on]])

DeleteRule ==
    /\ Menu
    /\ \E row \in DOMAIN RuleRows :
        Mutate("rules", [tpl EXCEPT !.rules = RemoveAt(@, originalRuleIndex(row))])

MoveRule ==
    /\ Menu
    /\ \E row \in DOMAIN RuleRows :
        /\ row > 1
        /\ Mutate("order", [tpl EXCEPT !.rules =
                Swap(@, originalRuleIndex(row - 1), originalRuleIndex(row))])

DragRule ==
    /\ Menu
    /\ \E from \in DOMAIN RuleRows, to \in DOMAIN RuleRows :
        /\ from # to
        /\ LET f == originalRuleIndex(from)
           IN Mutate("order", [tpl EXCEPT !.rules =
                    InsertAt(RemoveAt(@, f), originalRuleIndex(to), @[f])])

ToggleRule ==
    /\ Menu
    /\ \E row \in DOMAIN RuleRows :
        Mutate("order", [tpl EXCEPT !.rules[originalRuleIndex(row)].on = ~@])

(* Basics: the "direct" lists.  `held` are the rules that hold the list      *)
(* being set; the first keeps it, or none when the list was emptied.          *)
ruleSetter(t, tag, held, nonempty) ==
    IF held = {} THEN [t EXCEPT !.rules = Append(@, [in |-> None, out |-> tag, bal |-> None, on |-> TRUE])]
    ELSE LET first == CHOOSE i \in held : \A j \in held : i <= j
             gone == IF nonempty THEN held \ {first} ELSE held
             kept == SelectSeq([i \in DOMAIN t.rules |-> i], LAMBDA i : i \notin gone)
         IN [t EXCEPT !.rules = [i \in DOMAIN kept |-> t.rules[kept[i]]]]

SetDirectRules ==
    /\ Menu
    /\ \E held \in SUBSET {i \in DOMAIN tpl.rules : tpl.rules[i].out = Direct}, nonempty \in BOOLEAN :
        /\ held = {} => Len(RuleRows) < MaxRules
        /\ Mutate("basics", syncOutbound(ruleSetter(tpl, Direct, held, nonempty), Direct))

SetDefault ==
    /\ Menu
    /\ \E tag \in OutTags(tpl) \cup {Direct} : Mutate("basics", setDefaultOutboundTag(tpl, tag))

(* WARP dialog: deleting the account splices its outbound out. *)
RemoveWarp ==
    /\ Menu
    /\ LET i == SelectInSeq(tpl.outbounds, LAMBDA o : o.tag = Warp)
       IN i > 0 /\ Mutate("warp", [tpl EXCEPT !.outbounds = RemoveAt(@, i)])

-----------------------------------------------------------------------------
(* onSaveAll: rebuild the loopbacks, drop the orphans, refuse a cycle. *)
Repaired == cleanupOrphanedBalancerLoopbacks(ensureMissingBalancerLoopbacks(tpl))

Save ==
    /\ Menu /\ ~saved
    /\ detectBalancerCycles(Repaired) = {}
    /\ tpl' = Repaired
    /\ saved' = TRUE
    /\ UNCHANGED <<session, ops>>

Next ==
    \/ AddOutbound \/ EditOutbound \/ SetFirst \/ MoveOutbound
    \/ AskDeleteOutbound \/ DeleteOutbound
    \/ AddBalancer \/ EditBalancer \/ AskDeleteBalancer \/ DeleteBalancer \/ Cancel
    \/ AddRule \/ EditRule \/ DeleteRule \/ MoveRule \/ DragRule \/ ToggleRule
    \/ SetDirectRules \/ SetDefault \/ RemoveWarp
    \/ Save

Spec == Init /\ [][Next]_vars

-----------------------------------------------------------------------------
(* Properties. *)

(* Tags other handlers drop without the reference cleanup: the WARP dialog, *)
(* the Basics lists and the loopback housekeeping.                          *)
SideDoors == {Warp, Direct} \cup Loopbacks

(* In a saved template no rule of the user points at a balancer or outbound *)
(* that is gone, no balancer falls back to one and no outbound dials through *)
(* one (applyCleanup, propagateOutboundTagRename, BalancersTab.onConfirm),   *)
(* whatever the order of deletions, cascades and renames before the save.    *)
SavedRefsResolve ==
    saved =>
        /\ \A r \in Range(tpl.rules) :
            /\ r.in \notin Loopbacks /\ r.bal # None => r.bal \in BalTagsOf(tpl)
            /\ r.out \in OutTags(tpl) \cup SideDoors \cup {None}
        /\ \A b \in Range(tpl.balancers) : b.fb \in OutTags(tpl) \cup {Warp, Direct, None}
        /\ \A o \in Range(tpl.outbounds) : o.proxy \in OutTags(tpl) \cup SideDoors \cup {None}

(* Every balancer used as a fallback has its hidden outbound and exactly one *)
(* hidden rule, pointing at a balancer that exists, in a saved template, and *)
(* there is no loopback nobody uses (ensureMissingBalancerLoopbacks,         *)
(* cleanupOrphanedBalancerLoopbacks, propagateBalancerTagRename); unless an  *)
(* outbound's deletion took a balancer others fell back to, for which see    *)
(* LoopbackTargetsExist.  Traffic re-entering through a loopback meets its   *)
(* own rule before any general rule, however the user reordered the rules    *)
(* (ensureBalancerLoopback puts it before the first general rule).           *)
LoopbacksComplete ==
    saved =>
        LET used == fallbackTargets(tpl)
            outFor(b) == {i \in DOMAIN tpl.outbounds : tpl.outbounds[i].tag = loopbackTagFor(b)}
            ruleFor(b) == {i \in DOMAIN tpl.rules : tpl.rules[i].in = loopbackTagFor(b)}
            n(b) == IF b \in used THEN 1 ELSE 0
        IN /\ \A i, j \in DOMAIN tpl.rules :
                tpl.rules[i].in \in Loopbacks /\ tpl.rules[j].in = None => i < j
           /\ ~cascaded => used \subseteq BalTagsOf(tpl)
           /\ ~cascaded => \A b \in BalTags :
                /\ Cardinality(outFor(b)) = n(b) /\ Cardinality(ruleFor(b)) = n(b)
                /\ \A i \in ruleFor(b) : tpl.rules[i].bal = b

(* A saved template never falls back in a circle, although the form's own    *)
(* check misses a cycle closed by a rename (onSaveAll, detectBalancerCycles). *)
NoFallbackCycle ==
    saved => LET edge == {<<b.tag, balancerTagFromLoopback(b.fb)>> :
                            b \in {x \in Range(tpl.balancers) : x.fb \in Loopbacks}}
             IN \A S \in SUBSET BalTagsOf(tpl) :
                    S # {} => \E b \in S : \A c \in S : <<b, c>> \notin edge

(* The template holds the observer its balancers need and no other at every  *)
(* moment, or the core refuses to start or restarts for nothing              *)
(* (syncObservatories after each balancer or outbound change).               *)
ObserverKind ==
    LET bs == Range(tpl.balancers)
        burst == \E b \in bs : b.strat = "leastLoad" \/ (b.strat = "random" /\ b.fb # None)
        ping == \E b \in bs : b.strat = "leastPing"
    IN /\ (tpl.burst # None) <=> burst
       /\ (tpl.obs # None) <=> (ping /\ ~burst)

(* A confirmed deletion does what its dialog announced: the listed rules go  *)
(* or lose a destination, the others stay as they were, the listed balancers *)
(* go with the outbound, and the announced observer is dropped               *)
(* (planOutboundDeletion / applyOutboundDeletion and the balancer pair).     *)
PreviewHolds ==
    [][DeleteOutbound \/ DeleteBalancer =>
        LET said == dialog.impact
            stay == SelectSeq([i \in DOMAIN tpl.rules |-> i],
                              LAMBDA i : ~(i \in DOMAIN said.rules /\ said.rules[i] = "removed"))
            goneBals == BalTagsOf(tpl) \ BalTagsOf(tpl')
        IN /\ Len(tpl'.rules) = Len(stay)
           /\ \A k \in DOMAIN stay :
                (tpl'.rules[k] # tpl.rules[stay[k]]) <=> stay[k] \in DOMAIN said.rules
           /\ goneBals = IF dialog.kind = "outbound" THEN said.balancers ELSE {dialog.tag}
           /\ said.observatory <=> tpl.obs # None /\ tpl'.obs = None
           /\ said.burst <=> tpl.burst # None /\ tpl'.burst = None]_vars

HiddenRule(r) == r.in \in Loopbacks

(* No handler of the Routing table touches a hidden loopback rule, and none  *)
(* of the Outbounds table's order handlers a hidden outbound: a visible row  *)
(* is mapped back to its own index (originalRuleIndex).                      *)
HiddenRowsUntouched ==
    [][EditRule \/ DeleteRule \/ MoveRule \/ DragRule \/ ToggleRule =>
        SelectSeq(tpl'.rules, HiddenRule) = SelectSeq(tpl.rules, HiddenRule)]_vars

(* The rule of every loopback of a saved template names a balancer that      *)
(* exists: a dangling balancerTag stops the core's Router.Init               *)
(* (reference-cleanup.ts).                                                   *)
LoopbackTargetsExist ==
    saved => \A r \in Range(tpl.rules) : r.in \in Loopbacks => r.bal \in BalTagsOf(tpl)
=============================================================================
