-------------------------- MODULE InboundStepsProofs --------------------------
(***************************************************************************)
(* Proofs for InboundForm, part two: every step keeps the invariant of     *)
(* InboundFormProofs, and the theorems on saved fields, tags and fallback  *)
(* rows.                                                                   *)
(***************************************************************************)
EXTENDS InboundFormProofs

-----------------------------------------------------------------------------
(* The form.                                                               *)

\* The settled values of a form filled with base.
LEMMA Settled ==
    ASSUME NEW s \in EffectStates, NEW b \in Bases, TagKept(s, b.row.tag), FromBase(s.v, b),
           NEW f \in [open : BOOLEAN, mode : {"add", "edit"}, id : Nat], b.id = f.id,
           f.mode = "edit" => f.id # 0 /\ Normal(s.v) /\ s.v.node = b.row.node,
           f.mode = "add" => b.row.tag = NoTag,
           Show(Settle(s)), form' = f, base' = b
    PROVE  FormInv'
<1> DEFINE t == Settle(s)
<1>1. /\ t \in EffectStates /\ SameFields(t.v, s.v)
      /\ \/ t.v.tag = b.row.tag \/ t.v.tag \in CustomTags
         \/ t.auto /\ t.v.tag = composeInboundTag(t.v)
  BY SettleTag, Zenon
<1> HIDE DEF t
<1>2. vals' = t.v /\ tagging' = [auto |-> t.auto, last |-> t.last]
  BY Zenon DEF Show, t
<1>3. t.v \in Inbounds /\ tagging' \in [auto : BOOLEAN, last : Tags] /\ tagging'.auto = t.auto
  BY <1>1, <1>2, Zenon DEF EffectStates
<1>4. FromBase(t.v, b)
  BY <1>1, Zenon DEF FromBase, SameFields
<1>5. TagFrom(t.v, b.row.tag) /\ (t.v.tag # b.row.tag /\ t.v.tag \notin CustomTags => t.auto)
  BY <1>1, Zenon DEF TagFrom
<1>6. f.mode = "edit" => f.id # 0 /\ Normal(t.v) /\ t.v.node = b.row.node
  BY <1>1, Zenon DEF Normal, SameFields
<1> QED
  BY <1>2, <1>3, <1>4, <1>5, <1>6, Zenon DEF FormInv

LEMMA EditKeeps ==
    ASSUME IInv, NEW kind, NEW fields \in SUBSET Fields, NEW v \in Inbounds, Edit(kind, fields, v),
           FromBase(v, [base EXCEPT !.touched = @ \cup fields]),
           v.tag = vals.tag \/ v.tag \in CustomTags,
           form.mode = "edit" => Normal(v) /\ v.node = vals.node
    PROVE  FormInv'
<1> DEFINE s == [v |-> v, seen |-> vals, auto |-> tagging.auto, last |-> tagging.last]
           b == [base EXCEPT !.touched = @ \cup fields]
<1>1. FormInv
  BY Zenon DEF IInv
<1>2. s \in EffectStates /\ s.v = v /\ s.seen = vals /\ s.auto = tagging.auto
  BY <1>1, Zenon DEF FormInv, EffectStates
<1>3. b \in Bases /\ b.row = base.row /\ b.id = base.id
  BY <1>1, Zenon DEF FormInv, Bases
<1>4. TagKept(s, b.row.tag)
  BY <1>1, <1>2, <1>3, Zenon DEF FormInv, TagFrom, TagKept
<1>5. Show(Settle(s)) /\ base' = b /\ form' = form
  BY Zenon DEF Edit, Change
<1> HIDE DEF s, b
<1>6. /\ form \in [open : BOOLEAN, mode : {"add", "edit"}, id : Nat] /\ b.id = form.id
      /\ form.mode = "edit" => form.id # 0 /\ Normal(s.v) /\ s.v.node = b.row.node
      /\ form.mode = "add" => b.row.tag = NoTag
  BY <1>1, <1>2, <1>3, Zenon DEF FormInv
<1>7. FromBase(s.v, b)
  BY <1>2, Zenon DEF b
<1> QED
  BY <1>2, <1>3, <1>4, <1>5, <1>6, <1>7, Settled, Zenon

LEMMA OpenKeeps ==
    ASSUME IInv, NEW mode \in {"add", "edit"}, NEW id \in Nat, NEW initial \in Inbounds,
           OpenForm(mode, id, initial),
           mode = "edit" => id # 0 /\ Normal(initial),
           mode = "add" => initial.tag = NoTag
    PROVE  FormInv'
<1> DEFINE filled == [v |-> initial, seen |-> vals, auto |-> isAutoInboundTag(initial.tag, initial),
                      last |-> initial.tag]
           s == IF form.open THEN filled ELSE Commit(filled, vals, TRUE)
           b == [id |-> id, row |-> initial, touched |-> {}]
           f == [open |-> TRUE, mode |-> mode, id |-> id]
<1>1. vals \in Inbounds /\ initial.tag \in Tags /\ isAutoInboundTag(initial.tag, initial) \in BOOLEAN
  BY Zenon DEF IInv, FormInv, Inbounds, isAutoInboundTag
<1>2. filled \in EffectStates /\ filled.v = initial /\ filled.last = initial.tag /\ filled.seen = vals
  BY <1>1, Zenon DEF EffectStates
<1> HIDE DEF filled
<1>3. CommitKept(Commit(filled, vals, TRUE), filled, vals, TRUE)
  BY <1>1, <1>2, CommitKeeps, Zenon
<1>4. s \in EffectStates /\ SameFields(s.v, initial) /\ TagKept(s, initial.tag)
  <2>1. CASE form.open
    BY <1>2, <2>1, Zenon DEF SameFields, TagKept
  <2>2. CASE ~form.open
    <3>1. s = Commit(filled, vals, TRUE)
      BY <2>2, Zenon
    <3> HIDE DEF s
    <3> QED
      BY <1>2, <1>3, <3>1, Zenon DEF CommitKept, TagKept
  <2> QED
    BY <2>1, <2>2, Zenon
<1>5. b \in Bases /\ b.row = initial /\ b.id = id
  BY Zenon DEF Bases
<1>6. f \in [open : BOOLEAN, mode : {"add", "edit"}, id : Nat] /\ f.mode = mode /\ f.id = id
  BY Zenon
<1>7. Show(Settle(s)) /\ form' = f /\ base' = b
  BY Zenon DEF OpenForm, filled
<1> HIDE DEF s, b, f
<1>8. /\ FromBase(s.v, b) /\ TagKept(s, b.row.tag) /\ b.id = f.id
      /\ f.mode = "edit" => f.id # 0 /\ Normal(s.v) /\ s.v.node = b.row.node
      /\ f.mode = "add" => b.row.tag = NoTag
  BY <1>4, <1>5, <1>6, Zenon DEF SameFields, FromBase, Normal
<1> QED
  BY <1>4, <1>5, <1>6, <1>7, <1>8, Settled, Zenon

-----------------------------------------------------------------------------
(* The fallback rows.                                                      *)

LEMMA SeqPut ==
    ASSUME NEW S, NEW s \in Seq(S), NEW i, NEW x \in S
    PROVE  [s EXCEPT ![i] = x] \in Seq(S)
<1>1. [s EXCEPT ![i] = x] = [k \in 1 .. Len(s) |-> IF k = i THEN x ELSE s[k]]
  OBVIOUS
<1>2. [k \in 1 .. Len(s) |-> IF k = i THEN x ELSE s[k]] \in Seq(S)
  OBVIOUS
<1> QED
  BY <1>1, <1>2, Zenon

LEMMA WithoutSeq ==
    ASSUME NEW S, NEW s \in Seq(S), NEW i \in DOMAIN s
    PROVE  Without(s, i) \in Seq(S)
<1>1. /\ Len(s) - 1 \in Nat /\ i \in Nat
      /\ \A k \in 1 .. Len(s) - 1 : (IF k < i THEN s[k] ELSE s[k + 1]) \in S
  OBVIOUS
<1> QED
  BY <1>1 DEF Without

LEMMA CallsKept ==
    ASSUME IInv, UNCHANGED cache, (hyd \in Seq(Hydrations))'
    PROVE  PageInv'
BY Zenon DEF IInv, PageInv

LEMMA SideKept ==
    ASSUME IInv, UNCHANGED lists, (fbs \in Seq(Fallbacks))', (loads \in Seq(Loads))'
    PROVE  ListsInv'
BY Zenon DEF IInv, ListsInv, NoSelfFallback

LEMMA LoadKeeps ==
    ASSUME IInv, NEW id \in Nat, loadFallbacks(id), UNCHANGED lists
    PROVE  ListsInv'
<1>1. [id |-> id, step |-> "sent", list |-> <<>>] \in Loads
  BY DEF Loads
<1>2. fbs \in Seq(Fallbacks) /\ loads \in Seq(Loads)
  BY Zenon DEF IInv, ListsInv
<1>3. Append(loads, [id |-> id, step |-> "sent", list |-> <<>>]) \in Seq(Loads) /\ <<>> \in Seq(Fallbacks)
  BY <1>1, <1>2
<1>4. fbs' \in Seq(Fallbacks) /\ loads' \in Seq(Loads)
  BY <1>2, <1>3, Zenon DEF loadFallbacks
<1> QED
  BY <1>4, SideKept, Zenon

LEMMA FallbacksKept ==
    ASSUME SelectionFacts, NEW list \in Seq(Fallbacks)
    PROVE  KeptFallbacks(list) \in Seq(Fallbacks)
<1>1. {i \in DOMAIN list : list[i].child # 0 \/ list[i].dest} \in SUBSET DOMAIN list
  BY Zenon
<1> QED
  BY <1>1, Zenon DEF KeptFallbacks, SelectionFacts

LEMMA NotSelf ==
    ASSUME SelectionFacts, NEW list \in Seq(Fallbacks), NEW master \in Ids
    PROVE  /\ Stored(master, list) \in Seq(Fallbacks)
           /\ \A k \in DOMAIN Stored(master, list) : Stored(master, list)[k].child # master
<1> DEFINE m == [i \in DOMAIN list |-> [list[i] EXCEPT !.child = IF @ = master THEN 0 ELSE @]]
           I == {i \in DOMAIN m : m[i].child # 0 \/ m[i].dest}
<1>1. ASSUME NEW e \in Fallbacks
      PROVE  /\ [e EXCEPT !.child = IF @ = master THEN 0 ELSE @] \in Fallbacks
             /\ [e EXCEPT !.child = IF @ = master THEN 0 ELSE @].child # master
  BY Zenon DEF Fallbacks, Ids
<1>2. m \in Seq(Fallbacks) /\ \A i \in DOMAIN m : m[i].child # master
  <2>1. DOMAIN list = 1 .. Len(list) /\ Len(list) \in Nat /\ \A i \in DOMAIN list : list[i] \in Fallbacks
    OBVIOUS
  <2>2. /\ DOMAIN m = 1 .. Len(list)
        /\ \A i \in 1 .. Len(list) : m[i] \in Fallbacks /\ m[i].child # master
    BY <1>1, <2>1, Zenon
  <2>3. m = [i \in 1 .. Len(list) |-> m[i]]
    BY <2>1, Zenon
  <2> HIDE DEF m
  <2> QED
    BY <2>1, <2>2, <2>3
<1> HIDE DEF m
<1>3. I \in SUBSET DOMAIN m
  BY Zenon
<1> HIDE DEF I
<1>4. Pick(m, I) \in Seq(Fallbacks) /\ Selected(Pick(m, I), m, I)
  BY <1>2, <1>3, Zenon DEF SelectionFacts
<1>5. Stored(master, list) = Pick(m, I)
  BY Zenon DEF Stored, KeptFallbacks, m, I
<1> QED
  BY <1>2, <1>3, <1>4, <1>5 DEF Selected

-----------------------------------------------------------------------------
(* Every step keeps the invariant.                                         *)

LEMMA OpensFrom ==
    ASSUME NEW row \in NormalInbounds
    PROVE  rawInboundToFormValues(row) \in Inbounds /\ Normal(rawInboundToFormValues(row))
<1>1. row \in Inbounds /\ Normal(row) /\ row.strategy \in Strategies /\ "node" \in Strategies
  BY Zenon DEF NormalInbounds, Inbounds, Strategies
<1>2. rawInboundToFormValues(row) \in Inbounds
  BY <1>1, Puts, Zenon DEF rawInboundToFormValues
<1> QED
  BY <1>1, <1>2, Zenon DEF rawInboundToFormValues, Normal, Inbounds

LEMMA AddValues ==
    ASSUME NEW p \in Ports
    PROVE  buildAddModeValues(p) \in Inbounds /\ buildAddModeValues(p).tag = NoTag
<1>1. p \in Nat /\ NoClients \in Clients /\ NoTag \in Tags
  BY WorldsAssumption, NoTagType, Zenon DEF Clients
<1>2. /\ "vless" \in Protocols /\ "tcp" \in Networks /\ "none" \in Securities /\ "node" \in Strategies
      /\ {} \in SUBSET Transports
  BY Zenon DEF Protocols, Networks, Securities, Strategies
<1> QED
  BY <1>1, <1>2, Zenon DEF buildAddModeValues, Inbounds

LEMMA InitInv ==
    ASSUME SelectionFacts, Init
    PROVE  IInv
<1>1. world \in Worlds
  BY Zenon DEF Init
<1>2. world.rows \in Seq(Inbounds) /\ world.lists \in Seq(Seq(Fallbacks))
  BY <1>1, WorldsAssumption, Zenon
<1>3. IsTable(rows)
  <2>1. rows \in Seq(Inbounds) /\ Len(rows) \in Nat /\ DOMAIN rows = 1 .. Len(rows)
    BY <1>2 DEF Init
  <2>2. \A i \in DOMAIN rows : rows[i] \in Inbounds /\ Normal(rows[i])
    BY <1>1, <2>1, WorldsAssumption, NormalizeNormal DEF Init
  <2>3. IsFiniteSet(DOMAIN rows)
    BY <2>1, Zenon DEF SelectionFacts
  <2> QED
    BY <2>1, <2>2, <2>3 DEF IsTable, NormalInbounds, Ids
<1>4. TableInv /\ PageInv
  BY <1>2, <1>3 DEF Init, TableInv, PageInv, Ids
<1>5. FormInv
  <2>1. PICK p \in Ports : vals = buildAddModeValues(p)
    BY Zenon DEF Init
  <2>2. vals \in Inbounds /\ vals.tag = NoTag
    BY <2>1, AddValues, Zenon
  <2>3. base \in Bases /\ base.row = vals /\ base.id = 0
    BY <2>2, Zenon DEF Init, Bases
  <2>4. form \in [open : BOOLEAN, mode : {"add", "edit"}, id : Nat] /\ form.mode = "add" /\ form.id = 0
    BY Zenon DEF Init
  <2>5. tagging \in [auto : BOOLEAN, last : Tags]
    BY NoTagType, Zenon DEF Init
  <2> QED
    BY <2>2, <2>3, <2>4, <2>5, Zenon DEF FormInv, FromBase, TagFrom
<1>6. ListsInv
  <2>1. lists \in Seq(Seq(Fallbacks)) /\ fbs = <<>> /\ loads = <<>>
    BY <1>2, Zenon DEF Init
  <2>2. NoSelfFallback
    BY <1>1, WorldsAssumption, Zenon DEF Init, NoSelfFallback
  <2> QED
    BY <2>1, <2>2 DEF ListsInv
<1>7. CloneInv
  BY DEF Init, NoClone, CloneInv
<1>8. ReqInv /\ LoopInv
  BY Zenon DEF Init, ReqInv, LoopInv
<1> QED
  BY <1>1, <1>4, <1>5, <1>6, <1>7, <1>8, Zenon DEF IInv

LEMMA PageSteps ==
    ASSUME IInv,
           \/ \E key \in {"edit", "clone"}, i \in DOMAIN cache : onRowAction(key, i)
           \/ \E i \in DOMAIN hyd : ServeInbound(i) \/ InboundLost(i)
           \/ Refetch
    PROVE  IInv'
<1>0. TableInv /\ PageInv /\ hyd \in Seq(Hydrations)
  BY Zenon DEF IInv, PageInv
<1>1. ASSUME NEW key \in {"edit", "clone"}, NEW i \in DOMAIN cache, onRowAction(key, i) PROVE IInv'
  <2>1. [key |-> key, id |-> i, shown |-> cache[i], step |-> "sent"] \in Hydrations
    BY <1>0, Zenon DEF PageInv, IsTable, Hydrations
  <2>2. hyd' \in Seq(Hydrations)
    BY <1>0, <1>1, <2>1 DEF onRowAction
  <2> QED
    BY <1>1, <2>2, Kept, CallsKept, Zenon DEF onRowAction, serverVars, formVars, IInv
<1>2. ASSUME NEW i \in DOMAIN hyd, ServeInbound(i) PROVE IInv'
  <2> DEFINE known == hyd[i].id \in DOMAIN rows
             s == IF known THEN "ok" ELSE "failed"
             h == [hyd[i] EXCEPT !.step = s, !.shown = IF known THEN rows[hyd[i].id] ELSE @]
  <2>1. hyd[i] \in Hydrations
    BY <1>0
  <2>2. h \in Hydrations
    <3>1. known => rows[hyd[i].id] \in NormalInbounds
      BY <1>0, Zenon DEF TableInv, IsTable
    <3> QED
      BY <2>1, <3>1, Zenon DEF Hydrations
  <2>3. hyd' = [hyd EXCEPT ![i] = h]
    BY <1>0, <1>2, <2>1, Zenon DEF ServeInbound
  <2> HIDE DEF h
  <2>4. hyd' \in Seq(Hydrations)
    BY <1>0, <2>2, <2>3, SeqPut, Zenon
  <2> QED
    BY <1>2, <2>4, Kept, CallsKept, Zenon DEF ServeInbound, serverVars, formVars, IInv
<1>3. ASSUME NEW i \in DOMAIN hyd, InboundLost(i) PROVE IInv'
  <2>1. hyd[i] \in Hydrations
    BY <1>0
  <2>2. [hyd[i] EXCEPT !.step = "failed"] \in Hydrations
    BY <2>1, Zenon DEF Hydrations
  <2>3. hyd' \in Seq(Hydrations)
    BY <1>0, <1>3, <2>2, SeqPut, Zenon DEF InboundLost
  <2> QED
    BY <1>3, <2>3, Kept, CallsKept, Zenon DEF InboundLost, serverVars, formVars, IInv
<1>4. CASE Refetch
  <2>1. PageInv'
    BY <1>0, <1>4, Zenon DEF PageInv, TableInv, Refetch
  <2> QED
    BY <1>4, <2>1, Kept, Zenon DEF Refetch, serverVars, formVars, IInv
<1> QED
  BY <1>1, <1>2, <1>3, <1>4, Zenon

LEMMA OpenSteps ==
    ASSUME IInv, (\E i \in DOMAIN hyd : Hydrated(i)) \/ onAddInbound \/ NodesFetched
    PROVE  IInv'
<1>0. PageInv /\ FormInv /\ CloneInv /\ hyd \in Seq(Hydrations)
  BY Zenon DEF IInv, PageInv
<1>1. ASSUME NEW i \in DOMAIN hyd, Hydrated(i) PROVE IInv'
  <2>0. hyd[i] \in Hydrations
    BY <1>0
  <2>1. hyd[i].id \in Ids /\ hyd[i].shown \in NormalInbounds
    BY <2>0, Zenon DEF Hydrations
  <2>2. PageInv'
    <3>1. hyd' \in Seq(Hydrations)
      BY <1>0, <1>1, WithoutSeq, Zenon DEF Hydrated
    <3>2. IsTable(cache)'
      BY <1>0, <1>1, <2>1, Zenon DEF PageInv, IsTable, Hydrated
    <3> QED
      BY <3>1, <3>2, Zenon DEF PageInv
  <2>3. CASE confirmClone(hyd[i].shown)
    <3>1. CloneInv' /\ clone'.todo = clone.todo
      BY <1>0, <2>1, <2>3, Zenon DEF CloneInv, confirmClone
    <3> QED
      BY <1>1, <2>2, <2>3, <3>1, Kept, Zenon DEF Hydrated, confirmClone, serverVars, formVars, IInv
  <2>4. CASE OpenForm("edit", hyd[i].id, rawInboundToFormValues(hyd[i].shown)) /\ UNCHANGED clone
    <3>1. hyd[i].id \in Nat /\ hyd[i].id # 0
      BY <2>1, Zenon DEF Ids
    <3>2. FormInv'
      BY <2>1, <2>4, <3>1, OpensFrom, OpenKeeps, Zenon
    <3>3. ListsInv'
      BY <1>1, <2>4, <3>1, LoadKeeps, Zenon DEF OpenForm, Hydrated, serverVars
    <3> QED
      BY <1>1, <2>2, <2>4, <3>2, <3>3, Kept, Zenon DEF Hydrated, serverVars, IInv
  <2> QED
    BY <1>1, <2>3, <2>4, Zenon DEF Hydrated
<1>2. CASE onAddInbound
  <2>1. PICK p \in Ports : OpenForm("add", 0, buildAddModeValues(p))
    BY <1>2, Zenon DEF onAddInbound
  <2>2. FormInv'
    BY <2>1, AddValues, OpenKeeps, Zenon
  <2>3. ListsInv'
    BY <1>2, <2>1, LoadKeeps, Zenon DEF OpenForm, onAddInbound, serverVars
  <2> QED
    BY <1>2, <2>2, <2>3, Kept, Zenon DEF onAddInbound, serverVars, IInv
<1>3. CASE NodesFetched
  <2>1. vals \in Inbounds /\ "listen" \in Strategies
    BY <1>0, Zenon DEF FormInv, Strategies
  <2>2. vals' \in Inbounds /\ SameFields(vals', vals) /\ vals'.tag = vals.tag
    <3>1. [vals EXCEPT !.strategy = "listen"] \in Inbounds
      BY <2>1, Puts, Zenon
    <3>2. LET w == [vals EXCEPT !.strategy = "listen"] IN SameFields(w, vals) /\ w.tag = vals.tag
      BY <2>1, Zenon DEF Inbounds, SameFields
    <3>3. vals' \in {vals, [vals EXCEPT !.strategy = "listen"]}
      BY <1>3, Zenon DEF NodesFetched
    <3> QED
      BY <2>1, <3>1, <3>2, <3>3, Zenon DEF SameFields
  <2>3. composeInboundTag(vals') = composeInboundTag(vals)
    BY <2>2, SameCompose, Zenon
  <2>4. FormInv'
    BY <1>0, <1>3, <2>2, <2>3 DEF NodesFetched, FormInv, FromBase, TagFrom, SameFields, Normal
  <2> QED
    BY <1>3, <2>4, Kept, Zenon DEF NodesFetched, serverVars, IInv
<1> QED
  BY <1>1, <1>2, <1>3, Zenon

LEMMA EditSteps ==
    ASSUME IInv,
           \/ TypePort \/ TypeTag \/ PickNode \/ PickStrategy \/ onNetworkChange \/ ToggleUdp
           \/ PickProtocol \/ Cancel
    PROVE  IInv'
<1>0. /\ FormInv /\ vals \in Inbounds /\ base \in Bases /\ FromBase(vals, base)
      /\ form.mode = "edit" => Normal(vals)
  BY Zenon DEF IInv, FormInv
<1>1. ASSUME NEW kind, NEW fields, NEW v, Edit(kind, fields, v), FormInv' PROVE IInv'
  BY <1>1, Kept, Zenon DEF Edit, serverVars, IInv
<1>2. ASSUME NEW fields \in SUBSET Fields
      PROVE  /\ [base EXCEPT !.touched = @ \cup fields].touched = base.touched \cup fields
             /\ [base EXCEPT !.touched = @ \cup fields].row = base.row
  BY <1>0, Zenon DEF Bases
<1>3. CASE TypePort
  <2>1. PICK p \in Ports : Edit("port", {"port"}, [vals EXCEPT !.port = p])
    BY <1>3, Zenon DEF TypePort
  <2> DEFINE v == [vals EXCEPT !.port = p]
  <2>2. p \in Nat /\ {"port"} \in SUBSET Fields
    BY WorldsAssumption, Zenon DEF Fields
  <2>3. v \in Inbounds
    BY <1>0, <2>2, Puts, Zenon
  <2>4. /\ v.protocol = vals.protocol /\ v.node = vals.node /\ v.network = vals.network /\ v.l4 = vals.l4
        /\ v.security = vals.security /\ v.tag = vals.tag
    BY <1>0, Zenon DEF Inbounds
  <2> HIDE DEF v
  <2>5. /\ FromBase(v, [base EXCEPT !.touched = @ \cup {"port"}])
        /\ form.mode = "edit" => Normal(v)
    BY <1>0, <1>2, <2>2, <2>4, Zenon DEF FromBase, Normal
  <2>6. FormInv'
    BY <2>1, <2>2, <2>3, <2>4, <2>5, EditKeeps, Zenon DEF v
  <2> QED
    BY <1>1, <2>1, <2>6, Zenon
<1>4. CASE TypeTag
  <2>1. PICK t \in CustomTags : Edit("tag", {"tag"}, [vals EXCEPT !.tag = t])
    BY <1>4, Zenon DEF TypeTag
  <2> DEFINE v == [vals EXCEPT !.tag = t]
  <2>2. t \in Tags /\ {"tag"} \in SUBSET Fields
    BY WorldsAssumption, Zenon DEF Fields
  <2>3. v \in Inbounds
    BY <1>0, <2>2, Puts, Zenon
  <2>4. SameFields(v, vals) /\ v.tag \in CustomTags /\ v.node = vals.node
    BY <1>0, Zenon DEF Inbounds, SameFields
  <2> HIDE DEF v
  <2>5. /\ FromBase(v, [base EXCEPT !.touched = @ \cup {"tag"}])
        /\ form.mode = "edit" => Normal(v)
    BY <1>0, <1>2, <2>2, <2>4, Zenon DEF FromBase, Normal, SameFields
  <2>6. FormInv'
    BY <2>1, <2>2, <2>3, <2>4, <2>5, EditKeeps, Zenon DEF v
  <2> QED
    BY <1>1, <2>1, <2>6, Zenon
<1>5. CASE PickNode
  <2>1. PICK n \in world.nodes \cup {0} : Edit("node", {"node"}, [vals EXCEPT !.node = n])
    BY <1>5, Zenon DEF PickNode
  <2> DEFINE v == [vals EXCEPT !.node = n]
  <2>2. n \in Nat /\ {"node"} \in SUBSET Fields /\ form.mode # "edit"
    BY <1>5, WorldsAssumption DEF Fields, IInv, PickNode
  <2>3. v \in Inbounds
    BY <1>0, <2>2, Puts, Zenon
  <2>4. /\ v.protocol = vals.protocol /\ v.port = vals.port /\ v.network = vals.network /\ v.l4 = vals.l4
        /\ v.security = vals.security /\ v.tag = vals.tag
    BY <1>0, Zenon DEF Inbounds
  <2> HIDE DEF v
  <2>5. FromBase(v, [base EXCEPT !.touched = @ \cup {"node"}])
    BY <1>0, <1>2, <2>2, <2>4, Zenon DEF FromBase
  <2>6. FormInv'
    BY <2>1, <2>2, <2>3, <2>4, <2>5, EditKeeps, Zenon DEF v
  <2> QED
    BY <1>1, <2>1, <2>6, Zenon
<1>6. CASE PickStrategy
  <2>1. PICK s \in Strategies :
           Edit("strategy", {"strategy", "addr"}, [vals EXCEPT !.strategy = s, !.addr = (s = "custom")])
    BY <1>6, Zenon DEF PickStrategy, Strategies
  <2> DEFINE u == [vals EXCEPT !.strategy = s]
             v == [u EXCEPT !.addr = (s = "custom")]
  <2>2. (s = "custom") \in BOOLEAN /\ {"strategy", "addr"} \in SUBSET Fields
    BY Zenon DEF Fields
  <2>3. u \in Inbounds
    BY <1>0, Puts, Zenon
  <2>4. v \in Inbounds
    BY <2>2, <2>3, Puts, Zenon
  <2>5. SameFields(v, vals) /\ v.tag = vals.tag /\ v.node = vals.node
    BY <1>0, Zenon DEF Inbounds, SameFields
  <2>6. Edit("strategy", {"strategy", "addr"}, v)
    BY <2>1, Zenon
  <2> HIDE DEF v
  <2>7. /\ FromBase(v, [base EXCEPT !.touched = @ \cup {"strategy", "addr"}])
        /\ form.mode = "edit" => Normal(v)
    BY <1>0, <1>2, <2>2, <2>5, Zenon DEF FromBase, Normal, SameFields
  <2>8. FormInv'
    BY <2>2, <2>4, <2>5, <2>6, <2>7, EditKeeps, Zenon
  <2> QED
    BY <1>1, <2>6, <2>8, Zenon
<1>7. CASE onNetworkChange
  <2>1. PICK n \in Networks : Edit("network", {"network"}, [vals EXCEPT !.network = n])
    BY <1>7, Zenon DEF onNetworkChange, Networks
  <2> DEFINE v == [vals EXCEPT !.network = n]
  <2>2. {"network"} \in SUBSET Fields /\ vals.protocol \notin {"mixed", "mtproto"}
    BY <1>7, Zenon DEF Fields, onNetworkChange
  <2>3. v \in Inbounds
    BY <1>0, Puts, Zenon
  <2>4. /\ v.protocol = vals.protocol /\ v.port = vals.port /\ v.node = vals.node /\ v.l4 = vals.l4
        /\ v.security = vals.security /\ v.tag = vals.tag
    BY <1>0, Zenon DEF Inbounds
  <2> HIDE DEF v
  <2>5. /\ FromBase(v, [base EXCEPT !.touched = @ \cup {"network"}])
        /\ form.mode = "edit" => Normal(v)
    BY <1>0, <1>2, <2>2, <2>4, Zenon DEF FromBase, Normal
  <2>6. FormInv'
    BY <2>1, <2>2, <2>3, <2>4, <2>5, EditKeeps, Zenon DEF v
  <2> QED
    BY <1>1, <2>1, <2>6, Zenon
<1>8. CASE ToggleUdp
  <2> DEFINE v == [vals EXCEPT !.l4 = {"udp"} \ @]
  <2>1. Edit("udp", {"l4"}, v)
    BY <1>8, Zenon DEF ToggleUdp
  <2>2. {"l4"} \in SUBSET Fields /\ {"udp"} \ vals.l4 \in SUBSET Transports
    BY Zenon DEF Fields, Transports
  <2>3. v \in Inbounds
    BY <1>0, <2>2, Puts, Zenon
  <2>4. /\ v.protocol = vals.protocol /\ v.port = vals.port /\ v.node = vals.node
        /\ v.network = vals.network /\ v.security = vals.security /\ v.tag = vals.tag
    BY <1>0, Zenon DEF Inbounds
  <2> HIDE DEF v
  <2>5. /\ FromBase(v, [base EXCEPT !.touched = @ \cup {"l4"}])
        /\ form.mode = "edit" => Normal(v)
    BY <1>0, <1>2, <2>2, <2>4, Zenon DEF FromBase, Normal
  <2>6. FormInv'
    BY <2>1, <2>2, <2>3, <2>4, <2>5, EditKeeps, Zenon
  <2> QED
    BY <1>1, <2>1, <2>6, Zenon
<1>9. CASE PickProtocol
  <2> DEFINE fields == {"protocol", "node", "network", "security", "l4"}
  <2>1. PICK p \in Protocols, m \in Nat, n \in Networks, s \in Securities :
           Edit("protocol", fields,
                [vals EXCEPT !.protocol = p, !.l4 = {}, !.node = m, !.network = n, !.security = s])
    <3>1. vals.node \in Nat /\ vals.network \in Networks /\ vals.security \in Securities
      BY <1>0, Zenon DEF Inbounds
    <3>2. "unset" \in Networks /\ "tcp" \in Networks /\ "none" \in Securities
      BY Zenon DEF Networks, Securities
    <3>3. PROTOCOL_OPTIONS \subseteq Protocols
      BY Zenon DEF PROTOCOL_OPTIONS, Protocols
    <3>4. PICK p \in PROTOCOL_OPTIONS :
            Edit("protocol", fields,
                 [vals EXCEPT !.protocol = p,
                              !.l4 = {},
                              !.node = IF p \in NODE_ELIGIBLE_PROTOCOLS THEN @ ELSE 0,
                              !.network = IF p = "wireguard" THEN "unset"
                                          ELSE IF @ \in {"unset", "hysteria"} THEN "tcp" ELSE @,
                              !.security = IF p = "wireguard" \/ vals.network \in {"unset", "hysteria"}
                                           THEN "none" ELSE @])
      BY <1>9, Zenon DEF PickProtocol
    <3> QED
      BY <1>0, <3>1, <3>2, <3>3, <3>4, Zenon DEF Inbounds
  <2> DEFINE a == [vals EXCEPT !.protocol = p]
             b == [a EXCEPT !.l4 = {}]
             c == [b EXCEPT !.node = m]
             d == [c EXCEPT !.network = n]
             v == [d EXCEPT !.security = s]
  <2>2. fields \in SUBSET Fields /\ {} \in SUBSET Transports /\ form.mode # "edit"
    BY <1>9, Zenon DEF Fields, PickProtocol
  <2>3. a \in Inbounds
    BY <1>0, Puts, Zenon
  <2>4. b \in Inbounds
    BY <2>2, <2>3, Puts, Zenon
  <2>5. c \in Inbounds
    BY <2>4, Puts, Zenon
  <2>6. d \in Inbounds
    BY <2>5, Puts, Zenon
  <2>7. v \in Inbounds
    BY <2>6, Puts, Zenon
  <2>8. v.port = vals.port /\ v.tag = vals.tag
    BY <1>0, Zenon DEF Inbounds
  <2>9. Edit("protocol", fields, v)
    BY <2>1, Zenon
  <2> HIDE DEF v
  <2>10. FromBase(v, [base EXCEPT !.touched = @ \cup fields])
    BY <1>0, <1>2, <2>2, <2>8, Zenon DEF FromBase
  <2>11. FormInv'
    BY <2>2, <2>7, <2>8, <2>9, <2>10, EditKeeps, Zenon
  <2> QED
    BY <1>1, <2>9, <2>11, Zenon
<1>10. CASE Cancel
  <2>1. FormInv'
    BY <1>0, <1>10, Zenon DEF Cancel, FormInv
  <2> QED
    BY <1>10, <2>1, Kept, Zenon DEF Cancel, serverVars, IInv
<1> QED
  BY <1>3, <1>4, <1>5, <1>6, <1>7, <1>8, <1>9, <1>10, Zenon

LEMMA FallbackSteps ==
    ASSUME SelectionFacts, IInv,
           \/ \E i \in DOMAIN loads : ServeFallbackList(i) \/ FallbacksLoaded(i) \/ FallbacksNotLoaded(i)
           \/ addFallback \/ updateFallback \/ typeDest \/ removeFallback \/ moveFallback \/ addAllFallbacks
    PROVE  IInv'
<1>0. /\ fbs \in Seq(Fallbacks) /\ loads \in Seq(Loads) /\ <<>> \in Seq(Fallbacks)
      /\ \A i \in DOMAIN lists : lists[i] \in Seq(Fallbacks)
  BY DEF IInv, ListsInv
<1>1. ASSUME NEW i \in DOMAIN loads, ServeFallbackList(i) PROVE IInv'
  <2> DEFINE list == IF loads[i].id \in DOMAIN lists THEN lists[loads[i].id] ELSE <<>>
             a == [loads[i] EXCEPT !.step = "ok"]
             b == [a EXCEPT !.list = list]
  <2>1. loads[i] \in Loads /\ list \in Seq(Fallbacks)
    BY <1>0
  <2> HIDE DEF list
  <2>2. b \in Loads
    BY <2>1, Zenon DEF Loads
  <2>3. loads' = [loads EXCEPT ![i] = b]
    BY <1>0, <1>1, Zenon DEF ServeFallbackList, list
  <2> HIDE DEF b
  <2>4. loads' \in Seq(Loads)
    BY <1>0, <2>2, <2>3, SeqPut, Zenon
  <2>5. ListsInv'
    BY <1>0, <1>1, <2>4, SideKept, Zenon DEF ServeFallbackList, serverVars
  <2> QED
    BY <1>1, <2>5, Kept, Zenon DEF ServeFallbackList, serverVars, formVars, IInv
<1>2. ASSUME NEW i \in DOMAIN loads, FallbacksLoaded(i) PROVE IInv'
  <2>1. loads[i] \in Loads
    BY <1>0
  <2>2. loads[i].list \in Seq(Fallbacks)
    BY <2>1, Zenon DEF Loads
  <2>3. fbs' \in Seq(Fallbacks) /\ loads' \in Seq(Loads)
    BY <1>0, <1>2, <2>2, WithoutSeq, Zenon DEF FallbacksLoaded
  <2>4. ListsInv'
    BY <1>2, <2>3, SideKept, Zenon DEF FallbacksLoaded, serverVars
  <2> QED
    BY <1>2, <2>4, Kept, Zenon DEF FallbacksLoaded, serverVars, formVars, IInv
<1>3. ASSUME NEW i \in DOMAIN loads, FallbacksNotLoaded(i) PROVE IInv'
  <2>1. fbs' \in Seq(Fallbacks) /\ loads' \in Seq(Loads)
    BY <1>0, <1>3, WithoutSeq, Zenon DEF FallbacksNotLoaded
  <2>2. ListsInv'
    BY <1>3, <2>1, SideKept, Zenon DEF FallbacksNotLoaded, serverVars
  <2> QED
    BY <1>3, <2>2, Kept, Zenon DEF FallbacksNotLoaded, serverVars, formVars, IInv
<1>4. ASSUME NEW new \in Seq(Fallbacks), EditFallbacks(new) PROVE IInv'
  <2>1. fbs' \in Seq(Fallbacks) /\ loads' \in Seq(Loads)
    BY <1>0, <1>4, Zenon DEF EditFallbacks
  <2>2. ListsInv'
    BY <1>4, <2>1, SideKept, Zenon DEF EditFallbacks, serverVars
  <2> QED
    BY <1>4, <2>2, Kept, Zenon DEF EditFallbacks, serverVars, formVars, IInv
<1>5. CASE addFallback
  <2>1. EmptyFallback \in Fallbacks
    BY Zenon DEF EmptyFallback, Fallbacks
  <2>2. Append(fbs, EmptyFallback) \in Seq(Fallbacks)
    BY <1>0, <2>1
  <2> QED
    BY <1>4, <1>5, <2>2, Zenon DEF addFallback
<1>6. IsTable(cache) /\ \A c \in ChildOptions : c \in Nat /\ deriveFallbackDefaults(c) \in Nat
  <2>1. IsTable(cache)
    BY Zenon DEF IInv, PageInv
  <2> QED
    BY <2>1, Zenon DEF IsTable, ChildOptions, deriveFallbackDefaults, Ids
<1>7. ASSUME NEW i \in DOMAIN fbs, NEW e \in Fallbacks, EditFallbacks([fbs EXCEPT ![i] = e]) PROVE IInv'
  <2>1. [fbs EXCEPT ![i] = e] \in Seq(Fallbacks)
    BY <1>0, SeqPut, Zenon
  <2> QED
    BY <1>4, <1>7, <2>1, Zenon
<1>8. CASE updateFallback
  <2>0. PICK i \in DOMAIN fbs, child \in ChildOptions \cup {0} : \E match :
           /\ match = fbs[i].match \/ (child # 0 /\ match = deriveFallbackDefaults(child))
           /\ EditFallbacks([fbs EXCEPT ![i].child = child, ![i].match = match])
    <3>0. PICK i \in DOMAIN fbs : \E child \in (ChildOptions \cup {0}) \ {fbs[i].child} :
             LET untouched == child # 0 /\ fbs[i].match = 0 /\ ~fbs[i].dest
             IN EditFallbacks([fbs EXCEPT ![i].child = child,
                                          ![i].match = IF untouched THEN deriveFallbackDefaults(child) ELSE @])
      BY <1>8, Zenon DEF updateFallback
    <3>1. PICK child \in (ChildOptions \cup {0}) \ {fbs[i].child} :
             LET untouched == child # 0 /\ fbs[i].match = 0 /\ ~fbs[i].dest
             IN EditFallbacks([fbs EXCEPT ![i].child = child,
                                          ![i].match = IF untouched THEN deriveFallbackDefaults(child) ELSE @])
      BY <3>0, Zenon
    <3> DEFINE untouched == child # 0 /\ fbs[i].match = 0 /\ ~fbs[i].dest
               m == IF untouched THEN deriveFallbackDefaults(child)
                    ELSE [fbs EXCEPT ![i].child = child][i].match
    <3>2. fbs[i] \in Fallbacks
      BY <1>0
    <3>3. [fbs EXCEPT ![i].child = child][i].match = fbs[i].match
      BY <1>0, <3>2, Zenon DEF Fallbacks
    <3>4. m = fbs[i].match \/ (child # 0 /\ m = deriveFallbackDefaults(child))
      <4>1. CASE untouched
        BY <4>1, Zenon
      <4>2. CASE ~untouched
        <5>1. m = [fbs EXCEPT ![i].child = child][i].match
          BY <4>2, Zenon
        <5> HIDE DEF m
        <5> QED
          BY <3>3, <5>1, Zenon
      <4> QED
        BY <4>1, <4>2, Zenon
    <3>5. EditFallbacks([fbs EXCEPT ![i].child = child, ![i].match = m])
      BY <3>1, Zenon
    <3> HIDE DEF m
    <3> QED
      BY <3>4, <3>5, Zenon
  <2>1. PICK match :
           /\ match = fbs[i].match \/ (child # 0 /\ match = deriveFallbackDefaults(child))
           /\ EditFallbacks([fbs EXCEPT ![i].child = child, ![i].match = match])
    BY <2>0, Zenon
  <2> DEFINE a == [fbs[i] EXCEPT !.child = child]
             b == [a EXCEPT !.match = match]
  <2>2. fbs[i] \in Fallbacks
    BY <1>0
  <2>3. child \in Nat /\ match \in Nat
    BY <1>6, <2>1, <2>2 DEF Fallbacks
  <2>4. b \in Fallbacks
    BY <2>2, <2>3, Zenon DEF Fallbacks
  <2>5. [fbs EXCEPT ![i].child = child, ![i].match = match] = [fbs EXCEPT ![i] = b]
    BY <1>0, Zenon
  <2> HIDE DEF b
  <2> QED
    BY <1>7, <2>1, <2>4, <2>5, Zenon
<1>9. CASE typeDest
  <2>1. PICK i \in DOMAIN fbs : EditFallbacks([fbs EXCEPT ![i].dest = TRUE])
    BY <1>9, Zenon DEF typeDest
  <2>2. fbs[i] \in Fallbacks
    BY <1>0
  <2>3. [fbs[i] EXCEPT !.dest = TRUE] \in Fallbacks
    BY <2>2, Zenon DEF Fallbacks
  <2> QED
    BY <1>7, <2>1, <2>3, Zenon
<1>10. CASE removeFallback
  <2>1. \A i \in DOMAIN fbs : Without(fbs, i) \in Seq(Fallbacks)
    BY <1>0, WithoutSeq, Zenon
  <2> QED
    BY <1>4, <1>10, <2>1, Zenon DEF removeFallback
<1>11. CASE moveFallback
  <2>1. PICK i \in 1 .. Len(fbs) - 1 : EditFallbacks([fbs EXCEPT ![i] = fbs[i + 1], ![i + 1] = fbs[i]])
    BY <1>11, Zenon DEF moveFallback
  <2>2. fbs[i] \in Fallbacks /\ fbs[i + 1] \in Fallbacks
    BY <1>0
  <2>3. [fbs EXCEPT ![i] = fbs[i + 1]] \in Seq(Fallbacks)
    BY <1>0, <2>2, SeqPut, Zenon
  <2>4. [fbs EXCEPT ![i] = fbs[i + 1], ![i + 1] = fbs[i]] \in Seq(Fallbacks)
    BY <2>2, <2>3, SeqPut, Zenon
  <2> QED
    BY <1>4, <2>1, <2>4, Zenon
<1>12. CASE addAllFallbacks
  <2> DEFINE missing == ChildOptions \ {fbs[i].child : i \in DOMAIN fbs}
             row(c) == [child |-> c, match |-> deriveFallbackDefaults(c), dest |-> FALSE]
             new == [k \in 1 .. Cardinality(missing) |-> row(Nth(missing, k))]
  <2>1. missing \subseteq DOMAIN cache /\ missing \subseteq ChildOptions
    BY Zenon DEF ChildOptions
  <2>2. missing \subseteq Nat /\ IsFiniteSet(missing)
    <3>1. IsFiniteSet(DOMAIN cache) /\ DOMAIN cache \subseteq Nat
      BY <1>6, Zenon DEF IsTable, Ids
    <3> HIDE DEF missing
    <3>2. IsFiniteSet(missing)
      BY <2>1, <3>1, Zenon DEF SelectionFacts
    <3> QED
      BY <2>1, <3>1, <3>2, Zenon
  <2> HIDE DEF missing
  <2>3. Ranked(missing)
    BY <2>2, Zenon DEF SelectionFacts
  <2>4. /\ Cardinality(missing) \in Nat
        /\ \A k \in 1 .. Cardinality(missing) : row(Nth(missing, k)) \in Fallbacks
    BY <1>6, <2>1, <2>3, Zenon DEF Ranked, Fallbacks
  <2> HIDE DEF row
  <2>5. new \in Seq(Fallbacks)
    BY <2>4
  <2> HIDE DEF new
  <2>6. fbs \o new \in Seq(Fallbacks)
    BY <1>0, <2>5
  <2>7. EditFallbacks(fbs \o new)
    BY <1>12, Zenon DEF addAllFallbacks, missing, row, new
  <2> QED
    BY <1>4, <2>6, <2>7, Zenon
<1> QED
  BY <1>1, <1>2, <1>3, <1>5, <1>8, <1>9, <1>10, <1>11, <1>12, Zenon

\* The form sends what it shows.
LEMMA SentSound ==
    ASSUME SelectionFacts, IInv
    PROVE  Sound([step |-> "sent", op |-> IF form.mode = "edit" THEN "update" ELSE "add", id |-> form.id,
                  v |-> formValuesToWirePayload(vals, form.mode = "edit"), old |-> vals,
                  host |-> isFallbackHost, fbs |-> KeptFallbacks(fbs), base |-> base])
<1> DEFINE op == IF form.mode = "edit" THEN "update" ELSE "add"
           v == formValuesToWirePayload(vals, form.mode = "edit")
           r == [step |-> "sent", op |-> op, id |-> form.id, v |-> v, old |-> vals,
                 host |-> isFallbackHost, fbs |-> KeptFallbacks(fbs), base |-> base]
<1>1. FormInv /\ vals \in Inbounds /\ base \in Bases /\ form.mode \in {"add", "edit"} /\ form.id \in Nat
  BY Zenon DEF IInv, FormInv
<1>2. KeptFallbacks(fbs) \in Seq(Fallbacks)
  BY FallbacksKept, Zenon DEF IInv, ListsInv
<1>3. v \in Inbounds /\ SameFields(v, vals) /\ v.tag = vals.tag /\ (form.mode = "add" => v = vals)
  <2>1. [vals EXCEPT !.clients = NoClients] \in Inbounds
    <3>1. NoClients \in Clients
      BY Zenon DEF Clients
    <3> QED
      BY <1>1, <3>1, Puts, Zenon
  <2> QED
    BY <1>1, <2>1, Zenon DEF formValuesToWirePayload, SameFields, Inbounds
<1>4. isFallbackHost \in BOOLEAN /\ "sent" \in Steps /\ op \in {"add", "update"}
  BY Zenon DEF isFallbackHost, Steps
<1> HIDE DEF v, op
<1>5. r \in Requests
  BY <1>1, <1>2, <1>3, <1>4, Zenon DEF Requests
<1>6. /\ r.step = "sent" /\ r.op = op /\ r.id = form.id /\ r.v = v /\ r.old = vals /\ r.base = base
  BY Zenon
<1> HIDE DEF r
<1>7. composeInboundTag(v) = composeInboundTag(vals)
  BY <1>3, SameCompose, Zenon
<1>8. CASE form.mode = "edit"
  <2>1. op = "update"
    BY <1>8, Zenon DEF op
  <2>2. FromBase(v, base) /\ Normal(v) /\ v.node = base.row.node /\ TagFrom(v, base.row.tag)
    BY <1>1, <1>3, <1>7, <1>8, Zenon DEF FormInv, FromBase, Normal, TagFrom, SameFields
  <2>3. form.id # 0 /\ base.id = form.id
    BY <1>1, <1>8, Zenon DEF FormInv
  <2>4. UpdateInv(r)
    BY <1>6, <2>2, <2>3, Zenon DEF UpdateInv
  <2> QED
    BY <1>5, <1>6, <2>1, <2>4, Zenon DEF Sound, r, op, v
<1>9. CASE form.mode = "add"
  <2>1. op = "add"
    BY <1>9, Zenon DEF op
  <2>2. TagFrom(v, NoTag)
    BY <1>1, <1>3, <1>9, Zenon DEF FormInv, TagFrom
  <2>3. AddInv(r)
    BY <1>3, <1>6, <1>9, <2>2, Zenon DEF AddInv
  <2> QED
    BY <1>5, <1>6, <2>1, <2>3, Zenon DEF Sound, r, op, v
<1> QED
  BY <1>1, <1>8, <1>9, Zenon

\* A table with one entry put.
LEMMA PutAt ==
    ASSUME NEW t, NEW i, NEW x, NEW u, u = [j \in DOMAIN t \cup {i} |-> IF j = i THEN x ELSE t[j]]
    PROVE  \A j \in DOMAIN u : \/ j = i /\ u[j] = x
                               \/ j \in DOMAIN t /\ u[j] = t[j]
BY Zenon

LEMMA SaveSteps ==
    ASSUME SelectionFacts, IInv, saveValues \/ Saved \/ NotSaved \/ SetByMaster \/ FallbacksAnswered
    PROVE  IInv'
<1>0. FormInv /\ form \in [open : BOOLEAN, mode : {"add", "edit"}, id : Nat]
  BY Zenon DEF IInv, FormInv
<1>1. ASSUME NEW x, x = NoReq \/ Sound(x), req' = [req EXCEPT !["form"] = x] PROVE ReqInv' /\ req'["clone"] = req["clone"]
  BY <1>1, ReqPut, Zenon
<1>2. CloseForm /\ UNCHANGED <<vals, tagging, base>> => FormInv'
  BY <1>0, Zenon DEF CloseForm, FormInv
<1>3. CASE saveValues
  <2>1. ReqInv' /\ req'["clone"] = req["clone"]
    BY <1>1, <1>3, SentSound, Zenon DEF saveValues
  <2> QED
    BY <1>3, <2>1, Kept, Zenon DEF saveValues, serverVars, formVars, IInv
<1>4. CASE Saved
  <2>1. Sound(req["form"]) /\ req["form"].step = "ok"
    BY <1>4, UnderWay, Zenon DEF Saved, Steps
  <2>2. Sound([req["form"] EXCEPT !.step = "fallbacks"])
    BY <2>1, StepSet, Zenon DEF Steps
  <2>3. ReqInv' /\ req'["clone"] = req["clone"]
    BY <1>1, <1>4, <2>2, Zenon DEF Saved
  <2>4. FormInv'
    BY <1>2, <1>4, Kept, Zenon DEF Saved
  <2> QED
    BY <1>4, <2>3, <2>4, Kept, Zenon DEF Saved, serverVars, IInv
<1>5. CASE NotSaved
  <2>1. ReqInv' /\ req'["clone"] = req["clone"]
    BY <1>1, <1>5, Zenon DEF NotSaved
  <2> QED
    BY <1>5, <2>1, Kept, Zenon DEF NotSaved, serverVars, formVars, IInv
<1>6. CASE SetByMaster
  <2> DEFINE r == req["form"]
  <2>1. Sound(r) /\ r.step = "fallbacks"
    BY <1>6, UnderWay, Zenon DEF SetByMaster, Steps
  <2>2. r.id \in Ids /\ r.fbs \in Seq(Fallbacks)
    BY <2>1, ReqTypes, Zenon DEF Sound, UpdateInv, AddInv, Ids
  <2>3. Sound([r EXCEPT !.step = "fallbacksDone"])
    BY <2>1, StepSet, Zenon DEF Steps
  <2>4. ReqInv' /\ req'["clone"] = req["clone"]
    BY <1>1, <1>6, <2>3, Zenon DEF SetByMaster
  <2>5. /\ Stored(r.id, r.fbs) \in Seq(Fallbacks)
        /\ \A k \in DOMAIN Stored(r.id, r.fbs) : Stored(r.id, r.fbs)[k].child # r.id
    BY <2>2, NotSelf, Zenon
  <2>6. lists' = [i \in DOMAIN lists \cup {r.id} |-> IF i = r.id THEN Stored(r.id, r.fbs) ELSE lists[i]]
    BY <1>6, Zenon DEF SetByMaster
  <2>7. ListsInv /\ UNCHANGED <<fbs, loads>>
    BY <1>6, Zenon DEF IInv, SetByMaster
  <2> HIDE DEF r
  <2>8. \A i \in DOMAIN lists' : \/ i = r.id /\ lists'[i] = Stored(r.id, r.fbs)
                                 \/ i \in DOMAIN lists /\ lists'[i] = lists[i]
    BY <2>6, PutAt, Zenon
  <2>9. (\A i \in DOMAIN lists : lists[i] \in Seq(Fallbacks))' /\ NoSelfFallback'
    BY <2>5, <2>7, <2>8, Zenon DEF ListsInv, NoSelfFallback
  <2>10. ListsInv'
    BY <2>7, <2>9, Zenon DEF ListsInv
  <2> QED
    BY <1>6, <2>4, <2>10, Kept, Zenon DEF SetByMaster, formVars, IInv
<1>7. CASE FallbacksAnswered
  <2>1. ReqInv' /\ req'["clone"] = req["clone"]
    BY <1>1, <1>7, Zenon DEF FallbacksAnswered
  <2>2. FormInv'
    BY <1>2, <1>7, Zenon DEF FallbacksAnswered
  <2> QED
    BY <1>7, <2>1, <2>2, Kept, Zenon DEF FallbacksAnswered, serverVars, IInv
<1> QED
  BY <1>3, <1>4, <1>5, <1>6, <1>7, Zenon

\* The clone dialog sends the row for another port and node, without a tag.
LEMMA CloneSent ==
    ASSUME IInv, NEW src \in Inbounds, NEW p \in Nat, NEW n \in Nat
    PROVE  LET v == buildClonePayload(src, p, n)
           IN Sound([step |-> "sent", op |-> "add", id |-> 0, v |-> v, old |-> v,
                     host |-> FALSE, fbs |-> <<>>, base |-> base])
<1> DEFINE a == [src EXCEPT !.port = p]
           b == [a EXCEPT !.node = n]
           c == [b EXCEPT !.tag = NoTag]
           v == [c EXCEPT !.clients = NoClients]
           r == [step |-> "sent", op |-> "add", id |-> 0, v |-> v, old |-> v,
                 host |-> FALSE, fbs |-> <<>>, base |-> base]
<1>1. a \in Inbounds
  BY Puts, Zenon
<1>2. b \in Inbounds
  BY <1>1, Puts, Zenon
<1>3. c \in Inbounds
  BY <1>2, Puts, NoTagType, Zenon
<1>4. v \in Inbounds
  <2>1. NoClients \in Clients
    BY Zenon DEF Clients
  <2> QED
    BY <1>3, <2>1, Puts, Zenon
<1>5. v.tag = NoTag
  BY Zenon DEF Inbounds
<1>6. buildClonePayload(src, p, n) = v
  BY Zenon DEF buildClonePayload
<1> HIDE DEF v
<1>7. /\ "sent" \in Steps /\ "add" \in {"add", "update"} /\ 0 \in Nat /\ FALSE \in BOOLEAN
      /\ <<>> \in Seq(Fallbacks) /\ base \in Bases
  BY DEF Steps, IInv, FormInv
<1>8. r \in Requests
  BY <1>4, <1>7, Zenon DEF Requests
<1>9. Sound(r)
  BY <1>5, <1>8, Zenon DEF Sound, AddInv, TagFrom
<1> QED
  BY <1>6, <1>9, Zenon

LEMMA CloneSteps ==
    ASSUME SelectionFacts, IInv, SubmitClone \/ PostClone \/ CancelClone \/ CloneAnswered
    PROVE  IInv'
<1>0. CloneInv /\ LoopInv
  BY Zenon DEF IInv
<1>1. CASE SubmitClone
  <2>1. PICK targets \in TargetSeqs(clone.row) :
           clone' = [clone EXCEPT !.src = clone.row, !.todo = targets, !.used = cache]
    BY <1>1, Zenon DEF SubmitClone
  <2>2. targets \in Seq(Nat)
    <3>1. CASE targets = <<0>>
      BY <3>1
    <3>2. CASE targets # <<0>>
      <4>1. PICK n \in 1 .. Cardinality(world.nodes) + 1 : targets \in [1 .. n -> world.nodes \cup {0}]
        BY <2>1, <3>2, Zenon DEF TargetSeqs
      <4>2. world.nodes \subseteq Nat /\ IsFiniteSet(world.nodes)
        BY WorldsAssumption, Zenon DEF IInv
      <4>3. Cardinality(world.nodes) \in Nat
        BY <4>2, Zenon DEF SelectionFacts, Ranked
      <4>4. n \in Nat
        BY <4>3
      <4>5. targets \in [1 .. n -> Nat]
        BY <4>1, <4>2
      <4> QED
        BY <4>4, <4>5
    <3> QED
      BY <3>1, <3>2, Zenon
  <2>3. CloneInv'
    BY <1>0, <1>1, <2>1, <2>2, Zenon DEF CloneInv, SubmitClone
  <2>4. LoopInv'
    BY <1>1, Zenon DEF SubmitClone, LoopInv
  <2> QED
    BY <1>1, <2>3, <2>4, Kept, Zenon DEF SubmitClone, serverVars, formVars, IInv
<1>2. CASE PostClone
  <2>1. PICK p \in Nat : req' = [req EXCEPT !["clone"] =
           [step |-> "sent", op |-> "add", id |-> 0, v |-> buildClonePayload(clone.src, p, Head(clone.todo)),
            old |-> buildClonePayload(clone.src, p, Head(clone.todo)),
            host |-> FALSE, fbs |-> <<>>, base |-> base]]
    <3>1. Ports \subseteq Nat /\ \A listed, node : pickClonePort(listed, node) \subseteq Nat
      BY WorldsAssumption, Zenon DEF pickClonePort
    <3> QED
      BY <1>2, <3>1, Zenon DEF PostClone
  <2>2. clone.src \in Inbounds /\ Head(clone.todo) \in Nat /\ clone.todo # <<>>
    BY <1>0, <1>2 DEF CloneInv, PostClone, NormalInbounds
  <2>3. ReqInv'
    BY <2>1, <2>2, CloneSent, ReqPut, Zenon
  <2>4. LoopInv'
    BY <1>2, <2>2, Zenon DEF PostClone, LoopInv
  <2> QED
    BY <1>2, <2>3, <2>4, Kept, Zenon DEF PostClone, serverVars, formVars, IInv
<1>3. CASE CancelClone
  <2>1. CloneInv' /\ clone'.todo = clone.todo
    BY <1>0, <1>3, Zenon DEF CloneInv, CancelClone
  <2> QED
    BY <1>3, <2>1, Kept, Zenon DEF CancelClone, serverVars, formVars, IInv
<1>4. CASE CloneAnswered
  <2>1. ReqInv' /\ req'["clone"] = NoReq
    BY <1>4, ReqPut, Zenon DEF CloneAnswered
  <2>2. clone.todo # <<>>
    BY <1>0, <1>4 DEF LoopInv, CloneAnswered, NoReq
  <2>3. Tail(clone.todo) \in Seq(Nat)
    BY <1>0, <2>2 DEF CloneInv
  <2>4. CloneInv'
    BY <1>0, <1>4, <2>2, <2>3, Zenon DEF CloneInv, CloneAnswered
  <2>5. LoopInv'
    BY <2>1, Zenon DEF LoopInv
  <2> QED
    BY <1>4, <2>1, <2>4, <2>5, Kept, Zenon DEF CloneAnswered, serverVars, formVars, IInv
<1> QED
  BY <1>1, <1>2, <1>3, <1>4, Zenon

LEMMA HandlerSteps ==
    ASSUME SelectionFacts, IInv, NEW c \in {"form", "clone"},
           ReadFirst(c) \/ UpdateTx(c) \/ AddTx(c) \/ AnswerLost(c)
    PROVE  IInv'
<1>1. /\ UNCHANGED <<world, cache, hyd, formVars, nodesFetched, fbs, loads, clone>>
      /\ UNCHANGED lists
  BY Zenon DEF ReadFirst, UpdateTx, AddTx, AnswerLost, Refuse, serverVars
<1>2. req[c].step \in Steps
  BY Zenon DEF ReadFirst, UpdateTx, AddTx, AnswerLost, Steps
<1>3. req[c] # NoReq
  BY <1>2 DEF NoReq, Steps
<1>4. TableInv' /\ ReqInv'
  <2>1. CASE ReadFirst(c)
    BY <2>1, ReadFirstKeeps, Kept, Zenon DEF ReadFirst, Refuse, serverVars
  <2>2. CASE UpdateTx(c)
    BY <2>2, UpdateTxKeeps, Zenon
  <2>3. CASE AddTx(c)
    BY <2>3, AddTxKeeps, Zenon
  <2>4. CASE AnswerLost(c)
    BY <1>2, <2>4, RefuseKeeps, Kept, Zenon DEF AnswerLost, serverVars
  <2> QED
    BY <2>1, <2>2, <2>3, <2>4, Zenon
<1>5. req'["clone"] # NoReq => req["clone"] # NoReq
  <2>1. CASE c = "clone"
    BY <1>3, <2>1, Zenon
  <2>2. CASE c = "form"
    <3>0. "clone" # c
      BY <2>2, Zenon
    <3>1. CASE ReadFirst(c)
      BY <3>0, <3>1, Zenon DEF ReadFirst, Refuse, IInv, ReqInv
    <3>2. CASE UpdateTx(c)
      BY <3>0, <3>2, Zenon DEF UpdateTx, Refuse, IInv, ReqInv
    <3>3. CASE AddTx(c)
      BY <3>0, <3>3, Zenon DEF AddTx, Refuse, IInv, ReqInv
    <3>4. CASE AnswerLost(c)
      BY <3>0, <3>4, Zenon DEF AnswerLost, IInv, ReqInv
    <3> QED
      BY <3>1, <3>2, <3>3, <3>4, Zenon
  <2> QED
    BY <2>1, <2>2, Zenon
<1> QED
  BY <1>1, <1>4, <1>5, Kept, Zenon DEF formVars, IInv

LEMMA OtherSteps ==
    ASSUME SelectionFacts, IInv, ReadForClient \/ SaveForClient \/ DelInbound
    PROVE  IInv'
<1>0. IsTable(rows) /\ nextId \in Ids
  BY Zenon DEF IInv, TableInv
<1>1. CASE ReadForClient
  <2>1. PICK i \in DOMAIN rows : \E e \in DOMAIN rows[i].clients : \E n \in {0, rows[i].clients[e] + 1} :
           req' = [req EXCEPT !["client"] = [step |-> "read", op |-> "client", id |-> i,
                                             v |-> [rows[i] EXCEPT !.clients[e] = n]]]
    BY <1>1, Zenon DEF ReadForClient
  <2>2. PICK e \in DOMAIN rows[i].clients : \E n \in {0, rows[i].clients[e] + 1} :
           req' = [req EXCEPT !["client"] = [step |-> "read", op |-> "client", id |-> i,
                                             v |-> [rows[i] EXCEPT !.clients[e] = n]]]
    BY <2>1, Zenon
  <2>3. PICK n \in {0, rows[i].clients[e] + 1} :
           req' = [req EXCEPT !["client"] = [step |-> "read", op |-> "client", id |-> i,
                                             v |-> [rows[i] EXCEPT !.clients[e] = n]]]
    BY <2>2, Zenon
  <2> DEFINE v == [rows[i] EXCEPT !.clients[e] = n]
             x == [step |-> "read", op |-> "client", id |-> i, v |-> v]
  <2>4. i \in Ids /\ rows[i] \in Inbounds /\ Normal(rows[i])
    BY <1>0, Zenon DEF IsTable, NormalInbounds
  <2>5. [rows[i].clients EXCEPT ![e] = n] \in Clients
    <3>1. rows[i].clients \in [Emails -> Nat]
      <4>1. rows[i].clients \in Clients
        BY <2>4, Zenon DEF Inbounds
      <4>2. DOMAIN NoClients = {}
        BY DEF NoClients
      <4> QED
        BY <4>1, <4>2, Zenon DEF Clients
    <3>2. n \in Nat
      BY <2>2, <2>3, <3>1
    <3> QED
      BY <3>1, <3>2, Zenon DEF Clients
  <2>6. v = [rows[i] EXCEPT !.clients = [rows[i].clients EXCEPT ![e] = n]]
    BY Zenon
  <2>7. v \in Inbounds
    BY <2>4, <2>5, <2>6, Puts, Zenon
  <2>8. SameFields(v, rows[i])
    BY <2>4, <2>5, <2>6, Zenon DEF SameFields, Inbounds
  <2> HIDE DEF v
  <2>9. v \in NormalInbounds
    BY <2>4, <2>7, <2>8, Zenon DEF NormalInbounds, Normal, SameFields
  <2>10. x = NoReq \/ SoundClient(x)
    BY <2>4, <2>9, Zenon DEF SoundClient
  <2>11. req' = [req EXCEPT !["client"] = x]
    BY <2>3, Zenon DEF v
  <2> HIDE DEF x
  <2>12. ReqInv' /\ req'["clone"] = req["clone"]
    BY <2>10, <2>11, ClientPut, Zenon
  <2> QED
    BY <1>1, <2>12, Kept, Zenon DEF ReadForClient, serverVars, formVars, IInv
<1>2. CASE SaveForClient
  <2> DEFINE r == req["client"]
  <2>1. SoundClient(r)
    BY <1>2 DEF SaveForClient, NoReq, IInv, ReqInv
  <2>2. r.v \in NormalInbounds /\ r.id \in Ids
    BY <2>1, Zenon DEF SoundClient
  <2>3. ReqInv' /\ req'["clone"] = req["clone"]
    BY <1>2, ClientPut, Zenon DEF SaveForClient
  <2>4. ASSUME UNCHANGED <<rows, nextId>> PROVE TableInv'
    BY <1>0, <2>4, Zenon DEF TableInv
  <2> DEFINE next == IF nextId > r.id THEN nextId ELSE r.id + 1
  <2>5. ASSUME rows' = [i \in DOMAIN rows \cup {r.id} |-> IF i = r.id THEN r.v ELSE rows[i]],
               nextId' = next
        PROVE  TableInv'
    <3>1. next \in Ids
      BY <1>0, <2>2 DEF Ids
    <3> HIDE DEF r, next
    <3>2. IsTable(rows')
      BY <1>0, <2>2, <2>5, RowAdded, Zenon
    <3> QED
      BY <2>5, <3>1, <3>2, Zenon DEF TableInv
  <2>6. TableInv'
    BY <1>2, <2>4, <2>5, Zenon DEF SaveForClient
  <2> QED
    BY <1>2, <2>3, <2>6, Kept, Zenon DEF SaveForClient, formVars, IInv
<1>3. CASE DelInbound
  <2>1. PICK i \in DOMAIN rows : rows' = [j \in DOMAIN rows \ {i} |-> rows[j]]
    BY <1>3, Zenon DEF DelInbound
  <2>2. DOMAIN rows' \subseteq DOMAIN rows /\ \A j \in DOMAIN rows' : rows'[j] = rows[j]
    BY <2>1, Zenon
  <2>3. IsFiniteSet(DOMAIN rows')
    BY <1>0, <2>2, Zenon DEF IsTable, SelectionFacts, Ranked
  <2>4. IsTable(rows')
    BY <1>0, <2>2, <2>3, Zenon DEF IsTable
  <2>5. nextId' \in Ids
    BY <1>0, <1>3 DEF DelInbound, Ids
  <2>6. TableInv'
    BY <2>4, <2>5, Zenon DEF TableInv
  <2> QED
    BY <1>3, <2>6, Kept, Zenon DEF DelInbound, formVars, IInv
<1> QED
  BY <1>1, <1>2, <1>3, Zenon

-----------------------------------------------------------------------------
(* The whole.                                                              *)

LEMMA NextKeeps ==
    ASSUME SelectionFacts, IInv, [Next]_vars
    PROVE  IInv'
<1>1. CASE \/ \E key \in {"edit", "clone"}, i \in DOMAIN cache : onRowAction(key, i)
           \/ \E i \in DOMAIN hyd : ServeInbound(i) \/ InboundLost(i)
           \/ Refetch
  BY <1>1, PageSteps, Zenon
<1>2. CASE (\E i \in DOMAIN hyd : Hydrated(i)) \/ onAddInbound \/ NodesFetched
  BY <1>2, OpenSteps, Zenon
<1>3. CASE \/ TypePort \/ TypeTag \/ PickNode \/ PickStrategy \/ onNetworkChange \/ ToggleUdp
           \/ PickProtocol \/ Cancel
  BY <1>3, EditSteps, Zenon
<1>4. CASE \/ \E i \in DOMAIN loads : ServeFallbackList(i) \/ FallbacksLoaded(i) \/ FallbacksNotLoaded(i)
           \/ addFallback \/ updateFallback \/ typeDest \/ removeFallback \/ moveFallback \/ addAllFallbacks
  BY <1>4, FallbackSteps, Zenon
<1>5. CASE saveValues \/ Saved \/ NotSaved \/ SetByMaster \/ FallbacksAnswered
  BY <1>5, SaveSteps, Zenon
<1>6. CASE SubmitClone \/ PostClone \/ CancelClone \/ CloneAnswered
  BY <1>6, CloneSteps, Zenon
<1>7. CASE \E c \in {"form", "clone"} : ReadFirst(c) \/ UpdateTx(c) \/ AddTx(c) \/ AnswerLost(c)
  BY <1>7, HandlerSteps, Zenon
<1>8. CASE ReadForClient \/ SaveForClient \/ DelInbound
  BY <1>8, OtherSteps, Zenon
<1>9. CASE UNCHANGED vars
  <2>1. /\ UNCHANGED <<rows, nextId>> /\ UNCHANGED <<cache, hyd>> /\ UNCHANGED <<form, vals, tagging, base>>
        /\ UNCHANGED <<lists, fbs, loads>> /\ UNCHANGED clone /\ UNCHANGED req /\ UNCHANGED world
    BY <1>9, Zenon DEF vars
  <2> QED
    BY <2>1, Kept, Zenon DEF IInv
<1> QED
  BY <1>1, <1>2, <1>3, <1>4, <1>5, <1>6, <1>7, <1>8, <1>9, Zenon DEF Next

\* A request is committed by the transaction of its handler and by no other step.
LEMMA CommitsInTx ==
    ASSUME IInv, [Next]_vars, NEW c \in {"form", "clone"}, Committed(c)
    PROVE  UpdateTx(c) \/ AddTx(c)
<1>0. req = [d \in {"form", "clone", "client"} |-> req[d]]
  BY Zenon DEF IInv, ReqInv
<1>1. req'[c] # req[c] /\ req[c].step = "read" /\ ~UNCHANGED req
  BY Zenon DEF Committed
<1>2. ASSUME NEW d \in {"form", "clone", "client"}, NEW x, req' = [req EXCEPT ![d] = x], d # c \/ req[c].step # "read"
      PROVE  FALSE
  BY <1>0, <1>1, <1>2, Zenon
<1>3. ~UNCHANGED vars
  BY <1>1, Zenon DEF vars
<1>4. ~\E key \in {"edit", "clone"}, i \in DOMAIN cache : onRowAction(key, i)
  BY <1>1, Zenon DEF onRowAction
<1>5. ~\E i \in DOMAIN hyd : ServeInbound(i) \/ InboundLost(i) \/ Hydrated(i)
  BY <1>1, Zenon DEF ServeInbound, InboundLost, Hydrated
<1>6. ~(onAddInbound \/ Refetch \/ NodesFetched)
  BY <1>1, Zenon DEF onAddInbound, Refetch, NodesFetched
<1>7. ~(\/ TypePort \/ TypeTag \/ PickNode \/ PickStrategy \/ onNetworkChange \/ ToggleUdp
        \/ PickProtocol \/ Cancel)
  BY <1>1, Zenon DEF TypePort, TypeTag, PickNode, PickStrategy, onNetworkChange, ToggleUdp, PickProtocol, Cancel, Edit
<1>8. ~\E i \in DOMAIN loads : ServeFallbackList(i) \/ FallbacksLoaded(i) \/ FallbacksNotLoaded(i)
  BY <1>1, Zenon DEF ServeFallbackList, FallbacksLoaded, FallbacksNotLoaded
<1>9. ~(addFallback \/ updateFallback \/ typeDest \/ removeFallback \/ moveFallback \/ addAllFallbacks)
  BY <1>1, Zenon DEF addFallback, updateFallback, typeDest, removeFallback, moveFallback, addAllFallbacks,
                     EditFallbacks
<1>10. ~saveValues
  BY <1>1, <1>2 DEF saveValues, NoReq
<1>11. ~Saved
  BY <1>1, <1>2, Zenon DEF Saved
<1>12. ~(NotSaved \/ SetByMaster \/ FallbacksAnswered)
  BY <1>1, <1>2, Zenon DEF NotSaved, SetByMaster, FallbacksAnswered
<1>13. ~(SubmitClone \/ CancelClone)
  BY <1>1, Zenon DEF SubmitClone, CancelClone
<1>14. ~PostClone
  BY <1>1, <1>2 DEF PostClone, NoReq
<1>15. ~CloneAnswered
  BY <1>1, <1>2, Zenon DEF CloneAnswered
<1>16. ~(ReadForClient \/ SaveForClient)
  BY <1>1, <1>2, Zenon DEF ReadForClient, SaveForClient
<1>17. ~DelInbound
  BY <1>1, Zenon DEF DelInbound
<1>18. ASSUME NEW d \in {"form", "clone"}, ReadFirst(d) \/ UpdateTx(d) \/ AddTx(d) \/ AnswerLost(d)
       PROVE  UpdateTx(c) \/ AddTx(c)
  <2>1. CASE ReadFirst(d)
    BY <1>0, <1>1, <2>1, Zenon DEF ReadFirst, Refuse
  <2>2. CASE UpdateTx(d) /\ d # c
    BY <1>0, <1>1, <2>2, Zenon DEF UpdateTx, Refuse
  <2>3. CASE AddTx(d) /\ d # c
    BY <1>0, <1>1, <2>3, Zenon DEF AddTx, Refuse
  <2>4. CASE AnswerLost(d)
    BY <1>0, <1>1, <2>4, Zenon DEF AnswerLost
  <2> QED
    BY <1>18, <2>1, <2>2, <2>3, <2>4, Zenon
<1> QED
  BY <1>3, <1>4, <1>5, <1>6, <1>7, <1>8, <1>9, <1>10, <1>11, <1>12, <1>13, <1>14, <1>15, <1>16, <1>17, <1>18,
     Zenon DEF Next

SP == INSTANCE SelectionsProofs

\* SelectionsProofs says so of its own copy of the definitions.
LEMMA SelectionsHold == SelectionFacts
<1>1. SP!SelectionFacts
  BY SP!SelectionsHold, Zenon
<1>2. ASSUME NEW J PROVE SP!Cardinality(J) = Cardinality(J)
  BY Zenon DEF Cardinality, SP!Cardinality
<1>3. ASSUME NEW J PROVE SP!IsFiniteSet(J) = IsFiniteSet(J)
  BY Zenon DEF IsFiniteSet, SP!IsFiniteSet
<1>4. ASSUME NEW J, NEW k PROVE SP!Nth(J, k) = Nth(J, k)
  BY <1>2, Zenon DEF Nth, SP!Nth
<1>5. ASSUME NEW J PROVE SP!Ranked(J) = Ranked(J)
  BY <1>2, <1>4, Zenon DEF Ranked, SP!Ranked
<1>6. ASSUME NEW s, NEW J PROVE SP!Pick(s, J) = Pick(s, J)
  BY <1>2, <1>4, Zenon DEF Pick, SP!Pick
<1>7. ASSUME NEW t, NEW s, NEW J PROVE SP!Selected(t, s, J) = Selected(t, s, J)
  BY Zenon DEF Selected, SP!Selected
<1> QED
  BY <1>1, <1>3, <1>5, <1>6, <1>7, Zenon DEF SelectionFacts, SP!SelectionFacts

\* The invariant is inductive.
THEOREM InboundInvariant == Spec => []IInv
<1>1. Init => IInv
  BY SelectionsHold, InitInv, Zenon
<1>2. IInv /\ [Next]_vars => IInv'
  BY SelectionsHold, NextKeeps, Zenon
<1> QED
  BY <1>1, <1>2, PTL DEF Spec

\* No inbound's stored fallback rows lead back to it, whichever inbound the form
\* showed when the rows were sent (fallback.go, SetByMaster).
THEOREM FallbacksNeverSelf == Spec => []NoSelfFallback
<1>1. IInv => NoSelfFallback
  BY Zenon DEF IInv, ListsInv
<1> QED
  BY <1>1, InboundInvariant, PTL

\* An update stores the row its form was filled from with the fields touched
\* since, and the clients of the row as it is in the transaction
\* (InboundFormModal.tsx, UpdateInbound).
THEOREM UpdatesSaveEdits == Spec => OnlyEditsSaved
<1> DEFINE Step == LET r == req["form"]
                   IN Committed("form") /\ r.op = "update"
                      => /\ r.base.id = r.id
                         /\ rows'[r.id].clients = rows[r.id].clients
                         /\ \A f \in {"protocol", "port", "node", "network", "l4", "security"} \ r.base.touched :
                               \/ rows'[r.id][f] = r.base.row[f]
                               \/ f = "node" /\ r.base.row.node # r.old.node
<1>1. IInv /\ [Next]_vars => [Step]_vars
  <2> SUFFICES ASSUME IInv, [Next]_vars, Committed("form"), req["form"].op = "update"
               PROVE  EditsSaved(req["form"])
    BY Zenon DEF EditsSaved
  <2>1. UpdateTx("form")
    BY CommitsInTx, Zenon DEF AddTx
  <2> QED
    BY <2>1, SelectionsHold, UpdateTxKeeps, Zenon DEF Committed
<1> QED
  BY <1>1, InboundInvariant, PTL DEF Spec, OnlyEditsSaved

\* A stored inbound shares no tag and no socket with another, and its generated
\* tag tells its own fields, but for the forms and requests named at TagsFollow
\* (port_conflict.go, AddInbound, UpdateInbound).
THEOREM StoredTagsFollow == Spec => TagsFollow
<1> DEFINE Follows(c) == LET r == req[c]
                             id == req'[c].id
                             row == rows'[id]
                             replaced == r.base.row.tag # r.old.tag \/ r.base.row.node # r.old.node
                             outdated == r.op = "update" /\ (replaced \/ ~InStep(r.old))
                             leftover == r.op = "add" /\ inboundTransports(r.old) # inboundTransports(r.v)
                         IN /\ InStep(row) \/ outdated \/ leftover
                            /\ \A j \in DOMAIN rows' \ {id} :
                                  /\ row.tag # rows'[j].tag
                                  /\ \/ <<row.node, row.port>> # <<rows'[j].node, rows'[j].port>>
                                     \/ inboundTransports(row) \cap inboundTransports(rows'[j]) = {}
           Step == \A c \in {"form", "clone"} : Committed(c) => Follows(c)
<1>1. ASSUME NEW c, InStep(rows'[req'[c].id]) \/ Outdated(req[c]) \/ Leftover(req[c]), Apart(rows', req'[c].id)
      PROVE  Follows(c)
  BY <1>1, Zenon DEF Outdated, Leftover, Apart
<1>2. IInv /\ [Next]_vars => [Step]_vars
  <2> SUFFICES ASSUME IInv, [Next]_vars, NEW c \in {"form", "clone"}, Committed(c)
               PROVE  Follows(c)
    BY Zenon
  <2> HIDE DEF Follows
  <2>1. req'[c].step = "ok"
    BY Zenon DEF Committed
  <2>2. CASE UpdateTx(c)
    BY <1>1, <2>1, <2>2, SelectionsHold, UpdateTxKeeps, Zenon
  <2>3. CASE AddTx(c)
    BY <1>1, <2>1, <2>3, SelectionsHold, AddTxKeeps, Zenon
  <2> QED
    BY <2>2, <2>3, CommitsInTx, Zenon
<1> QED
  BY <1>2, InboundInvariant, PTL DEF Spec, TagsFollow
=============================================================================
