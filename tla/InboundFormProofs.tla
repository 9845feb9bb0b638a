-------------------------- MODULE InboundFormProofs --------------------------
(***************************************************************************)
(* Proofs for InboundForm, part one: what the form's effects leave in the  *)
(* tag, the inductive invariant of the form and its requests, and what the *)
(* handlers make of a request.  InboundStepsProofs goes on from here.      *)
(***************************************************************************)
EXTENDS InboundForm, TLAPS

-----------------------------------------------------------------------------
(* Operators.                                                              *)

\* Stored the way the handlers do: no transport where there can be none.
Normal(v) == v.protocol \in {"mixed", "mtproto"} => v.network = "unset" /\ v.security = "none"

\* What the effects leave alone.
SameFields(v, w) ==
    /\ v.protocol = w.protocol /\ v.port = w.port /\ v.node = w.node
    /\ v.network = w.network /\ v.l4 = w.l4 /\ v.security = w.security

\* An inbound with one field set.
LEMMA Puts ==
    ASSUME NEW v \in Inbounds
    PROVE  /\ \A x \in Protocols : [v EXCEPT !.protocol = x] \in Inbounds
           /\ \A x \in Nat : [v EXCEPT !.port = x] \in Inbounds
           /\ \A x \in Nat : [v EXCEPT !.node = x] \in Inbounds
           /\ \A x \in Networks : [v EXCEPT !.network = x] \in Inbounds
           /\ \A x \in SUBSET Transports : [v EXCEPT !.l4 = x] \in Inbounds
           /\ \A x \in Securities : [v EXCEPT !.security = x] \in Inbounds
           /\ \A x \in Tags : [v EXCEPT !.tag = x] \in Inbounds
           /\ \A x \in Strategies : [v EXCEPT !.strategy = x] \in Inbounds
           /\ \A x \in BOOLEAN : [v EXCEPT !.addr = x] \in Inbounds
           /\ \A x \in Clients : [v EXCEPT !.clients = x] \in Inbounds
<1>1. \A x \in Protocols : [v EXCEPT !.protocol = x] \in Inbounds
  BY Zenon DEF Inbounds
<1>2. \A x \in Nat : [v EXCEPT !.port = x] \in Inbounds
  BY Zenon DEF Inbounds
<1>3. \A x \in Nat : [v EXCEPT !.node = x] \in Inbounds
  BY Zenon DEF Inbounds
<1>4. \A x \in Networks : [v EXCEPT !.network = x] \in Inbounds
  BY Zenon DEF Inbounds
<1>5. \A x \in SUBSET Transports : [v EXCEPT !.l4 = x] \in Inbounds
  BY Zenon DEF Inbounds
<1>6. \A x \in Securities : [v EXCEPT !.security = x] \in Inbounds
  BY Zenon DEF Inbounds
<1>7. \A x \in Tags : [v EXCEPT !.tag = x] \in Inbounds
  BY Zenon DEF Inbounds
<1>8. \A x \in Strategies : [v EXCEPT !.strategy = x] \in Inbounds
  BY Zenon DEF Inbounds
<1>9. \A x \in BOOLEAN : [v EXCEPT !.addr = x] \in Inbounds
  BY Zenon DEF Inbounds
<1>10. \A x \in Clients : [v EXCEPT !.clients = x] \in Inbounds
  BY Zenon DEF Inbounds
<1> QED
  BY <1>1, <1>2, <1>3, <1>4, <1>5, <1>6, <1>7, <1>8, <1>9, <1>10, Zenon

\* Normalizing gives a normal inbound, and changes no normal one.
LEMMA NormalizeFields ==
    ASSUME NEW v \in Inbounds
    PROVE  /\ normalizeStreamSettings(v) \in Inbounds
           /\ Normal(normalizeStreamSettings(v))
           /\ normalizeStreamSettings(v).protocol = v.protocol /\ normalizeStreamSettings(v).port = v.port
           /\ normalizeStreamSettings(v).node = v.node /\ normalizeStreamSettings(v).l4 = v.l4
           /\ normalizeStreamSettings(v).tag = v.tag
<1>1. [v EXCEPT !.network = "unset", !.security = "none"] \in Inbounds
  <2>1. "unset" \in Networks /\ "none" \in Securities
    BY Zenon DEF Networks, Securities
  <2>2. [v EXCEPT !.network = "unset"] \in Inbounds
    BY <2>1, Puts, Zenon
  <2> QED
    BY <2>1, <2>2, Puts, Zenon
<1>2. normalizeStreamSettings(v) \in Inbounds
  BY <1>1, Zenon DEF normalizeStreamSettings
<1> QED
  BY <1>2, Zenon DEF normalizeStreamSettings, Normal, Inbounds

LEMMA NormalizeNormal ==
    ASSUME NEW v \in Inbounds
    PROVE  normalizeStreamSettings(v) = v <=> Normal(v)
BY Zenon DEF normalizeStreamSettings, Normal, Inbounds

LEMMA TransportsType ==
    ASSUME NEW v \in Inbounds
    PROVE  inboundTransports(v) \in SUBSET Transports
<1> DEFINE stream == IF v.network \in {"kcp", "quic"} THEN "udp" ELSE "tcp"
<1>1. v.l4 \in SUBSET Transports /\ {stream} \in SUBSET Transports /\ {"udp"} \in SUBSET Transports
  BY Zenon DEF Inbounds, Transports
<1>2. {stream} \cup (v.l4 \cap {"udp"}) \in SUBSET Transports
  BY <1>1, Zenon
<1>3. inboundTransports(v) \in {{"udp"}, v.l4, {stream} \cup (v.l4 \cap {"udp"}), {stream}}
  BY Zenon DEF inboundTransports
<1> QED
  BY <1>1, <1>2, <1>3, Zenon

LEMMA NoTagType == NoTag \in Tags
BY Zenon DEF NoTag, Tags

LEMMA ComposeType ==
    ASSUME NEW v \in Inbounds, NEW n \in Nat
    PROVE  /\ composeInboundTag(v) \in Tags
           /\ Numbered(composeInboundTag(v), n) \in Tags
           /\ Numbered(Numbered(composeInboundTag(v), n), 0) = composeInboundTag(v)
           /\ Numbered(composeInboundTag(v), n) # NoTag
<1>1. v.node \in Nat /\ v.port \in Nat
  BY Zenon DEF Inbounds
<1>2. inboundTransports(v) \in SUBSET Transports
  BY TransportsType, Zenon
<1>3. composeInboundTag(v) \in Tags /\ composeInboundTag(v).kind = "auto" /\ composeInboundTag(v).n = 0
  BY <1>1, <1>2, Zenon DEF composeInboundTag, Tags
<1> QED
  BY <1>3, Zenon DEF Numbered, Tags, NoTag

\* A tag tells what is made of the fields the effects leave alone.
LEMMA SameCompose ==
    ASSUME NEW v, NEW w, SameFields(v, w)
    PROVE  inboundTransports(v) = inboundTransports(w) /\ composeInboundTag(v) = composeInboundTag(w)
BY Zenon DEF SameFields, composeInboundTag, inboundTransports

LEMMA PartsCompose ==
    ASSUME NEW v, NEW w, TagParts(v) = TagParts(w)
    PROVE  composeInboundTag(v) = composeInboundTag(w)
BY Zenon DEF TagParts, composeInboundTag, inboundTransports

-----------------------------------------------------------------------------
(* The effects.                                                            *)

EffectStates == [v : Inbounds, seen : Inbounds, auto : BOOLEAN, last : Tags]

LEMMA TagSeenKeeps ==
    ASSUME NEW s \in EffectStates, NEW w \in Inbounds, NEW o \in BOOLEAN
    PROVE  /\ TagSeen(s, w, o) \in EffectStates
           /\ TagSeen(s, w, o).v = s.v /\ TagSeen(s, w, o).seen = s.seen /\ TagSeen(s, w, o).last = s.last
           /\ \/ TagSeen(s, w, o).auto = s.auto
              \/ (o \/ w.tag # s.seen.tag) /\ w.tag # s.last
<1>1. isAutoInboundTag(w.tag, w) \in BOOLEAN
  BY Zenon DEF isAutoInboundTag
<1> QED
  BY <1>1, Zenon DEF TagSeen, EffectStates

LEMMA AutoTagKeeps ==
    ASSUME NEW s \in EffectStates, NEW w \in Inbounds, NEW o \in BOOLEAN
    PROVE  LET t == AutoTag(s, w, o)
           IN /\ t \in EffectStates /\ t.seen = s.seen /\ t.auto = s.auto /\ SameFields(t.v, s.v)
              /\ \/ t.v.tag = s.v.tag /\ t.last = s.last
                 \/ s.auto /\ t.v.tag = composeInboundTag(w) /\ t.last = t.v.tag
              /\ s.auto /\ TagParts(w) # TagParts(s.seen) => t.v.tag = composeInboundTag(w)
<1>1. composeInboundTag(w) \in Tags
  BY ComposeType, Zenon
<1> QED
  BY <1>1, Zenon DEF AutoTag, EffectStates, SameFields, Inbounds

LEMMA ShareStrategyKeeps ==
    ASSUME NEW s \in EffectStates, NEW w \in Inbounds, NEW o \in BOOLEAN
    PROVE  LET t == ShareStrategy(s, w, o)
           IN /\ t \in EffectStates /\ t.seen = s.seen /\ t.auto = s.auto /\ t.last = s.last
              /\ SameFields(t.v, s.v) /\ t.v.tag = s.v.tag
<1>1. s.v \in Inbounds
  BY Zenon DEF EffectStates
<1>2. /\ [s.v EXCEPT !.strategy = "listen"] \in Inbounds
      /\ [s.v EXCEPT !.strategy = "listen", !.addr = FALSE] \in Inbounds
  <2>1. "listen" \in Strategies /\ FALSE \in BOOLEAN
    BY Zenon DEF Strategies
  <2>2. [s.v EXCEPT !.strategy = "listen"] \in Inbounds
    BY <1>1, <2>1, Puts, Zenon
  <2> QED
    BY <2>1, <2>2, Puts, Zenon
<1>3. ShareStrategy(s, w, o) \in {s, [s EXCEPT !.v = [s.v EXCEPT !.strategy = "listen"]],
                                   [s EXCEPT !.v = [s.v EXCEPT !.strategy = "listen", !.addr = FALSE]]}
  BY Zenon DEF ShareStrategy, EffectStates
<1>4. ASSUME NEW u \in {s.v, [s.v EXCEPT !.strategy = "listen"],
                        [s.v EXCEPT !.strategy = "listen", !.addr = FALSE]}
      PROVE  u \in Inbounds /\ SameFields(u, s.v) /\ u.tag = s.v.tag
  BY <1>1, <1>2, Zenon DEF SameFields, Inbounds
<1>5. ASSUME NEW u \in Inbounds
      PROVE  LET t == [s EXCEPT !.v = u]
             IN t \in EffectStates /\ t.seen = s.seen /\ t.auto = s.auto /\ t.last = s.last /\ t.v = u
  BY Zenon DEF EffectStates
<1>6. s = [s EXCEPT !.v = s.v]
  BY Zenon DEF EffectStates
<1>7. PICK u \in {s.v, [s.v EXCEPT !.strategy = "listen"],
                 [s.v EXCEPT !.strategy = "listen", !.addr = FALSE]} :
        ShareStrategy(s, w, o) = [s EXCEPT !.v = u]
  BY <1>3, <1>6, Zenon
<1>8. u \in Inbounds /\ SameFields(u, s.v) /\ u.tag = s.v.tag
  BY <1>4, Zenon
<1> QED
  BY <1>5, <1>7, <1>8

\* A commit writes at most the tag made of the values it saw.
CommitKept(t, s, w, o) ==
    /\ t \in EffectStates /\ t.seen = w /\ SameFields(t.v, s.v)
    /\ \/ t.auto = s.auto
       \/ (o \/ w.tag # s.seen.tag) /\ w.tag # s.last
    /\ \/ t.v.tag = s.v.tag /\ t.last = s.last
       \/ t.auto /\ t.v.tag = composeInboundTag(w) /\ t.last = t.v.tag
    /\ t.auto /\ TagParts(w) # TagParts(s.seen) => t.v.tag = composeInboundTag(w)

LEMMA CommitKeeps ==
    ASSUME NEW s \in EffectStates, NEW w \in Inbounds, NEW o \in BOOLEAN
    PROVE  CommitKept(Commit(s, w, o), s, w, o)
<1> DEFINE a == TagSeen(s, w, o)
           b == AutoTag(a, w, o)
           c == ShareStrategy(b, w, o)
<1>1. /\ a \in EffectStates /\ a.v = s.v /\ a.seen = s.seen /\ a.last = s.last
      /\ a.auto = s.auto \/ ((o \/ w.tag # s.seen.tag) /\ w.tag # s.last)
  BY TagSeenKeeps
<1> HIDE DEF a
<1>2. /\ b \in EffectStates /\ b.seen = a.seen /\ b.auto = a.auto /\ SameFields(b.v, a.v)
      /\ \/ b.v.tag = a.v.tag /\ b.last = a.last
         \/ a.auto /\ b.v.tag = composeInboundTag(w) /\ b.last = b.v.tag
      /\ a.auto /\ TagParts(w) # TagParts(a.seen) => b.v.tag = composeInboundTag(w)
  BY <1>1, AutoTagKeeps, Zenon
<1> HIDE DEF b
<1>3. /\ c \in EffectStates /\ c.seen = b.seen /\ c.auto = b.auto /\ c.last = b.last
      /\ SameFields(c.v, b.v) /\ c.v.tag = b.v.tag
  BY <1>2, ShareStrategyKeeps, Zenon
<1> HIDE DEF c
<1>4. Commit(s, w, o) = [c EXCEPT !.seen = w]
  BY Zenon DEF Commit, a, b, c
<1>5. [c EXCEPT !.seen = w] \in EffectStates
  BY <1>3, Zenon DEF EffectStates
<1>6. /\ [c EXCEPT !.seen = w].seen = w /\ [c EXCEPT !.seen = w].v = c.v
      /\ [c EXCEPT !.seen = w].auto = c.auto /\ [c EXCEPT !.seen = w].last = c.last
  BY <1>3, Zenon DEF EffectStates
<1>7. SameFields(c.v, s.v)
  BY <1>1, <1>2, <1>3, Zenon DEF SameFields
<1> QED
  BY <1>1, <1>2, <1>3, <1>4, <1>5, <1>6, <1>7 DEF CommitKept

\* The tag between two commits: the one the form was filled with, a typed one,
\* or the one last made, with the automatic tag on.
TagKept(s, first) ==
    \/ s.v.tag = first \/ s.v.tag \in CustomTags
    \/ s.auto /\ s.v.tag = composeInboundTag(s.seen) /\ s.v.tag \in {s.seen.tag, s.last}

LEMMA CommitTag ==
    ASSUME NEW s \in EffectStates, NEW first, TagKept(s, first)
    PROVE  LET t == Commit(s, s.v, FALSE)
           IN /\ t \in EffectStates /\ t.seen = s.v /\ SameFields(t.v, s.v) /\ TagKept(t, first)
<1> DEFINE t == Commit(s, s.v, FALSE)
<1>0. s.v \in Inbounds /\ FALSE \in BOOLEAN
  BY Zenon DEF EffectStates
<1>1. CommitKept(t, s, s.v, FALSE)
  BY <1>0, CommitKeeps, Zenon
<1>2. TagParts(s.v) = TagParts(s.seen) => composeInboundTag(s.v) = composeInboundTag(s.seen)
  BY PartsCompose, Zenon
<1> HIDE DEF t
<1>3. TagKept(t, first)
  <2>1. CASE t.auto /\ t.v.tag = composeInboundTag(s.v) /\ t.last = t.v.tag
    BY <1>1, <2>1, Zenon DEF TagKept, CommitKept
  <2>2. CASE t.v.tag = s.v.tag /\ t.last = s.last
    <3>1. CASE s.v.tag = first \/ s.v.tag \in CustomTags
      BY <2>2, <3>1, Zenon DEF TagKept, CommitKept
    <3>2. CASE s.auto /\ s.v.tag = composeInboundTag(s.seen) /\ s.v.tag \in {s.seen.tag, s.last}
      <4>1. t.auto
        BY <1>1, <3>2, Zenon DEF CommitKept
      <4>2. t.v.tag = composeInboundTag(s.v)
        BY <1>1, <1>2, <2>2, <3>2, <4>1, Zenon DEF CommitKept
      <4> QED
        BY <1>1, <2>2, <4>1, <4>2, Zenon DEF TagKept, CommitKept
    <3> QED
      BY <3>1, <3>2, Zenon DEF TagKept, CommitKept
  <2> QED
    BY <1>1, <2>1, <2>2, Zenon DEF CommitKept
<1> QED
  BY <1>1, <1>3, Zenon DEF t, CommitKept

\* The settled form: its tag is in step wherever an effect wrote it.
LEMMA SettleTag ==
    ASSUME NEW s \in EffectStates, NEW first, TagKept(s, first)
    PROVE  LET t == Settle(s)
           IN /\ t \in EffectStates /\ SameFields(t.v, s.v)
              /\ \/ t.v.tag = first \/ t.v.tag \in CustomTags
                 \/ t.auto /\ t.v.tag = composeInboundTag(t.v)
<1> DEFINE a == Commit(s, s.v, FALSE)
           b == Commit(a, a.v, FALSE)
<1>1. a \in EffectStates /\ a.seen = s.v /\ SameFields(a.v, s.v) /\ TagKept(a, first)
  BY CommitTag, Zenon
<1> HIDE DEF a
<1>2. b \in EffectStates /\ b.seen = a.v /\ SameFields(b.v, a.v) /\ TagKept(b, first)
  BY <1>1, CommitTag, Zenon
<1> HIDE DEF b
<1>3. composeInboundTag(b.v) = composeInboundTag(b.seen)
  BY <1>2, SameCompose, Zenon
<1>4. SameFields(b.v, s.v)
  BY <1>1, <1>2, Zenon DEF SameFields
<1>5. Settle(s) = b
  BY Zenon DEF Settle, a, b
<1> QED
  BY <1>2, <1>3, <1>4, <1>5, Zenon DEF TagKept

-----------------------------------------------------------------------------
(* The invariant.                                                          *)

Ids == Nat \ {0}
NormalInbounds == {v \in Inbounds : Normal(v)}

IsTable(t) ==
    DOMAIN t \subseteq Ids /\ IsFiniteSet(DOMAIN t) /\ \A i \in DOMAIN t : t[i] \in NormalInbounds

TableInv == IsTable(rows) /\ nextId \in Ids

Hydrations == [key : {"edit", "clone"}, id : Ids, shown : NormalInbounds, step : {"sent", "ok", "failed"}]
PageInv == IsTable(cache) /\ hyd \in Seq(Hydrations)

\* A form's values are those it was filled with, but for the fields touched.
Fields == {"protocol", "port", "node", "network", "l4", "security", "tag", "strategy", "addr"}
Bases == [id : Nat, row : Inbounds, touched : SUBSET Fields]
FromBase(v, b) ==
    /\ "protocol" \notin b.touched => v.protocol = b.row.protocol
    /\ "port" \notin b.touched => v.port = b.row.port
    /\ "network" \notin b.touched => v.network = b.row.network
    /\ "l4" \notin b.touched => v.l4 = b.row.l4
    /\ "security" \notin b.touched => v.security = b.row.security

\* The tag as it came, as it was typed, or as it follows from the values.
TagFrom(v, first) == v.tag = first \/ v.tag \in CustomTags \/ v.tag = composeInboundTag(v)

FormInv ==
    /\ form \in [open : BOOLEAN, mode : {"add", "edit"}, id : Nat]
    /\ base \in Bases /\ base.id = form.id
    /\ vals \in Inbounds /\ FromBase(vals, base)
    /\ tagging \in [auto : BOOLEAN, last : Tags]
    /\ TagFrom(vals, base.row.tag)
    /\ vals.tag # base.row.tag /\ vals.tag \notin CustomTags => tagging.auto
    /\ form.mode = "edit" => form.id # 0 /\ Normal(vals) /\ vals.node = base.row.node
    /\ form.mode = "add" => base.row.tag = NoTag

Loads == [id : Nat, step : {"sent", "ok"}, list : Seq(Fallbacks)]
ListsInv ==
    /\ \A i \in DOMAIN lists : lists[i] \in Seq(Fallbacks)
    /\ fbs \in Seq(Fallbacks)
    /\ loads \in Seq(Loads)
    /\ NoSelfFallback

CloneInv ==
    /\ clone = [open |-> clone.open, row |-> clone.row, src |-> clone.src, todo |-> clone.todo, used |-> clone.used]
    /\ clone.open \in BOOLEAN
    /\ clone.open => clone.row \in NormalInbounds
    /\ clone.todo \in Seq(Nat)
    /\ clone.todo # <<>> => clone.src \in NormalInbounds

Steps == {"sent", "read", "ok", "refused", "fallbacks", "fallbacksDone"}
Requests ==
    [step : Steps, op : {"add", "update"},
     id : Nat, v : Inbounds, old : Inbounds, host : BOOLEAN, fbs : Seq(Fallbacks), base : Bases]

\* An update carries the form's values for the inbound the form was filled for.
UpdateInv(r) ==
    /\ r.id # 0 /\ r.base.id = r.id
    /\ r.step \in {"sent", "read"} => FromBase(r.v, r.base) /\ Normal(r.v)
    /\ r.step = "sent" => r.v.node = r.base.row.node
    /\ r.step = "read" => r.v.node = r.old.node
    /\ r.step \in {"sent", "read"} /\ r.v.node = r.base.row.node => TagFrom(r.v, r.base.row.tag)

\* A new inbound has an id once it is stored, and a tag once it was read.
AddInv(r) ==
    /\ r.step = "sent" => r.v = r.old /\ TagFrom(r.v, NoTag)
    /\ r.step = "read" => InStep(r.v) \/ inboundTransports(r.old) # inboundTransports(r.v)
    /\ r.step = "read" => Normal(r.v)
    /\ r.step \in {"ok", "fallbacks", "fallbacksDone"} => r.id # 0

Sound(r) == r \in Requests /\ (r.op = "update" => UpdateInv(r)) /\ (r.op = "add" => AddInv(r))
SoundClient(r) == r.v \in NormalInbounds /\ r.id \in Ids

ReqInv ==
    /\ req = [c \in {"form", "clone", "client"} |-> req[c]]
    /\ \A c \in {"form", "clone"} : req[c] = NoReq \/ Sound(req[c])
    /\ req["client"] = NoReq \/ SoundClient(req["client"])

\* The clone dialog's loop waits for an answer with a target left to do.
LoopInv == req["clone"] # NoReq => clone.todo # <<>>

IInv ==
    /\ TableInv /\ PageInv /\ FormInv /\ ListsInv /\ CloneInv /\ ReqInv /\ LoopInv
    /\ world \in Worlds

\* What an action leaves alone stays sound.
LEMMA Kept ==
    ASSUME IInv
    PROVE  /\ UNCHANGED <<rows, nextId>> => TableInv'
           /\ UNCHANGED <<cache, hyd>> => PageInv'
           /\ UNCHANGED <<form, vals, tagging, base>> => FormInv'
           /\ UNCHANGED <<lists, fbs, loads>> => ListsInv'
           /\ UNCHANGED clone => CloneInv'
           /\ UNCHANGED req => ReqInv'
           /\ (req'["clone"] # NoReq => req["clone"] # NoReq) /\ clone'.todo = clone.todo => LoopInv'
           /\ UNCHANGED world => (world \in Worlds)'
<1>1. UNCHANGED <<rows, nextId>> => TableInv'
  BY Zenon DEF IInv, TableInv
<1>2. UNCHANGED <<cache, hyd>> => PageInv'
  BY Zenon DEF IInv, PageInv
<1>3. UNCHANGED <<form, vals, tagging, base>> => FormInv'
  BY Zenon DEF IInv, FormInv
<1>4. UNCHANGED <<lists, fbs, loads>> => ListsInv'
  BY Zenon DEF IInv, ListsInv, NoSelfFallback
<1>5. UNCHANGED clone => CloneInv'
  BY Zenon DEF IInv, CloneInv
<1>6. UNCHANGED req => ReqInv'
  BY Zenon DEF IInv, ReqInv
<1>7. (req'["clone"] # NoReq => req["clone"] # NoReq) /\ clone'.todo = clone.todo => LoopInv'
  BY Zenon DEF IInv, LoopInv
<1> QED
  BY <1>1, <1>2, <1>3, <1>4, <1>5, <1>6, <1>7, Zenon DEF IInv

-----------------------------------------------------------------------------
(* The handlers.                                                           *)

LEMMA ShareNormalKeeps ==
    ASSUME NEW v \in NormalInbounds
    PROVE  ShareNormal(v) \in NormalInbounds /\ SameFields(ShareNormal(v), v) /\ ShareNormal(v).tag = v.tag
<1>1. v \in Inbounds /\ Normal(v)
  BY Zenon DEF NormalInbounds
<1>2. [v EXCEPT !.strategy = "listen", !.addr = FALSE] \in Inbounds
  <2>1. "listen" \in Strategies /\ FALSE \in BOOLEAN
    BY Zenon DEF Strategies
  <2>2. [v EXCEPT !.strategy = "listen"] \in Inbounds
    BY <1>1, <2>1, Puts, Zenon
  <2> QED
    BY <2>1, <2>2, Puts, Zenon
<1>3. SameFields(ShareNormal(v), v) /\ ShareNormal(v).tag = v.tag
  BY <1>1, Zenon DEF ShareNormal, SameFields, Inbounds
<1>4. ShareNormal(v) \in Inbounds
  BY <1>1, <1>2, Zenon DEF ShareNormal
<1> QED
  BY <1>1, <1>3, <1>4, Zenon DEF NormalInbounds, Normal, SameFields

\* The row an update stores.
RowOf(w, v, t, k) == w \in NormalInbounds /\ SameFields(w, v) /\ w.tag = t /\ w.clients = k

LEMMA RowStored ==
    ASSUME NEW v \in NormalInbounds, NEW t \in Tags, NEW k \in Clients
    PROVE  RowOf([ShareNormal(v) EXCEPT !.tag = t, !.clients = k], v, t, k)
<1> DEFINE u == ShareNormal(v)
           w == [u EXCEPT !.tag = t, !.clients = k]
<1>1. u \in Inbounds /\ Normal(u) /\ SameFields(u, v)
  BY ShareNormalKeeps, Zenon DEF NormalInbounds
<1> HIDE DEF u
<1>2. w \in Inbounds
  <2>1. [u EXCEPT !.tag = t] \in Inbounds
    BY <1>1, Puts, Zenon
  <2> QED
    BY <2>1, Puts, Zenon
<1>3. SameFields(w, u) /\ w.tag = t /\ w.clients = k
  BY <1>1, Zenon DEF SameFields, Inbounds
<1> HIDE DEF w
<1>4. w \in NormalInbounds /\ SameFields(w, v)
  BY <1>1, <1>2, <1>3, Zenon DEF NormalInbounds, Normal, SameFields
<1> QED
  BY <1>3, <1>4, Zenon DEF u, w, RowOf

\* A resolved tag is free; it is the one given, or made of the values.
TagResolved(t, v, ignore) ==
    /\ t \in Tags
    /\ t # NoTag => ~tagExists(t, ignore)
    /\ t = v.tag \/ t = NoTag \/ Numbered(t, 0) = composeInboundTag(v)

LEMMA ResolvedTag ==
    ASSUME SelectionFacts, NEW v \in Inbounds, NEW ignore
    PROVE  TagResolved(resolveInboundTag(v, ignore), v, ignore)
<1> DEFINE free == {n \in {0} \cup 2 .. 99 : ~tagExists(Numbered(composeInboundTag(v), n), ignore)}
           t == generateInboundTag(v, ignore)
<1>0. v.tag \in Tags
  BY Zenon DEF Inbounds
<1>1. free # {} => Nth(free, 1) \in free /\ Nth(free, 1) \in Nat
  <2>1. free \subseteq 1 .. 99 \cup {0} /\ free \subseteq Nat
    OBVIOUS
  <2>2. IsFiniteSet(free)
    <3>1. IsFiniteSet(1 .. 99)
      BY Zenon DEF SelectionFacts
    <3> HIDE DEF free
    <3> QED
      <4>1. IsFiniteSet(1 .. 99 \cup {0})
        BY <3>1, Zenon DEF SelectionFacts
      <4> QED
        BY <2>1, <4>1, Zenon DEF SelectionFacts
  <2> HIDE DEF free
  <2> QED
    BY <2>1, <2>2, Zenon DEF SelectionFacts, Ranked
<1>2. TagResolved(t, v, ignore)
  <2>1. CASE free = {}
    <3>1. t = NoTag
      BY <2>1, Zenon DEF generateInboundTag
    <3> QED
      BY <3>1, NoTagType, Zenon DEF TagResolved
  <2>2. CASE free # {}
    <3>1. t = Numbered(composeInboundTag(v), Nth(free, 1))
      BY <2>2, Zenon DEF generateInboundTag
    <3>2. ~tagExists(t, ignore)
      BY <1>1, <2>2, <3>1, Zenon
    <3>3. t \in Tags /\ Numbered(t, 0) = composeInboundTag(v)
      BY <1>1, <2>2, <3>1, ComposeType, Zenon
    <3> QED
      BY <3>2, <3>3, Zenon DEF TagResolved
  <2> QED
    BY <2>1, <2>2, Zenon
<1> QED
  BY <1>0, <1>2, Zenon DEF resolveInboundTag, TagResolved

-----------------------------------------------------------------------------
(* Requests.                                                               *)

LEMMA ReqTypes ==
    ASSUME NEW r \in Requests
    PROVE  /\ r.v \in Inbounds /\ r.old \in Inbounds /\ r.id \in Nat /\ r.base \in Bases
           /\ r.fbs \in Seq(Fallbacks) /\ r.op \in {"add", "update"}
BY Zenon DEF Requests

\* One field set leaves the others.
LEMMA ReqStep ==
    ASSUME NEW r \in Requests, NEW x \in Steps
    PROVE  LET q == [r EXCEPT !.step = x]
           IN /\ q \in Requests
              /\ q.step = x /\ q.op = r.op /\ q.id = r.id /\ q.v = r.v /\ q.old = r.old
              /\ q.base = r.base
<1>1. [r EXCEPT !.step = x] \in Requests
  BY Zenon DEF Requests
<1> QED
  BY <1>1, Zenon DEF Requests

LEMMA ReqId ==
    ASSUME NEW r \in Requests, NEW x \in Nat
    PROVE  LET q == [r EXCEPT !.id = x]
           IN /\ q \in Requests
              /\ q.step = r.step /\ q.op = r.op /\ q.id = x /\ q.v = r.v /\ q.old = r.old
              /\ q.base = r.base
<1>1. [r EXCEPT !.id = x] \in Requests
  BY Zenon DEF Requests
<1> QED
  BY <1>1, Zenon DEF Requests

LEMMA ReqV ==
    ASSUME NEW r \in Requests, NEW x \in Inbounds
    PROVE  LET q == [r EXCEPT !.v = x]
           IN /\ q \in Requests
              /\ q.step = r.step /\ q.op = r.op /\ q.id = r.id /\ q.v = x /\ q.old = r.old
              /\ q.base = r.base
<1>1. [r EXCEPT !.v = x] \in Requests
  BY Zenon DEF Requests
<1> QED
  BY <1>1, Zenon DEF Requests

LEMMA ReqOld ==
    ASSUME NEW r \in Requests, NEW x \in Inbounds
    PROVE  LET q == [r EXCEPT !.old = x]
           IN /\ q \in Requests
              /\ q.step = r.step /\ q.op = r.op /\ q.id = r.id /\ q.v = r.v /\ q.old = x
              /\ q.base = r.base
<1>1. [r EXCEPT !.old = x] \in Requests
  BY Zenon DEF Requests
<1> QED
  BY <1>1, Zenon DEF Requests

LEMMA ReqPut ==
    ASSUME IInv, NEW c \in {"form", "clone"}, NEW x, x = NoReq \/ Sound(x),
           req' = [req EXCEPT ![c] = x]
    PROVE  ReqInv' /\ req'[c] = x /\ \A d \in {"form", "clone"} \ {c} : req'[d] = req[d]
<1>1. ReqInv
  BY Zenon DEF IInv
<1>2. req' = [d \in {"form", "clone", "client"} |-> req'[d]] /\ req'[c] = x
  BY <1>1, Zenon DEF ReqInv
<1>3. \A d \in {"form", "clone", "client"} : d # c => req'[d] = req[d]
  BY <1>1, Zenon DEF ReqInv
<1>4. \A d \in {"form", "clone"} : req'[d] = NoReq \/ Sound(req'[d])
  BY <1>1, <1>2, <1>3, Zenon DEF ReqInv
<1>5. req'["client"] = NoReq \/ SoundClient(req'["client"])
  BY <1>1, <1>3, Zenon DEF ReqInv
<1> QED
  BY <1>2, <1>3, <1>4, <1>5, Zenon DEF ReqInv

LEMMA ClientPut ==
    ASSUME IInv, NEW x, x = NoReq \/ SoundClient(x), req' = [req EXCEPT !["client"] = x]
    PROVE  ReqInv' /\ \A d \in {"form", "clone"} : req'[d] = req[d]
<1>1. ReqInv
  BY Zenon DEF IInv
<1>2. req' = [d \in {"form", "clone", "client"} |-> req'[d]] /\ req'["client"] = x
  BY <1>1, Zenon DEF ReqInv
<1>3. \A d \in {"form", "clone"} : req'[d] = req[d]
  BY <1>1, Zenon DEF ReqInv
<1> QED
  BY <1>1, <1>2, <1>3, Zenon DEF ReqInv

\* A request under way is sound.
LEMMA UnderWay ==
    ASSUME IInv, NEW c \in {"form", "clone"}, req[c].step \in Steps
    PROVE  Sound(req[c])
BY DEF IInv, ReqInv, NoReq, Steps

\* A request moves on: the step alone changes.
LEMMA StepSet ==
    ASSUME NEW r, Sound(r), NEW x \in Steps \ {"sent", "read"},
           r.op = "add" /\ x # "refused" => r.step \in {"ok", "fallbacks"}
    PROVE  Sound([r EXCEPT !.step = x])
<1> DEFINE q == [r EXCEPT !.step = x]
<1>1. r \in Requests
  BY Zenon DEF Sound
<1>2. q \in Requests
  BY <1>1, ReqStep, Zenon
<1>3. q.step = x /\ q.op = r.op /\ q.id = r.id /\ q.base = r.base
  BY <1>1, ReqStep, Zenon
<1> HIDE DEF q
<1>4. q.op = "update" => UpdateInv(q)
  BY <1>3, Zenon DEF Sound, UpdateInv
<1>5. q.op = "add" => AddInv(q)
  BY <1>3, Zenon DEF Sound, AddInv
<1> QED
  BY <1>2, <1>4, <1>5, Zenon DEF Sound, q

LEMMA RefuseKeeps ==
    ASSUME IInv, NEW c \in {"form", "clone"}, req[c].step \in Steps,
           req' = [req EXCEPT ![c].step = "refused"]
    PROVE  ReqInv' /\ req'[c].step = "refused"
<1>1. Sound(req[c])
  BY UnderWay, Zenon
<1>2. Sound([req[c] EXCEPT !.step = "refused"])
  BY <1>1, StepSet, Zenon DEF Steps
<1>3. [req[c] EXCEPT !.step = "refused"].step = "refused"
  BY <1>1, Zenon DEF Sound, Requests
<1> QED
  BY <1>2, <1>3, ReqPut, Zenon

\* UpdateInbound reads the row: the values sent move to its node.
LEMMA UpdateRead ==
    ASSUME NEW r, Sound(r), r.op = "update", r.step = "sent", NEW row \in Inbounds
    PROVE  /\ [r EXCEPT !.v = normalizeStreamSettings(@)] = r
           /\ Sound([r EXCEPT !.step = "read", !.old = row, !.v.node = row.node])
<1> DEFINE a == [r EXCEPT !.step = "read"]
           b == [a EXCEPT !.old = row]
           w == [r.v EXCEPT !.node = row.node]
           q == [b EXCEPT !.v = w]
<1>1. r \in Requests /\ UpdateInv(r)
  BY Zenon DEF Sound
<1>2. r.v \in Inbounds /\ r.v = normalizeStreamSettings(r.v) /\ row.node \in Nat
  BY <1>1, ReqTypes, NormalizeNormal, Zenon DEF UpdateInv, Inbounds
<1>3. [r EXCEPT !.v = normalizeStreamSettings(@)] = r
  BY <1>1, <1>2, Zenon DEF Requests
<1>4. a \in Requests /\ a.step = "read" /\ a.op = r.op /\ a.id = r.id /\ a.v = r.v /\ a.base = r.base
  <2>1. "read" \in Steps
    BY Zenon DEF Steps
  <2> QED
    BY <1>1, <2>1, ReqStep, Zenon
<1> HIDE DEF a
<1>5. /\ b \in Requests /\ b.step = "read" /\ b.op = r.op /\ b.id = r.id /\ b.v = r.v /\ b.base = r.base
      /\ b.old = row
  BY <1>4, ReqOld, Zenon
<1> HIDE DEF b
<1>6. /\ w \in Inbounds /\ w.node = row.node /\ w.protocol = r.v.protocol /\ w.port = r.v.port
      /\ w.network = r.v.network /\ w.l4 = r.v.l4 /\ w.security = r.v.security
      /\ row.node = r.v.node => w = r.v
  <2>1. w \in Inbounds
    BY <1>2, Puts, Zenon
  <2> QED
    BY <1>2, <2>1, Zenon DEF Inbounds
<1> HIDE DEF w
<1>7. /\ q \in Requests /\ q.step = "read" /\ q.op = r.op /\ q.id = r.id /\ q.v = w /\ q.base = r.base
      /\ q.old = row
  BY <1>5, <1>6, ReqV, Zenon
<1>8. q = [r EXCEPT !.step = "read", !.old = row, !.v.node = row.node]
  BY <1>5, Zenon DEF a, b, w
<1> HIDE DEF q
<1>9. FromBase(w, r.base) /\ Normal(w)
  BY <1>1, <1>6, Zenon DEF UpdateInv, FromBase, Normal
<1>10. w.node = r.base.row.node => TagFrom(w, r.base.row.tag)
  BY <1>1, <1>6, Zenon DEF UpdateInv
<1>11. UpdateInv(q)
  BY <1>1, <1>6, <1>7, <1>9, <1>10, Zenon DEF UpdateInv
<1> QED
  BY <1>3, <1>7, <1>8, <1>11, Zenon DEF Sound

\* AddInbound resolves the tag: it tells what the values do, unless the values
\* were sent with a transport that was dropped.
LEMMA AddRead ==
    ASSUME NEW r, Sound(r), r.op = "add", r.step = "sent", NEW tag, tag # NoTag,
           TagResolved(tag, normalizeStreamSettings(r.v), 0)
    PROVE  Sound([[r EXCEPT !.v = normalizeStreamSettings(@)] EXCEPT !.step = "read", !.v.tag = tag])
<1> DEFINE n == normalizeStreamSettings(r.v)
           p == [r EXCEPT !.v = n]
           a == [p EXCEPT !.step = "read"]
           w == [n EXCEPT !.tag = tag]
           q == [a EXCEPT !.v = w]
<1>1. r \in Requests /\ AddInv(r)
  BY Zenon DEF Sound
<1>2. r.v \in Inbounds /\ r.old = r.v /\ TagFrom(r.v, NoTag)
  BY <1>1, ReqTypes, Zenon DEF AddInv
<1>3. n \in Inbounds /\ Normal(n) /\ n.port = r.v.port /\ n.node = r.v.node /\ n.tag = r.v.tag
  BY <1>2, NormalizeFields, Zenon
<1>4. tag \in Tags /\ (tag = n.tag \/ Numbered(tag, 0) = composeInboundTag(n))
  BY Zenon DEF TagResolved
<1> HIDE DEF n
<1>5. p \in Requests /\ p.op = r.op /\ p.v = n /\ p.old = r.v /\ p.base = r.base
  BY <1>1, <1>2, <1>3, ReqV, Zenon
<1> HIDE DEF p
<1>6. a \in Requests /\ a.step = "read" /\ a.op = r.op /\ a.v = n /\ a.old = r.v
  <2>1. "read" \in Steps
    BY Zenon DEF Steps
  <2> QED
    BY <1>5, <2>1, ReqStep, Zenon
<1> HIDE DEF a
<1>7. w \in Inbounds /\ SameFields(w, n) /\ w.tag = tag
  <2>1. w \in Inbounds
    BY <1>3, <1>4, Puts, Zenon
  <2> QED
    BY <1>3, <2>1, Zenon DEF Inbounds, SameFields
<1> HIDE DEF w
<1>8. q \in Requests /\ q.step = "read" /\ q.op = r.op /\ q.v = w /\ q.old = r.v
  BY <1>6, <1>7, ReqV, Zenon
<1>9. q = [[r EXCEPT !.v = normalizeStreamSettings(@)] EXCEPT !.step = "read", !.v.tag = tag]
  BY <1>6, Zenon DEF a, p, n, w
<1> HIDE DEF q
<1>10. composeInboundTag(w) = composeInboundTag(n) /\ inboundTransports(w) = inboundTransports(n)
  BY <1>7, SameCompose, Zenon
<1>11. InStep(w) \/ inboundTransports(r.v) # inboundTransports(w)
  <2>1. CASE Numbered(tag, 0) = composeInboundTag(n)
    BY <1>7, <1>10, <2>1, Zenon DEF InStep
  <2>2. CASE tag = r.v.tag /\ tag \in CustomTags
    BY <1>7, <2>2, Zenon DEF InStep
  <2>3. CASE tag = composeInboundTag(r.v) /\ inboundTransports(r.v) = inboundTransports(n)
    <3>1. composeInboundTag(r.v) = composeInboundTag(n)
      BY <1>3, <2>3, Zenon DEF composeInboundTag
    <3>2. Numbered(composeInboundTag(n), 0) = composeInboundTag(n)
      BY DEF composeInboundTag, Numbered
    <3> QED
      BY <1>7, <1>10, <2>3, <3>1, <3>2, Zenon DEF InStep
  <2> QED
    BY <1>2, <1>3, <1>4, <1>10, <2>1, <2>2, <2>3, Zenon DEF TagFrom
<1>12. Normal(w)
  BY <1>3, <1>7, Zenon DEF Normal, SameFields
<1>13. AddInv(q)
  BY <1>8, <1>11, <1>12, Zenon DEF AddInv
<1> QED
  BY <1>8, <1>9, <1>13, Zenon DEF Sound

LEMMA ReadFirstKeeps ==
    ASSUME SelectionFacts, IInv, NEW c \in {"form", "clone"}, ReadFirst(c)
    PROVE  ReqInv' /\ req'[c].step # "ok"
<1> DEFINE r == [req[c] EXCEPT !.v = normalizeStreamSettings(@)]
           tag == resolveInboundTag(r.v, 0)
<1>1. Sound(req[c]) /\ req[c].step = "sent"
  BY UnderWay, Zenon DEF ReadFirst, Steps
<1>2. CASE req' = [req EXCEPT ![c].step = "refused"]
  BY <1>1, <1>2, RefuseKeeps, Zenon DEF Steps
<1>3. req[c] \in Requests /\ req[c].v \in Inbounds
  BY <1>1, ReqTypes, Zenon DEF Sound
<1>4. r \in Requests /\ r.v = normalizeStreamSettings(req[c].v) /\ r.op = req[c].op /\ r.id = req[c].id
  <2>1. normalizeStreamSettings(req[c].v) \in Inbounds
    BY <1>3, NormalizeFields, Zenon
  <2> QED
    BY <1>3, <2>1, ReqV, Zenon
<1>5. CASE /\ r.op = "add" /\ tag # NoTag
           /\ req' = [req EXCEPT ![c] = [r EXCEPT !.step = "read", !.v.tag = tag]]
  <2>1. TagResolved(tag, normalizeStreamSettings(req[c].v), 0)
    BY <1>3, <1>4, NormalizeFields, ResolvedTag, Zenon
  <2> HIDE DEF tag
  <2>2. Sound([r EXCEPT !.step = "read", !.v.tag = tag])
    BY <1>1, <1>4, <1>5, <2>1, AddRead, Zenon
  <2>3. [r EXCEPT !.step = "read", !.v.tag = tag].step = "read"
    BY <1>4, Zenon DEF Requests
  <2> QED
    BY <1>5, <2>2, <2>3, ReqPut, Zenon
<1>6. CASE /\ r.op # "add" /\ r.id \in DOMAIN rows
           /\ req' = [req EXCEPT ![c] = [r EXCEPT !.step = "read", !.old = rows[r.id],
                                                  !.v.node = rows[r.id].node]]
  <2>1. rows[r.id] \in Inbounds /\ req[c].op = "update"
    BY <1>3, <1>4, <1>6, ReqTypes, Zenon DEF IInv, TableInv, IsTable, NormalInbounds
  <2>2. r = req[c] /\ Sound([req[c] EXCEPT !.step = "read", !.old = rows[r.id], !.v.node = rows[r.id].node])
    BY <1>1, <2>1, UpdateRead, Zenon
  <2>3. [r EXCEPT !.step = "read", !.old = rows[r.id], !.v.node = rows[r.id].node].step = "read"
    BY <1>4, Zenon DEF Requests
  <2> QED
    BY <1>6, <2>2, <2>3, ReqPut, Zenon
<1> QED
  BY <1>2, <1>5, <1>6, Zenon DEF ReadFirst, Refuse

\* What a commit makes of the row the form was filled from, and of its tag.
EditsSaved(r) ==
    /\ r.base.id = r.id
    /\ rows'[r.id].clients = rows[r.id].clients
    /\ \A f \in {"protocol", "port", "node", "network", "l4", "security"} \ r.base.touched :
          \/ rows'[r.id][f] = r.base.row[f]
          \/ f = "node" /\ r.base.row.node # r.old.node

Outdated(r) ==
    /\ r.op = "update"
    /\ r.base.row.tag # r.old.tag \/ r.base.row.node # r.old.node \/ ~InStep(r.old)
Leftover(r) == r.op = "add" /\ inboundTransports(r.old) # inboundTransports(r.v)

Apart(table, id) ==
    \A j \in DOMAIN table \ {id} :
       /\ table[id].tag # table[j].tag
       /\ \/ <<table[id].node, table[id].port>> # <<table[j].node, table[j].port>>
          \/ inboundTransports(table[id]) \cap inboundTransports(table[j]) = {}

\* An updated tag is in step wherever the form was filled from the row as it is.
LEMMA UpdatedTagFollows ==
    ASSUME SelectionFacts, NEW r, Sound(r), r.op = "update", r.step = "read"
    PROVE  /\ UpdatedTag(r) \in Tags
           /\ UpdatedTag(r) # NoTag => ~tagExists(UpdatedTag(r), r.id)
           /\ \/ UpdatedTag(r) = NoTag \/ Outdated(r) \/ UpdatedTag(r) \in CustomTags
              \/ Numbered(UpdatedTag(r), 0) = composeInboundTag(r.v)
<1> DEFINE unchanged == r.v.tag = r.old.tag /\ isAutoInboundTag(r.old.tag, r.old)
           t == UpdatedTag(r)
           u == [r.v EXCEPT !.tag = NoTag]
<1>1. r \in Requests /\ UpdateInv(r) /\ r.v \in Inbounds
  BY ReqTypes, Zenon DEF Sound
<1>2. CASE unchanged
  <2>1. u \in Inbounds
    BY <1>1, Puts, NoTagType, Zenon
  <2>2. TagResolved(t, u, r.id)
    BY <1>2, <2>1, ResolvedTag, Zenon DEF UpdatedTag
  <2>3. u.tag = NoTag /\ SameFields(u, r.v)
    BY <1>1, Zenon DEF Inbounds, SameFields
  <2>4. composeInboundTag(u) = composeInboundTag(r.v)
    BY <2>3, SameCompose, Zenon
  <2> QED
    BY <2>2, <2>3, <2>4, Zenon DEF TagResolved
<1>3. CASE ~unchanged
  <2>1. TagResolved(t, r.v, r.id)
    BY <1>1, <1>3, ResolvedTag, Zenon DEF UpdatedTag
  <2>2. CASE t = r.v.tag /\ ~Outdated(r)
    <3>1. TagFrom(r.v, r.old.tag) /\ InStep(r.old)
      BY <1>1, <2>2, Zenon DEF UpdateInv, Outdated
    <3>2. Numbered(composeInboundTag(r.v), 0) = composeInboundTag(r.v)
      BY DEF Numbered, composeInboundTag
    <3> QED
      BY <1>3, <2>1, <2>2, <3>1, <3>2, Zenon DEF TagFrom, InStep, isAutoInboundTag, TagResolved
  <2> QED
    BY <2>1, <2>2, Zenon DEF TagResolved
<1> QED
  BY <1>2, <1>3, Zenon

\* A row set apart in socket and tag.
LEMMA StoredApart ==
    ASSUME NEW table, NEW id \in DOMAIN table, NEW v, SameFields(table[id], v),
           \A j \in DOMAIN table \ {id} : j \in DOMAIN rows /\ table[j] = rows[j],
           NEW ignore, \A j \in DOMAIN table \ {id} : j # ignore,
           ~checkPortConflictTx(v, ignore), ~tagExists(table[id].tag, ignore)
    PROVE  Apart(table, id)
<1>1. inboundTransports(table[id]) = inboundTransports(v)
  BY SameCompose, Zenon
<1>2. table[id].node = v.node /\ table[id].port = v.port
  BY Zenon DEF SameFields
<1> QED
  BY <1>1, <1>2, Zenon DEF Apart, checkPortConflictTx, tagExists

\* A table with a row added or replaced.
LEMMA RowAdded ==
    ASSUME SelectionFacts, NEW table, IsTable(table), NEW id \in Ids, NEW row \in NormalInbounds
    PROVE  IsTable([i \in DOMAIN table \cup {id} |-> IF i = id THEN row ELSE table[i]])
<1>1. IsFiniteSet(DOMAIN table \cup {id})
  BY Zenon DEF IsTable, SelectionFacts
<1> QED
  BY <1>1, Zenon DEF IsTable

LEMMA UpdateTxKeeps ==
    ASSUME SelectionFacts, IInv, NEW c \in {"form", "clone"}, UpdateTx(c)
    PROVE  /\ TableInv' /\ ReqInv'
           /\ req'[c].step = "ok" =>
                /\ req[c].op = "update" /\ req'[c].id = req[c].id /\ EditsSaved(req[c])
                /\ InStep(rows'[req[c].id]) \/ Outdated(req[c])
                /\ Apart(rows', req[c].id)
<1> DEFINE r == req[c]
           row == [ShareNormal(r.v) EXCEPT !.tag = UpdatedTag(r), !.clients = reconcileInboundEditClients(r)]
<1>1. Sound(r) /\ r.step = "read" /\ r.op = "update"
  BY UnderWay, Zenon DEF UpdateTx, Steps
<1>2. r \in Requests /\ UpdateInv(r) /\ r.v \in NormalInbounds
  BY <1>1, ReqTypes, Zenon DEF Sound, UpdateInv, NormalInbounds
<1>3. CASE Refuse(c)
  <2>1. ReqInv' /\ req'[c].step = "refused"
    BY <1>1, <1>3, RefuseKeeps, Zenon DEF Refuse, Steps
  <2> QED
    BY <1>3, <2>1, Kept, Zenon DEF Refuse, serverVars
<1>4. CASE /\ r.id \in DOMAIN rows /\ ~checkPortConflictTx(r.v, r.id) /\ UpdatedTag(r) # NoTag
           /\ rows' = [rows EXCEPT ![r.id] = row] /\ req' = [req EXCEPT ![c].step = "ok"]
           /\ UNCHANGED nextId
  <2>1. TableInv /\ rows[r.id] \in Inbounds /\ rows[r.id].clients \in Clients
    BY <1>4, Zenon DEF IInv, TableInv, IsTable, NormalInbounds, Inbounds
  <2>2. UpdatedTag(r) \in Tags /\ ~tagExists(UpdatedTag(r), r.id)
    BY <1>1, <1>4, UpdatedTagFollows, Zenon
  <2>3. /\ row \in NormalInbounds /\ SameFields(row, r.v) /\ row.tag = UpdatedTag(r)
        /\ row.clients = rows[r.id].clients
    <3>1. reconcileInboundEditClients(r) = rows[r.id].clients /\ reconcileInboundEditClients(r) \in Clients
      BY <2>1, Zenon DEF reconcileInboundEditClients
    <3>2. RowOf(row, r.v, UpdatedTag(r), reconcileInboundEditClients(r))
      BY <1>2, <2>2, <3>1, RowStored, Zenon
    <3> HIDE DEF row
    <3> QED
      BY <3>1, <3>2, Zenon DEF RowOf
  <2> HIDE DEF row
  <2>4. DOMAIN rows' = DOMAIN rows /\ rows'[r.id] = row /\ \A j \in DOMAIN rows \ {r.id} : rows'[j] = rows[j]
    BY <1>4, Zenon
  <2>5. TableInv'
    BY <1>4, <2>1, <2>3, <2>4, Zenon DEF TableInv, IsTable
  <2>6. Sound([r EXCEPT !.step = "ok"]) /\ [r EXCEPT !.step = "ok"].id = r.id
    <3>1. Sound([r EXCEPT !.step = "ok"])
      BY <1>1, StepSet, Zenon DEF Steps
    <3> QED
      BY <1>2, <3>1, Zenon DEF Requests
  <2>7. ReqInv' /\ req'[c].id = r.id
    BY <1>4, <2>6, ReqPut, Zenon
  <2>8. EditsSaved(r)
    BY <1>1, <1>2, <2>3, <2>4 DEF EditsSaved, UpdateInv, FromBase, SameFields
  <2>9. InStep(row) \/ Outdated(r)
    <3>1. composeInboundTag(row) = composeInboundTag(r.v)
      BY <2>3, SameCompose, Zenon
    <3>2. \/ Outdated(r) \/ UpdatedTag(r) \in CustomTags
          \/ Numbered(UpdatedTag(r), 0) = composeInboundTag(r.v)
      BY <1>1, <1>4, UpdatedTagFollows, Zenon
    <3> QED
      BY <2>3, <3>1, <3>2, Zenon DEF InStep
  <2>10. Apart(rows', r.id)
    <3>1. \A j \in DOMAIN rows' \ {r.id} : j \in DOMAIN rows /\ rows'[j] = rows[j] /\ j # r.id
      BY <2>4, Zenon
    <3>2. SameFields(rows'[r.id], r.v) /\ ~tagExists(rows'[r.id].tag, r.id) /\ r.id \in DOMAIN rows'
      BY <1>4, <2>2, <2>3, <2>4, Zenon
    <3> QED
      BY <1>4, <3>1, <3>2, StoredApart, Zenon
  <2> QED
    BY <1>1, <2>4, <2>5, <2>7, <2>8, <2>9, <2>10, Zenon
<1> QED
  BY <1>3, <1>4, Zenon DEF UpdateTx

LEMMA AddTxKeeps ==
    ASSUME SelectionFacts, IInv, NEW c \in {"form", "clone"}, AddTx(c)
    PROVE  /\ TableInv' /\ ReqInv'
           /\ req'[c].step = "ok" =>
                /\ req[c].op = "add"
                /\ InStep(rows'[req'[c].id]) \/ Leftover(req[c])
                /\ Apart(rows', req'[c].id)
<1> DEFINE r == req[c]
           row == ShareNormal(r.v)
<1>1. Sound(r) /\ r.step = "read" /\ r.op = "add"
  BY UnderWay, Zenon DEF AddTx, Steps
<1>2. r \in Requests /\ AddInv(r) /\ r.v \in NormalInbounds
  BY <1>1, ReqTypes, Zenon DEF Sound, AddInv, NormalInbounds
<1>3. CASE Refuse(c)
  <2>1. ReqInv' /\ req'[c].step = "refused"
    BY <1>1, <1>3, RefuseKeeps, Zenon DEF Refuse, Steps
  <2> QED
    BY <1>3, <2>1, Kept, Zenon DEF Refuse, serverVars
<1>4. CASE /\ ~checkPortConflictTx(r.v, 0) /\ ~tagExists(r.v.tag, 0)
           /\ rows' = [i \in DOMAIN rows \cup {nextId} |-> IF i = nextId THEN row ELSE rows[i]]
           /\ nextId' = nextId + 1
           /\ req' = [req EXCEPT ![c].step = "ok", ![c].id = nextId]
  <2>1. TableInv /\ nextId \in Nat /\ nextId # 0
    BY Zenon DEF IInv, TableInv, Ids
  <2>2. row \in NormalInbounds /\ SameFields(row, r.v) /\ row.tag = r.v.tag
    BY <1>2, ShareNormalKeeps, Zenon
  <2> HIDE DEF row
  <2>3. TableInv'
    BY <1>4, <2>1, <2>2, RowAdded DEF TableInv, Ids
  <2> DEFINE a == [r EXCEPT !.step = "ok"]
             q == [a EXCEPT !.id = nextId]
  <2>4. Sound(q) /\ q.id = nextId
    <3>1. a \in Requests /\ a.step = "ok" /\ a.op = "add"
      <4>1. "ok" \in Steps
        BY Zenon DEF Steps
      <4> QED
        BY <1>1, <1>2, <4>1, ReqStep, Zenon
    <3> HIDE DEF a
    <3>2. q \in Requests /\ q.step = "ok" /\ q.op = "add" /\ q.id = nextId
      BY <2>1, <3>1, ReqId, Zenon
    <3> HIDE DEF q
    <3> QED
      BY <2>1, <3>2, Zenon DEF Sound, AddInv
  <2>5. req' = [req EXCEPT ![c] = q]
    BY <1>4, Zenon DEF IInv, ReqInv
  <2> HIDE DEF q
  <2>6. ReqInv' /\ req'[c] = q
    BY <2>4, <2>5, ReqPut, Zenon
  <2>7. InStep(row) \/ Leftover(r)
    <3>1. composeInboundTag(row) = composeInboundTag(r.v)
      BY <2>2, SameCompose, Zenon
    <3> QED
      BY <1>1, <1>2, <2>2, <3>1, Zenon DEF AddInv, InStep, Leftover
  <2>8. Apart(rows', nextId)
    <3>1. /\ nextId \in DOMAIN rows' /\ rows'[nextId] = row
          /\ \A j \in DOMAIN rows' \ {nextId} : j \in DOMAIN rows /\ rows'[j] = rows[j]
      BY <1>4, Zenon
    <3>2. \A j \in DOMAIN rows' \ {nextId} : j # 0
      BY <2>1, <3>1, Zenon DEF TableInv, IsTable, Ids
    <3>3. SameFields(rows'[nextId], r.v) /\ ~tagExists(rows'[nextId].tag, 0)
      BY <1>4, <2>2, <3>1, Zenon
    <3> QED
      BY <1>4, <3>1, <3>2, <3>3, StoredApart
  <2>9. rows'[nextId] = row
    BY <1>4, Zenon
  <2> QED
    BY <1>1, <2>3, <2>4, <2>6, <2>7, <2>8, <2>9, Zenon
<1> QED
  BY <1>3, <1>4, Zenon DEF AddTx
=============================================================================
