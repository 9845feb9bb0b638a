----------------------------- MODULE InboundForm -----------------------------
(***************************************************************************)
(* Creating, editing and cloning inbounds: the row actions of the Inbounds *)
(* page (InboundsPage.tsx), which fetch a row before they open a dialog;   *)
(* the form with the effects that keep its tag and share strategy in step  *)
(* (InboundFormModal.tsx, inbound-tag.ts); the fallback rows beside it     *)
(* (useInboundFallbacks.ts); the clone dialog (CloneInboundModal.tsx); and *)
(* the handlers behind them, AddInbound, UpdateInbound and SetByMaster.    *)
(* Other admins edit clients and delete inbounds at the same time.         *)
(*                                                                         *)
(* A row is abstracted to what decides its socket, its tag and its links;  *)
(* a client to the number of its last edit, 0 where it is not attached.    *)
(***************************************************************************)
EXTENDS Naturals, Sequences, FiniteSets, Selections

CONSTANTS Worlds,      \* circumstances: rows, fallback lists, online nodes, menu, budgets
          Ports,       \* the ports the dialogs choose from
          CustomTags,  \* tags nobody would generate
          Emails       \* the clients there are

VARIABLES world,    \* the circumstances of this behaviour, fixed by Init
          rows,     \* inbounds table: id -> row
          nextId,   \* its next id
          lists,    \* inbound_fallbacks table: master id -> rows in order
          cache,    \* dbInbounds, the page's list
          hyd,      \* hydrateInbound calls under way
          form,     \* open, mode and dbInbound of the form
          vals,     \* the form's values
          tagging,  \* autoTagRef and lastWrittenTagRef
          nodesFetched,
          fbs,      \* the fallback rows shown
          loads,    \* loadFallbacks calls under way
          clone,    \* the clone dialog and its submit loop
          req,      \* the requests of the form, of the clone dialog and of another admin
          base,     \* history: what the form was filled from, the fields edited since
          budget    \* clicks, edits, edits of others and faults left

serverVars == <<rows, nextId, lists>>
formVars == <<form, vals, tagging, base>>
vars == <<world, rows, nextId, lists, cache, hyd, form, vals, tagging, nodesFetched,
          fbs, loads, clone, req, base, budget>>

Protocols == {"vmess", "vless", "trojan", "shadowsocks", "wireguard", "hysteria", "http", "mixed",
              "tunnel", "tun", "mtproto", "amneziawg", "tuic"}
Networks == {"unset", "tcp", "kcp", "quic", "ws", "grpc", "httpupgrade", "xhttp", "hysteria"}
Securities == {"none", "tls", "reality"}
Strategies == {"unset", "node", "listen", "custom"}
Transports == {"tcp", "udp"}
Tags == [kind : {"none", "auto", "custom"}, node : Nat, port : Nat, l4 : SUBSET Transports, n : Nat]
NoClients == <<>>
Clients == [Emails -> Nat] \cup {NoClients}

\* An inbound, in the table and in the dialogs.
Inbounds ==
    [protocol : Protocols, port : Nat, node : Nat, network : Networks, l4 : SUBSET Transports,
     security : Securities, tag : Tags, strategy : Strategies, addr : BOOLEAN, clients : Clients]

Spend(kind) == budget[kind] > 0 /\ budget' = [budget EXCEPT ![kind] = @ - 1]

-----------------------------------------------------------------------------
(* Tags.  A generated tag tells the node, the port and the transports, and *)
(* ends in a number where the plain one was taken.                         *)

NODE_ELIGIBLE_PROTOCOLS == {"vless", "vmess", "trojan", "shadowsocks", "hysteria", "wireguard"}
NoTag == [kind |-> "none", node |-> 0, port |-> 0, l4 |-> {}, n |-> 0]

inboundTransports(v) ==
    LET stream == IF v.network \in {"kcp", "quic"} THEN "udp" ELSE "tcp"
    IN CASE v.protocol \in {"hysteria", "wireguard", "amneziawg", "tuic"} -> {"udp"}
         [] v.protocol \in {"shadowsocks", "tunnel"} /\ v.l4 # {} -> v.l4
         [] v.protocol = "mixed" -> {stream} \cup (v.l4 \cap {"udp"})
         [] OTHER -> {stream}

composeInboundTag(v) ==
    [kind |-> "auto", node |-> v.node, port |-> v.port, l4 |-> inboundTransports(v), n |-> 0]
Numbered(tag, n) == [tag EXCEPT !.n = n]

isAutoInboundTag(tag, v) == tag = NoTag \/ Numbered(tag, 0) = composeInboundTag(v)

tagExists(tag, ignore) == \E i \in DOMAIN rows \ {ignore} : rows[i].tag = tag

\* NoTag for the error: all the numbers are taken.
generateInboundTag(v, ignore) ==
    LET free == {n \in {0} \cup 2 .. 99 : ~tagExists(Numbered(composeInboundTag(v), n), ignore)}
    IN IF free = {} THEN NoTag ELSE Numbered(composeInboundTag(v), Nth(free, 1))

resolveInboundTag(v, ignore) ==
    IF v.tag # NoTag /\ ~tagExists(v.tag, ignore) THEN v.tag ELSE generateInboundTag(v, ignore)

checkPortConflictTx(v, ignore) ==
    \E i \in DOMAIN rows \ {ignore} :
        /\ rows[i].node = v.node /\ rows[i].port = v.port
        /\ inboundTransports(rows[i]) \cap inboundTransports(v) # {}

-----------------------------------------------------------------------------
(* The form's effects.  A render commits the watched values w; the effects *)
(* whose dependencies changed since the last commit run, in order, and may *)
(* write further values, which the next render commits.                    *)

HasNodes(v) == world.nodes # {} /\ v.protocol \in NODE_ELIGIBLE_PROTOCOLS
NodeOption(v) == nodesFetched /\ HasNodes(v)

\* What the effect on the tag's parts depends on.
TagParts(v) == <<v.port, v.node, v.protocol, v.network, v.l4>>

\* The effect on the tag: one the user typed turns the automatic tag off.
TagSeen(s, w, opening) ==
    IF (opening \/ w.tag # s.seen.tag) /\ w.tag # s.last
    THEN [s EXCEPT !.auto = isAutoInboundTag(w.tag, w)] ELSE s

\* The effect on what the tag is made of.
AutoTag(s, w, opening) ==
    LET next == composeInboundTag(w)
    IN IF /\ opening \/ TagParts(w) # TagParts(s.seen)
          /\ s.auto /\ next # s.v.tag
       THEN [s EXCEPT !.v.tag = next, !.last = next] ELSE s

\* The effect on the share strategy.
ShareStrategy(s, w, opening) ==
    IF ~opening /\ <<w.protocol, w.strategy>> = <<s.seen.protocol, s.seen.strategy>> THEN s
    ELSE IF w.protocol = "mtproto" THEN [s EXCEPT !.v.strategy = "listen", !.v.addr = FALSE]
    ELSE IF nodesFetched /\ ~NodeOption(w) /\ s.v.strategy = "node"
    THEN [s EXCEPT !.v.strategy = "listen"] ELSE s

Commit(s, w, opening) ==
    [ShareStrategy(AutoTag(TagSeen(s, w, opening), w, opening), w, opening) EXCEPT !.seen = w]

\* Two more commits settle the form: a tag or strategy written by an effect
\* changes nothing the other effects depend on.
Settle(s) == LET once == Commit(s, s.v, FALSE) IN Commit(once, once.v, FALSE)

Show(s) == vals' = s.v /\ tagging' = [auto |-> s.auto, last |-> s.last]

\* A change of the values by the user.
Change(v) == Show(Settle([v |-> v, seen |-> vals, auto |-> tagging.auto, last |-> tagging.last]))

-----------------------------------------------------------------------------
(* Opening the form.  The reset effect fills in the values; the other      *)
(* effects of that commit still see the values of the form shown before.   *)

buildAddModeValues(port) ==
    [protocol |-> "vless", port |-> port, node |-> 0, network |-> "tcp", l4 |-> {},
     security |-> "none", tag |-> NoTag, strategy |-> "node", addr |-> FALSE, clients |-> NoClients]

rawInboundToFormValues(row) == [row EXCEPT !.strategy = IF @ = "unset" THEN "node" ELSE @]

loadFallbacks(id) ==
    IF id = 0 THEN fbs' = <<>> /\ UNCHANGED loads
    ELSE loads' = Append(loads, [id |-> id, step |-> "sent", list |-> <<>>]) /\ UNCHANGED <<fbs>>

OpenForm(mode, id, initial) ==
    LET filled == [v |-> initial, seen |-> vals, auto |-> isAutoInboundTag(initial.tag, initial),
                   last |-> initial.tag]
    IN /\ form' = [open |-> TRUE, mode |-> mode, id |-> id]
       /\ Show(Settle(IF form.open THEN filled ELSE Commit(filled, vals, TRUE)))
       /\ base' = [id |-> id, row |-> initial, touched |-> {}]
       /\ loadFallbacks(IF mode = "edit" /\ initial.protocol \in {"vless", "trojan"} THEN id ELSE 0)

-----------------------------------------------------------------------------
(* The page.  An open dialog covers the rows.                              *)

NoClone == [open |-> FALSE, row |-> <<>>, src |-> <<>>, todo |-> <<>>, used |-> <<>>]
NoReq == [step |-> "none"]
Uncovered == ~form.open /\ ~clone.open

Init ==
    /\ world \in Worlds
    /\ rows = world.rows
    /\ nextId = Len(world.rows) + 1
    /\ lists = world.lists
    /\ cache = rows
    /\ hyd = <<>>
    /\ form = [open |-> FALSE, mode |-> "add", id |-> 0]
    /\ \E p \in Ports : vals = buildAddModeValues(p)
    /\ tagging = [auto |-> TRUE, last |-> NoTag]
    /\ nodesFetched = world.fetched
    /\ fbs = <<>>
    /\ loads = <<>>
    /\ clone = NoClone
    /\ req = [c \in {"form", "clone", "client"} |-> NoReq]
    /\ base = [id |-> 0, row |-> vals, touched |-> {}]
    /\ budget = [k \in {"clicks", "edits", "others", "faults"} |-> world[k]]

\* onRowAction, up to the await of hydrateInbound.
onRowAction(key, id) ==
    /\ Uncovered
    /\ key \in world.menu
    /\ Spend("clicks")
    /\ hyd' = Append(hyd, [key |-> key, id |-> id, shown |-> cache[id], step |-> "sent"])
    /\ UNCHANGED <<world, serverVars, cache, formVars, nodesFetched, fbs, loads, clone, req>>

ServeInbound(i) ==
    /\ hyd[i].step = "sent"
    /\ hyd' = [hyd EXCEPT ![i].step = IF hyd[i].id \in DOMAIN rows THEN "ok" ELSE "failed",
                          ![i].shown = IF hyd[i].id \in DOMAIN rows THEN rows[hyd[i].id] ELSE @]
    /\ UNCHANGED <<world, serverVars, cache, formVars, nodesFetched, fbs, loads, clone, req,
                   budget>>

InboundLost(i) ==
    /\ hyd[i].step = "sent"
    /\ Spend("faults")
    /\ hyd' = [hyd EXCEPT ![i].step = "failed"]
    /\ UNCHANGED <<world, serverVars, cache, formVars, nodesFetched, fbs, loads, clone, req>>

\* confirmClone: the picker, or the one-click local clone.
confirmClone(row) ==
    /\ clone' = [clone EXCEPT !.open = TRUE, !.row = row]
    /\ UNCHANGED <<formVars, fbs, loads>>

\* The rest of hydrateInbound and of onRowAction; the row as it was listed
\* where the fetch failed.
Hydrated(i) ==
    LET h == hyd[i]
    IN /\ h.step \in {"ok", "failed"}
       /\ hyd' = Without(hyd, i)
       /\ cache' = IF h.step = "ok" /\ h.id \in DOMAIN cache
                   THEN [cache EXCEPT ![h.id] = h.shown] ELSE cache
       /\ \/ /\ h.key = "edit"
             /\ OpenForm("edit", h.id, rawInboundToFormValues(h.shown))
             /\ UNCHANGED clone
          \/ h.key = "clone" /\ confirmClone(h.shown)
       /\ UNCHANGED <<world, serverVars, nodesFetched, req, budget>>

onAddInbound ==
    /\ Uncovered
    /\ "add" \in world.menu
    /\ Spend("clicks")
    /\ \E p \in Ports : OpenForm("add", 0, buildAddModeValues(p))
    /\ UNCHANGED <<world, serverVars, cache, hyd, nodesFetched, clone, req>>

\* useInbounds refetches its list after an invalidation.
Refetch ==
    /\ cache # rows
    /\ cache' = rows
    /\ UNCHANGED <<world, serverVars, hyd, formVars, nodesFetched, fbs, loads, clone, req,
                   budget>>

\* The nodes query answers: the share strategy effect runs.
NodesFetched ==
    /\ ~nodesFetched
    /\ nodesFetched' = TRUE
    /\ vals' = IF form.open /\ vals.protocol # "mtproto" /\ ~HasNodes(vals) /\ vals.strategy = "node"
               THEN [vals EXCEPT !.strategy = "listen"] ELSE vals
    /\ UNCHANGED <<world, serverVars, cache, hyd, form, tagging, fbs, loads, clone, req, base,
                   budget>>

-----------------------------------------------------------------------------
(* The user fills in the form.                                             *)

Edit(kind, fields, v) ==
    /\ form.open
    /\ kind \in world.menu
    /\ v # vals
    /\ Spend("edits")
    /\ Change(v)
    /\ base' = [base EXCEPT !.touched = @ \cup fields]
    /\ UNCHANGED <<world, serverVars, cache, hyd, form, nodesFetched, fbs, loads, clone, req>>

TypePort == \E p \in Ports : Edit("port", {"port"}, [vals EXCEPT !.port = p])

\* The tag is typed in the advanced JSON editor.
TypeTag == \E t \in CustomTags : Edit("tag", {"tag"}, [vals EXCEPT !.tag = t])

PickNode ==
    /\ form.mode = "add" /\ NodeOption(vals)
    /\ \E n \in world.nodes \cup {0} : Edit("node", {"node"}, [vals EXCEPT !.node = n])

PickStrategy ==
    /\ vals.protocol # "mtproto"
    /\ \E s \in {"listen", "custom"} \cup (IF NodeOption(vals) THEN {"node"} ELSE {}) :
          Edit("strategy", {"strategy", "addr"}, [vals EXCEPT !.strategy = s, !.addr = (s = "custom")])

onNetworkChange ==
    /\ vals.protocol \notin {"hysteria", "wireguard", "tunnel", "tuic", "mixed", "mtproto"}
    /\ \E n \in {"tcp", "kcp", "ws"} : Edit("network", {"network"}, [vals EXCEPT !.network = n])

ToggleUdp ==
    /\ vals.protocol = "mixed"
    /\ Edit("udp", {"l4"}, [vals EXCEPT !.l4 = {"udp"} \ @])

\* Bound: one protocol of each kind the form treats differently.
PROTOCOL_OPTIONS == {"vless", "mixed", "mtproto", "wireguard"}

\* The protocol picker, with the reset cascade of the watch subscription.
PickProtocol ==
    /\ form.mode = "add"
    /\ \E p \in PROTOCOL_OPTIONS :
         Edit("protocol", {"protocol", "node", "network", "security", "l4"},
              [vals EXCEPT !.protocol = p,
                           !.l4 = {},
                           !.node = IF p \in NODE_ELIGIBLE_PROTOCOLS THEN @ ELSE 0,
                           !.network = IF p = "wireguard" THEN "unset"
                                       ELSE IF @ \in {"unset", "hysteria"} THEN "tcp" ELSE @,
                           !.security = IF p = "wireguard" \/ vals.network \in {"unset", "hysteria"}
                                        THEN "none" ELSE @])

\* onCancel; a save under way goes on.
Cancel ==
    /\ form.open
    /\ form' = [form EXCEPT !.open = FALSE]
    /\ UNCHANGED <<world, serverVars, cache, hyd, vals, tagging, nodesFetched, fbs, loads, clone,
                   req, base, budget>>

-----------------------------------------------------------------------------
(* The fallback rows.  A row has the inbound it leads to, the one whose    *)
(* SNI, ALPN and path it took over, and perhaps an address of its own.     *)

isFallbackHost ==
    /\ vals.protocol \in {"vless", "trojan"} /\ vals.network = "tcp"
    /\ vals.security \in {"tls", "reality"}

Fallbacks == [child : Nat, match : Nat, dest : BOOLEAN]
EmptyFallback == [child |-> 0, match |-> 0, dest |-> FALSE]
ChildOptions == DOMAIN cache \ {form.id}

ServeFallbackList(i) ==
    /\ loads[i].step = "sent"
    /\ LET id == loads[i].id
           list == IF id \in DOMAIN lists THEN lists[id] ELSE <<>>
       IN loads' = [loads EXCEPT ![i].step = "ok", ![i].list = list]
    /\ UNCHANGED <<world, serverVars, cache, hyd, formVars, nodesFetched, fbs, clone, req, budget>>

FallbacksLoaded(i) ==
    /\ loads[i].step = "ok"
    /\ fbs' = loads[i].list
    /\ loads' = Without(loads, i)
    /\ UNCHANGED <<world, serverVars, cache, hyd, formVars, nodesFetched, clone, req, budget>>

FallbacksNotLoaded(i) ==
    /\ Spend("faults")
    /\ fbs' = <<>>
    /\ loads' = Without(loads, i)
    /\ UNCHANGED <<world, serverVars, cache, hyd, formVars, nodesFetched, clone, req>>

EditFallbacks(new) ==
    /\ form.open /\ isFallbackHost
    /\ "fallbacks" \in world.menu
    /\ Spend("edits")
    /\ fbs' = new
    /\ UNCHANGED <<world, serverVars, cache, hyd, formVars, nodesFetched, loads, clone, req>>

addFallback == EditFallbacks(Append(fbs, EmptyFallback))

\* A child without TLS and path has nothing to take over.
deriveFallbackDefaults(child) ==
    IF cache[child].security = "tls" \/ cache[child].network = "ws" THEN child ELSE 0

updateFallback ==
    \E i \in DOMAIN fbs : \E child \in (ChildOptions \cup {0}) \ {fbs[i].child} :
        LET untouched == child # 0 /\ fbs[i].match = 0 /\ ~fbs[i].dest
        IN EditFallbacks([fbs EXCEPT ![i].child = child,
                                     ![i].match = IF untouched THEN deriveFallbackDefaults(child) ELSE @])

typeDest == \E i \in DOMAIN fbs : EditFallbacks([fbs EXCEPT ![i].dest = TRUE])

removeFallback == \E i \in DOMAIN fbs : EditFallbacks(Without(fbs, i))

moveFallback ==
    \E i \in 1 .. Len(fbs) - 1 :
        EditFallbacks([fbs EXCEPT ![i] = fbs[i + 1], ![i + 1] = fbs[i]])

addAllFallbacks ==
    LET missing == ChildOptions \ {fbs[i].child : i \in DOMAIN fbs}
        row(c) == [child |-> c, match |-> deriveFallbackDefaults(c), dest |-> FALSE]
    IN EditFallbacks(fbs \o [k \in 1 .. Cardinality(missing) |-> row(Nth(missing, k))])

\* saveFallbacks sends the rows that lead somewhere; SetByMaster replaces the
\* list by them.
KeptFallbacks(list) == Pick(list, {i \in DOMAIN list : list[i].child # 0 \/ list[i].dest})

-----------------------------------------------------------------------------
(* Saving.  The clients of an edited inbound are left out of the request.  *)

formValuesToWirePayload(v, omitClients) == IF omitClients THEN [v EXCEPT !.clients = NoClients] ELSE v

saveValues ==
    /\ form.open
    /\ req["form"] = NoReq
    /\ req' = [req EXCEPT !["form"] =
                 [step |-> "sent", op |-> IF form.mode = "edit" THEN "update" ELSE "add", id |-> form.id,
                  v |-> formValuesToWirePayload(vals, form.mode = "edit"), old |-> vals,
                  host |-> isFallbackHost, fbs |-> KeptFallbacks(fbs), base |-> base]]
    /\ UNCHANGED <<world, serverVars, cache, hyd, formVars, nodesFetched, fbs, loads, clone, budget>>

CloseForm == form' = [form EXCEPT !.open = FALSE]

\* The answer to the save; with fallback rows to save another request follows.
Saved ==
    /\ req["form"].step = "ok"
    /\ IF req["form"].host
       THEN req' = [req EXCEPT !["form"].step = "fallbacks"] /\ UNCHANGED form
       ELSE req' = [req EXCEPT !["form"] = NoReq] /\ CloseForm
    /\ UNCHANGED <<world, serverVars, cache, hyd, vals, tagging, nodesFetched, fbs, loads, clone,
                   base, budget>>

NotSaved ==
    /\ req["form"].step = "refused"
    /\ req' = [req EXCEPT !["form"] = NoReq]
    /\ UNCHANGED <<world, serverVars, cache, hyd, formVars, nodesFetched, fbs, loads, clone, budget>>

\* Mutant: the rows are stored as they were sent.
StoredAsSent(master, list) == list

\* A row that leads to its own inbound loses it, and goes if nothing is left.
Stored(master, list) ==
    KeptFallbacks([i \in DOMAIN list |-> [list[i] EXCEPT !.child = IF @ = master THEN 0 ELSE @]])

SetByMaster ==
    LET r == req["form"]
    IN /\ r.step = "fallbacks"
       /\ lists' = [i \in DOMAIN lists \cup {r.id} |->
                       IF i = r.id THEN Stored(r.id, r.fbs) ELSE lists[i]]
       /\ req' = [req EXCEPT !["form"].step = "fallbacksDone"]
       /\ UNCHANGED <<world, rows, nextId, cache, hyd, formVars, nodesFetched, fbs, loads, clone, budget>>

\* Whatever came of the fallback rows, the form closes.
FallbacksAnswered ==
    /\ \/ req["form"].step = "fallbacksDone" /\ UNCHANGED budget
       \/ req["form"].step = "fallbacks" /\ Spend("faults")
    /\ req' = [req EXCEPT !["form"] = NoReq]
    /\ CloseForm
    /\ UNCHANGED <<world, serverVars, cache, hyd, vals, tagging, nodesFetched, fbs, loads, clone, base>>

-----------------------------------------------------------------------------
(* The clone dialog posts one add per target, in turn.  It may be closed,  *)
(* and opened for another row, while its loop still runs.                  *)

TargetSeqs(row) ==
    IF NodeOption(row)
    THEN UNION {{t \in [1 .. n -> world.nodes \cup {0}] : \A i, j \in 1 .. n : t[i] = t[j] => i = j} :
                n \in 1 .. Cardinality(world.nodes) + 1}
    ELSE {<<0>>}

SubmitClone ==
    /\ clone.open
    /\ clone.todo = <<>> /\ req["clone"] = NoReq
    /\ \E targets \in TargetSeqs(clone.row) :
          clone' = [clone EXCEPT !.src = clone.row, !.todo = targets, !.used = cache]
    /\ UNCHANGED <<world, serverVars, cache, hyd, formVars, nodesFetched, fbs, loads, req, budget>>

pickClonePort(listed, node) ==
    LET used == {listed[i].port : i \in {j \in DOMAIN listed : listed[j].node = node}}
    IN IF Ports \subseteq used THEN Ports ELSE Ports \ used

buildClonePayload(row, port, node) ==
    [row EXCEPT !.port = port, !.node = node, !.tag = NoTag, !.clients = NoClients]

PostClone ==
    /\ clone.todo # <<>> /\ req["clone"] = NoReq
    /\ \E p \in IF NodeOption(clone.src) THEN pickClonePort(clone.used, Head(clone.todo)) ELSE Ports :
          LET v == buildClonePayload(clone.src, p, Head(clone.todo))
          IN req' = [req EXCEPT !["clone"] =
                       [step |-> "sent", op |-> "add", id |-> 0, v |-> v, old |-> v,
                        host |-> FALSE, fbs |-> <<>>, base |-> base]]
    /\ UNCHANGED <<world, serverVars, cache, hyd, formVars, nodesFetched, fbs, loads, clone, budget>>

CancelClone ==
    /\ clone.open
    /\ clone' = [clone EXCEPT !.open = FALSE]
    /\ UNCHANGED <<world, serverVars, cache, hyd, formVars, nodesFetched, fbs, loads, req, budget>>

CloneAnswered ==
    /\ req["clone"].step \in {"ok", "refused"}
    /\ req' = [req EXCEPT !["clone"] = NoReq]
    /\ clone' = [clone EXCEPT !.todo = Tail(@), !.open = @ /\ Len(clone.todo) > 1]
    /\ UNCHANGED <<world, serverVars, cache, hyd, formVars, nodesFetched, fbs, loads, budget>>

-----------------------------------------------------------------------------
(* The handlers.                                                           *)

Refuse(c) == req' = [req EXCEPT ![c].step = "refused"] /\ UNCHANGED serverVars

\* Protocols without a transport of their own lose what a form left there.
normalizeStreamSettings(v) ==
    IF v.protocol \in {"mixed", "mtproto"} THEN [v EXCEPT !.network = "unset", !.security = "none"] ELSE v

\* UpdateInbound reads the old row, AddInbound picks the tag, before the
\* transaction.
ReadFirst(c) ==
    LET r == [req[c] EXCEPT !.v = normalizeStreamSettings(@)]
        known == r.op = "add" \/ r.id \in DOMAIN rows
        tag == resolveInboundTag(r.v, 0)
        misplaced == /\ r.v.protocol \notin NODE_ELIGIBLE_PROTOCOLS
                     /\ IF r.op = "add" THEN r.v.node # 0
                        ELSE rows[r.id].node # 0 /\ r.v.protocol # rows[r.id].protocol
    IN /\ req[c].step = "sent"
       /\ IF ~known \/ misplaced \/ (r.op = "add" /\ tag = NoTag) THEN Refuse(c)
          ELSE /\ req' = [req EXCEPT ![c] =
                            IF r.op = "add"
                            THEN [r EXCEPT !.step = "read", !.v.tag = tag]
                            ELSE [r EXCEPT !.step = "read", !.old = rows[r.id],
                                           !.v.node = rows[r.id].node]]
               /\ UNCHANGED serverVars
       /\ UNCHANGED <<world, cache, hyd, formVars, nodesFetched, fbs, loads, clone, budget>>

\* Mutant: the clients of the row read before the transaction.
reconcileFromSnapshot(r) == r.old.clients

\* The clients as they are in the transaction.
reconcileInboundEditClients(r) == rows[r.id].clients

\* normalizeInboundShareAddressStrict
ShareNormal(v) ==
    IF v.protocol = "mtproto" THEN [v EXCEPT !.strategy = "listen", !.addr = FALSE] ELSE v

\* Mutant: a tag that was sent is kept, automatic or not.
UpdatedTagAsSent(r) == resolveInboundTag(r.v, r.id)

\* An automatic tag that was not edited is made anew.
UpdatedTag(r) ==
    LET unchanged == r.v.tag = r.old.tag /\ isAutoInboundTag(r.old.tag, r.old)
    IN resolveInboundTag(IF unchanged THEN [r.v EXCEPT !.tag = NoTag] ELSE r.v, r.id)

UpdateTx(c) ==
    LET r == req[c]
        refused == \/ r.id \notin DOMAIN rows
                   \/ checkPortConflictTx(r.v, r.id)
                   \/ UpdatedTag(r) = NoTag
                   \/ /\ rows[r.id].protocol # r.v.protocol
                      /\ \E e \in DOMAIN rows[r.id].clients : rows[r.id].clients[e] # 0
    IN /\ r.step = "read" /\ r.op = "update"
       /\ IF refused THEN Refuse(c)
          ELSE /\ rows' = [rows EXCEPT ![r.id] = [ShareNormal(r.v) EXCEPT !.tag = UpdatedTag(r),
                                                   !.clients = reconcileInboundEditClients(r)]]
               /\ req' = [req EXCEPT ![c].step = "ok"]
               /\ UNCHANGED <<nextId, lists>>
       /\ UNCHANGED <<world, cache, hyd, formVars, nodesFetched, fbs, loads, clone, budget>>

AddTx(c) ==
    LET r == req[c]
    IN /\ r.step = "read" /\ r.op = "add"
       /\ IF checkPortConflictTx(r.v, 0) \/ tagExists(r.v.tag, 0) THEN Refuse(c)
          ELSE /\ rows' = [i \in DOMAIN rows \cup {nextId} |->
                              IF i = nextId THEN ShareNormal(r.v) ELSE rows[i]]
               /\ nextId' = nextId + 1
               /\ req' = [req EXCEPT ![c].step = "ok", ![c].id = nextId]
               /\ UNCHANGED lists
       /\ UNCHANGED <<world, cache, hyd, formVars, nodesFetched, fbs, loads, clone, budget>>

\* The page does not learn what became of its request.
AnswerLost(c) ==
    /\ req[c].step \in {"sent", "ok"}
    /\ Spend("faults")
    /\ req' = [req EXCEPT ![c].step = "refused"]
    /\ UNCHANGED <<world, serverVars, cache, hyd, formVars, nodesFetched, fbs, loads, clone>>

\* Another admin edits, attaches or detaches a client: the row is read ...
ReadForClient ==
    /\ "client" \in world.menu
    /\ req["client"] = NoReq
    /\ Spend("others")
    /\ \E i \in DOMAIN rows : \E e \in DOMAIN rows[i].clients : \E n \in {0, rows[i].clients[e] + 1} :
          req' = [req EXCEPT !["client"] = [step |-> "read", op |-> "client", id |-> i,
                                            v |-> [rows[i] EXCEPT !.clients[e] = n]]]
    /\ UNCHANGED <<world, serverVars, cache, hyd, formVars, nodesFetched, fbs, loads, clone>>

\* ... and saved whole, edited or deleted as it may be by now.
SaveForClient ==
    LET r == req["client"]
    IN /\ r.step = "read"
       /\ IF tagExists(r.v.tag, r.id) THEN UNCHANGED <<rows, nextId>>
          ELSE /\ rows' = [i \in DOMAIN rows \cup {r.id} |-> IF i = r.id THEN r.v ELSE rows[i]]
               /\ nextId' = IF nextId > r.id THEN nextId ELSE r.id + 1
       /\ req' = [req EXCEPT !["client"] = NoReq]
       /\ UNCHANGED <<world, lists, cache, hyd, formVars, nodesFetched, fbs, loads, clone, budget>>

\* Another admin deletes an inbound; the fallback rows of it stay.  After the last
\* one the ids start over.
DelInbound ==
    /\ "delete" \in world.menu
    /\ Spend("others")
    /\ \E i \in DOMAIN rows : rows' = [j \in DOMAIN rows \ {i} |-> rows[j]]
    /\ nextId' = IF DOMAIN rows' = {} THEN 1 ELSE nextId
    /\ UNCHANGED <<world, lists, cache, hyd, formVars, nodesFetched, fbs, loads, clone, req>>

Next ==
    \/ \E key \in {"edit", "clone"}, i \in DOMAIN cache : onRowAction(key, i)
    \/ \E i \in DOMAIN hyd : ServeInbound(i) \/ InboundLost(i) \/ Hydrated(i)
    \/ onAddInbound \/ Refetch \/ NodesFetched
    \/ TypePort \/ TypeTag \/ PickNode \/ PickStrategy \/ onNetworkChange \/ ToggleUdp
    \/ PickProtocol \/ Cancel
    \/ \E i \in DOMAIN loads : ServeFallbackList(i) \/ FallbacksLoaded(i) \/ FallbacksNotLoaded(i)
    \/ addFallback \/ updateFallback \/ typeDest \/ removeFallback \/ moveFallback \/ addAllFallbacks
    \/ saveValues \/ Saved \/ NotSaved \/ SetByMaster \/ FallbacksAnswered
    \/ SubmitClone \/ PostClone \/ CancelClone \/ CloneAnswered
    \/ \E c \in {"form", "clone"} : ReadFirst(c) \/ UpdateTx(c) \/ AddTx(c) \/ AnswerLost(c)
    \/ ReadForClient \/ SaveForClient \/ DelInbound

Spec == Init /\ [][Next]_vars

\* What the tables hold at the start: inbounds as the handlers store them, and
\* fallback rows as SetByMaster does.
ASSUME WorldsAssumption ==
    /\ Ports \subseteq Nat /\ CustomTags \subseteq Tags
    /\ \A w \in Worlds :
         /\ w.rows \in Seq(Inbounds)
         /\ \A i \in DOMAIN w.rows : normalizeStreamSettings(w.rows[i]) = w.rows[i]
         /\ w.lists \in Seq(Seq(Fallbacks))
         /\ \A i \in DOMAIN w.lists : \A k \in DOMAIN w.lists[i] : w.lists[i][k].child # i
         /\ w.nodes \subseteq Nat /\ IsFiniteSet(w.nodes)

-----------------------------------------------------------------------------
(* Properties.                                                             *)

InStep(row) == row.tag \in CustomTags \/ Numbered(row.tag, 0) = composeInboundTag(row)
Committed(c) == req[c].step = "read" /\ req'[c].step = "ok"

\* Saving the form of an inbound writes that inbound, as the form was filled
\* in for it plus the fields edited since, and with the clients attached at
\* that moment: nothing of a form shown before, of a row whose fetch came
\* late, or of the clients as they were when the form was opened or the
\* handler first read the row (InboundFormModal.tsx, UpdateInbound).  Excepted
\* is the node where the inbound was deleted as the last one and its id went to
\* another since (delInbound): that one keeps its node.
OnlyEditsSaved ==
    [][LET r == req["form"]
       IN Committed("form") /\ r.op = "update"
          => /\ r.base.id = r.id
             /\ rows'[r.id].clients = rows[r.id].clients
             /\ \A f \in {"protocol", "port", "node", "network", "l4", "security"} \ r.base.touched :
                   \/ rows'[r.id][f] = r.base.row[f]
                   \/ f = "node" /\ r.base.row.node # r.old.node]_vars

\* An inbound that is saved or cloned shares no socket and no tag with
\* another, whichever requests cross; and a generated tag tells the node, port
\* and transports it has now, even where the form, misled by the one shown
\* before, does not keep the tag in step.  Excepted are a form filled from a
\* row that was renamed or replaced since, a row such a form left out of step,
\* and a new inbound sent with the transport of a protocol chosen before, which
\* the form counts and the handler drops (port_conflict.go, UpdateInbound).
TagsFollow ==
    [][\A c \in {"form", "clone"} : Committed(c) =>
         LET r == req[c]
             id == req'[c].id
             row == rows'[id]
             replaced == r.base.row.tag # r.old.tag \/ r.base.row.node # r.old.node
             outdated == r.op = "update" /\ (replaced \/ ~InStep(r.old))
             leftover == r.op = "add" /\ inboundTransports(r.old) # inboundTransports(r.v)
         IN /\ InStep(row) \/ outdated \/ leftover
            /\ \A j \in DOMAIN rows' \ {id} :
                  /\ row.tag # rows'[j].tag
                  /\ \/ <<row.node, row.port>> # <<rows'[j].node, rows'[j].port>>
                     \/ inboundTransports(row) \cap inboundTransports(rows'[j]) = {}]_vars

\* No inbound falls back to itself, though the form may send the rows of the
\* inbound it showed before (SetByMaster).
NoSelfFallback ==
    \A i \in DOMAIN lists : \A k \in DOMAIN lists[i] : lists[i][k].child # i
=============================================================================
