---------------------------- MODULE OutboundForm ----------------------------
(***************************************************************************)
(* pages/xray/outbounds/OutboundFormModal.tsx and outbound-form-helpers.ts:*)
(* the editor of one outbound.  It has a form tab and a JSON tab; the two  *)
(* hold the outbound in different shapes (form, text), and OK takes it     *)
(* from the tab that is showing.  A share link can replace both.           *)
(*                                                                         *)
(* row is the row the editor was opened on (NoRow: a new outbound), saved  *)
(* what OK handed back.  asked and touched are history: the link imported  *)
(* last, and which parts the user has changed since the opening.           *)
(***************************************************************************)
EXTENDS OutboundMeaning

CONSTANTS Rows,       \* rows the template may hold
          Inbounds,   \* inbounds whose links the user may have
          Texts,      \* what the user may type into the JSON tab
          Networks,   \* transports the user may choose
          Protocols,  \* protocols the user may choose
          OtherTags,  \* tags of the other outbounds
          NewTags,    \* tags the user may type
          MaxEdits,   \* bound on the user's changes
          ImportCost  \* what an import counts against it

VARIABLES row, tab, form, json, dirty, saved, asked, touched, edits

vars == <<row, tab, form, json, dirty, saved, asked, touched, edits>>

\* A JSON text: a row, or something that does not parse, or nothing.
Text(r) == [kind |-> "row", row |-> r]
Malformed == [kind |-> "malformed"]
NoText == [kind |-> "empty"]
NoShare == [link |-> NoLink]

ToWire(f) == formValuesToWirePayload(f)
FromWire(r) == rawOutboundToFormValues(r)

-----------------------------------------------------------------------------
(* What a protocol and a transport allow                                   *)

canEnableTls(protocol, network) ==
    \/ protocol = "hysteria"
    \/ /\ protocol \in {"vmess", "vless", "trojan", "shadowsocks"}
       /\ network \in {"tcp", "ws", "grpc", "httpupgrade", "xhttp"}
canEnableReality(protocol, network) ==
    protocol \in {"vless", "trojan"} /\ network \in {"tcp", "grpc", "xhttp"}
canEnableStream(protocol) == protocol \in STREAM_PROTOCOLS \cup {"wireguard"}
isMuxAllowed(protocol, flow, network) ==
    /\ protocol \in MUX_PROTOCOLS
    /\ protocol = "vless" => ~Is(flow)
    /\ network # "xhttp"

newStreamSlice(network) ==
    "network" :> network
      @@ (BlockOf[network] :>
            CASE network = "xhttp" -> [EmptyBlock("xhttp") EXCEPT !.mode = Blank]
              [] network = "hysteria" -> [auth |-> Blank]
              [] OTHER -> EmptyBlock(network))
hysteriaStreamSlice ==
    newStreamSlice("hysteria")
      @@ ("security" :> "tls" @@ "tlsSettings" :> [EmptyTls EXCEPT !.alpn = <<"h3">>])
PlainTcp == newStreamSlice("tcp") @@ ("security" :> "none")

\* Mutant: the security stays, its settings do not.
applyNetworkChangeBare(protocol, stream, next) ==
    LET security == Security(stream)
        stays == \/ security = "tls" /\ canEnableTls(protocol, next)
                 \/ security = "reality" /\ canEnableReality(protocol, next)
    IN IF next = "hysteria" THEN hysteriaStreamSlice
       ELSE newStreamSlice(next) @@ ("security" :> IF stays THEN security ELSE "none")
              @@ SecurityBlock(IF stays THEN security ELSE "none", EmptyTls, EmptyReality)

\* The transport changes; the security stays, with its settings, where the
\* new transport can have it.
applyNetworkChange(protocol, stream, next) ==
    LET security == Security(stream)
        stays == \/ security = "tls" /\ canEnableTls(protocol, next)
                 \/ security = "reality" /\ canEnableReality(protocol, next)
        block == CASE security = "tls" -> {"tlsSettings"}
                   [] security = "reality" -> {"realitySettings"}
                   [] OTHER -> {}
    IN IF next = "hysteria" THEN hysteriaStreamSlice
       ELSE newStreamSlice(next)
              @@ ("security" :> IF stays THEN security ELSE "none")
              @@ (IF stays THEN [k \in block \cap DOMAIN stream |-> stream[k]] ELSE Nothing)

-----------------------------------------------------------------------------
(* The effects that run after every change of the form                     *)

\* A protocol with a stream gets a transport; wireguard loses one.
SeedStream(f) ==
    LET network == Network(f.stream)
    IN CASE f.protocol = "wireguard" /\ network # "" ->
              [f EXCEPT !.stream = "security" :> "none"]
         [] f.protocol \in STREAM_PROTOCOLS /\ network = "" ->
              [f EXCEPT !.stream = PlainTcp]
         [] OTHER -> f

\* Hysteria always has its own transport, over TLS.
SeedHysteria(f) ==
    LET kept == {"hysteriaSettings", "tlsSettings"} \cap DOMAIN f.stream
    IN IF \/ f.protocol # "hysteria"
          \/ Network(f.stream) = "hysteria" /\ Security(f.stream) = "tls"
       THEN f
       ELSE [f EXCEPT !.stream = [k \in kept |-> f.stream[k]] @@ hysteriaStreamSlice]

Settle(f) == SeedHysteria(SeedStream(f))

-----------------------------------------------------------------------------
(* Opening, tabs, import                                                   *)

Shown(r) == IF r = NoRow THEN FromWire(Nothing) ELSE FromWire(r)

Init ==
    /\ row \in Rows \cup {NoRow}
    /\ tab = "form"
    /\ form = Settle(Shown(row))
    /\ json = Text(ToWire(Shown(row)))
    /\ dirty = FALSE /\ saved = NoRow /\ asked = NoShare /\ touched = {} /\ edits = 0

Editing == saved = NoRow

\* Converting a freedom form edits the sockopt object the form holds.
InPlace(f) ==
    IF f.protocol = "freedom" /\ "sockopt" \in DOMAIN f.stream
    THEN [f EXCEPT !.stream.sockopt = FreedomSockopt(f, @)] ELSE f

\* Mutant: the text is the one of the opening.
ShowJsonStale ==
    /\ Editing /\ tab = "form"
    /\ tab' = "json" /\ dirty' = FALSE
    /\ UNCHANGED <<row, form, json, saved, asked, touched, edits>>

ShowJson ==
    /\ Editing /\ tab = "form"
    /\ tab' = "json" /\ json' = Text(ToWire(form)) /\ dirty' = FALSE
    /\ form' = InPlace(form)
    /\ UNCHANGED <<row, saved, asked, touched, edits>>

\* Mutant: the edited text is not applied.
ShowFormUnapplied ==
    /\ Editing /\ tab = "json"
    /\ ~(dirty /\ json.kind = "malformed")
    /\ tab' = "form" /\ dirty' = FALSE
    /\ UNCHANGED <<row, form, json, saved, asked, touched, edits>>

\* A text that does not parse keeps the JSON tab; one the user left alone, or
\* emptied, leaves the form as it was.
ShowForm ==
    /\ Editing /\ tab = "json"
    /\ ~(dirty /\ json.kind = "malformed")
    /\ tab' = "form"
    /\ IF dirty /\ json.kind = "row"
       THEN form' = Settle(FromWire(json.row)) /\ dirty' = FALSE
       ELSE UNCHANGED <<form, dirty>>
    /\ UNCHANGED <<row, json, saved, asked, touched, edits>>

\* The user's changes count against MaxEdits; an import counts as ImportCost.
Edit(parts, cost) ==
    /\ Editing /\ edits + cost <= MaxEdits
    /\ edits' = edits + cost /\ touched' = parts
    /\ UNCHANGED <<row, saved>>

EditJson(text) ==
    /\ tab = "json" /\ Edit(touched \cup {"json"}, 1)
    /\ json' = text /\ dirty' = TRUE
    /\ UNCHANGED <<tab, form, asked>>

\* The links the panel shows for an inbound.
Shares(i) ==
    {[inbound |-> i] @@ share : share \in genInboundLinks(i) \cup genWireguardLinks(i)}

\* A link nothing parses changes nothing; one without a remark takes the tag
\* the form has.
Imported(share) ==
    LET parsed == parseOutboundLink(share.link)
        next == FromWire(IF parsed.tag = "" THEN [parsed EXCEPT !.tag = form.tag] ELSE parsed)
    IN /\ parsed # NoRow
       /\ form' = Settle(next) /\ json' = Text(ToWire(next)) /\ asked' = share

Import ==
    /\ tab = "json" /\ Edit({"link"}, ImportCost)
    /\ \E i \in Inbounds : \E share \in Shares(i) : Imported(share)
    /\ dirty' = FALSE /\ tab' = "form"

-----------------------------------------------------------------------------
(* Changes on the form tab                                                 *)

EditForm(what, next) ==
    /\ tab = "form" /\ Edit(touched \cup {what}, 1)
    /\ form' = Settle(next)
    /\ UNCHANGED <<tab, json, dirty, asked>>

SetTag(tag) == tag # form.tag /\ EditForm("tag", [form EXCEPT !.tag = tag])

\* The settings start afresh; tag, mux and the transport stay.
ChangeProtocol(protocol) ==
    LET fresh == FromWire([protocol |-> protocol]).settings
        stream == CASE protocol = "hysteria" -> hysteriaStreamSlice
                    [] protocol # "hysteria" /\ Network(form.stream) = "hysteria" -> PlainTcp
                    [] OTHER -> form.stream
    IN /\ protocol # form.protocol
       /\ EditForm("protocol", [form EXCEPT !.protocol = protocol, !.settings = fresh,
                                            !.stream = stream])

SetAddress ==
    /\ form.protocol \in ServerProtocols /\ ~Is(form.settings.address)
    /\ EditForm("address", [form EXCEPT !.settings.address = <<"srv">>])

onNetworkChange(network) ==
    /\ canEnableStream(form.protocol) /\ Network(form.stream) \notin {"", "hysteria", network}
    /\ EditForm("network",
                [form EXCEPT !.stream = applyNetworkChange(form.protocol, @, network)])

\* Mutant: the settings of the old security stay.
onSecurityChangeKeeping(security) ==
    LET network == Network(form.stream)
    IN /\ canEnableStream(form.protocol) /\ network # ""
       /\ security # Security(form.stream)
       /\ security = "none" => network # "hysteria"
       /\ security = "tls" => canEnableTls(form.protocol, network)
       /\ security = "reality" => canEnableReality(form.protocol, network)
       /\ EditForm("security",
                   [form EXCEPT !.stream = ("security" :> security)
                        @@ SecurityBlock(security, EmptyTls, EmptyReality) @@ @])

onSecurityChange(security) ==
    LET network == Network(form.stream)
        cleaned == Without(form.stream, {"security", "tlsSettings", "realitySettings"})
    IN /\ canEnableStream(form.protocol) /\ network # ""
       /\ security # Security(form.stream)
       /\ security = "none" => network # "hysteria"
       /\ security = "tls" => canEnableTls(form.protocol, network)
       /\ security = "reality" => canEnableReality(form.protocol, network)
       /\ EditForm("security",
                   [form EXCEPT !.stream = ("security" :> security)
                        @@ SecurityBlock(security, EmptyTls, EmptyReality) @@ cleaned])

\* The switch of the xmux sub-form: switched on over nothing it starts with
\* the core's own strategy.
onXmuxToggle(on) ==
    LET xhttp == Get(form.stream, "xhttpSettings", Nothing)
        xmux == Get(xhttp, "xmux", [maxConcurrency |-> Blank, maxConnections |-> <<"3">>])
    IN /\ Network(form.stream) = "xhttp"
       /\ on # Get(xhttp, "enableXmux", False)
       /\ EditForm("xmux",
                   [form EXCEPT !.stream = ("xhttpSettings" :>
                        (("enableXmux" :> on)
                           @@ (IF on = True THEN "xmux" :> xmux ELSE Nothing) @@ xhttp)) @@ @])

\* The two xmux strategies exclude each other: setting one clears the other.
SetXmux(strategy) ==
    LET xhttp == Get(form.stream, "xhttpSettings", Nothing)
        other == IF strategy = "maxConnections" THEN "maxConcurrency" ELSE "maxConnections"
    IN /\ Network(form.stream) = "xhttp" /\ Get(xhttp, "enableXmux", False) = True
       /\ EditForm("xmux",
                   [form EXCEPT !.stream = ("xhttpSettings" :>
                        ("xmux" :> (strategy :> <<"8">> @@ other :> Blank) @@ xhttp)) @@ @])

SetMux ==
    /\ isMuxAllowed(form.protocol, Get(form.settings, "flow", Blank), Network(form.stream))
    /\ EditForm("mux", [form EXCEPT !.mux.enabled = IF @ = True THEN False ELSE True])

-----------------------------------------------------------------------------
(* OK                                                                      *)

TagFree(tag) == tag \notin OtherTags \/ (row # NoRow /\ Get(row, "tag", "") = tag)
TagGood(tag) == tag \notin {"", "_bl_x"} /\ TagFree(tag)

\* The JSON tab is parsed again, and is not validated; a refused tag leaves
\* the parsed values in the form.
OkJson ==
    /\ Editing /\ tab = "json" /\ json.kind = "row"
    /\ LET values == FromWire(json.row)
       IN /\ form' = Settle(values)
          /\ saved' = IF TagGood(values.tag) THEN ToWire(values) ELSE NoRow
    /\ dirty' = FALSE
    /\ UNCHANGED <<row, tab, json, asked, touched, edits>>

OkForm ==
    /\ Editing /\ tab = "form"
    /\ form.protocol \in ServerProtocols => Is(form.settings.address)
    /\ TagGood(form.tag)
    /\ saved' = ToWire(form)
    /\ UNCHANGED <<row, tab, form, json, dirty, asked, touched, edits>>

Open(r) ==
    /\ row' = r /\ tab' = "form" /\ form' = Settle(Shown(r))
    /\ json' = Text(ToWire(Shown(r)))
    /\ dirty' = FALSE /\ saved' = NoRow /\ asked' = NoShare /\ touched' = {}
    /\ UNCHANGED edits

\* The saved row is opened again; or the editor is dismissed, and opened on
\* the row it had.
Reopen == ~Editing /\ Open(saved)
Dismiss == Editing /\ Open(row)

Next ==
    \/ ShowJson \/ ShowForm \/ OkJson \/ OkForm \/ Reopen \/ Dismiss \/ SetAddress \/ SetMux
    \/ Import
    \/ \E text \in Texts : EditJson(text)
    \/ \E tag \in NewTags : SetTag(tag)
    \/ \E protocol \in Protocols : ChangeProtocol(protocol)
    \/ \E network \in Networks : onNetworkChange(network)
    \/ \E security \in {"none", "tls", "reality"} : onSecurityChange(security)
    \/ \E on \in {True, False} : onXmuxToggle(on)
    \/ \E strategy \in {"maxConnections", "maxConcurrency"} : SetXmux(strategy)

Spec == Init /\ [][Next]_vars

-----------------------------------------------------------------------------
(* Properties                                                              *)

\* A link the panel wrote for an inbound (genInboundLinks, genWireguardLinks),
\* imported into the editor (importLink) and saved from either tab, gives an
\* outbound that connects to that inbound: the same server, user, transport
\* and security, with an external proxy's own TLS settings in front of the
\* inbound's, and the masks the link carries.
ImportedConnects ==
    ~Editing /\ asked # NoShare /\ touched = {"link"} => Connects(saved, asked)

\* Opening an outbound (rawOutboundToFormValues) and saving it from either tab
\* (formValuesToWirePayload), with no change but its tag, keeps what the core
\* makes of it, also when the row has the old spelling of a key; a row the core
\* refuses is mended.
UneditedKept ==
    /\ ~Editing /\ row # NoRow /\ touched \subseteq {"tag"} /\ CoreAccepts(row)
         => Meaning(saved) = Meaning(row)
    /\ ~Editing /\ row # NoRow /\ "json" \notin touched => CoreAccepts(saved)

\* With an unedited JSON text on screen (onTabChange), OK saves the outbound
\* it would have saved from the form tab.
TabsAgree ==
    Editing /\ tab = "json" /\ ~dirty /\ json.kind = "row"
        => ToWire(FromWire(json.row)) = ToWire(form)

\* Going back to the form tab (applyJsonToForm) puts into the form what the
\* edited JSON text says, where that is a row the core accepts.
JsonEditsKept ==
    [][(/\ tab = "json" /\ tab' = "form" /\ UNCHANGED <<edits, touched>>
        /\ dirty /\ json.kind = "row" /\ CoreAccepts(json.row))
         => Meaning(ToWire(form')) = Meaning(json.row)]_vars

(* A protocol with a stream has a transport, hysteria its own over TLS,     *)
(* wireguard none.                                                          *)
StreamFits ==
    /\ form.protocol \in STREAM_PROTOCOLS => Network(form.stream) # ""
    /\ form.protocol = "wireguard" => Network(form.stream) = ""
    /\ form.protocol = "hysteria" =>
         Network(form.stream) = "hysteria" /\ Security(form.stream) = "tls"

\* However transport, security, protocol, xmux and mux were changed, the saved
\* stream has the settings of its own transport and security and of no other,
\* at most one xmux strategy, no mux where the core refuses it, and a tag no
\* other outbound has, and the form's stream fits its protocol after every
\* single change: the two effects on protocol and network, onNetworkChange, onSecurityChange, the protocol watcher,
\* resolveXmuxExclusivity and muxAllowed together.
SavedCoherent ==
    LET stream == Get(saved, "streamSettings", Nothing)
        xmux == Get(Get(stream, "xhttpSettings", Nothing), "xmux", Nothing)
        blocks == {BlockOf[n] : n \in DOMAIN BlockOf} \cup {"tlsSettings", "realitySettings"}
        own == {BlockOf[Network(stream)]}
                 \cup (IF Security(stream) = "tls" THEN {"tlsSettings"} ELSE {})
                 \cup (IF Security(stream) = "reality" THEN {"realitySettings"} ELSE {})
    IN IF Editing THEN StreamFits ELSE
         /\ saved.tag # "" /\ (saved.tag \in OtherTags => Get(row, "tag", "") = saved.tag)
         /\ "json" \notin touched /\ saved.protocol \in STREAM_PROTOCOLS =>
              blocks \cap DOMAIN stream = own
         /\ ~(Is(Get(xmux, "maxConnections", Blank)) /\ Is(Get(xmux, "maxConcurrency", Blank)))
         /\ "mux" \in DOMAIN saved => /\ saved.protocol \in MUX_PROTOCOLS
                                      /\ Network(stream) # "xhttp"
                                      /\ ~Is(Get(saved.settings, "flow", Blank))

\* Changing the transport any number of times (applyNetworkChange) either
\* gives up the security or keeps its settings: no outbound is saved as TLS or
\* Reality with other settings than the ones it was opened with.
SecurityKept ==
    ~Editing /\ row # NoRow /\ touched \subseteq {"network", "tag"} /\ CoreAccepts(row)
        => LET was == CoreStream(row)
               is == CoreStream(saved)
           IN \/ Lower(row.protocol) \notin STREAM_PROTOCOLS
              \/ is.security = "none"
              \/ <<is.security, is.tls, is.reality>> = <<was.security, was.tls, was.reality>>
=============================================================================
