----------------------------- MODULE ShareLinks -----------------------------
(***************************************************************************)
(* Share links: lib/xray/inbound-link.ts turns an inbound, one of its      *)
(* clients and one of its advertised fronts into a link, and               *)
(* lib/xray/outbound-link-parser.ts turns a link into the outbound that    *)
(* the Outbounds tab edits.                                                *)
(*                                                                         *)
(* A text is the sequence of its comma-separated parts, so Blank is the    *)
(* empty string and joining no parts gives Blank.  A link is a record: its *)
(* scheme, user-info, host, port and its query (for vmess: its JSON        *)
(* object), a function from the keys that are present.  The two queries    *)
(* that hold JSON (extra, fm) have that object as their value.             *)
(***************************************************************************)
EXTENDS Integers, SequencesExt

Blank == <<"">>
Nothing == [k \in {} |-> Blank]
Is(text) == text # Blank
Or(text, other) == IF Is(text) THEN text ELSE other
Join(parts) == IF parts = <<>> THEN Blank ELSE parts
Split(text) == SelectSeq(text, LAMBDA part : part # "")

Given(fields) == [k \in {k \in DOMAIN fields : Is(fields[k])} |-> fields[k]]
Get(fields, k, default) == IF k \in DOMAIN fields THEN fields[k] ELSE default
SetIf(k, text) == IF Is(text) THEN k :> text ELSE Nothing

\* encodeURIComponent and its inverse, on texts with and without a reserved
\* character
encodeURIComponent(s) == IF s = "p@ss" THEN "p%40ss" ELSE s
decodeURIComponent(s) == IF s = "p%40ss" THEN "p@ss" ELSE s

-----------------------------------------------------------------------------
(* The host of a link                                                      *)

\* Hosts: "v6" is an IPv6 literal, "any" 0.0.0.0, "loop" a loopback address,
\* "/sock" a unix socket, "bad_host" a name normalizeShareHost refuses.
formatUrlHost(host) == IF host = "v6" THEN "[v6]" ELSE host

normalizeShareHost(host) ==
    CASE host \in {"", "/sock", "bad_host"} -> ""
      [] host \in {"v6", "[v6]"} -> "[v6]"
      [] OTHER -> host

shareableListenFrom(listen) ==
    IF normalizeShareHost(listen) \in {"", "any", "loop"} THEN ""
    ELSE normalizeShareHost(listen)

\* The first host of the sequence that is not empty.
FirstHost(hosts) ==
    LET named == SelectSeq(hosts, LAMBDA h : h # "")
    IN IF named = <<>> THEN "" ELSE Head(named)

preferPublicHost(browser, public) ==
    IF public # "" /\ browser = "loop" THEN public ELSE browser

\* h: the inbound's listen, shareAddr and strategy, the address of its node,
\* and the browser's and the configured public host.
resolveShareHost(h) ==
    LET fallback == preferPublicHost(h.browser, h.public)
        node == normalizeShareHost(h.node)
        listen == shareableListenFrom(h.listen)
        custom == normalizeShareHost(h.custom)
        last == FirstHost(<<normalizeShareHost(fallback), fallback>>)
    IN CASE h.strategy = "listen" -> FirstHost(<<listen, node, last>>)
         [] h.strategy = "custom" -> FirstHost(<<custom, node, listen, last>>)
         [] OTHER -> FirstHost(<<node, listen, last>>)

-----------------------------------------------------------------------------
(* Transport, masks and security of an inbound, as query parameters        *)

PaddingKeys == {"xPaddingKey"}
ExtraKeys == {"mode", "xPaddingBytes", "xPaddingObfsMode", "sessionIDPlacement",
              "scMaxEachPostBytes", "headers"} \cup PaddingKeys

\* The knobs the client shares with the server; a value that is the core's
\* own default stays off the wire, and the renamed session key goes under
\* both its names.
buildXhttpExtra(x) ==
    LET sent(k) == /\ Is(x[k])
                   /\ k \in PaddingKeys => Is(x.xPaddingObfsMode)
                   /\ k = "scMaxEachPostBytes" => x[k] # <<"1000000">>
    IN [k \in {k \in ExtraKeys : sent(k)} |-> x[k]]
         @@ SetIf("sessionPlacement", x.sessionIDPlacement)

applyXhttpExtraToObj(x) ==
    buildXhttpExtra(x) @@ SetIf("x_padding_bytes", x.xPaddingBytes)

applyXhttpExtraToParams(x) ==
    LET extra == buildXhttpExtra(x)
    IN ("path" :> x.path @@ "host" :> Or(x.host, x.headerHost) @@ "mode" :> x.mode)
         @@ SetIf("x_padding_bytes", x.xPaddingBytes)
         @@ (IF DOMAIN extra = {} THEN Nothing ELSE "extra" :> extra)

writeNetworkParams(s) ==
    LET n == s.net
    IN CASE s.network = "tcp" ->
              IF n.header # "http" THEN Nothing
              ELSE ("path" :> Join(n.path) @@ "headerType" :> <<"http">>)
                     @@ SetIf("host", Or(n.responseHost, n.requestHost))
         [] s.network = "kcp" -> "mtu" :> n.mtu @@ "tti" :> n.tti
         [] s.network \in {"ws", "httpupgrade"} ->
              "path" :> n.path @@ "host" :> Or(n.host, n.headerHost)
         [] s.network = "grpc" ->
              ("serviceName" :> n.serviceName @@ "authority" :> n.authority)
                @@ (IF n.multiMode THEN "mode" :> <<"multi">> ELSE Nothing)
         [] s.network = "xhttp" -> applyXhttpExtraToParams(n)

\* A finalmask: its UDP masks and its QUIC parameters (numbers, and under
\* "hop" the port range of the old udpHop key).
NoMask == [udp |-> <<>>, quic |-> Nothing]
hasShareableFinalMaskValue(mask) == mask.udp # <<>> \/ DOMAIN mask.quic # {}
applyFinalMaskToParams(mask) ==
    IF hasShareableFinalMaskValue(mask) THEN "fm" :> mask ELSE Nothing

writeTlsParams(s) ==
    IF s.security # "tls" THEN Nothing
    ELSE LET tls == [s.tls EXCEPT !.alpn = Join(@), !.pcs = Join(@)]
         IN Given(tls) @@ ("alpn" :> tls.alpn)

\* Stands for the digest of seed and client key: one value per pair.
deriveSpiderX(seed, key) == IF Is(seed) \/ Is(key) THEN <<"/">> \o seed \o key ELSE Blank

writeRealityParams(s, key) ==
    IF s.security # "reality" THEN Nothing
    ELSE LET r == s.reality
         IN ("pbk" :> r.publicKey @@ "fp" :> r.fingerprint)
              @@ SetIf("sni", Or(r.serverName, Or(r.serverNames, r.target)))
              @@ SetIf("sid", r.shortIds)
              @@ SetIf("spx", deriveSpiderX(r.spiderX, key))
              @@ SetIf("pqv", r.mldsa65Verify)

\* A front is where a link points: the inbound itself, or one of its external
\* proxies with its own address, port, TLS settings and TLS override.
applyExternalProxyTLSParams(front, security) ==
    IF ~front.external \/ security # "tls" THEN Nothing
    ELSE Given([front.tls EXCEPT !.sni = Or(@, <<front.address>>),
                                 !.alpn = Join(@), !.pcs = Join(@)])

LinkSecurity(s, front) == IF front.forceTls = "same" THEN s.security ELSE front.forceTls

\* Mutant: the inbound's own TLS settings win over the external proxy's.
SecurityParamsOwnFirst(s, front, key) ==
    LET security == LinkSecurity(s, front)
    IN CASE security = "tls" ->
              ("security" :> <<"tls">>)
                @@ writeTlsParams(s) @@ applyExternalProxyTLSParams(front, security)
         [] security = "reality" ->
              "security" :> <<"reality">> @@ writeRealityParams(s, key)
         [] OTHER -> "security" :> <<"none">>

SecurityParams(s, front, key) ==
    LET security == LinkSecurity(s, front)
    IN CASE security = "tls" ->
              ("security" :> <<"tls">>)
                @@ applyExternalProxyTLSParams(front, security) @@ writeTlsParams(s)
         [] security = "reality" ->
              "security" :> <<"reality">> @@ writeRealityParams(s, key)
         [] OTHER -> "security" :> <<"none">>

-----------------------------------------------------------------------------
(* One link per client and front                                           *)

\* A valid route takes the place of the third group of a UUID.
applyVlessRoute(id, route) ==
    IF id = "uuid" /\ route = "443" THEN "uuid-443" ELSE id

\* The base64 of a pin becomes its hex; other pins pass unchanged.
hysteriaPinHex(pin) == IF pin = "pin64" THEN "pinhex" ELSE pin
PinsHex(parts) == [n \in DOMAIN parts |-> hysteriaPinHex(parts[n])]

parseGeckoPacketSize(size) == size = <<"512-1200">>

Masks(mask, type) == SelectSeq(mask.udp, LAMBDA m : m.type = type)

udpHopPorts(mask) ==
    LET hops == SelectSeq(Masks(mask, "udphop"), LAMBDA m : Is(m.value))
    IN IF hops # <<>> THEN Head(hops).value ELSE Get(mask.quic, "hop", Blank)

NoLink == [scheme |-> "none"]

genVmessLink(i, client, front) ==
    LET s == i.stream
        n == s.net
        tls == LinkSecurity(s, front)
        net == CASE s.network = "grpc" ->
                      ("path" :> n.serviceName @@ "authority" :> n.authority)
                        @@ (IF n.multiMode THEN "type" :> <<"multi">> ELSE Nothing)
                 [] s.network = "tcp" ->
                      "type" :> <<n.header>> @@ writeNetworkParams(s)
                 [] s.network = "xhttp" ->
                      applyXhttpExtraToObj(n)
                        @@ ("type" :> n.mode @@ "path" :> n.path
                              @@ "host" :> Or(n.host, n.headerHost))
                 [] OTHER -> writeNetworkParams(s)
    IN [scheme |-> "vmess", user |-> <<client.id>>, host |-> front.address,
        port |-> front.port, remark |-> front.remark,
        query |-> ("net" :> s.network @@ "tls" :> tls @@ "scy" :> client.security)
                    @@ applyExternalProxyTLSParams(front, tls)
                    @@ (IF tls = "tls" THEN Given(writeTlsParams(s)) ELSE Nothing)
                    @@ applyFinalMaskToParams(s.mask) @@ net]

canEnableTlsFlow(i) ==
    \/ i.stream.network = "tcp" /\ i.stream.security \in {"tls", "reality"}
    \/ i.stream.network = "xhttp" /\ i.encryption # <<"none">>

genVlessLink(i, client, front) ==
    LET s == i.stream
    IN [scheme |-> "vless", user |-> <<applyVlessRoute(client.id, front.route)>>,
        host |-> formatUrlHost(front.address), port |-> front.port,
        remark |-> front.remark,
        query |-> ("type" :> <<s.network>> @@ "encryption" :> i.encryption)
                    @@ (IF canEnableTlsFlow(i) THEN SetIf("flow", client.flow) ELSE Nothing)
                    @@ SecurityParams(s, front, client.key)
                    @@ applyFinalMaskToParams(s.mask) @@ writeNetworkParams(s)]

genTrojanLink(i, client, front) ==
    LET s == i.stream
    IN [scheme |-> "trojan", user |-> <<encodeURIComponent(client.password)>>,
        host |-> formatUrlHost(front.address), port |-> front.port,
        remark |-> front.remark,
        query |-> "type" :> <<s.network>> @@ SecurityParams(s, front, client.key)
                    @@ applyFinalMaskToParams(s.mask) @@ writeNetworkParams(s)]

\* SIP022 methods carry percent-encoded keys, the others one base64 text; an
\* http header goes as the obfs-local plugin, which has no path.
genShadowsocksLink(i, client, front) ==
    LET s == i.stream
        ss2022 == i.method \in {"2022-blake3-aes", "2022-blake3-chacha20-poly1305"}
        multiUser == i.method # "2022-blake3-chacha20-poly1305"
        passwords == (IF ss2022 THEN <<i.password>> ELSE <<>>)
                       \o (IF multiUser THEN <<client.password>> ELSE <<>>)
        userinfo == <<i.method>> \o passwords
        net == writeNetworkParams(s)
        plain == "type" :> <<s.network>> @@ net
        obfs == "plugin" :> <<"obfs-local">> @@ "obfs" :> <<"http">>
                  @@ "obfs-host" :> Get(net, "host", Blank)
    IN [scheme |-> "ss", base64 |-> ~ss2022,
        user |-> IF ss2022 THEN [n \in DOMAIN userinfo |-> encodeURIComponent(userinfo[n])]
                 ELSE userinfo,
        host |-> formatUrlHost(front.address), port |-> front.port,
        remark |-> front.remark,
        query |-> (IF LinkSecurity(s, front) = "tls" THEN SecurityParams(s, front, Blank)
                   ELSE Nothing)
                    @@ applyFinalMaskToParams(s.mask)
                    @@ (IF "headerType" \in DOMAIN net THEN obfs ELSE plain)]

\* The user-info goes through the URL parser, which encodes a reserved
\* character; of the masks only salamander and the hop range are sent, and of
\* an external proxy only its pins.
genHysteriaLink(i, client, front) ==
    LET s == i.stream
        tls == Given(writeTlsParams(s))
        pins == Or(PinsHex(Join(front.tls.pcs)), PinsHex(Get(tls, "pcs", Blank)))
        salamander == Masks(s.mask, "salamander")
        obfs == IF salamander = <<>> \/ ~Is(Head(salamander).value) THEN Nothing
                ELSE ("obfs-password" :> Head(salamander).value)
                       @@ (IF parseGeckoPacketSize(Head(salamander).opt)
                           THEN "obfs" :> <<"gecko">> @@ "packetSize" :> Head(salamander).opt
                           ELSE "obfs" :> <<"salamander">>)
    IN IF s.security # "tls" THEN NoLink
       ELSE [scheme |-> "hysteria2", user |-> <<encodeURIComponent(client.auth)>>,
             host |-> formatUrlHost(front.address), port |-> front.port,
             remark |-> front.remark,
             query |-> SetIf("pinSHA256", pins) @@ obfs
                         @@ SetIf("mport", udpHopPorts(s.mask))
                         @@ [k \in DOMAIN tls \ {"pcs"} |-> tls[k]]]

\* Links no parser of the panel reads: their fields are left out.
genMtprotoLink(client) == IF client.secret = "" THEN NoLink ELSE [scheme |-> "tg"]
genTuicLink(client) ==
    IF client.id = "" \/ client.password = "" THEN NoLink ELSE [scheme |-> "tuic"]

genLink(i, client, front) ==
    CASE i.protocol = "vmess" -> genVmessLink(i, client, front)
      [] i.protocol = "vless" -> genVlessLink(i, client, front)
      [] i.protocol = "trojan" -> genTrojanLink(i, client, front)
      [] i.protocol = "shadowsocks" -> genShadowsocksLink(i, client, front)
      [] i.protocol = "hysteria" -> genHysteriaLink(i, client, front)
      [] i.protocol = "mtproto" -> genMtprotoLink(client)
      [] i.protocol = "tuic" -> genTuicLink(client)
      [] OTHER -> NoLink

\* The inbound itself as a front.
OwnFront(i) ==
    [external |-> FALSE, address |-> resolveShareHost(i.hosts), port |-> i.port,
     forceTls |-> "same", remark |-> i.remark, route |-> "",
     tls |-> [sni |-> Blank, fp |-> Blank, alpn |-> <<>>, ech |-> Blank,
              vcn |-> Blank, pcs |-> <<>>]]

Shared(client, front, link) == [client |-> client, front |-> front, link |-> link]

\* One link per external proxy, or one to the inbound itself.
genAllLinks(i, client) ==
    {Shared(client, front, genLink(i, client, front)) :
        front \in IF i.proxies = {} THEN {OwnFront(i)} ELSE i.proxies}

SingleUser(i) ==
    i.protocol = "shadowsocks" /\ i.method = "2022-blake3-chacha20-poly1305"
getInboundClients(i) ==
    IF SingleUser(i) \/ i.protocol \in {"wireguard", "http", "mixed", "tunnel"}
    THEN {} ELSE i.clients

\* The links of every client; a single-user shadowsocks inbound has one link,
\* and that to the inbound itself whatever external proxies it has.
genInboundLinks(i) ==
    IF SingleUser(i)
    THEN {Shared([password |-> ""], OwnFront(i),
                 genShadowsocksLink(i, [password |-> ""], OwnFront(i)))}
    ELSE UNION {genAllLinks(i, client) : client \in getInboundClients(i)}

genWireguardLink(i, peer, front) ==
    [scheme |-> "wireguard", user |-> <<encodeURIComponent(peer.privateKey)>>,
     host |-> formatUrlHost(front.address), port |-> front.port,
     remark |-> front.remark,
     query |-> SetIf("publickey", i.publicKey) @@ SetIf("address", Join(peer.allowedIPs))
                 @@ SetIf("mtu", i.mtu)]

\* The peers of a wireguard inbound: its clients, or the peers of an inbound
\* stored before clients existed.
wgRenderPeers(i) == IF i.clients # {} THEN i.clients ELSE i.peers

genWireguardLinks(i) ==
    IF i.protocol # "wireguard" THEN {}
    ELSE {Shared(peer, OwnFront(i), genWireguardLink(i, peer, OwnFront(i))) :
            peer \in wgRenderPeers(i)}
=============================================================================
