--------------------------- MODULE OutboundMeaning ---------------------------
(***************************************************************************)
(* The reference the outbound editor is checked against: what the core     *)
(* makes of a row of the template, whichever spelling of its keys the row  *)
(* has, and what an outbound must hold to reach an inbound.                *)
(***************************************************************************)
EXTENDS OutboundAdapter

Network(stream) == Get(stream, "network", "")
Security(stream) == Get(stream, "security", "none")
ServerProtocols == STREAM_PROTOCOLS \cup {"socks", "http"}

Unbracketed(host) == IF host = "[v6]" THEN "v6" ELSE host

CoreDefaults ==
    [vless |-> [id |-> Blank, flow |-> Blank, encryption |-> <<"none">>],
     vmess |-> [id |-> Blank, security |-> <<"auto">>],
     trojan |-> [password |-> Blank],
     shadowsocks |-> [password |-> Blank, method |-> Blank, uot |-> False],
     socks |-> [user |-> Blank, pass |-> Blank],
     http |-> [user |-> Blank, pass |-> Blank],
     hysteria |-> Nothing]

\* The server a row points at and what it shows it.
CoreServer(r) ==
    LET s == r.settings
        server == Get(s, "vnext", Get(s, "servers", s))
    IN [host |-> Unbracketed(server.address[1]), port |-> server.port,
        user |-> Fill(server, CoreDefaults[Lower(r.protocol)])]

\* The core knows a strategy in any case, and its own defaults.
CoreWord(text) == IF text = <<"useip">> THEN <<"UseIP">> ELSE text
CoreSet(fields) ==
    [k \in {k \in DOMAIN fields : fields[k] \notin {Blank, False, AsIs}} |-> CoreWord(fields[k])]

\* A freedom row resolves by the first strategy that is one.
CoreStrategy(r) ==
    LET s == r.settings
        places == <<Get(r, "targetStrategy", Blank),
                    Or(Get(s, "targetStrategy", Blank), Get(s, "domainStrategy", Blank)),
                    Get(Sockopt(r), "domainStrategy", Blank)>>
        set == SelectSeq(places, LAMBDA t : t \notin {Blank, AsIs})
    IN IF set = <<>> THEN AsIs ELSE CoreWord(Head(set))

CorePeer(p) == Given(Without(p, {"endpoint"})) @@ [endpoint |-> p.endpoint]
CoreRule(r) == Given(("action" :> <<"block">>) @@ r)

\* The settings of the rows that point at no server.
CoreOwn(r) ==
    LET s == r.settings
        p == Lower(r.protocol)
    IN CASE p \in {"wireguard", "amneziawg"} ->
              [keys |-> Given(Without(s, {"peers", "mtu", "noKernelTun", "disableCookies"})),
               mtu |-> Get(s, "mtu", IF p = "wireguard" THEN <<"1420">> ELSE Blank),
               peers |-> Mapped(s.peers, CorePeer)]
         [] p = "freedom" ->
              [strategy |-> CoreStrategy(r), redirect |-> Get(s, "redirect", Blank),
               fragment |-> Get(s, "fragment", Nothing), noises |-> Get(s, "noises", <<>>),
               rules |-> IF "finalRules" \in DOMAIN s THEN Mapped(s.finalRules, CoreRule)
                         ELSE IF "ipsBlocked" \in DOMAIN s
                         THEN <<[action |-> <<"block">>, ip |-> s.ipsBlocked]>> ELSE <<>>]
         [] p = "dns" ->
              [network |-> Get(s, "rewriteNetwork", Get(s, "network", Blank)),
               address |-> Get(s, "rewriteAddress", Get(s, "address", Blank)),
               port |-> Get(s, "rewritePort", Get(s, "port", 0)),
               rules |-> Mapped(Get(s, "rules", <<>>),
                                LAMBDA d : [type |-> Get(d, "qType", Get(d, "qtype", Blank)),
                                            keys |-> Given(Without(d, {"qType", "qtype"}))])]
         [] p = "blackhole" -> Get(s, "response", [type |-> Blank])
         [] p = "loopback" ->
              [inboundTag |-> Get(s, "inboundTag", Blank),
               sniffing |-> IF "sniffing" \in DOMAIN s /\ s.sniffing.enabled = True
                            THEN Given(s.sniffing) ELSE Nothing]
         [] p = "vless" -> [reverse |-> Get(Get(s, "reverse", Nothing), "tag", Blank)]
         [] p = "http" -> [headers |-> Get(s, "headers", Blank)]
         [] OTHER -> Nothing

\* A transport's settings without the values the core assumes anyway.
CoreBlock(network, block) ==
    LET text == Given(Without(block, {"mtu", "tti", "multiMode", "xmux", "path", "mode",
                                      "sessionPlacement", "header", "xPaddingObfsMode"}))
        session == Get(block, "sessionIDPlacement", Get(block, "sessionPlacement", Blank))
        streams == Get(block, "mode", Blank) \in {<<"stream-one">>, <<"stream-up">>}
    IN CASE network = "kcp" -> [mtu |-> block.mtu, tti |-> block.tti]
         [] network = "tcp" ->
              IF Get(block, "header", <<"none">>) = <<"http">>
              THEN [path |-> block.path, host |-> block.host] ELSE Nothing
         [] network = "grpc" -> [multi |-> block.multiMode, keys |-> text]
         [] network = "hysteria" -> [auth |-> block.auth]
         [] network = "xhttp" ->
              [path |-> Or(Get(block, "path", Blank), <<"/">>),
               mode |-> Or(Get(block, "mode", Blank), <<"auto">>),
               obfs |-> Get(block, "xPaddingObfsMode", False), session |-> session,
               xmux |-> Given(Get(block, "xmux", Nothing)),
               keys |-> Without(text, {"sessionIDPlacement"}
                                  \cup IF streams THEN PACKET_UP_FIELDS ELSE {})]
         [] OTHER -> [path |-> Or(Get(block, "path", Blank), <<"/">>), keys |-> text]

CoreStream(r) ==
    LET stream == Get(r, "streamSettings", Nothing)
        network == FirstHost(<<Get(stream, "method", ""), Network(stream), "tcp">>)
        security == Security(stream)
        sockopt == Without(CoreSet(Sockopt(r)),
                           IF Lower(r.protocol) = "freedom" THEN {"domainStrategy"} ELSE {})
    IN IF Lower(r.protocol) \notin STREAM_PROTOCOLS THEN [sockopt |-> sockopt]
       ELSE [network |-> network, security |-> security, sockopt |-> sockopt,
             block |-> CoreBlock(network, Get(stream, BlockOf[network], Nothing)),
             tls |-> IF security = "tls"
                     THEN Fill(Get(stream, "tlsSettings", Nothing), EmptyTls) ELSE EmptyTls,
             reality |-> IF security = "reality"
                         THEN stream.realitySettings ELSE EmptyReality,
             mask |-> Get(stream, "finalmask", NoMask)]

Meaning(r) ==
    [protocol |-> Lower(r.protocol), own |-> CoreOwn(r), stream |-> CoreStream(r),
     strategy |-> IF Lower(r.protocol) = "freedom" THEN Nothing
                  ELSE CoreSet("targetStrategy" :> Get(r, "targetStrategy", Blank)),
     mux |-> "mux" \in DOMAIN r,
     server |-> IF Lower(r.protocol) \in ServerProtocols THEN <<CoreServer(r)>> ELSE <<>>]

\* What the core refuses to load.
CoreAccepts(r) ==
    LET stream == CoreStream(r)
    IN /\ Lower(r.protocol) = "hysteria" =>
            stream.network = "hysteria" /\ stream.security = "tls"
       /\ Lower(r.protocol) \in STREAM_PROTOCOLS /\ stream.network = "xhttp" =>
            ~({"maxConnections", "maxConcurrency"} \subseteq DOMAIN stream.block.xmux)

-----------------------------------------------------------------------------
(* What a client of an inbound has to use                                  *)

\* An inbound's user as the client shows it.
WantedUser(i, client, front) ==
    CASE i.protocol = "vless" ->
           [id |-> <<applyVlessRoute(client.id, front.route)>>, encryption |-> i.encryption,
            flow |-> IF i.stream.network = "tcp" /\ i.stream.security # "none"
                     THEN client.flow ELSE Blank]
      [] i.protocol = "vmess" -> [id |-> <<client.id>>, security |-> client.security]
      [] i.protocol = "trojan" -> [password |-> <<client.password>>]
      [] i.protocol = "shadowsocks" ->
           [method |-> <<i.method>>, uot |-> False,
            password |-> IF SingleUser(i) THEN <<i.password>>
                         ELSE IF i.method = "2022-blake3-aes" THEN <<i.password, client.password>>
                         ELSE <<client.password>>]
      [] OTHER -> Nothing

\* TLS as the front terminates it: its own settings first, then the inbound's.
\* A hysteria front has no settings of its own but its pins.
WantedTls(i, front) ==
    LET own == IF i.stream.security = "tls" THEN i.stream.tls ELSE OwnFront(i).tls
        other == IF ~front.external THEN OwnFront(i).tls
                 ELSE IF i.protocol = "hysteria" THEN [OwnFront(i).tls EXCEPT !.pcs = front.tls.pcs]
                 ELSE [front.tls EXCEPT !.sni = Or(@, <<front.address>>)]
        pins == IF other.pcs # <<>> THEN other.pcs ELSE own.pcs
        alpn == IF other.alpn # <<>> THEN other.alpn ELSE own.alpn
    IN [serverName |-> Or(other.sni, own.sni), fingerprint |-> Or(other.fp, own.fp),
        alpn |-> IF alpn = <<>> /\ i.protocol = "hysteria" THEN <<"h3">> ELSE alpn,
        echConfigList |-> Or(other.ech, own.ech),
        verifyPeerCertByName |-> Or(other.vcn, own.vcn),
        pinnedPeerCertSha256 |-> IF i.protocol = "hysteria" THEN PinsHex(Join(pins))
                                 ELSE Join(pins)]

WantedReality(i, client) ==
    LET r == i.stream.reality
    IN [publicKey |-> r.publicKey, fingerprint |-> r.fingerprint,
        serverName |-> Or(r.serverName, Or(r.serverNames, r.target)), shortId |-> r.shortIds,
        spiderX |-> deriveSpiderX(r.spiderX, client.key), mldsa65Verify |-> r.mldsa65Verify]

\* The transport: the host a client sends may stand in a header of the
\* inbound; obfs-local has no path; a vmess link has no kcp parameters.
WantedBlock(i, client) ==
    LET n == i.stream.net
        host == SetIf("host", IF "host" \in DOMAIN n THEN Or(n.host, n.headerHost) ELSE Blank)
        path == IF "path" \in DOMAIN n THEN n.path ELSE Blank
        hdr == Split(Or(n.responseHost, n.requestHost))
    IN CASE i.stream.network = "tcp" ->
              IF n.header # "http" THEN Nothing
              ELSE [path |-> IF i.protocol = "shadowsocks" THEN <<"/">> ELSE path, host |-> hdr]
         [] i.stream.network = "kcp" ->
              IF i.protocol = "vmess" THEN EmptyBlock("kcp") ELSE n
         [] i.stream.network = "grpc" ->
              [multi |-> n.multiMode,
               keys |-> Given([serviceName |-> n.serviceName, authority |-> n.authority])]
         [] i.stream.network = "hysteria" -> [auth |-> <<client.auth>>]
         [] i.stream.network = "xhttp" ->
              [path |-> path, mode |-> Or(n.mode, <<"auto">>), session |-> n.sessionIDPlacement,
               obfs |-> Or(n.xPaddingObfsMode, False), xmux |-> Nothing,
               keys |-> host @@ Given([xPaddingBytes |-> Or(n.xPaddingBytes, <<"100-1000">>),
                   xPaddingKey |-> IF Is(n.xPaddingObfsMode) THEN n.xPaddingKey ELSE Blank,
                   headers |-> IF i.protocol = "vmess" THEN Blank ELSE n.headers,
                   scMaxEachPostBytes |-> IF \/ n.scMaxEachPostBytes = <<"1000000">>
                                             \/ n.mode = <<"stream-one">>
                                          THEN Blank ELSE n.scMaxEachPostBytes])]
         [] OTHER -> [path |-> path, keys |-> host]

WantedSecurity(i, front) ==
    IF i.protocol = "hysteria" THEN "tls"
    ELSE LET asked1 == LinkSecurity(i.stream, front)
         IN IF i.protocol \in {"vmess", "shadowsocks"} /\ asked1 = "reality" THEN "none" ELSE asked1

\* The masks a link carries: all of them but in a vmess link, which has none.
WantedMask(i) ==
    IF i.protocol = "vmess" THEN NoMask
    ELSE [i.stream.mask EXCEPT !.quic = sanitizeFinalMaskQuicParams(@)]

\* A hysteria link carries the obfuscation and the hop range.
MaskReaches(mask, i) ==
    LET wanted == Masks(i.stream.mask, "salamander")
        have == Masks(mask, "salamander")
    IN /\ wanted # <<>> /\ Is(Head(wanted).value) =>
            /\ have # <<>> /\ Head(have).value = Head(wanted).value
            /\ parseGeckoPacketSize(Head(wanted).opt) => Head(have).opt = Head(wanted).opt
       /\ udpHopPorts(mask) = udpHopPorts(i.stream.mask)

\* A wireguard row has the peer's private key and addresses, and the inbound's
\* public key and endpoint.
PeerConnects(r, share) ==
    LET own == CoreOwn(r)
    IN /\ own.keys.secretKey = <<share.client.privateKey>>
       /\ Get(own.keys, "address", <<>>) = share.client.allowedIPs
       /\ Is(share.inbound.mtu) => own.mtu = share.inbound.mtu
       /\ own.peers[1].publicKey = share.inbound.publicKey
       /\ Unbracketed(own.peers[1].endpoint.host) = Unbracketed(share.front.address)
       /\ own.peers[1].endpoint.port = share.front.port

\* The row connects to the inbound as this client, through this front.
Connects(r, share) ==
    LET i == share.inbound
        front == share.front
        m == Meaning(r)
        security == WantedSecurity(i, front)
    IN IF i.protocol = "wireguard" THEN PeerConnects(r, share)
       ELSE /\ m.protocol = i.protocol
            /\ m.server = <<[host |-> Unbracketed(front.address), port |-> front.port,
                             user |-> WantedUser(i, share.client, front)]>>
            /\ m.stream.network = i.stream.network
            /\ m.stream.block = WantedBlock(i, share.client)
            /\ m.stream.security = security
            /\ security = "tls" => m.stream.tls = WantedTls(i, front)
            /\ security = "reality" => m.stream.reality = WantedReality(i, share.client)
            /\ IF i.protocol = "hysteria" THEN MaskReaches(m.stream.mask, i)
               ELSE m.stream.mask = WantedMask(i)
=============================================================================
