--------------------------- MODULE MCOutboundForm ---------------------------
(* Inbounds, links, rows and texts for model checking the outbound editor. *)
EXTENDS OutboundForm

\* Transports of an inbound
Tcp == [header |-> "none", path |-> <<>>, responseHost |-> Blank, requestHost |-> Blank]
Http == [header |-> "http", path |-> <<"/a", "/b">>, responseHost |-> Blank,
         requestHost |-> <<"h1", "h2">>]
Ws(host, headerHost) == [path |-> <<"/ws">>, host |-> host, headerHost |-> headerHost]
Grpc(multi) == [serviceName |-> <<"svc">>, authority |-> <<"auth">>, multiMode |-> multi]
Kcp(mtu, tti) == [mtu |-> mtu, tti |-> tti]
Xhttp == [path |-> <<"/x">>, host |-> Blank, headerHost |-> <<"hh">>, mode |-> <<"auto">>,
          xPaddingBytes |-> <<"10-20">>, xPaddingObfsMode |-> Blank, xPaddingKey |-> <<"pk">>,
          sessionIDPlacement |-> Blank, scMaxEachPostBytes |-> <<"1000000">>, headers |-> Blank]
XhttpObfs == [Xhttp EXCEPT !.xPaddingObfsMode = True, !.sessionIDPlacement = <<"cookie">>,
              !.scMaxEachPostBytes = <<"500">>, !.mode = <<"packet-up">>, !.headers = <<"X">>]
XhttpOne == [XhttpObfs EXCEPT !.mode = <<"stream-one">>, !.xPaddingBytes = Blank]

NoTls == [sni |-> Blank, fp |-> Blank, alpn |-> <<>>, ech |-> Blank, vcn |-> Blank, pcs |-> <<>>]
OwnTls == [sni |-> <<"sni">>, fp |-> <<"chrome">>, alpn |-> <<"h2", "http/1.1">>,
           ech |-> <<"ech">>, vcn |-> Blank, pcs |-> <<"pin64", "pinhex">>]
OwnReality == [publicKey |-> <<"pbk">>, fingerprint |-> <<"firefox">>, serverName |-> Blank,
               serverNames |-> <<"rn">>, target |-> <<"rt">>, shortIds |-> <<"sid">>,
               spiderX |-> <<"seed">>, mldsa65Verify |-> Blank]

Stream(network, net, security, mask) ==
    [network |-> network, net |-> net, security |-> security, tls |-> OwnTls,
     reality |-> OwnReality, mask |-> mask]

Mask(type, value, opt) == [type |-> type, value |-> value, opt |-> opt]
Quic == [udp |-> <<>>, quic |-> [keepAlivePeriod |-> 1, maxIdleTimeout |-> 500,
                                 maxIncomingStreams |-> 0]]
Salamander(size) == [udp |-> <<Mask("salamander", <<"ob">>, size)>>,
                     quic |-> "hop" :> <<"100-200">>]
Hop == [udp |-> <<Mask("udphop", <<"300-400">>, Blank)>>, quic |-> Nothing]

Streams ==
    {Stream("tcp", Tcp, sec, NoMask) : sec \in {"none", "tls", "reality"}}
      \cup {Stream("tcp", Http, "none", NoMask), Stream("ws", Ws(Blank, <<"hh">>), "tls", NoMask),
            Stream("httpupgrade", Ws(<<"hu">>, <<"hh">>), "none", NoMask),
            Stream("grpc", Grpc(TRUE), "reality", NoMask),
            Stream("grpc", Grpc(FALSE), "tls", NoMask),
            Stream("kcp", Kcp(1400, 50), "none", NoMask),
            Stream("kcp", Kcp(1350, 20), "none", Quic)}
      \cup {Stream("xhttp", x, "tls", NoMask) : x \in {Xhttp, XhttpObfs, XhttpOne}}

Allowed(protocol, s) == s.security = "reality" => protocol \in {"vless", "trojan"}

Hosts == [listen |-> "any", custom |-> "", strategy |-> "listen", node |-> "", browser |-> "loop",
          public |-> "pub"]
HostCases ==
    {Hosts, [Hosts EXCEPT !.listen = "v6"], [Hosts EXCEPT !.strategy = "custom", !.custom = "cust"],
     [Hosts EXCEPT !.strategy = "node", !.node = "n1"],
     [Hosts EXCEPT !.strategy = "custom", !.custom = "bad_host", !.listen = "lis"]}

Proxy(tls, force) ==
    [external |-> TRUE, address |-> "front", port |-> 8443, forceTls |-> force,
     remark |-> "fr", route |-> "443", tls |-> tls]
FrontTls == [NoTls EXCEPT !.sni = <<"fsni">>, !.alpn = <<"h3">>, !.pcs = <<"pin64">>]
ProxyCases == {{}, {Proxy(NoTls, "same"), Proxy(FrontTls, "tls"), Proxy(NoTls, "none")}}

Client == [id |-> "uuid", security |-> <<"auto">>, flow |-> <<"xtls-rprx-vision">>,
           password |-> "pw", auth |-> "auth", key |-> <<"sub">>, secret |-> "ee"]

Inbound(protocol, s, proxies, hosts) ==
    [protocol |-> protocol, stream |-> s, proxies |-> proxies, hosts |-> hosts, port |-> 2053,
     remark |-> "in", clients |-> {Client}, encryption |-> <<"none">>]

Shadowsocks(method, s, proxies) ==
    [Inbound("shadowsocks", s, proxies, Hosts) EXCEPT !.clients = {[Client EXCEPT !.password = "p@ss"]}]
      @@ [method |-> method, password |-> "srv@pw"]

Hysteria(mask, proxies) ==
    Inbound("hysteria", Stream("hysteria", Nothing, "tls", mask), proxies, Hosts)

Peer == [privateKey |-> "p@ss", allowedIPs |-> <<"10.0.0.2/32", "fd::2/128">>]
Wireguard(clients, peers) ==
    [protocol |-> "wireguard", hosts |-> [Hosts EXCEPT !.listen = "v6"], port |-> 51820,
     remark |-> "", clients |-> clients, peers |-> peers, publicKey |-> <<"srvpub">>,
     mtu |-> <<"1300">>]

PanelInbounds ==
    {Inbound(protocol, s, proxies, Hosts) :
        protocol \in {"vless", "vmess", "trojan"}, s \in Streams, proxies \in {{}}}
      \cup {Inbound(protocol, s, proxies, Hosts) :
              protocol \in {"vless", "vmess", "trojan"},
              s \in {s \in Streams : s.network \in {"tcp", "grpc"}}, proxies \in ProxyCases}
      \cup {Inbound("vless", Stream("tcp", Tcp, "none", NoMask), {}, hosts) : hosts \in HostCases}
      \cup {Inbound(protocol, Stream("tcp", Tcp, "none", NoMask), {}, Hosts) :
              protocol \in {"tuic", "mtproto"}}
      \cup {Hysteria(mask, proxies) :
              mask \in {NoMask, Hop, Salamander(<<"512-1200">>), Salamander(<<"bad">>)},
              proxies \in ProxyCases}

SsInbounds ==
    {Shadowsocks(method, s, proxies) :
        method \in {"aes-256-gcm", "2022-blake3-aes", "2022-blake3-chacha20-poly1305"},
        s \in {s \in Streams : s.network \in {"tcp", "ws"}}, proxies \in ProxyCases}

MCInbounds ==
    {i \in PanelInbounds \cup SsInbounds : Allowed(i.protocol, i.stream)}
      \cup {Wireguard({Peer}, {}), Wireguard({}, {Peer})}

-----------------------------------------------------------------------------
\* Rows of the template, with the old and the new spellings the core takes
Row2(protocol, tag, settings) == [protocol |-> protocol, tag |-> tag, settings |-> settings]
TlsBlock == [EmptyTls EXCEPT !.serverName = <<"sni">>, !.fingerprint = <<"chrome">>]
Streamed(protocol, tag, settings, stream) ==
    Row2(protocol, tag, settings) @@ [streamSettings |-> stream]
At(fields) == [address |-> <<"srv">>, port |-> 8443] @@ fields
XhttpRow(xmux) ==
    "network" :> "xhttp" @@ "security" :> "tls" @@ "tlsSettings" :> TlsBlock
      @@ "xhttpSettings" :> ([path |-> <<"/x">>, sessionPlacement |-> <<"cookie">>,
                              xPaddingObfsMode |-> False] @@ xmux)
WgPeer == [publicKey |-> <<"pub">>, endpoint |-> [host |-> "srv", port |-> 51820],
           allowedIPs |-> <<"10.0.0.0/8">>]

MCRows ==
    {Streamed("vless", "a", "vnext" :> At([id |-> <<"uuid">>, flow |-> <<"xtls-rprx-vision">>]),
              "network" :> "tcp" @@ "security" :> "reality"
                @@ "realitySettings" :> [EmptyReality EXCEPT !.publicKey = <<"pbk">>]
                @@ "tcpSettings" :> EmptyHeader),
     Streamed("vless", "b", At([id |-> <<"uuid">>, encryption |-> <<"mlkem">>])
                              @@ "reverse" :> [tag |-> <<"rev">>],
              XhttpRow("xmux" :> [maxConnections |-> <<"4">>])),
     Streamed("vmess", "c", "vnext" :> At([id |-> <<"uuid">>, security |-> <<"aes-128-gcm">>]),
              "method" :> "ws" @@ "security" :> "tls" @@ "tlsSettings" :> TlsBlock
                @@ "wsSettings" :> [path |-> <<"/">>, host |-> <<"h">>]
                @@ "sockopt" :> [mark |-> <<"1">>, tcpFastOpen |-> False, domainStrategy |-> AsIs])
       @@ [mux |-> [enabled |-> True, concurrency |-> <<"8">>]],
     Streamed("trojan", "d", "servers" :> At([password |-> <<"pw">>]),
              "network" :> "grpc" @@ "security" :> "tls" @@ "tlsSettings" :> TlsBlock
                @@ "grpcSettings" :> EmptyBlock("grpc")),
     Streamed("shadowsocks", "e",
              "servers" :> At([method |-> <<"aes-256-gcm">>, password |-> <<"pw">>]),
              "network" :> "kcp" @@ "kcpSettings" :> EmptyBlock("kcp") @@ "finalmask" :> Quic),
     Row2("socks", "f", "servers" :> At([user |-> <<"u">>, pass |-> <<"p">>])),
     Row2("http", "g", "servers" :> At(Nothing) @@ "headers" :> <<"X">>),
     Row2("wireguard", "h", [secretKey |-> <<"sk">>, address |-> <<"10.0.0.2/32">>,
                             reserved |-> <<"1", "2", "3">>, peers |-> <<WgPeer>>]),
     Streamed("hysteria", "i", At(Nothing),
              "network" :> "hysteria" @@ "security" :> "tls" @@ "tlsSettings" :> TlsBlock
                @@ "hysteriaSettings" :> [auth |-> <<"auth">>] @@ "finalmask" :> Hop),
     Streamed("Freedom", "j", [domainStrategy |-> <<"useip">>],
              "sockopt" :> [domainStrategy |-> <<"ForceIP">>, mark |-> <<"7">>])
       @@ [targetStrategy |-> AsIs],
     Row2("freedom", "k", "ipsBlocked" :> <<"geoip:private">> @@ "redirect" :> <<"r">>
                            @@ "fragment" :> [packets |-> <<"1-3">>, length |-> <<"5">>]),
     Row2("freedom", "l", "finalRules" :> <<[action |-> <<"allow">>, network |-> <<"tcp">>],
                                            [ip |-> <<"10.0.0.0/8">>, blockDelay |-> <<"5">>]>>)
       @@ [targetStrategy |-> <<"ForceIP">>],
     Row2("blackhole", "m", "response" :> [type |-> <<"http">>]),
     Row2("dns", "n", [network |-> <<"tcp">>, address |-> <<"1.1.1.1">>, port |-> 5353,
                       rules |-> <<[action |-> <<"hijack">>, qtype |-> <<"1">>]>>]),
     Row2("loopback", "o", [inboundTag |-> <<"t">>,
                            sniffing |-> [enabled |-> True, destOverride |-> <<"tls">>,
                                          routeOnly |-> True]]),
     Row2("amneziawg", "p", [secretKey |-> <<"sk">>, address |-> <<"10.0.0.3/32">>, jc |-> <<"4">>,
                             peers |-> <<WgPeer @@ [keepAlive |-> <<"25">>]>>])}

\* Texts the user types: a row with its transport, in each spelling, and no row.
MCTexts ==
    {Malformed, NoText,
     Text(Streamed("vless", "x", At([id |-> <<"uuid">>]),
                   XhttpRow("xmux" :> [maxConcurrency |-> <<"9">>]))),
     Text(Streamed("vless", "x", At([id |-> <<"uuid">>]),
                   XhttpRow("xmux" :> [maxConcurrency |-> <<"9">>, maxConnections |-> <<"4">>]))),
     Text(Row2("hysteria", "x", At(Nothing))),
     Text(Streamed("trojan", "taken", "servers" :> At([password |-> <<"pw">>]),
                   "method" :> "httpupgrade" @@ "httpupgradeSettings" :> EmptyBlock("httpupgrade"))),
     Text(Row2("Freedom", "x", "domainStrategy" :> <<"useip">>))}
MCNetworks == {"tcp", "kcp", "xhttp"}
MCProtocols == {"vless", "trojan", "hysteria", "wireguard", "freedom"}
MCOtherTags == {"taken"}
MCNewTags == {"taken", "new"}
MCMaxEdits == 3
MCImportCost == 3
=============================================================================
