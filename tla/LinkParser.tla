----------------------------- MODULE LinkParser -----------------------------
(***************************************************************************)
(* lib/xray/outbound-link-parser.ts: a share link becomes an outbound row  *)
(* of the Xray template.                                                   *)
(*                                                                         *)
(* A row is a record: protocol, tag, settings and streamSettings.  Stream  *)
(* settings are a function from the keys the JSON object has: "network",   *)
(* "security", the block of a transport ("wsSettings", ...), of TLS or of  *)
(* Reality, "finalmask", "sockopt".                                        *)
(***************************************************************************)
EXTENDS ShareLinks

BlockOf == [tcp |-> "tcpSettings", kcp |-> "kcpSettings", ws |-> "wsSettings",
            grpc |-> "grpcSettings", httpupgrade |-> "httpupgradeSettings",
            xhttp |-> "xhttpSettings", hysteria |-> "hysteriaSettings"]

-----------------------------------------------------------------------------
(* Transport and security                                                  *)

EmptyTls == [serverName |-> Blank, alpn |-> <<>>, fingerprint |-> Blank,
             echConfigList |-> Blank, verifyPeerCertByName |-> Blank,
             pinnedPeerCertSha256 |-> Blank]
EmptyReality == [publicKey |-> Blank, fingerprint |-> <<"chrome">>,
                 serverName |-> Blank, shortId |-> Blank, spiderX |-> Blank,
                 mldsa65Verify |-> Blank]
EmptyHeader == [header |-> <<"none">>, path |-> <<>>, host |-> <<>>]

\* The settings a transport starts from.
EmptyBlock(network) ==
    CASE network = "tcp" -> EmptyHeader
      [] network = "kcp" -> [mtu |-> 1350, tti |-> 20]
      [] network \in {"ws", "httpupgrade"} -> [path |-> <<"/">>, host |-> Blank]
      [] network = "grpc" ->
           [serviceName |-> Blank, authority |-> Blank, multiMode |-> FALSE]
      [] network = "xhttp" -> [path |-> <<"/">>, host |-> Blank, mode |-> <<"auto">>,
                               xPaddingBytes |-> <<"100-1000">>]

SecurityBlock(security, tls, reality) ==
    CASE security = "tls" -> "tlsSettings" :> tls
      [] security = "reality" -> "realitySettings" :> reality
      [] OTHER -> Nothing

buildStream(network, security, block, tls, reality) ==
    ("network" :> network @@ "security" :> security)
      @@ (BlockOf[network] :> block) @@ SecurityBlock(security, tls, reality)

\* The xhttp keys a link may set, and the old name of one of them, which
\* counts only when the new one is absent.
XhttpKeys == {"xPaddingBytes", "xPaddingKey", "xPaddingObfsMode",
              "sessionIDPlacement", "scMaxEachPostBytes"}
XhttpNamed(fields) ==
    [k \in {k \in XhttpKeys \cap DOMAIN fields : Is(fields[k])} |-> fields[k]]
XhttpLegacy(fields) ==
    SetIf("sessionIDPlacement", Get(fields, "sessionPlacement", Blank))

applyXhttpStringFromJson(xhttp, json) == XhttpNamed(json) @@ xhttp @@ XhttpLegacy(json)

\* Lowest to highest: the default, x_padding_bytes, the extra object, a
\* parameter of the key's own name.
applyXhttpStringFromParams(xhttp, params) ==
    LET padded == SetIf("xPaddingBytes", Get(params, "x_padding_bytes", Blank)) @@ xhttp
        extra == IF "extra" \notin DOMAIN params THEN padded
                 ELSE SetIf("headers", Get(params.extra, "headers", Blank))
                        @@ applyXhttpStringFromJson(padded, params.extra)
    IN XhttpNamed(params) @@ extra @@ XhttpLegacy(params)

\* Bounds of the core; what is not a decimal number is -1 here.
kcpParamInRange(n, low, high, default) == IF n >= low /\ n <= high THEN n ELSE default

HttpHeader(params) ==
    [header |-> <<"http">>, path |-> Split(Get(params, "path", <<"/">>)),
     host |-> Split(Get(params, "host", Blank))]

\* The block of a transport as the parameters set it.
applyTransportParams(network, params) ==
    LET block == EmptyBlock(network)
        host == Get(params, "host", Blank)
        path == Get(params, "path", <<"/">>)
    IN CASE network \in {"ws", "httpupgrade"} -> [path |-> path, host |-> host]
         [] network = "grpc" ->
              [serviceName |-> Get(params, "serviceName", Get(params, "path", Blank)),
               authority |-> Get(params, "authority", Blank),
               multiMode |-> Get(params, "mode", Blank) = <<"multi">>]
         [] network = "xhttp" ->
              applyXhttpStringFromParams(
                  [block EXCEPT !.host = host, !.path = path,
                                !.mode = Or(Get(params, "mode", Blank), @)], params)
         [] network = "kcp" ->
              [mtu |-> kcpParamInRange(Get(params, "mtu", -1), 21, 2147483647, block.mtu),
               tti |-> kcpParamInRange(Get(params, "tti", -1), 10, 1000, block.tti)]
         [] network = "tcp" ->
              IF Get(params, "headerType", Blank) = <<"http">> THEN HttpHeader(params) ELSE block

TlsFromParams(params, pins) ==
    [serverName |-> Get(params, "sni", Blank), fingerprint |-> Get(params, "fp", Blank),
     alpn |-> IF Is(Get(params, "alpn", Blank)) THEN params.alpn ELSE <<>>,
     echConfigList |-> Get(params, "ech", Blank),
     verifyPeerCertByName |-> Get(params, "vcn", Blank),
     pinnedPeerCertSha256 |-> Get(params, pins, Blank)]

RealityFromParams(params) ==
    [serverName |-> Get(params, "sni", Blank),
     fingerprint |-> Get(params, "fp", EmptyReality.fingerprint),
     publicKey |-> Get(params, "pbk", Blank), shortId |-> Get(params, "sid", Blank),
     spiderX |-> Get(params, "spx", Blank), mldsa65Verify |-> Get(params, "pqv", Blank)]

-----------------------------------------------------------------------------
(* Masks                                                                   *)

QuicNumericMax == 1000000
Low(n, floor) == IF n < floor THEN floor ELSE n
High(n, ceiling) == IF n > ceiling THEN ceiling ELSE n

\* The core refuses a whole config over one of these out of its range.
clampQuicNumeric(key, n) ==
    CASE n = 0 -> 0
      [] n # 0 /\ key = "keepAlivePeriod" -> High(Low(n, 2), 60)
      [] n # 0 /\ key = "maxIdleTimeout" -> High(Low(n, 4), 120)
      [] n # 0 /\ key = "maxIncomingStreams" -> Low(n, 8)
      [] OTHER -> n

sanitizeFinalMaskQuicParams(quic) ==
    LET kept == {k \in DOMAIN quic : k # "hop" => quic[k] \in 0..QuicNumericMax}
    IN [k \in kept |-> IF k = "hop" THEN quic[k] ELSE clampQuicNumeric(k, quic[k])]

kcpHeaderTypeToMask ==
    [h \in {"dns", "dtls", "wechat-video"} |-> IF h = "wechat-video" THEN "wechat" ELSE h]
mkcpLegacyMask(header, value) == [type |-> "mkcp-legacy", value |-> value, opt |-> header]

\* headerType and seed of an old kcp link, unless fm already has such a mask;
\* the seed goes first, so that the header is the outer layer.
applyMkcpLegacyFromShare(mask, network, params) ==
    LET named == Get(params, "headerType", Blank)
        header == IF named = <<"none">> THEN Blank ELSE named
        seed == Get(params, "seed", Blank)
        seedMask == IF Is(seed) THEN <<mkcpLegacyMask(Blank, seed)>> ELSE <<>>
        headerMask == IF Is(header)
                      THEN <<mkcpLegacyMask(<<kcpHeaderTypeToMask[header[1]]>>, Blank)>>
                      ELSE <<>>
    IN IF \/ network # "kcp"
          \/ Is(header) /\ header[1] \notin DOMAIN kcpHeaderTypeToMask
          \/ Masks(mask, "mkcp-legacy") # <<>>
       THEN mask
       ELSE [mask EXCEPT !.udp = @ \o seedMask \o headerMask]

applyFinalMaskParam(network, params) ==
    LET fm == Get(params, "fm", NoMask)
    IN applyMkcpLegacyFromShare(
           [fm EXCEPT !.quic = sanitizeFinalMaskQuicParams(@)], network, params)

\* obfs of a hysteria link: it fills what the salamander mask of fm lacks, or
\* adds the mask.
applyHysteria2Obfs(mask, params) ==
    LET obfs == Get(params, "obfs", Blank)
        password == Get(params, "obfs-password", Blank)
        size == IF obfs = <<"gecko">> /\ parseGeckoPacketSize(Get(params, "packetSize", Blank))
                THEN params.packetSize ELSE Blank
        first == SelectInSeq(mask.udp, LAMBDA m : m.type = "salamander")
    IN CASE obfs \notin {<<"gecko">>, <<"salamander">>} \/ ~Is(password) -> mask
         [] obfs \in {<<"gecko">>, <<"salamander">>} /\ Is(password) /\ first # 0 ->
              [mask EXCEPT !.udp[first].value = Or(@, password),
                           !.udp[first].opt = Or(@, size)]
         [] OTHER -> [mask EXCEPT !.udp = Append(@, [type |-> "salamander",
                                                     value |-> password, opt |-> size])]

applyHysteria2Hop(mask, params) ==
    IF ~Is(Get(params, "mport", Blank)) \/ Masks(mask, "udphop") # <<>> THEN mask
    ELSE [mask EXCEPT !.udp = Append(@, [type |-> "udphop", value |-> params.mport,
                                         opt |-> Blank])]

MaskKey(mask) == IF hasShareableFinalMaskValue(mask) THEN "finalmask" :> mask ELSE Nothing

-----------------------------------------------------------------------------
(* One parser per scheme                                                   *)

NoRow == [protocol |-> ""]
Row(protocol, tag, settings, stream) ==
    [protocol |-> protocol, tag |-> tag, settings |-> settings, streamSettings |-> stream]

\* What the three URL parsers share.
StreamFromParams(params, security) ==
    LET network == Get(params, "type", <<"tcp">>)[1]
    IN buildStream(network, security, applyTransportParams(network, params),
                   TlsFromParams(params, "pcs"), RealityFromParams(params))
         @@ MaskKey(applyFinalMaskParam(network, params))

\* The object has the transport's keys itself, its type names the header or
\* the grpc mode, and it has no masks and no kcp parameters.
parseVmessLink(link) ==
    LET json == link.query
        security == IF json.tls = "tls" THEN "tls" ELSE "none"
        type == Get(json, "type", Blank)
        block == CASE json.net = "tcp" ->
                        IF type = <<"http">> THEN HttpHeader(json) ELSE EmptyHeader
                   [] json.net = "grpc" ->
                        [serviceName |-> Get(json, "path", Blank),
                         authority |-> Get(json, "authority", Blank),
                         multiMode |-> type = <<"multi">>]
                   [] json.net = "xhttp" ->
                        applyXhttpStringFromJson(
                            [EmptyBlock("xhttp") EXCEPT !.host = Get(json, "host", Blank),
                                !.path = Get(json, "path", <<"/">>),
                                !.mode = Or(Get(json, "mode", Blank), @)], json)
                   [] json.net = "kcp" -> EmptyBlock("kcp")
                   [] OTHER -> applyTransportParams(json.net, json)
        scy == IF json.scy \in {Blank, <<"none">>, <<"zero">>} THEN <<"auto">> ELSE json.scy
    IN Row("vmess", link.remark,
           "vnext" :> [address |-> <<link.host>>, port |-> link.port,
                       id |-> link.user, security |-> scy],
           buildStream(json.net, security, block, TlsFromParams(json, "pcs"), EmptyReality))

parseVlessLink(link) ==
    LET p == link.query
    IN Row("vless", link.remark,
           [address |-> <<link.host>>, port |-> link.port, id |-> link.user,
            flow |-> Get(p, "flow", Blank), encryption |-> Get(p, "encryption", <<"none">>)],
           StreamFromParams(p, Get(p, "security", <<"none">>)[1]))

\* The user-info is taken as it stands in the link.
parseTrojanLink(link) ==
    LET p == link.query
    IN Row("trojan", link.remark,
           "servers" :> [address |-> <<link.host>>, port |-> link.port, password |-> link.user],
           StreamFromParams(p, Get(p, "security", <<"tls">>)[1]))

\* The plugin the panel writes for an http header, back to that header.
applyObfsLocalPluginParams(params) ==
    IF \/ Is(Get(params, "headerType", Blank))
       \/ Get(params, "plugin", Blank) # <<"obfs-local">>
       \/ Get(params, "obfs", Blank) # <<"http">>
    THEN params
    ELSE ("type" :> <<"tcp">> @@ "headerType" :> <<"http">>)
           @@ SetIf("host", Get(params, "obfs-host", Blank)) @@ params

\* User-info: percent-encoded parts, or one base64 text of all of them.
parseShadowsocksLink(link) ==
    LET p == applyObfsLocalPluginParams(link.query)
        user == IF link.base64 THEN link.user
                ELSE [n \in DOMAIN link.user |-> decodeURIComponent(link.user[n])]
    IN Row("shadowsocks", link.remark,
           "servers" :> [address |-> <<link.host>>, port |-> link.port,
                         method |-> <<user[1]>>, password |-> Tail(user)],
           StreamFromParams(p, Get(p, "security", <<"none">>)[1]))

parseHysteria2Link(link) ==
    LET p == link.query
        tls == TlsFromParams(p, "pinSHA256")
        mask == applyHysteria2Hop(
                    applyHysteria2Obfs(applyFinalMaskParam("hysteria", p), p), p)
    IN Row("hysteria", link.remark,
           [address |-> <<link.host>>, port |-> link.port],
           buildStream("hysteria", "tls", [auth |-> link.user],
                       [tls EXCEPT !.alpn = IF @ = <<>> THEN <<"h3">> ELSE @], EmptyReality)
             @@ MaskKey(mask))

parseWireguardLink(link) ==
    LET p == link.query
        peer == [publicKey |-> Get(p, "publickey", Blank),
                 endpoint |-> [host |-> link.host, port |-> link.port],
                 allowedIPs |-> Get(p, "allowedips", <<"0.0.0.0/0", "::/0">>)]
    IN [protocol |-> "wireguard", tag |-> link.remark,
        settings |-> [secretKey |-> <<decodeURIComponent(link.user[1])>>,
                      address |-> Split(Get(p, "address", Blank)),
                      peers |-> <<SetIf("preSharedKey", Get(p, "presharedkey", Blank))
                                    @@ SetIf("keepAlive", Get(p, "keepalive", Blank)) @@ peer>>]
                       @@ SetIf("mtu", Get(p, "mtu", Blank))
                       @@ SetIf("reserved", Get(p, "reserved", Blank))]

\* NoRow when no parser knows the scheme.
parseOutboundLink(link) ==
    CASE link.scheme = "vmess" -> parseVmessLink(link)
      [] link.scheme = "vless" -> parseVlessLink(link)
      [] link.scheme = "trojan" -> parseTrojanLink(link)
      [] link.scheme = "ss" -> parseShadowsocksLink(link)
      [] link.scheme \in {"hysteria2", "hy2"} -> parseHysteria2Link(link)
      [] link.scheme \in {"wireguard", "wg"} -> parseWireguardLink(link)
      [] OTHER -> NoRow
=============================================================================
