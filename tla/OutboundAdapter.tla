--------------------------- MODULE OutboundAdapter ---------------------------
(***************************************************************************)
(* lib/xray/outbound-form-adapter.ts: between a row of the Xray template   *)
(* (what LinkParser produces, what the file holds) and the values of the   *)
(* outbound form; and the outbound side of stream-wire-normalize.ts.       *)
(*                                                                         *)
(* Every scalar but a port is a text; the blank text stands for the empty  *)
(* string and, where the code treats the two alike, for the number 0.      *)
(***************************************************************************)
EXTENDS LinkParser

Fill(raw, defaults) == [k \in DOMAIN defaults |-> Get(raw, k, defaults[k])]
Without(fields, keys) == [k \in DOMAIN fields \ keys |-> fields[k]]
\* Leaves out the given keys where they are blank.
DropBlank(fields, keys) == Without(fields, {k \in keys \cap DOMAIN fields : ~Is(fields[k])})
True == <<"true">>
False == <<"false">>

asPort(raw, default) ==
    IF Get(raw, "port", default) \in 1..65535 THEN Get(raw, "port", default) ELSE default
OneOf(text, allowed, default) == IF text \in allowed THEN text ELSE default

AsIs == <<"AsIs">>
\* The core's spelling of a strategy, whatever case the row has it in.
targetStrategyFromWire(text) ==
    IF text = <<"useip">> THEN <<"UseIP">>
    ELSE OneOf(text, {AsIs, <<"UseIP">>, <<"ForceIP">>}, Blank)

Sockopt(raw) == Get(Get(raw, "streamSettings", Nothing), "sockopt", Nothing)

\* Mutant: the two old keys of the settings are not looked at.
freedomStrategyRootOnly(raw) ==
    LET root == targetStrategyFromWire(Get(raw, "targetStrategy", Blank))
    IN IF root \in {Blank, AsIs}
       THEN targetStrategyFromWire(Get(Sockopt(raw), "domainStrategy", Blank))
       ELSE root

\* Root key, then the two keys of the settings, then sockopt.
freedomDomainStrategyFromWire(raw) ==
    LET root == targetStrategyFromWire(Get(raw, "targetStrategy", Blank))
        inSettings == targetStrategyFromWire(
                          Or(Get(raw.settings, "targetStrategy", Blank),
                             Get(raw.settings, "domainStrategy", Blank)))
        legacy == IF root \in {Blank, AsIs} THEN inSettings ELSE root
    IN IF legacy \in {Blank, AsIs}
       THEN targetStrategyFromWire(Get(Sockopt(raw), "domainStrategy", Blank))
       ELSE legacy

SNIFFING_DEST_VALUES == <<"http", "tls", "quic", "fakedns">>
SNIFFING_DEFAULT == [enabled |-> False, destOverride |-> SNIFFING_DEST_VALUES,
                     routeOnly |-> False, ipsExcluded |-> Blank]

sniffingFromWire(raw) ==
    LET s == Fill(raw, SNIFFING_DEFAULT)
        known == SelectSeq(s.destOverride, LAMBDA d : d \in ToSet(SNIFFING_DEST_VALUES))
    IN [s EXCEPT !.destOverride = IF known = <<>> THEN SNIFFING_DEST_VALUES ELSE known]
sniffingToWire(s) == DropBlank(s, {"ipsExcluded"})

-----------------------------------------------------------------------------
(* Settings, protocol by protocol                                          *)

Server == [address |-> Blank, port |-> 443]
First(raw, list) == Get(raw, list, Nothing)
Served(raw, port, defaults) == [Fill(raw, Server @@ defaults) EXCEPT !.port = asPort(raw, port)]

vmessFromWire(raw) ==
    [Served(First(raw, "vnext"), 443, [id |-> Blank, security |-> <<"auto">>])
        EXCEPT !.security = OneOf(@, {<<"aes-128-gcm">>, <<"auto">>}, <<"auto">>)]
vmessToWire(s) == "vnext" :> s

GoodSeed == <<"900", "500", "900", "128">>
DefaultSeed == <<"900", "500", "900", "256">>

\* A vnext entry, where the row has one, replaces the flat keys.
vlessFromWire(raw) ==
    LET flat == Get(raw, "vnext", raw)
        reverse == Get(raw, "reverse", Nothing)
        tag == Get(reverse, "tag", Blank)
        s == Served(flat, 443, [id |-> Blank, flow |-> Blank, encryption |-> <<"none">>])
    IN [s EXCEPT !.encryption = Or(@, <<"none">>)]
         @@ [reverseTag |-> tag,
             reverseSniffing |-> IF Is(tag) THEN sniffingFromWire(Get(reverse, "sniffing", Nothing))
                                 ELSE SNIFFING_DEFAULT,
             testseed |-> OneOf(Get(raw, "testseed", <<>>), {GoodSeed}, DefaultSeed)]
vlessToWire(s) ==
    Without(s, {"reverseTag", "reverseSniffing", "testseed"})
      @@ (IF Is(s.reverseTag)
          THEN "reverse" :> ("tag" :> s.reverseTag
                               @@ "sniffing" :> IF s.reverseSniffing = SNIFFING_DEFAULT THEN Nothing
                                                ELSE sniffingToWire(s.reverseSniffing))
          ELSE Nothing)
      @@ (IF s.flow = <<"xtls-rprx-vision">> THEN "testseed" :> s.testseed ELSE Nothing)

trojanFromWire(raw) == Served(First(raw, "servers"), 443, [password |-> Blank])
shadowsocksFromWire(raw) ==
    Served(First(raw, "servers"), 443,
           [password |-> Blank, method |-> <<"2022-blake3-aes-128-gcm">>, uot |-> False])
simpleAuthFromWire(raw, port) ==
    Served(First(raw, "servers"), port, [user |-> Blank, pass |-> Blank])
httpFromWire(raw) ==
    simpleAuthFromWire(raw, 8080) @@ [headers |-> Get(raw, "headers", Blank)]

serversToWire(s) == "servers" :> s
\* A server without a user has no users.
simpleAuthToWire(s) ==
    "servers" :> IF Is(s.user) THEN s ELSE Without(s, {"user", "pass"})
httpToWire(s) ==
    simpleAuthToWire(Without(s, {"headers"})) @@ SetIf("headers", s.headers)

AllIPs == <<"0.0.0.0/0", "::/0">>
peerFromWire(raw) ==
    LET p == Fill(raw, [publicKey |-> Blank, preSharedKey |-> Blank, keepAlive |-> Blank,
                        allowedIPs |-> AllIPs, endpoint |-> [host |-> "", port |-> 0]])
    IN [p EXCEPT !.allowedIPs = IF @ = <<>> THEN AllIPs ELSE @]
peerToWire(p) == DropBlank(p, {"preSharedKey", "keepAlive"})
Mapped(seq, Op(_)) == [n \in DOMAIN seq |-> Op(seq[n])]

\* Lists become comma-joined texts in the form.
wireguardFromWire(raw) ==
    [Fill(raw, [mtu |-> <<"1420">>, secretKey |-> Blank, address |-> <<>>,
                domainStrategy |-> Blank, reserved |-> <<>>, noKernelTun |-> False])
        EXCEPT !.address = Join(@), !.reserved = Join(@),
               !.domainStrategy = OneOf(@, {<<"ForceIP">>}, Blank)]
      @@ [peers |-> Mapped(Get(raw, "peers", <<>>), peerFromWire)]
wireguardToWire(s) ==
    DropBlank([s EXCEPT !.address = Split(@), !.peers = Mapped(@, peerToWire)],
              {"mtu", "domainStrategy", "reserved"})

amneziawgFromWire(raw) ==
    Fill(raw, [mtu |-> Blank, secretKey |-> Blank, address |-> <<>>, jc |-> Blank,
               h1 |-> Blank, i1 |-> Blank, disableCookies |-> True])
      @@ [peers |-> Mapped(Get(raw, "peers", <<>>), peerFromWire)]
amneziawgToWire(s) ==
    DropBlank([s EXCEPT !.peers = Mapped(@, peerToWire)], {"mtu", "i1"})

hysteriaFromWire(raw) == Served(raw, 443, Nothing)

\* Old rows block addresses with ipsBlocked; the form has rules for it.
freedomFromWire(raw, strategy) ==
    LET rules == Mapped(Get(raw, "finalRules", <<>>),
                        LAMBDA r : [Fill(r, [action |-> <<"block">>, network |-> Blank,
                                             ip |-> <<>>, blockDelay |-> Blank])
                                       EXCEPT !.action = OneOf(@, {<<"allow">>}, <<"block">>)])
        blocked == Get(raw, "ipsBlocked", <<>>)
        backfill == IF blocked = <<>> THEN <<>>
                    ELSE <<[action |-> <<"block">>, network |-> Blank, ip |-> blocked,
                            blockDelay |-> Blank]>>
        fragment == Get(raw, "fragment", Nothing)
    IN [domainStrategy |-> strategy, redirect |-> Get(raw, "redirect", Blank),
        fragment |-> IF DOMAIN fragment = {} THEN [packets |-> Blank, length |-> Blank]
                     ELSE Fill(fragment, [packets |-> <<"1-3">>, length |-> Blank]),
        noises |-> Mapped(Get(raw, "noises", <<>>),
                          LAMBDA n : Fill(n, [type |-> <<"rand">>, packet |-> <<"10-20">>])),
        finalRules |-> IF rules = <<>> THEN backfill ELSE rules]

\* The strategy is not here: it goes to the sockopt of the stream.
freedomToWire(s) ==
    LET rule(r) == DropBlank([r EXCEPT !.ip = Join(@),
                                       !.blockDelay = IF r.action = <<"block">> THEN @ ELSE Blank],
                             {"network", "ip", "blockDelay"})
    IN SetIf("redirect", s.redirect)
         @@ (IF Is(s.fragment.length)
             THEN "fragment" :> DropBlank(s.fragment, {"packets", "length"}) ELSE Nothing)
         @@ (IF s.noises # <<>> THEN "noises" :> s.noises ELSE Nothing)
         @@ (IF s.finalRules # <<>> THEN "finalRules" :> Mapped(s.finalRules, rule) ELSE Nothing)

blackholeFromWire(raw) ==
    [Fill(Get(raw, "response", Nothing), [type |-> Blank, customResponseData |-> Blank])
        EXCEPT !.type = OneOf(@, {<<"none">>, <<"http">>, <<"custom">>}, Blank)]
blackholeToWire(s) ==
    CASE ~Is(s.type) -> Nothing
      [] s.type = <<"custom">> -> "response" :> s
      [] OTHER -> "response" :> [type |-> s.type]

\* Both spellings of the query type; lists become texts.
dnsRuleFromWire(raw) ==
    [Fill(raw, [action |-> <<"direct">>, domain |-> Blank, rCode |-> Blank])
        EXCEPT !.action = OneOf(@, {<<"drop">>, <<"return">>, <<"hijack">>}, <<"direct">>)]
      @@ [qType |-> Get(raw, "qType", Get(raw, "qtype", Blank))]
dnsRuleToWire(r) ==
    DropBlank([r EXCEPT !.domain = Join(Split(@))], {"qType", "domain", "rCode"})

\* The rewrite keys under their new and their old names.
dnsFromWire(raw) ==
    [rewriteNetwork |-> OneOf(Get(raw, "rewriteNetwork", Get(raw, "network", Blank)),
                              {<<"udp">>, <<"tcp">>}, Blank),
     rewriteAddress |-> Get(raw, "rewriteAddress", Get(raw, "address", Blank)),
     rewritePort |-> asPort("port" :> Get(raw, "rewritePort", Get(raw, "port", 53)), 53),
     rules |-> Mapped(Get(raw, "rules", <<>>), dnsRuleFromWire)]
dnsToWire(s) ==
    DropBlank(Without(s, {"rules"}), {"rewriteNetwork", "rewriteAddress"})
      @@ (IF s.rules # <<>> THEN "rules" :> Mapped(s.rules, dnsRuleToWire) ELSE Nothing)

loopbackFromWire(raw) ==
    [inboundTag |-> Get(raw, "inboundTag", Blank),
     sniffing |-> sniffingFromWire(Get(raw, "sniffing", Nothing))]
loopbackToWire(s) ==
    SetIf("inboundTag", s.inboundTag)
      @@ (IF s.sniffing.enabled = True THEN "sniffing" :> sniffingToWire(s.sniffing) ELSE Nothing)

-----------------------------------------------------------------------------
(* Stream settings                                                         *)

XMUX_DEFAULTS == [maxConcurrency |-> <<"16-32">>, maxConnections |-> Blank]

\* "method" is a newer name of "network"; an xmux block switches its sub-form
\* on and is filled up with the defaults.
hydrateStreamForm(stream) ==
    LET network == Or(<<Get(stream, "method", "")>>, <<Get(stream, "network", "")>>)
        renamed == (IF Is(network) THEN "network" :> network[1] ELSE Nothing)
                     @@ Without(stream, {"method"})
        xhttp == Get(stream, "xhttpSettings", Nothing)
    IN IF "xmux" \notin DOMAIN xhttp THEN renamed
       ELSE ("xhttpSettings" :>
                (("enableXmux" :> True @@ "xmux" :> (xhttp.xmux @@ XMUX_DEFAULTS)) @@ xhttp))
              @@ renamed

resolveXmuxExclusivity(xmux) ==
    IF Is(Get(xmux, "maxConnections", Blank)) /\ Is(Get(xmux, "maxConcurrency", Blank))
    THEN Without(xmux, {"maxConcurrency"}) ELSE xmux

PACKET_UP_FIELDS == {"scMaxEachPostBytes"}

liftLegacyXhttpSessionKeys(xhttp) ==
    SetIf("sessionIDPlacement", Or(Get(xhttp, "sessionIDPlacement", Blank),
                                   Get(xhttp, "sessionPlacement", Blank)))
      @@ Without(xhttp, {"sessionPlacement"})

normalizeXhttpForWire(xhttp) ==
    LET plain == Without(liftLegacyXhttpSessionKeys(xhttp), {"enableXmux", "xmux"})
        obfs == IF Get(plain, "xPaddingObfsMode", False) = True THEN plain
                ELSE Without(plain, {"xPaddingObfsMode"})
        mode == Get(plain, "mode", Blank)
    IN Without(DropBlank(obfs, DOMAIN obfs),
               IF mode \in {<<"stream-one">>, <<"stream-up">>} THEN PACKET_UP_FIELDS ELSE {})
         @@ (IF Get(xhttp, "enableXmux", False) = True
             THEN "xmux" :> resolveXmuxExclusivity(xhttp.xmux) ELSE Nothing)

normalizeTlsForWire(tls) == DropBlank(tls, {"fingerprint"})

\* Keys at the core's default are not written.
normalizeSockoptForWire(sockopt) ==
    LET set == DropBlank(sockopt, {"mark", "dialerProxy"})
    IN Without(set, {k \in DOMAIN set : \/ k = "tcpFastOpen" /\ set[k] = False
                                        \/ k = "domainStrategy" /\ set[k] = AsIs})

\* What the stream of a form becomes: stripUiOnlyStreamFields and the
\* normalisation it ends with.
normalizeStreamSettingsForWire(stream) ==
    LET sockopt == normalizeSockoptForWire(Get(stream, "sockopt", Nothing))
        norm(k) == CASE k = "xhttpSettings" -> normalizeXhttpForWire(stream[k])
                     [] k = "tlsSettings" -> normalizeTlsForWire(stream[k])
                     [] OTHER -> stream[k]
        kept == Without(stream, {"sockopt"})
    IN [k \in DOMAIN kept |-> norm(k)]
         @@ (IF DOMAIN sockopt # {} THEN "sockopt" :> sockopt ELSE Nothing)

-----------------------------------------------------------------------------
(* Rows and form values                                                    *)

\* The core lowercases a protocol name, and so does the form.
Lower(protocol) == IF protocol = "Freedom" THEN "freedom" ELSE protocol

settingsFromWire(protocol, raw) ==
    LET s == raw.settings
    IN CASE protocol = "vmess" -> vmessFromWire(s)
         [] protocol = "trojan" -> trojanFromWire(s)
         [] protocol = "shadowsocks" -> shadowsocksFromWire(s)
         [] protocol = "socks" -> simpleAuthFromWire(s, 1080)
         [] protocol = "http" -> httpFromWire(s)
         [] protocol = "wireguard" -> wireguardFromWire(s)
         [] protocol = "amneziawg" -> amneziawgFromWire(s)
         [] protocol = "hysteria" -> hysteriaFromWire(s)
         [] protocol = "freedom" -> freedomFromWire(s, freedomDomainStrategyFromWire(raw))
         [] protocol = "blackhole" -> blackholeFromWire(s)
         [] protocol = "dns" -> dnsFromWire(s)
         [] protocol = "loopback" -> loopbackFromWire(s)
         [] OTHER -> vlessFromWire(s)

rawOutboundToFormValues(row) ==
    LET raw == row @@ [settings |-> Nothing]
        protocol == Lower(Get(raw, "protocol", "vless"))
    IN [protocol |-> protocol, tag |-> Get(raw, "tag", ""),
        targetStrategy |-> IF protocol = "freedom" THEN Blank
                           ELSE targetStrategyFromWire(Get(raw, "targetStrategy", Blank)),
        settings |-> settingsFromWire(protocol, raw),
        mux |-> Fill(Get(raw, "mux", Nothing), [enabled |-> False, concurrency |-> <<"8">>]),
        stream |-> hydrateStreamForm(Get(raw, "streamSettings", Nothing))]

settingsToWire(protocol, s) ==
    CASE protocol = "vmess" -> vmessToWire(s)
      [] protocol = "vless" -> vlessToWire(s)
      [] protocol \in {"trojan", "shadowsocks"} -> serversToWire(s)
      [] protocol = "socks" -> simpleAuthToWire(s)
      [] protocol = "http" -> httpToWire(s)
      [] protocol = "wireguard" -> wireguardToWire(s)
      [] protocol = "amneziawg" -> amneziawgToWire(s)
      [] protocol = "hysteria" -> s
      [] protocol = "freedom" -> freedomToWire(s)
      [] protocol = "blackhole" -> blackholeToWire(s)
      [] protocol = "dns" -> dnsToWire(s)
      [] protocol = "loopback" -> loopbackToWire(s)

MUX_PROTOCOLS == {"vmess", "vless", "trojan", "shadowsocks", "http", "socks"}
STREAM_PROTOCOLS == {"vmess", "vless", "trojan", "shadowsocks", "hysteria"}

muxAllowed(v) ==
    /\ v.protocol \in MUX_PROTOCOLS
    /\ v.protocol = "vless" => ~Is(v.settings.flow)
    /\ Get(v.stream, "network", "") # "xhttp"

\* The sockopt of a freedom row: the only place the core takes its strategy from.
FreedomSockopt(v, sockopt) ==
    LET strategy == Or(v.settings.domainStrategy, v.targetStrategy)
    IN (IF strategy \in {Blank, AsIs} THEN Nothing ELSE "domainStrategy" :> strategy)
         @@ Without(sockopt, {"domainStrategy"})

streamToWire(v) ==
    LET sockopt == Get(v.stream, "sockopt", Nothing)
        own == IF v.protocol = "freedom" THEN FreedomSockopt(v, sockopt) ELSE sockopt
    IN CASE v.protocol \in STREAM_PROTOCOLS -> normalizeStreamSettingsForWire(v.stream)
         [] OTHER -> IF DOMAIN own # {} THEN "sockopt" :> own ELSE Nothing

formValuesToWirePayload(v) ==
    LET stream == streamToWire(v)
    IN [protocol |-> v.protocol, settings |-> settingsToWire(v.protocol, v.settings)]
         @@ (IF v.tag # "" THEN "tag" :> v.tag ELSE Nothing)
         @@ (IF v.protocol # "freedom" THEN SetIf("targetStrategy", v.targetStrategy) ELSE Nothing)
         @@ (IF DOMAIN stream # {} THEN "streamSettings" :> stream ELSE Nothing)
         @@ (IF v.mux.enabled = True /\ muxAllowed(v) THEN "mux" :> v.mux ELSE Nothing)
=============================================================================
