----------------------------- MODULE MCExports ------------------------------
(***************************************************************************)
(* What clients are given, for TLC: each behaviour is one of one component *)
(* on a small instance, so that their states add up. Subscriptions is the  *)
(* component that is extended, with two nodes and two tabs; its variables  *)
(* keep their initial values in the behaviours of others. Liveness is in   *)
(* MCProgress.                                                             *)
(***************************************************************************)
EXTENDS Subscriptions, TLC

CONSTANTS Dns, a, b, ip, e1, e2, k1, k2, Unused

\* The component that this behaviour is one of, and the places its variables are held in.
VARIABLES part, v1, v2, v3, v4, v5, v6

places == <<part, v1, v2, v3, v4, v5, v6>>
MCVars == <<places, vars>>

Null == "-"
Nets(p) == {Null, "TCP", "WS", "GRPC"} \cup IF p = "VLESS" THEN {"XHTTP"} ELSE {}
OwnNode(protocol) == [protocol |-> protocol, net |-> Null, tls |-> "NONE", domain |-> Null, user |-> "u", pass |-> "p",
                   wsHost |-> Null, path |-> Null, pbk |-> Null, sid |-> Null, xHost |-> Null, mode |-> Null, extra |-> Null,
                   alpn |-> Null]
Link(scheme) == [scheme |-> scheme, user |-> Null, pass |-> Null, security |-> Null, type |-> Null, host |-> Null,
                 path |-> Null, service |-> Null, sni |-> Null, pbk |-> Null, sid |-> Null, mode |-> Null, extra |-> Null,
                 alpn |-> Null]

\* REALITY and XHTTP only with VLESS, as the panel's shapes demand; REALITY has keys, and
\* no core speaks it over WebSocket.
Modes(p, net) == {"NONE", "TLS"} \cup IF p = "VLESS" /\ net # "WS" THEN {"REALITY"} ELSE {}
Streams(p) == UNION {{<<net, tls>> : tls \in Modes(p, net)} : net \in Nets(p)}
\* A node that is reached through Cloudflare names its own host, or with XHTTP its ALPN.
Fronted(n) ==
    CASE n.net = "WS" /\ n.tls = "TLS" -> {n, [n EXCEPT !.wsHost = n.domain]}
      [] n.net = "XHTTP" /\ n.tls = "TLS" -> {n, [n EXCEPT !.alpn = "h2"], [n EXCEPT !.alpn = "h3"]}
      [] OTHER -> {n}
OwnNodes ==
    UNION UNION {{Fronted([OwnNode(p) EXCEPT !.net = st[1], !.tls = st[2], !.domain = d, !.path = path,
                            !.pbk = IF st[2] = "REALITY" THEN "key" ELSE Null, !.sid = IF st[2] = "REALITY" THEN sid ELSE Null,
                            !.xHost = IF st[1] = "XHTTP" THEN h ELSE Null, !.mode = IF st[1] = "XHTTP" THEN mode ELSE Null,
                            !.extra = IF st[1] = "XHTTP" THEN extra ELSE Null]) :
               st \in Streams(p), d \in {Null, "d"}, path \in {Null, "/p"}, h \in {Null, "h"},
               sid \in {Null, "sid"}, mode \in {Null, "packet-up"}, extra \in {Null, "{}"}} : p \in {"VLESS", "VMESS", "TROJAN"}}
    \cup {[OwnNode(p) EXCEPT !.tls = tls, !.domain = d, !.user = u, !.pass = pass] :
             p \in {"SHADOWSOCKS", "SOCKS5", "HTTP", "HYSTERIA2", "ANYTLS"}, tls \in {"NONE", "TLS"}, d \in {Null, "d"},
             u \in {Null, "u"}, pass \in {Null, "p"}}
OtherLinks ==
    {[Link(s) EXCEPT !.user = "u", !.pass = IF s = "trojan" THEN "p" ELSE Null, !.security = sec, !.type = type, !.host = host,
                     !.path = path, !.service = service, !.sni = sni, !.mode = mode, !.extra = extra,
                     !.pbk = IF sec = "reality" THEN "key" ELSE Null] :
        s \in {"vless", "vmess", "trojan"}, sec \in {Null, "", "tls", "reality", "none"}, type \in {Null, "ws", "grpc", "xhttp", "h2"},
        host \in {Null, "", "h"}, path \in {Null, "", "/p"}, service \in {Null, "s"}, sni \in {Null, "", "d"},
        mode \in {Null, "bad"}, extra \in {Null, "broken"}}
    \cup {[Link(s) EXCEPT !.user = u, !.pass = p, !.sni = sni] :
             s \in {"ss", "socks5", "http", "https", "hysteria2", "bare"}, u \in {Null, "", "u"}, p \in {Null, "", "p"}, sni \in {Null, "d"}}

\* The forms the page of a subscription sends, and partial ones.
Untouched == [cfOnly |-> Kept, cfAuto |-> Kept, ips |-> Kept, nodes |-> Kept, ext |-> Kept]
PageForms == {
    [Untouched EXCEPT !.cfOnly = FALSE, !.cfAuto = TRUE, !.nodes = {a, b}],
    [Untouched EXCEPT !.cfOnly = TRUE, !.ips = TRUE, !.nodes = {a}],
    [Untouched EXCEPT !.ext = TRUE] }
AtFirst == [n \in {a, b} |-> IF n = a THEN "ws" ELSE "xhttp"]
Drifts == [ws |-> {"plain"}, plain |-> {"ws"}, xhttp |-> {"lost"}, lost |-> {"xhttp"}, gone |-> {}]

\* Tabs are alike, and key pairs.
Alike == Permutations({e1, e2}) \cup Permutations({k1, k2})

\* One node of any preset or form, with two key pairs.
F == INSTANCE NodeConfigs WITH
    row <- v1,
    Presets <- {"VLESS_REALITY", "VLESS_XHTTP_REALITY", "VLESS_WS_TLS", "VLESS_XHTTP_TLS",
                "VLESS_XHTTP_H3_TLS", "HYSTERIA2", "TUIC_V5", "ANYTLS", "VMESS_TCP"},
    Protocols <- {"VLESS", "VMESS", "SHADOWSOCKS", "TUIC"}, Transports <- {Null, "WS", "XHTTP"},
    Identities <- {[uuid |-> "uuid", priv |-> Null, pub |-> Null, sid |-> Null, path |-> Null, mode |-> Null, alpn |-> Null]},
    Keys <- {k1, k2}, Exits <- {Null, "MANAGED_SERVER", "SOCKS5"},
    Policies <- {"AUTO", "IPV4_ONLY"}
FInit == part = "configs" /\ F!Init /\ v2 = Unused /\ v3 = Unused /\ v4 = Unused /\ v5 = Unused /\ v6 = Unused
FNext == part = "configs" /\ F!Next /\ UNCHANGED <<part, v2, v3, v4, v5, v6>>

\* One link, imported and given out three times.
L == INSTANCE ExternalNodes WITH
    own <- v1, given <- v2, row <- v3, shared <- v4, hop <- v5,
    PanelNodes <- OwnNodes, ForeignLinks <- OtherLinks, MaxHops <- 3
LInit == part = "links" /\ L!Init /\ v6 = Unused
LNext == part = "links" /\ L!Next /\ UNCHANGED <<part, v6>>

\* Two nodes, and an address besides the domain's own.
G == INSTANCE ExportGroups WITH
    kind <- v1, pool <- v2, auto <- v3, config <- v4, cache <- v5, current <- v6,
    Nodes <- Nodes, Ips <- {ip}, Dns <- Dns,
    Kinds <- {"off", "plain", "xhttp", "cdn", "cdnx", "lost"}
GInit == part = "groups" /\ G!Init
GNext == part = "groups" /\ G!Next /\ UNCHANGED part

\* A subscription with the form that makes it, one and the same where others are at work.
SInit == part = "subscription" /\ v1 = Unused /\ v2 = Unused /\ v3 = Unused /\ v4 = Unused /\ v5 = Unused
         /\ v6 = Unused
Elsewhere == sub = Created([Untouched EXCEPT !.ext = TRUE])

MCInit == Init /\ (SInit \/ (Elsewhere /\ (FInit \/ LInit \/ GInit)))
MCNext ==
    \/ (FNext \/ LNext \/ GNext) /\ UNCHANGED vars
    \/ part = "subscription" /\ Next /\ UNCHANGED places
MCSpec == MCInit /\ [][MCNext]_MCVars

ASSUME Assumptions ==
    /\ F!FormsAssumption
    /\ L!ExternalAssumption
    /\ G!DnsAssumption /\ G!NamesAssumption /\ G!KindsAssumption

-----------------------------------------------------------------------------
(* Properties, besides those of Subscriptions; what they say of the code is told where they *)
(* are defined.                                                                             *)

\* NodeConfigs: nothing stands in for a transport or a security mode a format does not
\* have: the client speaks what the server speaks, or gets no entry; whoever holds an entry
\* of a REALITY node has the public half of the server's key, its short id and its site;
\* nodes with a certificate of the zone have a name in it, and no client of theirs skips
\* the verification; nothing a client of a chained node sends leaves from the entry server
\* (of these the ones ss-libev is to serve are left out: it has no REALITY and no chain); and
\* IPv4-only means it on every hop, whatever edits came before.
ConfigsSafe ==
    part = "configs" =>
        F!TypeOK /\ F!NoDowngrade /\ F!RealityMatches /\ F!NamedAndVerified /\ F!ChainNeverDirect /\ F!Ipv4OnlyHolds

\* ExternalNodes: the panel's own links can be imported, AnyTLS links excepted; and a link
\* that asks for TLS is never given out without it.
LinksSafe == part = "links" => L!TypeOK /\ L!OwnLinksAccepted /\ L!NeverWithoutTls

\* ExportGroups: the clients accept the file; whatever they have cached, the group of a
\* protected node leads to addresses of the CDN or nowhere; and while a subscription
\* protects a node, a file it has given out never lets the proxy selector go direct; and once
\* a client has refreshed a node, its group leads to nothing that the panel has withdrawn.
GroupsSafe ==
    part = "groups" =>
        G!TypeOK /\ G!Accepted /\ G!GroupsNeverDirect /\ G!NoSilentDirect /\ G!RefreshForgets

\* NodeConfigs: an edit never turns a node into a CDN XHTTP node or back, nor changes what
\* clients of one already hold, the upload mode apart; and one that leaves REALITY on
\* leaves the key pair alone. ExternalNodes: an own node that was imported is given out
\* with the link it had, the ALPN of CDN XHTTP apart, and two imports settle what a foreign
\* link is given out as.
EditsSafe ==
    [][/\ part = "configs" => F!CdnStaysItself /\ F!KeysKept
       /\ part = "links" => L!SameLink /\ L!Settles]_MCVars
=============================================================================
