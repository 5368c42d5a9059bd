----------------------------- MODULE ExternalNodes -----------------------------
(***************************************************************************)
(* Share links there and back: a link that this panel built for one of its *)
(* nodes, or that came from elsewhere, is imported as an external node     *)
(* (uri-parser, external-nodes.service), stored, and given out again with  *)
(* a subscription (subscriptions.service, uri-builder); another panel may  *)
(* import that one in turn. Names, ports and the spelling of addresses are *)
(* left out; an absent field (Null) and an empty one differ, as in the     *)
(* code.                                                                   *)
(***************************************************************************)
EXTENDS Naturals

Null == "-"
Rejected == [protocol |-> "rejected"]
NotYet == [protocol |-> "none"]

CONSTANTS
    PanelNodes,    \* nodes of this panel
    ForeignLinks,  \* links that come from elsewhere
    MaxHops        \* bound: imports of the same node

XhttpModes == {"auto", "packet-up", "stream-up", "stream-one"}
\* What the panel checks of its own nodes, and that only a stream's link has a security.
PanelAssumption ==
    \A n \in PanelNodes :
        /\ n.protocol \in {"VLESS", "VMESS", "TROJAN", "SHADOWSOCKS", "SOCKS5", "HTTP", "HYSTERIA2", "ANYTLS"}
        /\ n.tls \in {"NONE", "TLS", "REALITY"}
        /\ n.tls = "REALITY" => n.protocol = "VLESS" /\ n.net # "WS"
        /\ n.mode \in XhttpModes \cup {Null} /\ n.extra \notin {"", "broken"}
        /\ n.user # "" /\ n.domain # ""
        /\ n.wsHost # Null => n.net = "WS" /\ n.wsHost = n.domain
        /\ n.alpn \in {Null, "h2", "h3"}
LinksAssumption ==
    \A l \in ForeignLinks : l.security \in {"tls", "reality"} => l.scheme \in {"vless", "vmess", "trojan"}

ExternalAssumption == MaxHops \in Nat \ {0} /\ PanelAssumption /\ LinksAssumption

VARIABLES
    own,     \* the link is this panel's
    given,   \* the link that is imported
    row,     \* ExternalNode, Rejected, or NotYet before the import
    shared,  \* the links given out so far, one per import
    hop

vars == <<own, given, row, shared, hop>>

Or(x, y) == IF x = Null THEN y ELSE x              \* ??
OrElse(x, y) == IF x \in {Null, ""} THEN y ELSE x  \* ||

-----------------------------------------------------------------------------
(* uri-builder: a node as a link. *)

toClashNet(net) == CASE net = "WS" -> "ws" [] net = "GRPC" -> "grpc" [] net = "QUIC" -> "quic"
                     [] net = "XHTTP" -> "xhttp" [] OTHER -> "tcp"

Bare(scheme) == [scheme |-> scheme, user |-> Null, pass |-> Null, security |-> Null, type |-> Null, host |-> Null,
                 path |-> Null, service |-> Null, sni |-> Null, pbk |-> Null, sid |-> Null, mode |-> Null, extra |-> Null,
                 alpn |-> Null]

addTransportParams(link, n) ==
    LET net == toClashNet(n.net)
    IN  [link EXCEPT
            !.type = net,
            !.path = CASE net = "ws" -> OrElse(n.path, "/") [] net = "xhttp" -> OrElse(n.path, "/") [] OTHER -> Null,
            !.host = CASE net = "ws" -> OrElse(Or(n.wsHost, n.domain), Null) [] net = "xhttp" -> OrElse(n.xHost, Null) [] OTHER -> Null,
            !.service = IF net = "grpc" THEN Or(n.path, "grpc") ELSE Null,
            !.mode = IF net = "xhttp" THEN OrElse(n.mode, "auto") ELSE Null,
            !.extra = IF net = "xhttp" THEN n.extra ELSE Null]

addTlsParams(link, n) ==
    [link EXCEPT
        !.security = CASE n.tls = "TLS" -> "tls" [] n.tls = "REALITY" -> "reality" [] OTHER -> "none",
        !.sni = CASE n.tls = "TLS" -> OrElse(n.domain, Null) [] n.tls = "REALITY" -> Or(n.domain, "default") [] OTHER -> Null,
        !.pbk = IF n.tls = "REALITY" THEN Or(n.pbk, "") ELSE Null,
        !.sid = IF n.tls = "REALITY" THEN Or(n.sid, "") ELSE Null]

\* vmess: everything in one JSON object, whose fields may be empty but are there.
VmessLink(n) ==
    LET net == toClashNet(n.net)
    IN  [Bare("vmess") EXCEPT
            !.user = Or(n.user, ""), !.type = net,
            !.host = IF net = "xhttp" THEN OrElse(n.xHost, "") ELSE Or(Or(n.wsHost, n.domain), ""),
            !.path = CASE net \in {"ws", "xhttp"} -> OrElse(n.path, "/") [] net = "grpc" -> Or(n.path, "grpc") [] OTHER -> "",
            !.mode = IF net = "xhttp" THEN OrElse(n.mode, "auto") ELSE Null,
            !.extra = IF net = "xhttp" THEN n.extra ELSE Null,
            !.security = CASE n.tls = "TLS" -> "tls" [] n.tls = "REALITY" -> "reality" [] OTHER -> "",
            !.sni = Or(n.domain, "")]

\* A login is written when there is a user name.
Login(link, n) == [link EXCEPT !.user = n.user, !.pass = IF n.user = Null THEN Null ELSE Or(n.pass, "")]

\* The ALPN is that of the profile of a CDN XHTTP node, Null for any other.
VlessLink(n) ==
    LET link == addTlsParams(addTransportParams([Bare("vless") EXCEPT !.user = Or(n.user, "")], n), n)
    IN  [link EXCEPT !.alpn = IF n.net = "XHTTP" /\ n.tls = "TLS" THEN n.alpn ELSE Null]

buildShareUri(n) ==
    CASE n.protocol = "VMESS" -> VmessLink(n)
      [] n.protocol = "VLESS" -> VlessLink(n)
      [] n.protocol = "TROJAN" -> addTlsParams(addTransportParams([Bare("trojan") EXCEPT !.pass = Or(n.pass, "")], n), n)
      [] n.protocol = "SHADOWSOCKS" -> [Bare("ss") EXCEPT !.user = Or(n.user, "aes-256-gcm"), !.pass = Or(n.pass, "")]
      [] n.protocol = "HYSTERIA2" -> [Bare("hy2") EXCEPT !.pass = Or(n.pass, ""), !.sni = OrElse(n.domain, Null)]
      [] n.protocol = "ANYTLS" -> [Bare("anytls") EXCEPT !.pass = Or(n.pass, ""), !.sni = OrElse(n.domain, Null)]
      [] n.protocol = "SOCKS5" -> Login(Bare("socks5"), n)
      [] n.protocol = "HTTP" -> Login(Bare(IF n.tls = "TLS" THEN "https" ELSE "http"), n)

-----------------------------------------------------------------------------
(* uri-parser: a link as an external node. *)

\* A transport that the parser does not know is none, and none is TCP.
parseTransport(type) == CASE type = "ws" -> "WS" [] type = "grpc" -> "GRPC" [] type = "quic" -> "QUIC"
                          [] type = "xhttp" -> "XHTTP" [] OTHER -> Null

parseXhttpMode(mode) ==
    LET m == OrElse(mode, "auto")
    IN  IF m \in XhttpModes THEN m ELSE Null

parseXhttpExtra(extra) == extra # "broken"

LowerOnly(l) == CASE l.security = "tls" -> "TLS" [] OTHER -> "NONE"          \* mutant
Security(l) ==
    CASE l.security = "tls" -> "TLS"
      [] l.security = "reality" -> IF l.scheme = "trojan" THEN "TLS" ELSE "REALITY"
      [] OTHER -> IF l.scheme = "trojan" /\ l.security # "none" THEN "TLS" ELSE "NONE"

Node(protocol) == [protocol |-> protocol, net |-> Null, tls |-> "NONE", sni |-> Null, user |-> Null, pass |-> Null,
                   wsHost |-> Null, path |-> Null, pbk |-> Null, sid |-> Null, xHost |-> Null, mode |-> Null, extra |-> Null]

\* What takes the place of a missing server name: the host of anything but XHTTP.
ServerName(l) ==
    CASE l.scheme = "trojan" -> Or(l.sni, "")
      [] l.scheme = "vmess" -> Or(l.sni, IF l.type = "xhttp" THEN Null ELSE Or(l.host, ""))
      [] OTHER -> IF l.sni = Null /\ l.type = "xhttp" THEN Null ELSE Or(Or(l.sni, l.host), "")

\* vless, vmess and trojan: user and password, transport, security.
Streamed(l, protocol) ==
    LET net == parseTransport(Or(l.type, "tcp"))
        xhttp == net = "XHTTP"
    IN  IF xhttp /\ (parseXhttpMode(l.mode) = Null \/ ~parseXhttpExtra(l.extra))
        THEN Rejected
        ELSE [Node(protocol) EXCEPT
                !.net = net, !.tls = Security(l), !.user = l.user, !.pass = l.pass,
                !.sni = ServerName(l),
                !.path = IF l.scheme = "vmess" THEN Or(l.path, "") ELSE Or(Or(l.path, l.service), ""),
                !.wsHost = IF net # "WS" THEN Null ELSE IF l.scheme = "vmess" THEN Or(l.host, "") ELSE l.host,
                !.pbk = IF l.scheme = "vless" THEN l.pbk ELSE Null,
                !.sid = IF l.scheme = "vless" THEN l.sid ELSE Null,
                !.xHost = IF xhttp THEN OrElse(l.host, Null) ELSE Null,
                !.mode = IF xhttp THEN parseXhttpMode(l.mode) ELSE Null,
                !.extra = IF xhttp THEN l.extra ELSE Null]

parseVmess(l) == Streamed(l, "VMESS")
parseVless(l) == Streamed(l, "VLESS")
parseTrojan(l) == Streamed(l, "TROJAN")
parseShadowsocks(l) == [Node("SHADOWSOCKS") EXCEPT !.user = l.user, !.pass = l.pass]
parseHysteria2(l) == [Node("HYSTERIA2") EXCEPT !.tls = "TLS", !.pass = l.pass, !.sni = Or(l.sni, "")]

\* A login without a user name is refused.
parseCredentials(l) == l.user # ""
parseSocks(l) ==
    IF ~parseCredentials(l) THEN Rejected ELSE [Node("SOCKS5") EXCEPT !.user = l.user, !.pass = l.pass]

\* The address stands for the server name of a proxy behind TLS.
parseHttp(l) ==
    IF l.user \in {Null, ""} /\ l.pass \notin {Null, ""} THEN Rejected
    ELSE [Node("HTTP") EXCEPT !.user = OrElse(l.user, Null), !.pass = IF l.user \in {Null, ""} THEN Null ELSE l.pass,
                              !.tls = IF l.scheme = "https" THEN "TLS" ELSE "NONE",
                              !.sni = IF l.scheme = "https" THEN "address" ELSE Null]

\* host:port:username:password, as the protocol that the import names.
parseBareProxy(l, protocol) ==
    IF l.user \in {Null, ""} \/ l.pass \in {Null, ""} THEN Rejected
    ELSE [Node(protocol) EXCEPT !.user = l.user, !.pass = l.pass]

parseUri(l, bareProtocol) ==
    CASE l.scheme = "vmess" -> parseVmess(l)
      [] l.scheme = "vless" -> parseVless(l)
      [] l.scheme = "trojan" -> parseTrojan(l)
      [] l.scheme = "ss" -> parseShadowsocks(l)
      [] l.scheme = "socks5" -> parseSocks(l)
      [] l.scheme \in {"hy2", "hysteria2"} -> parseHysteria2(l)
      [] l.scheme \in {"http", "https"} -> parseHttp(l)
      [] l.scheme = "bare" -> parseBareProxy(l, bareProtocol)
      [] OTHER -> Rejected

-----------------------------------------------------------------------------
(* The row, and what a subscription makes of it. *)

\* Empty fields of the row are no credentials, but for an empty path and WebSocket host; the
\* row has no ALPN.
Exported(r) ==
    LET some(x) == OrElse(x, Null)
    IN  [protocol |-> r.protocol, net |-> r.net, tls |-> r.tls, domain |-> r.sni,
         user |-> some(r.user), pass |-> some(r.pass), pbk |-> some(r.pbk), sid |-> some(r.sid),
         path |-> r.path, wsHost |-> r.wsHost,
         xHost |-> some(r.xHost), mode |-> some(r.mode), extra |-> some(r.extra), alpn |-> Null]

Init ==
    /\ \/ own = TRUE /\ \E n \in PanelNodes : given = buildShareUri(n)
       \/ own = FALSE /\ given \in ForeignLinks
    /\ row = NotYet /\ shared = <<>> /\ hop = 0

Import ==
    /\ row = NotYet
    /\ \E bareProtocol \in {"HTTP", "SOCKS5"} : row' = parseUri(given, bareProtocol)
    /\ UNCHANGED <<own, given, shared, hop>>

\* getNodes, then a link for each of them; somebody imports that link.
Share ==
    /\ row # NotYet
    /\ row # Rejected /\ hop < MaxHops
    /\ LET link == buildShareUri(Exported(row))
       IN  /\ shared' = [i \in 1 .. hop + 1 |-> IF i <= hop THEN shared[i] ELSE link]
           /\ given' = link
    /\ row' = NotYet /\ hop' = hop + 1
    /\ UNCHANGED own

Next == Import \/ Share
Spec == Init /\ [][Next]_vars

-----------------------------------------------------------------------------
(* Properties. *)

Imported == row # NotYet
Accepted == Imported /\ row # Rejected

\* The panel's own links can be imported, AnyTLS links excepted, which only other
\* programs read; and a link that the panel gave out again always can.
OwnLinksAccepted == ((own \/ hop > 0) /\ row = Rejected) => given.scheme = "anytls"

\* An own node that was imported is given out with the link that it had as a node of
\* the panel: nothing is lost or invented on the way through the parser, the row and the
\* second builder, but for the ALPN of a CDN XHTTP node (uri-builder.ts:76), which the
\* parser does not read.
SameLink == own /\ hop' = 1 /\ hop = 0 => given' = [given EXCEPT !.alpn = Null]

\* However a foreign link spells the node, two imports settle it: what is given out does
\* not change with further imports. One is not enough, because an empty server name is
\* dropped by the first and replaced by the WebSocket host in the second.
Settles == hop' > 2 /\ hop' > hop => given' = given

\* A node that was offered behind TLS or REALITY is not stored or given out without.
Protected(l) == l.scheme \in {"https", "hy2", "hysteria2"} \/ l.security \in {"tls", "reality"}
NeverWithoutTls ==
    /\ (Accepted /\ Protected(given)) => row.tls # "NONE"
    /\ \A i \in 2 .. hop : Protected(shared[i - 1]) => Protected(shared[i])

TypeOK ==
    /\ own \in BOOLEAN /\ hop \in 0 .. MaxHops /\ DOMAIN shared = 1 .. hop
    /\ given.scheme \in {"vmess", "vless", "trojan", "ss", "hy2", "hysteria2", "anytls", "socks5", "http", "https", "bare"}
    /\ Accepted => row.net \in {Null, "WS", "GRPC", "QUIC", "XHTTP"} /\ row.tls \in {"NONE", "TLS", "REALITY"}
=============================================================================
