---- MODULE NodeConfigs ----
(* What the panel derives from a node's row: the configuration of the proxy core *)
(* on the server (nodes/config), the entry and exit of its chain, and the client *)
(* entries of every export and test (subscriptions/uri-builder.ts, xray-test,    *)
(* singbox-test). They are written apart and have to agree.                      *)
EXTENDS NodeShapes

DefaultSni == "addons.mozilla.org"

(* ---- the server ---- *)

Family(impl) ==
    CASE impl = "SING_BOX" -> "sing-box" [] impl = "SS_LIBEV" -> "ss-libev" [] OTHER -> "xray"

Wire(net) == IF net \in {"WS", "GRPC", "XHTTP"} THEN net ELSE "TCP"
Vision(r) == r.protocol = "VLESS" /\ r.tls = "REALITY" /\ r.net # "XHTTP"
Sni(r) == IF r.tls = "REALITY" THEN Or(r.domain, DefaultSni) ELSE r.domain

(* dest is the site REALITY passes a stranger on to, sni the name the inbound lists itself. *)
Shown(kind, net, sec, flow, path, sni, dest, key, sid) ==
    [kind |-> kind, net |-> net, sec |-> sec, flow |-> flow, path |-> path, sni |-> sni,
     dest |-> dest, key |-> key, sid |-> sid]
Keyed(r, x) == IF r.tls = "REALITY" THEN x ELSE Null

(* xraySettings and xrayStreamSettings. *)
XrayInbound(r) ==
    Shown(r.protocol, Wire(r.net), r.tls, Vision(r),
          CASE r.net = "WS" -> "/" [] r.net = "GRPC" -> "grpc"
            [] r.net = "XHTTP" -> Or(r.creds.path, "/") [] OTHER -> Null,
          IF r.tls = "NONE" THEN Null ELSE Sni(r), Keyed(r, Sni(r)),
          Keyed(r, r.creds.priv), Keyed(r, r.creds.sid))

(* singBoxInbound: no XHTTP, never a flow, a certificate for its own protocols, and of *)
(* REALITY the site alone, no name.                                                    *)
SingBoxInbound(r) ==
    LET native == r.protocol \in {"HYSTERIA2", "TUIC", "ANYTLS"}
    IN  Shown(r.protocol, IF r.net = "XHTTP" THEN "TCP" ELSE Wire(r.net),
              IF r.tls = "NONE" /\ native THEN "TLS" ELSE r.tls, FALSE,
              CASE r.net = "WS" -> "/" [] r.net = "GRPC" -> "grpc" [] OTHER -> Null,
              IF r.tls = "TLS" THEN r.domain ELSE Null, Keyed(r, Sni(r)),
              Keyed(r, r.creds.priv), Keyed(r, r.creds.sid))

(* generateSsLibevConfig: a Shadowsocks port, whatever else the row says. *)
SsLibevInbound(r) == Shown("SHADOWSOCKS", "TCP", "NONE", FALSE, Null, Null, Null, Null, Null)

(* generateConfig throws where CDN XHTTP has no domain yet. *)
Generable(r) == ~(Family(r.impl) = "xray" /\ isCfXhttp(r) /\ r.domain = Null)
Inbound(r) ==
    CASE Family(r.impl) = "xray" -> XrayInbound(r)
      [] Family(r.impl) = "sing-box" -> SingBoxInbound(r)
      [] OTHER -> SsLibevInbound(r)

(* ---- routing: rules in order, the first outbound when none matches ---- *)

Rule(field, out) == [field |-> field, out |-> out]
Traffic == [from : {"proxy", "api"}, v6 : BOOLEAN]
Matches(f, t) == CASE f = "api" -> t.from = "api" [] f = "in" -> t.from = "proxy" [] f = "::/0" -> t.v6 [] OTHER -> TRUE
Verdict(c, t) ==
    LET hit == {i \in DOMAIN c.rules : Matches(c.rules[i].field, t)}
    IN  IF hit = {} THEN c.first ELSE c.rules[CHOOSE i \in hit : \A j \in hit : i <= j].out

(* generateXrayConfig: the statistics API, the IPv4-only rule, the chain, in this order. *)
XrayRouting(r) ==
    [first |-> IF r.exit = Null THEN "direct" ELSE "chain-exit",
     rules |-> <<Rule("api", "api")>>
               \o (IF r.policy = "IPV4_ONLY" THEN <<Rule("::/0", "blocked")>> ELSE <<>>)
               \o (IF r.exit = Null THEN <<>> ELSE <<Rule("in", "chain-exit")>>)]

(* generateSingBoxConfig: a final direct stands behind the rule of a managed chain. *)
SingBoxRouting(r) ==
    [first |-> IF r.exit = "SOCKS5" THEN "chain-exit" ELSE "direct",
     rules |-> IF r.exit = Null THEN <<>> ELSE <<Rule("in", "chain-exit")>>]

SsLibevRouting(r) == [first |-> "direct", rules |-> <<>>]

Routing(r) ==
    CASE Family(r.impl) = "xray" -> XrayRouting(r)
      [] Family(r.impl) = "sing-box" -> SingBoxRouting(r)
      [] OTHER -> SsLibevRouting(r)

(* generateChainExitConfig: what the exit server does with what reaches its inbound. *)
ExitVerdict(r, fromEntry, v6) ==
    IF r.policy = "IPV4_ONLY" /\ v6 THEN "blocked" ELSE IF fromEntry THEN "direct" ELSE "blocked"

(* ---- the clients: at most one entry per format ---- *)

Entry(r, net, sec, flow, path, verify) ==
    [kind |-> r.protocol, net |-> net, sec |-> sec, flow |-> flow, path |-> path,
     sni |-> IF sec = "NONE" THEN Null ELSE Sni(r), key |-> Keyed(r, r.creds.pub),
     sid |-> Keyed(r, r.creds.sid), verify |-> verify]

ServicePath(r) ==
    CASE r.net \in {"WS", "XHTTP"} -> Or(r.creds.path, "/")
      [] r.net = "GRPC" -> Or(r.creds.path, "grpc") [] OTHER -> Null
Native(r) == r.protocol \in {"HYSTERIA2", "TUIC", "ANYTLS"}
Bare(r) == r.protocol \in {"SHADOWSOCKS", "SOCKS5"}

(* buildShareUri: TUIC has no URI; Hysteria2's says nothing of verification. *)
ShareUri(r) ==
    CASE r.protocol = "TUIC" -> {}
      [] r.protocol \in {"HYSTERIA2", "ANYTLS"} -> {Entry(r, "TCP", "TLS", FALSE, Null, TRUE)}
      [] Bare(r) -> {Entry(r, "TCP", "NONE", FALSE, Null, TRUE)}
      [] r.protocol = "HTTP" -> {Entry(r, "TCP", IF r.tls = "TLS" THEN "TLS" ELSE "NONE", FALSE, Null, TRUE)}
      [] OTHER -> {Entry(r, Wire(r.net), r.tls, Vision(r), ServicePath(r), TRUE)}

(* buildClashProxy: XHTTP for VLESS only, TLS for Trojan whatever the row says. *)
ClashProxy(r) ==
    IF r.net = "XHTTP" /\ r.protocol # "VLESS" THEN {}
    ELSE
    CASE Native(r) -> {Entry(r, "TCP", "TLS", FALSE, Null, r.protocol # "HYSTERIA2")}
      [] Bare(r) -> {Entry(r, "TCP", "NONE", FALSE, Null, TRUE)}
      [] r.protocol = "HTTP" -> {Entry(r, "TCP", r.tls, FALSE, Null, TRUE)}
      [] r.protocol = "TROJAN" -> {Entry(r, Wire(r.net), "TLS", FALSE, ServicePath(r), TRUE)}
      [] OTHER -> {Entry(r, Wire(r.net), r.tls, Vision(r) \/ (r.protocol = "VMESS" /\ r.tls = "REALITY"),
                         ServicePath(r), TRUE)}

(* buildSingboxOutbound: nothing stands in for XHTTP. *)
XhttpAsTcp(r) == \* mutant
    IF Native(r) THEN {} ELSE {Entry(r, IF r.net = "XHTTP" THEN "TCP" ELSE Wire(r.net), r.tls, Vision(r), ServicePath(r), TRUE)}
SingboxOutbound(r) ==
    IF r.net = "XHTTP" THEN {}
    ELSE
    CASE Native(r) -> {Entry(r, "TCP", "TLS", FALSE, Null, r.protocol # "HYSTERIA2")}
      [] Bare(r) -> {Entry(r, "TCP", "NONE", FALSE, Null, TRUE)}
      [] r.protocol = "HTTP" -> {Entry(r, "TCP", r.tls, FALSE, Null, TRUE)}
      [] r.protocol = "TROJAN" ->
            {Entry(r, Wire(r.net), IF r.tls = "NONE" THEN "TLS" ELSE r.tls, FALSE, ServicePath(r), TRUE)}
      [] OTHER -> {Entry(r, Wire(r.net), r.tls, Vision(r), ServicePath(r), TRUE)}

(* The clients the connectivity tests run: Xray's, and sing-box's for its own protocols. *)
XrayClient(r) ==
    IF Native(r) THEN {} ELSE {Entry(r, Wire(r.net), r.tls, Vision(r), ServicePath(r), TRUE)}
SingboxClient(r) ==
    IF Native(r) THEN {Entry(r, "TCP", "TLS", FALSE, Null, r.protocol # "HYSTERIA2")} ELSE {}

\* Neither TLS nor REALITY nor a chain: what ss-libev serves is left out of what follows.
Routed(r) == Family(r.impl) # "ss-libev"

Clients(r) == ShareUri(r) \cup ClashProxy(r) \cup SingboxOutbound(r) \cup XrayClient(r) \cup SingboxClient(r)
Served == Exists /\ Generable(row)

(* ---- properties ---- *)

(* The row is one the schema and the form checks allow. *)
TypeOK ==
    Exists => /\ row.tls \in {"NONE", "TLS", "REALITY"} /\ row.exit \in Exits
              /\ row.creds.priv \in Keys \cup {Null} /\ row.creds.pub \in Keys \cup {Null}
              /\ (row.net = "XHTTP" => row.protocol = "VLESS" /\ row.impl = "XRAY")

(* Nothing stands in for a transport or a security mode a format does not have: *)
(* a client of a VLESS or VMess node speaks what its server speaks, or there is *)
(* no entry (uri-builder.ts:324), whatever edits the node went through.         *)
NoDowngrade ==
    Served /\ Routed(row) /\ row.protocol \in {"VLESS", "VMESS"} =>
        \A c \in Clients(row) : c.net = Inbound(row).net /\ c.sec = Inbound(row).sec

(* REALITY holds together: whoever holds an entry has the public half of the key *)
(* on the server and its short id, and names the site the server hides behind,   *)
(* which is the one name it takes where it lists any (nodes/protocols/reality.ts). *)
RealityMatches ==
    Served /\ Routed(row) /\ row.tls = "REALITY" =>
        \A c \in Clients(row) :
            /\ c.key = Inbound(row).key /\ c.key # Null /\ c.sid = Inbound(row).sid
            /\ c.sni = Inbound(row).dest /\ Inbound(row).sni \in {Null, c.sni}

(* Trusted certificates stay trusted: TUIC, AnyTLS and CDN XHTTP nodes always    *)
(* have a name of the zone, and no client of theirs skips verification or asks   *)
(* for another name.                                                             *)
NamedAndVerified ==
    Served /\ (isManagedCertificateProtocol(row.protocol) \/ isCfXhttp(row)) =>
        /\ row.domain = "zone" /\ row.dns
        /\ \A c \in Clients(row) : c.verify /\ c.sec = "TLS" /\ c.sni = "zone"

(* Nothing a client of a chained node sends leaves from the entry server, and the *)
(* exit carries no one else's traffic. Not so once an edit moves the node to      *)
(* ss-libev, where the chain of the row is without effect (singbox-config.ts:199).*)
ChainNeverDirect ==
    Served /\ Routed(row) /\ row.exit # Null =>
        /\ (\A t \in Traffic : t.from = "proxy" => Verdict(Routing(row), t) # "direct")
        /\ \A v6 \in BOOLEAN : ExitVerdict(row, FALSE, v6) = "blocked"

(* IPv4-only means it on every hop, whatever edits came before. *)
Ipv4OnlyHolds ==
    Served /\ row.policy = "IPV4_ONLY" =>
        /\ (\A t \in Traffic : t.v6 /\ t.from = "proxy" => Verdict(Routing(row), t) = "blocked")
        /\ (row.exit = "MANAGED_SERVER" => ExitVerdict(row, TRUE, TRUE) = "blocked")

(* An edit never turns another node into a CDN XHTTP node or the other way round, *)
(* nor changes what its clients already hold, its upload mode apart.              *)
CdnStaysItself ==
    Exists /\ Exists' =>
        /\ (isCfXhttp(row) <=> isCfXhttp(row'))
        /\ (isCfXhttp(row) => /\ [row'.creds EXCEPT !.mode = Null] = [row.creds EXCEPT !.mode = Null]
                               /\ row.domain \in {Null, row'.domain})

(* Clients keep their keys: an edit that leaves REALITY on leaves the pair alone. *)
KeysKept ==
    Exists /\ Exists' /\ row.tls = "REALITY" /\ row'.tls = "REALITY" =>
            row'.creds.pub = row.creds.pub /\ row'.creds.sid \in {row.creds.sid, "sid"}
====
