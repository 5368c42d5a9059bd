---- MODULE NodeShapes ----
(* The row of one node (nodes/nodes.service.ts): what its creation from a form, *)
(* from a preset or as a chain makes of the requested shape and credentials,   *)
(* and what every later edit keeps of them. Ports are in PortAllocation.       *)
EXTENDS Naturals, Sequences, FiniteSets

Null == "-"

CONSTANTS Presets,     \* presets offered
          Protocols,   \* protocols the requests name
          Transports,  \* transports the requests name, Null when left out
          Identities,  \* credentials the requests carry, blank fields Null
          Keys,        \* REALITY key pairs
          Exits,       \* chain exits offered, Null for a direct node
          Policies     \* egress policies the requests name

KeysAssumption == Null \notin Keys /\ Keys # {}
ExitsAssumption == Exits \subseteq {Null, "MANAGED_SERVER", "SOCKS5"}
PoliciesAssumption == Policies \subseteq {"AUTO", "IPV4_ONLY"}
\* All that the schema knows; the form sends a preset's protocol back with any implementation.
ProtocolsAssumption ==
    Protocols \subseteq {"VLESS", "VMESS", "TROJAN", "SHADOWSOCKS", "SOCKS5", "HTTP", "HYSTERIA2", "TUIC", "ANYTLS"}

VARIABLE row     \* the node's row, or None

None == [protocol |-> Null]
Exists == row # None
Or(x, default) == IF x = Null THEN default ELSE x

(* ---- presets ---- *)

Shape(protocol, impl, net, tls) ==
    [protocol |-> protocol, impl |-> impl, net |-> net, tls |-> tls]

PROTOCOL_PRESETS ==
    [VLESS_REALITY       |-> Shape("VLESS", "XRAY", "TCP", "REALITY"),
     VLESS_XHTTP_REALITY |-> Shape("VLESS", "XRAY", "XHTTP", "REALITY"),
     VLESS_WS_TLS        |-> Shape("VLESS", "XRAY", "WS", "TLS"),
     VLESS_XHTTP_TLS     |-> Shape("VLESS", "XRAY", "XHTTP", "TLS"),
     VLESS_XHTTP_H3_TLS  |-> Shape("VLESS", "XRAY", "XHTTP", "TLS"),
     VLESS_TCP_TLS       |-> Shape("VLESS", "XRAY", "TCP", "TLS"),
     HYSTERIA2           |-> Shape("HYSTERIA2", "SING_BOX", Null, "TLS"),
     TUIC_V5             |-> Shape("TUIC", "SING_BOX", Null, "TLS"),
     ANYTLS              |-> Shape("ANYTLS", "SING_BOX", Null, "TLS"),
     VMESS_TCP           |-> Shape("VMESS", "XRAY", "TCP", "NONE")]

CLOUDFLARE_PRESETS == {"VLESS_WS_TLS", "VLESS_XHTTP_TLS", "VLESS_XHTTP_H3_TLS",
                       "VLESS_TCP_TLS", "TUIC_V5", "ANYTLS"}
STRICT_DNS_PRESETS == {"TUIC_V5", "ANYTLS"}
CfPresets == {"VLESS_XHTTP_TLS", "VLESS_XHTTP_H3_TLS"}

(* Passwords and methods are left out: both ends read the same field. *)
Blank == [uuid |-> Null, priv |-> Null, pub |-> Null, sid |-> Null,
          path |-> Null, mode |-> Null, alpn |-> Null]
Absent == [Blank EXCEPT !.uuid = "absent"]   \* an edit that sends no credentials

PresetsAssumption == Presets \subseteq DOMAIN PROTOCOL_PRESETS
\* The page sends an id or a password, and leaves keys, short ids and paths to the server.
IdentitiesAssumption == \A c \in Identities : c = [Blank EXCEPT !.uuid = c.uuid]

FormsAssumption ==
    /\ PresetsAssumption /\ ProtocolsAssumption /\ IdentitiesAssumption
    /\ KeysAssumption /\ ExitsAssumption /\ PoliciesAssumption

(* CREDENTIAL_GENERATORS: a key pair that nothing else uses, random ids and paths. *)
Generated(preset, k) ==
    LET s == PROTOCOL_PRESETS[preset]
        xhttp == s.net = "XHTTP"
        keyed == s.tls = "REALITY"
    IN  [Blank EXCEPT !.uuid = IF s.protocol \in {"HYSTERIA2", "ANYTLS"} THEN Null ELSE "uuid",
                      !.priv = IF keyed THEN k ELSE Null, !.pub = IF keyed THEN k ELSE Null,
                      !.sid = IF keyed /\ xhttp THEN "sid" ELSE Null,
                      !.path = IF xhttp THEN "/path" ELSE Null,
                      !.mode = IF preset \in CfPresets THEN "packet-up" ELSE Null,
                      !.alpn = IF preset = "VLESS_XHTTP_H3_TLS" THEN "h3" ELSE Null]

(* ---- shapes ---- *)

isManagedCertificateProtocol(p) == p \in {"TUIC", "ANYTLS"}
isCfXhttp(s) == s.protocol = "VLESS" /\ s.net = "XHTTP" /\ s.tls = "TLS"

(* normalizeNodeShape: the shape a request stands for, and the ones it refuses. *)
Normal(s) ==
    IF isManagedCertificateProtocol(s.protocol) THEN Shape(s.protocol, "SING_BOX", Null, "TLS")
    ELSE IF s.net = "XHTTP" THEN Shape(s.protocol, "XRAY", s.net, Or(s.tls, "REALITY"))
    ELSE Shape(s.protocol, s.impl, s.net, Or(s.tls, "NONE"))

Unsupported(s) ==
    \/ s.net = "QUIC"
    \/ /\ s.net = "XHTTP"
       /\ (s.protocol # "VLESS" \/ s.impl \notin {Null, "XRAY"} \/ s.tls \notin {Null, "REALITY", "TLS"})
    \/ /\ isManagedCertificateProtocol(s.protocol)
       /\ (s.impl \notin {Null, "SING_BOX"} \/ s.net # Null \/ s.tls \notin {Null, "TLS"})
    \/ Normal(s).tls = "REALITY" /\ s.protocol # "VLESS"

UnsupportedPolicy(s, policy) == policy = "IPV4_ONLY" /\ Or(s.impl, "XRAY") # "XRAY"

(* ensureCredentials: what the shape needs and the request left blank. *)
ensureCredentials(s, c, k) ==
    LET paired == (s.net = "XHTTP" \/ s.tls = "REALITY") /\ ~isCfXhttp(s)
        unkeyed == c.priv = Null \/ c.pub = Null
        xhttp == s.net = "XHTTP" /\ ~isCfXhttp(s)
    IN  [c EXCEPT !.uuid = IF xhttp \/ s.protocol = "TUIC" THEN Or(@, "uuid") ELSE @,
                  !.priv = IF paired /\ unkeyed THEN k ELSE @,
                  !.pub = IF paired /\ unkeyed THEN k ELSE @,
                  !.sid = IF xhttp THEN Or(@, "sid") ELSE @,
                  !.path = IF xhttp THEN Or(@, "/path") ELSE @]

needsCredentialNormalization(s) ==
    s.tls = "REALITY" \/ s.net = "XHTTP" \/ isManagedCertificateProtocol(s.protocol)

Replaced(old, new) == IF new = Absent THEN old ELSE new \* mutant
Merged(old, new) == IF new = Absent THEN old ELSE [f \in DOMAIN old |-> Or(new[f], old[f])]

(* What the form offers: implementations per protocol, REALITY for VLESS only. *)
Implementations(p) ==
    CASE p = "VMESS" -> {"XRAY", "V2RAY", "SING_BOX"}
      [] p = "SHADOWSOCKS" -> {"SS_LIBEV", "SING_BOX"}
      [] p \in {"VLESS", "TROJAN", "SOCKS5", "HTTP"} -> {"XRAY", "SING_BOX"}
      [] OTHER -> {"XRAY", "V2RAY", "SING_BOX", "SS_LIBEV"}
TlsModes(p) == IF p = "VLESS" THEN {"NONE", "TLS", "REALITY"} ELSE {"NONE", "TLS"}

Requests ==
    UNION {{Shape(p, i, n, t) : i \in Implementations(p) \cup {Null}, n \in Transports, t \in TlsModes(p)} :
           p \in Protocols}

(* ---- operations ---- *)

Row(s, domain, dns, policy, exit, creds) ==
    [protocol |-> s.protocol, impl |-> s.impl, net |-> s.net, tls |-> s.tls, domain |-> domain,
     dns |-> dns, policy |-> policy, exit |-> exit, creds |-> creds]

Init == row = None

(* create: a form; TUIC and AnyTLS get a DNS name of their own or nothing is created. *)
Create ==
    /\ ~Exists
    /\ \E s \in Requests, domain \in {Null, "own"}, policy \in Policies, c \in Identities, k \in Keys :
        /\ ~Unsupported(s) /\ ~isCfXhttp(Normal(s)) /\ ~UnsupportedPolicy(Normal(s), policy)
        /\ LET n == Normal(s)
               named == isManagedCertificateProtocol(n.protocol)
           IN  row' = Row(n, IF named THEN "zone" ELSE domain, named, policy, Null, ensureCredentials(n, c, k))

(* createFromPreset and createChainNode: names in the zone where the preset has  *)
(* one (TUIC, AnyTLS and CDN XHTTP never without; a mapped origin waits for its  *)
(* first deployment), nothing for the other presets of a chain.                  *)
Named(preset, exit) ==
    IF preset \in STRICT_DNS_PRESETS THEN {"zone"}
    ELSE IF preset \in CfPresets \/ (preset \in CLOUDFLARE_PRESETS /\ exit = Null) THEN {"zone", Null}
    ELSE {Null}

CreateFromPreset ==
    /\ ~Exists
    /\ \E preset \in Presets, exit \in Exits, k \in Keys : \E domain \in Named(preset, exit) :
        row' = Row(PROTOCOL_PRESETS[preset], domain, domain = "zone", "AUTO", exit, Generated(preset, k))

(* cfOrigin.prepare, of the first deployment of a mapped origin. *)
Prepare ==
    /\ Exists
    /\ isCfXhttp(row) /\ row.domain = Null
    /\ row' = [row EXCEPT !.domain = "zone", !.dns = TRUE]

(* updateExclusive: the fields of the request over those of the row. *)
Fields(s) ==
    LET enteringXhttp == s.net = "XHTTP" /\ row.net # "XHTTP"
        enteringManaged == isManagedCertificateProtocol(s.protocol) /\ s.protocol # row.protocol
        fresh == enteringXhttp \/ enteringManaged
    IN  Shape(Or(s.protocol, row.protocol),
              Or(s.impl, IF fresh THEN Null ELSE row.impl),
              Or(s.net, IF enteringManaged THEN Null ELSE row.net),
              Or(s.tls, IF fresh THEN Null ELSE row.tls))


(* A CDN XHTTP node neither becomes nor stops being one, and keeps its identity. *)
InPlace(s, domain, c) ==
    isCfXhttp(s) \/ isCfXhttp(row) =>
        /\ s.protocol = row.protocol /\ s.net = row.net /\ s.tls = row.tls
        /\ domain \in {Null, row.domain} /\ c = Absent

DomainKept(s, domain) ==
    LET named == isManagedCertificateProtocol(s.protocol)
        provisioned == named /\ ((s.protocol # row.protocol) \/ ~row.dns \/ row.domain = Null)
        retiring == row.dns /\ ~named /\ s.tls # "TLS"
    IN  CASE provisioned -> [domain |-> "zone", dns |-> TRUE]
          [] named /\ ~provisioned -> [domain |-> row.domain, dns |-> row.dns]
          [] retiring -> [domain |-> domain, dns |-> FALSE]
          [] OTHER -> [domain |-> Or(domain, row.domain), dns |-> row.dns]

\* What the row's shape may come to: a shape that no core speaks is refused.
Reshaped ==
    LET asked == {Fields(q) : q \in Requests \cup {Shape(Null, Null, Null, Null)}}
    IN  {Normal(f) : f \in {f \in asked : ~Unsupported(f)}}

Edit ==
    /\ Exists
    /\ \E s \in Reshaped, domain \in {Null, "own", row.domain}, policy \in Policies \cup {row.policy},
          c \in Identities \cup {Absent}, k \in Keys :
        /\ ~UnsupportedPolicy(s, policy) /\ InPlace(s, domain, c)
        /\ LET d == DomainKept(s, domain)
           IN  row' = Row(s, d.domain, d.dns, policy, row.exit,
                          IF needsCredentialNormalization(s)
                          THEN ensureCredentials(s, Merged(row.creds, c), k)
                          ELSE IF c = Absent THEN row.creds ELSE c)

(* The form of a CDN XHTTP node: its upload mode, which HTTP/3 does not have. *)
EditMode ==
    /\ Exists
    /\ isCfXhttp(row)
    /\ \E mode \in {"packet-up", "stream-up"} :
        /\ row.creds.alpn = "h3" => mode = "packet-up"
        /\ row' = [row EXCEPT !.creds.mode = mode]

Remove == Exists /\ row' = None

Next == Create \/ CreateFromPreset \/ Prepare \/ Edit \/ EditMode \/ Remove

Spec == Init /\ [][Next]_row
====
