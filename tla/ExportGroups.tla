---- MODULE ExportGroups ----
(* The groups and selectors of the Clash, sing-box and HomeProxy downloads       *)
(* (subscriptions/uri-builder.ts), the CF providers a Clash client refreshes on  *)
(* its own afterwards, and what the client can still dial with what it has kept. *)
EXTENDS FiniteSets, Naturals

CONSTANTS Nodes,      \* nodes of one subscription
          Ips,        \* candidate Cloudflare addresses
          Dns,        \* the address its domain resolves to
          Kinds       \* what drift makes of a node: "off", "plain", "xhttp" (REALITY),
                      \* "cdn", "cdnx" (XHTTP) or "lost" (protected, not verified)

DnsAssumption == Dns \notin Ips
\* A name of the configuration tells what it is of, see below.
NamesAssumption == Nodes \cap {"selector", "builtin"} = {} /\ (Ips \cup {Dns}) \cap {"own", "group"} = {}
KindsAssumption == Kinds \subseteq {"off", "plain", "xhttp", "cdn", "cdnx", "lost"}

VARIABLES
    kind,     \* the nodes, as the subscription sees them
    pool,     \* addresses currently published for each of them
    auto,     \* cfAuto: addresses are chosen by the panel and refreshed
    config,   \* the configuration the client runs, or None
    cache,    \* the entries of each provider the client has loaded
    current   \* observer: nodes whose provider was refreshed since they last changed

vars == <<kind, pool, auto, config, cache, current>>

Protected(n) == kind[n] \in {"cdn", "cdnx", "lost"}
Guarded == auto \/ \E n \in Nodes : Protected(n)

(* ---- what is exported: names are pairs, <<node, address>> for an entry ---- *)

Own(n) == <<n, "own">>
Group(n) == <<n, "group">>
Selector(s) == <<"selector", s>>
Direct == <<"builtin", "DIRECT">>
Reject == <<"builtin", "REJECT">>

(* cfVariants and automaticVariants: one entry per address, the domain's included. *)
Variants(n) == {<<n, ip>> : ip \in pool[n]}

(* fetchActiveNodes: CDN XHTTP for the xhttp profile only, nothing for a lost node. *)
Exports(profile, n) ==
    CASE kind[n] \in {"plain", "xhttp"} -> {Own(n)}
      [] kind[n] = "cdn" \/ (kind[n] = "cdnx" /\ profile = "xhttp") -> Variants(n)
      [] OTHER -> {}
Exported(profile) == UNION {Exports(profile, n) : n \in Nodes}
Refused(profile) == Guarded /\ Exported(profile) = {}

cfGroups(entries) == {n \in Nodes : \E e \in entries : e[1] = n /\ e # Own(n)}
Members(entries, n) == {e \in entries : e[1] = n}

(* selectableTags: groups instead of their members. *)
selectableTags(entries) ==
    {Group(n) : n \in cfGroups(entries)} \cup {e \in entries : e[1] \notin cfGroups(entries)}

(* A selector of the tags, preceded by others; a file without nodes offers DIRECT. *)
Offer(before, tags) == before \cup (IF tags = {} THEN {Direct} ELSE tags)

(* ---- sing-box and HomeProxy: XHTTP has no outbound ---- *)

Outbounds(entries) == {e \in entries : kind[e[1]] \notin {"xhttp", "cdnx"}}

Selecting(tags, s) ==
    CASE tags = {} -> {Direct}
      [] tags # {} /\ s = "auto" -> tags
      [] tags # {} /\ s = "select" -> {Selector("auto")} \cup tags
      [] OTHER -> {Selector("select"), Selector("auto")} \cup tags
Chosen(tags, s) ==
    CASE tags = {} -> Direct
      [] tags # {} /\ s = "select" -> Selector("auto")
      [] OTHER -> Selector("select")

SingboxSelectors(home) == {"select", "auto"} \cup (IF home THEN {"stream", "ai"} ELSE {})
Singbox(home, profile) ==
    LET nodes == Exported(profile)
        tags == selectableTags(Outbounds(nodes))
        cf == cfGroups(nodes)
    IN  [proxies |-> Outbounds(nodes), providers |-> {},
         groups |-> [g \in {Group(n) : n \in cf} \cup {Selector(s) : s \in SingboxSelectors(home)} |->
             IF g[1] = "selector" THEN Selecting(tags, g[2]) ELSE Members(nodes, g[1])],
         default |-> [s \in SingboxSelectors(home) \ {"auto"} |-> Chosen(tags, s)]]

(* assertNoUnsupportedOnlySubscription: a download of XHTTP nodes alone is refused. *)
SingboxRefused(profile) == Exported(profile) # {} /\ Outbounds(Exported(profile)) = {}

(* ---- Clash: with providers when addresses are automatic ---- *)

ClashSelectors == {"select", "auto", "stream", "ai", "telegram", "apple", "microsoft", "rest"}
Before(s) ==
    CASE s = "auto" -> {}
      [] s = "select" -> {Selector("auto")}
      [] s \in {"stream", "ai", "telegram"} -> {Selector("select")}
      [] OTHER -> {Selector("select"), Direct}

Clash(profile) ==
    LET nodes == Exported(profile)
        cf == cfGroups(nodes)
        dynamic == auto /\ cf # {}
        tags == selectableTags(nodes)
    IN  [proxies |-> IF dynamic THEN {e \in nodes : e[1] \notin cf} ELSE nodes,
         providers |-> IF dynamic THEN cf ELSE {},
         groups |-> [g \in {Group(n) : n \in cf} \cup {Selector(s) : s \in ClashSelectors} |->
             CASE g[1] = "selector" -> Offer(Before(g[2]), tags)
               [] g[1] # "selector" /\ dynamic -> {Reject}
               [] OTHER -> Members(nodes, g[1])],
         default |-> [s \in {"apple", "microsoft"} |-> Direct]]

(* ---- the client ---- *)

None == [proxies |-> {}, providers |-> {}, groups |-> <<>>, default |-> <<>>]
Sentinel == <<"builtin", "CF unavailable">>

(* generateCfProvider; the sentinel stands in for a node that has nothing to offer. *)
NoSentinel(profile, n) == Exports(profile, n) \* mutant
Provider(profile, n) == IF Exports(profile, n) = {} THEN {Sentinel} ELSE Exports(profile, n)

(* What a name leads to: cfCandidateFilter lets no sentinel into a provider's group. *)
Loaded(c, n) == IF n \in c.providers THEN cache[n] \ {Sentinel} ELSE {}
Inner(c, g) == c.groups[g] \cup UNION {Loaded(c, n) : n \in {m \in Nodes : Group(m) = g}}
Expanded(c, names) ==
    UNION {IF m \in DOMAIN c.groups THEN Inner(c, m) ELSE {m} : m \in names}
Leaves(c, g) == Expanded(c, Expanded(c, Expanded(c, Expanded(c, Inner(c, g)))))

Init ==
    /\ kind \in [Nodes -> Kinds \cap {"off", "plain", "cdn"}]
    /\ pool = [n \in Nodes |-> {Dns}]
    /\ auto \in BOOLEAN
    /\ config = None
    /\ cache = [n \in Nodes |-> {}] /\ current = {}

(* A node starts, stops, loses or regains what protects it; it never stops to be one *)
(* that the subscription protects.                                                   *)
Drift(n) ==
    /\ \E k \in Kinds : /\ (k \in {"cdn", "cdnx", "lost"}) = Protected(n)
                        /\ kind' = [kind EXCEPT ![n] = k]
    /\ current' = current \ {n}
    /\ UNCHANGED <<pool, auto, config, cache>>

(* A measurement publishes other addresses, the domain resolves or does not. *)
Publish(n) ==
    /\ kind[n] \in {"cdn", "cdnx"}
    /\ \E s \in SUBSET (Ips \cup {Dns}) : pool' = [pool EXCEPT ![n] = s]
    /\ current' = current \ {n}
    /\ UNCHANGED <<kind, auto, config, cache>>

Profile(xhttp) == IF xhttp THEN "xhttp" ELSE "compatible"

ClashDownload(xhttp) ==
    /\ ~Refused(Profile(xhttp))
    /\ config' = Clash(Profile(xhttp))
    /\ cache' = [n \in Nodes |-> {}] /\ current' = {}
    /\ UNCHANGED <<kind, pool, auto>>

(* generateSingboxContent and generateHomeProxyContent: always the compatible profile. *)
SingboxProfile == "compatible"
SingboxDownload(home) ==
    /\ ~Refused(SingboxProfile) /\ ~SingboxRefused(SingboxProfile)
    /\ config' = Singbox(home, SingboxProfile)
    /\ cache' = [n \in Nodes |-> {}] /\ current' = {}
    /\ UNCHANGED <<kind, pool, auto>>

(* A refresh of one provider. The client keeps what it has when the answer has no  *)
(* entry, or when there is no answer: the provider is refused where cfAuto is off. *)
Refresh(n, xhttp) ==
    /\ n \in config.providers
    /\ auto
    /\ LET got == Provider(Profile(xhttp), n)
       IN  cache' = [cache EXCEPT ![n] = IF got = {} THEN @ ELSE got]
    /\ current' = current \cup {n}
    /\ UNCHANGED <<kind, pool, auto, config>>

SetAuto ==
    /\ auto' = ~auto
    /\ UNCHANGED <<kind, pool, config, cache, current>>

Next ==
    \/ \E n \in Nodes : Drift(n) \/ Publish(n)
    \/ \E x \in BOOLEAN : ClashDownload(x) \/ SingboxDownload(x)
    \/ \E n \in Nodes, x \in BOOLEAN : Refresh(n, x)
    \/ SetAuto

Spec == Init /\ [][Next]_vars

(* ---- properties ---- *)

Entries == Nodes \X (Ips \cup {Dns, "own"})
Defined == config.proxies \cup DOMAIN config.groups \cup {Direct, Reject}

(* The client holds entries of the nodes, and of a provider those of its node only. *)
TypeOK ==
    /\ config.proxies \subseteq Entries
    /\ \A n \in Nodes : cache[n] \subseteq Members(Entries, n) \cup {Sentinel}

(* The clients accept the file: no group is empty, every name a group lists is      *)
(* defined, groups do not chase each other, and a default is one of the choices     *)
(* (uri-builder.ts:795, 1112).                                                      *)
Accepted ==
    /\ \A g \in DOMAIN config.groups :
          /\ config.groups[g] # {} /\ config.groups[g] \subseteq Defined
          /\ Leaves(config, g) \cap DOMAIN config.groups = {}
    /\ \A s \in DOMAIN config.default : config.default[s] \in config.groups[Selector(s)]

(* Whatever the client has cached, the group of a protected node leads to addresses  *)
(* of the CDN or nowhere: never direct, never to the node itself (uri-builder.ts:1170). *)
GroupsNeverDirect ==
    \A n \in Nodes : Group(n) \in DOMAIN config.groups =>
        /\ Leaves(config, Group(n)) \cap {Direct, Own(n)} = {}
        /\ Leaves(config, Group(n)) # {}

(* While a subscription protects a node, a file it has given out never lets the      *)
(* proxy selector go direct (subscriptions.service.ts:472).                          *)
NoSilentDirect ==
    Selector("select") \in DOMAIN config.groups /\ (\E n \in Nodes : Protected(n))
        => Direct \notin Leaves(config, Selector("select"))

(* Once a client has refreshed a node, its group leads to nothing that the panel has *)
(* withdrawn from it, although the client keeps what it has over an empty answer: to *)
(* published addresses, and of a lost node to none at all (uri-builder.ts:27).       *)
RefreshForgets ==
    \A n \in current :
        Leaves(config, Group(n)) \subseteq (IF kind[n] = "lost" THEN {} ELSE Variants(n)) \cup {Reject}

(* While a client keeps refreshing a node that stays lost, it ends up with nothing   *)
(* to dial there, unless it takes another file or automatic addresses end.           *)
Lost(n) == kind[n] = "lost" /\ auto /\ n \in config.providers
Left(n) == Loaded(config, n) = {}
====
