---- MODULE Subscriptions ----
(* One subscription (subscriptions/subscriptions.service.ts): forms that read, *)
(* validate against the node rows and write under the row's updatedAt, nodes   *)
(* that drift in the meantime, and the downloads that must keep the protected  *)
(* nodes behind the CDN whatever happened.                                     *)
EXTENDS FiniteSets, Integers

Confs == {"ws", "xhttp", "lost", "plain", "gone"}

CONSTANTS Nodes,         \* nodes of the owner
          Kept,          \* what a form says of a field it leaves alone
          Forms,         \* what the forms say: [cfOnly, cfAuto, ips, nodes, ext]
          Editors,       \* browser tabs of the owner
          Start,         \* what the nodes are at first
          Becomes,       \* what edits, DNS and route checks make of a node
          MaxProtected,  \* 20 in the code
          MaxWrites      \* bound on the writes of the row

ASSUME KeptAssumption == Kept \notin Nodes \cup BOOLEAN
ASSUME StartAssumption ==
    /\ Start \in [Nodes -> Confs]
    /\ Becomes \in [Confs -> SUBSET (Confs \ {"gone"})] /\ Becomes["gone"] = {}
ASSUME BoundsAssumption == MaxProtected \in Nat \ {0} /\ MaxWrites \in Nat
ASSUME FormsAssumption ==
    Forms \subseteq [cfOnly : {Kept, TRUE, FALSE}, cfAuto : {Kept, TRUE, FALSE},
                     ips : {Kept, TRUE, FALSE}, nodes : {Kept} \cup SUBSET Nodes,
                     ext : {Kept, TRUE, FALSE}]
\* The page sends the flags with the nodes (SubscriptionFormModal.tsx).
ASSUME PageAssumption ==
    \A f \in Forms : f.nodes # Kept => f.cfOnly # Kept \/ f.cfAuto # Kept

VARIABLES
    sub,      \* the row: protection, selected nodes, external nodes, updatedAt
    conf,     \* what each node is: managed WS, managed XHTTP, an XHTTP CDN node
              \* that is not verified (any more), anything else, or no row
    form,     \* the update each tab has under way
    guarded,  \* history: nodes protected by a completed write, selected ever since
    answer    \* the download just given: where it leads, and what was guarded

vars == <<sub, conf, form, guarded, answer>>


Managed(n) == conf[n] \in {"ws", "xhttp"}
Xhttp(n) == conf[n] \in {"xhttp", "lost"}
Idle == [at |-> "idle"]
NoAnswer == [entries |-> {}, kept |-> {}, strict |-> FALSE]

Protecting(s) == IF s.cfOnly THEN s.nodes ELSE s.pids \cap s.nodes

(* validateSelection: a strict subscription takes 1 to 20 managed nodes only. *)
ValidSelection(nodes, ext) ==
    /\ nodes # {} /\ Cardinality(nodes) <= MaxProtected
    /\ ~ext
    /\ \A n \in nodes : Managed(n)

(* automaticSelection: of a mixed subscription it takes the nodes that qualify. *)
Automatic(nodes) == {n \in nodes : Managed(n)}
ValidAutomatic(nodes) ==
    /\ \A n \in nodes : conf[n] # "gone"
    /\ Automatic(nodes) # {} /\ Cardinality(Automatic(nodes)) <= MaxProtected

Empty == [cfOnly |-> FALSE, cfAuto |-> FALSE, ips |-> FALSE, pids |-> {},
          nodes |-> {}, ext |-> FALSE, ver |-> 0]

Says(field, old) == IF field = Kept THEN old ELSE field

(* What a form makes of the row it read: flags, selection, protected nodes.   *)
Wanted(f, s) ==
    LET cfOnly == Says(f.cfOnly, s.cfOnly)
        cfAuto == Says(f.cfAuto, s.cfAuto)
        nodes == Says(f.nodes, s.nodes)
    IN [cfOnly |-> cfOnly, cfAuto |-> cfAuto, ips |-> Says(f.ips, s.ips),
        nodes |-> nodes, ext |-> Says(f.ext, s.ext), ver |-> s.ver,
        pids |-> (s.pids \cap nodes)
                    \cup (IF cfAuto /\ ~cfOnly THEN Automatic(nodes) ELSE {})]

Acceptable(w) ==
    /\ IF w.cfOnly THEN ValidSelection(w.nodes, w.ext) ELSE ~w.ips
    /\ w.cfAuto /\ ~w.cfOnly => ValidAutomatic(w.nodes)
    /\ Cardinality(w.pids) <= MaxProtected

TypeOK ==
    /\ sub \in [cfOnly : BOOLEAN, cfAuto : BOOLEAN, ips : BOOLEAN, pids : SUBSET Nodes,
                nodes : SUBSET Nodes, ext : BOOLEAN, ver : 0..MaxWrites]
    /\ sub.ips => sub.cfOnly
    /\ conf \in [Nodes -> Confs]
    /\ \A e \in Editors : form[e].at \in {"idle", "read", "checked"}
    /\ guarded \subseteq Nodes

(* create: what a first form makes of an empty row.                           *)
Created(f) == Wanted(f, Empty)

Init ==
    /\ conf = Start
    /\ \E f \in Forms : Acceptable(Created(f)) /\ sub = Created(f)
    /\ form = [e \in Editors |-> Idle]
    /\ guarded = Protecting(sub)
    /\ answer = NoAnswer

(* update reads the row; a strict subscription cannot be made a mixed one.    *)
FormRead(e, f) ==
    /\ form[e] = Idle
    /\ ~(sub.cfOnly /\ f.cfOnly = FALSE)
    /\ form' = [form EXCEPT ![e] = [at |-> "read", says |-> f, row |-> sub]]
    /\ UNCHANGED <<sub, conf, guarded>>
    /\ answer' = NoAnswer

(* It validates the selection against the node rows, and drops from it what   *)
(* does not exist.                                                            *)
FormCheck(e) ==
    /\ form[e].at = "read"
    /\ LET w == Wanted(form[e].says, form[e].row) IN
        form' = [form EXCEPT ![e] =
            IF Acceptable(w)
            THEN [at |-> "checked", says |-> form[e].says, row |-> form[e].row,
                  pids |-> w.pids, nodes |-> {n \in w.nodes : conf[n] # "gone"}]
            ELSE Idle]
    /\ UNCHANGED <<sub, conf, guarded>>
    /\ answer' = NoAnswer

(* The where clause of the write.                                             *)
AnyRow(f, s) == TRUE \* mutant
Current(f, s) == s.ver = f.row.ver /\ (f.says.cfOnly = FALSE => ~s.cfOnly)

(* The data of the write: only the fields the form names, and the protected   *)
(* nodes when they differ from those it read. A write of nothing but relations *)
(* may leave updatedAt alone.                                                 *)
Written(f, s, bump) ==
    [cfOnly |-> Says(f.says.cfOnly, s.cfOnly), cfAuto |-> Says(f.says.cfAuto, s.cfAuto),
     ips |-> Says(f.says.ips, s.ips), ext |-> Says(f.says.ext, s.ext),
     nodes |-> IF f.says.nodes = Kept THEN s.nodes ELSE f.nodes,
     pids |-> IF f.pids = f.row.pids THEN s.pids ELSE f.pids,
     ver |-> s.ver + bump]

OnlyRelations(f) ==
    /\ f.says.cfOnly = Kept /\ f.says.cfAuto = Kept /\ f.says.ips = Kept
    /\ f.pids = f.row.pids

FormWrite(e) ==
    /\ form[e].at = "checked"
    /\ Current(form[e], sub)
    /\ form[e].says.nodes = Kept \/ \A n \in form[e].nodes : conf[n] # "gone"
    /\ sub.ver < MaxWrites
    /\ \E bump \in IF OnlyRelations(form[e]) THEN {0, 1} ELSE {1} :
        sub' = Written(form[e], sub, bump)
    /\ guarded' = (guarded \cap sub'.nodes) \cup Protecting(sub')
    /\ form' = [form EXCEPT ![e] = Idle]
    /\ UNCHANGED conf
    /\ answer' = NoAnswer

(* The row has moved, or a node of the selection went: the form is refused    *)
(* (as is every form beyond the bound).                                       *)
FormRefused(e) ==
    /\ form[e].at = "checked"
    /\ \/ ~Current(form[e], sub) \/ sub.ver = MaxWrites
       \/ form[e].says.nodes # Kept /\ \E n \in form[e].nodes : conf[n] = "gone"
    /\ form' = [form EXCEPT ![e] = Idle]
    /\ UNCHANGED <<sub, conf, guarded>>
    /\ answer' = NoAnswer

(* A node is edited, loses its DNS record, or its origin route goes stale.    *)
Drift(n) ==
    /\ \E c \in Becomes[conf[n]] : conf' = [conf EXCEPT ![n] = c]
    /\ UNCHANGED <<sub, form, guarded>>
    /\ answer' = NoAnswer

(* A node is removed, and its selections with it.                             *)
NodeRemoved(n) ==
    /\ conf[n] # "gone"
    /\ conf' = [conf EXCEPT ![n] = "gone"]
    /\ sub' = [sub EXCEPT !.nodes = @ \ {n}]
    /\ guarded' = guarded \ {n}
    /\ UNCHANGED form
    /\ answer' = NoAnswer

----
(* fetchActiveNodes. The row and its nodes are read at once.                  *)
Shielded(n) == sub.cfOnly \/ n \in sub.pids \/ Xhttp(n)

(* findSharedWith: the list a VIEWER sees names the addresses of the other nodes. *)
Disclosed == {n \in sub.nodes : ~Shielded(n)}

Active(up, provider, profile) ==
    {n \in sub.nodes : /\ n \in up
                       /\ provider = Kept \/ n = provider
                       /\ profile = "xhttp" \/ ~Xhttp(n)}

(* A protected node leads to a CDN address, and to nothing when there is none *)
(* or when it does not qualify any more; another one to its own address.      *)
Drifted(n, cdn) == \* mutant
    IF ~Shielded(n) \/ ~Managed(n) THEN {<<n, "own">>}
    ELSE IF n \in cdn \/ sub.ips THEN {<<n, "cdn">>} ELSE {}
OfNode(n, cdn) ==
    IF ~Shielded(n) THEN {<<n, "own">>}
    ELSE IF Managed(n) /\ (n \in cdn \/ sub.ips) THEN {<<n, "cdn">>} ELSE {}
Exported(active, cdn) == UNION {OfNode(n, cdn) : n \in active}

(* A strict subscription answers nothing rather than a part of its promise.   *)
Refuses(active, cdn, provider) ==
    /\ sub.cfOnly
    /\ \/ sub.ext \/ Cardinality(sub.nodes) > MaxProtected
       \/ \E n \in active : ~Managed(n)
       \/ provider = Kept /\ \E n \in active : OfNode(n, cdn) = {}
Promises(s) == s.cfOnly \/ s.pids # {} \/ s.cfAuto \/ \E n \in s.nodes : Xhttp(n)

(* A download of the whole subscription, or of the candidates of one node.    *)
(* "up": the nodes enabled and RUNNING, "cdn": those a CDN address is known for. *)
Download(up, provider, profile, cdn) ==
    LET active == Active(up, provider, profile)
        entries == Exported(active, cdn)
                    \cup (IF provider = Kept /\ sub.ext THEN {<<Kept, "own">>} ELSE {})
    IN /\ provider # Kept => sub.cfAuto /\ provider \in sub.nodes /\ Shielded(provider)
       /\ ~Refuses(active, cdn, provider)
       /\ ~(Promises(sub) /\ entries = {} /\ provider = Kept)
       /\ answer' = [entries |-> entries,
                     kept |-> guarded \cup {n \in sub.nodes : Xhttp(n)},
                     strict |-> sub.cfOnly]
       /\ UNCHANGED <<sub, conf, form, guarded>>

Next ==
    \/ \E e \in Editors : \/ \E f \in Forms : FormRead(e, f)
                          \/ FormCheck(e) \/ FormWrite(e) \/ FormRefused(e)
    \/ \E n \in Nodes : Drift(n) \/ NodeRemoved(n)
    \/ \E provider \in Nodes \cup {Kept}, profile \in {"compatible", "xhttp"},
          up \in SUBSET sub.nodes : \E cdn \in SUBSET up : Download(up, provider, profile, cdn)

Spec == Init /\ [][Next]_vars

----
(* A node that came under protection and stayed selected never leaves a       *)
(* download with its own address, whatever forms, drifts and removals did in  *)
(* between; a CDN XHTTP node never does. ("Configuration drift must never turn *)
(* a protected CF node into a direct export.")                                *)
ProtectedStaysBehindCdn == \A n \in answer.kept : <<n, "own">> \notin answer.entries

(* A strict subscription gives no address of its own to anyone: not of its    *)
(* nodes, not of external ones.                                               *)
StrictIsStrict == answer.strict => \A x \in answer.entries : x[2] = "cdn"

(* "A stale form write must not erase a concurrently enabled protection       *)
(* scope": protection is lost with the selection of the node only.            *)
NoStaleErase == guarded \cap sub.nodes \subseteq Protecting(sub)

(* Nor does the list of a VIEWER name the address of a node that came under   *)
(* protection, of any node of a strict subscription, or of a CDN XHTTP node.  *)
ListsHideToo ==
    /\ (guarded \cup {n \in sub.nodes : Xhttp(n)}) \cap Disclosed = {}
    /\ sub.cfOnly => Disclosed = {}

(* All of them, with the types: what a subscription promises of its nodes     *)
(* holds of every download and list, whatever forms and drifts came between.  *)
SubscriptionSafe ==
    TypeOK /\ ProtectedStaysBehindCdn /\ StrictIsStrict /\ NoStaleErase /\ ListsHideToo

(* Nothing turns a strict subscription into a mixed one, a form that was read *)
(* before it became strict included.                                          *)
StrictForGood == [][sub.cfOnly => sub'.cfOnly]_vars
====
