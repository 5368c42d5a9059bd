------------------------------ MODULE PortAllocation ------------------------------
(***************************************************************************)
(* The TCP and UDP ports of servers.  A node claims its listen port and a  *)
(* statistics port derived from it on its entry, a chain node a port on    *)
(* its exit as well; resources that wait for their cleanup keep theirs,    *)
(* and whatever else listens on a machine is left alone.  An allocation    *)
(* reads the rows, then scans the machine, under the port locks.           *)
(***************************************************************************)
EXTENDS Naturals, Sequences, SequencesExt

CONSTANTS
    Servers, Nodes,
    MaxPort, Offset,  \* 65535 and 20000
    FixedPort,        \* 443
    Mapped, Pool, ExitPool,  \* candidate pools, in order
    Requests,         \* what is asked for: port choice, core with statistics, entry, exit
    Foreign,          \* bound: server and port that another program may take
    MaxEdits          \* bound: edits

None == "none"

PortAssumption ==
    /\ MaxPort \in Nat /\ Offset \in 1 .. MaxPort /\ 2 * Offset <= MaxPort /\ FixedPort \in 1 .. MaxPort
    /\ \A pool \in {Mapped, Pool, ExitPool} : ToSet(pool) \subseteq 1 .. MaxPort
    /\ Requests \subseteq {"manual", "fixed", "mapped", "range"} \X BOOLEAN \X Servers \X (Servers \cup {None})
    /\ Foreign \subseteq Servers \X (1 .. MaxPort)
    /\ \A q \in Requests : q[3] # q[4]
    /\ None \notin Servers /\ MaxEdits \in Nat

VARIABLES
    row,      \* node -> its ports and servers in the database
    sockets,  \* <<server, port, owner>>: what listens
    tasks,    \* pending cleanups: server and ports
    alloc,    \* node -> the allocation that runs for it
    edits,
    loose     \* nodes whose ports were edited by a row update that no deployment completed

vars == <<row, sockets, tasks, alloc, edits, loose>>
Ports == 1 .. MaxPort
NoRow == [server |-> None, listen |-> 0, core |-> FALSE, stats |-> 0, exit |-> None, exitPort |-> 0]
NoAlloc == [step |-> "none", kind |-> None, core |-> FALSE, server |-> None, exit |-> None, used |-> {}]
Kinds == {"manual", "fixed", "mapped", "range"}

\* computeStatsPort / derivedStatsPort, for a core that has statistics.
Derived(p) == IF p + Offset <= MaxPort THEN p + Offset ELSE p - Offset

\* collectServerPorts: the recorded statistics port counts before the derived one.
Stats(r) ==
    CASE r.stats # 0 -> {r.stats} [] r.stats = 0 /\ r.core -> {Derived(r.listen)} [] OTHER -> {}
Claims(r, s) ==
    (IF r.server = s THEN {r.listen} \cup Stats(r) ELSE {})
        \cup (IF r.exit = s THEN {r.exitPort} ELSE {})

Live == {n \in Nodes : row[n] # NoRow}
RowPorts(s, except) == UNION {Claims(row[m], s) : m \in Live \ except}
Listening(s, except) == {k[2] : k \in {k \in sockets : k[1] = s /\ k[3] \notin except}}
Pending(s) == UNION {t.ports : t \in {t \in tasks : t.server = s}}
OnlyListening(s, except) == Listening(s, except)                            \* mutant
Unavailable(s, except) == Listening(s, except) \cup Pending(s)

TypeOK ==
    /\ \A n \in Nodes : row[n] = NoRow \/
         /\ row[n].server \in Servers /\ row[n].listen \in Ports /\ row[n].core \in BOOLEAN
         /\ row[n].stats \in Ports \cup {0} /\ row[n].exit \in Servers \cup {None}
         /\ row[n].exitPort \in Ports \cup {0}
    /\ sockets \subseteq Servers \X Ports \X (Nodes \cup {"foreign"})
    /\ \A t \in tasks : t.server \in Servers /\ t.ports \subseteq Ports /\ t.node \in Nodes
    /\ \A n \in Nodes : alloc[n] = NoAlloc \/
         /\ alloc[n].step \in {"scan", "edit"} /\ alloc[n].kind \in Kinds
         /\ alloc[n].server \in Servers /\ alloc[n].used \subseteq Ports
    /\ edits \in 0 .. MaxEdits /\ loose \subseteq Nodes

Init ==
    /\ row = [n \in Nodes |-> NoRow] /\ sockets = {} /\ tasks = {}
    /\ alloc = [n \in Nodes |-> NoAlloc] /\ edits = 0 /\ loose = {}

-----------------------------------------------------------------------------
\* nextpanel:server-ports of every server that the operation names is free.
Free(servers) ==
    \A n \in Nodes : alloc[n] # NoAlloc => alloc[n].server \notin servers /\ alloc[n].exit \notin servers

\* create, createFromPreset and createChainNode, under the port locks.
AllocBegin(n, kind, core, s, e) ==
    /\ row[n] = NoRow /\ alloc[n] = NoAlloc
    /\ Free({s, e} \ {None})
    /\ alloc' = [alloc EXCEPT ![n] = [step |-> "scan", kind |-> kind, core |-> core, server |-> s, exit |-> e,
                                      used |-> RowPorts(s, {})]]
    /\ UNCHANGED <<row, sockets, tasks, edits, loose>>

\* The first port of a pool that is free with its statistics port.
Fits(p, core, used) == p \notin used /\ (core => Derived(p) \notin used)
Pick(pool, core, used) ==
    LET good == {i \in DOMAIN pool : Fits(pool[i], core, used)}
    IN  IF good = {} THEN {0} ELSE {pool[i] : i \in {i \in good : \A j \in good : i <= j}}

\* manual: the caller's port, or a refusal.  A CDN node whose fixed port is taken gets a mapped one.
Offered(kind, core, used) ==
    CASE kind = "manual" -> {p \in Ports : Fits(p, core, used)} \cup {0}
      [] kind = "fixed" -> {IF Fits(FixedPort, core, used) THEN FixedPort ELSE 0}
      [] kind = "mapped" ->
            IF Fits(FixedPort, core, used) THEN {FixedPort} ELSE Pick(Mapped, core, used)
      [] OTHER -> Pick(Pool, core, used)

Insert(n, a, p, q) ==
    /\ row' = [row EXCEPT ![n] = [server |-> a.server, listen |-> p, core |-> a.core, stats |-> 0,
                                  exit |-> a.exit, exitPort |-> q]]
    /\ alloc' = [alloc EXCEPT ![n] = NoAlloc]

Refuse(n) == alloc' = [alloc EXCEPT ![n] = NoAlloc] /\ UNCHANGED row

AllocScan(n) ==
    LET a == alloc[n]
        used == a.used \cup Unavailable(a.server, {})
    IN  /\ a.step = "scan"
        /\ \E p \in Offered(a.kind, a.core, used) :
             \/ p = 0 /\ Refuse(n)
             \/ p # 0 /\ a.exit = None /\ Insert(n, a, p, 0)
             \/ /\ p # 0 /\ a.exit # None
                /\ \E q \in Pick(ExitPool, FALSE, RowPorts(a.exit, {}) \cup Unavailable(a.exit, {})) :
                     IF q = 0 THEN Refuse(n) ELSE Insert(n, a, p, q)
        /\ UNCHANGED <<sockets, tasks, edits, loose>>

\* update: only the ports of the node's present server are checked.
EditBegin(n) ==
    /\ n \in Live /\ alloc[n] = NoAlloc /\ edits < MaxEdits /\ edits' = edits + 1
    /\ Free({row[n].server})
    /\ alloc' = [alloc EXCEPT ![n] = [step |-> "edit", kind |-> "manual", core |-> row[n].core, server |-> row[n].server,
                                      exit |-> None, used |-> RowPorts(row[n].server, {n})]]
    /\ UNCHANGED <<row, sockets, tasks, loose>>

Own(n) == {k \in sockets : k[3] = n}
NodeSockets(n, r) ==
    {<<r.server, r.listen, n>>}
        \cup (IF r.core THEN {<<r.server, Derived(r.listen), n>>} ELSE {})
        \cup (IF r.exit # None THEN {<<r.exit, r.exitPort, n>>} ELSE {})
Clear(n, r) == \A k \in NodeSockets(n, r) : k[2] \notin Listening(k[1], {n})

\* The row is written before the deployment that follows within the locks, and restored when
\* that fails.  A legacy edit replies without it; when the way back fails on the machine or in
\* the database, or the panel dies, the row has the new ports, the old statistics port on
\* record, and the machine has the old listeners, the new ones or none.
EditEnd(n) ==
    LET a == alloc[n]
        used == a.used \cup Unavailable(a.server, {n})
    IN  /\ a.step = "edit"
        /\ alloc' = [alloc EXCEPT ![n] = NoAlloc]
        /\ \/ UNCHANGED <<row, sockets, loose>>
           \/ \E p \in Ports, core \in BOOLEAN :
                LET r == [row[n] EXCEPT !.listen = p, !.core = core]
                    replaced == (sockets \ Own(n)) \cup NodeSockets(n, r)
                IN  /\ Fits(p, core, used)
                    /\ \/ /\ Clear(n, r) /\ sockets' = replaced
                          /\ row' = [row EXCEPT ![n] = [r EXCEPT !.stats = IF core THEN Derived(p) ELSE 0]]
                          /\ UNCHANGED loose
                       \/ /\ row' = [row EXCEPT ![n] = r]
                          /\ sockets' \in {sockets, sockets \ Own(n)} \cup (IF Clear(n, r) THEN {replaced} ELSE {})
                          /\ loose' = IF r = row[n] THEN loose ELSE loose \cup {n}
        /\ UNCHANGED <<tasks, edits>>

\* Only a unit's own listeners may be there; a success records the statistics port.
Deploy(n) ==
    /\ n \in Live /\ alloc[n] = NoAlloc
    /\ Clear(n, row[n])
    /\ sockets' = (sockets \ Own(n)) \cup NodeSockets(n, row[n])
    /\ row' = [row EXCEPT ![n].stats = IF row[n].core THEN Derived(row[n].listen) ELSE 0]
    /\ UNCHANGED <<tasks, alloc, edits, loose>>

\* toggle, or a failed unit.
Stop(n) ==
    /\ n \in Live /\ Own(n) # {}
    /\ sockets' = sockets \ Own(n)
    /\ UNCHANGED <<row, tasks, alloc, edits, loose>>

RemoveNode(n) ==
    /\ n \in Live /\ alloc[n] = NoAlloc /\ Own(n) = {}
    /\ row' = [row EXCEPT ![n] = NoRow]
    /\ UNCHANGED <<sockets, tasks, alloc, edits, loose>>

\* queueServerDeletion: rows become cleanups in one transaction, under the locks of the graph.
Queue(n) ==
    LET r == row[n]
    IN  /\ n \in Live /\ alloc[n] = NoAlloc /\ Free({r.server, r.exit} \ {None})
        /\ tasks' = tasks
             \cup {[server |-> r.server, ports |-> {r.listen} \cup ({r.stats} \ {0}), node |-> n]}
             \cup (IF r.exit = None THEN {} ELSE {[server |-> r.exit, ports |-> {r.exitPort}, node |-> n]})
        /\ row' = [row EXCEPT ![n] = NoRow]
        /\ UNCHANGED <<sockets, alloc, edits, loose>>

CleanupDone(t) ==
    /\ t \in tasks
    /\ tasks' = tasks \ {t}
    /\ sockets' = {k \in sockets : k[1] # t.server \/ k[3] # t.node}
    /\ UNCHANGED <<row, alloc, edits, loose>>

\* Another program starts or ends.
ForeignListens(s, p) ==
    /\ \/ p \notin Listening(s, {}) /\ sockets' = sockets \cup {<<s, p, "foreign">>}
       \/ sockets' = sockets \ {<<s, p, "foreign">>}
    /\ UNCHANGED <<row, tasks, alloc, edits, loose>>

Next ==
    \/ \E n \in Nodes, q \in Requests : AllocBegin(n, q[1], q[2], q[3], q[4])
    \/ \E n \in Nodes : AllocScan(n) \/ EditBegin(n) \/ EditEnd(n) \/ Deploy(n) \/ Stop(n) \/ RemoveNode(n) \/ Queue(n)
    \/ \E t \in tasks : CleanupDone(t)
    \/ \E k \in Foreign : ForeignListens(k[1], k[2])

Spec == Init /\ [][Next]_vars

-----------------------------------------------------------------------------
\* What is kept for a node: its listen port and its port at the exit in any case; its
\* statistics port unless an edit of its ports was left without a deployment, for nobody
\* claims the new one until the next deployment records it.
Promised(n, s) ==
    Claims(row[n], s) \cup
        (IF row[n].server = s /\ row[n].core THEN {Derived(row[n].listen)} ELSE {})
Main(r, s) == (IF r.server = s THEN {r.listen} ELSE {}) \cup (IF r.exit = s THEN {r.exitPort} ELSE {})
Kept(n, s) == IF n \in loose THEN Main(row[n], s) ELSE Promised(n, s)

(* No port of a server is kept for two nodes, be it the listen port of one   *)
(* and the statistics port of another, nor for a node and a resource that    *)
(* waits for its cleanup: of all ports only the statistics port of a loose   *)
(* node is ever promised twice ("so neither the new listen port nor its      *)
(* derived stats port collides").                                            *)
NothingPromisedTwice ==
    \A s \in Servers, n \in Live :
        /\ \A m \in Live \ {n} : Kept(n, s) \cap Kept(m, s) = {}
        /\ \A t \in tasks : t.server = s /\ t.node \notin loose => Kept(n, s) \cap t.ports = {}

(* What listens on a node's ports is its own service, a program that came    *)
(* later, or a loose node: no other node of the panel keeps it from being    *)
(* deployed.                                                                 *)
OnlyOwnListeners ==
    \A n \in Live, k \in sockets :
        k[2] \in Kept(n, k[1]) => k[3] \in {n, "foreign"} \cup loose

(* Both, with the types.                                                     *)
PortsApart == TypeOK /\ NothingPromisedTwice /\ OnlyOwnListeners
=============================================================================
