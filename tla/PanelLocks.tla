------------------------------ MODULE PanelLocks ------------------------------
(***************************************************************************)
(* The panel's calls of withPostgresAdvisoryLocks: which keys each one     *)
(* lists, in the caller's order, and inside which other call's work it is  *)
(* made.  A call is a pair of a call site and the node, resource or server *)
(* it is made for.                                                         *)
(* Definitions marked "mutant" are unused mistakes (see README.md).        *)
(***************************************************************************)
EXTENDS Naturals, Sequences

LOCAL INSTANCE SequencesExt

CONSTANTS
    EntryOf,    \* node -> its server
    ExitOf,     \* node -> its chain exit server, or NoServer
    GraphOf,    \* server -> the nodes a deletion finds on it, as a sequence
    Order,      \* ids in the order of their strings
    NoServer

Core(s) == <<"server-core", s>>
Ports(s) == <<"server-ports", s>>
NodeLock(n) == <<"node", n>>
CleanupLock(r) == <<"cleanup", r>>
Origin == <<"cf-origin", "zone">>

\* The keys are strings of kind and id: sort() compares the kinds first.
KindRank == [kind \in {"cf-origin", "cleanup", "node", "server-core", "server-ports"} |->
                CASE kind = "cf-origin" -> 1 [] kind = "cleanup" -> 2 [] kind = "node" -> 3
                  [] kind = "server-core" -> 4 [] kind = "server-ports" -> 5]
SortRank(k) == 100 * KindRank[k[1]] + (IF k[1] = "cf-origin" THEN 0 ELSE Order[k[2]])

\* A node's servers, in the order in which its operations list their keys.
ServersOf(n) == <<EntryOf[n]>> \o (IF ExitOf[n] = NoServer THEN <<>> ELSE <<ExitOf[n]>>)
Cores(n) == [i \in 1 .. Len(ServersOf(n)) |-> Core(ServersOf(n)[i])]

\* queueServerDeletion: cores and ports of every server of the graph, its nodes.
GraphKeys(s) ==
    LET graph == GraphOf[s]
        servers == <<s>> \o FlattenSeq([i \in 1 .. Len(graph) |-> ServersOf(graph[i])])
    IN  FlattenSeq([i \in 1 .. Len(servers) |-> <<Core(servers[i]), Ports(servers[i])>>])
                \o [i \in 1 .. Len(graph) |-> NodeLock(graph[i])]

\* What runs inside another operation on the node leaves out the node's key
\* (skipAdvisoryLock): the outer session has it.
UnderNodeLock(n) == Cores(n)

\* A resource is a pair of its node and its server.
KeysOf(call) ==
    LET site == call[1]
        id == call[2]
    IN  CASE site = "create" -> [i \in 1 .. Len(ServersOf(id)) |-> Ports(ServersOf(id)[i])]
          [] site \in {"deploy", "undeployStream", "refreshCert"} ->
                Cores(id) \o <<NodeLock(id)>>
          [] site = "update" -> <<NodeLock(id), Ports(EntryOf[id])>>
          [] site \in {"remove", "toggle", "audit"} -> <<NodeLock(id)>>
          [] site \in {"update/deploy", "remove/undeploy", "toggle/service"} -> UnderNodeLock(id)
          [] site \in {"deploy/origin", "remove/origin"} -> <<Origin>>
          [] site = "cleanup" ->
                <<CleanupLock(id), NodeLock(id[1]), Core(id[2]), Ports(id[2])>>
          [] site = "final" -> <<Core(id), Ports(id)>>
          [] site = "delete" -> GraphKeys(id)

\* The nested calls, and the call in whose work each is made.
Sites == [site \in {"update/deploy", "remove/undeploy", "toggle/service", "deploy/origin",
                    "remove/origin"} |->
            CASE site = "update/deploy" -> "update"
              [] site \in {"remove/undeploy", "remove/origin"} -> "remove"
              [] site = "toggle/service" -> "toggle"
              [] site = "deploy/origin" -> "deploy"]
Inside(call) == call[1] \in DOMAIN Sites
OuterOf(call) == <<Sites[call[1]], call[2]>>
=============================================================================
