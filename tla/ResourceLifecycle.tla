-------------------------- MODULE ResourceLifecycle --------------------------
(***************************************************************************)
(* The life of the services a panel installs on its customers' machines:   *)
(* node rows are created, deployed and removed one by one, a server is     *)
(* deleted by turning its nodes into durable cleanup tasks, a background   *)
(* worker carries the tasks out, and the server row, with the last SSH     *)
(* credentials, goes after a final inventory.                              *)
(*                                                                         *)
(* A worker is one request handler or scheduler tick.  Handlers interleave *)
(* at every remote command and are serialised only by PostgreSQL advisory  *)
(* locks, which a handler takes all at once here (AdvisoryLock.tla has the *)
(* one-by-one acquisition).  A worker may die at any step, any remote step *)
(* may fail, and a lock session may be lost while its work goes on.        *)
(*                                                                         *)
(* A definition marked "mutant" is a plausible mistake in the definition   *)
(* after it.  Nothing uses it: it is there to be put in that one's place,  *)
(* which must break a property (README.md, "Mutants").                     *)
(***************************************************************************)
EXTENDS Naturals, FiniteSets

CONSTANTS
    Nodes,      \* node ids (cuids: an id is never used twice)
    Servers,    \* server rows
    Hosts,      \* machines an IP address can lead to
    Identities, \* UUIDs a machine can be marked with
    Workers,    \* concurrent handlers and scheduler ticks
    Configs,    \* distinct generated configurations (by sha256)
    EntryOf,    \* node -> its server (serverId is immutable)
    ExitOf,     \* node -> its chain exit server, or NoServer
    Budget,     \* bounds: how often each kind of disturbance happens
    NoServer, NoHost, NoId, NoConfig, Nobody

Roles == {"ENTRY", "EXIT"}
Disturbances == {"deploy", "fault", "move", "lost", "erase", "scan", "beat"}

(***************************************************************************)
(* A resource is one managed systemd service: the entry of a node, or its  *)
(* chain exit.                                                             *)
(***************************************************************************)
ServicesOf(n) ==
    {<<n, "ENTRY">>} \cup (IF ExitOf[n] = NoServer THEN {} ELSE {<<n, "EXIT">>})
Resources == UNION {ServicesOf(n) : n \in Nodes}
NodeOf(r) == r[1]
RoleOf(r) == r[2]
ServerOf(r) == IF r[2] = "ENTRY" THEN EntryOf[r[1]] ELSE ExitOf[r[1]]
Hosting(n) == {ServerOf(r) : r \in ServicesOf(n)}

\* Names of the advisory locks.
Core(s) == <<"server-core", s>>
Ports(s) == <<"server-ports", s>>
NodeLock(n) == <<"node", n>>
CleanupLock(r) == <<"cleanup", r>>
Keys == {Core(s) : s \in Servers} \cup {Ports(s) : s \in Servers}
          \cup {NodeLock(n) : n \in Nodes} \cup {CleanupLock(r) : r \in Resources}

\* What a machine holds for one resource: config file, unit, ownership manifest.
Artifact == [config : Configs \cup {NoConfig}, unit : BOOLEAN,
             manifest : Configs \cup {NoConfig}]
Nothing == [config |-> NoConfig, unit |-> FALSE, manifest |-> NoConfig]

TaskStates == {"none", "PENDING", "RUNNING", "BLOCKED", "DONE"}
Task == [state : TaskStates, due : BOOLEAN, host : Identities \cup {NoId},
         expected : Configs \cup {NoConfig}, by : Servers \cup {NoServer}]
NoTask == [state |-> "none", due |-> FALSE, host |-> NoId,
           expected |-> NoConfig, by |-> NoServer]

PinPCs == {"pin", "propose", "record", "confirm"}
DeployPCs == PinPCs \cup {"install", "register", "finalize", "settle", "flagged"}
UndeployPCs == {"wipe", "drop"}
CleanupPCs == {"prepare", "remove", "unlist", "done"}
FinalPCs == {"finalList", "finalObserve", "finalDecide"}
PCs == {"idle", "create", "provision", "queue", "picked", "scanList", "scanObserve"}
         \cup DeployPCs \cup UndeployPCs \cup CleanupPCs \cup FinalPCs

ASSUME PlacementAssumption ==
    /\ EntryOf \in [Nodes -> Servers]
    /\ ExitOf \in [Nodes -> Servers \cup {NoServer}]
    /\ \A n \in Nodes : ExitOf[n] # EntryOf[n]
    /\ NoServer \notin Servers
ASSUME NamesAssumption ==
    /\ NoHost \notin Hosts
    /\ NoId \notin Identities
    /\ NoConfig \notin Configs
    /\ Budget \in [Disturbances -> Nat]

VARIABLES
    \* PostgreSQL
    node,       \* [Nodes -> "unborn", "live" or "gone"]: the node row
    row,        \* [Nodes -> Configs]: the configuration the row prescribes
    snap,       \* [Nodes -> Configs or NoConfig]: latest config snapshot
    status,     \* [Servers -> "ok", "DELETING" or "gone"]: the server row
    creds,      \* [Servers -> BOOLEAN]: sshAuthEnc is not empty
    hostId,     \* [Servers -> Identities or NoId]: remoteHostId
    addr,       \* [Servers -> Hosts]: the machine the row's ip leads to
    task,       \* [Resources -> Task]: ResourceCleanup rows
    finding,    \* [Servers -> SUBSET Resources]: unresolved UNKNOWN_SERVICE
    \* the machines
    mark,       \* [Hosts -> Identities or NoId]: /etc/nextpanel/host-id
    remote,     \* [Hosts -> [Resources -> Artifact]]
    \* handlers
    pc, tgt, role, held,
    ssh,        \* [Workers -> [Roles -> Hosts or NoHost]]: open connections
    known,      \* [Workers -> [Roles -> Identities or NoId]]: the identity in its copy of the server row
    saved,      \* [Workers -> [Roles -> Artifact or Nobody]]: rollback points
    prior,      \* [Workers -> Configs or NoConfig]: the row before an update
    seen,       \* [Workers -> SUBSET (Nodes \cup Resources)]: what was read
    \* bookkeeping of the model
    abandoned,  \* resources whose row was dropped without looking at their host
    spent       \* [Disturbances -> Nat]

rows == <<node, row, snap>>
hosting == <<status, creds, hostId, addr>>
jobs == <<task, finding>>
machines == <<mark, remote>>
locals == <<ssh, known, saved, prior, seen>>
procs == <<pc, tgt, role, held>>
ghosts == <<abandoned, spent>>
vars == <<rows, hosting, jobs, machines, locals, procs, ghosts>>

-----------------------------------------------------------------------------
(* Reading the state *)

Open(r) == task[r].state \in {"PENDING", "RUNNING", "BLOCKED"}
LeaseKept(r) == task[r].state = "PENDING" /\ task[r].due                  \* mutant
Pollable(r) == task[r].state \in {"PENDING", "RUNNING"} /\ task[r].due
LiveOn(s) == {n \in Nodes : node[n] = "live" /\ s \in Hosting(n)}
UnitsOn(h) == {r \in Resources : remote[h][r].unit}
Expected(s) == {r \in Resources : ServerOf(r) = s /\ (node[NodeOf(r)] = "live" \/ Open(r))}
Free(keys) == \A w \in Workers : held[w] \cap keys = {}
OperationKeys(n) == {Core(s) : s \in Hosting(n)} \cup {NodeLock(n)}
CleanupKeys(r) == {CleanupLock(r), NodeLock(NodeOf(r)), Core(ServerOf(r)), Ports(ServerOf(r))}
GraphKeys(s, graph) ==
    LET involved == {s} \cup UNION {Hosting(n) : n \in graph}
    IN {Core(t) : t \in involved} \cup {Ports(t) : t \in involved} \cup {NodeLock(n) : n \in graph}

\* remoteHost(expected): a recorded identity must be the one that the machine carries.
SameHost(recorded, i) == recorded \in {NoId, i}

Target(w) == <<tgt[w], role[w]>>        \* of a deploy or undeploy
Peer(w) == ssh[w][role[w]]              \* the machine it talks to

Spend(kind) ==
    /\ spent[kind] < Budget[kind]
    /\ spent' = [spent EXCEPT ![kind] = @ + 1]

NoPeers == [x \in Roles |-> NoHost]
NoneKnown == [x \in Roles |-> NoId]
NoSaves == [x \in Roles |-> Nobody]

Begin(w, p, t, x, keys) ==
    /\ pc[w] = "idle"
    /\ pc' = [pc EXCEPT ![w] = p]
    /\ tgt' = [tgt EXCEPT ![w] = t]
    /\ role' = [role EXCEPT ![w] = x]
    /\ held' = [held EXCEPT ![w] = keys]

\* The handler ends: its lock session closes, its locals are gone.
End(w) ==
    /\ pc' = [pc EXCEPT ![w] = "idle"]
    /\ held' = [held EXCEPT ![w] = {}]
    /\ ssh' = [ssh EXCEPT ![w] = NoPeers]
    /\ known' = [known EXCEPT ![w] = NoneKnown]
    /\ saved' = [saved EXCEPT ![w] = NoSaves]
    /\ prior' = [prior EXCEPT ![w] = NoConfig]
    /\ seen' = [seen EXCEPT ![w] = {}]
    /\ tgt' = [tgt EXCEPT ![w] = Nobody]
    /\ role' = [role EXCEPT ![w] = "ENTRY"]

\* One resource on one machine, one job: what they become.
Put(h, r, artifact) ==
    remote' = [remote EXCEPT ![h] = [remote[h] EXCEPT ![r] = artifact]]
TaskBecomes(r, state, due) ==
    task' = [task EXCEPT ![r] = [task[r] EXCEPT !.state = state, !.due = due]]
\* cleanupMainNodeRemote, cleanupChainExitRemote: no unit and no config are left.
Stopped(h, r) ==
    [config |-> NoConfig, unit |-> FALSE, manifest |-> remote[h][r].manifest]

Goto(w, p) == pc' = [pc EXCEPT ![w] = p] /\ UNCHANGED <<tgt, held>>

-----------------------------------------------------------------------------
(* Creating a node *)

\* create, createFromPreset, createChainNode: the server check under the port locks.
CreateBegin(w, n) ==
    /\ node[n] = "unborn"
    /\ \A s \in Hosting(n) : status[s] = "ok" /\ creds[s]
    /\ Free({Ports(s) : s \in Hosting(n)})
    /\ Begin(w, "create", n, "ENTRY", {Ports(s) : s \in Hosting(n)})
    /\ UNCHANGED <<rows, hosting, jobs, machines, locals, ghosts>>

\* ... and the insert after the ports were inspected over SSH; the locks end here.
CreateInsert(w) ==
    /\ pc[w] = "create"
    /\ node[tgt[w]] = "unborn"
    /\ node' = [node EXCEPT ![tgt[w]] = "live"]
    /\ \E c \in Configs : row' = [row EXCEPT ![tgt[w]] = c]
    /\ pc' = [pc EXCEPT ![w] = "provision"]
    /\ held' = [held EXCEPT ![w] = {}]
    /\ UNCHANGED <<snap, hosting, jobs, machines, locals, tgt, role, ghosts>>

\* The port check fails: no row is written.
CreateRefused(w) ==
    /\ pc[w] = "create"
    /\ End(w)
    /\ UNCHANGED <<rows, hosting, jobs, machines, ghosts>>

\* DNS provisioning succeeded (or the node needs none).
Provisioned(w) ==
    /\ pc[w] = "provision"
    /\ End(w)
    /\ UNCHANGED <<rows, hosting, jobs, machines, ghosts>>

\* DNS provisioning failed: rollbackCreatedNode deletes the row, without the
\* node's lock and without looking at the machine.
Compensate(w) ==
    /\ pc[w] = "provision"
    /\ Spend("fault")
    /\ IF node[tgt[w]] = "live"
       THEN /\ node' = [node EXCEPT ![tgt[w]] = "gone"]
            /\ abandoned' = abandoned \cup ServicesOf(tgt[w])
       ELSE UNCHANGED <<node, abandoned>>
    /\ End(w)
    /\ UNCHANGED <<row, snap, hosting, jobs, machines>>

-----------------------------------------------------------------------------
(* Deploying a node: first deployment, redeployment, or update of the row *)

\* The row and its servers as read under the locks.
Deployable(n) ==
    /\ node[n] = "live"
    /\ \A s \in Hosting(n) : status[s] = "ok"
    /\ creds[EntryOf[n]]

\* What an update puts back when its deployment fails.
Existing(n) == row[n]

\* deploy: locks, then the row and both servers are read again.  An update of
\* the node (c differs from its row) writes the row first, under the same locks.
DeployBegin(w, n, c) ==
    /\ Deployable(n)
    /\ Free(OperationKeys(n))
    /\ Begin(w, "pin", n, "ENTRY", OperationKeys(n))
    /\ Spend("deploy")
    /\ prior' = [prior EXCEPT ![w] = Existing(n)]
    /\ row' = [row EXCEPT ![n] = c]
    /\ ssh' = [ssh EXCEPT ![w]["ENTRY"] = addr[EntryOf[n]]]
    /\ known' = [known EXCEPT ![w]["ENTRY"] = hostId[EntryOf[n]]]
    /\ UNCHANGED <<node, snap, hosting, jobs, machines, saved, seen, abandoned>>

(***************************************************************************)
(* assertDeploymentOwner -> ensureHostIdentity.  Reading the machine's     *)
(* file, writing it, recording it in the row and reading the row again are *)
(* steps of their own: another server row may lead to the same machine,    *)
(* another handler may hold another machine for the same row.              *)
(***************************************************************************)

\* The owner is asserted.  A chain continues on its exit server, whose row is read now.
Asserted(w) ==
    LET x == ExitOf[tgt[w]]
    IN  IF role[w] = "ENTRY" /\ x # NoServer
        THEN /\ creds[x]
             /\ pc' = [pc EXCEPT ![w] = "pin"]
             /\ role' = [role EXCEPT ![w] = "EXIT"]
             /\ ssh' = [ssh EXCEPT ![w]["EXIT"] = addr[x]]
             /\ known' = [known EXCEPT ![w]["EXIT"] = hostId[x]]
        ELSE /\ pc' = [pc EXCEPT ![w] = "install"]
             /\ UNCHANGED <<role, ssh, known>>

\* The file is read: it must be the identity the row had, if it had one.
Pin(w) ==
    LET i == mark[Peer(w)]
    IN  /\ pc[w] = "pin"
        /\ SameHost(known[w][role[w]], i)
        /\ \/ /\ i = NoId
              /\ pc' = [pc EXCEPT ![w] = "propose"] /\ UNCHANGED <<role, ssh, known>>
           \/ /\ i # NoId /\ known[w][role[w]] = NoId
              /\ known' = [known EXCEPT ![w][role[w]] = i]
              /\ pc' = [pc EXCEPT ![w] = "record"] /\ UNCHANGED <<role, ssh>>
           \/ i # NoId /\ known[w][role[w]] = i /\ Asserted(w)
        /\ UNCHANGED <<rows, hosting, jobs, machines, tgt, held, saved, prior, seen, ghosts>>

\* randomUUID: an identity that nobody has.
InUse == {mark[h] : h \in Hosts} \cup {hostId[s] : s \in Servers}
           \cup {task[r].host : r \in Resources} \cup {known[w][x] : w \in Workers, x \in Roles}

\* "set -C": a file that came in between is kept.
Clobber(old, new) == new                                                 \* mutant
Keep(old, new) == IF old = NoId THEN new ELSE old

\* The file is written, and then read again.
Propose(w) ==
    /\ pc[w] = "propose"
    /\ \E i \in Identities \ InUse : mark' = [mark EXCEPT ![Peer(w)] = Keep(@, i)]
    /\ Goto(w, "pin")
    /\ UNCHANGED <<rows, hosting, jobs, remote, role, locals, ghosts>>

\* updateMany where remoteHostId is null.
Latest(recorded, i) == i                                                 \* mutant
FirstOnly(recorded, i) == IF recorded = NoId THEN i ELSE recorded

Record(w) ==
    LET s == ServerOf(Target(w))
    IN  /\ pc[w] = "record"
        /\ hostId' = IF status[s] = "gone" THEN hostId
                     ELSE [hostId EXCEPT ![s] = FirstOnly(@, known[w][role[w]])]
        /\ Goto(w, "confirm")
        /\ UNCHANGED <<rows, status, creds, addr, jobs, machines, role, locals, ghosts>>

\* findUniqueOrThrow: it must be the one of this handler.
Confirm(w) ==
    LET s == ServerOf(Target(w))
    IN  /\ pc[w] = "confirm"
        /\ status[s] # "gone" /\ hostId[s] = known[w][role[w]]
        /\ Asserted(w)
        /\ UNCHANGED <<rows, hosting, jobs, machines, tgt, held, saved, prior, seen, ghosts>>

\* prepareDeploymentRollback, then config and unit are written and started.
Install(w) ==
    LET r == Target(w)
    IN  /\ pc[w] = "install"
        /\ saved' = [saved EXCEPT ![w][role[w]] = remote[Peer(w)][r]]
        /\ Put(Peer(w), r, [config |-> row[tgt[w]], unit |-> TRUE,
                            manifest |-> remote[Peer(w)][r].manifest])
        /\ Goto(w, "register")
        /\ UNCHANGED <<rows, hosting, jobs, mark, role, ssh, known, prior, seen, ghosts>>

\* registerDeployment asks the machine again, now with the identity it found before, and
\* writes the manifest.  The exit comes first; the entry's
\* turn follows, and after it the outcome is recorded.
Register(w) ==
    LET r == Target(w)
    IN  /\ pc[w] = "register"
        /\ known[w][role[w]] = mark[Peer(w)]
        /\ Put(Peer(w), r, [config |-> remote[Peer(w)][r].config, unit |-> remote[Peer(w)][r].unit,
                            manifest |-> row[tgt[w]]])
        /\ IF role[w] = "EXIT"
           THEN Goto(w, "install") /\ role' = [role EXCEPT ![w] = "ENTRY"]
           ELSE Goto(w, "finalize") /\ UNCHANGED role
        /\ UNCHANGED <<rows, hosting, jobs, mark, locals, ghosts>>

\* A legacy update writes the row and returns; its deployment runs later, on its
\* own, or never.  (An update that deploys within the request is DeployBegin.)
Edit(n, c) ==
    /\ node[n] = "live"
    /\ c # row[n]
    /\ Free({NodeLock(n), Ports(EntryOf[n])})
    /\ Spend("deploy")
    /\ row' = [row EXCEPT ![n] = c]
    /\ UNCHANGED <<node, snap, hosting, jobs, machines, locals, procs, abandoned>>

\* finalize(true): the snapshot of the active configuration; rollback points go.
Finalize(w) ==
    /\ pc[w] = "finalize"
    /\ snap' = IF node[tgt[w]] = "live" THEN [snap EXCEPT ![tgt[w]] = row[tgt[w]]] ELSE snap
    /\ End(w)
    /\ UNCHANGED <<node, row, hosting, jobs, machines, ghosts>>

Touched(w) == {x \in Roles : saved[w][x] # Nobody}
Touches(w, h, r) ==
    NodeOf(r) = tgt[w] /\ RoleOf(r) \in Touched(w) /\ h = ssh[w][RoleOf(r)]

\* A restore that fails half way leaves some of the files as the deployment
\* wrote them: fields says which were put back.
Mixed(old, new, fields) ==
    [config   |-> IF "config" \in fields THEN old.config ELSE new.config,
     unit     |-> IF "unit" \in fields THEN old.unit ELSE new.unit,
     manifest |-> IF "manifest" \in fields THEN old.manifest ELSE new.manifest]

Files == {"config", "unit", "manifest"}

\* The catch block: every touched role goes back to its rollback point ...
Rollback(w) ==
    /\ pc[w] \in PinPCs \cup {"install", "register", "finalize"}
    /\ remote' = [h \in Hosts |-> [r \in Resources |->
                    IF Touches(w, h, r) THEN saved[w][RoleOf(r)] ELSE remote[h][r]]]
    /\ Goto(w, "settle")
    /\ UNCHANGED <<rows, hosting, jobs, mark, role, locals, ghosts>>

\* ... or a restore fails and the deployment is flagged rollbackFailed.
RollbackFails(w) ==
    /\ pc[w] \in PinPCs \cup {"install", "register", "finalize"}
    /\ Touched(w) # {}
    /\ Spend("fault")
    /\ \E back \in [Touched(w) -> SUBSET Files] :
         remote' = [h \in Hosts |-> [r \in Resources |->
                      IF Touches(w, h, r)
                      THEN Mixed(saved[w][RoleOf(r)], remote[h][r], back[RoleOf(r)])
                      ELSE remote[h][r]]]
    /\ Goto(w, "flagged")
    /\ UNCHANGED <<rows, hosting, jobs, mark, role, locals, abandoned>>

\* finalize(false) snapshots the configuration that failed (an empty one when
\* it failed before it was generated).  An update then puts the row back,
\* unless the rollback was flagged.
Settle(w) ==
    LET n == tgt[w]
    IN  /\ pc[w] \in {"settle", "flagged"}
        /\ IF node[n] = "live"
           THEN /\ \E c \in {row[n]} \cup (IF Touched(w) = {} THEN {NoConfig} ELSE {}) :
                     snap' = [snap EXCEPT ![n] = c]
                /\ row' = IF pc[w] = "settle" THEN [row EXCEPT ![n] = prior[w]] ELSE row
           ELSE UNCHANGED <<snap, row>>
        /\ End(w)
        /\ UNCHANGED <<node, hosting, jobs, machines, ghosts>>

-----------------------------------------------------------------------------
(* Removing one node *)

\* remove / undeployStream: the row is read under the locks.
UndeployBegin(w, n) ==
    /\ node[n] = "live"
    /\ creds[EntryOf[n]]
    /\ Free(OperationKeys(n))
    /\ Begin(w, "wipe", n, "ENTRY", OperationKeys(n))
    /\ ssh' = [ssh EXCEPT ![w]["ENTRY"] = addr[EntryOf[n]]]
    /\ UNCHANGED <<rows, hosting, jobs, machines, known, saved, prior, seen, ghosts>>

\* cleanupMainNodeRemote and cleanupChainExitRemote: unit and config go, the
\* manifest stays.  Neither asks the machine for its identity.
Wipe(w) ==
    LET r == Target(w)
        x == ExitOf[tgt[w]]
    IN  /\ pc[w] = "wipe"
        /\ Put(Peer(w), r, Stopped(Peer(w), r))
        /\ IF role[w] = "ENTRY" /\ x # NoServer
           THEN /\ creds[x]
                /\ role' = [role EXCEPT ![w] = "EXIT"]
                /\ ssh' = [ssh EXCEPT ![w]["EXIT"] = addr[x]]
                /\ UNCHANGED <<pc, tgt, held>>
           ELSE Goto(w, "drop") /\ UNCHANGED <<role, ssh>>
        /\ UNCHANGED <<rows, hosting, jobs, mark, known, saved, prior, seen, ghosts>>

\* A failure keeps the node's row.
UndeployFailsButDrops(w) ==                                              \* mutant
    /\ pc[w] = "wipe"
    /\ Goto(w, "drop")
    /\ UNCHANGED <<rows, hosting, jobs, machines, locals, role, ghosts>>
UndeployFails(w) ==
    /\ pc[w] = "wipe"
    /\ End(w)
    /\ UNCHANGED <<rows, hosting, jobs, machines, ghosts>>

\* node.delete, after every remote step succeeded.
Drop(w) ==
    LET n == tgt[w]
    IN  /\ pc[w] = "drop"
        /\ node' = [node EXCEPT ![n] = IF @ = "live" THEN "gone" ELSE @]
        /\ abandoned' = abandoned \cup
               {r \in ServicesOf(n) : ~SameHost(hostId[ServerOf(r)], mark[ssh[w][RoleOf(r)]])}
        /\ End(w)
        /\ UNCHANGED <<row, snap, hosting, jobs, machines, spent>>

-----------------------------------------------------------------------------
(* Deleting a server *)

\* queueServerDeletion reads the graph of nodes before it takes any lock.
QueueBegin(w, s) ==
    /\ status[s] # "gone"
    /\ Begin(w, "queue", s, "ENTRY", {})
    /\ seen' = [seen EXCEPT ![w] = LiveOn(s)]
    /\ UNCHANGED <<rows, hosting, jobs, machines, ssh, known, saved, prior, ghosts>>

\* The services of a node that get a job.
Targets(n) == ServicesOf(n)

\* One transaction saves every cleanup target and deletes the node rows.
QueueCommit(w) ==
    LET s == tgt[w]
        doomed == LiveOn(s)
        Queued(r) == [state |-> "PENDING", due |-> TRUE, host |-> hostId[ServerOf(r)],
                      expected |-> IF RoleOf(r) = "ENTRY" THEN snap[NodeOf(r)] ELSE row[NodeOf(r)],
                      by |-> s]
    IN  /\ pc[w] = "queue"
        /\ Free(GraphKeys(s, seen[w]))
        /\ status[s] # "gone"
        /\ doomed \subseteq seen[w]
        /\ task' = [r \in Resources |->
                      IF NodeOf(r) \in doomed /\ r \in Targets(NodeOf(r)) /\ task[r].state = "none"
                      THEN Queued(r) ELSE task[r]]
        /\ node' = [n \in Nodes |-> IF n \in doomed THEN "gone" ELSE node[n]]
        /\ status' = [status EXCEPT ![s] = "DELETING"]
        /\ End(w)
        /\ UNCHANGED <<row, snap, creds, hostId, addr, finding, machines, ghosts>>

\* The server or its graph changed in between, or a lock was not granted in time.
QueueRefused(w) ==
    LET s == tgt[w]
    IN  /\ pc[w] = "queue"
        /\ \/ ~Free(GraphKeys(s, seen[w]))
           \/ status[s] = "gone"
           \/ ~(LiveOn(s) \subseteq seen[w])
        /\ End(w)
        /\ UNCHANGED <<rows, hosting, jobs, machines, ghosts>>

-----------------------------------------------------------------------------
(* The cleanup worker *)

\* tick reads a due job ...
Pick(w, r) ==
    /\ Pollable(r)
    /\ Begin(w, "picked", r, RoleOf(r), {})
    /\ UNCHANGED <<rows, hosting, jobs, machines, locals, ghosts>>

\* The job as read under the locks.
DueAsPicked(r) == TRUE                                                   \* mutant
StillDue(r) == Pollable(r)

\* ... and reads it again under its locks: it must still be due.  The lease
\* (RUNNING, not due for five minutes) is saved before the remote work.
CleanupBegin(w) ==
    LET r == tgt[w]
    IN  /\ pc[w] = "picked"
        /\ Free(CleanupKeys(r))
        /\ StillDue(r)
        /\ TaskBecomes(r, "RUNNING", FALSE)
        /\ pc' = [pc EXCEPT ![w] = "prepare"]
        /\ held' = [held EXCEPT ![w] = CleanupKeys(r)]
        /\ UNCHANGED <<rows, hosting, finding, machines, locals, tgt, role, ghosts>>

\* Someone else did the job meanwhile, or still holds a lock after lock_timeout.
CleanupDeferred(w) ==
    LET r == tgt[w]
    IN  /\ pc[w] = "picked"
        /\ ~StillDue(r) \/ ~Free(CleanupKeys(r))
        /\ End(w)
        /\ UNCHANGED <<rows, hosting, jobs, machines, ghosts>>

\* prepareCleanup: may this job touch what it finds on machine h?
Recorded(r) == IF task[r].host # NoId THEN task[r].host ELSE hostId[ServerOf(r)]
AttributableByPath(r, h) == remote[h][r].unit => remote[h][r].config # NoConfig  \* mutant
Attributable(r, h) ==
    LET found == remote[h][r]
        installed == found.config # NoConfig
    IN  /\ installed /\ found.manifest = NoConfig
             => found.config = task[r].expected /\ found.unit
        /\ installed /\ found.manifest # NoConfig => found.manifest = found.config
        /\ found.unit => installed
\* A machine without an identity holds nothing of ours: services that are older than the
\* identities, which a job adopts (312-316), are not modelled.
Authorised(r) ==
    LET s == ServerOf(r)
    IN  /\ node[NodeOf(r)] # "live"
        /\ status[s] # "gone"
        /\ creds[s]
        /\ mark[addr[s]] # NoId /\ SameHost(Recorded(r), mark[addr[s]])
        /\ Attributable(r, addr[s])

Prepare(w) ==
    LET r == tgt[w]
        s == ServerOf(r)
        h == addr[s]
    IN  /\ pc[w] = "prepare"
        /\ Authorised(r)
        /\ task' = [task EXCEPT ![r] = [task[r] EXCEPT !.host = mark[h]]]
        /\ ssh' = [ssh EXCEPT ![w][role[w]] = h]
        /\ Goto(w, "remove")
        /\ UNCHANGED <<rows, hosting, finding, machines, role, known, saved, prior, seen, ghosts>>

\* Without attribution the job waits for its owner.
Block(w) ==
    LET r == tgt[w]
    IN  /\ pc[w] = "prepare"
        /\ ~Authorised(r)
        /\ TaskBecomes(r, "BLOCKED", FALSE)
        /\ End(w)
        /\ UNCHANGED <<rows, hosting, finding, machines, ghosts>>

\* Stop, disable, remove and verify; ports and firewall.
Remove(w) ==
    LET r == tgt[w]
    IN  /\ pc[w] = "remove"
        /\ Put(Peer(w), r, Stopped(Peer(w), r))
        /\ Goto(w, "unlist")
        /\ UNCHANGED <<rows, hosting, jobs, mark, role, locals, ghosts>>

\* Some manifest stays: the job failed to take its artifacts away.
UnlistForgotten(w) ==                                                    \* mutant
    /\ pc[w] = "unlist"
    /\ Goto(w, "done")
    /\ UNCHANGED <<rows, hosting, jobs, machines, role, locals, ghosts>>

\* The manifest and the certificate go last, so that a retry can still attribute.
Unlist(w) ==
    LET r == tgt[w]
    IN  /\ pc[w] = "unlist"
        /\ Put(Peer(w), r, [config |-> remote[Peer(w)][r].config, unit |-> remote[Peer(w)][r].unit,
                            manifest |-> NoConfig])
        /\ Goto(w, "done")
        /\ UNCHANGED <<rows, hosting, jobs, mark, role, locals, ghosts>>

Done(w) ==
    /\ pc[w] = "done"
    /\ TaskBecomes(tgt[w], "DONE", FALSE)
    /\ End(w)
    /\ UNCHANGED <<rows, hosting, finding, machines, ghosts>>

\* Any other error: back to PENDING, not due before the backoff has passed.
CleanupFails(w) ==
    /\ pc[w] \in CleanupPCs
    /\ Spend("fault")
    /\ TaskBecomes(tgt[w], "PENDING", FALSE)
    /\ End(w)
    /\ UNCHANGED <<rows, hosting, finding, machines, abandoned>>

\* A lease or a backoff runs out.
TimePasses(r) ==
    /\ task[r].state \in {"PENDING", "RUNNING"}
    /\ ~task[r].due
    /\ TaskBecomes(r, task[r].state, TRUE)
    /\ UNCHANGED <<rows, hosting, finding, machines, locals, procs, ghosts>>

\* The owner's retry: never a RUNNING or DONE job.
Retry(r) ==
    /\ task[r].state \in {"PENDING", "BLOCKED"}
    /\ TaskBecomes(r, "PENDING", TRUE)
    /\ UNCHANGED <<rows, hosting, finding, machines, locals, procs, ghosts>>

-----------------------------------------------------------------------------
(* Inventories and the end of a server *)

\* Jobs that hold back the end of a server: on its machine, or queued by it.
QueuedOnly(s) == {r \in Resources : Open(r) /\ task[r].by = s}            \* mutant
EveryJob(s) == {r \in Resources : task[r].state # "none" /\ ServerOf(r) = s} \* mutant
Outstanding(s) == {r \in Resources : Open(r) /\ (ServerOf(r) = s \/ task[r].by = s)}

\* finishRetiredServers: no open task, no node row.
FinalBegin(w, s) ==
    /\ status[s] = "DELETING"
    /\ Free({Core(s), Ports(s)})
    /\ Outstanding(s) = {}
    /\ LiveOn(s) = {}
    /\ Begin(w, "finalList", s, "ENTRY", {Core(s), Ports(s)})
    /\ UNCHANGED <<rows, hosting, jobs, machines, locals, ghosts>>

\* scan: the scheduler's, the owner's, or a port check's inventory, without locks.
ScanBegin(w, s) ==
    /\ status[s] # "gone"
    /\ Begin(w, "scanList", s, "ENTRY", {})
    /\ Spend("scan")
    /\ UNCHANGED <<rows, hosting, jobs, machines, locals, abandoned>>

\* listManagedServices on the identified machine.
List(w) ==
    LET s == tgt[w]
    IN  /\ pc[w] \in {"scanList", "finalList"}
        /\ creds[s]
        /\ SameHost(hostId[s], mark[addr[s]])
        /\ seen' = [seen EXCEPT ![w] = UnitsOn(addr[s])]
        /\ Goto(w, IF pc[w] = "scanList" THEN "scanObserve" ELSE "finalObserve")
        /\ UNCHANGED <<rows, hosting, jobs, machines, role, ssh, known, saved, prior, ghosts>>

\* observeServices(complete): the unknown services become the findings, and
\* findings about anything else are resolved.
Observe(w) ==
    LET s == tgt[w]
    IN  /\ pc[w] \in {"scanObserve", "finalObserve"}
        /\ finding' = [finding EXCEPT ![s] = seen[w] \ Expected(s)]
        /\ IF pc[w] = "finalObserve" THEN Goto(w, "finalDecide") /\ UNCHANGED <<role, locals>>
                                     ELSE End(w)
        /\ UNCHANGED <<rows, hosting, task, machines, ghosts>>

\* No unresolved finding: the row and its credentials go.
Retire(w) ==
    LET s == tgt[w]
    IN  /\ pc[w] = "finalDecide"
        /\ finding[s] = {}
        /\ status' = [status EXCEPT ![s] = IF @ = "DELETING" THEN "gone" ELSE @]
        /\ End(w)
        /\ UNCHANGED <<rows, creds, hostId, addr, jobs, machines, ghosts>>

\* The machine cannot be listed, or something unknown runs there: deleteError.
InventoryFails(w) ==
    /\ \/ pc[w] \in {"scanList", "finalList"}
       \/ pc[w] = "finalDecide" /\ finding[tgt[w]] # {}
    /\ End(w)
    /\ UNCHANGED <<rows, hosting, jobs, machines, ghosts>>

\* An agent reports some of the chain exits running on its machine.
Heartbeat(s, reported) ==
    /\ status[s] # "gone"
    /\ reported # {}
    /\ reported \subseteq {r \in UnitsOn(addr[s]) : RoleOf(r) = "EXIT"}
    /\ finding' = [finding EXCEPT ![s] = @ \cup (reported \ Expected(s))]
    /\ Spend("beat")
    /\ UNCHANGED <<rows, hosting, task, machines, locals, procs, abandoned>>

-----------------------------------------------------------------------------
(* Requests that take no lock, and failures *)

\* update with another ip: refused for servers of a chain.
Move(s, h) ==
    /\ status[s] # "gone"
    /\ h # addr[s]
    /\ \A n \in LiveOn(s) : ExitOf[n] = NoServer
    /\ Spend("move")
    /\ addr' = [addr EXCEPT ![s] = h]
    /\ UNCHANGED <<rows, status, creds, hostId, jobs, machines, locals, procs, abandoned>>

DestroyCredentials(s) ==
    /\ status[s] # "gone" /\ creds[s]
    /\ Spend("erase")
    /\ creds' = [creds EXCEPT ![s] = FALSE]
    /\ UNCHANGED <<rows, status, hostId, addr, jobs, machines, locals, procs, abandoned>>

RestoreCredentials(s) ==
    /\ status[s] # "gone" /\ ~creds[s]
    /\ creds' = [creds EXCEPT ![s] = TRUE]
    /\ UNCHANGED <<rows, status, hostId, addr, jobs, machines, locals, procs, ghosts>>

\* A handler dies with its process; PostgreSQL drops its session locks.
Crash(w) ==
    /\ pc[w] # "idle"
    /\ Spend("fault")
    /\ End(w)
    /\ UNCHANGED <<rows, hosting, jobs, machines, abandoned>>

\* The lock connection breaks.  The work is not interrupted: only its result
\* is turned into AdvisoryLockLostError when it ends.
LoseSession(w) ==
    /\ held[w] # {}
    /\ Spend("lost")
    /\ held' = [held EXCEPT ![w] = {}]
    /\ UNCHANGED <<rows, hosting, jobs, machines, locals, pc, tgt, role, abandoned>>

-----------------------------------------------------------------------------
\* Another panel may have marked a machine; no two machines have the same identity.
MarksApart == \A g, h \in Hosts : mark[g] = mark[h] /\ mark[g] # NoId => g = h

Init ==
    /\ node = [n \in Nodes |-> "unborn"]
    /\ row \in [Nodes -> Configs]
    /\ snap = [n \in Nodes |-> NoConfig]
    /\ status = [s \in Servers |-> "ok"]
    /\ creds = [s \in Servers |-> TRUE]
    /\ hostId = [s \in Servers |-> NoId]
    /\ addr \in [Servers -> Hosts]
    /\ task = [r \in Resources |-> NoTask]
    /\ finding = [s \in Servers |-> {}]
    /\ mark \in [Hosts -> Identities \cup {NoId}] /\ MarksApart
    /\ remote = [h \in Hosts |-> [r \in Resources |-> Nothing]]
    /\ pc = [w \in Workers |-> "idle"]
    /\ tgt = [w \in Workers |-> Nobody]
    /\ role = [w \in Workers |-> "ENTRY"]
    /\ held = [w \in Workers |-> {}]
    /\ ssh = [w \in Workers |-> NoPeers]
    /\ known = [w \in Workers |-> NoneKnown]
    /\ saved = [w \in Workers |-> NoSaves]
    /\ prior = [w \in Workers |-> NoConfig]
    /\ seen = [w \in Workers |-> {}]
    /\ abandoned = {}
    /\ spent = [k \in Disturbances |-> 0]

Proceed(w) ==
    \/ CreateInsert(w) \/ CreateRefused(w) \/ Provisioned(w)
    \/ Pin(w) \/ Propose(w) \/ Record(w) \/ Confirm(w)
    \/ Install(w) \/ Register(w) \/ Finalize(w) \/ Rollback(w) \/ Settle(w)
    \/ Wipe(w) \/ UndeployFails(w) \/ Drop(w)
    \/ QueueCommit(w) \/ QueueRefused(w)
    \/ CleanupBegin(w) \/ CleanupDeferred(w) \/ Prepare(w) \/ Block(w)
    \/ Remove(w) \/ Unlist(w) \/ Done(w)
    \/ List(w) \/ Observe(w) \/ Retire(w) \/ InventoryFails(w)

Disturb(w) ==
    \/ Compensate(w) \/ RollbackFails(w) \/ CleanupFails(w) \/ Crash(w) \/ LoseSession(w)

Request(w) ==
    \/ \E n \in Nodes : CreateBegin(w, n) \/ UndeployBegin(w, n)
                          \/ \E c \in Configs : DeployBegin(w, n, c)
    \/ \E s \in Servers : QueueBegin(w, s) \/ ScanBegin(w, s)

Unlocked ==
    \/ \E r \in Resources : Retry(r)
    \/ \E n \in Nodes, c \in Configs : Edit(n, c)
    \/ \E s \in Servers : \/ DestroyCredentials(s) \/ RestoreCredentials(s)
                          \/ \E h \in Hosts : Move(s, h)
                          \/ \E reported \in SUBSET Resources : Heartbeat(s, reported)

Next ==
    \/ \E w \in Workers : Proceed(w) \/ Disturb(w) \/ Request(w)
    \/ \E w \in Workers : \/ \E r \in Resources : Pick(w, r)
                          \/ \E s \in Servers : FinalBegin(w, s)
    \/ \E r \in Resources : TimePasses(r)
    \/ Unlocked

Spec == Init /\ [][Next]_vars

\* A handler that can go on goes on.  The cleanup tick runs every 30 s whatever
\* the requests do, so a job or a deletion that is due again and again is
\* reached in the end; leases and backoffs run out; and a machine that keeps
\* being asked for its services answers at last.
Fairness ==
    /\ \A w \in Workers : WF_vars(Proceed(w)) /\ SF_vars(List(w))
    /\ \A r \in Resources : /\ SF_vars(\E w \in Workers : Pick(w, r))
                            /\ WF_vars(TimePasses(r))
    /\ \A s \in Servers : SF_vars(\E w \in Workers : FinalBegin(w, s))
FairSpec == Spec /\ Fairness

-----------------------------------------------------------------------------
(* Properties *)

RowTypes ==
    /\ node \in [Nodes -> {"unborn", "live", "gone"}]
    /\ row \in [Nodes -> Configs]
    /\ snap \in [Nodes -> Configs \cup {NoConfig}]
HostingTypes ==
    /\ status \in [Servers -> {"ok", "DELETING", "gone"}]
    /\ creds \in [Servers -> BOOLEAN]
    /\ hostId \in [Servers -> Identities \cup {NoId}]
    /\ addr \in [Servers -> Hosts]
JobTypes ==
    /\ task \in [Resources -> Task]
    /\ finding \in [Servers -> SUBSET Resources]
MachineTypes ==
    /\ mark \in [Hosts -> Identities \cup {NoId}]
    /\ remote \in [Hosts -> [Resources -> Artifact]]
HandlerTypes ==
    /\ pc \in [Workers -> PCs]
    /\ tgt \in [Workers -> Nodes \cup Servers \cup Resources \cup {Nobody}]
    /\ role \in [Workers -> Roles]
    /\ held \in [Workers -> SUBSET Keys]
    /\ ssh \in [Workers -> [Roles -> Hosts \cup {NoHost}]]
    /\ known \in [Workers -> [Roles -> Identities \cup {NoId}]]
    /\ saved \in [Workers -> [Roles -> Artifact \cup {Nobody}]]
    /\ prior \in [Workers -> Configs \cup {NoConfig}]
    /\ seen \in [Workers -> SUBSET (Nodes \cup Resources)]
GhostTypes ==
    /\ abandoned \subseteq Resources
    /\ spent \in [Disturbances -> Nat]

\* Every variable holds a value of its kind.
TypeOK ==
    RowTypes /\ HostingTypes /\ JobTypes /\ MachineTypes /\ HandlerTypes /\ GhostTypes

\* No lock session was lost so far.
Fenced == spent["lost"] = 0

\* A service left on a machine always has an owner in the database: a live node
\* row or an unfinished cleanup job.  Crashes, failed rollbacks and a deletion
\* between any two steps included; the two ways in which the code drops a row
\* without looking at the right machine (Compensate, and Drop after a move) are
\* accounted for by abandoned.
NoOrphan ==
    Fenced => \A h \in Hosts, r \in Resources :
        remote[h][r].unit => r \in abandoned \/ node[NodeOf(r)] = "live" \/ Open(r)

\* As long as a service with an owner runs somewhere, the row with the SSH
\* credentials of its server exists: finishRetiredServers never comes too early.
CredentialsRetained ==
    Fenced => \A h \in Hosts, r \in Resources :
        remote[h][r].unit /\ r \notin abandoned => status[ServerOf(r)] # "gone"

\* The services of a server, and what they leave behind, are on the machine that carries
\* the identity in its row, and on no other, although an IP change can redirect the
\* connections of handlers and several handlers may mark one machine at the same time.
PinnedArtifacts ==
    /\ MarksApart
    /\ \A h \in Hosts, r \in Resources :
          remote[h][r] # Nothing => mark[h] # NoId /\ hostId[ServerOf(r)] = mark[h]

\* A job that reports DONE left nothing of its service on any machine.
DoneIsClean ==
    Fenced => \A h \in Hosts, r \in Resources : task[r].state = "DONE" => remote[h][r] = Nothing

\* Once a machine's identity is recorded for a server it is never replaced, by a handler
\* that read the row before it was recorded, for another machine or without locks, either.
HostPinned ==
    [][\A s \in Servers : hostId[s] # NoId => hostId'[s] = hostId[s]]_vars

\* A finished job is never run, blocked or queued again, by a stale tick, a retry
\* or a second deletion that shares its node.
DoneIsFinal ==
    [][Fenced => \A r \in Resources : task[r].state = "DONE" => task'[r] = task[r]]_vars

\* A cleanup takes away only what it could attribute: no row asks for the service,
\* and the configuration is the one the manifest or the snapshot names, still so
\* when the unit is removed and not only when it was inspected.
ApprovedRemoval ==
    [][Fenced => \A w \in Workers : pc[w] = "remove" /\ pc'[w] = "unlist" =>
         LET r == tgt[w]
             found == remote[Peer(w)][r]
         IN  /\ node[NodeOf(r)] # "live"
             /\ found.config \in {NoConfig, found.manifest, task[r].expected}]_vars

\* Every job that is waiting or running ends: DONE, or BLOCKED for its owner,
\* whatever worker dies while it holds the lease.
JobsSettle ==
    \A r \in Resources :
        task[r].state \in {"PENDING", "RUNNING"} ~> task[r].state \in {"BLOCKED", "DONE"}

\* What a deletion may wait for: an owner's decision about a job or a finding,
\* or credentials and an address that lead to the machine again.
NeedsOwner(s) ==
    \/ \E r \in Resources : task[r].state = "BLOCKED" /\ s \in {ServerOf(r), task[r].by}
    \/ finding[s] # {}
    \/ ~creds[s]
    \/ ~SameHost(hostId[s], mark[addr[s]])

\* The deletion of a server ends with its row gone unless its owner is needed.
DeletionEnds ==
    \A s \in Servers : status[s] = "DELETING" ~> (status[s] = "gone" \/ NeedsOwner(s))

\* RUNBOOK-resource-lifecycle.md:17 and the comment in finishRetiredServers: the
\* credentials of a server go only after an inventory that found nothing.
FinalInventory ==
    \A s \in Servers, h \in Hosts, r \in Resources :
       status[s] = "gone" /\ ServerOf(r) = s => ~remote[h][r].unit

\* RUNBOOK-resource-lifecycle.md:26: the recorded identity pins the host for every
\* later operation, the removal of a single node included.
PinnedOperations ==
    \A w \in Workers : pc[w] = "drop" =>
       \A r \in ServicesOf(tgt[w]) : SameHost(hostId[ServerOf(r)], mark[ssh[w][RoleOf(r)]])

\* resource-cleanup.scheduler.ts:32: the advisory lock fences live workers.
OneWorkerPerJob ==
    \A w, v \in Workers :
       w # v /\ pc[w] \in CleanupPCs /\ pc[v] \in CleanupPCs => tgt[w] # tgt[v]
=============================================================================
