------------------------------- MODULE CoreUpgrade -------------------------------
(***************************************************************************)
(* The cores of one server.  The services of its nodes share one Xray      *)
(* binary; an XHTTP node upgrades it when it is too old, a REALITY node     *)
(* runs a reviewed version, from the shared path when that has it and from *)
(* a directory of its own otherwise.  The lock of the server serialises    *)
(* the deployments; systemd restarts a service whenever it ends.           *)
(* The sing-box binary is upgraded by the same steps, for TUIC and AnyTLS   *)
(* nodes; "Xhttp" stands for the nodes that need a minimum of their core.   *)
(***************************************************************************)
EXTENDS Naturals

CONSTANTS
    Plain, Xhttp, Reality,  \* the nodes of this server
    MaxFaults               \* bound: failed commands, panel crashes

CoreAssumption ==
    /\ Plain \cap Xhttp = {} /\ Plain \cap Reality = {} /\ Xhttp \cap Reality = {}
    /\ MaxFaults \in Nat

VARIABLES
    shared,    \* version at /usr/local/bin/xray
    isolated,  \* a reviewed core in a directory of its own
    backups,   \* versions kept aside by upgrades
    picky,     \* nodes whose configuration the latest version rejects
    bin,       \* node -> what its unit starts: "shared", "isolated", or nothing yet
    running,   \* node -> version of the running process, or "down"
    op,        \* the deployment that holds the server's lock: node, step, core, prior version
    reported,  \* an upgrade could not be taken back, and said so
    crashed,   \* the panel died in the middle of an upgrade
    faults

vars == <<shared, isolated, backups, picky, bin, running, op, reported, crashed, faults>>
host == <<shared, isolated, backups, picky>>

Nodes == Plain \cup Xhttp \cup Reality
Versions == {"none", "old", "reviewed", "latest"}
Idle == [node |-> "none", step |-> "idle", core |-> "none", prior |-> "none"]
Steps == {"core", "version", "backup", "install", "verify", "preflight", "restore", "start"}

\* The minimum of an XHTTP node is above the old version only.
Satisfies(v) == v \in {"reviewed", "latest"}
Accepts(n, v) == v # "none" /\ (v = "latest" => n \notin picky)
VersionAt(b) == CASE b = "shared" -> shared [] b = "isolated" -> "reviewed" [] OTHER -> "none"
VersionOf(n) == VersionAt(bin[n])

TypeOK ==
    /\ shared \in Versions /\ isolated \in BOOLEAN /\ backups \subseteq Versions \ {"none"}
    /\ picky \subseteq Plain
    /\ bin \in [Nodes -> {"none", "shared", "isolated"}]
    /\ running \in [Nodes -> Versions \cup {"down"}]
    /\ op \in {Idle} \cup [node : Nodes, step : Steps, core : {"none", "shared", "isolated"}, prior : Versions]
    /\ reported \in BOOLEAN /\ crashed \in BOOLEAN /\ faults \in 0 .. MaxFaults

Init ==
    /\ shared \in {"none", "old", "reviewed"} /\ isolated = FALSE /\ backups = {}
    /\ picky \in SUBSET Plain
    /\ bin = [n \in Nodes |-> "none"] /\ running = [n \in Nodes |-> "down"]
    /\ op = Idle /\ reported = FALSE /\ crashed = FALSE /\ faults = 0

Fault == faults < MaxFaults /\ faults' = faults + 1
Goto(step) == op' = [op EXCEPT !.step = step]
End == op' = Idle
Use(core) == op' = [op EXCEPT !.step = "start", !.core = core]
Rest == UNCHANGED <<isolated, picky, bin, running>>

-----------------------------------------------------------------------------
DeployBegin(n) ==
    /\ op = Idle
    /\ op' = [node |-> n, step |-> "core", core |-> "none", prior |-> "none"]
    /\ UNCHANGED <<host, bin, running, reported, crashed, faults>>

\* A REALITY node never touches the shared binary: it takes it when it is reviewed.
ReviewedCore ==
    /\ op.step = "core" /\ op.node \in Reality
    /\ \/ shared = "reviewed" /\ Use("shared") /\ UNCHANGED <<isolated, faults>>
       \/ shared # "reviewed" /\ isolated' = TRUE /\ Use("isolated") /\ UNCHANGED faults
       \/ Fault /\ End /\ UNCHANGED isolated
    /\ UNCHANGED <<shared, backups, picky, bin, running, reported, crashed>>

\* What an installer leaves: the latest release, whichever core it is of (Xray, V2Ray,
\* sing-box, shadowsocks-libev); the configurations of the units of that core run on it.
Installed == shared' = "latest"

\* A missing core is installed; nothing can have run from it.
Missing == shared = "none"

SharedCore ==
    /\ op.step = "core" /\ op.node \notin Reality
    /\ \/ ~Missing /\ Goto("version") /\ UNCHANGED <<shared, faults>>
       \/ Missing /\ Installed /\ Goto("version") /\ UNCHANGED faults
       \/ Missing /\ Fault /\ shared' \in {"none", "latest"} /\ End
    /\ UNCHANGED <<backups, reported, crashed>> /\ Rest

\* Only XHTTP has a minimum version.  A version that cannot be read is too old.
Version ==
    /\ op.step = "version"
    /\ \/ (op.node \in Plain \/ Satisfies(shared)) /\ Use("shared") /\ UNCHANGED faults
       \/ op.node \in Xhttp /\ ~Satisfies(shared) /\ Goto("backup") /\ UNCHANGED faults
       \/ op.node \in Xhttp /\ Fault /\ Goto("backup")
    /\ UNCHANGED <<shared, backups, reported, crashed>> /\ Rest

KeepOld == backups' = backups \cup {shared}

Backup ==
    /\ op.step = "backup"
    /\ \/ KeepOld /\ op' = [op EXCEPT !.step = "install", !.prior = shared] /\ UNCHANGED faults
       \/ Fault /\ End /\ UNCHANGED backups
    /\ UNCHANGED <<shared, reported, crashed>> /\ Rest

\* The archive is verified and started from a staging path, then moved over the binary.
Install ==
    /\ op.step = "install"
    /\ \/ Installed /\ Goto("verify") /\ UNCHANGED faults
       \/ Fault /\ shared' \in {shared, "latest"} /\ Goto("restore")
    /\ UNCHANGED <<backups, reported, crashed>> /\ Rest

Verify ==
    /\ op.step = "verify"
    /\ \/ Goto("preflight") /\ UNCHANGED faults
       \/ Fault /\ Goto("restore")
    /\ UNCHANGED <<shared, backups, reported, crashed>> /\ Rest

TakenOnTrust == TRUE                                                        \* mutant
\* Every unit that starts this binary is checked with it.
AllPass == \A n \in Nodes : bin[n] = "shared" => Accepts(n, shared)

Preflight ==
    /\ op.step = "preflight"
    /\ \/ /\ AllPass /\ Use("shared")
          /\ \/ backups' = backups \ {op.prior} /\ UNCHANGED faults
             \/ Fault /\ UNCHANGED backups
       \/ ~AllPass /\ Goto("restore") /\ UNCHANGED <<backups, faults>>
       \/ Fault /\ Goto("restore") /\ UNCHANGED backups
    /\ UNCHANGED <<shared, reported, crashed>> /\ Rest

\* One rename brings the old binary back.
PutBack == shared' = op.prior /\ backups' = backups \ {op.prior}

Restore ==
    /\ op.step = "restore" /\ End
    /\ \/ PutBack /\ UNCHANGED <<reported, faults>>
       \/ Fault /\ reported' = TRUE /\ UNCHANGED <<shared, backups>>
    /\ UNCHANGED crashed /\ Rest

\* The core validates the new configuration before the unit is replaced.
Start ==
    /\ op.step = "start" /\ End
    /\ \/ /\ Accepts(op.node, VersionAt(op.core))
          /\ bin' = [bin EXCEPT ![op.node] = op.core]
          /\ running' = [running EXCEPT ![op.node] = VersionAt(op.core)]
       \/ ~Accepts(op.node, VersionAt(op.core)) /\ UNCHANGED <<bin, running>>
    /\ UNCHANGED <<host, reported, crashed, faults>>

\* A service ends by itself, or with the host, and starts with what its unit names.
ServiceRestart(n) ==
    /\ bin[n] # "none" /\ running[n] \notin {VersionOf(n), "down"}
    /\ running' = [running EXCEPT ![n] = IF Accepts(n, VersionOf(n)) THEN VersionOf(n) ELSE "down"]
    /\ UNCHANGED <<host, bin, op, reported, crashed, faults>>

\* A command that was sent goes on without the panel.
PanelCrash ==
    /\ op # Idle /\ Fault /\ End
    /\ shared' \in {shared} \cup (IF op.step = "install" THEN {"latest"} ELSE {})
    /\ crashed' = (crashed \/ op.step \in {"install", "verify", "preflight", "restore"})
    /\ UNCHANGED <<backups, reported>> /\ Rest

Next ==
    \/ \E n \in Nodes : DeployBegin(n) \/ ServiceRestart(n)
    \/ ReviewedCore \/ SharedCore \/ Version \/ Backup \/ Install \/ Verify \/ Preflight
    \/ Restore \/ Start \/ PanelCrash

Spec == Init /\ [][Next]_vars

-----------------------------------------------------------------------------
(* Between deployments every service would start again with the core that    *)
(* its unit names: no upgrade leaves another node's configuration behind     *)
(* that the new core rejects, unless it said that it could not go back, or   *)
(* the panel died.                                                           *)
OthersStillStart ==
    op = Idle /\ ~reported /\ ~crashed =>
        \A n \in Nodes : bin[n] # "none" => Accepts(n, VersionOf(n))

(* Even then the core that a service was accepted by is on the host.         *)
Recoverable ==
    \A n \in Nodes : bin[n] = "shared" =>
        Accepts(n, shared) \/ \E v \in backups : Accepts(n, v)

=============================================================================
