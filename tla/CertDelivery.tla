------------------------------ MODULE CertDelivery ------------------------------
(***************************************************************************)
(* The wildcard certificate of one domain and the nodes that serve it:     *)
(* acme.sh renews the panel's pair, the daily scheduler and deployments    *)
(* copy it to the nodes file by file, and a node's service loads it when   *)
(* it is started.  A node without a managed one gets a self-signed pair    *)
(* instead, which is made in the same files, with no copy of the old one.  *)
(* Every remote command may fail after part of its effect, acme.sh may     *)
(* renew in the middle of a copy, and the panel may die.                   *)
(***************************************************************************)
EXTENDS Naturals

CONSTANTS
    Nodes,       \* nodes with TLS, each on a server of its own
    MaxPair,     \* pairs that are issued (bound)
    MaxFaults,   \* bound: failed commands, panel crashes
    Nothing

VARIABLES
    store,     \* the panel's pair in acme.sh's directory
    due,       \* it expires within 30 days
    managed,   \* node -> it gets the panel's pair: its transport and the user's settings allow it
    files,     \* node -> the pair in /etc/nextpanel/certs
    backup,    \* node -> the pairs kept in .rollback files
    loaded,    \* node -> the pair its service runs with, or Nothing when it is down
    enabled,   \* Node.enabled
    flagged,   \* nodes whose status was set to ERROR for an operator
    run,       \* nodes that the scheduler's run has still to visit
    job,       \* node -> the operation that holds the node's locks
    interrupted, \* nodes whose job died with the panel, or over a self-signed pair (history)
    faults

vars == <<store, due, managed, files, backup, loaded, enabled, flagged, run, job, interrupted, faults>>

Pairs == [cert : 0 .. MaxPair, key : 0 .. MaxPair]
\* What a node's files can hold: the last two numbers are self-signed pairs.
Held == [cert : 0 .. MaxPair + 2, key : 0 .. MaxPair + 2]
CertAssumption == MaxPair \in Nat /\ MaxFaults \in Nat /\ Nothing \notin Nat \cup Held

Pair(g) == [cert |-> g, key |-> g]
Matches(p) == p.cert = p.key
SelfSigned(g) == g > MaxPair
\* openssl once wrote a key and not its certificate.
HalfMade(n, p) == n \in interrupted /\ SelfSigned(p.key) /\ ~Matches(p)
NoJob == [kind |-> "none", at |-> "idle", staged |-> Pair(0), before |-> Nothing]

TypeOK ==
    /\ store \in Pairs /\ due \in BOOLEAN
    /\ managed \in [Nodes -> BOOLEAN]
    /\ files \in [Nodes -> Held] /\ backup \in [Nodes -> SUBSET Held]
    /\ loaded \in [Nodes -> 0 .. MaxPair + 2 \cup {Nothing}]
    /\ enabled \in [Nodes -> BOOLEAN] /\ flagged \subseteq Nodes /\ run \subseteq Nodes
    /\ job \in [Nodes -> [kind : {"none", "refresh", "deploy"},
                          at : {"idle", "generate", "cert", "key", "compare", "activate", "service", "revert", "undo"},
                          staged : Pairs, before : Held \cup {Nothing}]]
    /\ \A n \in Nodes : job[n].at \in {"activate", "revert"} => job[n].before \in backup[n]
    /\ interrupted \subseteq Nodes
    /\ faults \in 0 .. MaxFaults

Init ==
    /\ store = Pair(0) /\ due = FALSE /\ managed = [n \in Nodes |-> TRUE]
    /\ files = [n \in Nodes |-> Pair(0)] /\ backup = [n \in Nodes |-> {}] /\ interrupted = {}
    /\ loaded = [n \in Nodes |-> 0] /\ enabled = [n \in Nodes |-> TRUE]
    /\ flagged = {} /\ run = {} /\ job = [n \in Nodes |-> NoJob] /\ faults = 0

Fault == faults < MaxFaults /\ faults' = faults + 1
At(n, place) == job[n].at = place
Go(n, place) == job' = [job EXCEPT ![n].at = place]
Done(n) == job' = [job EXCEPT ![n] = NoJob]

\* The pair that the job found, which stays when it was already the current one.
Before(n) == IF job[n].before = Nothing THEN files[n] ELSE job[n].before
DropBackup(n) == backup' = [backup EXCEPT ![n] = @ \ {job[n].before}]

\* What the service runs with after a start: it refuses a certificate of another key.
Started(p) == IF Matches(p) THEN p.cert ELSE Nothing

-----------------------------------------------------------------------------
(* The panel's pair. *)

Age ==
    /\ ~due /\ Matches(store) /\ store.cert < MaxPair
    /\ due' = TRUE
    /\ UNCHANGED <<managed, store, files, backup, loaded, enabled, flagged, run, job, faults, interrupted>>

\* acme.sh, started by the scheduler, by a deployment or by its own cron entry, writes the
\* key first and the certificate when it was issued.
IssueKey ==
    /\ due /\ Matches(store)
    /\ store' = [store EXCEPT !.key = @ + 1]
    /\ UNCHANGED <<managed, due, files, backup, loaded, enabled, flagged, run, job, faults, interrupted>>

IssueCert ==
    /\ ~Matches(store)
    /\ store' = [store EXCEPT !.cert = store.key]
    /\ due' = FALSE
    /\ UNCHANGED <<managed, files, backup, loaded, enabled, flagged, run, job, faults, interrupted>>

-----------------------------------------------------------------------------
(* Jobs on a node: renewExpiredCerts -> refreshCert, and deploy. *)

\* Only nodes with a managed certificate are visited.
DailyRun ==
    /\ run = {}
    /\ run' = {n \in Nodes : managed[n]}
    /\ UNCHANGED <<managed, store, due, files, backup, loaded, enabled, flagged, job, faults, interrupted>>

\* A wildcard that cannot be renewed skips the node until the next run, and so do settings
\* that are gone; that its transport was changed meanwhile is not noticed.
RefreshBegin(n) ==
    /\ n \in run
    /\ \A other \in Nodes : job[other].kind # "refresh"
    /\ job[n] = NoJob
    /\ run' = run \ {n}
    /\ \/ (due \/ ~managed[n]) /\ UNCHANGED job
       \/ ~due /\ job' = [job EXCEPT ![n] = [NoJob EXCEPT !.kind = "refresh", !.at = "cert"]]
    /\ UNCHANGED <<managed, store, due, files, backup, loaded, enabled, flagged, faults, interrupted>>

DeployBegin(n) ==
    /\ job[n] = NoJob
    /\ \/ managed[n] /\ ~due /\ job' = [job EXCEPT ![n] = [NoJob EXCEPT !.kind = "deploy", !.at = "cert"]]
       \/ ~managed[n] /\ job' = [job EXCEPT ![n] = [NoJob EXCEPT !.kind = "deploy", !.at = "generate"]]
    /\ UNCHANGED <<managed, store, due, files, backup, loaded, enabled, flagged, run, faults, interrupted>>

CopyCert(n) ==
    /\ At(n, "cert")
    /\ job' = [job EXCEPT ![n].staged.cert = store.cert, ![n].at = "key"]
    /\ UNCHANGED <<managed, store, due, files, backup, loaded, enabled, flagged, run, faults, interrupted>>

CopyKey(n) ==
    /\ At(n, "key")
    /\ job' = [job EXCEPT ![n].staged.key = store.key, ![n].at = "compare"]
    /\ UNCHANGED <<managed, store, due, files, backup, loaded, enabled, flagged, run, faults, interrupted>>

\* The number of a self-signed pair that differs from the certificate at hand.
Fresh(n) == IF files[n].cert = MaxPair + 1 THEN MaxPair + 2 ELSE MaxPair + 1

\* generateSelfSignedCert: openssl writes the key and then the certificate over the old
\* ones; no copy is kept, so there is nothing that could be put back.
Generate(n) ==
    /\ At(n, "generate")
    /\ files' = [files EXCEPT ![n] = Pair(Fresh(n))]
    /\ Go(n, "service")
    /\ UNCHANGED <<managed, store, due, backup, loaded, enabled, flagged, run, faults, interrupted>>

\* The deployment ends before it touches the service.
GenerateFails(n) ==
    /\ At(n, "generate") /\ Fault
    /\ \E p \in {files[n], [files[n] EXCEPT !.key = Fresh(n)], Pair(Fresh(n))} :
        files' = [files EXCEPT ![n] = p]
    /\ interrupted' = interrupted \cup {n}
    /\ Done(n)
    /\ UNCHANGED <<managed, store, due, backup, loaded, enabled, flagged, run>>

NeverChecked(p) == TRUE                                                     \* mutant
\* certificatePairValidationCommand
Valid(p) == Matches(p)

Current(n) == job[n].staged = files[n]

KeepAside(n) == backup' = [backup EXCEPT ![n] = @ \cup {files[n]}]

\* A mismatched copy is refused; a current one ends a refresh; otherwise the old pair is
\* kept aside.
Compare(n) ==
    /\ At(n, "compare")
    /\ \/ ~Valid(job[n].staged) /\ Done(n) /\ UNCHANGED backup
       \/ /\ Valid(job[n].staged) /\ Current(n)
          /\ IF job[n].kind = "refresh" THEN Done(n) ELSE Go(n, "service")
          /\ UNCHANGED backup
       \/ /\ Valid(job[n].staged) /\ ~Current(n)
          /\ KeepAside(n)
          /\ job' = [job EXCEPT ![n].before = files[n], ![n].at = "activate"]
    /\ UNCHANGED <<managed, store, due, files, loaded, enabled, flagged, run, faults, interrupted>>

\* refreshCert leaves the service of a disabled node alone.
LeftAlone(n) == job[n].kind = "refresh" /\ ~enabled[n]

\* Two mv in one command, then the installed pair is checked.
Activate(n) ==
    /\ At(n, "activate")
    /\ files' = [files EXCEPT ![n] = job[n].staged]
    /\ IF LeftAlone(n)
       THEN Done(n) /\ DropBackup(n)
       ELSE Go(n, "service") /\ UNCHANGED backup
    /\ UNCHANGED <<managed, store, due, loaded, enabled, flagged, run, faults, interrupted>>

ActivationFails(n) ==
    /\ At(n, "activate") /\ Fault
    /\ \E p \in {files[n], [files[n] EXCEPT !.cert = job[n].staged.cert], job[n].staged} :
        files' = [files EXCEPT ![n] = p]
    /\ Go(n, "revert")
    /\ UNCHANGED <<managed, store, due, backup, loaded, enabled, flagged, run, interrupted>>

\* The pair is put back; the service was not touched.
Revert(n) ==
    /\ At(n, "revert")
    /\ files' = [files EXCEPT ![n] = job[n].before]
    /\ DropBackup(n)
    /\ Done(n)
    /\ UNCHANGED <<managed, store, due, loaded, enabled, flagged, run, faults, interrupted>>

\* systemctl restart and the health check; a deployment stops and starts the service.
Restart(n) ==
    /\ At(n, "service")
    /\ loaded' = [loaded EXCEPT ![n] = Started(files[n])]
    /\ IF loaded'[n] = Nothing
       THEN Go(n, "undo") /\ UNCHANGED backup
       ELSE Done(n) /\ DropBackup(n)
    /\ UNCHANGED <<managed, store, due, files, enabled, flagged, run, faults, interrupted>>

RestartFails(n) ==
    /\ At(n, "service") /\ Fault
    /\ \E l \in {loaded[n], Started(files[n]), Nothing} : loaded' = [loaded EXCEPT ![n] = l]
    /\ Go(n, "undo")
    /\ UNCHANGED <<managed, store, due, files, backup, enabled, flagged, run, interrupted>>

\* The pair is put back before the old service is started again.
Undo(n) ==
    /\ At(n, "undo")
    /\ files' = [files EXCEPT ![n] = Before(n)]
    /\ loaded' = [loaded EXCEPT ![n] = Started(files'[n])]
    /\ flagged' = IF loaded'[n] = Nothing THEN flagged \cup {n} ELSE flagged
    /\ DropBackup(n)
    /\ Done(n)
    /\ UNCHANGED <<managed, store, due, enabled, run, faults, interrupted>>

\* rollbackFailed: the node's status becomes ERROR, and the backups stay.
Flag(n) == flagged' = flagged \cup {n}

UndoFails(n) ==
    /\ job[n].at \in {"revert", "undo"} /\ Fault
    /\ files' = [files EXCEPT ![n].cert = Before(n).cert]
    /\ loaded' = IF At(n, "undo") THEN [loaded EXCEPT ![n] = Nothing] ELSE loaded
    /\ Flag(n)
    /\ Done(n)
    /\ UNCHANGED <<managed, store, due, backup, enabled, run, interrupted>>

-----------------------------------------------------------------------------
(* The rest of a node's life. *)

\* toggle: systemctl start does nothing to a service that runs.
Toggle(n) ==
    /\ job[n] = NoJob
    /\ enabled' = [enabled EXCEPT ![n] = ~@]
    /\ loaded' = [loaded EXCEPT ![n] = IF enabled[n] THEN Nothing
                                       ELSE IF @ = Nothing THEN Started(files[n]) ELSE @]
    /\ UNCHANGED <<managed, store, due, files, backup, flagged, run, job, faults, interrupted>>

\* An edit of the transport, or the user's Cloudflare settings come or go.
Switch(n) ==
    /\ managed' = [managed EXCEPT ![n] = ~@]
    /\ UNCHANGED <<store, due, files, backup, loaded, enabled, flagged, run, job, faults, interrupted>>

\* systemd starts a service that died, as often as it takes; with half a self-signed pair
\* it stays down.
CoreRestart(n) ==
    /\ loaded[n] # Nothing /\ (Matches(files[n]) \/ HalfMade(n, files[n]))
    /\ loaded' = [loaded EXCEPT ![n] = Started(files[n])]
    /\ UNCHANGED <<managed, store, due, files, backup, enabled, flagged, run, job, faults, interrupted>>

PanelCrash ==
    /\ Fault
    /\ \E n \in Nodes : job[n] # NoJob
    /\ interrupted' = interrupted \cup {n \in Nodes : job[n] # NoJob}
    /\ job' = [n \in Nodes |-> NoJob] /\ run' = {}
    /\ UNCHANGED <<managed, store, due, files, backup, loaded, enabled, flagged>>

-----------------------------------------------------------------------------
Step(n) ==
    Generate(n) \/ CopyCert(n) \/ CopyKey(n) \/ Compare(n) \/ Activate(n) \/ Revert(n) \/ Restart(n) \/ Undo(n)

Next ==
    \/ Age \/ IssueKey \/ IssueCert \/ DailyRun \/ PanelCrash
    \/ \E n \in Nodes :
        \/ RefreshBegin(n) \/ DeployBegin(n) \/ Step(n) \/ ActivationFails(n)
        \/ GenerateFails(n) \/ RestartFails(n) \/ UndoFails(n) \/ Toggle(n) \/ Switch(n) \/ CoreRestart(n)

Spec == Init /\ [][Next]_vars

-----------------------------------------------------------------------------
(* Delivery never leaves a certificate beside a key of another pair,         *)
(* although acme.sh may renew between the copies of the two, unless a job is *)
(* at the files, an operator was told, or the panel died and the backup is   *)
(* still there. A self-signed pair is made in place: when that breaks off,   *)
(* its key stays without a certificate until the next deployment.            *)
StartsAgain ==
    \A n \in Nodes :
        \/ Matches(files[n]) \/ HalfMade(n, files[n]) \/ n \in flagged
        \/ \E p \in backup[n] : Matches(p) \/ HalfMade(n, p)

(* A service is down only while its node is disabled, during a job, when an  *)
(* operator was told, or when the making of a self-signed pair had broken    *)
(* off: a failed delivery brings the old pair back before the old service.   *)
NeverDown ==
    \A n \in Nodes : loaded[n] = Nothing =>
        ~enabled[n] \/ job[n] # NoJob \/ n \in flagged \cup interrupted

(* A renewed pair reaches the files of every node that it is meant for,      *)
(* whatever failed before ("so a failed prior push is retried on every       *)
(* scheduler run"), also over a self-signed one.                             *)
Renewed(g) == store = Pair(g)
Arrived(n, g) == files[n] = Pair(g) \/ store.key # g \/ n \in flagged \/ ~managed[n]

=============================================================================
