---------------------------- MODULE UsageCredentials ----------------------------
(***************************************************************************)
(* Per-grant credentials of one observed node: a subscription download     *)
(* creates and publishes them (decorate), the provisioner brings the       *)
(* node's configuration file, its ownership manifest and the running core  *)
(* in line with the database step by step over SSH (sync), deployments     *)
(* rewrite the file from the database, and rotated grants are revoked.     *)
(* Every remote step may fail, and its answer may be lost.                 *)
(***************************************************************************)
EXTENDS Naturals, FiniteSets

CONSTANTS
    Grants,      \* versions of subscription and share tokens, one candidate each
    Ids,         \* identities that can be created (bound)
    Limit,       \* USAGE_LIMIT
    MaxFaults,   \* bound: failed steps, lost answers, crashes
    Nothing

ASSUME CredentialAssumption ==
    /\ Limit \in Nat \ {0} /\ MaxFaults \in Nat
    /\ Nothing \notin Grants

VARIABLES
    grant,     \* identity -> the grant it was created for, or Nothing
    lookup,    \* identities that decorate finds by (grant version, candidate key)
    installed, revoked, removed,   \* the timestamps of UsageCredential that are set
    prepared,  \* UsageNode.preparedAt is set
    valid,     \* grants that are still current
    file,      \* the configuration file: its usage identities and whether it is prepared
    manifest,  \* the configuration that the ownership manifest vouches for
    runtime,   \* usage identities of the running core
    sync,      \* the reconciliation under way; it holds the core, node and usage locks
    download,  \* per grant, the download inside decorate; it holds the usage lock
    exported,  \* identities that some client has been given (history)
    faults

rows == <<grant, lookup, installed, revoked, removed, prepared>>
remote == <<file, manifest, runtime>>
vars == <<rows, valid, remote, sync, download, exported, faults>>

NoSync == [at |-> "idle", may |-> FALSE, want |-> {}, gone |-> {}, before |-> Nothing,
           restart |-> FALSE, written |-> FALSE, owned |-> FALSE]
NoDownload == [g \in Grants |-> "none"]

Created == {i \in Ids : grant[i] # Nothing}
Config(ids, ready) == [users |-> ids, ready |-> ready]
Configs == [users : SUBSET Ids, ready : BOOLEAN]

TypeOK ==
    /\ grant \in [Ids -> Grants \cup {Nothing}]
    /\ lookup \subseteq Created /\ installed \subseteq Created
    /\ revoked \subseteq Created /\ removed \subseteq revoked
    /\ prepared \in BOOLEAN /\ valid \subseteq Grants
    /\ file \in Configs /\ manifest \in Configs /\ runtime \subseteq Ids
    /\ sync \in [at : {"idle", "read", "write", "register", "apply", "remove", "verify", "undo"},
                 may : BOOLEAN, want : SUBSET Ids, gone : SUBSET Ids,
                 before : Configs \cup {Nothing}, restart : BOOLEAN, written : BOOLEAN, owned : BOOLEAN]
    /\ download \in [Grants -> {"none", "room", "full"}]
    /\ exported \subseteq Ids /\ faults \in 0 .. MaxFaults

Init ==
    /\ grant = [i \in Ids |-> Nothing]
    /\ lookup = {} /\ installed = {} /\ revoked = {} /\ removed = {} /\ prepared = FALSE
    /\ valid = Grants
    /\ file = Config({}, FALSE) /\ manifest = file /\ runtime = {}
    /\ sync = NoSync /\ download = NoDownload /\ exported = {} /\ faults = 0

Fault == faults < MaxFaults /\ faults' = faults + 1

-----------------------------------------------------------------------------
(* Downloads: decorate, under the node's usage lock. *)

\* The token is rotated, the share removed, the node taken out of the subscription.
Rotate(g) ==
    /\ g \in valid
    /\ valid' = valid \ {g}
    /\ UNCHANGED <<rows, remote, sync, download, exported, faults>>

\* nextpanel:usage:<node>, which decorate and sync hold.
UsageLockFree == sync = NoSync /\ download = NoDownload

Full == Cardinality(Created \ removed) >= Limit

\* The token was valid when the download began; the count is read under the lock.
DownloadBegin(g) ==
    /\ UsageLockFree
    /\ download[g] = "none"
    /\ download' = [download EXCEPT ![g] = IF Full THEN "full" ELSE "room"]
    /\ UNCHANGED <<rows, valid, remote, sync, exported, faults>>

Found(g) == {i \in lookup : grant[i] = g}

\* An identity that is missing or revoked is replaced, unless the node is full; the
\* revoked one keeps its row and loses its lookup key.
Create(g) ==
    /\ download[g] # "none"
    /\ Found(g) \subseteq revoked
    /\ \/ /\ download[g] = "full" \/ Created = Ids
          /\ UNCHANGED <<grant, lookup>>
       \/ /\ download[g] = "room"
          /\ \E i \in Ids \ Created :
                /\ grant' = [grant EXCEPT ![i] = g]
                /\ lookup' = (lookup \ Found(g)) \cup {i}
    /\ download' = [download EXCEPT ![g] = "none"]
    /\ UNCHANGED <<installed, revoked, removed, prepared, valid, remote, sync, exported, faults>>

WhenCreated(i) == TRUE                                                      \* mutant
\* The node is prepared and the identity verified on it; otherwise the client gets the
\* shared credential.
Usable(i) == prepared /\ i \in installed

Publish(g) ==
    /\ download[g] # "none"
    /\ \E i \in Found(g) \ revoked :
        exported' = IF Usable(i) THEN exported \cup {i} ELSE exported
    /\ download' = [download EXCEPT ![g] = "none"]
    /\ UNCHANGED <<rows, valid, remote, sync, faults>>

-----------------------------------------------------------------------------
(* Reconciliation: sync. *)

Invalid == {i \in Created : grant[i] \notin valid}

\* Of the revoked identities, those that a reconciliation still has to take out.
Outstanding(ids) == ids \ removed

\* revokeInvalidGrants, then the identities that should and should not be there.
SyncBegin(may) ==
    /\ UsageLockFree
    /\ may \/ prepared
    /\ revoked' = revoked \cup Invalid
    /\ sync' = [NoSync EXCEPT !.at = "read", !.may = may, !.want = Created \ revoked',
                              !.gone = Outstanding(revoked')]
    /\ UNCHANGED <<grant, lookup, installed, removed, prepared, valid, remote, download, exported, faults>>

\* assertUnchangedDeployment and usageConfig: drift ends it; a file without the
\* statistics policy needs a restart, which only an operator may order.
ReadConfig ==
    /\ sync.at = "read"
    /\ IF file # manifest \/ (~file.ready /\ ~sync.may)
       THEN /\ sync' = NoSync
            /\ prepared' = (prepared /\ file # manifest)
       ELSE /\ sync' = [sync EXCEPT !.at = "write", !.before = file, !.restart = ~file.ready]
            /\ UNCHANGED prepared
    /\ UNCHANGED <<grant, lookup, installed, revoked, removed, valid, remote, download, exported, faults>>

Activate ==
    /\ sync.at = "write"
    /\ file' = Config(sync.want, TRUE)
    /\ sync' = IF file' = sync.before THEN [sync EXCEPT !.at = "apply"]
               ELSE [sync EXCEPT !.at = "register", !.written = TRUE]
    /\ UNCHANGED <<rows, valid, manifest, runtime, download, exported, faults>>

Register ==
    /\ sync.at = "register"
    /\ manifest' = file
    /\ sync' = [sync EXCEPT !.at = "apply", !.owned = TRUE]
    /\ UNCHANGED <<rows, valid, file, runtime, download, exported, faults>>

\* A restart, or api adu for what is missing and then api rmu for the rest.
Apply ==
    /\ sync.at = "apply"
    /\ runtime' = IF sync.restart THEN file.users ELSE runtime \cup sync.want
    /\ sync' = [sync EXCEPT !.at = IF sync.restart THEN "verify" ELSE "remove"]
    /\ UNCHANGED <<rows, valid, file, manifest, download, exported, faults>>

RemoveUsers ==
    /\ sync.at = "remove"
    /\ runtime' = runtime \cap sync.want
    /\ sync' = [sync EXCEPT !.at = "verify"]
    /\ UNCHANGED <<rows, valid, file, manifest, download, exported, faults>>

\* The core's users are read again, and one transaction records what was seen.
Commit ==
    /\ sync.at = "verify"
    /\ sync.want \subseteq runtime /\ sync.gone \cap runtime = {}
    /\ installed' = installed \cup sync.want
    /\ removed' = removed \cup sync.gone
    /\ prepared' = TRUE
    /\ sync' = NoSync
    /\ UNCHANGED <<grant, lookup, revoked, valid, remote, download, exported, faults>>

\* A remote step fails, with or without having had its effect.
StepFails ==
    /\ Fault
    /\ sync.at \notin {"idle", "undo"}
    /\ \/ UNCHANGED remote
       \/ sync.at = "write" /\ file' = Config(sync.want, TRUE) /\ UNCHANGED <<manifest, runtime>>
       \/ sync.at = "register" /\ manifest' = file /\ UNCHANGED <<file, runtime>>
       \/ sync.at = "apply" /\ runtime' = file.users \cup (IF sync.restart THEN {} ELSE runtime)
                            /\ UNCHANGED <<file, manifest>>
       \/ sync.at = "remove" /\ runtime' = runtime \cap sync.want /\ UNCHANGED <<file, manifest>>
    /\ sync' = [sync EXCEPT !.at = "undo"]
    /\ UNCHANGED <<rows, valid, download, exported>>

\* The core answers, and its users are not the expected ones.
VerificationFails ==
    /\ sync.at = "verify"
    /\ ~(sync.want \subseteq runtime /\ sync.gone \cap runtime = {})
    /\ sync' = [sync EXCEPT !.at = "undo"]
    /\ UNCHANGED <<rows, valid, remote, download, exported, faults>>

\* A partial hot change keeps the new file for the next attempt; a restart, and a file
\* that nothing vouches for, are taken back.
TakesBack == sync.written /\ (sync.restart \/ ~sync.owned)

Undo ==
    /\ sync.at = "undo"
    /\ IF TakesBack
       THEN \/ /\ file' = sync.before
               /\ manifest' = IF sync.owned THEN sync.before ELSE manifest
               /\ runtime' = IF sync.restart THEN sync.before.users ELSE runtime
               /\ UNCHANGED <<prepared, faults>>
            \/ /\ Fault
               /\ prepared' = FALSE
               /\ file' \in {file, sync.before} /\ UNCHANGED manifest
               /\ runtime' \in {runtime, file'.users}
       ELSE UNCHANGED <<remote, prepared, faults>>
    /\ sync' = NoSync
    /\ UNCHANGED <<grant, lookup, installed, revoked, removed, valid, download, exported>>

-----------------------------------------------------------------------------
(* The node's other life. *)

\* deployExclusive gives a prepared node its identities that are not revoked.
UsageUsers == IF prepared THEN Created \ revoked ELSE {}

\* A deployment excludes sync, not decorate; one that is cut short leaves the manifest.
Redeploy ==
    /\ sync = NoSync
    /\ file' = Config(UsageUsers, prepared)
    /\ runtime' = file'.users
    /\ \/ manifest' = file' /\ UNCHANGED faults
       \/ Fault /\ UNCHANGED manifest
    /\ UNCHANGED <<rows, valid, sync, download, exported>>

\* The core comes back with what its file says.
CoreRestart ==
    /\ runtime # file.users
    /\ runtime' = file.users
    /\ UNCHANGED <<rows, valid, file, manifest, sync, download, exported, faults>>

PanelCrash ==
    /\ Fault
    /\ sync # NoSync \/ download # NoDownload
    /\ sync' = NoSync /\ download' = NoDownload
    /\ UNCHANGED <<rows, valid, remote, exported>>

-----------------------------------------------------------------------------
Syncing == ReadConfig \/ Activate \/ Register \/ Apply \/ RemoveUsers \/ Commit \/ VerificationFails \/ Undo
Downloading == \E g \in Grants : Create(g) \/ Publish(g)

Next ==
    \/ Syncing \/ Downloading \/ StepFails \/ Redeploy \/ CoreRestart \/ PanelCrash
    \/ \E g \in Grants : Rotate(g) \/ DownloadBegin(g)
    \/ \E may \in BOOLEAN : SyncBegin(may)

Spec == Init /\ [][Next]_vars

-----------------------------------------------------------------------------
(* What a client was given works as long as nobody revoked it: it is in the  *)
(* file and in the running core at every step of every reconciliation,       *)
(* failed ones included, of deployments and core restarts ("A failed         *)
(* preparation never replaces a working CDN credential").                    *)
ExportedWorks == prepared => exported \ revoked \subseteq file.users \cap runtime

(* An identity is marked removed only when it is in neither, and it never    *)
(* comes back, whatever restores or rewrites the file.                       *)
RemovedIsGone == removed \cap (file.users \cup runtime) = {}

(* Downloads of two grants that count before either creates never take the   *)
(* node over its limit, past which sync cannot write the configuration.      *)
WithinLimit == Cardinality(Created \ removed) <= Limit

(* The three of them, with the types. *)
IdentitiesSafe == TypeOK /\ ExportedWorks /\ RemovedIsGone /\ WithinLimit

(* A revocation is carried out, unless the file has drifted from its         *)
(* manifest or the node is no longer prepared, which wait for the operator.  *)
Revoked(i) == i \in revoked
CarriedOut(i) == i \in removed \/ file # manifest \/ ~prepared
=============================================================================
