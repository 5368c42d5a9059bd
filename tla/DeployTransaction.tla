---------------------------- MODULE DeployTransaction ----------------------------
(***************************************************************************)
(* One edit of a node, from update's row change to its reply: deploy       *)
(* replaces the certificate, the chain exit's service, manifest and        *)
(* firewall rule, the entry's service, firewall rules and manifest, one    *)
(* SSH command after the other, finalises the row and takes everything     *)
(* back when a step fails, but for a self-signed certificate.  Every       *)
(* command may fail and every answer may be lost; the undo may fail as     *)
(* well, and the lock session may be lost.                                 *)
(***************************************************************************)
EXTENDS Naturals, Sequences, SequencesExt

CONSTANTS
    MaxFaults,      \* bound: failed commands and lost answers
    Legacy          \* update does not wait for the deployment of a legacy node

DeployAssumption == MaxFaults \in Nat /\ Legacy \in BOOLEAN

VARIABLES
    uses,     \* the parts that this node has
    pair,     \* the self-signed pair that this edit makes in place of what was there
    value,    \* part -> what is on the hosts: the old one, the new one, a mixture
    saved,    \* parts whose old files are kept beside the new ones
    held,     \* parts that the running deployment knows how to take back
    lost,     \* parts whose command had its effect and no answer (history)
    at,       \* where the deployment is
    flagged,  \* rollbackFailed
    answer,   \* what deployExclusive came to, and what deploy said after unlocking
    said,
    status,   \* Node.status
    row,      \* the node's shape in the database
    dns,      \* the records of the old and of the new domain
    replied,  \* update has answered its request
    faults

vars == <<uses, pair, value, saved, held, lost, at, flagged, answer, said, status, row, dns, replied, faults>>
caller == <<row, dns, replied>>

Steps == <<"cert", "exit", "exitOwner", "exitWall", "entry", "wall", "owner">>
Parts == ToSet(Steps)
UndoOrder == <<"owner", "wall", "cert", "entry", "exitWall", "exitOwner", "exit">>
\* Files that a service runs with; the old ones are kept until the row is committed.
Files == {"cert", "exit", "entry"}
ChainParts == {"exit", "exitOwner", "exitWall"}

Precedes(order, p, q) == \E i, j \in DOMAIN order : i < j /\ order[i] = p /\ order[j] = q
First(order, set) == CHOOSE p \in set : \A q \in set \ {p} : Precedes(order, p, q)
After(p) ==
    LET rest == {q \in uses : Precedes(Steps, p, q)}
    IN  IF rest = {} THEN "finalize" ELSE First(Steps, rest)

TypeOK ==
    /\ uses \subseteq Parts /\ pair \in {"old", "new", "mixed"} /\ value \in [Parts -> {"old", "new", "mixed"}]
    /\ saved \subseteq Files \cap uses /\ held \subseteq uses /\ lost \subseteq uses
    /\ at \in Parts \cup {"generate", "finalize", "commit", "undo", "unlock", "done", "dead"}
    /\ flagged \in BOOLEAN
    /\ answer \in {"none", "ok", "failed", "flagged", "thrown", "rethrown"}
    /\ said \in {"none", "ok", "failed", "flagged", "thrown"}
    /\ status \in {"old", "RUNNING", "ERROR"} /\ row \in {"old", "new"}
    /\ dns \subseteq {"old", "new"} /\ replied \in BOOLEAN /\ faults \in 0 .. MaxFaults

\* updateExclusive: the new domain's record is made, then the row is changed. A node whose
\* certificate is not the managed one begins with a self-signed pair, or without TLS.
Init ==
    /\ uses \in {Parts, Parts \ {"cert"}, Parts \ ChainParts}
    /\ value = [p \in Parts |-> "old"]
    /\ saved = {} /\ held = {} /\ lost = {} /\ pair = "old"
    /\ at \in {First(Steps, uses)} \cup (IF "cert" \in uses THEN {} ELSE {"generate"})
    /\ flagged = FALSE /\ answer = "none" /\ said = "none" /\ status = "old"
    /\ row = "new" /\ dns = {"old", "new"} /\ replied = FALSE /\ faults = 0

Fault == faults < MaxFaults /\ faults' = faults + 1
Put(p, v) == value' = [value EXCEPT ![p] = v]

-----------------------------------------------------------------------------
(* The steps of deployExclusive and deployChainExit. *)

KeepCopy(p) == saved' = saved \cup ({p} \cap Files)

Change(p) ==
    /\ at = p
    /\ Put(p, "new")
    /\ KeepCopy(p) /\ held' = held \cup {p}
    /\ at' = After(p)
    /\ UNCHANGED <<uses, pair, lost, flagged, answer, said, status, caller, faults>>

\* generateSelfSignedCert overwrites key and certificate. It keeps no copy, and no way back
\* knows of it; openssl can break off between the two.
Generate ==
    /\ at = "generate" /\ pair' = "new" /\ at' = First(Steps, uses)
    /\ UNCHANGED <<uses, value, saved, held, lost, flagged, answer, said, status, caller, faults>>

GenerateFails ==
    /\ at = "generate" /\ Fault
    /\ pair' \in {"old", "mixed", "new"} /\ at' = "undo"
    /\ UNCHANGED <<uses, value, saved, held, lost, flagged, answer, said, status, caller>>

\* pushCertToNode and deployChainExit put their own files back before they throw;
\* what they cannot put back is a rollback that failed.
OwnUndo(p) ==
    \/ Put(p, "old") /\ saved' = saved \ {p} /\ UNCHANGED flagged
    \/ faults + 1 < MaxFaults /\ Put(p, "mixed") /\ saved' = saved \cup {p} /\ flagged' = TRUE

FileFails(p) ==
    /\ at = p /\ p \in {"cert", "exit"} /\ Fault
    /\ OwnUndo(p)
    /\ UNCHANGED <<held, lost>>

\* The exit's manifest is written inside deployChainExit, before the hand-over.
ExitOwnerFails ==
    /\ at = "exitOwner" /\ Fault
    /\ OwnUndo("exit")
    /\ held' = held \ {"exit"}
    /\ UNCHANGED lost

\* The entry's rollback point is taken before its first change.
EntryFails ==
    /\ at = "entry" /\ Fault
    /\ \/ UNCHANGED <<value, saved, held>>
       \/ \E v \in {"mixed", "new"} :
            Put("entry", v) /\ saved' = saved \cup {"entry"} /\ held' = held \cup {"entry"}
    /\ UNCHANGED <<lost, flagged>>

\* A rule that a failed command added is removed at once, or it is reported.
WallFails(p) ==
    /\ at = p /\ p \in {"wall", "exitWall"} /\ Fault
    /\ \/ UNCHANGED <<value, flagged>>
       \/ faults + 1 < MaxFaults /\ Put(p, "new") /\ flagged' = TRUE
    /\ UNCHANGED <<saved, held, lost>>

OwnerFails == at = "owner" /\ Fault /\ UNCHANGED <<value, saved, held, lost, flagged>>

\* The command was carried out and its answer was lost: the deployment cannot know.
AnswerLost(p) ==
    /\ at = p /\ p \in {"wall", "exitWall", "owner", "exitOwner"} /\ Fault
    /\ lost' = lost \cup {p}
    /\ IF p = "exitOwner"
       THEN /\ value' = [value EXCEPT ![p] = "new", !["exit"] = "old"]
            /\ held' = held \ {"exit"} /\ saved' = saved \ {"exit"}
       ELSE Put(p, "new") /\ UNCHANGED <<held, saved>>
    /\ UNCHANGED flagged

Fails ==
    /\ \/ \E p \in Parts : FileFails(p) \/ WallFails(p) \/ AnswerLost(p)
       \/ ExitOwnerFails \/ EntryFails \/ OwnerFails
    /\ at' = "undo"
    /\ UNCHANGED <<uses, pair, answer, said, status, caller>>

\* The service is not active, or the acceptance test through it fails.
NotAccepted ==
    /\ at = "owner"
    /\ at' = "undo"
    /\ UNCHANGED <<uses, pair, value, saved, held, lost, flagged, answer, said, status, caller, faults>>

\* Snapshot, status and log are written at the same time; the first failure is reported
\* whether or not the status was committed.
Finalize ==
    /\ at = "finalize"
    /\ \/ status' = "RUNNING" /\ at' = "commit" /\ UNCHANGED faults
       \/ Fault /\ status' \in {status, "RUNNING"} /\ at' = "undo"
    /\ UNCHANGED <<uses, pair, value, saved, held, lost, flagged, answer, said, caller>>

\* The rollback points go only now; a cleanup that fails is a warning.
DropCopies == saved' = {}

Commit ==
    /\ at = "commit"
    /\ DropCopies /\ held' = {}
    /\ answer' = "ok" /\ at' = "unlock"
    /\ UNCHANGED <<uses, pair, value, lost, flagged, said, status, caller, faults>>

-----------------------------------------------------------------------------
(* The way back. *)

UndoSequence == UndoOrder

Ignored == UNCHANGED flagged                                                \* mutant
Remember == flagged' = TRUE

TakeBack ==
    /\ at = "undo" /\ held # {}
    /\ LET p == First(UndoSequence, held)
       IN  /\ held' = held \ {p}
           /\ \/ Put(p, "old") /\ saved' = saved \ {p} /\ UNCHANGED <<flagged, faults>>
              \/ Fault /\ Remember /\ UNCHANGED saved
                 /\ \E v \in {value[p]} \cup (IF p \in Files THEN {"mixed"} ELSE {"old"}) : Put(p, v)
    /\ UNCHANGED <<uses, pair, lost, at, answer, said, status, caller>>

\* The failure is recorded; when even that fails, deploy throws.
FinalizeFailure ==
    /\ at = "undo" /\ held = {}
    /\ at' = "unlock"
    /\ \/ /\ status' = "ERROR" /\ UNCHANGED faults
          /\ answer' = IF flagged THEN "flagged" ELSE "failed"
       \/ /\ Fault /\ status' \in {status, "ERROR"}
          /\ answer' = IF flagged THEN "rethrown" ELSE "thrown"
    /\ UNCHANGED <<uses, pair, value, saved, held, lost, flagged, said, caller>>

\* withPostgresAdvisoryLocks: a lost connection throws AdvisoryLockLostError, which counts
\* as a failed rollback; another failure to unlock replaces a result by a plain error.
Unlock ==
    /\ at = "unlock" /\ at' = "done"
    /\ \/ said' = (IF answer = "rethrown" THEN "flagged" ELSE answer) /\ UNCHANGED faults
       \/ Fault /\ said' = "flagged"
    /\ UNCHANGED <<uses, pair, value, saved, held, lost, flagged, answer, status, caller>>

PanelCrash ==
    /\ at \notin {"done", "dead"} /\ Fault
    /\ at' = "dead"
    /\ UNCHANGED <<uses, pair, value, saved, held, lost, flagged, answer, said, status, caller>>

-----------------------------------------------------------------------------
(* update, after deploy. *)

\* A failure that was taken back brings the old row back and removes the new record.
Restorable == {"failed", "thrown"}

Settle ==
    /\ at = "done" /\ ~replied /\ ~Legacy
    /\ replied' = TRUE
    /\ \/ said = "ok" /\ dns' = {"new"} /\ UNCHANGED <<row, status, faults>>
       \/ said = "flagged" /\ UNCHANGED <<row, dns, status, faults>>
       \/ said \in Restorable /\ row' = "old" /\ status' = "old" /\ dns' = {"old"} /\ UNCHANGED faults
       \/ said \in Restorable /\ Fault /\ UNCHANGED <<row, dns, status>>
    /\ UNCHANGED <<uses, pair, value, saved, held, lost, at, flagged, answer, said>>

\* A legacy edit starts the deployment and goes on at once.
LegacyReply ==
    /\ Legacy /\ ~replied
    /\ replied' = TRUE /\ dns' = {"new"}
    /\ UNCHANGED <<uses, pair, value, saved, held, lost, at, flagged, answer, said, status, row, faults>>

-----------------------------------------------------------------------------
Next ==
    \/ \E p \in Parts : Change(p)
    \/ Generate \/ GenerateFails \/ Fails \/ NotAccepted \/ Finalize \/ Commit \/ TakeBack \/ FinalizeFailure \/ Unlock
    \/ PanelCrash \/ Settle \/ LegacyReply

Spec == Init /\ [][Next]_vars

-----------------------------------------------------------------------------
(* A deployment that says it failed, and does not report a failed rollback,  *)
(* has left nothing of itself on either host, but for the effect of the one  *)
(* command whose answer was lost, and for a self-signed pair.                *)
FailureLeavesNothing ==
    said \in {"failed", "thrown"} => \A p \in uses \ lost : value[p] = "old"

(* Whatever was replaced can be put back by hand until the row is committed, *)
(* also when the panel dies or the automatic way back fails; but for the     *)
(* pair that a self-signed one overwrote.                                    *)
CanBeUndone ==
    answer # "ok" => \A p \in Files \cap uses : value[p] = "old" \/ p \in saved

(* Half a self-signed pair is all that its deployment changed: no service    *)
(* was stopped or started with it.                                           *)
HalfIsAll == pair = "mixed" => \A p \in uses : value[p] = "old"

(* The old entry service is started again with its old certificate, unless   *)
(* that could not be restored, which is reported; where a self-signed pair   *)
(* was made instead, with a whole one.                                       *)
OldServiceOldCert ==
    value["entry"] # "old" /\ value'["entry"] = "old" =>
        (value'["cert"] = "old" \/ flagged') /\ pair' # "mixed"

(* When update has answered, its row describes what runs: "the deployment    *)
(* failed, the original configuration is restored" is true of all but a      *)
(* self-signed pair, or an operator was told that the two may differ.        *)
RowMatchesRemote ==
    replied /\ row = "old" => \A p \in Files \cap uses : value[p] = "old"

(* All of these, with the types.                                             *)
DeploymentsSafe == TypeOK /\ FailureLeavesNothing /\ CanBeUndone /\ HalfIsAll /\ RowMatchesRemote

(* What the caller can rely on: AtomicDeployment, of this. A self-signed     *)
(* pair that replaced the old one is outside of it, unless it is half made.  *)
Config ==
    CASE \A p \in Files \cap uses : value[p] = "old" -> "old"
      [] pair # "mixed" /\ \A p \in Files \cap uses : value[p] = "new" -> "new"
      [] OTHER -> "between"
Reply == IF said = "thrown" THEN "failed" ELSE said
=============================================================================
