---------------------------- MODULE AtomicDeployment ----------------------------
(***************************************************************************)
(* What a deployment promises its caller about the files that a node's     *)
(* services run with: success leaves the new ones, failure the old ones,   *)
(* and anything else is reported as a rollback that failed.                *)
(***************************************************************************)
VARIABLES config, reply

Old == config = "old"
New == config = "new"

Init == Old /\ reply = "none"

Work == reply = "none" /\ config' \in {"old", "between", "new"} /\ UNCHANGED reply

Reply ==
    /\ reply = "none" /\ UNCHANGED config
    /\ \/ New /\ reply' = "ok"
       \/ Old /\ reply' = "failed"
       \/ reply' = "flagged"

Spec == Init /\ [][Work \/ Reply]_<<config, reply>>
=============================================================================
