------------------------------- MODULE TaskViews -------------------------------
(***************************************************************************)
(* A drawer of the web interface that shows the log of a task              *)
(* (useDeployStream): deploying or deleting a node, installing an agent.   *)
(* The task runs on the server whether anyone listens or not; streams end  *)
(* late, break, and are replaced by the stream of the next task.           *)
(***************************************************************************)
EXTENDS Naturals, FiniteSets

CONSTANT Tasks    \* requests for a stream, each with its controller

VARIABLES
    task,     \* Tasks -> what the server does
    stream,   \* Tasks -> "none", "open", or "over" once readSse has answered
    aborted,  \* controllers that were aborted
    current,  \* abortRef
    opened,   \* the task the drawer was opened for
    lines,    \* tasks with lines in the log
    status,   \* deployStatus
    fresh     \* tasks after which the list of nodes was read again

vars == <<task, stream, aborted, current, opened, lines, status, fresh>>

Nothing == "nothing"
ASSUME TasksAssumption == Nothing \notin Tasks
\* The last event of a deployment or of a removal, after its log.
Results == {"success", "failed"}

TypeOK ==
    /\ task \in [Tasks -> {"none", "running", "refused"} \cup Results]
    /\ stream \in [Tasks -> {"none", "open", "over"}]
    /\ aborted \subseteq Tasks /\ lines \subseteq Tasks /\ fresh \subseteq Tasks
    /\ current \in Tasks \cup {Nothing} /\ opened \in Tasks \cup {Nothing}
    /\ status \in {"idle", "running", "interrupted", "cancelled"} \cup Results
    /\ (current = Nothing) = (status # "running")

Init ==
    /\ task = [t \in Tasks |-> "none"] /\ stream = [t \in Tasks |-> "none"]
    /\ aborted = {} /\ current = Nothing /\ opened = Nothing
    /\ lines = {} /\ status = "idle" /\ fresh = {}

-----------------------------------------------------------------------------
(* The user. *)

Controller == {current} \ {Nothing}

\* openDeploy: the drawer is reset and the stream of the task is asked for.
Open(t) ==
    /\ stream[t] = "none"
    /\ stream' = [stream EXCEPT ![t] = "open"]
    /\ aborted' = aborted \cup Controller /\ current' = t
    /\ opened' = t /\ lines' = {} /\ status' = "running"
    /\ UNCHANGED <<task, fresh>>

\* closeDrawer: the log is left, the task goes on.
Close ==
    /\ Controller # {} /\ ~(Controller \subseteq aborted)
    /\ aborted' = aborted \cup Controller
    /\ UNCHANGED <<task, stream, current, opened, lines, status, fresh>>

\* reset, also where the page is left.
Reset ==
    /\ aborted' = aborted \cup Controller /\ current' = Nothing
    /\ opened' = Nothing /\ lines' = {} /\ status' = "idle"
    /\ UNCHANGED <<task, stream, fresh>>

-----------------------------------------------------------------------------
(* The server and the streams. *)

\* The request arrives, perhaps when nobody waits for it any more.
Begin(t) ==
    /\ stream[t] # "none" /\ task[t] = "none"
    /\ \E answer \in {"running", "refused"} : task' = [task EXCEPT ![t] = answer]
    /\ UNCHANGED <<stream, aborted, current, opened, lines, status, fresh>>

End(t, result) ==
    /\ task[t] = "running"
    /\ task' = [task EXCEPT ![t] = result]
    /\ UNCHANGED <<stream, aborted, current, opened, lines, status, fresh>>

Present(t) == current = t
Anyone(t) == TRUE                                                           \* mutant
Listening(t) == Present(t) /\ t \notin aborted

\* An event with a line of the log.
Line(t) ==
    /\ stream[t] = "open" /\ task[t] \in {"running"} \cup Results
    /\ lines' = IF Listening(t) THEN lines \cup {t} ELSE lines
    /\ UNCHANGED <<task, stream, aborted, current, opened, status, fresh>>

\* What readSse answers: the result that was sent, or that the connection broke.
Answers(t) ==
    IF t \in aborted THEN {"cancelled"}
    ELSE {"interrupted"} \cup ({task[t]} \cap Results) \cup (IF task[t] = "refused" THEN {"failed"} ELSE {})

Cleared == Nothing

\* "A cancelled/replaced request must never settle a newer operation."
Settle(t) ==
    /\ stream[t] = "open"
    /\ stream' = [stream EXCEPT ![t] = "over"]
    /\ \E outcome \in Answers(t) :
          IF ~Present(t) THEN UNCHANGED <<current, lines, status, fresh>>
          ELSE /\ current' = Cleared /\ status' = outcome
               /\ lines' = IF outcome = "interrupted" THEN lines \cup {t} ELSE lines
               /\ fresh' = IF outcome = "success" THEN fresh \cup {t} ELSE fresh
    /\ UNCHANGED <<task, aborted, opened>>

Next ==
    \/ \E t \in Tasks : Open(t) \/ Begin(t) \/ Line(t) \/ Settle(t) \/ (\E r \in Results : End(t, r))
    \/ Close \/ Reset

Spec == Init /\ [][Next]_vars

-----------------------------------------------------------------------------
(* Properties. *)

\* The drawer shows the log of the task it was opened for, and of no other, and the list of
\* nodes is read again for tasks that have ended well.
OwnLines == lines \subseteq {opened} /\ \A t \in fresh : task[t] = "success"

\* A result that is shown is the result of that task; what is not known is not shown as one.
TrueResult ==
    /\ status = "success" => opened # Nothing /\ task[opened] = "success"
    /\ status = "failed" => opened # Nothing /\ task[opened] \in {"failed", "refused"}

\* Both, with the types: what a drawer shows is true of its task.
ShownIsTrue == TypeOK /\ OwnLines /\ TrueResult

\* Every drawer stops to spin.
Settles == []<>(status # "running")
=============================================================================
