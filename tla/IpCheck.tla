-------------------------------- MODULE IpCheck --------------------------------
(***************************************************************************)
(* The quality check of one server's address. The panel looks the address  *)
(* up and asks a function in China whether it is blocked (runCheck,        *)
(* runGfwCheck); the agent is handed the rest with its heartbeat and       *)
(* reports back. Several executions of the panel's part may be under way,  *)
(* each with the address it read at its beginning, while the operator      *)
(* changes the address, asks again or deletes the server.                  *)
(***************************************************************************)
EXTENDS Naturals, FiniteSets

CONSTANTS
    Ips,          \* addresses the server may have
    Checks,       \* executions of runCheck and runGfwCheck that may be under way at once
    MaxRuns,      \* bound: runs of the agent
    MaxRequests,  \* bound: what the operator asks for or changes
    MaxFaults,    \* bound: panel crashes, broken connections, unanswered questions
    Nothing

\* old: startedAt is more than ten minutes ago. info, gfw: the address that the stored
\* facts are about. by: the agent's run whose results the row holds.
Rows == [status : {"PENDING", "RUNNING", "COMPLETED", "FAILED"}, old : BOOLEAN, error : BOOLEAN,
         info : Ips \cup {Nothing}, gfw : Ips \cup {Nothing}, by : 0 .. MaxRuns]

IpCheckAssumption == Nothing \notin Ips \cup Rows /\ MaxRuns \in Nat /\ MaxRequests \in Nat /\ MaxFaults \in Nat

VARIABLES
    server,    \* the server's address, or Nothing once it is deleted
    row,       \* ServerIpCheck, or Nothing
    tags,      \* the run of the agent that Server.autoTags was computed from
    check,     \* Checks -> the execution's next step and the address it read
    agent,     \* what the agent is doing, and in which run
    handlers,  \* reports that the panel is working on (reportResult)
    runs, requests, faults,
    up         \* the panel process

vars == <<server, row, tags, check, agent, handlers, runs, requests, faults, up>>

Idle == [at |-> "idle", ip |-> Nothing]
Resting == [at |-> "idle", run |-> 0]

Row(s) == [status |-> s, old |-> FALSE, error |-> FALSE, info |-> Nothing, gfw |-> Nothing, by |-> 0]

TypeOK ==
    /\ server \in Ips \cup {Nothing}
    /\ row = Nothing \/ (row \in Rows /\ server # Nothing)
    /\ tags \in 0 .. MaxRuns
    /\ check \in [Checks -> [at : {"idle", "start", "info", "gfw", "answer"}, ip : Ips \cup {Nothing}]]
    /\ agent \in [at : {"idle", "checking", "reporting"}, run : 0 .. MaxRuns]
    /\ handlers \subseteq [at : {"row", "tags"}, run : 1 .. MaxRuns, success : BOOLEAN]
    /\ runs \in 0 .. MaxRuns /\ requests \in 0 .. MaxRequests /\ faults \in 0 .. MaxFaults /\ up \in BOOLEAN

\* A server that has just been created, with the check that its creation triggers.
Init ==
    /\ server \in Ips /\ row = Nothing /\ tags = 0
    /\ \E c \in Checks : check = [d \in Checks |-> IF d = c THEN [at |-> "start", ip |-> Nothing] ELSE Idle]
    /\ agent = Resting /\ handlers = {} /\ runs = 0 /\ requests = 0 /\ faults = 0 /\ up = TRUE

Request == up /\ requests < MaxRequests /\ requests' = requests + 1
Fault == faults < MaxFaults /\ faults' = faults + 1
Free(c) == check[c] = Idle
To(c, at, ip) == check' = [check EXCEPT ![c] = [at |-> at, ip |-> ip]]

-----------------------------------------------------------------------------
(* What the operator does. *)

\* The row is reset so that the page shows it loading; the check runs on its own.
TriggerManual(c) ==
    /\ Request /\ server # Nothing /\ Free(c)
    /\ row' = IF row = Nothing THEN Row("PENDING")
              ELSE [row EXCEPT !.status = "PENDING", !.old = FALSE, !.error = FALSE]
    /\ To(c, "start", Nothing)
    /\ UNCHANGED <<server, tags, agent, handlers, runs, faults, up>>

TriggerGfw(c) ==
    /\ Request /\ server # Nothing /\ Free(c)
    /\ To(c, "gfw", server)
    /\ UNCHANGED <<server, row, tags, agent, handlers, runs, faults, up>>

\* Changing the address leaves the row, and starts no check.
ChangeIp ==
    /\ Request /\ server # Nothing
    /\ server' \in Ips \ {server}
    /\ UNCHANGED <<row, tags, check, agent, handlers, runs, faults, up>>

\* The row goes with the server.
DeleteServer ==
    /\ Request /\ server # Nothing
    /\ server' = Nothing /\ row' = Nothing /\ tags' = 0
    /\ UNCHANGED <<check, agent, handlers, runs, faults, up>>

-----------------------------------------------------------------------------
(* The panel's part: runCheck, then runGfwCheck. *)

Start(c) ==
    /\ up /\ check[c].at = "start"
    /\ IF server = Nothing THEN To(c, "idle", Nothing) ELSE To(c, "info", server)
    /\ row' = IF server = Nothing THEN row
              ELSE IF row = Nothing THEN Row("RUNNING")
              ELSE [row EXCEPT !.status = "RUNNING", !.old = FALSE, !.error = FALSE]
    /\ UNCHANGED <<server, tags, agent, handlers, runs, requests, faults, up>>

\* Two services are asked about the address; without the first one there are no facts.
Lookup(ip) == {Nothing, ip}

\* A failed lookup, like a row that has gone, is logged.
LookUp(c) ==
    /\ up /\ check[c].at = "info"
    /\ \E found \in Lookup(check[c].ip) :
        row' = IF row = Nothing \/ found = Nothing THEN row ELSE [row EXCEPT !.info = found]
    /\ To(c, "gfw", check[c].ip)
    /\ UNCHANGED <<server, tags, agent, handlers, runs, requests, faults, up>>

\* The upsert of an answer about address ip; the database refuses a row without its server.
Store(ip) ==
    /\ server # Nothing
    /\ row' = [(IF row = Nothing THEN Row("PENDING") ELSE row) EXCEPT !.gfw = ip]

Answered(c) ==
    /\ up /\ check[c].at = "gfw"
    /\ Store(check[c].ip)
    /\ To(c, "idle", Nothing)
    /\ UNCHANGED <<server, tags, agent, handlers, runs, requests, faults, up>>

\* The function did not answer within 15 seconds: there is no verdict.
Unanswered(c) ==
    /\ up /\ check[c].at = "gfw" /\ Fault
    /\ To(c, "idle", Nothing)
    /\ UNCHANGED <<server, row, tags, agent, handlers, runs, requests, up>>

\* Nobody waits for the promise of runCheck: its rejection ends the process.
Rejected(c) ==
    /\ up /\ check[c].at = "gfw" /\ server = Nothing
    /\ up' = FALSE
    /\ UNCHANGED <<server, row, tags, check, agent, handlers, runs, requests, faults>>

\* Every six hours every server is asked about; the scheduler catches what is thrown.
Due(c) == Free(c) /\ server # Nothing

ScheduledGfwCheck(c) ==
    /\ up /\ Due(c)
    /\ To(c, "answer", server)
    /\ UNCHANGED <<server, row, tags, agent, handlers, runs, requests, faults, up>>

ScheduledAnswer(c) ==
    /\ up /\ check[c].at = "answer"
    /\ \/ Store(check[c].ip)
       \/ server = Nothing /\ row' = row
    /\ To(c, "idle", Nothing)
    /\ UNCHANGED <<server, tags, agent, handlers, runs, requests, faults, up>>

TenMinutes ==
    /\ row # Nothing
    /\ row.status = "RUNNING" /\ ~row.old
    /\ row' = [row EXCEPT !.old = TRUE]
    /\ UNCHANGED <<server, tags, check, agent, handlers, runs, requests, faults, up>>

Stale == row # Nothing /\ row.status = "RUNNING" /\ row.old

ExpireStaleChecks ==
    /\ up
    /\ row # Nothing
    /\ Stale
    /\ row' = [row EXCEPT !.status = "FAILED", !.error = TRUE]
    /\ UNCHANGED <<server, tags, check, agent, handlers, runs, requests, faults, up>>

-----------------------------------------------------------------------------
(* The agent's part. *)

AtOnce == agent.at # "checking"                                             \* mutant
\* ipCheckRunning is set until the report was answered, or could not be made.
NotRunning == agent.at = "idle"

\* The heartbeat's answer carries the task for as long as the row says RUNNING.
Heartbeat ==
    /\ up /\ row # Nothing
    /\ row.status = "RUNNING" /\ NotRunning /\ runs < MaxRuns
    /\ agent' = [at |-> "checking", run |-> runs + 1]
    /\ runs' = runs + 1
    /\ UNCHANGED <<server, row, tags, check, handlers, requests, faults, up>>

\* All services, then the routes, for at most 90 seconds; without curl, a failure.
Report ==
    /\ up /\ agent.at = "checking"
    /\ agent' = [agent EXCEPT !.at = "reporting"]
    /\ \E ok \in BOOLEAN : handlers' = handlers \cup {[at |-> "row", run |-> agent.run, success |-> ok]}
    /\ UNCHANGED <<server, row, tags, check, runs, requests, faults, up>>

\* The report never arrives, its answer is lost, or the agent restarts: the panel may
\* still be working on it.
GiveUp ==
    /\ agent.at # "idle" /\ Fault
    /\ agent' = Resting
    /\ UNCHANGED <<server, row, tags, check, handlers, runs, requests, up>>

Answer(h) == agent' = IF agent = [at |-> "reporting", run |-> h.run] THEN Resting ELSE agent

\* The row is written whatever it says by now, and keeps an error that it holds.
ReportRow(h) ==
    /\ up /\ h.at = "row"
    /\ IF server = Nothing \/ row = Nothing
       THEN row' = row /\ handlers' = handlers \ {h} /\ Answer(h)
       ELSE IF ~h.success
       THEN row' = [row EXCEPT !.status = "FAILED", !.error = TRUE] /\ handlers' = handlers \ {h} /\ Answer(h)
       ELSE /\ row' = [row EXCEPT !.status = "COMPLETED", !.by = h.run]
            /\ handlers' = (handlers \ {h}) \cup {[h EXCEPT !.at = "tags"]}
            /\ UNCHANGED agent
    /\ UNCHANGED <<server, tags, check, runs, requests, faults, up>>

\* The server's own row is written by itself; it fails when the server has gone.
ReportTags(h) ==
    /\ up /\ h.at = "tags"
    /\ tags' = IF server = Nothing THEN tags ELSE h.run
    /\ handlers' = handlers \ {h} /\ Answer(h)
    /\ UNCHANGED <<server, row, check, runs, requests, faults, up>>

-----------------------------------------------------------------------------
(* The panel's process. *)

Crash ==
    /\ up /\ Fault
    /\ up' = FALSE
    /\ UNCHANGED <<server, row, tags, check, agent, handlers, runs, requests>>

\* Nothing takes up the executions of the process that ended.
Restart ==
    /\ ~up
    /\ up' = TRUE /\ check' = [c \in Checks |-> Idle] /\ handlers' = {}
    /\ agent' = IF agent.at = "reporting" THEN Resting ELSE agent
    /\ UNCHANGED <<server, row, tags, runs, requests, faults>>

PanelStep(c) == Start(c) \/ LookUp(c) \/ Answered(c) \/ Rejected(c) \/ ScheduledAnswer(c)
\* The agent's check ends: every request, ping and trace of it, and all of them together,
\* are bounded in time.
AgentStep == Report \/ \E h \in handlers : ReportRow(h) \/ ReportTags(h)

Next ==
    \/ \E c \in Checks : TriggerManual(c) \/ TriggerGfw(c) \/ Unanswered(c) \/ ScheduledGfwCheck(c) \/ PanelStep(c)
    \/ ChangeIp \/ DeleteServer \/ TenMinutes \/ ExpireStaleChecks
    \/ Heartbeat \/ GiveUp \/ AgentStep \/ Crash \/ Restart

Spec == Init /\ [][Next]_vars

-----------------------------------------------------------------------------
(* Properties. *)

\* As long as no connection broke and no process ended, the tags of the server are those
\* of the results that its row shows once the panel is done with the reports: the two
\* are written apart, and only the agent's flag keeps two reports from crossing.
TagsFollowResults == (faults = 0 /\ handlers = {} /\ row # Nothing) => (row.by = tags)

\* A check does not stay RUNNING: whatever becomes of the agent and the panel, a report
\* or the expiry ends it.
Running == row # Nothing /\ row.status = "RUNNING"

\* In the end the verdict is one about the server's present address, though nothing is
\* checked when the address changes and answers about the former one may still arrive.
FlagIsCurrent == row # Nothing => row.gfw = server
=============================================================================
