------------------------------ MODULE CfOrigin ------------------------------
(***************************************************************************)
(* CfOriginService: the DNS record and the two rules at Cloudflare that    *)
(* lead port 443 of a node's name to its own port, the row that says what  *)
(* is there and when it was last verified, and what deployments, removals, *)
(* cleanup jobs and the audit every five minutes do to both. The zone's    *)
(* own TLS mode is not strict, so that the rule for the name is needed.    *)
(***************************************************************************)
EXTENDS Naturals

CONSTANTS Handlers,   \* what may be at work at one time
          Nobody,     \* the holder of a lock that is free
          MaxFaults   \* bound on failed requests, crashes, a lost session and what others change

ASSUME OriginAssumption ==
    /\ Nobody \notin Handlers
    /\ MaxFaults \in Nat

VARIABLES edge,      \* the record and the rules at Cloudflare, whether a rule of others may cover the name, the host's firewall
          row,       \* the node
          job,       \* the CF_ORIGIN job of a server deletion
          at, copy,  \* each handler: what it does, the route it has read
          node, zone,          \* the holders of the two advisory locks
          wrong,     \* history: what has not been as it should for 20 minutes
          accepted,  \* history: a deployment passed after the last withdrawal
          lost,      \* history: a lock session was lost
          faults

vars == <<edge, row, job, at, copy, node, zone, wrong, accepted, lost, faults>>
outside == <<job, accepted, lost, faults>>

States == {"NONE", "PENDING", "CONFIGURED", "READY", "ERROR"}
\* A verification within the last 20 minutes is fresh.
RouteIn(states) == [state : states, checked : {"never", "old", "fresh"}, ids : SUBSET {"tls", "rule"}]
Routes == RouteIn(States)
NoRoute == [state |-> "NONE", checked |-> "never", ids |-> {}]
NoRow == [route |-> NoRoute, dns |-> FALSE, running |-> FALSE]
Gone == [route |-> [state |-> "GONE", checked |-> "never", ids |-> {}], dns |-> FALSE, running |-> FALSE]
Rows == [route : RouteIn(States \cup {"GONE"}), dns : BOOLEAN, running : BOOLEAN]
Edges == [dns : {"none", "ours", "drifted", "foreign"}, tls : {"none", "ours", "drifted"},
          rule : {"none", "ours", "drifted"}, overlap : BOOLEAN, guard : BOOLEAN]
Preparing == {"preflight", "intent", "dns", "dnsId", "tls", "tlsId", "rule", "configured"}
Verifying == {"verify", "ready", "reverify", "reready"}
Removing == {"unrule", "untls", "undns"}
Steps == {"idle", "failed", "install", "good", "bad", "audit", "unsound", "withdraw", "stop", "drop"}
         \cup Preparing \cup Verifying \cup Removing

\* What keeps clients from the node or from its own certificate.
Flaw(x, wrongly) == IF wrongly THEN {x} ELSE {}
Wrong(e) == Flaw("dns", e.dns # "ours") \cup Flaw("tls", e.tls # "ours") \cup Flaw("rule", e.rule # "ours")
            \cup Flaw("overlap", e.overlap) \cup Flaw("guard", ~e.guard)

TypeOK ==
    /\ edge \in Edges
    /\ row \in Rows /\ (row.route.state = "GONE" => row = Gone)
    /\ job \in {"none", "PENDING", "DONE"}
    /\ at \in [Handlers -> Steps] /\ copy \in [Handlers -> Routes]
    /\ node \in Handlers \cup {Nobody} /\ zone \in Handlers \cup {Nobody}
    /\ wrong \subseteq Wrong(edge) /\ accepted \in BOOLEAN /\ lost \in BOOLEAN
    /\ faults \in 0 .. MaxFaults
    \* Who holds the zone's lock is at the zone.
    /\ zone # Nobody => at[zone] \in Preparing \cup Removing \cup {"failed"}
    \* What was verified has the rule it was verified with.
    /\ row.route.state = "READY" => "rule" \in row.route.ids

\* createFromPreset: a mapped node is prepared by its first deployment.
Init ==
    /\ edge = [dns |-> "none", tls |-> "none", rule |-> "none", overlap |-> FALSE, guard |-> FALSE]
    /\ row = NoRow
    /\ job = "none"
    /\ at = [h \in Handlers |-> "idle"] /\ copy = [h \in Handlers |-> NoRoute]
    /\ node = Nobody /\ zone = Nobody
    /\ wrong = {} /\ accepted = FALSE /\ lost = FALSE /\ faults = 0

-----------------------------------------------------------------------------
(* Helpers *)

Becomes(e) == edge' = e /\ wrong' = wrong \cap Wrong(e)
SameEdge == UNCHANGED <<edge, wrong>>
To(h, step) == at' = [at EXCEPT ![h] = step]
Releases(lock, h) == IF lock = h THEN Nobody ELSE lock
Ends(h) == To(h, "idle") /\ node' = Releases(node, h) /\ zone' = Releases(zone, h)
SameLocks == UNCHANGED <<node, zone>>
Fault == faults < MaxFaults /\ faults' = faults + 1

\* Cloudflare is asked: what was asked for happens and is answered, or fails, or its answer
\* is lost; refused requests lead to step no as well.
Asked(h, allowed, after, yes, no) ==
    \/ allowed /\ Becomes(after) /\ To(h, yes) /\ UNCHANGED faults
    \/ ~allowed /\ SameEdge /\ To(h, no) /\ UNCHANGED faults
    \/ allowed /\ Fault /\ (SameEdge \/ Becomes(after)) /\ To(h, no)

\* An update of the row throws when there is none.
Writes(h, r, yes, no) ==
    IF row = Gone THEN UNCHANGED row /\ To(h, no) ELSE row' = [row EXCEPT !.route = r] /\ To(h, yes)

\* originReady
Exported == row.route.state = "READY" /\ row.route.checked = "fresh" /\ "rule" \in row.route.ids

-----------------------------------------------------------------------------
(* A deployment: prepare, the host, ready *)

DeployBegin(h) ==
    /\ at[h] = "idle" /\ node = Nobody /\ row # Gone
    /\ node' = h /\ To(h, "preflight")
    /\ copy' = [copy EXCEPT ![h] = IF row.route.state = "NONE" THEN [NoRoute EXCEPT !.state = "PENDING"] ELSE row.route]
    /\ UNCHANGED <<edge, wrong, row, zone, outside>>

\* The cloud and the host are looked at before anything is written.
Preflight(h) ==
    /\ at[h] = "preflight" /\ zone = Nobody
    /\ zone' = h
    /\ Asked(h, ~edge.overlap, edge, "intent", "failed")
    /\ UNCHANGED <<row, copy, node, job, accepted, lost>>

IntentInMind(h) ==                                                          \* mutant
    /\ at[h] = "intent"
    /\ To(h, "dns") /\ UNCHANGED row
    /\ SameEdge /\ SameLocks /\ UNCHANGED <<copy, outside>>
\* "Persist intent before the first cloud write, including response loss."
Intent(h) ==
    /\ at[h] = "intent"
    /\ Writes(h, copy[h], "dns", "failed")
    /\ SameEdge /\ SameLocks /\ UNCHANGED <<copy, outside>>

EnsureDns(h) ==
    /\ at[h] = "dns"
    /\ Asked(h, edge.dns \in {"none", "ours"}, [edge EXCEPT !.dns = "ours"], "dnsId", "failed")
    /\ SameLocks /\ UNCHANGED <<row, copy, job, accepted, lost>>
RecordDns(h) ==
    /\ at[h] = "dnsId"
    /\ IF row = Gone THEN UNCHANGED row /\ To(h, "failed") ELSE row' = [row EXCEPT !.dns = TRUE] /\ To(h, "tls")
    /\ SameEdge /\ SameLocks /\ UNCHANGED <<copy, outside>>

\* A rule whose id was recorded is not made again, one that was changed is not overwritten.
Ensurable(rule, recorded) == ~edge.overlap /\ (rule = "ours" \/ (rule = "none" /\ ~recorded))

Knows(r, x) == [r EXCEPT !.ids = @ \cup {x}]

EnsureTls(h) ==
    /\ at[h] = "tls"
    /\ Asked(h, Ensurable(edge.tls, "tls" \in copy[h].ids), [edge EXCEPT !.tls = "ours"], "tlsId", "failed")
    /\ copy' = IF at'[h] = "tlsId" THEN [copy EXCEPT ![h] = Knows(@, "tls")] ELSE copy
    /\ SameLocks /\ UNCHANGED <<row, job, accepted, lost>>
RecordTls(h) ==
    /\ at[h] = "tlsId"
    /\ Writes(h, copy[h], "rule", "failed")
    /\ SameEdge /\ SameLocks /\ UNCHANGED <<copy, outside>>

\* prerequisites
Reached == edge.dns = "ours" /\ edge.tls = "ours" /\ ~edge.overlap

EnsureRule(h) ==
    /\ at[h] = "rule"
    /\ Asked(h, Reached /\ Ensurable(edge.rule, "rule" \in copy[h].ids), [edge EXCEPT !.rule = "ours"], "configured", "failed")
    /\ SameLocks /\ UNCHANGED <<row, copy, job, accepted, lost>>

Ruling(r) == [Knows(r, "rule") EXCEPT !.state = "CONFIGURED"]

\* Who has lost the zone's lock gets no result.
Configured(h) ==
    /\ at[h] = "configured"
    /\ Writes(h, Ruling(copy[h]),
              IF zone = h THEN "install" ELSE "bad", "failed")
    /\ zone' = IF at'[h] = "failed" THEN zone ELSE Releases(zone, h)
    /\ SameEdge /\ UNCHANGED <<copy, node, outside>>

ErrorForgets(r) == [r EXCEPT !.state = "ERROR", !.checked = "never"]        \* mutant
\* fail: the last acceptance stays, so that the audit may find all well again.
Error(r) == [r EXCEPT !.state = "ERROR"]

Failed(h) ==
    /\ at[h] = "failed"
    /\ Writes(h, Error(copy[h]), "bad", "bad")
    /\ zone' = Releases(zone, h)
    /\ SameEdge /\ UNCHANGED <<copy, node, outside>>

\* The host gets its configuration and the guard of its port, the name is tried through
\* the CDN; any of it may fail.
Install(h) ==
    /\ at[h] = "install"
    /\ \/ Becomes([edge EXCEPT !.guard = TRUE]) /\ To(h, "verify")
       \/ SameEdge /\ To(h, "bad")
    /\ SameLocks /\ UNCHANGED <<row, copy, outside>>

\* ready: what the panel reads again before it says READY.
Verified == Reached /\ edge.rule = "ours"

Accepted(r) == [Knows(r, "rule") EXCEPT !.state = "READY", !.checked = "fresh"]

\* "reverify" is the audit's call.
Verify(h) ==
    /\ at[h] \in {"verify", "reverify"}
    /\ LET first == at[h] = "verify"
       IN  /\ Asked(h, row.dns /\ row.route.state # "NONE" /\ Verified, edge, IF first THEN "ready" ELSE "reready",
                    IF first THEN "bad" ELSE "unsound")
           /\ copy' = IF at'[h] \in {"ready", "reready"} THEN [copy EXCEPT ![h] = row.route] ELSE copy
    /\ SameLocks /\ UNCHANGED <<row, job, accepted, lost>>

Ready(h) ==
    /\ at[h] = "ready"
    /\ Writes(h, Accepted(copy[h]), "good", "bad")
    /\ accepted' = (accepted \/ row # Gone)
    /\ SameEdge /\ SameLocks /\ UNCHANGED <<copy, job, lost, faults>>

\* finalize
DeployEnd(h) ==
    /\ at[h] \in {"good", "bad"}
    /\ row' = IF row = Gone THEN row ELSE [row EXCEPT !.running = at[h] = "good"]
    /\ Ends(h)
    /\ SameEdge /\ UNCHANGED <<copy, outside>>

-----------------------------------------------------------------------------
(* The audit *)

\* "Only previously accepted deployments are eligible for read-only revalidation."
Eligible == row.running /\ row.route.checked # "never"

AuditBegin(h) ==
    /\ at[h] = "idle" /\ node = Nobody /\ Eligible
    /\ node' = h /\ To(h, "audit")
    /\ copy' = [copy EXCEPT ![h] = row.route]
    /\ UNCHANGED <<edge, wrong, row, zone, outside>>

\* assertUnchangedDeployment, verifyOriginFirewall
AuditHost(h) ==
    /\ at[h] = "audit"
    /\ Asked(h, edge.guard, edge, "reverify", "unsound")
    /\ SameLocks /\ UNCHANGED <<row, copy, job, accepted, lost>>

AuditEnd(h) ==
    /\ at[h] \in {"reready", "unsound"}
    /\ row' = IF row = Gone THEN row
              ELSE [row EXCEPT !.route = IF at[h] = "unsound" THEN Error(copy[h])
                                         ELSE Accepted(copy[h])]
    /\ Ends(h)
    /\ SameEdge /\ UNCHANGED <<copy, outside>>

-----------------------------------------------------------------------------
(* A removal of the node, and the job of a server deletion *)

RemoveBegin(h) ==
    /\ at[h] = "idle" /\ node = Nobody /\ row # Gone
    /\ node' = h /\ copy' = [copy EXCEPT ![h] = row.route]
    /\ To(h, IF row.route.state = "NONE" THEN "drop" ELSE "withdraw")
    /\ UNCHANGED <<edge, wrong, row, zone, outside>>

\* "A partial deletion must not be republished by the audit loop."
Withdrawn(r) == [r EXCEPT !.state = "CONFIGURED", !.checked = "never"]

Withdraw(h) ==
    /\ at[h] = "withdraw"
    /\ IF row = Gone THEN UNCHANGED <<row, accepted>> /\ Ends(h)
       ELSE row' = [row EXCEPT !.route = Withdrawn(copy[h])] /\ accepted' = FALSE /\ To(h, "stop") /\ SameLocks
    /\ SameEdge /\ UNCHANGED <<copy, job, lost, faults>>

\* The service and the guard go; a host that does not answer ends the removal.
Stop(h) ==
    /\ at[h] = "stop"
    /\ \/ Becomes([edge EXCEPT !.guard = FALSE]) /\ To(h, "unrule") /\ SameLocks
       \/ SameEdge /\ Ends(h)
    /\ UNCHANGED <<row, copy, outside>>

WorkBegin(h) ==
    /\ at[h] = "idle" /\ node = Nobody /\ job = "PENDING"
    /\ node' = h /\ To(h, "unrule") /\ copy' = [copy EXCEPT ![h] = NoRoute]
    /\ UNCHANGED <<edge, wrong, row, zone, outside>>

\* remove takes the rules and then the record; a rule with the panel's mark that was
\* changed is refused, and so is a record without the mark.
Deletes(h, refused, after, goesOn) ==
    \/ ~refused /\ Becomes(after) /\ UNCHANGED faults /\ goesOn
    \/ refused /\ SameEdge /\ UNCHANGED faults /\ Ends(h)
    \/ ~refused /\ Fault /\ (SameEdge \/ Becomes(after)) /\ Ends(h)

RemoveRule(h) ==
    /\ at[h] = "unrule" /\ zone = Nobody
    /\ Deletes(h, edge.rule = "drifted", [edge EXCEPT !.rule = "none"], To(h, "untls") /\ zone' = h /\ UNCHANGED node)
    /\ UNCHANGED <<row, copy, job, accepted, lost>>
RemoveTls(h) ==
    /\ at[h] = "untls"
    /\ Deletes(h, edge.tls = "drifted", [edge EXCEPT !.tls = "none"], To(h, "undns") /\ SameLocks)
    /\ UNCHANGED <<row, copy, job, accepted, lost>>
RemoveDns(h) ==
    /\ at[h] = "undns"
    /\ Deletes(h, edge.dns = "foreign", [edge EXCEPT !.dns = "none"],
               IF zone = h THEN To(h, "drop") /\ zone' = Nobody /\ UNCHANGED node ELSE Ends(h))
    /\ UNCHANGED <<row, copy, job, accepted, lost>>

\* The row goes after the mapping, also at the end of a removal whose log is shown.
\* Of a job (no route was read), it is the job that ends: the row went with the server's deletion.
Drop(h) ==
    /\ at[h] = "drop"
    /\ IF copy[h] = NoRoute /\ job = "PENDING" THEN job' = "DONE" /\ UNCHANGED row ELSE row' = Gone /\ UNCHANGED job
    /\ Ends(h)
    /\ SameEdge /\ UNCHANGED <<copy, accepted, lost, faults>>

\* queueServerDeletion: the job takes the route over from the row, in one transaction.
Queue ==
    /\ node = Nobody /\ row # Gone
    /\ row' = Gone /\ job' = IF row.route.state = "NONE" THEN job ELSE "PENDING"
    /\ UNCHANGED <<edge, wrong, at, copy, node, zone, accepted, lost, faults>>

-----------------------------------------------------------------------------
(* The environment *)

Aged(r) == [r EXCEPT !.checked = IF @ = "fresh" THEN "old" ELSE @]

\* A verification, from the host's check to the row's update, does not take that long.
TwentyMinutes ==
    /\ \A h \in Handlers : at[h] \notin Verifying
    /\ wrong' = Wrong(edge)
    /\ row' = [row EXCEPT !.route = Aged(@)] /\ copy' = [h \in Handlers |-> Aged(copy[h])]
    /\ UNCHANGED <<edge, job, at, node, zone, accepted, lost, faults>>

\* What others do to the zone and the host; no one makes anything with the panel's mark.
DriftsTo(rule) == IF rule = "ours" THEN {"none", "drifted"} ELSE IF rule = "drifted" THEN {"ours"} ELSE {}
DnsDriftsTo(dns) == IF dns = "none" THEN {"foreign"} ELSE IF dns = "foreign" THEN {"none"}
                    ELSE IF dns = "drifted" THEN {"ours"} ELSE {"none", "drifted", "foreign"}
Drift ==
    /\ Fault
    /\ \/ \E d \in DnsDriftsTo(edge.dns) : Becomes([edge EXCEPT !.dns = d])
       \/ \E d \in DriftsTo(edge.tls) : Becomes([edge EXCEPT !.tls = d])
       \/ \E d \in DriftsTo(edge.rule) : Becomes([edge EXCEPT !.rule = d])
       \/ Becomes([edge EXCEPT !.overlap = ~edge.overlap])
       \/ edge.guard /\ Becomes([edge EXCEPT !.guard = FALSE])
    /\ UNCHANGED <<row, job, at, copy, node, zone, accepted, lost>>

Crash(h) ==
    /\ at[h] # "idle" /\ Fault
    /\ Ends(h)
    /\ SameEdge /\ UNCHANGED <<row, copy, job, accepted, lost>>

\* One lock session breaks; its holder goes on.
LoseSession ==
    /\ Fault /\ lost' = TRUE
    /\ \/ node # Nobody /\ node' = Nobody /\ UNCHANGED zone
       \/ zone # Nobody /\ zone' = Nobody /\ UNCHANGED node
    /\ UNCHANGED <<edge, wrong, row, job, at, copy, accepted>>

Step(h) ==
    \/ Preflight(h) \/ Intent(h) \/ EnsureDns(h) \/ RecordDns(h) \/ EnsureTls(h) \/ RecordTls(h) \/ EnsureRule(h)
    \/ Configured(h) \/ Failed(h) \/ Install(h) \/ Verify(h) \/ Ready(h) \/ DeployEnd(h)
    \/ AuditHost(h) \/ AuditEnd(h)
    \/ Withdraw(h) \/ Stop(h) \/ RemoveRule(h) \/ RemoveTls(h) \/ RemoveDns(h) \/ Drop(h)

Next ==
    \/ \E h \in Handlers : Step(h) \/ DeployBegin(h) \/ AuditBegin(h) \/ RemoveBegin(h) \/ WorkBegin(h) \/ Crash(h)
    \/ Queue \/ TwentyMinutes \/ Drift \/ LoseSession
Spec == Init /\ [][Next]_vars

-----------------------------------------------------------------------------
(* Properties *)

\* What the panel has made at Cloudflare is known to a row or to an open job, whatever
\* answers are lost and whoever crashes, unless a lock session was lost.
Claimed ==
    edge.dns \in {"ours", "drifted"} \/ edge.tls # "none" \/ edge.rule # "none"
        => row.route.state \notin {"NONE", "GONE"} \/ job = "PENDING" \/ lost

\* A node is not given to clients any more when its mapping has been broken for 20 minutes,
\* even when no audit comes to look at it.
FailsClosed == wrong # {} => ~Exported

\* Once its removal has begun, a node is only published again by a deployment, unless a
\* lock session was lost: no audit takes a half-removed mapping for a good one.
NotRepublished == Exported => accepted \/ lost

\* The three of them, with the types: no orphan at Cloudflare, no broken mapping exported
\* for 20 minutes, no half-removed one published again.
OriginSafe == TypeOK /\ Claimed /\ FailsClosed /\ NotRepublished

(* When what was broken is as it should be again, the audit finds that out, and a node  *)
(* that had been accepted is exported again without a deployment.                       *)
Repaired == Wrong(edge) = {} /\ row.running /\ accepted
=============================================================================
