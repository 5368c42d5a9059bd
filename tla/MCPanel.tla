------------------------------ MODULE MCPanel -------------------------------
(***************************************************************************)
(* What the panel does for itself and its users, for TLC: each behaviour   *)
(* is one of one component on a small instance, so that their states add   *)
(* up. Sessions is the component that is extended; its variables keep      *)
(* their initial values in the behaviours of others. Liveness is in        *)
(* MCProgress.                                                             *)
(***************************************************************************)
EXTENDS Sessions, Sequences

CONSTANTS Nothing, Unused

\* The component that this behaviour is one of, and the places its variables are held in.
VARIABLES part, v1, v2, v3, v4, v5, v6, v7, v8, v9, v10, v11, v12, v13, v14, v15, v16, v17, v18

MCVars == <<part, v1, v2, v3, v4, v5, v6, v7, v8, v9, v10, v11, v12, v13, v14, v15, v16, v17, v18,
           password, version, signed, revoked, expired, request, oauth, begun, logins>>

\* The sets the instances share.
ThreeIps == <<"i1", "i2", "i3">>
TwoIps == <<"i1", "i2">>
OneConfig == {"c1"}
TwoConfigs == {"c1", "c2"}
GainMillis == {2, 3}
MarginMillis == {4, 5}
TwoMillis == {3, 4}
OneMilli == {3}
Samples == {10, 13}
OnePanel == {"p"}
TwoPanels == {"p", "q"}
OneJob == {"j"}
TwoJobs == {"j", "k"}
OneProbe == [x \in OneJob |-> "probe"]
TwoProbe == [x \in TwoJobs |-> "probe"]

\* A few tokens and requests of one user.
SInit == part = "sessions" /\ v1 = Unused /\ v2 = Unused /\ v3 = Unused /\ v4 = Unused /\ v5 = Unused
         /\ v6 = Unused /\ v7 = Unused /\ v8 = Unused /\ v9 = Unused /\ v10 = Unused /\ v11 = Unused
         /\ v12 = Unused /\ v13 = Unused /\ v14 = Unused /\ v15 = Unused /\ v16 = Unused /\ v17 = Unused /\ v18 = Unused
SStep(Act) == part = "sessions" /\ Act /\ UNCHANGED <<part, v1, v2, v3, v4, v5, v6, v7, v8, v9, v10, v11, v12, v13, v14, v15, v16, v17, v18>>

\* Two administrators and a user, two requests at once.
A == INSTANCE Accounts WITH
    role <- v1, password <- v2, bound <- v3, invite <- v4, used <- v5, registered <- v6,
    request <- v7,
    Users <- {"a1", "a2", "u"}, Admins <- {"a1"}, Requests <- {"r1", "r2"}, MaxUses <- 2
AInit == part = "accounts" /\ A!Init /\ v8 = Unused /\ v9 = Unused /\ v10 = Unused /\ v11 = Unused /\ v12 = Unused
         /\ v13 = Unused /\ v14 = Unused /\ v15 = Unused /\ v16 = Unused /\ v17 = Unused /\ v18 = Unused
ANext == part = "accounts" /\ A!Next /\ UNCHANGED <<part, v8, v9, v10, v11, v12, v13, v14, v15, v16, v17, v18, vars>>

\* Every short text, cut into pieces in every way.
E == INSTANCE EventStream WITH
    text <- v1, got <- v2, closed <- v3, buffer <- v4, data <- v5, size <- v6, events <- v7,
    outcome <- v8, phase <- v9,
    MaxLength <- 5, Limit <- 3
EInit == part = "stream" /\ E!Init /\ v10 = Unused /\ v11 = Unused /\ v12 = Unused /\ v13 = Unused /\ v14 = Unused
         /\ v15 = Unused /\ v16 = Unused /\ v17 = Unused /\ v18 = Unused
ENext == part = "stream" /\ E!Next /\ UNCHANGED <<part, v10, v11, v12, v13, v14, v15, v16, v17, v18, vars>>

\* Two operators' tests, one of an external node, and the hourly round.
P == INSTANCE ProbeProcesses WITH
    at <- v1, running <- v2, queue <- v3, port <- v4, listens <- v5, spawned <- v6,
    files <- v7, via <- v8, result <- v9, remaining <- v10,
    Tests <- {"t1", "t2"}, External <- {"t2"}, NeedUdp <- {"t1"}, Round <- "cron", Nodes <- 2,
    MaxRunning <- 2, Ports <- {1, 2}
PInit == part = "probes" /\ P!Init /\ v11 = Unused /\ v12 = Unused /\ v13 = Unused /\ v14 = Unused /\ v15 = Unused
         /\ v16 = Unused /\ v17 = Unused /\ v18 = Unused
PNext == part = "probes" /\ P!Next /\ UNCHANGED <<part, v11, v12, v13, v14, v15, v16, v17, v18, vars>>

\* One server with two addresses and two executions of the check at once.
I == INSTANCE IpCheck WITH
    server <- v1, row <- v2, tags <- v3, check <- v4, agent <- v5, handlers <- v6, runs <- v7,
    requests <- v8, faults <- v9, up <- v10,
    Ips <- {"a", "b"}, Checks <- {"c1", "c2"}, MaxRuns <- 2, MaxRequests <- 2, MaxFaults <- 1
IInit == part = "checks" /\ I!Init /\ v11 = Unused /\ v12 = Unused /\ v13 = Unused /\ v14 = Unused /\ v15 = Unused
         /\ v16 = Unused /\ v17 = Unused /\ v18 = Unused
INext == part = "checks" /\ I!Next /\ UNCHANGED <<part, v11, v12, v13, v14, v15, v16, v17, v18, vars>>

\* Three addresses for two slots, so that one waits for a place; from 3 to 2 is a gain of
\* more than 20%.
R == INSTANCE CfRanking WITH
    config <- v1, row <- v2, paused <- v3, probing <- v4,
    Discovered <- ThreeIps, Latencies <- GainMillis, Configs <- OneConfig, Slots <- 2, Speeds <- {}
RInit == part = "ranking" /\ R!Init /\ v5 = Unused /\ v6 = Unused /\ v7 = Unused /\ v8 = Unused /\ v9 = Unused
         /\ v10 = Unused /\ v11 = Unused /\ v12 = Unused /\ v13 = Unused /\ v14 = Unused /\ v15 = Unused
         /\ v16 = Unused /\ v17 = Unused /\ v18 = Unused
RNext == part = "ranking" /\ (R!StartProbe \/ R!Measured) /\ UNCHANGED <<part, v5, v6, v7, v8, v9, v10, v11, v12, v13, v14, v15, v16, v17, v18, vars>>

\* The same, with a marginal gain only.
G == INSTANCE CfRanking WITH
    config <- v1, row <- v2, paused <- v3, probing <- v4,
    Discovered <- ThreeIps, Latencies <- MarginMillis, Configs <- OneConfig, Slots <- 2, Speeds <- {}
GInit == part = "margin" /\ G!Init /\ v5 = Unused /\ v6 = Unused /\ v7 = Unused /\ v8 = Unused /\ v9 = Unused
         /\ v10 = Unused /\ v11 = Unused /\ v12 = Unused /\ v13 = Unused /\ v14 = Unused /\ v15 = Unused
         /\ v16 = Unused /\ v17 = Unused /\ v18 = Unused
GNext == part = "margin" /\ (G!StartProbe \/ G!Measured) /\ UNCHANGED <<part, v5, v6, v7, v8, v9, v10, v11, v12, v13, v14, v15, v16, v17, v18, vars>>

\* Three addresses for two slots, ranked by throughput where it is known of all: from 10 to
\* 13 is a gain of more than 20%; equal samples are none.
T == INSTANCE CfRanking WITH
    config <- v1, row <- v2, paused <- v3, probing <- v4,
    Discovered <- ThreeIps, Latencies <- OneMilli, Configs <- OneConfig, Slots <- 2, Speeds <- Samples
TInit == part = "throughput" /\ T!Init /\ v5 = Unused /\ v6 = Unused /\ v7 = Unused /\ v8 = Unused /\ v9 = Unused
         /\ v10 = Unused /\ v11 = Unused /\ v12 = Unused /\ v13 = Unused /\ v14 = Unused /\ v15 = Unused
         /\ v16 = Unused /\ v17 = Unused /\ v18 = Unused
TNext == part = "throughput" /\ (T!StartProbe \/ T!Measured \/ T!Lapse) /\ UNCHANGED <<part, v5, v6, v7, v8, v9, v10, v11, v12, v13, v14, v15, v16, v17, v18, vars>>

\* Two addresses for one slot, and two configurations.
B == INSTANCE CfRanking WITH
    config <- v1, row <- v2, paused <- v3, probing <- v4,
    Discovered <- TwoIps, Latencies <- TwoMillis, Configs <- TwoConfigs, Slots <- 1, Speeds <- {}
BInit == part = "rollback" /\ B!Init /\ v5 = Unused /\ v6 = Unused /\ v7 = Unused /\ v8 = Unused /\ v9 = Unused
         /\ v10 = Unused /\ v11 = Unused /\ v12 = Unused /\ v13 = Unused /\ v14 = Unused /\ v15 = Unused
         /\ v16 = Unused /\ v17 = Unused /\ v18 = Unused
BNext == part = "rollback" /\ B!Next /\ UNCHANGED <<part, v5, v6, v7, v8, v9, v10, v11, v12, v13, v14, v15, v16, v17, v18, vars>>

\* One panel with two nodes that one probe measures.
O == INSTANCE CfOptimization WITH
    lock <- v1, phase <- v2, todo <- v3, job <- v4, read <- v5, keys <- v6, order <- v7,
    recent <- v8, waiting <- v9, pausedJobs <- v10, month <- v11, day <- v12, batches <- v13,
    requests <- v14, billed <- v15, tested <- v16, faults <- v17, early <- v18,
    Replicas <- OnePanel, Jobs <- TwoJobs, Probe <- TwoProbe, MaxMonthly <- 1, MaxDaily <- 3,
    Batch <- 2, MaxFaults <- 1, Faults <- {"crash", "changed"}
OInit == part = "cycles" /\ O!Init
ONext == part = "cycles" /\ O!Next /\ UNCHANGED <<part, vars>>

\* Two panels, one of which may lose its lock session.
M == INSTANCE CfOptimization WITH
    lock <- v1, phase <- v2, todo <- v3, job <- v4, read <- v5, keys <- v6, order <- v7,
    recent <- v8, waiting <- v9, pausedJobs <- v10, month <- v11, day <- v12, batches <- v13,
    requests <- v14, billed <- v15, tested <- v16, faults <- v17, early <- v18,
    Replicas <- TwoPanels, Jobs <- OneJob, Probe <- OneProbe, MaxMonthly <- 2, MaxDaily <- 1,
    Batch <- 1, MaxFaults <- 1, Faults <- {"lost"}
MInit == part = "panels" /\ M!Init
MNext == part = "panels" /\ M!Next /\ UNCHANGED <<part, vars>>

MCInit == Init /\ (SInit \/ AInit \/ EInit \/ PInit \/ IInit \/ RInit \/ GInit \/ TInit \/ BInit \/ OInit \/ MInit)
MCNext == SStep(Next) \/ ANext \/ ENext \/ PNext \/ INext \/ RNext \/ GNext \/ TNext \/ BNext \/ ONext \/ MNext
MCSpec == MCInit /\ [][MCNext]_MCVars

\* The published addresses after rounds of measurements; what a rollback would return to,
\* and how old that is, plays no part in them. What a cycle read for a measurement that is
\* over is not looked at again.
ReadByCycle(r) ==
    CASE v2[r] = "idle" -> Unused
      [] v2[r] \in {"cycle", "retry"} -> v18[r]
      [] v2[r] = "write" -> <<v18[r], v5[r], v6[r]>>
      [] OTHER -> <<v18[r], v6[r]>>
View ==
    CASE part \in {"ranking", "margin", "throughput"} -> <<part, v2.observations, v2.published, v4>>
      [] part \in {"cycles", "panels"} ->
            <<part, v1, v2, v3, v4, v7, v8, v9, v10, v11, v12, v13, v14, v15, v16, v17,
              [r \in DOMAIN v2 |-> ReadByCycle(r)]>>
      [] OTHER -> MCVars

ASSUME Assumptions ==
    /\ A!AccountAssumption /\ E!StreamAssumption /\ P!ProbeAssumption /\ I!IpCheckAssumption
    /\ R!SlotsAssumption /\ R!LatencyAssumption /\ G!SlotsAssumption /\ G!LatencyAssumption
    /\ T!SlotsAssumption /\ T!LatencyAssumption /\ B!SlotsAssumption /\ B!LatencyAssumption
    /\ O!BudgetAssumption /\ O!ReplicasAssumption /\ O!JobsAssumption /\ M!BudgetAssumption
    /\ M!ReplicasAssumption /\ M!JobsAssumption

-----------------------------------------------------------------------------
(* Properties, besides those of Sessions; what they say of the code is told where they are *)
(* defined.                                                                                *)

\* Accounts: every account that was created with an invite code is counted, those
\* registered at one time too. IpCheck: as long as nothing broke, a server's tags are those
\* of the results its row shows once the panel is done with the reports, though the two are
\* written apart.
RowsFollow ==
    /\ part = "accounts" => A!TypeOK /\ A!UsesCounted
    /\ part = "checks" => I!TypeOK /\ I!TagsFollowResults

\* EventStream: however the text is cut into pieces, the same events are handed on and the
\* same outcome is answered; the end of a connection is not taken for success: success was
\* said; and what is kept does not grow past an event and the piece that came last.
StreamsSafe == part = "stream" => E!TypeOK /\ E!EveryCut /\ E!SuccessIsSaid /\ E!Bounded

\* ProbeProcesses: tests that are not under way leave neither a core nor their credentials
\* in /tmp; no slot is lost by a test that fails, none is given out twice when a waiting
\* test takes over; and a test is reported reachable over TCP only when its node need not
\* carry UDP.
ProbesSafe == part = "probes" => P!TypeOK /\ P!NothingLeft /\ P!SlotsMatch /\ P!NoHalfSuccess

\* CfRanking: a client is never given an address that was seen to fail twice with its
\* configuration, and READY is only shown of a node whose clients have a measured address.
\* CfOptimization: no month has more batches called than the operator allows, whatever
\* crashes, fails or loses its lock, and however many panels run; as long as no session of a
\* lock is lost, no day has more candidates tested by one probe than its ceiling, and a cycle
\* that holds its lock makes no call for a paused node.
\* CfRanking: while the first address passes it stays the first, unless the new one is 20%
\* better; one that has not failed twice only leaves the list to others that are 20%
\* better; what an operator rolls back to is what clients get until the operator resumes;
\* and a round without a second failure never leaves clients without any address.
MeasuredSafe ==
    /\ [](/\ part = "ranking" => R!TypeOK
          /\ part = "margin" => G!TypeOK
          /\ part = "throughput" => T!TypeOK
          /\ part = "rollback" => B!TypeOK /\ B!FailedNotExported /\ B!ReadyExports
          /\ part = "cycles" => O!TypeOK /\ O!DailyCeiling /\ O!MonthlyCeiling /\ O!PausedIsFree
          /\ part = "panels" => M!TypeOK /\ M!MonthlyCeiling /\ M!PausedIsFree /\ (v17 = 0 => M!DailyCeiling))
    /\ [][/\ part = "ranking" => R!PrimaryStays /\ R!OthersStay
          /\ part = "margin" => G!PrimaryStays /\ G!OthersStay
          /\ part = "throughput" => T!PrimaryStays /\ T!OthersStay
          /\ part = "rollback" => B!RollbackHolds /\ B!NeverEmptied]_MCVars
=============================================================================
