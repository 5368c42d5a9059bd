----------------------------- MODULE MCProgress -----------------------------
(***************************************************************************)
(* What must come to pass, for TLC: each behaviour is one of one component *)
(* on an instance that is smaller than that of the safety properties, so   *)
(* that their states add up. TaskViews is the component that is extended;  *)
(* its variables keep their initial values in the behaviours of others.    *)
(***************************************************************************)
EXTENDS TaskViews, TLC

CONSTANTS Absent, Unused, n1, n2, s1, s2

\* The component that this behaviour is one of, and the places its variables are held in.
VARIABLES part, v1, v2, v3, v4, v5, v6, v7, v8, v9, v10, v11, v12, v13, v14, v15, v16, v17, v18

MCVars == <<part, v1, v2, v3, v4, v5, v6, v7, v8, v9, v10, v11, v12, v13, v14, v15, v16, v17, v18, task,
           stream, aborted, current, opened, lines, status, fresh>>

\* The sets the instances share.
BothJobs == {"j", "k"}
SameProbe == [x \in BothJobs |-> "probe"]
Drifts == {"off", "plain", "cdn", "cdnx", "lost"}

\* An update of a node with its nested deployment, and the cleanup of a chain exit on the
\* same server: they take core and ports of s2 in opposite orders.
CrossEntry == n1 :> s1 @@ n2 :> s2
CrossExit == n1 :> s2 @@ n2 :> s1
ById == n1 :> 1 @@ n2 :> 2 @@ s1 :> 1 @@ s2 :> 2 @@ <<n1, s2>> :> 1
K == INSTANCE PanelLocks WITH
    EntryOf <- CrossEntry, ExitOf <- CrossExit, GraphOf <- <<>>, Order <- ById, NoServer <- Absent
UpdateCalls == {<<"update", n2>>, <<"update/deploy", n2>>, <<"cleanup", <<n1, s2>>>>}
UpdateKeys == {K!NodeLock(n1), K!NodeLock(n2), K!CleanupLock(<<n1, s2>>), K!Core(s1), K!Core(s2), K!Ports(s2)}
KeyRank == [k \in UpdateKeys |-> Cardinality({j \in UpdateKeys : K!SortRank(j) <= K!SortRank(k)})]
Listing == [x \in UpdateCalls |-> K!KeysOf(x)]
Nesting == [x \in UpdateCalls |-> IF K!Inside(x) THEN K!OuterOf(x) ELSE Unused]
Belonging == [x \in UpdateCalls |-> IF K!Inside(x) THEN K!OuterOf(x) ELSE x]

\* Two tasks and one drawer.
TInit == part = "drawer" /\ v1 = Unused /\ v2 = Unused /\ v3 = Unused /\ v4 = Unused /\ v5 = Unused
         /\ v6 = Unused /\ v7 = Unused /\ v8 = Unused /\ v9 = Unused /\ v10 = Unused /\ v11 = Unused
         /\ v12 = Unused /\ v13 = Unused /\ v14 = Unused /\ v15 = Unused /\ v16 = Unused /\ v17 = Unused /\ v18 = Unused
TStep(Act) == part = "drawer" /\ Act /\ UNCHANGED <<part, v1, v2, v3, v4, v5, v6, v7, v8, v9, v10, v11, v12, v13, v14, v15, v16, v17, v18>>

\* Two releases, the second of which never gets a heartbeat acknowledged.
A == INSTANCE AgentUpdate WITH
    exe <- v1, previous <- v2, timer <- v3, agent <- v4, update <- v5, latest <- v6,
    cache <- v7, pending <- v8, since <- v9, handling <- v10, proven <- v11, due <- v12,
    faults <- v13,
    MaxRelease <- 2, Broken <- {2}, Handlers <- {"h1"}, MaxFaults <- 1, CanReboot <- FALSE,
    Nothing <- Absent
AInit == part = "update" /\ A!Init /\ v14 = Unused /\ v15 = Unused /\ v16 = Unused /\ v17 = Unused /\ v18 = Unused
AStep(Act) == part = "update" /\ Act /\ UNCHANGED <<part, v14, v15, v16, v17, v18, vars>>

\* One grant, two identities.
C == INSTANCE UsageCredentials WITH
    grant <- v1, lookup <- v2, installed <- v3, revoked <- v4, removed <- v5, prepared <- v6,
    valid <- v7, file <- v8, manifest <- v9, runtime <- v10, sync <- v11, download <- v12,
    exported <- v13, faults <- v14,
    Grants <- {"g1"}, Ids <- {1, 2}, Limit <- 2, MaxFaults <- 1, Nothing <- Absent
CInit == part = "identities" /\ C!Init /\ v15 = Unused /\ v16 = Unused /\ v17 = Unused /\ v18 = Unused
CStep(Act) == part = "identities" /\ Act /\ UNCHANGED <<part, v15, v16, v17, v18, vars>>

\* One node, one renewal.
D == INSTANCE CertDelivery WITH
    store <- v1, due <- v2, files <- v3, backup <- v4, loaded <- v5, enabled <- v6,
    flagged <- v7, run <- v8, job <- v9, interrupted <- v10, faults <- v11, managed <- v12,
    Nodes <- {"n1"}, MaxPair <- 1, MaxFaults <- 1, Nothing <- Absent
DInit == part = "delivery" /\ D!Init /\ v13 = Unused /\ v14 = Unused /\ v15 = Unused /\ v16 = Unused
         /\ v17 = Unused /\ v18 = Unused
DStep(Act) == part = "delivery" /\ Act /\ UNCHANGED <<part, v13, v14, v15, v16, v17, v18, vars>>

\* One node that drifts.
G == INSTANCE ExportGroups WITH
    kind <- v1, pool <- v2, auto <- v3, config <- v4, cache <- v5, current <- v6,
    Nodes <- {"a"}, Ips <- {"i1", "i2"}, Dns <- "dns", Kinds <- Drifts
GInit == part = "refresh" /\ G!Init /\ v7 = Unused /\ v8 = Unused /\ v9 = Unused /\ v10 = Unused
         /\ v11 = Unused /\ v12 = Unused /\ v13 = Unused /\ v14 = Unused /\ v15 = Unused /\ v16 = Unused
         /\ v17 = Unused /\ v18 = Unused
GStep(Act) == part = "refresh" /\ Act /\ UNCHANGED <<part, v7, v8, v9, v10, v11, v12, v13, v14, v15, v16, v17, v18, vars>>

\* A budget for one batch in a month, which is one day long here; who is paused stays so.
O == INSTANCE CfOptimization WITH
    lock <- v1, phase <- v2, todo <- v3, job <- v4, read <- v5, keys <- v6, order <- v7,
    recent <- v8, waiting <- v9, pausedJobs <- v10, month <- v11, day <- v12, batches <- v13,
    requests <- v14, billed <- v15, tested <- v16, faults <- v17, early <- v18,
    Replicas <- {"p"}, Jobs <- BothJobs, Probe <- SameProbe, MaxMonthly <- 1, MaxDaily <- 2,
    Batch <- 2, MaxFaults <- 0, Faults <- {}
OneDay == v12' # v12 => v11' # v11
OInit == part = "starve" /\ O!Init
OStep(Act) == part = "starve" /\ Act /\ UNCHANGED <<part, vars>>

\* One check of a server whose address changes.
I == INSTANCE IpCheck WITH
    server <- v1, row <- v2, tags <- v3, check <- v4, agent <- v5, handlers <- v6, runs <- v7,
    requests <- v8, faults <- v9, up <- v10,
    Ips <- {"a", "b"}, Checks <- {"c1"}, MaxRuns <- 1, MaxRequests <- 2, MaxFaults <- 1,
    Nothing <- Absent
IInit == part = "settle" /\ I!Init /\ v11 = Unused /\ v12 = Unused /\ v13 = Unused /\ v14 = Unused /\ v15 = Unused
         /\ v16 = Unused /\ v17 = Unused /\ v18 = Unused
IStep(Act) == part = "settle" /\ Act /\ UNCHANGED <<part, v11, v12, v13, v14, v15, v16, v17, v18, vars>>

\* Two operators and the hourly round compete for one slot.
P == INSTANCE ProbeProcesses WITH
    at <- v1, running <- v2, queue <- v3, port <- v4, listens <- v5, spawned <- v6,
    files <- v7, via <- v8, result <- v9, remaining <- v10,
    Tests <- {"t1", "t2"}, External <- {}, NeedUdp <- {"t1"}, Round <- "cron", Nodes <- 2,
    MaxRunning <- 1, Ports <- {1}
PInit == part = "slots" /\ P!Init /\ v11 = Unused /\ v12 = Unused /\ v13 = Unused /\ v14 = Unused /\ v15 = Unused
         /\ v16 = Unused /\ v17 = Unused /\ v18 = Unused
PStep(Act) == part = "slots" /\ Act /\ UNCHANGED <<part, v11, v12, v13, v14, v15, v16, v17, v18, vars>>

\* One heartbeat at a time.
H == INSTANCE Heartbeats WITH
    status <- v1, seen <- v2, node <- v3, hosted <- v4, agent <- v5, last <- v6, total <- v7,
    traffic <- v8, service <- v9, wire <- v10, handlers <- v11, base <- v12, counted <- v13,
    again <- v14, Services <- {"RUNNING", "ERROR"}, MaxTraffic <- 0, MaxAgain <- 0, MaxWire <- 1, MaxHandlers <- 1
HInit == part = "silent" /\ H!Init /\ v15 = Unused /\ v16 = Unused /\ v17 = Unused /\ v18 = Unused
HStep(Act) == part = "silent" /\ Act /\ UNCHANGED <<part, v15, v16, v17, v18, vars>>

\* One installation that is tried again.
N == INSTANCE AgentInstall WITH
    at <- v1, upgrade <- v2, outcome <- v3, binary <- v4, writers <- v5, config <- v6,
    unit <- v7, enabled <- v8, agent <- v9, faults <- v10,
    Sessions <- {"a"}, Manual <- {}, MaxFaults <- 3
NInit == part = "retry" /\ N!Init /\ v11 = Unused /\ v12 = Unused /\ v13 = Unused /\ v14 = Unused /\ v15 = Unused
         /\ v16 = Unused /\ v17 = Unused /\ v18 = Unused
NStep(Act) == part = "retry" /\ Act /\ UNCHANGED <<part, v11, v12, v13, v14, v15, v16, v17, v18, vars>>

\* Calls that may wait for each other until a lock timeout.
L == INSTANCE AdvisoryLock WITH
    phase <- v1, acquired <- v2, owner <- v3, session <- v4, noticed <- v5, failed <- v6,
    unclean <- v7, made <- v8,
    Calls <- UpdateCalls, Keys <- UpdateKeys, Rank <- KeyRank, Listed <- Listing,
    Within <- Nesting, Request <- Belonging, MaxBroken <- 1, NoCall <- Unused, Nobody <- Absent
LInit == part = "locks" /\ L!Init /\ v9 = Unused /\ v10 = Unused /\ v11 = Unused /\ v12 = Unused /\ v13 = Unused
         /\ v14 = Unused /\ v15 = Unused /\ v16 = Unused /\ v17 = Unused /\ v18 = Unused
LStep(Act) == part = "locks" /\ Act /\ UNCHANGED <<part, v9, v10, v11, v12, v13, v14, v15, v16, v17, v18, vars>>

\* Two addresses, one session that breaks.
X == INSTANCE ExitSelection WITH
    own <- v1, others <- v2, ahead <- v3, retry <- v4, round <- v5, up <- v6, probe <- v7,
    seen <- v8, count <- v9, processes <- v10, result <- v11, faults <- v12,
    V4 <- {"a"}, V6 <- {"z"}, MaxCandidates <- 2, MaxFaults <- 1
XInit == part = "exit" /\ X!Init /\ v13 = Unused /\ v14 = Unused /\ v15 = Unused /\ v16 = Unused /\ v17 = Unused /\ v18 = Unused
XStep(Act) == part = "exit" /\ Act /\ UNCHANGED <<part, v13, v14, v15, v16, v17, v18, vars>>

\* One audit, deployment or removal at a time, and a fault.
R == INSTANCE CfOrigin WITH
    edge <- v1, row <- v2, job <- v3, at <- v4, copy <- v5, node <- v6, zone <- v7,
    wrong <- v8, accepted <- v9, lost <- v10, faults <- v11,
    Handlers <- {n1}, Nobody <- Absent, MaxFaults <- 1
RInit == part = "origin" /\ R!Init /\ v12 = Unused /\ v13 = Unused /\ v14 = Unused /\ v15 = Unused
         /\ v16 = Unused /\ v17 = Unused /\ v18 = Unused
RStep(Act) == part = "origin" /\ Act /\ UNCHANGED <<part, v12, v13, v14, v15, v16, v17, v18, vars>>

MCInit == Init /\ (TInit \/ AInit \/ CInit \/ DInit \/ GInit \/ OInit \/ IInit \/ PInit \/ HInit \/ NInit \/ LInit \/ XInit \/ RInit)
MCNext ==
    \/ TStep(Next) \/ AStep(A!Next) \/ CStep(C!Next) \/ DStep(D!Next) \/ GStep(G!Next) \/ OStep(O!Next /\ O!LongMonths /\ O!StayPaused /\ OneDay)
    \/ IStep(I!Next) \/ PStep(P!Next) \/ HStep(H!Next) \/ NStep(N!Next) \/ LStep(L!Next) \/ XStep(X!Next)
    \/ RStep(R!Next)
MCSpec == MCInit /\ [][MCNext]_MCVars

ASSUME Assumptions ==
    /\ A!ReleaseAssumption /\ C!CredentialAssumption /\ D!CertAssumption
    /\ G!DnsAssumption /\ G!KindsAssumption /\ O!BudgetAssumption /\ O!ReplicasAssumption /\ O!JobsAssumption
    /\ I!IpCheckAssumption /\ P!ProbeAssumption /\ H!HeartbeatAssumption
    /\ N!InstallAssumption /\ X!SelectionAssumption /\ R!OriginAssumption

-----------------------------------------------------------------------------
(* Fairness. A behaviour is one of one component, so each formula holds one condition of  *)
(* every component that needs as many; README.md gives the reason for each.               *)

Turn1 ==
    \/ AStep(A!Loop) \/ CStep(C!Syncing) \/ DStep(D!IssueKey) \/ GStep(G!Refresh("a", TRUE))
    \/ OStep(O!Tick("p")) \/ IStep(I!Restart) \/ PStep(P!RoundNext) \/ HStep(H!TwoMinutes)
    \/ NStep(N!SystemdRetries) \/ XStep(X!ProbeBegin) \/ TStep(Settle("t1"))
    \/ LStep(L!Step(<<"update", n2>>)) \/ RStep(R!Step(n1))
Turn2 ==
    \/ AStep(A!Updating) \/ CStep(C!Downloading) \/ DStep(D!IssueCert) \/ OStep(O!Pick("p"))
    \/ IStep(I!TenMinutes) \/ PStep(P!RoundGotResult) \/ HStep(H!markStaleServersOffline)
    \/ NStep(N!Begin("a")) \/ XStep(X!ProbeEnd) \/ TStep(Settle("t2"))
    \/ LStep(L!Step(<<"update/deploy", n2>>)) \/ RStep(R!AuditBegin(n1))
Turn3 ==
    \/ AStep(A!Watchdog) \/ DStep(D!DailyRun) \/ OStep(O!Finish("p")) \/ IStep(I!ExpireStaleChecks)
    \/ PStep(P!Step("t1")) \/ HStep(H!GiveUp) \/ NStep(N!Install("a")) \/ XStep(X!RoundEnds)
    \/ LStep(L!Step(<<"cleanup", <<n1, s2>>>>))
Turn4 ==
    \/ AStep(A!WindowPasses) \/ DStep(D!Step("n1")) \/ OStep(O!Measuring("p"))
    \/ IStep(I!AgentStep) \/ PStep(P!Step("t2")) \/ NStep(N!GoesOn("a")) \/ HStep(H!Post)
Turn5 ==
    \/ AStep(A!Answer("h1")) \/ OStep(O!NextSlot) \/ IStep(I!PanelStep("c1"))
    \/ PStep(P!Step("cron")) \/ HStep(H!Arrive)
Turn6 == OStep(O!RetryDue) \/ IStep(I!ScheduledGfwCheck("c1")) \/ HStep(H!Handle(1))

\* What others may disable again and again, and still happens again and again.
Luck ==
    \/ AStep(A!Heard) \/ CStep(C!SyncBegin(FALSE)) \/ DStep(D!RefreshBegin("n1"))
    \/ OStep(O!NewMonth)

MCFairSpec ==
    /\ MCSpec
    /\ WF_MCVars(Turn1) /\ WF_MCVars(Turn2) /\ WF_MCVars(Turn3)
    /\ WF_MCVars(Turn4) /\ WF_MCVars(Turn5) /\ WF_MCVars(Turn6)
    /\ SF_MCVars(Luck)

-----------------------------------------------------------------------------
(* Properties, besides those of TaskViews; what the predicates say of the code is told    *)
(* where they are defined.                                                                *)

\* AgentUpdate: as long as the machine stays up, an executable no heartbeat vouches for is
\* under a watchdog, whatever process dies; one that cannot reach the panel never stays; an
\* update request ends, also when the release cannot run, is reverted and delivered again.
\* Heartbeats: an agent that stays silent is shown offline, whatever of it is still under
\* way; once no request is lost and the panel stays up, the chain node's row comes to say
\* what its service does, again and again, though deployments say otherwise.
\* AgentInstall: whatever an installation left behind, trying again gets an agent to run.
AgentsHeal ==
    /\ [](part = "update" => A!TypeOK /\ A!Supervised)
    /\ []<>(part = "update" => A!Vouched)
    /\ []<>(part = "update" => ~A!Asked)
    /\ <>[](part = "silent" /\ H!AgentSilent) => <>[](part = "silent" => ~H!ShownOnline)
    /\ \A s \in {"RUNNING", "ERROR"} :
          <>[](part = "silent" /\ H!Reporting(s)) /\ <>[][~HStep(H!Lose) /\ ~HStep(H!Restart)]_MCVars
              => []<>(part = "silent" /\ H!NodeShows(s))
    /\ []<>(part = "retry" => N!Runs)

\* UsageCredentials: a revocation is carried out on the node, unless its file was changed
\* by others. CertDelivery: a renewed pair arrives at the node, or an operator is told.
\* ExportGroups: a client that refreshes stops to use a node whose protection was lost.
\* CfOrigin: when what was broken is as it should be again, the audit finds that out and
\* the node is exported again without a deployment.
AccessFollows ==
    /\ \A i \in {1, 2} : []<>(part = "identities" => (C!Revoked(i) => C!CarriedOut(i)))
    /\ []<>(part = "delivery" => (D!Renewed(1) => D!Arrived("n1", 1)))
    /\ <>[](part = "refresh" /\ G!Lost("a")) => []<>(part = "refresh" /\ G!Left("a"))
    /\ <>[](part = "origin" /\ R!Repaired) => []<>(part = "origin" /\ R!Exported)

\* CfOptimization: where the month's budget is too small for all jobs, none starves: each
\* gets a batch again and again unless its node is paused. IpCheck: no check stays RUNNING,
\* whatever becomes of agent and panel, and in the end the verdict is one about the
\* server's present address. ProbeProcesses: who waits for a slot gets it, a test that was
\* asked for ends, and so does the hourly round, however often operators test in between.
\* AdvisoryLock: every call ends, even where nested calls take locks out of order.
\* ExitSelection: the choice of an exit comes to an end. TaskViews: every drawer stops to
\* spin.
WorkEnds ==
    /\ \A j \in {"j", "k"} : []<>(part = "starve" => O!Paused(j) \/ O!Granted(j))
    /\ []<>(part = "settle" => ~I!Running)
    /\ <>[](part = "settle" => I!FlagIsCurrent)
    /\ \A t \in {"t1", "t2", "cron"} : []<>(part = "slots" => P!Ended(t))
    /\ []<>(part = "slots" => P!RoundOver)
    /\ \A x \in UpdateCalls : []<>(part = "locks" => L!AtRest(x))
    /\ []<>(part = "exit" => X!HasDecided)
    /\ Settles
=============================================================================
