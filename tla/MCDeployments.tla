--------------------------- MODULE MCDeployments ----------------------------
(***************************************************************************)
(* What the panel does to servers, for TLC: each behaviour is one of one   *)
(* component on a small instance, so that their states add up. CfOrigin is *)
(* the component that is extended, with two handlers of one mapped node    *)
(* and one fault; its variables keep their initial values in the           *)
(* behaviours of others. Liveness is in MCProgress.                        *)
(***************************************************************************)
EXTENDS CfOrigin, TLC

CONSTANTS Nothing, n1, n2, Unused

\* The component that this behaviour is one of, and the places its variables are held in.
VARIABLES part, v1, v2, v3, v4, v5, v6, v7, v8, v9, v10, v11, v12, v13, v14, v15

places == <<part, v1, v2, v3, v4, v5, v6, v7, v8, v9, v10, v11, v12, v13, v14, v15>>
MCVars == <<places, vars>>
Nowhere ==
    /\ v1 = Unused /\ v2 = Unused /\ v3 = Unused /\ v4 = Unused /\ v5 = Unused /\ v6 = Unused /\ v7 = Unused
    /\ v8 = Unused /\ v9 = Unused /\ v10 = Unused /\ v11 = Unused /\ v12 = Unused /\ v13 = Unused /\ v14 = Unused /\ v15 = Unused

\* What is asked for a port: how it is chosen, whether statistics are kept beside it, entry
\* and exit.
PortRequests ==
    {<<"mapped", TRUE, "s", "none">>,
     <<"range", FALSE, "s", "none">>, <<"fixed", TRUE, "t", "s">>}

\* Nodes are alike.
Alike == Permutations({n1, n2})

\* One edit of a direct or chained node, with three faults.
D == INSTANCE DeployTransaction WITH
    uses <- v1, value <- v2, saved <- v3, held <- v4, lost <- v5, at <- v6, flagged <- v7,
    answer <- v8, said <- v9, status <- v10, row <- v11, dns <- v12, replied <- v13,
    faults <- v14, pair <- v15,
    MaxFaults <- 3, Legacy <- FALSE
DInit == part = "deploy" /\ D!Init
DNext == part = "deploy" /\ D!Next /\ UNCHANGED part

\* The same of a legacy node, whose caller does not wait.
L == INSTANCE DeployTransaction WITH
    uses <- v1, value <- v2, saved <- v3, held <- v4, lost <- v5, at <- v6, flagged <- v7,
    answer <- v8, said <- v9, status <- v10, row <- v11, dns <- v12, replied <- v13,
    faults <- v14, pair <- v15,
    MaxFaults <- 3, Legacy <- TRUE
LInit == part = "legacy" /\ L!Init
LNext == part = "legacy" /\ L!Next /\ UNCHANGED part

\* Two nodes without a minimum version, an XHTTP and a REALITY node.
K == INSTANCE CoreUpgrade WITH
    shared <- v1, isolated <- v2, backups <- v3, picky <- v4, bin <- v5, running <- v6,
    op <- v7, reported <- v8, crashed <- v9, faults <- v10,
    Plain <- {"p", "q"}, Xhttp <- {"x"}, Reality <- {"r"}, MaxFaults <- 3
KInit == part = "upgrade" /\ K!Init /\ v11 = Unused /\ v12 = Unused /\ v13 = Unused /\ v14 = Unused /\ v15 = Unused
KNext == part = "upgrade" /\ K!Next /\ UNCHANGED <<part, v11, v12, v13, v14, v15>>

\* Three addresses of two families and room for two candidates.
E == INSTANCE ExitSelection WITH
    own <- v1, others <- v2, ahead <- v3, retry <- v4, round <- v5, up <- v6, probe <- v7,
    seen <- v8, count <- v9, processes <- v10, result <- v11, faults <- v12,
    V4 <- {"a", "b"}, V6 <- {"z"}, MaxCandidates <- 2, MaxFaults <- 1
EInit == part = "exit" /\ E!Init /\ v13 = Unused /\ v14 = Unused /\ v15 = Unused
ENext == part = "exit" /\ E!Next /\ UNCHANGED <<part, v13, v14, v15>>

\* A wildcard certificate that is renewed twice, and a node that serves it: nodes share
\* nothing but the panel's pair.
C == INSTANCE CertDelivery WITH
    store <- v1, due <- v2, files <- v3, backup <- v4, loaded <- v5, enabled <- v6,
    flagged <- v7, run <- v8, job <- v9, interrupted <- v10, faults <- v11, managed <- v12,
    Nodes <- {n1}, MaxPair <- 2, MaxFaults <- 2
CInit == part = "certs" /\ C!Init /\ v13 = Unused /\ v14 = Unused /\ v15 = Unused
CNext == part = "certs" /\ C!Next /\ UNCHANGED <<part, v13, v14, v15>>

\* Two servers, two nodes and four ports in two pairs.
P == INSTANCE PortAllocation WITH
    row <- v1, sockets <- v2, tasks <- v3, alloc <- v4, edits <- v5, loose <- v6,
    Servers <- {"s", "t"}, Nodes <- {n1, n2}, MaxPort <- 4, Offset <- 2, FixedPort <- 2,
    Mapped <- <<3, 4>>, Pool <- <<2, 3>>, ExitPool <- <<1, 2>>, Requests <- PortRequests,
    Foreign <- {<<"s", 2>>}, MaxEdits <- 1
PInit == part = "ports" /\ P!Init /\ v7 = Unused /\ v8 = Unused /\ v9 = Unused /\ v10 = Unused
         /\ v11 = Unused /\ v12 = Unused /\ v13 = Unused /\ v14 = Unused /\ v15 = Unused
PNext == part = "ports" /\ P!Next /\ UNCHANGED <<part, v7, v8, v9, v10, v11, v12, v13, v14, v15>>

MCInit ==
    /\ Init
    /\ \/ DInit \/ LInit \/ KInit \/ EInit \/ CInit \/ PInit
       \/ part = "origin" /\ Nowhere
MCNext ==
    \/ (DNext \/ LNext \/ KNext \/ ENext \/ CNext \/ PNext) /\ UNCHANGED vars
    \/ part = "origin" /\ Next /\ UNCHANGED places
MCSpec == MCInit /\ [][MCNext]_MCVars

ASSUME Assumptions ==
    /\ D!DeployAssumption /\ L!DeployAssumption /\ K!CoreAssumption
    /\ E!SelectionAssumption /\ E!CandidatesDiffer /\ C!CertAssumption /\ P!PortAssumption

-----------------------------------------------------------------------------
(* Properties, besides those of CfOrigin; what they say of the code is told where they are *)
(* defined.                                                                                *)

\* DeployTransaction: a deployment that says it failed, and reports no failed rollback, has
\* left nothing of itself on either host, but for the effect of a command whose answer was
\* lost and for a self-signed pair, which is made in place; half of such a pair is all that
\* its deployment changed. What else was replaced can be put back by hand until the row is
\* committed, also when the panel dies; and when update has answered, its row describes what
\* runs, that pair apart, or an operator was told that the two may differ.
DeploymentsSafe ==
    /\ part = "deploy" => D!DeploymentsSafe
    /\ part = "legacy" => L!DeploymentsSafe

\* DeployTransaction implements AtomicDeployment: the caller can rely on deploy's answer.
Config ==
    CASE part = "deploy" -> D!Config [] part = "legacy" -> L!Config [] OTHER -> "old"
Reply ==
    CASE part = "deploy" -> D!Reply [] part = "legacy" -> L!Reply [] OTHER -> "none"
Promise == INSTANCE AtomicDeployment WITH config <- Config, reply <- Reply

\* DeployTransaction implements AtomicDeployment: the answer of a deployment says which of
\* the two configurations the hosts are left with. After a failure, a self-signed pair that
\* was made for the new one may be beside the old one.
Atomic == Promise!Spec

\* CertDelivery: delivery leaves no certificate beside a key of another pair, unless a job
\* is at the files, an operator was told, or the panel died and the backup is there; what is
\* self-signed can be half made. A service is down only while its node is disabled, during a
\* job, or then. DeployTransaction: the way back starts the old entry service with its old
\* certificate, unless that could not be restored, which is reported, and never with half of
\* a self-signed one.
CertsServe == [](part = "certs" => C!TypeOK /\ C!StartsAgain /\ C!NeverDown)
              /\ [][(part = "deploy" => D!OldServiceOldCert) /\ (part = "legacy" => L!OldServiceOldCert)]_MCVars

\* CoreUpgrade: no upgrade takes away the core that another service is started with, unless
\* it said that it could not go back, or the panel died; even then the core that a service
\* was accepted by is on the host.
CoresKept == part = "upgrade" => K!TypeOK /\ K!OthersStillStart /\ K!Recoverable

\* ExitSelection: the address that the configuration pins passed its last probe; "none is
\* available" is said only after every candidate failed for good or twice; no temporary
\* core outlives its probe while the session lasts; the limit on candidates never drops an
\* IPv4 address that the entry itself resolves, as long as these fit.
ExitReached ==
    part = "exit" => E!TypeOK /\ E!PinnedWasReached /\ E!GivenUpAfterAll /\ E!NoLeftover /\ E!OwnAddressesKept

\* PortAllocation: no port of a server is kept for two nodes or for a node and a cleanup,
\* whatever creations, edits and deletions do at once, and no node of the panel listens where
\* another one should; the statistics port of a node whose edit no deployment completed is
\* the only exception.
PortsApart == part = "ports" => P!PortsApart
=============================================================================
