------------------------------ MODULE MCAgents ------------------------------
(***************************************************************************)
(* The agent and what the panel learns from it, for TLC: each behaviour is *)
(* one of one component on a small instance, so that their states add up.  *)
(* UsageCredentials is the component that is extended, with two grants at  *)
(* a node with room for two identities; its variables keep their initial   *)
(* values in the behaviours of others. Liveness is in MCProgress.          *)
(***************************************************************************)
EXTENDS UsageCredentials

CONSTANTS Unused

\* The component that this behaviour is one of, and the places its variables are held in.
VARIABLES part, v1, v2, v3, v4, v5, v6, v7, v8, v9, v10, v11, v12, v13, v14

places == <<part, v1, v2, v3, v4, v5, v6, v7, v8, v9, v10, v11, v12, v13, v14>>
MCVars == <<places, vars>>
Nowhere ==
    /\ v1 = Unused /\ v2 = Unused /\ v3 = Unused /\ v4 = Unused /\ v5 = Unused /\ v6 = Unused
    /\ v7 = Unused /\ v8 = Unused /\ v9 = Unused /\ v10 = Unused /\ v11 = Unused /\ v12 = Unused
    /\ v13 = Unused /\ v14 = Unused

\* Three releases, the second of which never gets a heartbeat acknowledged.
A == INSTANCE AgentUpdate WITH
    exe <- v1, previous <- v2, timer <- v3, agent <- v4, update <- v5, latest <- v6,
    cache <- v7, pending <- v8, since <- v9, handling <- v10, proven <- v11, due <- v12,
    faults <- v13,
    MaxRelease <- 3, Broken <- {2}, Handlers <- {"h1"}, MaxFaults <- 2, CanReboot <- TRUE
AInit == part = "update" /\ A!Init /\ v14 = Unused
ANext == part = "update" /\ A!Next /\ UNCHANGED <<part, v14>>

\* One credential whose counters are sampled three times.
U == INSTANCE UsageCounters WITH
    now <- v1, boot <- v2, counter <- v3, moved <- v4, probe <- v5, wire <- v6, ingest <- v7,
    enabled <- v8, node <- v9, row <- v10, bucket <- v11,
    Creds <- {"c1"}, Fresh <- 2, Drift <- 1, MaxTime <- 3, MaxBytes <- 2, MaxSamples <- 3
UInit == part = "usage" /\ U!Init /\ v12 = Unused /\ v13 = Unused /\ v14 = Unused
UNext == part = "usage" /\ U!Next /\ UNCHANGED <<part, v12, v13, v14>>

\* Two installations over SSH and one by hand on the same machine.
I == INSTANCE AgentInstall WITH
    at <- v1, upgrade <- v2, outcome <- v3, binary <- v4, writers <- v5, config <- v6,
    unit <- v7, enabled <- v8, agent <- v9, faults <- v10,
    Sessions <- {"a", "b", "hand"}, Manual <- {"hand"}, MaxFaults <- 2
IInit == part = "install" /\ I!Init /\ v11 = Unused /\ v12 = Unused /\ v13 = Unused /\ v14 = Unused
INext == part = "install" /\ I!Next /\ UNCHANGED <<part, v11, v12, v13, v14>>

\* Two heartbeats at work and two under way.
H == INSTANCE Heartbeats WITH
    status <- v1, seen <- v2, node <- v3, hosted <- v4, agent <- v5, last <- v6, total <- v7,
    traffic <- v8, service <- v9, wire <- v10, handlers <- v11, base <- v12, counted <- v13,
    again <- v14, Services <- {}, MaxTraffic <- 1, MaxAgain <- 2, MaxWire <- 2, MaxHandlers <- 2
HInit == part = "beats" /\ H!Init
HNext == part = "beats" /\ H!Next /\ UNCHANGED part

MCInit == Init /\ (AInit \/ UInit \/ IInit \/ HInit \/ (part = "identities" /\ Nowhere))
MCNext ==
    \/ (ANext \/ UNext \/ INext \/ HNext) /\ UNCHANGED vars
    \/ part = "identities" /\ Next /\ UNCHANGED places
MCSpec == MCInit /\ [][MCNext]_MCVars

ASSUME Assumptions ==
    A!ReleaseAssumption /\ U!CounterAssumption /\ I!InstallAssumption /\ H!HeartbeatAssumption

-----------------------------------------------------------------------------
(* Properties, besides those of UsageCredentials; what they say of the code is told where *)
(* they are defined.                                                                      *)

\* UsageCounters and Heartbeats: no byte is recorded twice or made up, per credential and
\* per node: repeated, delayed and reordered samples, overlapping handlers, restarts of
\* every side, gaps and pauses never make what is recorded exceed what was moved. Of a
\* machine's rates this is true but for heartbeats that a newer one has overtaken: each of
\* these may count what had gone through before it once more.
CountedOnce ==
    /\ part = "usage" => U!TypeOK /\ U!NeverOvercounted
    /\ part = "beats" => H!TypeOK /\ H!NoOvercount

\* AgentUpdate: an executable that no acknowledged heartbeat vouches for lies beside one
\* that has one. AgentInstall: an agent that runs was started from a complete installation
\* and comes back with the machine, whatever other installations have left half-done.
WayBack ==
    /\ part = "update" => A!TypeOK /\ A!Recoverable
    /\ part = "install" => I!TypeOK /\ I!RunningIsWhole

\* UsageCounters: nothing is recorded for a paused subscription, by a batch that read it as
\* observed neither. AgentInstall: success is reported for the version that was to be
\* installed. Heartbeats: a server that is being deleted, or whose deletion failed, is not
\* brought back by a heartbeat whose handler looked the row up before.
LateChangesNothing ==
    [][/\ part = "usage" => U!PausedIsFrozen
       /\ part = "install" => I!SuccessIsNew
       /\ part = "beats" => H!RetiredStays]_MCVars
=============================================================================
