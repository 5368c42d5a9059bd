----------------------------- MODULE UsageCounters -----------------------------
(***************************************************************************)
(* Usage accounting of one node: the proxy core counts bytes per           *)
(* credential since it started, the agent samples the counters off its     *)
(* heartbeat path and sends its last sample with every heartbeat, and the  *)
(* panel turns accepted samples into increments of hourly buckets.         *)
(* Samples are lost, repeated, delayed and reordered; core and panel       *)
(* restart; the subscriptions of the credentials are paused and resumed.   *)
(* Time is in units of a few seconds and every credential has a            *)
(* subscription of its own.                                                *)
(***************************************************************************)
EXTENDS Integers, FiniteSets

CONSTANTS
    Creds,      \* installed credentials of the node
    Fresh,      \* USAGE_FRESH_MS
    Drift,      \* tolerated difference between uptime and sampling time
    MaxTime, MaxBytes, MaxSamples,   \* bounds: clock, bytes ever moved, samples
    Nothing

CounterAssumption ==
    /\ Fresh \in Nat \ {0} /\ Drift \in Nat
    /\ MaxTime \in Nat /\ MaxBytes \in Nat /\ MaxSamples \in Nat
    /\ Nothing \notin Int

VARIABLES
    now,
    boot,      \* when the core started
    counter,   \* bytes of each credential since then
    moved,     \* bytes of each credential ever (history)
    probe,     \* the agent's query under way: uptime before it and counters, or Nothing
    wire,      \* the samples taken: usageCache holds the last one, heartbeats carry them
    ingest,    \* the panel's batch: the sample, its stage and what it read; the node's
               \* usage-sample lock is held while the stage is "read"
    enabled,   \* Subscription.usageEnabled
    node,      \* UsageNode: time, uptime and id of the last accepted sample
    row,       \* UsageCredential: time and counter of its last sample
    bucket     \* recorded bytes

core == <<boot, counter, moved>>
stored == <<enabled, node, row, bucket>>
vars == <<now, core, probe, wire, ingest, stored>>

Times == 0 .. MaxTime
Rows == [Creds -> [at : Times \cup {Nothing}, bytes : 0 .. MaxBytes]]
Counts == [Creds -> 0 .. MaxBytes]
Samples == [id : 1 .. MaxSamples, at : Times, uptime : Times, counts : Counts]

NoBatch == [sample |-> Nothing, stage |-> "none", on |-> {}, seen |-> Nothing]

TypeOK ==
    /\ now \in Times /\ boot \in Times
    /\ counter \in Counts /\ moved \in Counts /\ bucket \in Counts
    /\ probe \in {Nothing} \cup [from : Times, counts : Counts \cup {Nothing}]
    /\ wire \subseteq Samples
    /\ ingest \in {NoBatch} \cup [sample : Samples, stage : {"queued", "read"}, on : SUBSET Creds,
                                  seen : Rows \cup {Nothing}]
    /\ enabled \in [Creds -> BOOLEAN]
    /\ node \in [at : Times \cup {Nothing}, uptime : Times \cup {Nothing}, id : 0 .. MaxSamples]
    /\ row \in Rows

Init ==
    /\ now = 0 /\ boot = 0
    /\ counter = [c \in Creds |-> 0] /\ moved = counter /\ bucket = counter
    /\ probe = Nothing /\ wire = {}
    /\ ingest = NoBatch
    /\ enabled = [c \in Creds |-> TRUE]
    /\ node = [at |-> Nothing, uptime |-> Nothing, id |-> 0]
    /\ row = [c \in Creds |-> [at |-> Nothing, bytes |-> 0]]

-----------------------------------------------------------------------------
(* The core. *)

Tick ==
    /\ now < MaxTime
    /\ now' = now + 1
    /\ UNCHANGED <<core, probe, wire, ingest, stored>>

Move(c) ==
    /\ moved[c] < MaxBytes
    /\ counter' = [counter EXCEPT ![c] = @ + 1]
    /\ moved' = [moved EXCEPT ![c] = @ + 1]
    /\ UNCHANGED <<now, boot, probe, wire, ingest, stored>>

CoreRestart ==
    /\ boot < now
    /\ boot' = now /\ counter' = [c \in Creds |-> 0]
    /\ UNCHANGED <<now, moved, probe, wire, ingest, stored>>

-----------------------------------------------------------------------------
(* The agent: queryUsage asks for uptime, counters and uptime again. *)

ProbeBegin ==
    /\ probe = Nothing /\ Cardinality(wire) < MaxSamples
    /\ probe' = [from |-> now - boot, counts |-> Nothing]
    /\ UNCHANGED <<now, core, wire, ingest, stored>>

ProbeRead ==
    /\ probe # Nothing
    /\ probe.counts = Nothing
    /\ probe' = [probe EXCEPT !.counts = counter]
    /\ UNCHANGED <<now, core, wire, ingest, stored>>

\* A core that is younger at the end than it was at the beginning spoils the sample;
\* so does a call that fails.  The panel ignores the error sample that replaces it.
ProbeEnd ==
    /\ probe # Nothing
    /\ probe' = Nothing
    /\ \/ /\ probe.counts # Nothing /\ now - boot >= probe.from
          /\ wire' = wire \cup {[id |-> Cardinality(wire) + 1, at |-> now, uptime |-> now - boot,
                                 counts |-> probe.counts]}
       \/ UNCHANGED wire
    /\ UNCHANGED <<now, core, ingest, stored>>

-----------------------------------------------------------------------------
(* The panel: enqueue, ingest and setEnabled. *)

\* A heartbeat brings a sample, which may have come before, or after a newer one, or
\* never.  One batch per server; the age is checked before the lock is asked for.
Enqueue ==
    /\ ingest = NoBatch
    /\ \E s \in wire :
        /\ now - s.at <= Fresh
        /\ ingest' = [sample |-> s, stage |-> "queued", on |-> {}, seen |-> Nothing]
    /\ UNCHANGED <<now, core, probe, wire, stored>>

\* A sample that was accepted before, or is not newer than the last one.
Superseded(s) == s.id = node.id \/ (node.at # Nothing /\ s.at <= node.at)

Observed == {c \in Creds : enabled[c]}

\* Under the lock: the node's state, its credentials and the observed subscriptions
\* are read.
IngestRead ==
    /\ ingest.stage = "queued"
    /\ ingest' = IF Superseded(ingest.sample) THEN NoBatch
                 ELSE [ingest EXCEPT !.stage = "read", !.on = Observed, !.seen = row]
    /\ UNCHANGED <<now, core, probe, wire, stored>>

Abs(x) == IF x < 0 THEN -x ELSE x
Seconds(s) == IF node.at = Nothing THEN 0 ELSE s.at - node.at
Reset(s) ==
    \/ node.uptime = Nothing
    \/ s.uptime < node.uptime
    \/ Abs(s.uptime - node.uptime - Seconds(s)) > Drift

\* The credential's last counter does not belong to the node's last sample.
Baseline(s, c) == Reset(s) \/ ingest.seen[c].at = Nothing \/ ingest.seen[c].at # node.at

Delta(s, c) ==
    IF Baseline(s, c) \/ Seconds(s) \notin 1 .. Fresh \/ s.counts[c] < ingest.seen[c].bytes THEN 0
    ELSE s.counts[c] - ingest.seen[c].bytes

\* One transaction for the node, the observed credentials and their buckets.
IngestCommit ==
    /\ ingest.stage = "read"
    /\ LET s == ingest.sample
           on == ingest.on
       IN  /\ node' = [at |-> s.at, uptime |-> s.uptime, id |-> s.id]
           /\ row' = [c \in Creds |-> IF c \in on THEN [at |-> s.at, bytes |-> s.counts[c]] ELSE row[c]]
           /\ bucket' = [c \in Creds |-> bucket[c] + IF c \in on THEN Delta(s, c) ELSE 0]
    /\ ingest' = NoBatch
    /\ UNCHANGED <<now, core, probe, wire, enabled>>

AnyTime == TRUE                                                            \* mutant
SampleLockFree == ingest.stage # "read"

Forget(c) == [row EXCEPT ![c].at = Nothing]

\* setEnabled: the requests for one subscription come one after the other.
Toggle(c) ==
    /\ SampleLockFree
    /\ enabled' = [enabled EXCEPT ![c] = ~@]
    /\ row' = Forget(c)
    /\ UNCHANGED <<now, core, probe, wire, ingest, node, bucket>>

\* The panel's process dies: batch and lock are gone.
PanelRestart ==
    /\ ingest' = NoBatch
    /\ UNCHANGED <<now, core, probe, wire, stored>>

-----------------------------------------------------------------------------
Next ==
    \/ Tick \/ CoreRestart \/ ProbeBegin \/ ProbeRead \/ ProbeEnd
    \/ Enqueue \/ IngestRead \/ IngestCommit \/ PanelRestart
    \/ \E c \in Creds : Move(c) \/ Toggle(c)

Spec == Init /\ [][Next]_vars

-----------------------------------------------------------------------------
(* No byte is recorded twice or made up: repeated, delayed and reordered     *)
(* samples, core restarts between any two steps of a query, gaps and pauses  *)
(* never make the buckets exceed what the credential moved (ingest,          *)
(* counterDelta).                                                            *)
NeverOvercounted == \A c \in Creds : bucket[c] <= moved[c]

(* Nothing is recorded for a paused subscription: the sample lock keeps a    *)
(* batch that read the subscription as observed from committing after the    *)
(* pause (usage.service.ts:42).                                              *)
PausedIsFrozen == \A c \in Creds : ~enabled[c] => bucket'[c] = bucket[c]

=============================================================================
