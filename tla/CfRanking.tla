---- MODULE CfRanking ----
(* What the measurements of one node by one probe become: observations, the short  *)
(* list that is published, the snapshot a rollback returns to, and what a client   *)
(* is given of it (subscriptions/cf-optimization.service.ts and .util.ts).         *)
EXTENDS Integers, Sequences, SequencesExt

CONSTANTS Discovered, \* candidate addresses, in the order they were discovered
          Latencies,  \* what a probe measures; closed under the rounded mean
          Configs,    \* configurations of node and probe
          Slots,      \* addresses published: 3 in the code
          Speeds      \* what the download of a sample may show

Ips == ToSet(Discovered)

SlotsAssumption == Slots \in Nat \ {0} /\ Speeds \subseteq Nat \ {0}
LatencyAssumption ==
    Latencies \subseteq Nat /\ \A x, y \in Latencies : (x + y + 1) \div 2 \in Latencies

(* Ages of an observation: up to 30 minutes, up to 24 hours, and what is older.  An *)
(* address that failed twice cools down for six hours, somewhere within STALE.      *)
FRESH == 0
STALE == 1
GONE == 2

(* passed counts to 20 in the code, which only tells 1 and 2 apart; failed likewise. *)
MaxCount == 2
Slow == CHOOSE m \in Latencies : \A x \in Latencies : x <= m

VARIABLES
    config,    \* fingerprint of the node and the probe as they are now
    row,       \* the CfOptimization row, or NoRow
    paused,    \* pause:<node>
    probing    \* the measurement under way: what it started from, or Idle

vars == <<config, row, paused, probing>>

\* A speed of 0: no sample, or one of more than six hours ago.
Untested == [passed |-> 0, failed |-> 0, latency |-> Slow, age |-> GONE, speed |-> 0]
Blank == [ip \in Ips |-> Untested]
NoRow == [fingerprint |-> "none", observations |-> Blank, published |-> <<>>,
          previous |-> <<>>, age |-> GONE, hidden |-> FALSE]
Idle == [fingerprint |-> "none", ips |-> {}]
\* A snapshot entry is an address with its age, its failures and its sample at that time.
Entry(ip, o) == [ip |-> ip, age |-> o.age, failed |-> o.failed, speed |-> o.speed]
IpsOf(s) == [i \in DOMAIN s |-> s[i].ip]
InList(s) == {s[i].ip : i \in DOMAIN s}

Up(n) == IF n < MaxCount THEN n + 1 ELSE MaxCount

(* updateObservations: a success only adds to a run that is recent, a failure ends it.  *)
(* The latency of an address that failed twice is not looked at again, and a sample     *)
(* stays until there is another.                                                        *)
Observed(o, r) ==
    LET recent == o.age = FRESH
        mean == IF recent /\ o.passed > 0 THEN (o.latency + r.latency + 1) \div 2 ELSE r.latency
    IN  IF r.ok THEN [passed |-> Up(IF recent THEN o.passed ELSE 0), failed |-> 0, latency |-> mean, age |-> FRESH,
                      speed |-> IF r.speed # 0 THEN r.speed ELSE o.speed]
                ELSE [passed |-> 0, failed |-> Up(o.failed), age |-> FRESH, speed |-> o.speed,
                      latency |-> IF o.failed = 0 THEN o.latency ELSE Slow]
updateObservations(old, results) ==
    [ip \in Ips |-> IF ip \in DOMAIN results THEN Observed(old[ip], results[ip])
                    ELSE IF old[ip].age = GONE THEN Untested ELSE old[ip]]

(* Throughput counts where every candidate and every published address has a sample of *)
(* the last six hours, otherwise the latency does; better is by more than 20%.         *)
Eligible(obs) ==
    SelectSeq(Discovered, LAMBDA ip : obs[ip].passed >= 2 /\ obs[ip].failed = 0 /\ obs[ip].age = FRESH)
BandwidthReady(obs, incumbent) ==
    /\ Eligible(obs) # <<>> \/ incumbent # <<>>
    /\ \A ip \in ToSet(Eligible(obs)) : obs[ip].speed # 0
    /\ \A i \in DOMAIN incumbent : incumbent[i].speed # 0
Better(a, b, ready) == IF ready THEN 10 * a.speed > 12 * b.speed ELSE 10 * a.latency < 8 * b.latency
Before(a, b, ready) ==
    \/ ready /\ a.speed > b.speed
    \/ (ready => a.speed = b.speed) /\ a.latency < b.latency

(* A candidate takes a slot, or the last one's if it is better. *)
Sorted(obs, s, ready) == SortSeq(s, LAMBDA a, b : Before(obs[a], obs[b], ready))
Healthy(obs, s) == SelectSeq(s, LAMBDA ip : obs[ip].failed < 2 /\ obs[ip].age = FRESH)
Admit(obs, retained, ip, ready) ==
    LET sorted == Sorted(obs, retained, ready)
    IN  CASE Contains(retained, ip) -> retained
          [] ~Contains(retained, ip) /\ Len(retained) < Slots -> Append(retained, ip)
          [] OTHER -> IF Better(obs[ip], obs[Last(sorted)], ready) THEN Append(Front(sorted), ip) ELSE sorted

Ranked(obs, incumbent, ready) ==
    LET candidates == Sorted(obs, Eligible(obs), ready)
        retained[n \in 0 .. Len(candidates)] ==
            IF n = 0 THEN Healthy(obs, incumbent) ELSE Admit(obs, retained[n - 1], candidates[n], ready)
    IN  SortSeq(retained[Len(candidates)], LAMBDA a, b :
            obs[a].failed < obs[b].failed \/ (obs[a].failed = obs[b].failed /\ Before(obs[a], obs[b], ready)))

rankCandidates(obs, published) ==
    LET incumbent == IpsOf(published)
        ready == BandwidthReady(obs, published)
        ranked == Ranked(obs, incumbent, ready)
        primary == IF incumbent = <<>> THEN {} ELSE {ip \in {Head(incumbent)} : Contains(ranked, ip) /\ obs[ip].failed = 0}
    IN  IF \E ip \in primary : ~Better(obs[Head(ranked)], obs[ip], ready)
        THEN <<Head(incumbent)>> \o SelectSeq(ranked, LAMBDA ip : ip # Head(incumbent))
        ELSE ranked

(* What an address list is filtered by wherever it leaves the row. *)
Live(s) == SelectSeq(s, LAMBDA e : e.age # GONE /\ e.failed < 2)

(* variants: of a row of another configuration, of a hidden or an old one, nothing. *)
Usable(r) == r.fingerprint = config
Exported == IF Usable(row) /\ ~row.hidden /\ row.age # GONE THEN InList(Live(row.published)) ELSE {}

(* status: READY when something recent is left of what would be exported. *)
Recent(r) == \E i \in DOMAIN r.published : r.published[i].age = FRESH /\ r.published[i].failed < 2
Ready == Usable(row) /\ ~row.hidden /\ row.age = FRESH /\ Recent(row)

Init ==
    /\ config \in Configs
    /\ row = NoRow /\ paused = FALSE /\ probing = Idle

(* measure, up to the request: what it is based on, and what is in the batch: the *)
(* published addresses, others known or discovered, none that failed twice within *)
(* six hours.  The batch holds 8 in the code.                                     *)
Based(fingerprint) == IF row.fingerprint = fingerprint THEN row ELSE NoRow
MayMeasure == ~paused
StartProbe ==
    /\ probing = Idle /\ MayMeasure
    /\ LET old == Based(config)
           failed == {ip \in Ips : old.observations[ip].failed >= 2}
           cooling == {ip \in failed : old.observations[ip].age = FRESH}
       IN  \E ips \in SUBSET (Ips \ cooling) :
              /\ ips # {} /\ InList(old.published) \ failed \subseteq ips
              /\ probing' = [fingerprint |-> config, ips |-> ips]
    /\ UNCHANGED <<config, row, paused>>

\* A download is asked for where a qualified address has no sample; the day's bytes may be used up.
Downloads(o) == IF o.passed >= 2 /\ o.failed = 0 /\ o.speed = 0 THEN Speeds \cup {0} ELSE {0}
Answers(o) ==
    {[ok |-> TRUE, latency |-> l, speed |-> x] : l \in Latencies, x \in Downloads(o)}
        \cup {[ok |-> FALSE, latency |-> 0, speed |-> 0]}
Results(obs, ips) == {f \in [ips -> UNION {Answers(obs[ip]) : ip \in ips}] : \A ip \in ips : f[ip] \in Answers(obs[ip])}

(* The answer is valid, and the node is still what it was when the batch was sent. *)
Measured ==
    /\ probing # Idle
    /\ config = probing.fingerprint
    /\ LET old == Based(probing.fingerprint)
       IN  \E results \in Results(old.observations, probing.ips) :
           \E obs \in {updateObservations(old.observations, results)} :
              LET next == rankCandidates(obs, old.published)
              IN  row' = [fingerprint |-> probing.fingerprint, observations |-> obs,
                          published |-> [i \in DOMAIN next |-> Entry(next[i], obs[next[i]])],
                          previous |-> IF next # IpsOf(old.published) THEN old.published ELSE old.previous,
                          age |-> FRESH, hidden |-> FALSE]
    /\ probing' = Idle
    /\ UNCHANGED <<config, paused>>

(* The answer is of a node that has changed since. *)
Discarded ==
    /\ probing # Idle
    /\ config # probing.fingerprint
    /\ probing' = Idle
    /\ UNCHANGED <<config, row, paused>>

(* No answer, a wrong probe or an invalid batch; the last two hide the row. *)
Failed ==
    /\ probing # Idle
    /\ \E wrong \in BOOLEAN :
          row' = IF row = NoRow THEN [NoRow EXCEPT !.fingerprint = probing.fingerprint, !.hidden = wrong]
                 ELSE [row EXCEPT !.hidden = wrong]
    /\ probing' = Idle
    /\ UNCHANGED <<config, paused>>

(* The panel restarts: nothing of the measurement is left. *)
Crash ==
    /\ probing # Idle
    /\ probing' = Idle
    /\ UNCHANGED <<config, row, paused>>

(* rollback and resume take the lock the measurements are made under. *)
Prior(r, s) == SelectSeq(Live(s), LAMBDA e : r.observations[e.ip].failed < 2)
rollback ==
    /\ probing = Idle
    /\ Usable(row) /\ ~row.hidden
    /\ Prior(row, row.previous) # <<>>
    /\ row' = [row EXCEPT !.published = Prior(row, row.previous), !.previous = row.published]
    /\ paused' = TRUE
    /\ UNCHANGED <<config, probing>>
resume ==
    /\ probing = Idle
    /\ paused' = FALSE
    /\ UNCHANGED <<config, row, probing>>

(* The node or the probe is configured anew, or becomes what it was before. *)
Reconfigure ==
    /\ config' \in Configs
    /\ UNCHANGED <<row, paused, probing>>

Older(o) == [o EXCEPT !.age = IF @ = FRESH THEN STALE ELSE GONE, !.speed = IF o.age = FRESH THEN @ ELSE 0]
Ageing(s) == [i \in DOMAIN s |-> Older(s[i])]
Later ==
    /\ probing = Idle /\ row # NoRow
    /\ row' = [row EXCEPT !.age = IF @ = FRESH THEN STALE ELSE GONE, !.published = Ageing(@), !.previous = Ageing(@),
                          !.observations = [ip \in Ips |-> Older(@[ip])]]
    /\ UNCHANGED <<config, paused, probing>>

(* Six hours after a download: in a snapshot the sample may be an older one. *)
Lapse ==
    /\ probing = Idle
    /\ \E old \in SUBSET {ip \in Ips : row.observations[ip].speed # 0} : \E gone \in {old, {}} :
          LET Without(s) == [i \in DOMAIN s |-> IF s[i].ip \in old THEN [s[i] EXCEPT !.speed = 0] ELSE s[i]]
          IN  row' = [row EXCEPT !.published = Without(@), !.previous = Without(@),
                         !.observations = [ip \in Ips |-> IF ip \in gone THEN [@[ip] EXCEPT !.speed = 0] ELSE @[ip]]]
    /\ UNCHANGED <<config, paused, probing>>

Next ==
    \/ StartProbe \/ Measured \/ Discarded \/ Failed \/ Crash \/ rollback \/ resume \/ Reconfigure
    \/ Later \/ Lapse
Spec == Init /\ [][Next]_vars

(* ---- properties ---- *)

(* The list is short, and no address is in it twice. *)
TypeOK ==
    /\ config \in Configs
    /\ \A s \in {row.published, row.previous} :
          Len(s) <= Slots /\ \A i, j \in DOMAIN s : s[i].ip = s[j].ip => i = j

(* A client is never given an address that the configuration it now has was seen to  *)
(* fail twice with, neither after a rollback nor after a configuration returns       *)
(* (cf-optimization.service.ts:254).                                                 *)
FailedNotExported == \A ip \in Exported : row.observations[ip].failed < 2

(* While the first address passes, it stays the first, whatever a probe round finds, *)
(* unless the new first is 20% better, in throughput where all have recent samples,  *)
(* in latency otherwise (RUNBOOK-cf-auto.md:60).                                     *)
PrimaryStays ==
    probing # Idle /\ row'.fingerprint = row.fingerprint
        /\ row.published # <<>> /\ row'.published # <<>> /\ row'.published[1].ip # row.published[1].ip
        /\ row'.observations[row.published[1].ip].failed = 0 =>
            Better(row'.observations[row'.published[1].ip], row'.observations[row.published[1].ip],
                   BandwidthReady(row'.observations, row.published))

(* A published address that has not failed twice only leaves the list to others that *)
(* are 20% better: one bad round does not reshuffle it (cf-optimization.util.ts:131).*)
OthersStay ==
    probing # Idle /\ row'.fingerprint = row.fingerprint /\ row'.published # row.published =>
        \A ip \in InList(row.published) \ InList(row'.published) :
            row'.observations[ip].failed < 2 /\ row'.observations[ip].age = FRESH =>
                \E new \in InList(row'.published) \ InList(row.published) :
                    Better(row'.observations[new], row'.observations[ip],
                           BandwidthReady(row'.observations, row.published))

(* What an operator rolls back to is what clients get until the operator resumes: a  *)
(* probe that was already under way does not undo it (cf-optimization.service.ts:258). *)
RollbackHolds ==
    paused /\ paused' /\ IpsOf(row'.published) # IpsOf(row.published) =>
            probing = Idle /\ InList(row'.published) \subseteq InList(row.previous)

(* A round of measurements in which no published address is measured to fail twice   *)
(* never leaves clients without any.                                                 *)
NeverEmptied ==
    probing # Idle /\ Usable(row) /\ Exported # {} /\ config' = config /\ ~row'.hidden /\ Exported' = {} =>
        \A ip \in InList(row.published) : row'.observations[ip].failed >= 2

(* READY is only shown of a node whose clients have a measured address.              *)
ReadyExports == Ready => Exported # {}
====
