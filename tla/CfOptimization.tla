---- MODULE CfOptimization ----
(* The cycles in which the panel has every node measured by every probe, and what  *)
(* they may cost: the durable monthly and daily ceilings, the order of the jobs,   *)
(* the retries (subscriptions/cf-optimization.service.ts: tick and measure).       *)
EXTENDS Naturals, Sequences, SequencesExt, FiniteSets

CONSTANTS Replicas,    \* panel processes
          Jobs,        \* pairs of a node and a probe
          Probe,       \* job -> its probe
          MaxMonthly,  \* CF_OPTIMIZATION_MAX_MONTHLY_BATCHES
          MaxDaily,    \* candidate tests of one probe in a day: 5000 in the code
          Batch,       \* candidates of one batch: at most 8 in the code
          MaxFaults,   \* bound: crashes, lost lock sessions and changed nodes
          Faults       \* which of "crash", "lost" and "changed" happen

Nobody == "nobody"
NoJob == "no job"
Probes == {Probe[j] : j \in Jobs}
BudgetAssumption == MaxMonthly \in Nat /\ MaxDaily \in Nat /\ Batch \in Nat
ReplicasAssumption == IsFiniteSet(Replicas) /\ Nobody \notin Replicas
JobsAssumption == IsFiniteSet(Jobs) /\ NoJob \notin Jobs /\ Probe \in [Jobs -> Probes]

VARIABLES
    lock,      \* who holds the advisory lock "cf-optimization"
    phase,     \* [Replicas -> the await a cycle is at]
    todo,      \* [Replicas -> the jobs its cycle has not come to]
    early,     \* [Replicas -> the jobs whose retry was not due when its cycle began]
    job,       \* [Replicas -> the job it measures, or measured last]
    read,      \* [Replicas -> the daily requests it has read]
    keys,      \* [Replicas -> month and day of the measurement]
    order,     \* the jobs, the one attempted longest ago first
    recent,    \* jobs attempted within this slot
    waiting,   \* [Jobs -> what retry:<job> waits for]
    pausedJobs,\* jobs of paused nodes
    month, day,  \* of two, the one it is
    batches,   \* monthly:<month>
    requests,  \* budget:<probe>:<day>
    billed,    \* batches for which a probe has been called, by month
    tested,    \* candidate tests sent to a probe, by day
    faults

cycle == <<lock, phase, todo, early, job, read, keys>>
record == <<order, recent, waiting>>
clock == <<month, day>>
budget == <<batches, requests>>
spent == <<billed, tested>>
vars == <<cycle, record, clock, budget, spent, pausedJobs, faults>>

Init ==
    /\ lock = Nobody
    /\ phase = [r \in Replicas |-> "idle"]
    /\ todo = [r \in Replicas |-> <<>>]
    /\ early = [r \in Replicas |-> {}]
    /\ job = [r \in Replicas |-> NoJob]
    /\ read = [r \in Replicas |-> 0]
    /\ keys = [r \in Replicas |-> <<0, 0>>]
    /\ order = SetToSeq(Jobs) /\ recent = {} /\ waiting = [j \in Jobs |-> "none"]
    /\ pausedJobs = {}
    /\ month = 0 /\ day = 0
    /\ batches = [m \in 0 .. 1 |-> 0]
    /\ requests = [p \in Probes |-> [d \in 0 .. 1 |-> 0]]
    /\ billed = [m \in 0 .. 1 |-> 0]
    /\ tested = [p \in Probes |-> [d \in 0 .. 1 |-> 0]]
    /\ faults = 0

To(r, p) == phase' = [phase EXCEPT ![r] = p]

(* tick: one cycle per process, one process at a time, oldest jobs first. *)
Unsorted == SetToSeq(Jobs) \* mutant
OldestFirst == order
Tick(r) ==
    /\ phase[r] = "idle" /\ lock = Nobody
    /\ lock' = r
    /\ todo' = [todo EXCEPT ![r] = SelectSeq(OldestFirst, LAMBDA j : j \notin recent)]
    /\ early' = [early EXCEPT ![r] = {j \in Jobs : waiting[j] # "none"}]
    /\ To(r, "cycle")
    /\ UNCHANGED <<job, read, keys, record, clock, budget, spent, pausedJobs, faults>>

(* The next job: first its pause is read, then whether its retry was due when the   *)
(* cycle began; then the measurement starts, with the month and the day it is.      *)
Skip(r) == todo' = [todo EXCEPT ![r] = Tail(@)] /\ To(r, "cycle") /\ UNCHANGED <<job, keys>>
Pick(r) ==
    /\ phase[r] = "cycle" /\ todo[r] # <<>>
    /\ \/ Head(todo[r]) \in pausedJobs /\ Skip(r)
       \/ Head(todo[r]) \notin pausedJobs /\ To(r, "retry") /\ UNCHANGED <<todo, job, keys>>
    /\ UNCHANGED <<lock, early, read, record, clock, budget, spent, pausedJobs, faults>>
IsDue(r, j) == waiting[j] = "none" /\ j \notin early[r]
ReadRetry(r) ==
    /\ phase[r] = "retry"
    /\ \/ ~IsDue(r, Head(todo[r])) /\ Skip(r)
       \/ /\ IsDue(r, Head(todo[r]))
          /\ job' = [job EXCEPT ![r] = Head(todo[r])]
          /\ keys' = [keys EXCEPT ![r] = <<month, day>>]
          /\ todo' = [todo EXCEPT ![r] = Tail(@)]
          /\ To(r, "reserve")
    /\ UNCHANGED <<lock, early, read, record, clock, budget, spent, pausedJobs, faults>>

(* The list is done, or three minutes are over: after one measurement at the least. *)
Finish(r) ==
    /\ phase[r] = "cycle"
    /\ todo[r] = <<>> \/ job[r] # NoJob
    /\ lock' = IF lock = r THEN Nobody ELSE lock
    /\ todo' = [todo EXCEPT ![r] = <<>>]
    /\ job' = [job EXCEPT ![r] = NoJob]
    /\ To(r, "idle")
    /\ UNCHANGED <<early, read, keys, record, clock, budget, spent, pausedJobs, faults>>

(* What an attempt leaves behind, whether it succeeded or not. *)
Attempted(j) ==
    /\ order' = Append(SelectSeq(order, LAMBDA k : k # j), j)
    /\ recent' = recent \cup {j}
GivenUp(r, until) ==
    /\ Attempted(job[r])
    /\ waiting' = [waiting EXCEPT ![job[r]] = until]
    /\ To(r, "cycle")

(* reserveMonthlyBatch, under a lock of its own: counted before anything is called. *)
Uncounted(m) == UNCHANGED batches \* mutant
Counted(m) == batches' = [batches EXCEPT ![m] = @ + 1]
Reserve(r) ==
    /\ phase[r] = "reserve"
    /\ IF batches[keys[r][1]] >= MaxMonthly
       THEN GivenUp(r, "month") /\ UNCHANGED batches
       ELSE Counted(keys[r][1]) /\ To(r, "capabilities") /\ UNCHANGED record
    /\ UNCHANGED <<lock, todo, early, job, read, keys, clock, requests, spent, pausedJobs, faults>>

(* GET /capabilities: the first call that costs something, also when it is refused. *)
Capabilities(r) ==
    /\ phase[r] = "capabilities"
    /\ billed' = [billed EXCEPT ![keys[r][1]] = @ + 1]
    /\ \/ To(r, "read") /\ UNCHANGED record
       \/ GivenUp(r, "backoff")
    /\ UNCHANGED <<lock, todo, early, job, read, keys, clock, budget, tested, pausedJobs, faults>>

ReadDaily(r) ==
    /\ phase[r] = "read"
    /\ read' = [read EXCEPT ![r] = requests[Probe[job[r]]][keys[r][2]]]
    /\ To(r, "write")
    /\ UNCHANGED <<lock, todo, early, job, keys, record, clock, budget, spent, pausedJobs, faults>>

TooMany(n) == n > MaxDaily
WriteDaily(r) ==
    /\ phase[r] = "write"
    /\ IF TooMany(read[r] + Batch)
       THEN GivenUp(r, "day") /\ UNCHANGED requests
       ELSE /\ requests' = [requests EXCEPT ![Probe[job[r]]][keys[r][2]] = read[r] + Batch]
            /\ To(r, "probe") /\ UNCHANGED record
    /\ UNCHANGED <<lock, todo, early, job, read, keys, clock, batches, spent, pausedJobs, faults>>

(* POST /probe: a valid answer, or none, or an answer of a node that has changed, of *)
(* which nothing at all is written.                                                  *)
Call(r) ==
    /\ phase[r] = "probe"
    /\ tested' = [tested EXCEPT ![Probe[job[r]]][keys[r][2]] = @ + Batch]
    /\ \/ /\ Attempted(job[r]) /\ waiting' = [waiting EXCEPT ![job[r]] = "none"]
          /\ early' = [q \in Replicas |-> early[q] \ {job[r]}]
          /\ To(r, "cycle") /\ UNCHANGED faults
       \/ GivenUp(r, "backoff") /\ UNCHANGED <<early, faults>>
       \/ /\ "changed" \in Faults /\ faults < MaxFaults /\ faults' = faults + 1
          /\ To(r, "cycle") /\ UNCHANGED <<early, record>>
    /\ UNCHANGED <<lock, todo, job, read, keys, clock, budget, billed, pausedJobs>>

Measuring(r) == ReadRetry(r) \/ Reserve(r) \/ Capabilities(r) \/ ReadDaily(r) \/ WriteDaily(r) \/ Call(r)

(* The panel restarts: its session and with it the lock are gone. *)
Crash(r) ==
    /\ "crash" \in Faults /\ faults < MaxFaults /\ faults' = faults + 1
    /\ phase[r] # "idle"
    /\ lock' = IF lock = r THEN Nobody ELSE lock
    /\ todo' = [todo EXCEPT ![r] = <<>>]
    /\ job' = [job EXCEPT ![r] = NoJob]
    /\ To(r, "idle")
    /\ UNCHANGED <<early, read, keys, record, clock, budget, spent, pausedJobs>>

(* The connection that holds the lock breaks; the cycle does not notice. *)
LoseLock(r) ==
    /\ "lost" \in Faults /\ faults < MaxFaults /\ faults' = faults + 1
    /\ lock = r /\ lock' = Nobody
    /\ UNCHANGED <<phase, todo, early, job, read, keys, record, clock, budget, spent, pausedJobs>>

(* ---- time: a slot of five minutes, a retry that falls due, a day, a month ---- *)

NextSlot ==
    /\ recent # {} /\ recent' = {}
    /\ UNCHANGED <<cycle, order, waiting, clock, budget, spent, pausedJobs, faults>>
Due(what) == waiting' = [j \in Jobs |-> IF waiting[j] \in what THEN "none" ELSE waiting[j]]
RetryDue ==
    /\ \E j \in Jobs : waiting[j] = "backoff"
    /\ Due({"backoff"})
    /\ UNCHANGED <<cycle, order, recent, clock, budget, spent, pausedJobs, faults>>

\* A measurement takes two minutes: none lasts from one day to the next but one.
Busy(r) == phase[r] \notin {"idle", "cycle", "retry"}
NewDay ==
    /\ \A r \in Replicas : Busy(r) => keys[r][2] = day
    /\ day' = 1 - day
    /\ requests' = [p \in Probes |-> [requests[p] EXCEPT ![1 - day] = 0]]
    /\ tested' = [p \in Probes |-> [tested[p] EXCEPT ![1 - day] = 0]]
    /\ \/ /\ Due({"day"})
          /\ UNCHANGED <<month, batches, billed>>
       \/ /\ \A r \in Replicas : Busy(r) => keys[r][1] = month
          /\ Due({"day", "month"})
          /\ month' = 1 - month
          /\ batches' = [batches EXCEPT ![1 - month] = 0]
          /\ billed' = [billed EXCEPT ![1 - month] = 0]
    /\ UNCHANGED <<cycle, order, recent, pausedJobs, faults>>

\* A month has many more slots than there are jobs: where its budget runs out, each job has
\* been refused before it ends, or the budget was large enough for all of them.
Exhausted == batches[month] >= MaxMonthly => \A j \in Jobs \ pausedJobs : waiting[j] = "month"
NewMonth == NewDay /\ month' # month /\ Exhausted
LongMonths == month' # month => Exhausted
StayPaused == pausedJobs \subseteq pausedJobs'

(* rollback and resume, under the lock of the cycles. *)
Pause(j) ==
    /\ lock = Nobody
    /\ pausedJobs' = (pausedJobs \ {j}) \cup ({j} \ pausedJobs)
    /\ UNCHANGED <<cycle, record, clock, budget, spent, faults>>

Next ==
    \/ \E r \in Replicas : Tick(r) \/ Pick(r) \/ Finish(r) \/ Measuring(r) \/ Crash(r) \/ LoseLock(r)
    \/ NextSlot \/ RetryDue \/ NewDay
    \/ \E j \in Jobs : Pause(j)

Spec == Init /\ [][Next]_vars

(* ---- properties ---- *)

(* The records hold jobs, each once. *)
TypeOK ==
    /\ Len(order) = Cardinality(Jobs) /\ ToSet(order) = Jobs
    /\ recent \subseteq Jobs /\ pausedJobs \subseteq Jobs
    /\ \A r \in Replicas : (Busy(r) => job[r] \in Jobs) /\ (phase[r] = "retry" => todo[r] # <<>>)

(* The bill: no month has more batches called than the operator allows, whatever    *)
(* crashes, fails, or loses its lock, and however many panels run                   *)
(* (cf-optimization.service.ts:117, 381).                                           *)
MonthlyCeiling == \A m \in 0 .. 1 : billed[m] <= batches[m] /\ batches[m] <= MaxMonthly

(* No day has more candidates tested by one probe than 5000, and what was reserved   *)
(* is never given back (RUNBOOK-cf-auto.md:63), as long as no cycle has lost the     *)
(* session of its lock: one that has may write over what the next one reserved.      *)
DailyCeiling == \A p \in Probes, d \in 0 .. 1 : tested[p][d] <= MaxDaily

(* A paused node costs nothing: once the operator is told that it is paused, no      *)
(* cycle is at a reservation or a call for it, though the cycle reads the pause      *)
(* several awaits before them; but for a cycle that has lost the session of its lock *)
(* (cf-optimization.service.ts:254, 289).                                            *)
PausedIsFree == \A r \in Replicas : lock = r /\ Busy(r) => job[r] \notin pausedJobs

(* Where the budget only suffices for some of the jobs, none of them starves: each   *)
(* gets a batch again and again, unless its node is paused for good. What the probe  *)
(* then answers is not the panel's doing (cf-optimization.service.ts:283, 319).      *)
Paused(j) == j \in pausedJobs
Granted(j) == \E r \in Replicas : Busy(r) /\ phase[r] # "reserve" /\ job[r] = j
====
