------------------------------ MODULE ExitSelection ------------------------------
(***************************************************************************)
(* The choice of the address that a chain node's SOCKS5 exit is pinned to. *)
(* The candidates come from the entry's own resolver and from several      *)
(* queries over DNS-over-HTTPS; each is probed with a temporary core on    *)
(* the entry, and those that failed in a transient way once more.          *)
(***************************************************************************)
EXTENDS Naturals, Sequences, FiniteSets, SequencesExt

CONSTANTS
    V4, V6,         \* the addresses that the resolvers know
    MaxCandidates,  \* MAX_CANDIDATES
    MaxFaults       \* bound: failures of the SSH session

SelectionAssumption ==
    /\ V4 \cap V6 = {} /\ IsFiniteSet(V4 \cup V6)
    /\ {"none", "unavailable", "broken"} \cap (V4 \cup V6) = {}
    /\ MaxCandidates \in Nat \ {0} /\ MaxFaults \in Nat

VARIABLES
    own,        \* what the entry's resolver answered, in its order
    others,     \* what the DNS-over-HTTPS queries answered
    ahead,      \* candidates still to be probed in this round
    retry,      \* candidates that failed in a transient way in the first round
    round,
    up,         \* addresses that accept connections now (environment)
    probe,      \* the address under test, or "none"
    seen,       \* address -> what its last probe came to
    count,      \* address -> number of its probes, up to three (history)
    processes,  \* temporary cores running on the entry
    result, faults

vars == <<own, others, ahead, retry, round, up, probe, seen, count, processes, result, faults>>
Addresses == V4 \cup V6
Answers(n) == {s \in UNION {[1 .. k -> Addresses] : k \in 0 .. n} : \A i, j \in DOMAIN s : s[i] = s[j] => i = j}

\* A Map keeps the order in which addresses came; the sort by family is stable.
Candidates(first, second) ==
    LET order == first \o SelectSeq(second, LAMBDA a : a \notin ToSet(first))
        family == SelectSeq(order, LAMBDA a : a \in V4) \o SelectSeq(order, LAMBDA a : a \in V6)
    IN  SubSeq(family, 1, IF Len(family) < MaxCandidates THEN Len(family) ELSE MaxCandidates)

\* Every candidate is one that was answered, once.
CandidatesDiffer ==
    \A first, second \in Answers(2) :
        /\ Candidates(first, second) \in Seq(Addresses)
        /\ IsInjective(Candidates(first, second))

TypeOK ==
    /\ own \in Answers(2) /\ others \in Answers(2)
    /\ ToSet(ahead) \cup ToSet(retry) \subseteq ToSet(Candidates(own, others)) /\ round \in {1, 2}
    /\ up \subseteq Addresses /\ probe \in Addresses \cup {"none"}
    /\ seen \in [Addresses -> {"none", "reached", "transient", "refused"}]
    /\ count \in [Addresses -> 0 .. 2] /\ processes \subseteq Addresses
    /\ result \in Addresses \cup {"none", "unavailable", "broken"} /\ faults \in 0 .. MaxFaults

Init ==
    /\ own \in Answers(2) /\ others \in Answers(2)
    /\ ahead = Candidates(own, others) /\ retry = <<>> /\ round = 1
    /\ up \in SUBSET Addresses /\ probe = "none"
    /\ seen = [a \in Addresses |-> "none"] /\ count = [a \in Addresses |-> 0]
    /\ processes = {} /\ faults = 0
    /\ result = IF ahead = <<>> THEN "unavailable" ELSE "none"

input == <<own, others>>

-----------------------------------------------------------------------------
\* probeSocksExitCandidate: a temporary core is started on a random local port.
ProbeBegin ==
    /\ result = "none" /\ probe = "none" /\ ahead # <<>>
    /\ probe' = Head(ahead) /\ ahead' = Tail(ahead)
    /\ processes' = processes \cup {Head(ahead)}
    /\ count' = [count EXCEPT ![Head(ahead)] = IF @ < 3 THEN @ + 1 ELSE @]
    /\ UNCHANGED <<input, retry, round, up, seen, result, faults>>

\* The finally block stops the temporary core and removes its files.
Cleanup == processes' = processes \ {probe}

Anyway == {"reached", "transient"}                                          \* mutant
Pinned == {"reached"}

\* curl through the temporary core; an exit code of the transient kind may be retried.
ProbeEnd ==
    /\ probe # "none"
    /\ \E outcome \in IF probe \in up THEN {"reached", "transient", "refused"} ELSE {"transient", "refused"} :
        /\ seen' = [seen EXCEPT ![probe] = outcome]
        /\ retry' = IF round = 1 /\ outcome = "transient" THEN Append(retry, probe) ELSE retry
        /\ result' = IF outcome \in Pinned THEN probe ELSE result
    /\ Cleanup /\ probe' = "none"
    /\ UNCHANGED <<input, ahead, round, up, count, faults>>

\* A session that breaks fails the deployment, and the cleanup with it.
SessionBreaks ==
    /\ result = "none" /\ faults < MaxFaults /\ faults' = faults + 1
    /\ result' = "broken" /\ probe' = "none"
    /\ UNCHANGED <<input, ahead, retry, round, up, seen, count, processes>>

NothingToRetry == retry = <<>> \/ round = 2

RoundEnds ==
    /\ result = "none" /\ probe = "none" /\ ahead = <<>>
    /\ \/ NothingToRetry /\ result' = "unavailable" /\ UNCHANGED <<ahead, round>>
       \/ ~NothingToRetry /\ ahead' = retry /\ round' = 2 /\ UNCHANGED result
    /\ UNCHANGED <<input, retry, up, probe, seen, count, processes, faults>>

Flap(a) ==
    /\ result = "none" /\ up' = (up \cup {a}) \ (up \cap {a})
    /\ UNCHANGED <<input, ahead, retry, round, probe, seen, count, processes, result, faults>>

Next ==
    \/ ProbeBegin \/ ProbeEnd \/ SessionBreaks \/ RoundEnds
    \/ \E a \in Addresses : Flap(a)

Spec == Init /\ [][Next]_vars

-----------------------------------------------------------------------------
(* The address that the configuration pins passed its last probe, and was a  *)
(* candidate.                                                                *)
PinnedWasReached ==
    result \in Addresses => seen[result] = "reached" /\ result \in ToSet(Candidates(own, others))

(* "None is available" is said only after every candidate failed for good or *)
(* twice.                                                                    *)
GivenUpAfterAll ==
    result = "unavailable" =>
        \A a \in ToSet(Candidates(own, others)) : seen[a] = "refused" \/ count[a] = 2

(* No temporary core outlives its probe while the session lasts: the next    *)
(* one may draw the same local port.                                         *)
NoLeftover == result # "broken" => processes \subseteq {probe}

(* The limit on candidates never drops an IPv4 address that the entry itself *)
(* resolves, as long as these fit.                                           *)
OwnAddressesKept ==
    LET mine == SelectSeq(own, LAMBDA a : a \in V4)
    IN  Len(mine) <= MaxCandidates =>
            IsPrefix(mine, Candidates(own, others))

(* The selection comes to an end, however the addresses come and go.         *)
HasDecided == result # "none"
=============================================================================
