---------------------------- MODULE ProbeProcesses ----------------------------
(***************************************************************************)
(* Connectivity tests (xray-test, singbox-test): each one takes a slot of  *)
(* a semaphore, picks a local port, writes a configuration with the node's *)
(* credentials, starts a core that listens there, and sends a request and, *)
(* where the node needs it, a UDP packet through it. Operators, external   *)
(* nodes and the hourly round (connectivity.scheduler) all use them.       *)
(***************************************************************************)
EXTENDS Naturals, Sequences, FiniteSets, SequencesExt

CONSTANTS
    Tests,       \* tests that operators ask for, again and again
    External,    \* those of them that test an external Hysteria2 node
    NeedUdp,     \* those whose node must carry UDP
    Round,       \* the test that the hourly round asks for
    Nodes,       \* number of nodes a round goes through
    MaxRunning,  \* MAX_CONCURRENT
    Ports        \* local ports that are tried

ProbeAssumption ==
    /\ IsFiniteSet(Tests) /\ External \subseteq Tests /\ Round \notin Tests /\ NeedUdp \subseteq Tests \cup {Round}
    /\ MaxRunning \in Nat \ {0} /\ Nodes \in Nat /\ Ports # {}

All == Tests \cup {Round}
Nobody == "nobody"

VARIABLES
    at,       \* All -> what the test is doing
    running,  \* slots that are taken
    queue,    \* tests that wait for one
    port,     \* All -> the port it picked, 0 before
    listens,  \* Ports -> the test whose core listens there, or Nobody
    spawned,  \* tests whose core was started and not yet killed
    files,    \* tests whose configuration lies in /tmp
    via,      \* All -> the test whose core carried the request
    result,   \* All -> "none", "fail", "tcp" or "udp"
    remaining \* nodes that the round has still to test, 0 between rounds

vars == <<at, running, queue, port, listens, spawned, files, via, result, remaining>>
core == <<listens, spawned, files>>

Waiting == {"idle", "queued", "done"}
UnderWay == {"pick", "write", "await", "curl", "udp", "clean"}

TypeOK ==
    /\ at \in [All -> Waiting \cup UnderWay]
    /\ running \in 0 .. MaxRunning
    /\ queue \in Seq(All) /\ IsInjective(queue) /\ ToSet(queue) = {t \in All : at[t] = "queued"}
    /\ port \in [All -> Ports \cup {0}] /\ listens \in [Ports -> All \cup {Nobody}]
    /\ spawned \subseteq All /\ files \subseteq All
    /\ via \in [All -> All \cup {Nobody}] /\ result \in [All -> {"none", "fail", "tcp", "udp"}]
    /\ remaining \in 0 .. Nodes

Init ==
    /\ at = [t \in All |-> "idle"] /\ running = 0 /\ queue = <<>>
    /\ port = [t \in All |-> 0] /\ listens = [p \in Ports |-> Nobody] /\ spawned = {} /\ files = {}
    /\ via = [t \in All |-> Nobody] /\ result = [t \in All |-> "none"] /\ remaining = 0

To(t, step) == at' = [at EXCEPT ![t] = step]

-----------------------------------------------------------------------------
(* withSemaphore. The external Hysteria2 test calls the sing-box service by itself. *)

Guarded(t) == t \notin External

Queued(t) ==
    IF ~Guarded(t) THEN To(t, "pick") /\ UNCHANGED <<running, queue>>
    ELSE IF running < MaxRunning THEN To(t, "pick") /\ running' = running + 1 /\ UNCHANGED queue
    ELSE To(t, "queued") /\ queue' = Append(queue, t) /\ UNCHANGED running

\* A node that is no longer there or has no Cloudflare endpoint is refused before it asks.
Enter(t) == Queued(t) \/ (To(t, "done") /\ UNCHANGED <<running, queue>>)

Ask(t) ==
    /\ t # Round
    /\ at[t] \in {"idle", "done"}
    /\ Enter(t)
    /\ port' = [port EXCEPT ![t] = 0]
    /\ via' = [via EXCEPT ![t] = Nobody] /\ result' = [result EXCEPT ![t] = "none"]
    /\ UNCHANGED <<core, remaining>>

NoNext(t) == at' = [at EXCEPT ![t] = "done"] /\ running' = running - 1 /\ UNCHANGED queue   \* mutant
\* finally: the slot is given back and the first of the queue tries again.
Leave(t) ==
    IF ~Guarded(t) THEN To(t, "done") /\ UNCHANGED <<running, queue>>
    ELSE IF queue = <<>> THEN To(t, "done") /\ running' = running - 1 /\ UNCHANGED queue
    ELSE /\ at' = [at EXCEPT ![t] = "done", ![Head(queue)] = "pick"]
         /\ queue' = Tail(queue) /\ UNCHANGED running

-----------------------------------------------------------------------------
(* runTest. *)

\* The port is one that can be bound now; the test socket is closed again.
allocatePort(t) ==
    /\ at[t] = "pick"
    /\ \/ /\ \E p \in Ports : listens[p] = Nobody /\ port' = [port EXCEPT ![t] = p]
          /\ To(t, "write") /\ UNCHANGED <<running, queue, result>>
       \/ /\ \A p \in Ports : listens[p] # Nobody   \* twenty tries failed
          /\ Leave(t) /\ result' = [result EXCEPT ![t] = "fail"] /\ UNCHANGED port
    /\ UNCHANGED <<core, via, remaining>>

\* The configuration is built, written and the core started on it; or the builder refuses the node.
Spawn(t) ==
    /\ at[t] = "write"
    /\ \/ /\ files' = files \cup {t} /\ spawned' = spawned \cup {t}
          /\ To(t, "await") /\ UNCHANGED <<running, queue, result>>
       \/ /\ Leave(t) /\ result' = [result EXCEPT ![t] = "fail"]
          /\ UNCHANGED <<spawned, files>>
    /\ UNCHANGED <<port, listens, via, remaining>>

\* The core binds its port, or exits because somebody has it.
CoreBinds(t) ==
    /\ t \in spawned
    /\ \/ listens[port[t]] = Nobody /\ listens' = [listens EXCEPT ![port[t]] = t] /\ UNCHANGED spawned
       \/ listens[port[t]] \notin {Nobody, t} /\ spawned' = spawned \ {t} /\ UNCHANGED listens
    /\ UNCHANGED <<at, running, queue, port, files, via, result, remaining>>

\* waitForPort: somebody accepts connections on the port, or the time is over.
waitForPort(t) ==
    /\ at[t] = "await"
    /\ \/ listens[port[t]] # Nobody /\ To(t, "curl") /\ UNCHANGED result
       \/ To(t, "clean") /\ result' = [result EXCEPT ![t] = "fail"]
    /\ UNCHANGED <<running, queue, port, core, via, remaining>>

\* requireUdp: the node's exit is a SOCKS5 proxy.
Further(t) == {t} \cap NeedUdp

\* The request goes through whatever core listens there.
curlTest(t) ==
    /\ at[t] = "curl"
    /\ \/ /\ listens[port[t]] # Nobody
          /\ via' = [via EXCEPT ![t] = listens[port[t]]]
          /\ result' = [result EXCEPT ![t] = IF Further(t) = {} THEN "tcp" ELSE @]
          /\ To(t, IF Further(t) = {} THEN "clean" ELSE "udp")
       \/ /\ result' = [result EXCEPT ![t] = "fail"]
          /\ To(t, "clean") /\ UNCHANGED via
    /\ UNCHANGED <<running, queue, port, core, remaining>>

probeSocks5Udp(t) ==
    /\ at[t] = "udp"
    /\ \E r \in {"fail"} \cup (IF listens[port[t]] # Nobody THEN {"udp"} ELSE {}) : result' = [result EXCEPT ![t] = r]
    /\ To(t, "clean")
    /\ UNCHANGED <<running, queue, port, core, via, remaining>>

KillOnly(t) == files                                                        \* mutant
FilesAfter(t) == files \ {t}

\* finally: the core is killed, the file removed, whatever came before.
CleanUp(t) ==
    /\ at[t] = "clean"
    /\ spawned' = spawned \ {t} /\ files' = FilesAfter(t)
    /\ listens' = [p \in Ports |-> IF listens[p] = t THEN Nobody ELSE listens[p]]
    /\ Leave(t)
    /\ UNCHANGED <<port, via, result, remaining>>

-----------------------------------------------------------------------------
(* The hourly round: one node after the other. *)

NoRoundYet == remaining = 0

testAllNodes ==
    /\ NoRoundYet
    /\ remaining' = Nodes
    /\ UNCHANGED <<at, running, queue, port, core, via, result>>

RoundNext ==
    /\ remaining > 0 /\ at[Round] = "idle"
    /\ Enter(Round)
    /\ port' = [port EXCEPT ![Round] = 0]
    /\ via' = [via EXCEPT ![Round] = Nobody] /\ result' = [result EXCEPT ![Round] = "none"]
    /\ UNCHANGED <<core, remaining>>

\* A test that failed or threw is logged; the round goes on.
RoundGotResult ==
    /\ at[Round] = "done"
    /\ To(Round, "idle")
    /\ remaining' = remaining - 1
    /\ UNCHANGED <<running, queue, port, core, via, result>>

Step(t) == allocatePort(t) \/ Spawn(t) \/ waitForPort(t) \/ curlTest(t) \/ probeSocks5Udp(t) \/ CleanUp(t)

Next == (\E t \in All : Ask(t) \/ CoreBinds(t) \/ Step(t)) \/ testAllNodes \/ RoundNext \/ RoundGotResult

Spec == Init /\ [][Next]_vars

-----------------------------------------------------------------------------
(* Properties. *)

\* Tests that are not under way leave neither a core nor their credentials in /tmp.
NothingLeft == (spawned \cup files) \subseteq {t \in All : at[t] \in {"await", "curl", "udp", "clean"}}

\* The slots are those of the guarded tests under way: none is lost by a test that fails,
\* none is given out twice when a waiting test takes over.
SlotsMatch == running = Cardinality({t \in All : Guarded(t) /\ at[t] \in UnderWay})

\* A test is reported reachable over TCP only when its node need not carry UDP.
NoHalfSuccess == \A t \in All : result[t] = "tcp" => t \notin NeedUdp

\* Where a test is when it has ended, or has never been asked for.
Ended(t) == at[t] \in {"done", "idle"}

\* The hourly round comes to its end, however often operators test in between.
RoundOver == remaining = 0
=============================================================================
