------------------------------ MODULE Heartbeats ------------------------------
(***************************************************************************)
(* The heartbeats of one agent (agent.service, network-rate, ping.scheduler*)
(* and the agent's main loop): the server's status, the rates computed from*)
(* the machine's counters, and the status of a chain node whose exit the   *)
(* server hosts. Requests may be lost, sent again over the other address,  *)
(* and handled by several handlers at once.                                *)
(***************************************************************************)
EXTENDS Naturals, Sequences, FiniteSets, SequencesExt, FiniteSetsExt

CONSTANTS
    Services,     \* states of the chain service that occur
    MaxTraffic,   \* bound on the traffic of the machine
    MaxAgain,     \* bound on the traffic counted again before a request that was overtaken
    MaxWire,      \* bound on the requests under way
    MaxHandlers   \* bound on the handlers at work

HeartbeatAssumption ==
    /\ Services \subseteq {"RUNNING", "STOPPED", "ERROR"}
    /\ MaxTraffic \in Nat /\ MaxAgain \in Nat /\ MaxWire \in Nat \ {0} /\ MaxHandlers \in Nat \ {0}

NotReported == "none"
Retiring == {"DELETING", "ERROR"}
NoBase == [bytes |-> 0, old |-> TRUE]

VARIABLES
    status,   \* status of the server's row, or "GONE"
    seen,     \* lastSeenAt: "never", "fresh" or "stale" (two minutes)
    node,     \* status of the chain node's row
    hosted,   \* whether the node's row names this server
    agent,    \* "down", "sleep", "first" or "second": what its loop waits for
    last,     \* the payload it sent
    total,    \* the machine's counter since it started
    traffic,  \* all of the machine's traffic
    service,  \* the chain service on the machine
    wire,     \* requests that have not arrived, in the order in which they were sent
    handlers, \* requests being handled, in the order of their arrival
    base,     \* baseline of the rate
    counted,  \* traffic that the rates amount to
    again     \* traffic that overtaken requests may have made them count again (history)

vars == <<status, seen, node, hosted, agent, last, total, traffic, service, wire, handlers, base, counted, again>>
machine == <<total, traffic, service>>
rows == <<status, seen, node, hosted>>
rates == <<base, counted, again>>

Payload == [bytes : 0 .. MaxTraffic, svc : Services \cup {NotReported}]
Request == [bytes : 0 .. MaxTraffic, svc : Services \cup {NotReported}, behind : BOOLEAN]
Handler == [bytes : 0 .. MaxTraffic, svc : Services \cup {NotReported}, behind : BOOLEAN,
            step : {"lookup", "sampled", "stored"}, late : BOOLEAN]

TypeOK ==
    /\ status \in {"UNKNOWN", "ONLINE", "OFFLINE", "GONE"} \cup Retiring
    /\ seen \in {"never", "fresh", "stale"} /\ (status \in {"ONLINE", "OFFLINE"} => seen # "never")
    /\ node \in Services \cup {"INACTIVE"} /\ hosted \in BOOLEAN
    /\ agent \in {"down", "sleep", "first", "second"} /\ last \in Payload
    /\ total \in 0 .. traffic /\ traffic \in 0 .. MaxTraffic /\ service \in Services \cup {NotReported}
    /\ wire \in Seq(Request) /\ Len(wire) <= MaxWire
    /\ handlers \in Seq(Handler) /\ Len(handlers) <= MaxHandlers
    /\ base \in [bytes : 0 .. MaxTraffic, old : BOOLEAN] /\ counted \in Nat /\ again \in Nat

Init ==
    /\ status = "UNKNOWN" /\ seen = "never" /\ node = "INACTIVE" /\ hosted = TRUE
    /\ agent = "down" /\ last = [bytes |-> 0, svc |-> NotReported]
    /\ total = 0 /\ traffic = 0 /\ service = NotReported
    /\ wire = <<>> /\ handlers = <<>> /\ base = NoBase /\ counted = 0 /\ again = 0

-----------------------------------------------------------------------------
(* The machine and its agent. *)

Traffic ==
    /\ traffic < MaxTraffic
    /\ traffic' = traffic + 1 /\ total' = total + 1
    /\ UNCHANGED <<rows, agent, last, service, wire, handlers, rates>>

ServiceChanges ==
    /\ \E s \in (Services \cup {NotReported}) \ {service} : service' = s
    /\ UNCHANGED <<rows, agent, last, total, traffic, wire, handlers, rates>>

\* The agent, or the whole machine with its counters.
Ends ==
    /\ agent # "down"
    /\ agent' = "down" /\ total' \in {0, total}
    /\ UNCHANGED <<rows, last, traffic, service, wire, handlers, rates>>

Starts ==
    /\ agent = "down"
    /\ agent' = "sleep"
    /\ UNCHANGED <<rows, last, machine, wire, handlers, rates>>

\* collectMetrics and discoverChainServices, once in ten seconds.
Collected == [bytes |-> total, svc |-> service]

Sent(p) == [bytes |-> p.bytes, svc |-> p.svc, behind |-> FALSE]
Put(p) == Len(wire) < MaxWire /\ wire' = Append(wire, Sent(p))

Post ==
    /\ agent = "sleep"
    /\ agent' = "first" /\ last' = Collected
    /\ Put(Collected)
    /\ UNCHANGED <<rows, machine, handlers, rates>>

\* No answer in eight seconds, or no connection: the same payload goes to the other address.
Fallback ==
    /\ agent = "first"
    /\ agent' = "second"
    /\ Put(last) \/ UNCHANGED wire
    /\ UNCHANGED <<rows, last, machine, handlers, rates>>

GiveUp ==
    /\ agent \in {"first", "second"}
    /\ agent' = "sleep"
    /\ UNCHANGED <<rows, last, machine, wire, handlers, rates>>

-----------------------------------------------------------------------------
(* The panel. *)

Started(r) == [bytes |-> r.bytes, svc |-> r.svc, behind |-> r.behind, step |-> "lookup", late |-> FALSE]

\* What was sent before the one that arrives, copies of the same payload aside.
Overtaken(k) ==
    [j \in DOMAIN wire |-> [wire[j] EXCEPT !.behind = @ \/ (j < k /\ wire[j].bytes # wire[k].bytes)]]

\* Every request has a connection of its own, and is dated when it arrives.
Arrive ==
    /\ Len(handlers) < MaxHandlers
    /\ \E k \in DOMAIN wire :
        /\ wire[k].behind => again < MaxAgain
        /\ handlers' = Append(handlers, Started(wire[k]))
        /\ wire' = RemoveAt(Overtaken(k), k)
    /\ UNCHANGED <<rows, agent, last, machine, rates>>

Lose ==
    /\ \E k \in DOMAIN wire : wire' = RemoveAt(wire, k)
    /\ UNCHANGED <<rows, agent, last, machine, handlers, rates>>

Without(i) == handlers' = RemoveAt(handlers, i)
To(i, step) == handlers' = [handlers EXCEPT ![i].step = step]

AnyOrder(h) == FALSE                                                       \* mutant
Late(h) == h.late

\* NetworkRateTracker.sample, with the time at which the request arrived.
Diff(h) == IF Late(h) \/ base.old \/ h.bytes < base.bytes THEN 0 ELSE h.bytes - base.bytes

\* Unknown tokens are refused.
Sample(i) ==
    /\ handlers[i].step = "lookup"
    /\ IF status = "GONE" THEN Without(i) /\ UNCHANGED rates
       ELSE /\ counted' = counted + Diff(handlers[i])
            /\ again' = IF handlers[i].behind /\ ~Late(handlers[i]) THEN again + traffic ELSE again
            /\ base' = IF Late(handlers[i]) THEN base ELSE [bytes |-> handlers[i].bytes, old |-> FALSE]
            /\ handlers' = [k \in DOMAIN handlers |->
                   IF k = i THEN [handlers[k] EXCEPT !.step = "sampled"]
                   ELSE IF k < i THEN [handlers[k] EXCEPT !.late = TRUE] ELSE handlers[k]]
    /\ UNCHANGED <<rows, agent, last, machine, wire>>

Retired == status \in Retiring \cup {"GONE"}
Updatable == ~Retired

LastSeen == "fresh"

\* The server's status at the time of the write decides, not the row that was looked up.
Store(i) ==
    /\ handlers[i].step = "sampled"
    /\ IF Updatable THEN status' = "ONLINE" /\ seen' = LastSeen /\ To(i, "stored")
       ELSE Without(i) /\ UNCHANGED <<status, seen>>
    /\ UNCHANGED <<node, hosted, agent, last, machine, wire, rates>>

Reports(h) == h.svc # NotReported

\* Statuses of the chain nodes, and the answer if the agent still waits for it.
Observe(i) ==
    /\ handlers[i].step = "stored"
    /\ node' = IF Reports(handlers[i]) /\ hosted /\ status # "GONE" THEN handlers[i].svc ELSE node
    /\ Without(i)
    /\ agent' \in {agent} \cup (IF agent \in {"first", "second"} THEN {"sleep"} ELSE {})
    /\ UNCHANGED <<status, seen, hosted, last, machine, wire, rates>>

Handle(i) == i \in DOMAIN handlers /\ (Sample(i) \/ Store(i) \/ Observe(i))

\* Baselines are of the process.
Restart ==
    /\ handlers' = <<>> /\ base' = NoBase
    /\ UNCHANGED <<rows, agent, last, machine, wire, counted, again>>

\* Five minutes without a request: the next one starts a new measurement.
LongGap ==
    /\ handlers = <<>>
    /\ base' = [base EXCEPT !.old = TRUE]
    /\ UNCHANGED <<rows, agent, last, machine, wire, handlers, counted, again>>

TwoMinutes ==
    /\ seen = "fresh" /\ seen' = "stale"
    /\ UNCHANGED <<status, node, hosted, agent, last, machine, wire, handlers, rates>>

Silent == seen \in {"never", "stale"}

markStaleServersOffline ==
    /\ status = "ONLINE" /\ Silent
    /\ status' = "OFFLINE"
    /\ UNCHANGED <<seen, node, hosted, agent, last, machine, wire, handlers, rates>>

-----------------------------------------------------------------------------
(* Operators. *)

Deploy ==
    /\ status # "GONE" /\ node' \in Services
    /\ UNCHANGED <<status, seen, hosted, agent, last, machine, wire, handlers, rates>>

Rehost ==
    /\ Updatable /\ Services # {} /\ hosted' = ~hosted
    /\ UNCHANGED <<status, seen, node, agent, last, machine, wire, handlers, rates>>

Retire ==
    /\ \/ status \notin {"DELETING", "GONE"} /\ status' = "DELETING"
       \/ status = "DELETING" /\ status' \in {"ERROR", "GONE"}
    /\ UNCHANGED <<seen, node, hosted, agent, last, machine, wire, handlers, rates>>

Agent == Traffic \/ ServiceChanges \/ Ends \/ Starts \/ Post \/ Fallback \/ GiveUp
Panel == Arrive \/ Lose \/ (\E i \in 1 .. MaxHandlers : Handle(i)) \/ Restart \/ LongGap \/ TwoMinutes \/ markStaleServersOffline
Next == Agent \/ Panel \/ Deploy \/ Rehost \/ Retire

Spec == Init /\ [][Next]_vars

-----------------------------------------------------------------------------
(* Properties. *)

\* No traffic is counted twice: overlapping handlers, requests that are sent again, restarts
\* of either side and counters that start anew only ever lose some.  A payload that arrives
\* after a newer one takes the baseline back all the same, and each makes the rates count at
\* most what has gone through the machine so far once more.
NoOvercount == counted <= traffic + again

\* A server that is being deleted, or whose deletion failed, is not brought back by a
\* heartbeat, though the handler looked the row up before.
RetiredStays == Retired => Retired'

\* An agent that stays silent is eventually shown so, whatever of it is still under way.
AgentSilent == agent = "down"
ShownOnline == status = "ONLINE"

\* The chain node's row comes to say what its service does, again and again, however often
\* deployments and older observations say otherwise.
Reporting(s) == service = s /\ hosted /\ agent # "down" /\ Updatable
NodeShows(s) == node = s
=============================================================================
