------------------------ MODULE MCResourceLifecycle ------------------------
(* Small instances of ResourceLifecycle for TLC. *)
EXTENDS ResourceLifecycle, TLC

CONSTANTS n1, n2, s1, s2, h1, h2

\* One chain node: entry on s1, exit on s2.
ChainEntry == n1 :> s1
ChainExit == n1 :> s2
\* One plain node.
LoneEntry == n1 :> s1
LoneExit == n1 :> NoServer

Bound(deploys, faults, moves, losses, erasures, scans, beats) ==
    "deploy" :> deploys @@ "fault" :> faults @@ "move" :> moves @@ "lost" :> losses
      @@ "erase" :> erasures @@ "scan" :> scans @@ "beat" :> beats
ChainBudget == Bound(2, 1, 0, 0, 0, 0, 1)
LoneBudget == Bound(2, 1, 1, 1, 1, 1, 0)
LossBudget == Bound(1, 0, 0, 1, 0, 0, 0)
MoveBudget == Bound(1, 0, 1, 0, 0, 0, 0)
FaultBudget == Bound(1, 1, 0, 0, 0, 1, 0)
FairBudget == Bound(1, 1, 0, 0, 1, 0, 0)

HandlerSymmetry == Permutations(Workers) \cup Permutations(Hosts) \cup Permutations(Identities)

\* Every server starts on a machine of its own, none of them marked.
MCInit == Init /\ mark = [h \in Hosts |-> NoId] /\ \A s, t \in Servers : s # t => addr[s] # addr[t]
MCSpec == MCInit /\ [][Next]_vars
MCFairSpec == MCSpec /\ Fairness

\* Faults and scans, or a lost lock session, or erased credentials, in one behaviour.
OneMisfortune ==
    \/ spent'["lost"] + spent'["erase"] = 0
    \/ spent'["fault"] + spent'["scan"] = 0 /\ spent'["lost"] + spent'["erase"] = 1
=============================================================================
