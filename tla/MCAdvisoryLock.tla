--------------------------- MODULE MCAdvisoryLock ---------------------------
(* The panel's lock calls around two servers, for TLC. *)
EXTENDS AdvisoryLock, PanelLocks, TLC

CONSTANTS n1, n2, s1, s2

\* n1 enters on s1 and leaves on s2; n2 the other way round (or only uses s2).
CrossEntry == n1 :> s1 @@ n2 :> s2
CrossExit == n1 :> s2 @@ n2 :> s1
CrossGraph == s1 :> <<n1, n2>> @@ s2 :> <<n1, n2>>
ById == n1 :> 1 @@ n2 :> 2 @@ s1 :> 1 @@ s2 :> 2

\* Two creations that list the same servers in opposite orders, and the deletion
\* of one of the servers.
CreateCalls == {<<"create", n1>>, <<"create", n2>>, <<"delete", s1>>}
\* A deployment of n1 and a removal of n2 that share both servers, with the calls
\* nested in them.
RemoveCalls == {<<"deploy", n1>>, <<"deploy/origin", n1>>,
                <<"remove", n2>>, <<"remove/undeploy", n2>>}

MCCalls == CreateCalls \cup RemoveCalls
MCKeys == {Origin, NodeLock(n1), NodeLock(n2), Core(s1), Core(s2), Ports(s1), Ports(s2)}
MCRank == [k \in Keys |-> Cardinality({j \in Keys : SortRank(j) <= SortRank(k)})]
MCListed == [x \in Calls |-> KeysOf(x)]
MCWithin == [x \in Calls |-> IF Inside(x) THEN OuterOf(x) ELSE NoCall]
MCRequest == [x \in Calls |-> IF Inside(x) THEN OuterOf(x) ELSE x]

\* The calls of one of the two scenes at a time.
OneScene ==
    \E scene \in {CreateCalls, RemoveCalls} : \A x \in Calls : phase'[x] # "idle" => x \in scene
MCSpec == Init /\ [][Next /\ OneScene]_vars
=============================================================================
