------------------------------ MODULE LockTable ------------------------------
(***************************************************************************)
(* What a caller of withPostgresAdvisoryLocks is promised: while its work  *)
(* runs it holds all of its keys and nobody else holds any of them.  It    *)
(* gets them together, and they go together.                               *)
(***************************************************************************)
CONSTANTS Calls, Keys

VARIABLE table    \* [Calls -> SUBSET Keys]

TypeOK == table \in [Calls -> SUBSET Keys]

Init == table = [x \in Calls |-> {}]

\* A call's work starts with all the keys it wants.
Take(x) ==
    /\ table[x] = {}
    /\ \E keys \in {table'[x]} :
          /\ keys \subseteq Keys
          /\ \A y \in Calls : table[y] \cap keys = {}
          /\ table' = [table EXCEPT ![x] = keys]

\* Calls end one at a time, or many at once when a process dies.
Release ==
    /\ table' = [x \in Calls |-> table'[x]]
    /\ \A x \in Calls : table'[x] \in {table[x], {}}

Next == (\E x \in Calls : Take(x)) \/ Release

Spec == Init /\ [][Next]_table

\* Two calls whose work runs at the same time have no key in common.
Exclusive == \A x, y \in Calls : x # y => table[x] \cap table[y] = {}
=============================================================================
