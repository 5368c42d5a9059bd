----------------------------- MODULE AdvisoryLock -----------------------------
(***************************************************************************)
(* withPostgresAdvisoryLocks: sorted PostgreSQL session locks, taken one   *)
(* by one on a connection of their own, held while the work runs on other  *)
(* connections, and released in the reverse order.                         *)
(*                                                                         *)
(* A call site of the panel is a member of Calls.  A call may be made from *)
(* inside the work of another one (an update deploys, a removal undeploys):*)
(* it then has a session of its own, which PostgreSQL does not relate to   *)
(* the outer one.  PostgreSQL itself is external: its lock table is owner. *)
(* Definitions marked "mutant" are unused mistakes (see README.md).        *)
(***************************************************************************)
EXTENDS Naturals, Sequences, FiniteSets

CONSTANTS
    Calls,      \* the calls that can be under way
    Keys,       \* lock names
    Rank,       \* a key's position when sort() orders them all
    Listed,     \* call -> the keys in the order its caller lists them
    Within,     \* call -> the call whose work makes it, or NoCall
    Request,    \* call -> the request or scheduler tick it belongs to
    MaxBroken,  \* bound: how many sessions are broken at the same time
    NoCall, Nobody

ASSUME CallAssumption ==
    /\ \A x \in Calls : Listed[x] \in Seq(Keys) /\ Listed[x] # <<>>
    /\ Within \in [Calls -> Calls \cup {NoCall}]
    /\ IsFiniteSet(Keys)
    /\ Rank \in [Keys -> 1 .. Cardinality(Keys)]
    /\ \A j, k \in Keys : Rank[j] = Rank[k] => j = k
    /\ MaxBroken \in Nat
    /\ NoCall \notin Calls /\ Nobody \notin Calls

\* new Set(keys): what a call wants; which keys sort() puts before another.
Wants == [x \in Calls |-> {Listed[x][i] : i \in 1 .. Len(Listed[x])}]
Before == [k \in Keys |-> {j \in Keys : Rank[j] < Rank[k]}]
\* The calls that the work of a call makes; the calls that die together.
Children == [x \in Calls |-> {y \in Calls : Within[y] = x}]
Requests == {{x \in Calls : Request[x] = q} : q \in {Request[x] : x \in Calls}}

VARIABLES
    phase,      \* [Calls -> "idle", "waiting", "working" or "unlocking"]
    acquired,   \* [Calls -> SUBSET Keys]: the client's list
    owner,      \* [Keys -> Calls or Nobody]: PostgreSQL's lock table
    session,    \* [Calls -> "alive", "lost" or "lostLate"]: the connection; lostLate:
                \*   it broke after the work had ended
    noticed,    \* [Calls -> BOOLEAN]: an error event has arrived
    failed,     \* [Calls -> BOOLEAN]: primaryError is set
    unclean,    \* [Calls -> BOOLEAN]: cleanupError is set
    made        \* nested calls that the outer work has already made

vars == <<phase, acquired, owner, session, noticed, failed, unclean, made>>

-----------------------------------------------------------------------------
Alive(x) == session[x] = "alive"
OpenChildren(x) == {y \in Children[x] : phase[y] # "idle"}
Outer(x) == {p \in Calls : x \in Children[p]}

\* orderedKeys: without duplicates, sorted.
AsListed(x, k) ==                                                        \* mutant
    \E i \in 1 .. Len(Listed[x]) :
       Listed[x][i] = k /\ \A j \in 1 .. i - 1 : Listed[x][j] \in acquired[x]
Sorted(x, k) == (Wants[x] \ acquired[x]) \cap Before[k] = {}
Wanted(x) == CHOOSE k \in Wants[x] \ acquired[x] : Sorted(x, k)

\* pg_advisory_lock waits until nobody has the key.  (pg_try_advisory_lock would
\* answer at once, and the answer would have to be looked at.)
Untested(k) == TRUE                                                      \* mutant
Available(k) == owner[k] = Nobody

\* The call: connect, set lock_timeout.  Inside another call's work each site is
\* reached at most once, and one at a time.
Call(x) ==
    /\ phase[x] = "idle"
    /\ phase' = [phase EXCEPT ![x] = "waiting"]
    /\ \A p \in Outer(x) : phase[p] = "working" /\ OpenChildren(p) = {} /\ x \notin made
    /\ made' = IF Outer(x) = {} THEN made ELSE made \cup {x}
    /\ UNCHANGED <<acquired, owner, session, noticed, failed, unclean>>

\* One pg_advisory_lock returns; after the last one the work starts.
Grant(x) ==
    LET k == Wanted(x)
    IN  /\ phase[x] = "waiting" /\ Alive(x)
        /\ Available(k)
        /\ owner' = [owner EXCEPT ![k] = x]
        /\ acquired' = [acquired EXCEPT ![x] = @ \cup {k}]
        /\ phase' = IF acquired'[x] = Wants[x] THEN [phase EXCEPT ![x] = "working"] ELSE phase
        /\ UNCHANGED <<session, noticed, failed, unclean, made>>

\* lock_timeout runs out on one key, or the connection is gone: the query rejects.
Rejected(x) == ~Alive(x) \/ owner[Wanted(x)] # Nobody
GiveUp(x) ==
    /\ phase[x] = "waiting"
    /\ Rejected(x)
    /\ failed' = [failed EXCEPT ![x] = TRUE]
    /\ phase' = [phase EXCEPT ![x] = "unlocking"]
    /\ UNCHANGED <<acquired, owner, session, noticed, unclean, made>>

\* work() resolves or rejects; nothing in it looks at the lock connection.
WorkEnds(x) ==
    /\ phase[x] = "working"
    /\ OpenChildren(x) = {}
    /\ \E rejects \in BOOLEAN : failed' = [failed EXCEPT ![x] = rejects]
    /\ phase' = [phase EXCEPT ![x] = "unlocking"]
    /\ UNCHANGED <<acquired, owner, session, noticed, unclean, made>>

\* One pg_advisory_unlock, the last key first; it fails on a broken connection.
Unlock(x) ==
    LET k == CHOOSE k \in acquired[x] : acquired[x] \subseteq Before[k] \cup {k}
    IN  /\ phase[x] = "unlocking" /\ acquired[x] # {}
        /\ IF Alive(x) THEN owner' = [owner EXCEPT ![k] = Nobody] /\ UNCHANGED unclean
                       ELSE unclean' = [unclean EXCEPT ![x] = TRUE] /\ UNCHANGED owner
        /\ acquired' = [acquired EXCEPT ![x] = @ \ {k}]
        /\ UNCHANGED <<phase, session, noticed, failed, made>>

\* What the caller gets.  A lost connection invalidates even a result; an error of
\* the unlocking never replaces an error of the work.
UncleanAsResult(x) ==                                                    \* mutant
    IF noticed[x] THEN "lostError" ELSE IF failed[x] THEN "error" ELSE "ok"
Outcome(x) ==
    IF noticed[x] THEN "lostError"
    ELSE IF failed[x] \/ unclean[x] THEN "error" ELSE "ok"

\* client.end(): the session is over, whatever it still held is free, and the
\* caller has the outcome.
Close(x) ==
    /\ phase[x] = "unlocking" /\ acquired[x] = {}
    /\ phase' = [phase EXCEPT ![x] = "idle"]
    /\ made' = made \ Children[x]
    /\ session' = [session EXCEPT ![x] = "alive"]
    /\ noticed' = [noticed EXCEPT ![x] = FALSE]
    /\ failed' = [failed EXCEPT ![x] = FALSE]
    /\ unclean' = [unclean EXCEPT ![x] = FALSE]
    /\ owner' = [k \in Keys |-> IF owner[k] = x THEN Nobody ELSE owner[k]]
    /\ UNCHANGED acquired

\* The connection breaks: PostgreSQL releases every lock of the session.  The
\* client hears of it at once, later (Notice), or not before it has closed.
Break(x) ==
    /\ phase[x] # "idle" /\ Alive(x)
    /\ Cardinality({y \in Calls : ~Alive(y)}) < MaxBroken
    /\ session' = [session EXCEPT ![x] = IF phase[x] = "unlocking" THEN "lostLate" ELSE "lost"]
    /\ owner' = [k \in Keys |-> IF owner[k] = x THEN Nobody ELSE owner[k]]
    /\ UNCHANGED <<phase, acquired, noticed, failed, unclean, made>>

Notice(x) ==
    /\ ~Alive(x) /\ ~noticed[x]
    /\ noticed' = [noticed EXCEPT ![x] = TRUE]
    /\ UNCHANGED <<phase, acquired, owner, session, failed, unclean, made>>

\* The process dies in the middle of a request, with all its sessions.
Crash(xs) ==
    /\ \E x \in xs : phase[x] # "idle"
    /\ phase' = [x \in Calls |-> IF x \in xs THEN "idle" ELSE phase[x]]
    /\ acquired' = [x \in Calls |-> IF x \in xs THEN {} ELSE acquired[x]]
    /\ owner' = [k \in Keys |-> IF owner[k] \in xs THEN Nobody ELSE owner[k]]
    /\ session' = [x \in Calls |-> IF x \in xs THEN "alive" ELSE session[x]]
    /\ noticed' = [x \in Calls |-> x \notin xs /\ noticed[x]]
    /\ failed' = [x \in Calls |-> x \notin xs /\ failed[x]]
    /\ unclean' = [x \in Calls |-> x \notin xs /\ unclean[x]]
    /\ made' = made \ xs

-----------------------------------------------------------------------------
Init ==
    /\ phase = [x \in Calls |-> "idle"]
    /\ acquired = [x \in Calls |-> {}]
    /\ owner = [k \in Keys |-> Nobody]
    /\ session = [x \in Calls |-> "alive"]
    /\ noticed = [x \in Calls |-> FALSE]
    /\ failed = [x \in Calls |-> FALSE]
    /\ unclean = [x \in Calls |-> FALSE]
    /\ made = {}

Step(x) == Grant(x) \/ GiveUp(x) \/ WorkEnds(x) \/ Unlock(x) \/ Close(x)

Next ==
    \/ \E x \in Calls : Call(x) \/ Step(x) \/ Break(x) \/ Notice(x)
    \/ \E xs \in Requests : Crash(xs)

Spec == Init /\ [][Next]_vars

-----------------------------------------------------------------------------
(* Properties *)

\* Every variable holds a value of its kind.
TypeOK ==
    /\ phase \in [Calls -> {"idle", "waiting", "working", "unlocking"}]
    /\ acquired \in [Calls -> SUBSET Keys]
    /\ owner \in [Keys -> Calls \cup {Nobody}]
    /\ session \in [Calls -> {"alive", "lost", "lostLate"}]
    /\ noticed \in [Calls -> BOOLEAN]
    /\ failed \in [Calls -> BOOLEAN]
    /\ unclean \in [Calls -> BOOLEAN]
    /\ made \subseteq Calls

\* Taken one by one, the locks of a call appear to be taken together when its
\* work starts, and to go together when the work ends or the session breaks.
Held == [x \in Calls |-> IF phase[x] = "working" /\ Alive(x) THEN Wants[x] ELSE {}]
Atomic == INSTANCE LockTable WITH Keys <- Keys, Calls <- Calls, table <- Held
TakenTogether == Atomic!Spec

\* A call returns a result only if its locks were held as long as its work ran:
\* a session that broke meanwhile turns the result into an error, whether the
\* connection's error event arrives or only the unlocking fails.
ResultsWereFenced ==
    \A x \in Calls : phase[x] = "unlocking" /\ acquired[x] = {} /\ Outcome(x) = "ok"
                        => session[x] # "lost"

\* Nobody waits in a circle: for a key of somebody who waits, or for a call of its
\* own that waits, and so on round.  (The lock_timeout would break a circle only
\* after 30 s, and PostgreSQL's deadlock detection sees one session of a request
\* at a time.)
StuckIn(x, ring) ==
    \/ phase[x] = "waiting" /\ Alive(x) /\ owner[Wanted(x)] \in ring
    \/ phase[x] = "working" /\ OpenChildren(x) \cap ring # {}
NoCircularWait ==
    \A ring \in SUBSET Calls : ring # {} => \E x \in ring : ~StuckIn(x, ring)

\* What makes circles impossible: some height grows from key to key in every call
\* and from a call to the calls nested in it.  (sort() gives one, except that
\* cf-origin is only ever taken innermost; the deployment nested in an update has
\* none.)
Ascending(height) ==
    \A x \in Calls :
       /\ \A j, k \in Wants[x] : Rank[j] < Rank[k] => height[j] < height[k]
       /\ \A y \in Children[x], j \in Wants[x] : \A k \in Wants[y] : height[j] < height[k]

\* Every call comes to this again and again, even where nested calls take locks out of order.
AtRest(x) == phase[x] = "idle"
=============================================================================
