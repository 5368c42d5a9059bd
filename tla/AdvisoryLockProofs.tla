------------------------- MODULE AdvisoryLockProofs -------------------------
(***************************************************************************)
(* Theorems about AdvisoryLock: the lock table of PostgreSQL and the       *)
(* client's list agree, the one-by-one acquisition implements LockTable,   *)
(* and calls whose keys ascend never wait in a circle. The slots and ports *)
(* of the connectivity tests, and share links that go from panel to panel, *)
(* follow below.                                                           *)
(***************************************************************************)
EXTENDS AdvisoryLock, FiniteSetTheorems, SequenceTheorems, TLAPS

-----------------------------------------------------------------------------
(* Sorting *)

\* A set of naturals that is not empty has a least member.
LEMMA Least ==
    ASSUME NEW T \in SUBSET Nat, T # {}
    PROVE  \E x \in T : \A y \in T : x <= y
  <1>1. IsWellFoundedOn(OpToRel(<, Nat), Nat)
    BY NatLessThanWellFounded, Zenon
  <1>2. \A x, y \in Nat : y < x => <<y, x>> \in OpToRel(<, Nat)
    BY DEF OpToRel
  <1>3. PICK R : IsWellFoundedOn(R, Nat) /\ \A x, y \in Nat : y < x => <<y, x>> \in R
    BY <1>1, <1>2, Zenon
  <1>4. \E x \in T : \A y \in T : <<y, x>> \notin R
    BY <1>3, WFMin
  <1>5. \A x, y \in Nat : y < x => <<y, x>> \in R
    BY <1>3, Zenon
  <1>6. \A x, y \in T : <<y, x>> \notin R => x <= y
    <2> TAKE x, y \in T
    <2>1. x \in Nat /\ y \in Nat
      OBVIOUS
    <2>2. y < x => <<y, x>> \in R
      BY <1>5, <2>1, Zenon
    <2>3. ~(y < x) => x <= y
      BY <2>1
    <2> QED BY <2>2, <2>3
  <1> QED BY <1>4, <1>6, Zenon

\* One with a bound has a greatest member.
LEMMA Greatest ==
    ASSUME NEW b \in Nat, NEW T \in SUBSET (0 .. b), T # {}
    PROVE  \E x \in T : \A y \in T : y <= x
  <1> DEFINE U == {b - t : t \in T}
  <1>1. U \in SUBSET Nat /\ U # {}
    <2>1. \A t \in T : b - t \in Nat
      OBVIOUS
    <2> QED BY <2>1
  <1> HIDE DEF U
  <1>2. PICK u \in U : \A v \in U : u <= v
    BY <1>1, Least
  <1>3. PICK x \in T : u = b - x
    BY <1>2 DEF U
  <1>4. \A y \in T : b - y \in U
    BY DEF U
  <1>5. \A y \in T : b - x <= b - y
    BY <1>2, <1>3, <1>4
  <1> QED BY <1>5

LEMMA Positions == Cardinality(Keys) \in Nat /\ Rank \in [Keys -> 1 .. Cardinality(Keys)]
BY CallAssumption, FS_CardinalityType

\* Among some keys, sort() puts one first and one last.
LEMMA FirstKey ==
    ASSUME NEW S \in SUBSET Keys, S # {}
    PROVE  \E k \in S : S \cap Before[k] = {}
  <1> DEFINE T == {Rank[k] : k \in S}
  <1>1. T \in SUBSET Nat /\ T # {}
    BY Positions
  <1>2. PICK t \in T : \A u \in T : t <= u
    BY <1>1, Least
  <1>3. PICK k \in S : t = Rank[k]
    BY <1>2
  <1>4. \A j \in S : Rank[k] <= Rank[j]
    BY <1>2, <1>3
  <1> QED BY <1>4, Positions DEF Before

LEMMA LastKey ==
    ASSUME NEW S \in SUBSET Keys, S # {}
    PROVE  \E k \in S : S \subseteq Before[k] \cup {k}
  <1> DEFINE T == {Rank[k] : k \in S}
  <1>1. T \in SUBSET (0 .. Cardinality(Keys)) /\ T # {}
    BY Positions
  <1>2. PICK t \in T : \A u \in T : u <= t
    BY <1>1, Greatest, Positions
  <1>3. PICK k \in S : t = Rank[k]
    BY <1>2
  <1>4. \A j \in S : Rank[j] <= Rank[k]
    BY <1>2, <1>3
  <1> QED BY <1>4, Positions, CallAssumption DEF Before

LEMMA WantsTyped ==
    ASSUME NEW x \in Calls
    PROVE  Wants[x] \in SUBSET Keys /\ Wants[x] # {}
  <1>1. Listed[x] \in Seq(Keys) /\ Listed[x] # <<>>
    BY CallAssumption
  <1>2. Len(Listed[x]) \in Nat /\ Len(Listed[x]) # 0 /\ \A i \in 1 .. Len(Listed[x]) : Listed[x][i] \in Keys
    BY <1>1
  <1>3. 1 \in 1 .. Len(Listed[x])
    BY <1>2
  <1> QED BY <1>2, <1>3 DEF Wants

\* The next key of a call, and the key it unlocks first.
LEMMA WantedKey ==
    ASSUME NEW x \in Calls, Wants[x] \ acquired[x] # {}
    PROVE  Wanted(x) \in Wants[x] \ acquired[x] /\ Sorted(x, Wanted(x))
  <1>1. \E k \in Wants[x] \ acquired[x] : Sorted(x, k)
    BY FirstKey, WantsTyped DEF Sorted
  <1> QED BY <1>1 DEF Wanted

Last(x) == CHOOSE k \in acquired[x] : acquired[x] \subseteq Before[k] \cup {k}

LEMMA LastAcquired ==
    ASSUME NEW x \in Calls, acquired[x] \in SUBSET Keys, acquired[x] # {}
    PROVE  Last(x) \in acquired[x]
BY LastKey DEF Last

-----------------------------------------------------------------------------
(* The lock table and the client's list agree *)

\* What a call has acquired, by its phase; what it waits for sorts behind.
CallInv(x) ==
    /\ acquired[x] \subseteq Wants[x]
    /\ phase[x] = "idle" => acquired[x] = {} /\ Alive(x)
    /\ phase[x] = "waiting" =>
          /\ acquired[x] # Wants[x]
          /\ \A j \in acquired[x], k \in Wants[x] \ acquired[x] : Rank[j] < Rank[k]
    /\ phase[x] = "working" => acquired[x] = Wants[x]
    /\ \A k \in Keys : owner[k] = x <=> Alive(x) /\ k \in acquired[x]

LockInv == TypeOK /\ \A x \in Calls : CallInv(x)

LEMMA LockInit == Init => LockInv
BY WantsTyped, CallAssumption DEF Init, LockInv, TypeOK, CallInv, Alive

\* Only one call moves; the others keep their locks.
LEMMA CallStep ==
    ASSUME LockInv, NEW x \in Calls, Call(x) \/ GiveUp(x) \/ WorkEnds(x) \/ Notice(x)
    PROVE  LockInv'
  <1> USE DEF LockInv, CallInv, Alive
  <1>1. CASE Call(x)
    <2>1. TypeOK'
      BY <1>1 DEF Call, TypeOK
    <2>2. \A y \in Calls : CallInv(y)'
      BY <1>1, WantsTyped DEF Call, TypeOK
    <2> QED BY <2>1, <2>2
  <1>2. CASE GiveUp(x)
    BY <1>2 DEF GiveUp, TypeOK
  <1>3. CASE WorkEnds(x)
    BY <1>3 DEF WorkEnds, TypeOK
  <1>4. CASE Notice(x)
    BY <1>4 DEF Notice, TypeOK
  <1> QED BY <1>1, <1>2, <1>3, <1>4

LEMMA GrantStep ==
    ASSUME LockInv, NEW x \in Calls, Grant(x)
    PROVE  LockInv'
  <1> DEFINE k == Wanted(x)
  <1>1. /\ k \in Wants[x] \ acquired[x] /\ k \in Keys
        /\ \A j \in Wants[x] \ acquired[x] : Rank[j] >= Rank[k]
    <2>1. Wants[x] \ acquired[x] # {}
      <3>1. acquired[x] \subseteq Wants[x] /\ acquired[x] # Wants[x]
        BY DEF LockInv, CallInv, Grant
      <3> QED BY <3>1
    <2>2. k \in Wants[x] \ acquired[x] /\ Sorted(x, k)
      BY <2>1, WantedKey
    <2>3. k \in Keys /\ Wants[x] \subseteq Keys
      BY <2>2, WantsTyped
    <2> HIDE DEF k
    <2>4. ASSUME NEW j \in Wants[x] \ acquired[x] PROVE Rank[j] >= Rank[k]
      <3>1. j \in Keys /\ j \notin Before[k]
        BY <2>2, <2>3 DEF Sorted
      <3>2. Rank[j] \in Nat /\ Rank[k] \in Nat
        BY <2>3, <3>1, Positions
      <3> QED BY <2>3, <3>1, <3>2 DEF Before
    <2> QED BY <2>2, <2>3, <2>4
  <1> HIDE DEF k
  <1>2. /\ owner[k] = Nobody /\ Alive(x) /\ phase[x] = "waiting"
        /\ owner' = [owner EXCEPT ![k] = x]
        /\ acquired' = [acquired EXCEPT ![x] = acquired[x] \cup {k}]
        /\ phase' = IF acquired[x] \cup {k} = Wants[x] THEN [phase EXCEPT ![x] = "working"] ELSE phase
        /\ UNCHANGED <<session, noticed, failed, unclean, made>>
    BY DEF Grant, Available, k, LockInv, TypeOK
  <1>3. TypeOK'
    BY <1>1, <1>2 DEF LockInv, TypeOK
  <1>4. CallInv(x)'
    <2>1. acquired'[x] = acquired[x] \cup {k}
      BY <1>2 DEF LockInv, TypeOK
    <2>2. ASSUME phase'[x] = "waiting",
                 NEW j \in acquired'[x], NEW i \in Wants[x] \ acquired'[x]
          PROVE  Rank[j] < Rank[i]
      <3>1. i \in Keys /\ i # k /\ i \in Wants[x] \ acquired[x] /\ Rank[i] # Rank[k]
        BY <1>1, <2>1, <2>2, WantsTyped, CallAssumption
      <3>2. CASE j \in acquired[x]
        BY <1>2, <3>1, <3>2 DEF LockInv, CallInv
      <3>3. CASE j = k
        BY <1>1, <3>1, <3>3, Positions
      <3> QED BY <2>1, <3>2, <3>3
    <2> QED BY <1>1, <1>2, <2>1, <2>2 DEF LockInv, TypeOK, CallInv, Alive
  <1>5. ASSUME NEW y \in Calls, y # x PROVE CallInv(y)'
    BY <1>1, <1>2, <1>5, CallAssumption DEF LockInv, TypeOK, CallInv, Alive
  <1> QED BY <1>3, <1>4, <1>5 DEF LockInv

LEMMA UnlockStep ==
    ASSUME LockInv, NEW x \in Calls, Unlock(x)
    PROVE  LockInv'
  <1> DEFINE k == Last(x)
  <1>1. k \in acquired[x] /\ k \in Keys
    BY LastAcquired DEF Unlock, LockInv, TypeOK
  <1>2. /\ phase[x] = "unlocking"
        /\ IF Alive(x) THEN owner' = [owner EXCEPT ![k] = Nobody] /\ UNCHANGED unclean
                       ELSE unclean' = [unclean EXCEPT ![x] = TRUE] /\ UNCHANGED owner
        /\ acquired' = [acquired EXCEPT ![x] = acquired[x] \ {k}]
        /\ UNCHANGED <<phase, session, noticed, failed, made>>
    BY DEF Unlock, Last
  <1> HIDE DEF k
  <1>3. TypeOK'
    BY <1>1, <1>2 DEF LockInv, TypeOK
  <1>4. ASSUME NEW y \in Calls PROVE CallInv(y)'
    BY <1>1, <1>2, CallAssumption DEF LockInv, TypeOK, CallInv, Alive
  <1> QED BY <1>3, <1>4 DEF LockInv

\* A session ends, by its own or with its process.
LEMMA EndStep ==
    ASSUME LockInv,
           \/ \E x \in Calls : Close(x) \/ Break(x)
           \/ \E xs \in Requests : Crash(xs)
    PROVE  LockInv'
  <1> USE DEF LockInv, CallInv, Alive
  <1>1. ASSUME NEW x \in Calls, Close(x) PROVE LockInv'
    <2>1. TypeOK'
      BY <1>1 DEF Close, TypeOK
    <2>2. \A y \in Calls : CallInv(y)'
      BY <1>1, CallAssumption, ZenonT(40) DEF Close, TypeOK
    <2> QED BY <2>1, <2>2
  <1>2. ASSUME NEW x \in Calls, Break(x) PROVE LockInv'
    <2>1. TypeOK'
      BY <1>2 DEF Break, TypeOK
    <2>2. \A y \in Calls : CallInv(y)'
      BY <1>2, CallAssumption DEF Break, TypeOK
    <2> QED BY <2>1, <2>2
  <1>3. ASSUME NEW xs \in Requests, Crash(xs) PROVE LockInv'
    <2>1. TypeOK'
      BY <1>3 DEF Crash, TypeOK
    <2>2. \A y \in Calls : CallInv(y)'
      BY <1>3, CallAssumption DEF Crash, TypeOK
    <2> QED BY <2>1, <2>2
  <1> QED BY <1>1, <1>2, <1>3

LEMMA LockStep == LockInv /\ [Next]_vars => LockInv'
  <1> SUFFICES ASSUME LockInv, [Next]_vars PROVE LockInv'
    OBVIOUS
  <1>1. CASE UNCHANGED vars
    BY <1>1 DEF vars, LockInv, TypeOK, CallInv, Alive
  <1>2. CASE Next
    BY <1>2, CallStep, GrantStep, UnlockStep, EndStep DEF Next, Step
  <1> QED BY <1>1, <1>2

LEMMA LockAlways == Spec => []LockInv
BY LockInit, LockStep, PTL DEF Spec

\* The client's list and PostgreSQL's lock table keep their types.
THEOREM LockTypes == Spec => []TypeOK
BY LockAlways, PTL DEF LockInv

-----------------------------------------------------------------------------
(* The acquisition implements the lock table *)

LEMMA HeldTyped == TypeOK => Held \in [Calls -> SUBSET Keys]
BY WantsTyped DEF Held

\* Calls that work under live sessions share no key.
LEMMA HeldDisjoint ==
    ASSUME LockInv, NEW x \in Calls, NEW y \in Calls, x # y
    PROVE  Held[x] \cap Held[y] = {}
BY WantsTyped DEF LockInv, CallInv, Held

\* A step that starts no work only lets locks go.
LEMMA OnlyReleases ==
    ASSUME \A x \in Calls : Held'[x] \in {Held[x], {}}
    PROVE  Atomic!Release
  <1>1. Held' = [x \in Calls |-> Held'[x]]
    BY DEF Held
  <1> QED BY <1>1 DEF Atomic!Release

LEMMA GrantTakes ==
    ASSUME LockInv, LockInv', NEW x \in Calls, Grant(x)
    PROVE  Atomic!Next
  <1>1. /\ phase[x] = "waiting" /\ UNCHANGED session
        /\ \A y \in Calls : y # x => phase'[y] = phase[y]
    BY DEF Grant, LockInv, TypeOK
  <1>2. \A y \in Calls : y # x => Held'[y] = Held[y]
    BY <1>1 DEF Held, Alive
  <1>3. Held[x] = {}
    BY <1>1 DEF Held
  <1>4. Atomic!Take(x)
    <2>1. Held' = [Held EXCEPT ![x] = Held'[x]]
      BY <1>2 DEF Held
    <2>2. Held'[x] \subseteq Keys
      BY WantsTyped DEF Held
    <2>3. \A y \in Calls : Held[y] \cap Held'[x] = {}
      <3>1. ASSUME NEW y \in Calls, y # x PROVE Held'[x] \cap Held'[y] = {}
        BY <3>1, WantsTyped DEF LockInv, CallInv, Held, Alive
      <3> QED BY <1>2, <1>3, <3>1
    <2> QED BY <1>3, <2>1, <2>2, <2>3 DEF Atomic!Take
  <1> QED BY <1>4 DEF Atomic!Next

LEMMA StepTakesOrReleases ==
    ASSUME LockInv, LockInv', [Next]_vars
    PROVE  [Atomic!Next]_Held
  <1> USE DEF LockInv, TypeOK
  <1>1. CASE UNCHANGED vars
    BY <1>1 DEF vars, Held, Alive
  <1>2. ASSUME NEW x \in Calls, Grant(x) PROVE Atomic!Next
    BY <1>2, GrantTakes
  <1>3. ASSUME NEW x \in Calls,
               Call(x) \/ GiveUp(x) \/ WorkEnds(x) \/ Unlock(x) \/ Close(x) \/ Break(x) \/ Notice(x)
        PROVE  \A y \in Calls : Held'[y] \in {Held[y], {}}
    BY <1>3 DEF Call, GiveUp, WorkEnds, Unlock, Close, Break, Notice, Held, Alive
  <1>4. ASSUME NEW xs \in Requests, Crash(xs)
        PROVE  \A y \in Calls : Held'[y] \in {Held[y], {}}
    BY <1>4 DEF Crash, Held, Alive
  <1> QED BY <1>1, <1>2, <1>3, <1>4, OnlyReleases DEF Next, Step, Atomic!Next

\* For every set of calls and keys: although the keys are taken one by one, and
\* sessions break and processes die in between, whose work runs holds all its keys
\* against everybody else, as LockTable says.
THEOREM LocksTakenTogether == Spec => TakenTogether
  <1>1. Init => Atomic!Init
    BY DEF Init, Held, Atomic!Init
  <1>2. Spec => [][Atomic!Next]_Held
    BY LockAlways, StepTakesOrReleases, PTL DEF Spec
  <1> QED BY <1>1, <1>2, PTL DEF Spec, TakenTogether, Atomic!Spec

-----------------------------------------------------------------------------
(* No circular wait *)

LEMMA NoRing ==
    ASSUME LockInv, NEW b \in Nat, NEW height \in [Keys -> 0 .. b], Ascending(height)
    PROVE  NoCircularWait
  <1> SUFFICES ASSUME NEW ring \in SUBSET Calls, ring # {}, \A x \in ring : StuckIn(x, ring)
               PROVE  FALSE
    BY DEF NoCircularWait
  \* The keys the ring is stuck at: waited for, or held around a nested call.
  <1> DEFINE At(x) == IF phase[x] = "waiting" THEN {Wanted(x)} ELSE Wants[x]
             T == UNION {{height[k] : k \in At(x)} : x \in ring}
  <1>1. ASSUME NEW x \in ring
        PROVE  At(x) \in SUBSET Wants[x] /\ At(x) # {} /\ Wants[x] \in SUBSET Keys
    <2>1. phase[x] = "waiting" => Wants[x] \ acquired[x] # {}
      <3>1. phase[x] = "waiting" => acquired[x] \subseteq Wants[x] /\ acquired[x] # Wants[x]
        BY DEF LockInv, CallInv
      <3> QED BY <3>1
    <2> QED BY <2>1, WantedKey, WantsTyped
  <1>2. ASSUME NEW x \in ring, NEW k \in At(x)
        PROVE  \E z \in ring : \E j \in At(z) : height[k] < height[j]
    \* A call nested in the work of a member stands higher.
    <2>1. ASSUME NEW z \in ring, phase[z] = "working", NEW i \in Wants[z]
          PROVE  \E y \in ring : \E j \in At(y) : height[i] < height[j]
      <3>1. PICK y \in ring : y \in Children[z]
        BY <2>1 DEF StuckIn, OpenChildren
      <3>2. PICK j \in At(y) : j \in Wants[y]
        BY <1>1
      <3> QED BY <2>1, <3>1, <3>2 DEF Ascending
    <2>2. CASE phase[x] = "working"
      <3>1. k \in Wants[x]
        BY <1>1
      <3> QED BY <2>1, <2>2, <3>1
    <2>3. CASE phase[x] = "waiting"
      <3>1. k = Wanted(x) /\ k \in Keys
        BY <1>1, <2>3
      <3>2. PICK z \in ring : owner[k] = z
        BY <2>3, <3>1 DEF StuckIn
      <3>3. k \in acquired[z] /\ k \in Wants[z]
        BY <3>1, <3>2 DEF LockInv, CallInv
      <3>4. CASE phase[z] = "working"
        BY <2>1, <3>3, <3>4
      <3>5. CASE phase[z] = "waiting"
        <4>1. Wants[z] \ acquired[z] # {}
          <5>1. acquired[z] \subseteq Wants[z] /\ acquired[z] # Wants[z]
            BY <3>5 DEF LockInv, CallInv
          <5> QED BY <5>1
        <4>2. Wanted(z) \in Wants[z] \ acquired[z]
          BY <4>1, WantedKey
        <4>3. Rank[k] < Rank[Wanted(z)]
          BY <3>3, <3>5, <4>2 DEF LockInv, CallInv
        <4>4. height[k] < height[Wanted(z)]
          BY <3>3, <4>2, <4>3 DEF Ascending
        <4> QED BY <3>5, <4>4
      <3> QED BY <3>4, <3>5 DEF StuckIn
    <2> QED BY <2>2, <2>3 DEF StuckIn
  <1>3. T \in SUBSET (0 .. b) /\ T # {}
    <2>1. \A x \in ring : \A k \in At(x) : height[k] \in 0 .. b
      BY <1>1
    <2>2. PICK x \in ring : TRUE
      OBVIOUS
    <2>3. PICK k \in At(x) : TRUE
      BY <1>1
    <2> HIDE DEF At
    <2>4. \A u \in T : u \in 0 .. b
      BY <2>1
    <2>5. height[k] \in T
      BY <2>2, <2>3
    <2> QED BY <2>4, <2>5
  <1>4. PICK t \in T : \A u \in T : u <= t
    BY <1>3, Greatest
  <1>5. PICK x \in ring : \E i \in At(x) : t = height[i]
    BY <1>4
  <1>6. PICK k \in At(x) : t = height[k]
    BY <1>5
  <1>7. PICK z \in ring : \E j \in At(z) : height[k] < height[j]
    BY <1>2
  <1>8. PICK j \in At(z) : height[k] < height[j]
    BY <1>7
  <1>9. height[j] \in T
    OBVIOUS
  <1>10. height[j] <= t /\ height[j] \in 0 .. b /\ t \in 0 .. b
    BY <1>3, <1>4, <1>9
  <1> QED BY <1>10, <1>6, <1>8

\* For every set of calls: where a height ascends with the keys a request takes,
\* in one call and into its nested calls, requests never wait in a circle, and no
\* request waits for itself.
THEOREM AscendingNeverCircular ==
    ASSUME NEW b \in Nat, NEW height \in [Keys -> 0 .. b], Ascending(height)
    PROVE  Spec => []NoCircularWait
BY LockAlways, NoRing, PTL

-----------------------------------------------------------------------------
(* A broken session is never passed over *)

\* A session that broke under the work has keys left to unlock, or an error.
LossKept(x) ==
    phase[x] = "unlocking" /\ session[x] = "lost" => acquired[x] # {} \/ failed[x] \/ unclean[x]

FenceInv == LockInv /\ \A x \in Calls : LossKept(x)

LEMMA FenceStep == FenceInv /\ [Next]_vars => FenceInv'
  <1> SUFFICES ASSUME FenceInv, [Next]_vars PROVE FenceInv'
    OBVIOUS
  <1> USE DEF FenceInv, LossKept
  <1>1. LockInv'
    BY LockStep
  <1> SUFFICES ASSUME NEW y \in Calls PROVE LossKept(y)'
    BY <1>1
  <1>2. ASSUME NEW x \in Calls, Call(x) \/ GiveUp(x) \/ WorkEnds(x) \/ Grant(x) PROVE LossKept(y)'
    BY <1>2, WantsTyped DEF Call, GiveUp, WorkEnds, Grant, LockInv, TypeOK, CallInv
  <1>3. ASSUME NEW x \in Calls, Unlock(x) PROVE LossKept(y)'
    BY <1>3 DEF Unlock, Alive, LockInv, TypeOK
  <1>4. ASSUME NEW x \in Calls, Close(x) \/ Break(x) \/ Notice(x) PROVE LossKept(y)'
    BY <1>4 DEF Close, Break, Notice, LockInv, TypeOK
  <1>5. ASSUME NEW xs \in Requests, Crash(xs) PROVE LossKept(y)'
    BY <1>5 DEF Crash, LockInv, TypeOK
  <1>6. CASE UNCHANGED vars
    BY <1>6 DEF vars
  <1> QED BY <1>2, <1>3, <1>4, <1>5, <1>6 DEF Next, Step

\* No call ever returns a result if its session was lost before its work had ended.
THEOREM FencedResults == Spec => []ResultsWereFenced
  <1>1. Init => FenceInv
    BY LockInit DEF Init, FenceInv, LossKept
  <1>2. FenceInv => ResultsWereFenced
    BY DEF FenceInv, LossKept, ResultsWereFenced, Outcome
  <1> QED BY <1>1, <1>2, FenceStep, PTL DEF Spec

-----------------------------------------------------------------------------
(* The slots of the connectivity tests, another lock the panel keeps, in      *)
(* memory: they are counted right, whoever waits gets the slot of one that    *)
(* ends, and a test that ends leaves neither a core nor a file, for any       *)
(* number of tests, slots and ports. The invariant says who is in a slot and  *)
(* who is in the queue, each once, and what a test has by each of its steps.  *)
CONSTANTS Tests, External, NeedUdp, Round, Nodes, MaxRunning, Ports
VARIABLES at, running, queue, port, listens, spawned, files, via, result, remaining
P == INSTANCE ProbeProcesses

\* The instance has its own names for finiteness and the size of a set.
LEMMA ProbeSizes == ASSUME NEW S PROVE P!Cardinality(S) = Cardinality(S) /\ P!IsFiniteSet(S) = IsFiniteSet(S)
  BY Zenon DEF P!Cardinality, Cardinality, P!IsFiniteSet, IsFiniteSet

InSlot == {t \in P!All : P!Guarded(t) /\ at[t] \in P!UnderWay}
AtQueued == {t \in P!All : at[t] = "queued"}
Lined(q, set) == q \in Seq(P!All) /\ P!IsInjective(q) /\ P!ToSet(q) = set

\* The semaphore: who holds a slot and who waits for one.
Slotted ==
    /\ at \in [P!All -> P!Waiting \cup P!UnderWay]
    /\ running = Cardinality(InSlot) /\ running \in 0 .. MaxRunning
    /\ Lined(queue, AtQueued) /\ AtQueued \cap External = {}

\* What a test has by each of its steps, and that it takes it along when it ends.
Holding ==
    /\ port \in [P!All -> Ports \cup {0}] /\ listens \in [Ports -> P!All \cup {P!Nobody}]
    /\ via \in [P!All -> P!All \cup {P!Nobody}] /\ result \in [P!All -> {"none", "fail", "tcp", "udp"}]
    /\ \A t \in P!All : at[t] \in P!UnderWay \ {"pick"} => port[t] \in Ports
    /\ (spawned \cup files) \subseteq {t \in P!All : at[t] \in {"await", "curl", "udp", "clean"}}
    /\ \A t \in P!All : result[t] = "tcp" => t \notin NeedUdp

Going == remaining \in 0 .. Nodes /\ (at[Round] # "idle" => remaining > 0)

ProbeInv == Slotted /\ Holding /\ Going

LEMMA SlotSize == ASSUME P!ProbeAssumption PROVE IsFiniteSet(P!All) /\ IsFiniteSet(InSlot) /\ Cardinality(InSlot) \in Nat
<1>1. IsFiniteSet(P!All)
  BY ProbeSizes, FS_AddElement DEF P!ProbeAssumption, P!All
<1>2. InSlot \in SUBSET P!All
  BY DEF InSlot
<1> QED BY <1>1, <1>2, FS_Subset, FS_CardinalityType

-----------------------------------------------------------------------------
(* The queue *)

LEMMA QueueIn ==
  ASSUME NEW q, NEW set \in SUBSET P!All, Lined(q, set), NEW t \in P!All, t \notin set
  PROVE  Lined(Append(q, t), set \cup {t})
<1> DEFINE a == Append(q, t)
<1>1. q \in Seq(P!All) /\ P!ToSet(q) = {q[i] : i \in DOMAIN q} /\ \A i, j \in DOMAIN q : q[i] = q[j] => i = j
  BY DEF Lined, P!ToSet, P!IsInjective
<1>2. Len(q) \in Nat /\ DOMAIN q = 1 .. Len(q)
  BY <1>1, LenProperties
<1>3. a \in Seq(P!All) /\ Len(a) = Len(q) + 1 /\ (\A i \in 1 .. Len(q) : a[i] = q[i]) /\ a[Len(q) + 1] = t
  BY <1>1, AppendProperties
<1> HIDE DEF a
<1>4. DOMAIN a = 1 .. Len(q) + 1
  BY <1>3, LenProperties
<1>5. \A i \in 1 .. Len(q) : q[i] \in set
  BY <1>1, <1>2 DEF Lined
<1>6. P!ToSet(a) = set \cup {t}
  <2>1. P!ToSet(a) = {a[i] : i \in 1 .. Len(q) + 1}
    BY <1>4 DEF P!ToSet
  <2>2. ASSUME NEW x \in set PROVE \E i \in 1 .. Len(q) + 1 : a[i] = x
    <3>1. PICK i \in 1 .. Len(q) : q[i] = x
      BY <1>1, <1>2, <2>2 DEF Lined
    <3>2. i \in 1 .. Len(q) + 1 /\ a[i] = x
      BY <1>2, <1>3, <3>1
    <3> QED BY <3>2
  <2>3. Len(q) + 1 \in 1 .. Len(q) + 1
    BY <1>2
  <2>4. \A i \in 1 .. Len(q) + 1 : i \in 1 .. Len(q) \/ i = Len(q) + 1
    BY <1>2
  <2> QED BY <1>3, <1>5, <2>1, <2>2, <2>3, <2>4
<1>7. P!IsInjective(a)
  <2> SUFFICES ASSUME NEW i \in 1 .. Len(q) + 1, NEW j \in 1 .. Len(q) + 1, a[i] = a[j] PROVE i = j
    BY <1>4 DEF P!IsInjective
  <2>1. /\ i \in 1 .. Len(q) \/ i = Len(q) + 1
        /\ j \in 1 .. Len(q) \/ j = Len(q) + 1
    BY <1>2
  <2> QED BY <1>1, <1>2, <1>3, <1>5, <2>1
<1> QED BY <1>3, <1>6, <1>7 DEF Lined, a

LEMMA QueueOut ==
  ASSUME NEW q, NEW set \in SUBSET P!All, Lined(q, set), q # <<>>
  PROVE  Head(q) \in set /\ Lined(Tail(q), set \ {Head(q)})
<1> DEFINE b == Tail(q)
<1>1. q \in Seq(P!All) /\ P!ToSet(q) = {q[i] : i \in DOMAIN q} /\ \A i, j \in DOMAIN q : q[i] = q[j] => i = j
  BY DEF Lined, P!ToSet, P!IsInjective
<1>2. Len(q) \in Nat \ {0} /\ DOMAIN q = 1 .. Len(q)
  BY <1>1, LenProperties, EmptySeq
<1>3. b \in Seq(P!All) /\ Len(b) = Len(q) - 1 /\ \A i \in 1 .. Len(q) - 1 : b[i] = q[i + 1]
  BY <1>1, HeadTailProperties
<1>4. Head(q) = q[1]
  BY <1>1, <1>2
<1> HIDE DEF b
<1>5. DOMAIN b = 1 .. Len(q) - 1
  BY <1>3, LenProperties
<1>6. \A i \in 1 .. Len(q) - 1 : i \in 1 .. Len(q) /\ i + 1 \in 1 .. Len(q) /\ i + 1 # 1
  BY <1>2
<1>7. \A i \in 1 .. Len(q) : i = 1 \/ \E j \in 1 .. Len(q) - 1 : i = j + 1
  <2> TAKE i \in 1 .. Len(q)
  <2>1. i # 1 => i - 1 \in 1 .. Len(q) - 1 /\ i = (i - 1) + 1
    BY <1>2
  <2> QED BY <2>1
<1>8. 1 \in 1 .. Len(q)
  BY <1>2
<1>9. P!ToSet(b) = set \ {Head(q)}
  <2>1. P!ToSet(b) = {b[i] : i \in 1 .. Len(q) - 1} /\ set = {q[i] : i \in 1 .. Len(q)}
    BY <1>1, <1>2, <1>5 DEF P!ToSet, Lined
  <2>2. ASSUME NEW x \in set, x # Head(q) PROVE x \in P!ToSet(b)
    <3>1. PICK i \in 1 .. Len(q) : x = q[i]
      BY <2>1
    <3>2. PICK j \in 1 .. Len(q) - 1 : i = j + 1
      BY <1>4, <1>7, <2>2, <3>1
    <3> QED BY <1>3, <2>1, <3>1, <3>2
  <2>3. ASSUME NEW i \in 1 .. Len(q) - 1 PROVE b[i] \in set /\ b[i] # Head(q)
    <3>1. b[i] = q[i + 1] /\ i + 1 \in 1 .. Len(q) /\ i + 1 # 1
      BY <1>3, <1>6
    <3> QED BY <1>1, <1>2, <1>4, <1>8, <2>1, <3>1
  <2> QED BY <2>1, <2>2, <2>3
<1>10. P!IsInjective(b)
  <2> SUFFICES ASSUME NEW i \in 1 .. Len(q) - 1, NEW j \in 1 .. Len(q) - 1, b[i] = b[j] PROVE i = j
    BY <1>5 DEF P!IsInjective
  <2>1. i + 1 = j + 1
    BY <1>1, <1>2, <1>3, <1>6
  <2> QED BY <2>1
<1>11. Head(q) \in set
  BY <1>1, <1>2, <1>4, <1>8 DEF Lined
<1> QED BY <1>3, <1>9, <1>10, <1>11 DEF Lined, b

-----------------------------------------------------------------------------
(* The semaphore *)

LEMMA SlotStep ==
  ASSUME Slotted, NEW t \in P!All, NEW step \in P!UnderWay, at[t] \in P!UnderWay, P!To(t, step), UNCHANGED <<running, queue>>
  PROVE  Slotted'
<1>1. InSlot' = InSlot /\ AtQueued' = AtQueued
  BY DEF Slotted, P!To, InSlot, AtQueued, P!UnderWay, P!Guarded
<1>2. at' \in [P!All -> P!Waiting \cup P!UnderWay]
  BY DEF Slotted, P!To
<1> QED BY <1>1, <1>2 DEF Slotted

LEMMA SlotEnter ==
  ASSUME P!ProbeAssumption, Slotted, NEW t \in P!All, at[t] \in {"idle", "done"}, P!Enter(t)
  PROVE  Slotted' /\ \E step \in {"pick", "queued", "done"} : at' = [at EXCEPT ![t] = step]
<1>1. t \notin InSlot /\ t \notin AtQueued
  BY DEF InSlot, AtQueued, P!UnderWay
<1>2. IsFiniteSet(InSlot) /\ running \in Nat /\ MaxRunning \in Nat
  BY SlotSize DEF Slotted, P!ProbeAssumption
<1>3. CASE P!To(t, "done") /\ UNCHANGED <<running, queue>>
  <2>1. InSlot' = InSlot /\ AtQueued' = AtQueued /\ at' \in [P!All -> P!Waiting \cup P!UnderWay]
    BY <1>3 DEF Slotted, P!To, InSlot, AtQueued, P!UnderWay, P!Waiting, P!Guarded
  <2> QED BY <1>3, <2>1 DEF Slotted, P!To
<1>4. CASE ~P!Guarded(t) /\ P!To(t, "pick") /\ UNCHANGED <<running, queue>>
  <2>1. InSlot' = InSlot /\ AtQueued' = AtQueued /\ at' \in [P!All -> P!Waiting \cup P!UnderWay]
    BY <1>4 DEF Slotted, P!To, InSlot, AtQueued, P!UnderWay, P!Waiting, P!Guarded
  <2> QED BY <1>4, <2>1 DEF Slotted, P!To
<1>5. CASE P!Guarded(t) /\ running < MaxRunning /\ P!To(t, "pick") /\ running' = running + 1 /\ UNCHANGED queue
  <2>1. InSlot' = InSlot \cup {t} /\ AtQueued' = AtQueued /\ at' \in [P!All -> P!Waiting \cup P!UnderWay]
    BY <1>5 DEF Slotted, P!To, InSlot, AtQueued, P!UnderWay, P!Waiting, P!Guarded
  <2>2. Cardinality(InSlot \cup {t}) = Cardinality(InSlot) + 1
    BY <1>1, <1>2, FS_AddElement
  <2>3. running' = Cardinality(InSlot') /\ running' \in 0 .. MaxRunning
    BY <1>2, <1>5, <2>1, <2>2 DEF Slotted
  <2> QED BY <1>5, <2>1, <2>3 DEF Slotted, P!To
<1>6. CASE P!Guarded(t) /\ P!To(t, "queued") /\ queue' = Append(queue, t) /\ UNCHANGED running
  <2>1. InSlot' = InSlot /\ AtQueued' = AtQueued \cup {t} /\ at' \in [P!All -> P!Waiting \cup P!UnderWay]
    BY <1>6 DEF Slotted, P!To, InSlot, AtQueued, P!UnderWay, P!Waiting, P!Guarded
  <2>2. Lined(queue', AtQueued \cup {t})
    <3>1. AtQueued \in SUBSET P!All
      BY DEF AtQueued
    <3> QED BY <1>1, <1>6, <3>1, QueueIn DEF Slotted
  <2>3. AtQueued' \cap External = {}
    BY <1>6, <2>1 DEF P!Guarded, Slotted
  <2> QED BY <1>6, <2>1, <2>2, <2>3 DEF Slotted, P!To
<1> QED BY <1>3, <1>4, <1>5, <1>6 DEF P!Enter, P!Queued

\* A slot that is given back is the leaving test's; who waited takes it over with it.
LEMMA SlotLeave ==
  ASSUME P!ProbeAssumption, Slotted, NEW t \in P!All, at[t] \in P!UnderWay, P!Leave(t)
  PROVE  /\ Slotted' /\ at'[t] = "done" /\ at' \in [P!All -> P!Waiting \cup P!UnderWay]
         /\ \A u \in P!All \ {t} : at'[u] = at[u] \/ (at[u] = "queued" /\ at'[u] = "pick")
<1>1. t \notin AtQueued /\ (P!Guarded(t) => t \in InSlot)
  BY DEF InSlot, AtQueued, P!UnderWay
<1>2. IsFiniteSet(InSlot) /\ running \in 0 .. MaxRunning /\ MaxRunning \in Nat
  BY SlotSize DEF Slotted, P!ProbeAssumption
<1>3. CASE ~P!Guarded(t) /\ P!To(t, "done") /\ UNCHANGED <<running, queue>>
  <2>1. InSlot' = InSlot /\ AtQueued' = AtQueued /\ at' \in [P!All -> P!Waiting \cup P!UnderWay]
    BY <1>3 DEF Slotted, P!To, InSlot, AtQueued, P!UnderWay, P!Waiting, P!Guarded
  <2> QED BY <1>3, <2>1 DEF Slotted, P!To
<1>4. CASE P!Guarded(t) /\ P!To(t, "done") /\ running' = running - 1 /\ UNCHANGED queue
  <2>1. InSlot' = InSlot \ {t} /\ AtQueued' = AtQueued /\ at' \in [P!All -> P!Waiting \cup P!UnderWay]
    BY <1>4 DEF Slotted, P!To, InSlot, AtQueued, P!UnderWay, P!Waiting, P!Guarded
  <2>2. Cardinality(InSlot \ {t}) = Cardinality(InSlot) - 1 /\ Cardinality(InSlot \ {t}) \in Nat
    BY <1>1, <1>2, <1>4, FS_RemoveElement, FS_CardinalityType
  <2>3. running' = Cardinality(InSlot') /\ running' \in 0 .. MaxRunning
    BY <1>2, <1>4, <2>1, <2>2 DEF Slotted
  <2> QED BY <1>4, <2>1, <2>3 DEF Slotted, P!To
<1>5. CASE /\ P!Guarded(t) /\ queue # <<>> /\ at' = [at EXCEPT ![t] = "done", ![Head(queue)] = "pick"]
           /\ queue' = Tail(queue) /\ UNCHANGED running
  <2> DEFINE h == Head(queue)
  <2>1. AtQueued \in SUBSET P!All
    BY DEF AtQueued
  <2>2. h \in AtQueued /\ Lined(queue', AtQueued \ {h})
    BY <1>5, <2>1, QueueOut DEF Slotted
  <2> HIDE DEF h
  <2>3. h \in P!All /\ at[h] = "queued" /\ h # t /\ h \notin External /\ h \notin InSlot
    BY <1>1, <2>2 DEF AtQueued, Slotted, InSlot, P!UnderWay
  <2>4. at' = [at EXCEPT ![t] = "done", ![h] = "pick"]
    BY <1>5 DEF h
  <2>5. /\ at' \in [P!All -> P!Waiting \cup P!UnderWay] /\ at'[t] = "done" /\ at'[h] = "pick"
        /\ \A u \in P!All \ {t, h} : at'[u] = at[u]
    BY <2>3, <2>4 DEF Slotted, P!UnderWay, P!Waiting
  <2>6. InSlot' = (InSlot \ {t}) \cup {h} /\ AtQueued' = AtQueued \ {h}
    BY <1>1, <2>3, <2>5 DEF InSlot, AtQueued, P!UnderWay, P!Guarded
  <2>7. Cardinality(InSlot') = Cardinality(InSlot)
    <3>1. IsFiniteSet(InSlot \ {t}) /\ Cardinality(InSlot \ {t}) = Cardinality(InSlot) - 1
      BY <1>1, <1>2, <1>5, FS_RemoveElement
    <3>2. Cardinality((InSlot \ {t}) \cup {h}) = Cardinality(InSlot \ {t}) + 1
      BY <2>3, <3>1, FS_AddElement
    <3>3. Cardinality(InSlot) \in Nat
      BY SlotSize
    <3> QED BY <2>6, <3>1, <3>2, <3>3
  <2>8. Slotted'
    BY <1>5, <2>2, <2>5, <2>6, <2>7 DEF Slotted
  <2> QED BY <2>3, <2>5, <2>8
<1> QED BY <1>3, <1>4, <1>5 DEF P!Leave

-----------------------------------------------------------------------------
(* The steps *)

LEMMA ProbeInit == ASSUME P!ProbeAssumption PROVE P!Init => ProbeInv
<1> SUFFICES ASSUME P!Init PROVE ProbeInv
  OBVIOUS
<1>1. InSlot = {} /\ AtQueued = {}
  BY DEF P!Init, InSlot, AtQueued, P!UnderWay
<1>2. Lined(<<>>, {})
  <2>1. <<>> \in Seq(P!All) /\ Len(<<>>) = 0
    BY EmptySeq
  <2>2. DOMAIN <<>> = {}
    OBVIOUS
  <2> QED BY <2>1, <2>2 DEF Lined, P!ToSet, P!IsInjective
<1>3. Slotted
  <2>1. queue = <<>> /\ running = 0 /\ Cardinality({}) = 0
    BY FS_EmptySet DEF P!Init
  <2> QED BY <1>1, <1>2, <2>1 DEF P!Init, Slotted, P!Waiting, P!ProbeAssumption
<1>4. Holding
  BY DEF P!Init, Holding, P!UnderWay
<1>5. Going
  BY DEF P!Init, Going, P!All, P!ProbeAssumption
<1> QED BY <1>3, <1>4, <1>5 DEF ProbeInv

\* What the others keep when a test leaves, and the test that takes over its slot.
LEMMA HoldingLeft ==
  ASSUME P!ProbeAssumption, ProbeInv, NEW t \in P!All, at[t] \in P!UnderWay, P!Leave(t),
         NEW outcome \in {"none", "fail", "udp"}, NEW p \in Ports \cup {0},
         result' = result \/ result' = [result EXCEPT ![t] = outcome],
         port' = port \/ port' = [port EXCEPT ![t] = p],
         spawned' \subseteq spawned \ {t}, files' \subseteq files \ {t},
         listens' = listens \/ listens' = [q \in Ports |-> IF listens[q] = t THEN P!Nobody ELSE listens[q]],
         UNCHANGED <<via, remaining>>
  PROVE  ProbeInv'
<1>1. /\ Slotted' /\ at'[t] = "done" /\ at' \in [P!All -> P!Waiting \cup P!UnderWay]
      /\ \A u \in P!All \ {t} : at'[u] = at[u] \/ (at[u] = "queued" /\ at'[u] = "pick")
  BY SlotLeave DEF ProbeInv
<1>2. Holding'
  <2>1. \A u \in P!All : at'[u] \in P!UnderWay \ {"pick"} => u # t /\ at'[u] = at[u]
    BY <1>1 DEF P!UnderWay
  <2>2. \A u \in P!All \ {t} : at[u] \in {"await", "curl", "udp", "clean"} => at'[u] = at[u]
    BY <1>1
  <2>3. /\ port' \in [P!All -> Ports \cup {0}] /\ listens' \in [Ports -> P!All \cup {P!Nobody}]
        /\ via' \in [P!All -> P!All \cup {P!Nobody}] /\ result' \in [P!All -> {"none", "fail", "tcp", "udp"}]
    BY DEF ProbeInv, Holding
  <2>4. \A u \in P!All : at'[u] \in P!UnderWay \ {"pick"} => port'[u] \in Ports
    BY <2>1 DEF ProbeInv, Holding
  <2>5. (spawned' \cup files') \subseteq {u \in P!All : at'[u] \in {"await", "curl", "udp", "clean"}}
    BY <2>2 DEF ProbeInv, Holding
  <2>6. \A u \in P!All : result'[u] = "tcp" => u \notin NeedUdp
    BY DEF ProbeInv, Holding
  <2> QED BY <2>3, <2>4, <2>5, <2>6 DEF Holding
<1>3. Going'
  <2>1. Round \in P!All
    BY DEF P!All
  <2>2. at'[Round] # "idle" => at[Round] # "idle"
    BY <1>1, <2>1 DEF P!UnderWay
  <2> QED BY <2>2 DEF ProbeInv, Going
<1> QED BY <1>1, <1>2, <1>3 DEF ProbeInv

\* What every test keeps when one goes a step on.
LEMMA HoldingOn ==
  ASSUME ProbeInv, NEW t \in P!All, NEW step \in P!UnderWay, at[t] \in P!UnderWay, P!To(t, step),
         UNCHANGED <<running, queue, listens, remaining>>,
         port' = port \/ (\E p \in Ports : port' = [port EXCEPT ![t] = p]),
         step \in P!UnderWay \ {"pick"} => port'[t] \in Ports,
         spawned' \subseteq spawned \cup {t}, files' \subseteq files \cup {t},
         step \notin {"await", "curl", "udp", "clean"} => t \notin spawned' \cup files',
         via' \in [P!All -> P!All \cup {P!Nobody}],
         \/ result' = result
         \/ \E outcome \in {"none", "fail", "tcp", "udp"} :
               result' = [result EXCEPT ![t] = outcome] /\ (outcome = "tcp" => t \notin NeedUdp)
  PROVE  ProbeInv'
<1>1. Slotted'
  BY SlotStep DEF ProbeInv
<1>2. at' = [at EXCEPT ![t] = step] /\ at \in [P!All -> P!Waiting \cup P!UnderWay]
  BY DEF P!To, ProbeInv, Slotted
<1>3. Holding'
  <2>1. at'[t] = step /\ \A u \in P!All \ {t} : at'[u] = at[u]
    BY <1>2
  <2>2. port' \in [P!All -> Ports \cup {0}] /\ \A u \in P!All \ {t} : port'[u] = port[u]
    BY DEF ProbeInv, Holding
  <2>3. \A u \in P!All : at'[u] \in P!UnderWay \ {"pick"} => port'[u] \in Ports
    BY <2>1, <2>2 DEF ProbeInv, Holding
  <2>4. (spawned' \cup files') \subseteq {u \in P!All : at'[u] \in {"await", "curl", "udp", "clean"}}
    BY <2>1 DEF ProbeInv, Holding
  <2>5. result' \in [P!All -> {"none", "fail", "tcp", "udp"}] /\ \A u \in P!All : result'[u] = "tcp" => u \notin NeedUdp
    BY DEF ProbeInv, Holding
  <2> QED BY <2>2, <2>3, <2>4, <2>5 DEF ProbeInv, Holding
<1>4. Going'
  <2>1. at'[Round] # "idle" => at[Round] # "idle"
    BY <1>2 DEF P!UnderWay
  <2> QED BY <2>1 DEF ProbeInv, Going
<1> QED BY <1>1, <1>3, <1>4 DEF ProbeInv

\* A test that is begun: by an operator, or by the round.
LEMMA HoldingBegun ==
  ASSUME P!ProbeAssumption, ProbeInv, NEW t \in P!All, at[t] \in {"idle", "done"}, P!Enter(t), t = Round => remaining > 0,
         port' = [port EXCEPT ![t] = 0], via' = [via EXCEPT ![t] = P!Nobody],
         result' = [result EXCEPT ![t] = "none"], UNCHANGED <<P!core, remaining>>
  PROVE  ProbeInv'
<1>1. PICK step \in {"pick", "queued", "done"} : Slotted' /\ at' = [at EXCEPT ![t] = step]
  BY SlotEnter DEF ProbeInv
<1>2. /\ at'[t] = step /\ \A u \in P!All \ {t} : at'[u] = at[u]
      /\ t \notin spawned \cup files
  BY <1>1 DEF ProbeInv, Slotted, Holding
<1>3. Holding'
  <2>1. \A u \in P!All : at'[u] \in P!UnderWay \ {"pick"} => port'[u] \in Ports
    BY <1>2 DEF ProbeInv, Holding, P!UnderWay
  <2>2. (spawned' \cup files') \subseteq {u \in P!All : at'[u] \in {"await", "curl", "udp", "clean"}}
    BY <1>2 DEF ProbeInv, Holding, P!core
  <2>3. /\ port' \in [P!All -> Ports \cup {0}] /\ listens' \in [Ports -> P!All \cup {P!Nobody}]
        /\ via' \in [P!All -> P!All \cup {P!Nobody}] /\ result' \in [P!All -> {"none", "fail", "tcp", "udp"}]
        /\ \A u \in P!All : result'[u] = "tcp" => u \notin NeedUdp
    BY DEF ProbeInv, Holding, P!core
  <2> QED BY <2>1, <2>2, <2>3 DEF Holding
<1>4. Going'
  BY <1>2 DEF ProbeInv, Going, P!All
<1> QED BY <1>1, <1>3, <1>4 DEF ProbeInv

LEMMA ProbeBegins ==
  ASSUME P!ProbeAssumption, ProbeInv PROVE P!RoundNext \/ (\E t \in P!All : P!Ask(t)) => ProbeInv'
<1>1. ASSUME P!RoundNext PROVE ProbeInv'
  <2>1. Round \in P!All
    BY DEF P!All
  <2> QED BY <1>1, <2>1, HoldingBegun DEF P!RoundNext
<1>2. ASSUME NEW t \in P!All, P!Ask(t) PROVE ProbeInv'
  BY <1>2, HoldingBegun DEF P!Ask
<1> QED BY <1>1, <1>2

LEMMA ProbePort == ASSUME P!ProbeAssumption, ProbeInv, NEW t \in P!All, P!allocatePort(t) PROVE ProbeInv'
<1>1. at[t] = "pick" /\ UNCHANGED <<listens, spawned, files, via, remaining>>
  BY DEF P!allocatePort, P!core
<1>2. t \notin spawned /\ t \notin files
  BY <1>1 DEF ProbeInv, Holding
<1>3. ASSUME NEW p \in Ports, port' = [port EXCEPT ![t] = p], P!To(t, "write"), UNCHANGED <<running, queue, result>>
      PROVE  ProbeInv'
  <2>1. port'[t] \in Ports /\ via' \in [P!All -> P!All \cup {P!Nobody}]
    BY <1>1, <1>3 DEF ProbeInv, Holding
  <2> QED BY <1>1, <1>2, <1>3, <2>1, HoldingOn DEF P!UnderWay
<1>4. CASE P!Leave(t) /\ result' = [result EXCEPT ![t] = "fail"] /\ UNCHANGED port
  <2>1. at[t] \in P!UnderWay
    BY <1>1 DEF P!UnderWay
  <2> QED BY <1>1, <1>2, <1>4, <2>1, HoldingLeft
<1> QED BY <1>3, <1>4 DEF P!allocatePort

LEMMA ProbeSpawn == ASSUME P!ProbeAssumption, ProbeInv, NEW t \in P!All, P!Spawn(t) PROVE ProbeInv'
<1>1. at[t] = "write" /\ UNCHANGED <<port, listens, via, remaining>> /\ at[t] \in P!UnderWay
  BY DEF P!Spawn, P!UnderWay
<1>2. t \notin spawned /\ t \notin files /\ port[t] \in Ports /\ via' \in [P!All -> P!All \cup {P!Nobody}]
  BY <1>1 DEF ProbeInv, Holding
<1>3. CASE files' = files \cup {t} /\ spawned' = spawned \cup {t} /\ P!To(t, "await") /\ UNCHANGED <<running, queue, result>>
  BY <1>1, <1>2, <1>3, HoldingOn, ZenonT(40) DEF P!UnderWay
<1>4. CASE P!Leave(t) /\ result' = [result EXCEPT ![t] = "fail"] /\ UNCHANGED <<spawned, files>>
  BY <1>1, <1>2, <1>4, HoldingLeft, ZenonT(40)
<1> QED BY <1>3, <1>4 DEF P!Spawn

LEMMA ProbeCore == ASSUME ProbeInv, NEW t \in P!All, P!CoreBinds(t) PROVE ProbeInv'
<1>1. Slotted' /\ Going'
  BY DEF P!CoreBinds, ProbeInv, Slotted, Going, InSlot, AtQueued
<1>2. Holding'
  BY DEF P!CoreBinds, ProbeInv, Holding
<1> QED BY <1>1, <1>2 DEF ProbeInv

LEMMA ProbeAwait == ASSUME ProbeInv, NEW t \in P!All, P!waitForPort(t) PROVE ProbeInv'
<1>1. /\ at[t] = "await" /\ at[t] \in P!UnderWay /\ UNCHANGED <<running, queue, port, listens, spawned, files, via, remaining>>
      /\ \/ P!To(t, "curl") /\ UNCHANGED result
         \/ P!To(t, "clean") /\ result' = [result EXCEPT ![t] = "fail"]
  BY DEF P!waitForPort, P!core, P!UnderWay
<1>2. port'[t] \in Ports /\ via' \in [P!All -> P!All \cup {P!Nobody}]
  BY <1>1 DEF ProbeInv, Holding, P!UnderWay
<1> QED BY <1>1, <1>2, HoldingOn DEF P!UnderWay

LEMMA ProbeCurl == ASSUME ProbeInv, NEW t \in P!All, P!curlTest(t) PROVE ProbeInv'
<1>1. at[t] = "curl" /\ at[t] \in P!UnderWay /\ UNCHANGED <<running, queue, port, listens, spawned, files, remaining>>
  BY DEF P!curlTest, P!core, P!UnderWay
<1>2. port'[t] \in Ports
  BY <1>1 DEF ProbeInv, Holding, P!UnderWay
<1>3. CASE /\ via' = [via EXCEPT ![t] = listens[port[t]]]
           /\ result' = [result EXCEPT ![t] = IF P!Further(t) = {} THEN "tcp" ELSE @]
           /\ P!To(t, IF P!Further(t) = {} THEN "clean" ELSE "udp")
  <2>1. via' \in [P!All -> P!All \cup {P!Nobody}]
    BY <1>1, <1>2, <1>3 DEF ProbeInv, Holding
  <2>2. CASE P!Further(t) = {}
    <3>1. t \notin NeedUdp /\ P!To(t, "clean") /\ result' = [result EXCEPT ![t] = "tcp"]
      BY <1>3, <2>2 DEF P!Further
    <3> QED BY <1>1, <1>2, <2>1, <3>1, HoldingOn DEF P!UnderWay
  <2>3. CASE P!Further(t) # {}
    <3>1. P!To(t, "udp") /\ result' = result
      BY <1>3, <2>3 DEF ProbeInv, Holding
    <3> QED BY <1>1, <1>2, <2>1, <3>1, HoldingOn DEF P!UnderWay
  <2> QED BY <2>2, <2>3
<1>4. CASE result' = [result EXCEPT ![t] = "fail"] /\ P!To(t, "clean") /\ UNCHANGED via
  <2>1. via' \in [P!All -> P!All \cup {P!Nobody}]
    BY <1>4 DEF ProbeInv, Holding
  <2> QED BY <1>1, <1>2, <1>4, <2>1, HoldingOn DEF P!UnderWay
<1> QED BY <1>3, <1>4 DEF P!curlTest

LEMMA ProbeUdp == ASSUME ProbeInv, NEW t \in P!All, P!probeSocks5Udp(t) PROVE ProbeInv'
<1>1. /\ at[t] = "udp" /\ at[t] \in P!UnderWay /\ P!To(t, "clean")
      /\ UNCHANGED <<running, queue, port, listens, spawned, files, via, remaining>>
  BY DEF P!probeSocks5Udp, P!core, P!UnderWay
<1>2. \E outcome \in {"fail", "udp"} : result' = [result EXCEPT ![t] = outcome]
  BY DEF P!probeSocks5Udp
<1>3. port'[t] \in Ports /\ via' \in [P!All -> P!All \cup {P!Nobody}]
  BY <1>1 DEF ProbeInv, Holding, P!UnderWay
<1> QED BY <1>1, <1>2, <1>3, HoldingOn DEF P!UnderWay

LEMMA ProbeClean == ASSUME P!ProbeAssumption, ProbeInv, NEW t \in P!All, P!CleanUp(t) PROVE ProbeInv'
<1>1. at[t] \in P!UnderWay
  BY DEF P!CleanUp, P!UnderWay
<1> QED BY <1>1, HoldingLeft DEF P!CleanUp, P!FilesAfter

LEMMA ProbeRound == ASSUME P!ProbeAssumption, ProbeInv, P!testAllNodes \/ P!RoundGotResult PROVE ProbeInv'
<1>1. CASE P!testAllNodes
  <2>1. Slotted' /\ Holding'
    BY <1>1 DEF P!testAllNodes, P!core, ProbeInv, Slotted, InSlot, AtQueued, Holding
  <2>2. Going'
    BY <1>1 DEF P!testAllNodes, P!NoRoundYet, ProbeInv, Going, P!ProbeAssumption
  <2> QED BY <2>1, <2>2 DEF ProbeInv
<1>2. CASE P!RoundGotResult
  <2>1. Round \in P!All /\ at[Round] = "done" /\ at' = [at EXCEPT ![Round] = "idle"]
        /\ remaining' = remaining - 1 /\ UNCHANGED <<running, queue, port, listens, spawned, files, via, result>>
    BY <1>2 DEF P!RoundGotResult, P!To, P!All, P!core
  <2>2. at \in [P!All -> P!Waiting \cup P!UnderWay]
    BY DEF ProbeInv, Slotted
  <2>3. InSlot' = InSlot /\ AtQueued' = AtQueued /\ at' \in [P!All -> P!Waiting \cup P!UnderWay]
    BY <2>1, <2>2 DEF InSlot, AtQueued, P!UnderWay, P!Waiting, P!Guarded
  <2>4. Slotted'
    BY <2>1, <2>3 DEF ProbeInv, Slotted
  <2>5. Holding'
    BY <2>1, <2>2 DEF ProbeInv, Holding, P!UnderWay
  <2>6. Going'
    <3>1. remaining \in 1 .. Nodes /\ Nodes \in Nat
      BY <2>1 DEF ProbeInv, Going, P!ProbeAssumption
    <3>2. at'[Round] = "idle" /\ remaining' \in 0 .. Nodes
      BY <2>1, <2>2, <3>1
    <3> QED BY <3>2 DEF Going
  <2> QED BY <2>4, <2>5, <2>6 DEF ProbeInv
<1> QED BY <1>1, <1>2

LEMMA ProbeNext == ASSUME P!ProbeAssumption PROVE ProbeInv /\ [P!Next]_(P!vars) => ProbeInv'
<1> SUFFICES ASSUME ProbeInv, [P!Next]_(P!vars) PROVE ProbeInv'
  OBVIOUS
<1>1. CASE UNCHANGED P!vars
  BY <1>1 DEF P!vars, P!core, ProbeInv, Slotted, InSlot, AtQueued, Holding, Going
<1> QED BY <1>1, ProbeBegins, ProbePort, ProbeSpawn, ProbeCore, ProbeAwait, ProbeCurl, ProbeUdp, ProbeClean, ProbeRound
    DEF P!Next, P!Step

\* Tests that are not under way leave neither a core nor credentials behind, the slots are those
\* of the tests under way, and a node that must carry UDP is not reported on TCP alone
\* (xray-test withSemaphore, runTest).
THEOREM ProbesAreSafe == ASSUME P!ProbeAssumption PROVE P!Spec => [](P!NothingLeft /\ P!SlotsMatch /\ P!NoHalfSuccess)
<1>1. ProbeInv => P!NothingLeft /\ P!SlotsMatch /\ P!NoHalfSuccess
  BY ProbeSizes DEF ProbeInv, Slotted, Holding, InSlot, P!NothingLeft, P!SlotsMatch, P!NoHalfSuccess
<1> QED BY <1>1, ProbeInit, ProbeNext, PTL DEF P!Spec

-----------------------------------------------------------------------------
(* Share links there and back. A node is stored when its fields are ones the    *)
(* parser leaves, and settled when its link names what the next import will     *)
(* make of it; the panel's own nodes are both, and an imported one is both      *)
(* after one more round.                                                        *)
CONSTANTS PanelNodes, ForeignLinks, MaxHops
VARIABLES own, given, row, shared, hop
L == INSTANCE ExternalNodes

LinkFields == {"scheme", "user", "pass", "security", "type", "host", "path", "service", "sni", "pbk", "sid", "mode", "extra", "alpn"}
IsLink(l) == l = [f \in LinkFields |-> l[f]]
\* A link without its ALPN.
Short(l) == [l EXCEPT !.alpn = L!Null]

Text(x) == L!OrElse(x, L!Null)

LEMMA SameFields ==
  ASSUME NEW l, NEW k, IsLink(l), IsLink(k),
         l.scheme = k.scheme, l.user = k.user, l.pass = k.pass, l.security = k.security, l.type = k.type,
         l.host = k.host, l.path = k.path, l.service = k.service, l.sni = k.sni, l.pbk = k.pbk, l.sid = k.sid,
         l.mode = k.mode, l.extra = k.extra
  PROVE  Short(l) = Short(k)
<1>1. \A f \in LinkFields \ {"alpn"} : l[f] = k[f]
  BY DEF LinkFields
<1>2. DOMAIN l = LinkFields /\ DOMAIN k = LinkFields
  BY DEF IsLink
<1>3. Short(l) = [f \in LinkFields |-> IF f = "alpn" THEN L!Null ELSE l[f]]
  BY <1>2 DEF Short, LinkFields
<1>4. Short(k) = [f \in LinkFields |-> IF f = "alpn" THEN L!Null ELSE k[f]]
  BY <1>2 DEF Short, LinkFields
<1> QED BY <1>1, <1>3, <1>4

LEMMA BareFields ==
  ASSUME NEW scheme
  PROVE  LET l == L!Bare(scheme)
         IN  /\ IsLink(l) /\ l.scheme = scheme /\ l.user = L!Null /\ l.pass = L!Null /\ l.security = L!Null /\
                  l.type = L!Null
             /\ l.host = L!Null /\ l.path = L!Null /\ l.service = L!Null /\ l.sni = L!Null /\ l.pbk = L!Null /\
                  l.sid = L!Null
             /\ l.mode = L!Null /\ l.extra = L!Null
<1> DEFINE l == L!Bare(scheme)
<1>1. /\ l.scheme = scheme /\ l.user = L!Null /\ l.pass = L!Null /\ l.security = L!Null /\ l.type = L!Null
      /\ l.host = L!Null /\ l.path = L!Null /\ l.service = L!Null /\ l.sni = L!Null /\ l.pbk = L!Null /\ l.sid = L!Null
      /\ l.mode = L!Null /\ l.extra = L!Null
  BY DEF L!Bare
<1>2. IsLink(l)
  BY DEF L!Bare, IsLink, LinkFields
<1> QED BY <1>1, <1>2

-----------------------------------------------------------------------------
(* The fields of the links that are built *)

StreamHost(n) ==
    CASE n.net = "WS" -> Text(L!Or(n.wsHost, n.domain)) [] n.net = "XHTTP" -> Text(n.xHost) [] OTHER -> L!Null
StreamPath(n) == IF n.net \in {"WS", "XHTTP"} THEN L!OrElse(n.path, "/") ELSE L!Null
StreamSni(n) == CASE n.tls = "TLS" -> Text(n.domain) [] n.tls = "REALITY" -> L!Or(n.domain, "default") [] OTHER -> L!Null

LEMMA NetNames ==
  ASSUME NEW net
  PROVE  /\ L!toClashNet(net) = "ws" <=> net = "WS"
         /\ L!toClashNet(net) = "xhttp" <=> net = "XHTTP"
         /\ L!toClashNet(net) = "grpc" <=> net = "GRPC"
         /\ L!toClashNet(net) # L!Null
         /\ L!toClashNet(L!parseTransport(L!toClashNet(net))) = L!toClashNet(net)
         /\ L!parseTransport(L!toClashNet(net)) = "WS" <=> net = "WS"
         /\ L!parseTransport(L!toClashNet(net)) = "XHTTP" <=> net = "XHTTP"
         /\ L!parseTransport(L!toClashNet(net)) = "GRPC" <=> net = "GRPC"
  BY DEF L!toClashNet, L!parseTransport, L!Null

\* The fields of a VLESS or a Trojan link.
SecurityOf(tls) == IF tls = "TLS" THEN "tls" ELSE IF tls = "REALITY" THEN "reality" ELSE "none"
StreamFields(l, n) ==
    /\ IsLink(l)
    /\ l.security = SecurityOf(n.tls) /\ l.type = L!toClashNet(n.net)
    /\ l.host = StreamHost(n) /\ l.path = StreamPath(n) /\ l.sni = StreamSni(n)
    /\ l.service = (IF n.net = "GRPC" THEN L!Or(n.path, "grpc") ELSE L!Null)
    /\ l.pbk = (IF n.tls = "REALITY" THEN L!Or(n.pbk, "") ELSE L!Null)
    /\ l.sid = (IF n.tls = "REALITY" THEN L!Or(n.sid, "") ELSE L!Null)
    /\ l.mode = (IF n.net = "XHTTP" THEN L!OrElse(n.mode, "auto") ELSE L!Null)
    /\ l.extra = (IF n.net = "XHTTP" THEN n.extra ELSE L!Null)

LEMMA StreamLink ==
  ASSUME NEW n, NEW base, IsLink(base)
  PROVE  LET l == L!addTlsParams(L!addTransportParams(base, n), n)
         IN  StreamFields(l, n) /\ l.scheme = base.scheme /\ l.user = base.user /\ l.pass = base.pass
<1> DEFINE t == L!addTransportParams(base, n)
           l == L!addTlsParams(t, n)
<1>0. IsLink(t) /\ DOMAIN base = LinkFields
  BY DEF L!addTransportParams, IsLink
<1>1. /\ t.scheme = base.scheme /\ t.user = base.user /\ t.pass = base.pass
      /\ t.type = L!toClashNet(n.net)
      /\ t.service = (IF n.net = "GRPC" THEN L!Or(n.path, "grpc") ELSE L!Null)
      /\ t.mode = (IF n.net = "XHTTP" THEN L!OrElse(n.mode, "auto") ELSE L!Null)
      /\ t.extra = (IF n.net = "XHTTP" THEN n.extra ELSE L!Null)
  BY <1>0, NetNames DEF L!addTransportParams, LinkFields
<1>2. t.host = StreamHost(n) /\ t.path = StreamPath(n)
  BY <1>0, NetNames DEF L!addTransportParams, LinkFields, StreamHost, StreamPath, Text
<1> HIDE DEF t
<1>3. DOMAIN t = LinkFields
  BY <1>0 DEF IsLink
<1>4. IsLink(l)
  BY <1>0 DEF L!addTlsParams, IsLink
<1>5. /\ l.scheme = t.scheme /\ l.user = t.user /\ l.pass = t.pass /\ l.type = t.type /\ l.host = t.host
      /\ l.path = t.path /\ l.service = t.service /\ l.mode = t.mode /\ l.extra = t.extra
  BY <1>3 DEF L!addTlsParams, LinkFields
<1>6. /\ l.security = SecurityOf(n.tls) /\ l.sni = StreamSni(n)
      /\ l.pbk = (IF n.tls = "REALITY" THEN L!Or(n.pbk, "") ELSE L!Null)
      /\ l.sid = (IF n.tls = "REALITY" THEN L!Or(n.sid, "") ELSE L!Null)
  BY <1>3 DEF L!addTlsParams, LinkFields, SecurityOf, StreamSni, Text
<1> HIDE DEF l
<1>7. StreamFields(l, n)
  BY <1>1, <1>2, <1>4, <1>5, <1>6 DEF StreamFields
<1>8. l.scheme = base.scheme /\ l.user = base.user /\ l.pass = base.pass
  BY <1>1, <1>5
<1> QED BY <1>7, <1>8 DEF l, t

LEMMA VlessLink ==
  ASSUME NEW n, n.protocol = "VLESS"
  PROVE  LET l == L!buildShareUri(n)
         IN  StreamFields(l, n) /\ l.scheme = "vless" /\ l.user = L!Or(n.user, "") /\ l.pass = L!Null
<1> DEFINE base == [L!Bare("vless") EXCEPT !.user = L!Or(n.user, "")]
<1>1. IsLink(base) /\ base.scheme = "vless" /\ base.user = L!Or(n.user, "") /\ base.pass = L!Null
  <2>1. DOMAIN L!Bare("vless") = LinkFields /\ L!Bare("vless").scheme = "vless" /\ L!Bare("vless").pass = L!Null
    BY BareFields DEF IsLink
  <2> QED BY <2>1 DEF IsLink, LinkFields
<1> DEFINE link == L!addTlsParams(L!addTransportParams(base, n), n)
           alpn == IF n.net = "XHTTP" /\ n.tls = "TLS" THEN n.alpn ELSE L!Null
<1>2. L!buildShareUri(n) = [link EXCEPT !.alpn = alpn]
  BY DEF L!buildShareUri, L!VlessLink
<1> HIDE DEF base
<1>3. StreamFields(link, n)
  BY <1>1, StreamLink
<1>4. link.scheme = base.scheme /\ link.user = base.user /\ link.pass = base.pass
  BY <1>1, StreamLink
<1> HIDE DEF link, alpn
<1>5. DOMAIN link = LinkFields
  BY <1>3 DEF StreamFields, IsLink
<1> DEFINE named == [link EXCEPT !.alpn = alpn]
<1>6. IsLink(named)
  BY <1>5 DEF IsLink
<1>7. /\ named.scheme = link.scheme /\ named.user = link.user /\ named.pass = link.pass
      /\ named.security = link.security /\ named.type = link.type /\ named.host = link.host
      /\ named.path = link.path /\ named.sni = link.sni /\ named.service = link.service
      /\ named.pbk = link.pbk /\ named.sid = link.sid /\ named.mode = link.mode /\ named.extra = link.extra
  BY <1>5 DEF LinkFields
<1> HIDE DEF named
<1>8. StreamFields(named, n)
  BY <1>3, <1>6, <1>7 DEF StreamFields
<1> QED BY <1>1, <1>2, <1>4, <1>7, <1>8 DEF named

LEMMA TrojanLink ==
  ASSUME NEW n, n.protocol = "TROJAN"
  PROVE  LET l == L!buildShareUri(n)
         IN  StreamFields(l, n) /\ l.scheme = "trojan" /\ l.user = L!Null /\ l.pass = L!Or(n.pass, "")
<1> DEFINE base == [L!Bare("trojan") EXCEPT !.pass = L!Or(n.pass, "")]
<1>1. IsLink(base) /\ base.scheme = "trojan" /\ base.user = L!Null /\ base.pass = L!Or(n.pass, "")
  <2>1. DOMAIN L!Bare("trojan") = LinkFields /\ L!Bare("trojan").scheme = "trojan" /\ L!Bare("trojan").user = L!Null
    BY BareFields DEF IsLink
  <2> QED BY <2>1 DEF IsLink, LinkFields
<1>2. L!buildShareUri(n) = L!addTlsParams(L!addTransportParams(base, n), n)
  BY DEF L!buildShareUri
<1> HIDE DEF base
<1>3. StreamFields(L!addTlsParams(L!addTransportParams(base, n), n), n)
  BY <1>1, StreamLink
<1>4. /\ L!addTlsParams(L!addTransportParams(base, n), n).scheme = base.scheme
      /\ L!addTlsParams(L!addTransportParams(base, n), n).user = base.user
      /\ L!addTlsParams(L!addTransportParams(base, n), n).pass = base.pass
  BY <1>1, StreamLink
<1> QED BY <1>1, <1>2, <1>3, <1>4

VmessFields(l, n) ==
    /\ IsLink(l) /\ l.scheme = "vmess" /\ l.user = L!Or(n.user, "") /\ l.type = L!toClashNet(n.net)
    /\ l.host = (IF n.net = "XHTTP" THEN L!OrElse(n.xHost, "") ELSE L!Or(L!Or(n.wsHost, n.domain), ""))
    /\ l.path = (IF n.net \in {"WS", "XHTTP"} THEN L!OrElse(n.path, "/") ELSE IF n.net = "GRPC" THEN L!Or(n.path, "grpc") ELSE "")
    /\ l.security = (IF n.tls = "TLS" THEN "tls" ELSE IF n.tls = "REALITY" THEN "reality" ELSE "")
    /\ l.sni = L!Or(n.domain, "")
    /\ l.mode = (IF n.net = "XHTTP" THEN L!OrElse(n.mode, "auto") ELSE L!Null)
    /\ l.extra = (IF n.net = "XHTTP" THEN n.extra ELSE L!Null)
    /\ l.pass = L!Null /\ l.service = L!Null /\ l.pbk = L!Null /\ l.sid = L!Null

LEMMA VmessLinks == ASSUME NEW n, n.protocol = "VMESS" PROVE VmessFields(L!buildShareUri(n), n)
<1> DEFINE l == L!VmessLink(n)
<1>0. IsLink(l)
  BY BareFields DEF L!VmessLink, IsLink
<1>1. /\ l.scheme = "vmess" /\ l.user = L!Or(n.user, "") /\ l.type = L!toClashNet(n.net)
      /\ l.pass = L!Null /\ l.service = L!Null /\ l.pbk = L!Null /\ l.sid = L!Null /\ l.sni = L!Or(n.domain, "")
  BY DEF L!VmessLink, L!Bare
<1>2. /\ l.host = (IF n.net = "XHTTP" THEN L!OrElse(n.xHost, "") ELSE L!Or(L!Or(n.wsHost, n.domain), ""))
      /\ l.mode = (IF n.net = "XHTTP" THEN L!OrElse(n.mode, "auto") ELSE L!Null)
      /\ l.extra = (IF n.net = "XHTTP" THEN n.extra ELSE L!Null)
  BY NetNames DEF L!VmessLink, L!Bare
<1>3. /\ l.path = (IF n.net \in {"WS", "XHTTP"} THEN L!OrElse(n.path, "/") ELSE IF n.net = "GRPC" THEN L!Or(n.path, "grpc") ELSE "")
      /\ l.security = (IF n.tls = "TLS" THEN "tls" ELSE IF n.tls = "REALITY" THEN "reality" ELSE "")
  BY NetNames DEF L!VmessLink, L!Bare
<1>4. L!buildShareUri(n) = l
  BY DEF L!buildShareUri
<1> HIDE DEF l
<1> QED BY <1>0, <1>1, <1>2, <1>3, <1>4 DEF VmessFields

Kinds == {"VLESS", "VMESS", "TROJAN", "SHADOWSOCKS", "SOCKS5", "HTTP", "HYSTERIA2"}

LEMMA Rejects == ASSUME NEW r, r.protocol \in Kinds PROVE r # L!Rejected
  BY DEF L!Rejected, Kinds

Transport(l) == L!parseTransport(L!Or(l.type, "tcp"))
Refused(l) == Transport(l) = "XHTTP" /\ (L!parseXhttpMode(l.mode) = L!Null \/ ~L!parseXhttpExtra(l.extra))
ParsedFields(r, l, protocol) ==
    /\ r.protocol = protocol /\ r.net = Transport(l) /\ r.tls = L!Security(l) /\ r.user = l.user /\ r.pass = l.pass
    /\ r.sni = L!ServerName(l)
    /\ r.path = (IF l.scheme = "vmess" THEN L!Or(l.path, "") ELSE L!Or(L!Or(l.path, l.service), ""))
    /\ r.wsHost = (IF Transport(l) # "WS" THEN L!Null ELSE IF l.scheme = "vmess" THEN L!Or(l.host, "") ELSE l.host)
    /\ r.pbk = (IF l.scheme = "vless" THEN l.pbk ELSE L!Null)
    /\ r.sid = (IF l.scheme = "vless" THEN l.sid ELSE L!Null)
    /\ r.xHost = (IF Transport(l) = "XHTTP" THEN Text(l.host) ELSE L!Null)
    /\ r.mode = (IF Transport(l) = "XHTTP" THEN L!parseXhttpMode(l.mode) ELSE L!Null)
    /\ r.extra = (IF Transport(l) = "XHTTP" THEN l.extra ELSE L!Null)

LEMMA StreamRefused == ASSUME NEW l, NEW protocol, Refused(l) PROVE L!Streamed(l, protocol) = L!Rejected
  BY DEF Refused, Transport, L!Streamed

LEMMA StreamParsed ==
  ASSUME NEW l, NEW protocol, protocol \in {"VLESS", "VMESS", "TROJAN"}, ~Refused(l)
  PROVE  L!Streamed(l, protocol) # L!Rejected /\ ParsedFields(L!Streamed(l, protocol), l, protocol)
<1> DEFINE r == L!Streamed(l, protocol)
<1>1. /\ r.protocol = protocol /\ r.net = Transport(l) /\ r.tls = L!Security(l) /\ r.user = l.user /\ r.pass = l.pass
      /\ r.sni = L!ServerName(l)
      /\ r.path = (IF l.scheme = "vmess" THEN L!Or(l.path, "") ELSE L!Or(L!Or(l.path, l.service), ""))
  BY DEF L!Streamed, L!Node, Refused, Transport
<1>2. /\ r.wsHost = (IF Transport(l) # "WS" THEN L!Null ELSE IF l.scheme = "vmess" THEN L!Or(l.host, "") ELSE l.host)
      /\ r.pbk = (IF l.scheme = "vless" THEN l.pbk ELSE L!Null)
      /\ r.sid = (IF l.scheme = "vless" THEN l.sid ELSE L!Null)
  BY DEF L!Streamed, L!Node, Refused, Transport
<1>3. /\ r.xHost = (IF Transport(l) = "XHTTP" THEN Text(l.host) ELSE L!Null)
      /\ r.mode = (IF Transport(l) = "XHTTP" THEN L!parseXhttpMode(l.mode) ELSE L!Null)
      /\ r.extra = (IF Transport(l) = "XHTTP" THEN l.extra ELSE L!Null)
  BY DEF L!Streamed, L!Node, Refused, Transport, Text
<1> HIDE DEF r
<1>4. r # L!Rejected
  <2>1. r.protocol \in Kinds
    BY <1>1 DEF Kinds
  <2> QED BY <2>1, Rejects
<1> QED BY <1>1, <1>2, <1>3, <1>4 DEF ParsedFields, r

-----------------------------------------------------------------------------
(* There and back *)

\* A node that has gone through the parser: empty fields are no credentials.
Stored(n) ==
    /\ n.protocol \in Kinds /\ n.tls \in {"NONE", "TLS", "REALITY"} /\ (n.protocol = "TROJAN" => n.tls # "REALITY")
    /\ n.mode \in L!XhttpModes \cup {L!Null} /\ n.extra \notin {"", "broken"} /\ n.user # ""

\* One whose link says what the next import will make of it: the name that takes the place
\* of a missing one is the same again.
Settled(n) ==
    /\ n.protocol = "VMESS" /\ n.net \notin {"WS", "XHTTP"} => L!Or(L!Or(n.wsHost, n.domain), "") = L!Or(n.domain, "")
    /\ n.protocol \in {"VLESS", "TROJAN"} /\ n.net = "WS" /\ n.tls = "TLS" =>
          (StreamHost(n) = L!Null => n.domain \in {L!Null, ""})
    /\ n.protocol = "VLESS" /\ n.net = "WS" /\ n.tls = "TLS" =>
          (n.domain \in {L!Null, ""} => StreamHost(n) = L!Null)
    /\ n.protocol = "VLESS" /\ n.net = "WS" /\ n.tls = "REALITY" =>
          (StreamHost(n) = L!Null => n.domain = "")

SameOnceMore(n) ==
    \A p \in {"HTTP", "SOCKS5"} : LET r == L!parseUri(L!buildShareUri(n), p) IN r # L!Rejected /\
      Short(L!buildShareUri(L!Exported(r))) = Short(L!buildShareUri(n))

ExportedFields(e, r) ==
    /\ e.protocol = r.protocol /\ e.net = r.net /\ e.tls = r.tls /\ e.domain = r.sni
    /\ e.user = Text(r.user) /\ e.pass = Text(r.pass) /\ e.pbk = Text(r.pbk) /\ e.sid = Text(r.sid)
    /\ e.path = r.path /\ e.wsHost = r.wsHost
    /\ e.xHost = Text(r.xHost) /\ e.mode = Text(r.mode) /\ e.extra = Text(r.extra)

LEMMA ExportedRow == ASSUME NEW r PROVE ExportedFields(L!Exported(r), r)
  BY DEF L!Exported, ExportedFields, Text

LEMMA NetsKept ==
  ASSUME NEW l, NEW net, l.type = L!toClashNet(net)
  PROVE  /\ L!toClashNet(Transport(l)) = l.type
         /\ (Transport(l) = "WS" <=> net = "WS") /\ (Transport(l) = "XHTTP" <=> net = "XHTTP") /\
              (Transport(l) = "GRPC" <=> net = "GRPC")
  BY DEF Transport, L!toClashNet, L!parseTransport, L!Or, L!Null

LEMMA ModesKept ==
  ASSUME NEW n, n.mode \in L!XhttpModes \cup {L!Null}, n.extra \notin {"", "broken"}
  PROVE  LET m == L!OrElse(n.mode, "auto")
         IN  /\ L!parseXhttpMode(m) = m /\ m # L!Null /\ L!parseXhttpExtra(n.extra) /\ L!OrElse(Text(m), "auto") = m
             /\ Text(n.extra) = n.extra
  BY DEF L!parseXhttpMode, L!parseXhttpExtra, L!XhttpModes, L!OrElse, Text, L!Null

\* A built XHTTP link is one the parser takes.
LEMMA BuiltTaken ==
  ASSUME NEW n, NEW l, n.mode \in L!XhttpModes \cup {L!Null}, n.extra \notin {"", "broken"}, l.type = L!toClashNet(n.net),
         l.mode = (IF n.net = "XHTTP" THEN L!OrElse(n.mode, "auto") ELSE L!Null),
         l.extra = (IF n.net = "XHTTP" THEN n.extra ELSE L!Null)
  PROVE  ~Refused(l)
  BY NetsKept, ModesKept DEF Refused

LEMMA VlessSettled ==
  ASSUME NEW n, Stored(n), Settled(n), n.protocol = "VLESS"
  PROVE  SameOnceMore(n)
<1> SUFFICES ASSUME NEW p \in {"HTTP", "SOCKS5"}
    PROVE  L!parseUri(L!buildShareUri(n), p) # L!Rejected /\ Short(L!buildShareUri(L!Exported(L!parseUri(L!buildShareUri(n), p)))) = Short(L!buildShareUri(n))
  BY DEF SameOnceMore
<1> DEFINE l == L!buildShareUri(n)
           r == L!parseUri(l, p)
           e == L!Exported(r)
           k == L!buildShareUri(e)
<1>1. StreamFields(l, n) /\ l.scheme = "vless" /\ l.user = L!Or(n.user, "") /\ l.pass = L!Null
  BY VlessLink
<1> HIDE DEF l
<1>2. ~Refused(l)
  BY <1>1, BuiltTaken DEF StreamFields, Stored
<1>3. r # L!Rejected /\ ParsedFields(r, l, "VLESS")
  BY <1>1, <1>2, StreamParsed DEF L!parseUri, L!parseVless
<1> HIDE DEF r
<1>4. ExportedFields(e, r) /\ e.protocol = "VLESS"
  BY <1>3, ExportedRow DEF ExportedFields, ParsedFields
<1> HIDE DEF e
<1>5. StreamFields(k, e) /\ k.scheme = "vless" /\ k.user = L!Or(e.user, "") /\ k.pass = L!Null
  BY <1>4, VlessLink
<1> HIDE DEF k
<1>6. e.tls = n.tls /\ k.security = l.security
  BY <1>1, <1>3, <1>4, <1>5 DEF StreamFields, ParsedFields, ExportedFields, SecurityOf, L!Security, Stored
<1>7. e.net = Transport(l) /\ l.type = L!toClashNet(n.net) /\ k.type = L!toClashNet(e.net)
  BY <1>1, <1>3, <1>4, <1>5 DEF StreamFields, ParsedFields, ExportedFields
<1>8. /\ (e.net = "WS" <=> n.net = "WS") /\ (e.net = "XHTTP" <=> n.net = "XHTTP") /\ (e.net = "GRPC" <=> n.net = "GRPC")
      /\ k.type = l.type
  BY <1>7, NetsKept
<1>9. k.user = l.user
  BY <1>1, <1>3, <1>4, <1>5 DEF ParsedFields, ExportedFields, L!Or, Text, L!OrElse
<1>10. k.path = l.path /\ k.service = l.service
  <2>1. e.path = L!Or(L!Or(l.path, l.service), "")
    BY <1>1, <1>3, <1>4 DEF ParsedFields, ExportedFields
  <2>2. /\ l.path = StreamPath(n) /\ k.path = StreamPath(e)
        /\ l.service = (IF n.net = "GRPC" THEN L!Or(n.path, "grpc") ELSE L!Null)
        /\ k.service = (IF e.net = "GRPC" THEN L!Or(e.path, "grpc") ELSE L!Null)
    BY <1>1, <1>5 DEF StreamFields
  <2> QED BY <1>8, <2>1, <2>2 DEF StreamPath, L!Or, L!OrElse, L!Null
<1>11. k.pbk = l.pbk /\ k.sid = l.sid
  BY <1>1, <1>3, <1>4, <1>5, <1>6 DEF StreamFields, ParsedFields, ExportedFields, L!Or, Text, L!OrElse
<1>12. k.mode = l.mode /\ k.extra = l.extra
  <2>1. /\ e.mode = Text(IF Transport(l) = "XHTTP" THEN L!parseXhttpMode(l.mode) ELSE L!Null)
        /\ e.extra = Text(IF Transport(l) = "XHTTP" THEN l.extra ELSE L!Null)
    BY <1>3, <1>4 DEF ParsedFields, ExportedFields
  <2>2. /\ l.mode = (IF n.net = "XHTTP" THEN L!OrElse(n.mode, "auto") ELSE L!Null)
        /\ l.extra = (IF n.net = "XHTTP" THEN n.extra ELSE L!Null)
        /\ k.mode = (IF e.net = "XHTTP" THEN L!OrElse(e.mode, "auto") ELSE L!Null)
        /\ k.extra = (IF e.net = "XHTTP" THEN e.extra ELSE L!Null)
    BY <1>1, <1>5 DEF StreamFields
  <2>3. L!OrElse(Text(L!parseXhttpMode(L!OrElse(n.mode, "auto"))), "auto") = L!OrElse(n.mode, "auto") /\
          Text(n.extra) = n.extra
    BY ModesKept DEF Stored
  <2>4. CASE n.net = "XHTTP"
    <3>1. e.mode = Text(L!parseXhttpMode(l.mode)) /\ e.extra = Text(l.extra) /\
            l.mode = L!OrElse(n.mode, "auto") /\ l.extra = n.extra
      BY <1>7, <1>8, <2>1, <2>2, <2>4
    <3>2. k.mode = L!OrElse(e.mode, "auto") /\ k.extra = e.extra
      BY <1>8, <2>2, <2>4
    <3> QED BY <2>3, <3>1, <3>2
  <2>5. CASE n.net # "XHTTP"
    BY <1>8, <2>2, <2>5
  <2> QED BY <2>4, <2>5
<1>13. e.domain = (IF l.sni = L!Null /\ n.net = "XHTTP" THEN L!Null ELSE L!Or(L!Or(l.sni, l.host), ""))
  <2>1. e.domain = L!ServerName(l)
    BY <1>3, <1>4 DEF ParsedFields, ExportedFields
  <2>2. l.type = "xhttp" <=> n.net = "XHTTP"
    BY <1>7, NetNames
  <2> QED BY <1>1, <2>1, <2>2 DEF L!ServerName
<1>14. l.host = StreamHost(n) /\ l.sni = StreamSni(n) /\ k.host = StreamHost(e) /\ k.sni = StreamSni(e)
  BY <1>1, <1>5 DEF StreamFields
<1>15. k.sni = l.sni
  BY <1>6, <1>13, <1>14 DEF StreamSni, StreamHost, Settled, Stored, Text, L!Or, L!OrElse, L!Null
<1>16. k.host = l.host
  <2>1. e.wsHost = (IF n.net = "WS" THEN l.host ELSE L!Null) /\
          e.xHost = Text(IF n.net = "XHTTP" THEN Text(l.host) ELSE L!Null)
    BY <1>1, <1>3, <1>4, <1>7, <1>8 DEF ParsedFields, ExportedFields
  <2>2. CASE n.net = "WS"
    BY <1>8, <1>13, <1>14, <2>1, <2>2 DEF StreamSni, StreamHost, Settled, Stored, Text, L!Or, L!OrElse, L!Null
  <2>3. CASE n.net # "WS"
    BY <1>8, <1>14, <2>1, <2>3 DEF StreamHost, Text, L!OrElse, L!Null
  <2> QED BY <2>2, <2>3
<1>17. Short(k) = Short(l)
  BY <1>1, <1>5, <1>6, <1>8, <1>9, <1>10, <1>11, <1>12, <1>15, <1>16, SameFields DEF StreamFields
<1> QED BY <1>3, <1>17 DEF k, e, r, l

LEMMA TrojanSettled ==
  ASSUME NEW n, Stored(n), Settled(n), n.protocol = "TROJAN"
  PROVE  SameOnceMore(n)
<1> SUFFICES ASSUME NEW p \in {"HTTP", "SOCKS5"}
    PROVE  L!parseUri(L!buildShareUri(n), p) # L!Rejected /\ Short(L!buildShareUri(L!Exported(L!parseUri(L!buildShareUri(n), p)))) = Short(L!buildShareUri(n))
  BY DEF SameOnceMore
<1> DEFINE l == L!buildShareUri(n)
           r == L!parseUri(l, p)
           e == L!Exported(r)
           k == L!buildShareUri(e)
<1>1. StreamFields(l, n) /\ l.scheme = "trojan" /\ l.user = L!Null /\ l.pass = L!Or(n.pass, "")
  BY TrojanLink
<1> HIDE DEF l
<1>2. ~Refused(l)
  BY <1>1, BuiltTaken DEF StreamFields, Stored
<1>3. r # L!Rejected /\ ParsedFields(r, l, "TROJAN")
  BY <1>1, <1>2, StreamParsed DEF L!parseUri, L!parseTrojan
<1> HIDE DEF r
<1>4. ExportedFields(e, r) /\ e.protocol = "TROJAN"
  BY <1>3, ExportedRow DEF ExportedFields, ParsedFields
<1> HIDE DEF e
<1>5. StreamFields(k, e) /\ k.scheme = "trojan" /\ k.user = L!Null /\ k.pass = L!Or(e.pass, "")
  BY <1>4, TrojanLink
<1> HIDE DEF k
<1>6. e.tls = n.tls /\ k.security = l.security /\ n.tls # "REALITY"
  BY <1>1, <1>3, <1>4, <1>5 DEF StreamFields, ParsedFields, ExportedFields, SecurityOf, L!Security, Stored
<1>7. e.net = Transport(l) /\ l.type = L!toClashNet(n.net) /\ k.type = L!toClashNet(e.net)
  BY <1>1, <1>3, <1>4, <1>5 DEF StreamFields, ParsedFields, ExportedFields
<1>8. /\ (e.net = "WS" <=> n.net = "WS") /\ (e.net = "XHTTP" <=> n.net = "XHTTP") /\ (e.net = "GRPC" <=> n.net = "GRPC")
      /\ k.type = l.type
  BY <1>7, NetsKept
<1>9. k.pass = l.pass
  BY <1>1, <1>3, <1>4, <1>5 DEF ParsedFields, ExportedFields, L!Or, Text, L!OrElse
<1>10. k.path = l.path /\ k.service = l.service
  <2>1. e.path = L!Or(L!Or(l.path, l.service), "")
    BY <1>1, <1>3, <1>4 DEF ParsedFields, ExportedFields
  <2>2. /\ l.path = StreamPath(n) /\ k.path = StreamPath(e)
        /\ l.service = (IF n.net = "GRPC" THEN L!Or(n.path, "grpc") ELSE L!Null)
        /\ k.service = (IF e.net = "GRPC" THEN L!Or(e.path, "grpc") ELSE L!Null)
    BY <1>1, <1>5 DEF StreamFields
  <2> QED BY <1>8, <2>1, <2>2 DEF StreamPath, L!Or, L!OrElse, L!Null
<1>11. k.pbk = l.pbk /\ k.sid = l.sid
  BY <1>1, <1>5, <1>6 DEF StreamFields
<1>12. k.mode = l.mode /\ k.extra = l.extra
  <2>1. /\ e.mode = Text(IF Transport(l) = "XHTTP" THEN L!parseXhttpMode(l.mode) ELSE L!Null)
        /\ e.extra = Text(IF Transport(l) = "XHTTP" THEN l.extra ELSE L!Null)
    BY <1>3, <1>4 DEF ParsedFields, ExportedFields
  <2>2. /\ l.mode = (IF n.net = "XHTTP" THEN L!OrElse(n.mode, "auto") ELSE L!Null)
        /\ l.extra = (IF n.net = "XHTTP" THEN n.extra ELSE L!Null)
        /\ k.mode = (IF e.net = "XHTTP" THEN L!OrElse(e.mode, "auto") ELSE L!Null)
        /\ k.extra = (IF e.net = "XHTTP" THEN e.extra ELSE L!Null)
    BY <1>1, <1>5 DEF StreamFields
  <2>3. L!OrElse(Text(L!parseXhttpMode(L!OrElse(n.mode, "auto"))), "auto") = L!OrElse(n.mode, "auto") /\
          Text(n.extra) = n.extra
    BY ModesKept DEF Stored
  <2>4. CASE n.net = "XHTTP"
    <3>1. e.mode = Text(L!parseXhttpMode(l.mode)) /\ e.extra = Text(l.extra) /\
            l.mode = L!OrElse(n.mode, "auto") /\ l.extra = n.extra
      BY <1>7, <1>8, <2>1, <2>2, <2>4
    <3>2. k.mode = L!OrElse(e.mode, "auto") /\ k.extra = e.extra
      BY <1>8, <2>2, <2>4
    <3> QED BY <2>3, <3>1, <3>2
  <2>5. CASE n.net # "XHTTP"
    BY <1>8, <2>2, <2>5
  <2> QED BY <2>4, <2>5
<1>13. e.domain = L!Or(l.sni, "")
  BY <1>1, <1>3, <1>4 DEF ParsedFields, ExportedFields, L!ServerName
<1>14. l.host = StreamHost(n) /\ l.sni = StreamSni(n) /\ k.host = StreamHost(e) /\ k.sni = StreamSni(e)
  BY <1>1, <1>5 DEF StreamFields
<1>15. k.sni = l.sni
  BY <1>6, <1>13, <1>14 DEF StreamSni, Text, L!Or, L!OrElse, L!Null
<1>16. k.host = l.host
  <2>1. e.wsHost = (IF n.net = "WS" THEN l.host ELSE L!Null) /\
          e.xHost = Text(IF n.net = "XHTTP" THEN Text(l.host) ELSE L!Null)
    BY <1>1, <1>3, <1>4, <1>7, <1>8 DEF ParsedFields, ExportedFields
  <2>2. CASE n.net = "WS"
    BY <1>6, <1>8, <1>13, <1>14, <2>1, <2>2 DEF StreamSni, StreamHost, Settled, Stored, Text, L!Or, L!OrElse, L!Null
  <2>3. CASE n.net # "WS"
    BY <1>8, <1>14, <2>1, <2>3 DEF StreamHost, Text, L!OrElse, L!Null
  <2> QED BY <2>2, <2>3
<1>17. Short(k) = Short(l)
  BY <1>1, <1>5, <1>6, <1>8, <1>9, <1>10, <1>11, <1>12, <1>15, <1>16, SameFields DEF StreamFields
<1> QED BY <1>3, <1>17 DEF k, e, r, l

LEMMA VmessSettled ==
  ASSUME NEW n, Stored(n), Settled(n), n.protocol = "VMESS"
  PROVE  SameOnceMore(n)
<1> SUFFICES ASSUME NEW p \in {"HTTP", "SOCKS5"}
    PROVE  L!parseUri(L!buildShareUri(n), p) # L!Rejected /\ Short(L!buildShareUri(L!Exported(L!parseUri(L!buildShareUri(n), p)))) = Short(L!buildShareUri(n))
  BY DEF SameOnceMore
<1> DEFINE l == L!buildShareUri(n)
           r == L!parseUri(l, p)
           e == L!Exported(r)
           k == L!buildShareUri(e)
<1>1. VmessFields(l, n)
  BY VmessLinks
<1> HIDE DEF l
<1>2. ~Refused(l)
  BY <1>1, BuiltTaken DEF VmessFields, Stored
<1>3. r # L!Rejected /\ ParsedFields(r, l, "VMESS") /\ l.scheme = "vmess"
  BY <1>1, <1>2, StreamParsed DEF L!parseUri, L!parseVmess, VmessFields
<1> HIDE DEF r
<1>4. ExportedFields(e, r) /\ e.protocol = "VMESS"
  BY <1>3, ExportedRow DEF ExportedFields, ParsedFields
<1> HIDE DEF e
<1>5. VmessFields(k, e)
  BY <1>4, VmessLinks
<1> HIDE DEF k
<1>6. k.security = l.security
  BY <1>1, <1>3, <1>4, <1>5 DEF VmessFields, ParsedFields, ExportedFields, L!Security, Stored
<1>7. e.net = Transport(l) /\ l.type = L!toClashNet(n.net) /\ k.type = L!toClashNet(e.net)
  BY <1>1, <1>3, <1>4, <1>5 DEF VmessFields, ParsedFields, ExportedFields
<1>8. /\ (e.net = "WS" <=> n.net = "WS") /\ (e.net = "XHTTP" <=> n.net = "XHTTP") /\ (e.net = "GRPC" <=> n.net = "GRPC")
      /\ k.type = l.type
  BY <1>7, NetsKept
<1>9. k.user = l.user
  <2>1. l.user = L!Or(n.user, "") /\ k.user = L!Or(Text(l.user), "")
    BY <1>1, <1>3, <1>4, <1>5 DEF VmessFields, ParsedFields, ExportedFields
  <2> QED BY <2>1 DEF L!Or, Text, L!OrElse
<1>10. k.path = l.path
  <2>1. e.path = L!Or(l.path, "")
    BY <1>3, <1>4 DEF ParsedFields, ExportedFields
  <2>2. /\ l.path = (IF n.net \in {"WS", "XHTTP"} THEN L!OrElse(n.path, "/") ELSE IF n.net = "GRPC" THEN L!Or(n.path, "grpc") ELSE "")
        /\ k.path = (IF e.net \in {"WS", "XHTTP"} THEN L!OrElse(e.path, "/") ELSE IF e.net = "GRPC" THEN L!Or(e.path, "grpc") ELSE "")
    BY <1>1, <1>5 DEF VmessFields
  <2> QED BY <1>8, <2>1, <2>2 DEF L!Or, L!OrElse, L!Null
<1>12. k.mode = l.mode /\ k.extra = l.extra
  <2>1. /\ e.mode = Text(IF Transport(l) = "XHTTP" THEN L!parseXhttpMode(l.mode) ELSE L!Null)
        /\ e.extra = Text(IF Transport(l) = "XHTTP" THEN l.extra ELSE L!Null)
    BY <1>3, <1>4 DEF ParsedFields, ExportedFields
  <2>2. /\ l.mode = (IF n.net = "XHTTP" THEN L!OrElse(n.mode, "auto") ELSE L!Null)
        /\ l.extra = (IF n.net = "XHTTP" THEN n.extra ELSE L!Null)
        /\ k.mode = (IF e.net = "XHTTP" THEN L!OrElse(e.mode, "auto") ELSE L!Null)
        /\ k.extra = (IF e.net = "XHTTP" THEN e.extra ELSE L!Null)
    BY <1>1, <1>5 DEF VmessFields
  <2>3. L!OrElse(Text(L!parseXhttpMode(L!OrElse(n.mode, "auto"))), "auto") = L!OrElse(n.mode, "auto") /\
          Text(n.extra) = n.extra
    BY ModesKept DEF Stored
  <2>4. CASE n.net = "XHTTP"
    <3>1. e.mode = Text(L!parseXhttpMode(l.mode)) /\ e.extra = Text(l.extra) /\
            l.mode = L!OrElse(n.mode, "auto") /\ l.extra = n.extra
      BY <1>7, <1>8, <2>1, <2>2, <2>4
    <3>2. k.mode = L!OrElse(e.mode, "auto") /\ k.extra = e.extra
      BY <1>8, <2>2, <2>4
    <3> QED BY <2>3, <3>1, <3>2
  <2>5. CASE n.net # "XHTTP"
    BY <1>8, <2>2, <2>5
  <2> QED BY <2>4, <2>5
<1>13. l.sni = L!Or(n.domain, "") /\ e.domain = l.sni /\ k.sni = l.sni
  <2>1. l.sni = L!Or(n.domain, "") /\ k.sni = L!Or(e.domain, "") /\ e.domain = L!ServerName(l)
    BY <1>1, <1>3, <1>4, <1>5 DEF VmessFields, ParsedFields, ExportedFields
  <2>2. l.sni # L!Null
    BY <2>1 DEF L!Or, L!Null
  <2> QED BY <1>3, <2>1, <2>2 DEF L!ServerName, L!Or
<1>16. k.host = l.host
  <2>1. e.wsHost = (IF n.net = "WS" THEN L!Or(l.host, "") ELSE L!Null) /\
          e.xHost = Text(IF n.net = "XHTTP" THEN Text(l.host) ELSE L!Null)
    BY <1>3, <1>4, <1>7, <1>8 DEF ParsedFields, ExportedFields
  <2>2. /\ l.host = (IF n.net = "XHTTP" THEN L!OrElse(n.xHost, "") ELSE L!Or(L!Or(n.wsHost, n.domain), ""))
        /\ k.host = (IF e.net = "XHTTP" THEN L!OrElse(e.xHost, "") ELSE L!Or(L!Or(e.wsHost, e.domain), ""))
    BY <1>1, <1>5 DEF VmessFields
  <2>3. CASE n.net = "WS"
    BY <1>8, <2>1, <2>2, <2>3 DEF L!Or, L!Null
  <2>4. CASE n.net = "XHTTP"
    BY <1>8, <2>1, <2>2, <2>4 DEF Text, L!OrElse, L!Null
  <2>5. CASE n.net \notin {"WS", "XHTTP"}
    <3>1. L!Or(L!Or(n.wsHost, n.domain), "") = L!Or(n.domain, "")
      BY <2>5 DEF Settled
    <3> QED BY <1>8, <1>13, <2>1, <2>2, <2>5, <3>1 DEF L!Or, L!Null
  <2> QED BY <2>3, <2>4, <2>5
<1>17. Short(k) = Short(l)
  BY <1>1, <1>5, <1>6, <1>8, <1>9, <1>10, <1>12, <1>13, <1>16, SameFields DEF VmessFields
<1> QED BY <1>3, <1>17 DEF k, e, r, l


\* A link without transport and security.
Plain(l) ==
    /\ IsLink(l) /\ l.security = L!Null /\ l.type = L!Null /\ l.host = L!Null /\ l.path = L!Null /\ l.service = L!Null
    /\ l.pbk = L!Null /\ l.sid = L!Null /\ l.mode = L!Null /\ l.extra = L!Null

SsFields(l, n) == Plain(l) /\ l.scheme = "ss" /\ l.sni = L!Null /\ l.user = L!Or(n.user, "aes-256-gcm") /\
                    l.pass = L!Or(n.pass, "")
Hy2Fields(l, n) == Plain(l) /\ l.scheme = "hy2" /\ l.user = L!Null /\ l.pass = L!Or(n.pass, "") /\
                     l.sni = L!OrElse(n.domain, L!Null)
LoginFields(l, n, scheme) ==
    Plain(l) /\ l.scheme = scheme /\ l.sni = L!Null /\ l.user = n.user /\
      l.pass = (IF n.user = L!Null THEN L!Null ELSE L!Or(n.pass, ""))

LEMMA SsLink == ASSUME NEW n, n.protocol = "SHADOWSOCKS" PROVE SsFields(L!buildShareUri(n), n)
<1>1. L!buildShareUri(n) = [L!Bare("ss") EXCEPT !.user = L!Or(n.user, "aes-256-gcm"), !.pass = L!Or(n.pass, "")]
  BY DEF L!buildShareUri
<1> QED BY <1>1 DEF L!Bare, SsFields, Plain, IsLink, LinkFields

LEMMA Hy2Link == ASSUME NEW n, n.protocol = "HYSTERIA2" PROVE Hy2Fields(L!buildShareUri(n), n)
<1>1. L!buildShareUri(n) = [L!Bare("hy2") EXCEPT !.pass = L!Or(n.pass, ""), !.sni = L!OrElse(n.domain, L!Null)]
  BY DEF L!buildShareUri
<1> QED BY <1>1 DEF L!Bare, Hy2Fields, Plain, IsLink, LinkFields

LEMMA LoginLink ==
  ASSUME NEW n, n.protocol \in {"SOCKS5", "HTTP"}
  PROVE  LoginFields(L!buildShareUri(n), n, IF n.protocol = "SOCKS5" THEN "socks5" ELSE IF n.tls = "TLS" THEN "https" ELSE "http")
<1> DEFINE scheme == IF n.protocol = "SOCKS5" THEN "socks5" ELSE IF n.tls = "TLS" THEN "https" ELSE "http"
<1>1. L!buildShareUri(n) = L!Login(L!Bare(scheme), n)
  BY DEF L!buildShareUri
<1> HIDE DEF scheme
<1>2. LoginFields(L!Login(L!Bare(scheme), n), n, scheme)
  BY DEF L!Login, L!Bare, LoginFields, Plain, IsLink, LinkFields
<1> QED BY <1>1, <1>2 DEF scheme

LEMMA LoginScheme ==
  ASSUME NEW n, n.protocol \in {"SOCKS5", "HTTP"}
  PROVE  LET l == L!buildShareUri(n)
         IN  l.security = L!Null /\ l.scheme = (IF n.protocol = "SOCKS5" THEN "socks5" ELSE IF n.tls = "TLS" THEN "https" ELSE "http")
<1> DEFINE l == L!buildShareUri(n)
<1>1. LoginFields(l, n, IF n.protocol = "SOCKS5" THEN "socks5" ELSE IF n.tls = "TLS" THEN "https" ELSE "http")
  BY LoginLink
<1> HIDE DEF l
<1>2. l.security = L!Null /\ l.scheme = (IF n.protocol = "SOCKS5" THEN "socks5" ELSE IF n.tls = "TLS" THEN "https" ELSE "http")
  BY <1>1 DEF LoginFields, Plain
<1> QED BY <1>2 DEF l

LEMMA ShadowsocksSettled == ASSUME NEW n, Stored(n), n.protocol = "SHADOWSOCKS" PROVE SameOnceMore(n)
<1> SUFFICES ASSUME NEW p \in {"HTTP", "SOCKS5"}
    PROVE  L!parseUri(L!buildShareUri(n), p) # L!Rejected /\ Short(L!buildShareUri(L!Exported(L!parseUri(L!buildShareUri(n), p)))) = Short(L!buildShareUri(n))
  BY DEF SameOnceMore
<1> DEFINE l == L!buildShareUri(n)
           r == L!parseUri(l, p)
           e == L!Exported(r)
           k == L!buildShareUri(e)
<1>1. SsFields(l, n)
  BY SsLink
<1> HIDE DEF l
<1>2. r = [L!Node("SHADOWSOCKS") EXCEPT !.user = l.user, !.pass = l.pass]
  BY <1>1 DEF L!parseUri, L!parseShadowsocks, SsFields
<1>3. r.protocol = "SHADOWSOCKS" /\ r.user = l.user /\ r.pass = l.pass
  BY <1>2 DEF L!Node
<1> HIDE DEF r
<1>4. r # L!Rejected
  <2>1. r.protocol \in Kinds
    BY <1>3 DEF Kinds
  <2> QED BY <2>1, Rejects
<1>5. e.protocol = "SHADOWSOCKS" /\ e.user = Text(l.user) /\ e.pass = Text(l.pass)
  BY <1>3, ExportedRow DEF ExportedFields
<1> HIDE DEF e
<1>6. SsFields(k, e)
  BY <1>5, SsLink
<1> HIDE DEF k
<1>7. k.user = l.user
  <2>1. k.user = L!Or(Text(l.user), "aes-256-gcm") /\ l.user = L!Or(n.user, "aes-256-gcm") /\ n.user # ""
    BY <1>1, <1>5, <1>6 DEF SsFields, Stored
  <2> QED BY <2>1 DEF L!Or, Text, L!OrElse, L!Null
<1>8. k.pass = l.pass
  <2>1. k.pass = L!Or(Text(l.pass), "") /\ l.pass = L!Or(n.pass, "")
    BY <1>1, <1>5, <1>6 DEF SsFields
  <2> QED BY <2>1 DEF L!Or, Text, L!OrElse
<1>9. Short(k) = Short(l)
  BY <1>1, <1>6, <1>7, <1>8, SameFields DEF SsFields, Plain
<1> QED BY <1>4, <1>9 DEF k, e, r, l

LEMMA HysteriaSettled == ASSUME NEW n, Stored(n), n.protocol = "HYSTERIA2" PROVE SameOnceMore(n)
<1> SUFFICES ASSUME NEW p \in {"HTTP", "SOCKS5"}
    PROVE  L!parseUri(L!buildShareUri(n), p) # L!Rejected /\ Short(L!buildShareUri(L!Exported(L!parseUri(L!buildShareUri(n), p)))) = Short(L!buildShareUri(n))
  BY DEF SameOnceMore
<1> DEFINE l == L!buildShareUri(n)
           r == L!parseUri(l, p)
           e == L!Exported(r)
           k == L!buildShareUri(e)
<1>1. Hy2Fields(l, n)
  BY Hy2Link
<1> HIDE DEF l
<1>2. r = [L!Node("HYSTERIA2") EXCEPT !.tls = "TLS", !.pass = l.pass, !.sni = L!Or(l.sni, "")]
  BY <1>1 DEF L!parseUri, L!parseHysteria2, Hy2Fields
<1>3. r.protocol = "HYSTERIA2" /\ r.pass = l.pass /\ r.sni = L!Or(l.sni, "")
  BY <1>2 DEF L!Node
<1> HIDE DEF r
<1>4. r # L!Rejected
  <2>1. r.protocol \in Kinds
    BY <1>3 DEF Kinds
  <2> QED BY <2>1, Rejects
<1>5. e.protocol = "HYSTERIA2" /\ e.pass = Text(l.pass) /\ e.domain = L!Or(l.sni, "")
  BY <1>3, ExportedRow DEF ExportedFields
<1> HIDE DEF e
<1>6. Hy2Fields(k, e)
  BY <1>5, Hy2Link
<1> HIDE DEF k
<1>7. k.sni = l.sni
  <2>1. k.sni = L!OrElse(L!Or(l.sni, ""), L!Null) /\ l.sni = L!OrElse(n.domain, L!Null)
    BY <1>1, <1>5, <1>6 DEF Hy2Fields
  <2> QED BY <2>1 DEF L!Or, L!OrElse, L!Null
<1>8. k.pass = l.pass
  <2>1. k.pass = L!Or(Text(l.pass), "") /\ l.pass = L!Or(n.pass, "")
    BY <1>1, <1>5, <1>6 DEF Hy2Fields
  <2> QED BY <2>1 DEF L!Or, Text, L!OrElse
<1>9. Short(k) = Short(l)
  BY <1>1, <1>6, <1>7, <1>8, SameFields DEF Hy2Fields, Plain
<1> QED BY <1>4, <1>9 DEF k, e, r, l

LEMMA SocksSettled == ASSUME NEW n, Stored(n), n.protocol = "SOCKS5" PROVE SameOnceMore(n)
<1> SUFFICES ASSUME NEW p \in {"HTTP", "SOCKS5"}
    PROVE  L!parseUri(L!buildShareUri(n), p) # L!Rejected /\ Short(L!buildShareUri(L!Exported(L!parseUri(L!buildShareUri(n), p)))) = Short(L!buildShareUri(n))
  BY DEF SameOnceMore
<1> DEFINE l == L!buildShareUri(n)
           r == L!parseUri(l, p)
           e == L!Exported(r)
           k == L!buildShareUri(e)
<1>1. LoginFields(l, n, "socks5") /\ l.user # ""
  <2>1. LoginFields(l, n, "socks5")
    BY LoginLink
  <2> HIDE DEF l
  <2> QED BY <2>1 DEF LoginFields, Stored
<1> HIDE DEF l
<1>2. r = [L!Node("SOCKS5") EXCEPT !.user = l.user, !.pass = l.pass]
  BY <1>1 DEF L!parseUri, L!parseSocks, L!parseCredentials, LoginFields
<1>3. r.protocol = "SOCKS5" /\ r.user = l.user /\ r.pass = l.pass
  BY <1>2 DEF L!Node
<1> HIDE DEF r
<1>4. r # L!Rejected
  <2>1. r.protocol \in Kinds
    BY <1>3 DEF Kinds
  <2> QED BY <2>1, Rejects
<1>5. e.protocol = "SOCKS5" /\ e.user = Text(l.user) /\ e.pass = Text(l.pass)
  BY <1>3, ExportedRow DEF ExportedFields
<1> HIDE DEF e
<1>6. LoginFields(k, e, "socks5")
  BY <1>5, LoginLink
<1> HIDE DEF k
<1>7. e.user = l.user /\ k.user = l.user
  BY <1>1, <1>5, <1>6 DEF LoginFields, Text, L!OrElse
<1>8. k.pass = l.pass
  <2>1. /\ l.pass = (IF l.user = L!Null THEN L!Null ELSE L!Or(n.pass, ""))
        /\ k.pass = (IF l.user = L!Null THEN L!Null ELSE L!Or(Text(l.pass), ""))
    BY <1>1, <1>5, <1>6, <1>7 DEF LoginFields
  <2> QED BY <2>1 DEF L!Or, Text, L!OrElse
<1>9. Short(k) = Short(l)
  BY <1>1, <1>6, <1>7, <1>8, SameFields DEF LoginFields, Plain
<1> QED BY <1>4, <1>9 DEF k, e, r, l

LEMMA HttpSettled == ASSUME NEW n, Stored(n), n.protocol = "HTTP" PROVE SameOnceMore(n)
<1> SUFFICES ASSUME NEW p \in {"HTTP", "SOCKS5"}
    PROVE  L!parseUri(L!buildShareUri(n), p) # L!Rejected /\ Short(L!buildShareUri(L!Exported(L!parseUri(L!buildShareUri(n), p)))) = Short(L!buildShareUri(n))
  BY DEF SameOnceMore
<1> DEFINE l == L!buildShareUri(n)
           r == L!parseUri(l, p)
           e == L!Exported(r)
           k == L!buildShareUri(e)
           scheme == IF n.tls = "TLS" THEN "https" ELSE "http"
<1>1. LoginFields(l, n, scheme) /\ l.user # ""
  <2>1. LoginFields(l, n, scheme)
    BY LoginLink
  <2> HIDE DEF l
  <2> QED BY <2>1 DEF LoginFields, Stored
<1> HIDE DEF l
<1>2. l.scheme = scheme /\ l.user = n.user /\ l.pass = (IF l.user = L!Null THEN L!Null ELSE L!Or(n.pass, ""))
  BY <1>1 DEF LoginFields
<1>3. r = L!parseHttp(l)
  BY <1>2 DEF L!parseUri
<1>4. r = [L!Node("HTTP") EXCEPT !.user = L!OrElse(l.user, L!Null), !.pass = IF l.user \in {L!Null, ""} THEN L!Null ELSE l.pass,
                              !.tls = IF l.scheme = "https" THEN "TLS" ELSE "NONE",
                              !.sni = IF l.scheme = "https" THEN "address" ELSE L!Null]
  BY <1>1, <1>2, <1>3 DEF L!parseHttp
<1>5. r.protocol = "HTTP" /\ r.user = l.user /\ r.pass = l.pass /\ r.tls = (IF l.scheme = "https" THEN "TLS" ELSE "NONE")
  BY <1>1, <1>2, <1>4 DEF L!Node, L!OrElse
<1> HIDE DEF r
<1>6. r # L!Rejected
  <2>1. r.protocol \in Kinds
    BY <1>5 DEF Kinds
  <2> QED BY <2>1, Rejects
<1>7. e.protocol = "HTTP" /\ e.user = Text(l.user) /\ e.pass = Text(l.pass) /\ e.tls = r.tls
  BY <1>5, ExportedRow DEF ExportedFields
<1> HIDE DEF e
<1>8. e.tls = "TLS" <=> n.tls = "TLS"
  BY <1>2, <1>5, <1>7
<1>9. LoginFields(k, e, scheme)
  BY <1>7, <1>8, LoginLink
<1> HIDE DEF k, scheme
<1>10. e.user = l.user /\ k.user = l.user
  BY <1>1, <1>7, <1>9 DEF LoginFields, Text, L!OrElse
<1>11. k.pass = l.pass
  <2>1. k.pass = (IF l.user = L!Null THEN L!Null ELSE L!Or(Text(l.pass), ""))
    BY <1>7, <1>9, <1>10 DEF LoginFields
  <2> QED BY <1>2, <2>1 DEF L!Or, Text, L!OrElse
<1>12. Short(k) = Short(l)
  BY <1>1, <1>9, <1>10, <1>11, SameFields DEF LoginFields, Plain
<1> QED BY <1>6, <1>12 DEF k, e, r, l

\* What a row is given out as has no ALPN, and is a link of that form.
LEMMA NoAlpn == ASSUME NEW r, NEW l, l = L!buildShareUri(L!Exported(r)), L!Exported(r).protocol \in Kinds PROVE Short(l) = l
<1> DEFINE e == L!Exported(r)
<1>1. e.alpn = L!Null
  BY DEF L!Exported
<1> HIDE DEF e
<1>2. CASE e.protocol \in {"VLESS", "TROJAN"}
  <2>1. IsLink(l)
    BY <1>2, VlessLink, TrojanLink DEF StreamFields, e
  <2>2. l.alpn = L!Null
    <3> DEFINE base(x) == IF e.protocol = "VLESS" THEN [L!Bare("vless") EXCEPT !.user = x] ELSE [L!Bare("trojan") EXCEPT !.pass = x]
               link(x) == L!addTlsParams(L!addTransportParams(base(x), e), e)
    <3>1. \A x : base(x).alpn = L!Null /\ "alpn" \in DOMAIN base(x)
      BY DEF L!Bare
    <3> HIDE DEF base
    <3>2. \A x : link(x).alpn = L!Null /\ "alpn" \in DOMAIN link(x)
      BY <3>1 DEF L!addTlsParams, L!addTransportParams
    <3>3. e.protocol = "TROJAN" => l = link(L!Or(e.pass, ""))
      BY DEF L!buildShareUri, base, e
    <3>4. e.protocol = "VLESS" => l = [link(L!Or(e.user, "")) EXCEPT !.alpn = L!Null]
      BY <1>1 DEF L!buildShareUri, L!VlessLink, base, e
    <3> HIDE DEF link
    <3> QED BY <1>2, <3>2, <3>3, <3>4
  <2> QED BY <2>1, <2>2 DEF Short, IsLink
<1>3. CASE e.protocol = "VMESS"
  <2>1. l = L!VmessLink(e)
    BY <1>3 DEF L!buildShareUri, e
  <2>2. l.alpn = L!Null
    BY <2>1 DEF L!VmessLink, L!Bare
  <2>3. IsLink(l)
    BY <1>3, VmessLinks DEF VmessFields, e
  <2> QED BY <2>2, <2>3 DEF Short, IsLink
<1>4. CASE e.protocol \in {"SHADOWSOCKS", "SOCKS5", "HTTP", "HYSTERIA2"}
  <2>1. l.alpn = L!Null
    <3>1. \A x : L!Bare(x).alpn = L!Null /\ "alpn" \in DOMAIN L!Bare(x)
      BY DEF L!Bare
    <3>2. CASE e.protocol = "SHADOWSOCKS"
      BY <3>1, <3>2 DEF L!buildShareUri, e
    <3>3. CASE e.protocol = "HYSTERIA2"
      BY <3>1, <3>3 DEF L!buildShareUri, e
    <3>4. CASE e.protocol \in {"SOCKS5", "HTTP"}
      <4>1. PICK x : l = L!Login(L!Bare(x), e)
        BY <3>4 DEF L!buildShareUri, e
      <4> QED BY <3>1, <4>1 DEF L!Login
    <3> QED BY <1>4, <3>2, <3>3, <3>4
  <2>2. IsLink(l)
    <3>1. CASE e.protocol = "SHADOWSOCKS"
      BY <3>1, SsLink DEF SsFields, Plain, e
    <3>2. CASE e.protocol = "HYSTERIA2"
      BY <3>2, Hy2Link DEF Hy2Fields, Plain, e
    <3>3. CASE e.protocol \in {"SOCKS5", "HTTP"}
      <4>1. LoginFields(l, e, IF e.protocol = "SOCKS5" THEN "socks5" ELSE IF e.tls = "TLS" THEN "https" ELSE "http")
        BY <3>3, LoginLink DEF e
      <4> QED BY <4>1 DEF LoginFields, Plain
    <3> QED BY <1>4, <3>1, <3>2, <3>3
  <2> QED BY <2>1, <2>2 DEF Short, IsLink
<1> QED BY <1>2, <1>3, <1>4 DEF Kinds, e

LEMMA RoundTrip == ASSUME NEW n, Stored(n), Settled(n) PROVE SameOnceMore(n)
  BY VlessSettled, TrojanSettled, VmessSettled, ShadowsocksSettled, HysteriaSettled, SocksSettled,
     HttpSettled DEF Stored, Kinds

-----------------------------------------------------------------------------
(* What any accepted link becomes *)

Streams == {"vless", "vmess", "trojan"}
StreamKind(scheme) == IF scheme = "vless" THEN "VLESS" ELSE IF scheme = "vmess" THEN "VMESS" ELSE "TROJAN"
PlainRow(r, l) ==
    /\ r.protocol \in {"SHADOWSOCKS", "SOCKS5", "HTTP", "HYSTERIA2"} /\ r.mode = L!Null /\ r.extra = L!Null
    /\ r.tls \in {"NONE", "TLS"} /\ (r.protocol \in {"SHADOWSOCKS", "SOCKS5"} => r.tls = "NONE")
    /\ (l.scheme \in {"https", "hy2", "hysteria2"} => r.tls = "TLS")

LEMMA ParsedRow ==
  ASSUME NEW l, NEW p \in {"HTTP", "SOCKS5"}, L!parseUri(l, p) # L!Rejected
  PROVE  LET r == L!parseUri(l, p)
         IN  \/ l.scheme \in Streams /\ ~Refused(l) /\ ParsedFields(r, l, StreamKind(l.scheme))
             \/ l.scheme \notin Streams /\ PlainRow(r, l)
<1> DEFINE r == L!parseUri(l, p)
<1>1. CASE l.scheme \in Streams
  <2>1. r = L!Streamed(l, StreamKind(l.scheme))
    BY <1>1 DEF L!parseUri, L!parseVmess, L!parseVless, L!parseTrojan, Streams, StreamKind
  <2> HIDE DEF r
  <2>2. ~Refused(l)
    BY <2>1, StreamRefused DEF r
  <2>3. StreamKind(l.scheme) \in {"VLESS", "VMESS", "TROJAN"}
    BY DEF StreamKind
  <2>4. ParsedFields(r, l, StreamKind(l.scheme))
    BY <2>1, <2>2, <2>3, StreamParsed
  <2> QED BY <1>1, <2>2, <2>4 DEF r
<1>2. CASE l.scheme = "ss"
  <2>1. r = [L!Node("SHADOWSOCKS") EXCEPT !.user = l.user, !.pass = l.pass]
    BY <1>2 DEF L!parseUri, L!parseShadowsocks
  <2> HIDE DEF r
  <2>2. PlainRow(r, l)
    BY <1>2, <2>1 DEF L!Node, PlainRow
  <2> QED BY <1>2, <2>2 DEF Streams, r
<1>3. CASE l.scheme = "socks5"
  <2>1. r = [L!Node("SOCKS5") EXCEPT !.user = l.user, !.pass = l.pass]
    BY <1>3 DEF L!parseUri, L!parseSocks
  <2> HIDE DEF r
  <2>2. PlainRow(r, l)
    BY <1>3, <2>1 DEF L!Node, PlainRow
  <2> QED BY <1>3, <2>2 DEF Streams, r
<1>4. CASE l.scheme \in {"hy2", "hysteria2"}
  <2>1. r = [L!Node("HYSTERIA2") EXCEPT !.tls = "TLS", !.pass = l.pass, !.sni = L!Or(l.sni, "")]
    BY <1>4 DEF L!parseUri, L!parseHysteria2
  <2> HIDE DEF r
  <2>2. PlainRow(r, l)
    BY <2>1 DEF L!Node, PlainRow
  <2> QED BY <1>4, <2>2 DEF Streams, r
<1>5. CASE l.scheme \in {"http", "https"}
  <2>1. r = L!parseHttp(l)
    BY <1>5 DEF L!parseUri
  <2> HIDE DEF r
  <2>2. r = [L!Node("HTTP") EXCEPT !.user = L!OrElse(l.user, L!Null), !.pass = IF l.user \in {L!Null, ""} THEN L!Null ELSE l.pass,
                              !.tls = IF l.scheme = "https" THEN "TLS" ELSE "NONE",
                              !.sni = IF l.scheme = "https" THEN "address" ELSE L!Null]
    BY <2>1 DEF L!parseHttp, r
  <2>3. PlainRow(r, l)
    BY <1>5, <2>2 DEF L!Node, PlainRow
  <2> QED BY <1>5, <2>3 DEF Streams, r
<1>6. CASE l.scheme = "bare"
  <2>1. r = L!parseBareProxy(l, p)
    BY <1>6 DEF L!parseUri
  <2> HIDE DEF r
  <2>2. r = [L!Node(p) EXCEPT !.user = l.user, !.pass = l.pass]
    BY <2>1 DEF L!parseBareProxy, r
  <2>3. PlainRow(r, l)
    BY <1>6, <2>2 DEF L!Node, PlainRow
  <2> QED BY <1>6, <2>3 DEF Streams, r
<1>7. CASE l.scheme \notin Streams \cup {"ss", "socks5", "hy2", "hysteria2", "http", "https", "bare"}
  BY <1>7 DEF L!parseUri, Streams
<1> QED BY <1>1, <1>2, <1>3, <1>4, <1>5, <1>6, <1>7

\* What is given out again has a protocol the builder knows, and no empty credential.
LEMMA ParsedStored ==
  ASSUME NEW l, NEW p \in {"HTTP", "SOCKS5"}, L!parseUri(l, p) # L!Rejected
  PROVE  Stored(L!Exported(L!parseUri(l, p)))
<1> DEFINE r == L!parseUri(l, p)
           e == L!Exported(r)
<1>1. \/ l.scheme \in Streams /\ ~Refused(l) /\ ParsedFields(r, l, StreamKind(l.scheme))
      \/ l.scheme \notin Streams /\ PlainRow(r, l)
  BY ParsedRow
<1> HIDE DEF r
<1>2. ExportedFields(e, r)
  BY ExportedRow
<1> HIDE DEF e
<1>3. e.user # ""
  BY <1>2 DEF ExportedFields, Text, L!OrElse, L!Null
<1>4. CASE l.scheme \in Streams /\ ~Refused(l) /\ ParsedFields(r, l, StreamKind(l.scheme))
  <2>1. e.protocol = StreamKind(l.scheme) /\ e.tls = L!Security(l)
    BY <1>2, <1>4 DEF ParsedFields, ExportedFields
  <2>2. e.protocol \in Kinds /\ e.tls \in {"NONE", "TLS", "REALITY"} /\ (e.protocol = "TROJAN" => e.tls # "REALITY")
    BY <1>4, <2>1 DEF StreamKind, L!Security, Streams, Kinds
  <2>3. /\ e.mode = Text(IF Transport(l) = "XHTTP" THEN L!parseXhttpMode(l.mode) ELSE L!Null)
        /\ e.extra = Text(IF Transport(l) = "XHTTP" THEN l.extra ELSE L!Null)
    BY <1>2, <1>4 DEF ParsedFields, ExportedFields
  <2>4. e.mode \in L!XhttpModes \cup {L!Null}
    BY <2>3 DEF L!parseXhttpMode, Text, L!OrElse, L!Null
  <2>5. e.extra \notin {"", "broken"}
    BY <1>4, <2>3 DEF Refused, L!parseXhttpExtra, Text, L!OrElse, L!Null
  <2>6. Stored(e)
    BY <1>3, <2>2, <2>4, <2>5 DEF Stored
  <2> QED BY <2>6 DEF e, r
<1>5. CASE PlainRow(r, l)
  <2>1. Stored(e)
    BY <1>2, <1>3, <1>5 DEF PlainRow, ExportedFields, Stored, Kinds, Text, L!OrElse, L!Null
  <2> QED BY <2>1 DEF e, r
<1> QED BY <1>1, <1>4, <1>5

\* What was stored once is accepted again.
LEMMA StoredTaken ==
  ASSUME NEW n, Stored(n), NEW p \in {"HTTP", "SOCKS5"}
  PROVE  L!parseUri(L!buildShareUri(n), p) # L!Rejected
<1> DEFINE l == L!buildShareUri(n)
<1>1. CASE n.protocol \in {"VLESS", "TROJAN"}
  <2>1. StreamFields(l, n) /\ l.scheme = (IF n.protocol = "VLESS" THEN "vless" ELSE "trojan")
    BY <1>1, VlessLink, TrojanLink
  <2> HIDE DEF l
  <2>2. ~Refused(l)
    BY <2>1, BuiltTaken DEF StreamFields, Stored
  <2>3. L!parseUri(l, p) = L!Streamed(l, n.protocol)
    BY <1>1, <2>1 DEF L!parseUri, L!parseVless, L!parseTrojan
  <2> QED BY <1>1, <2>2, <2>3, StreamParsed DEF l
<1>2. CASE n.protocol = "VMESS"
  <2>1. VmessFields(l, n)
    BY <1>2, VmessLinks
  <2> HIDE DEF l
  <2>2. ~Refused(l)
    BY <2>1, BuiltTaken DEF VmessFields, Stored
  <2>3. L!parseUri(l, p) = L!Streamed(l, "VMESS")
    BY <2>1 DEF L!parseUri, L!parseVmess, VmessFields
  <2> QED BY <2>2, <2>3, StreamParsed DEF l
<1>3. CASE n.protocol \in {"SHADOWSOCKS", "SOCKS5", "HTTP", "HYSTERIA2"}
  <2>1. SameOnceMore(n)
    BY <1>3, ShadowsocksSettled, SocksSettled, HttpSettled, HysteriaSettled
  <2> QED BY <2>1 DEF SameOnceMore
<1> QED BY <1>1, <1>2, <1>3 DEF Stored, Kinds

\* One import and the node is settled.
LEMMA OnceSettles ==
  ASSUME NEW n, Stored(n), NEW p \in {"HTTP", "SOCKS5"}
  PROVE  Settled(L!Exported(L!parseUri(L!buildShareUri(n), p)))
<1> DEFINE l == L!buildShareUri(n)
           r == L!parseUri(l, p)
           e == L!Exported(r)
<1>0. /\ ExportedFields(e, r) /\ r # L!Rejected
      /\ \/ l.scheme \in Streams /\ ~Refused(l) /\ ParsedFields(r, l, StreamKind(l.scheme))
         \/ l.scheme \notin Streams /\ PlainRow(r, l)
  BY ExportedRow, StoredTaken, ParsedRow
<1> HIDE DEF e, r
<1>1. CASE n.protocol \in {"VLESS", "TROJAN"}
  <2>1. /\ StreamFields(l, n) /\ l.scheme = (IF n.protocol = "VLESS" THEN "vless" ELSE "trojan")
    BY <1>1, VlessLink, TrojanLink
  <2> HIDE DEF l
  <2>2. ParsedFields(r, l, n.protocol)
    BY <1>0, <1>1, <2>1 DEF Streams, StreamKind
  <2>3. e.protocol = n.protocol /\ e.tls = n.tls
    BY <1>0, <1>1, <2>1, <2>2 DEF StreamFields, ParsedFields, ExportedFields, SecurityOf, L!Security, Stored
  <2>4. (e.net = "WS" <=> n.net = "WS") /\ (Transport(l) = "WS" <=> n.net = "WS")
    BY <1>0, <2>1, <2>2, NetsKept DEF StreamFields, ParsedFields, ExportedFields
  <2>5. SUFFICES ASSUME n.net = "WS" PROVE Settled(e)
    BY <1>1, <2>3, <2>4 DEF Settled, e, r, l
  <2>6. l.host = StreamHost(n) /\ l.sni = StreamSni(n) /\ l.type = "ws"
    BY <2>1, <2>5 DEF StreamFields, L!toClashNet
  <2>7. e.wsHost = l.host /\ e.domain = L!ServerName(l)
    BY <1>0, <1>1, <2>1, <2>2, <2>4, <2>5 DEF ParsedFields, ExportedFields
  <2>8. StreamHost(e) = Text(L!Or(e.wsHost, e.domain)) /\ l.host # ""
    BY <2>4, <2>5, <2>6 DEF StreamHost, Text, L!OrElse, L!Null
  <2>9. CASE n.protocol = "VLESS"
    <3>1. e.domain = L!Or(L!Or(l.sni, l.host), "")
      BY <2>1, <2>6, <2>7, <2>9 DEF L!ServerName
    <3>2. CASE n.tls = "TLS"
      <4>1. l.sni # ""
        BY <2>6, <3>2 DEF StreamSni, Text, L!OrElse, L!Null
      <4>2. (StreamHost(e) = L!Null => e.domain \in {L!Null, ""}) /\ (e.domain \in {L!Null, ""} => StreamHost(e) = L!Null)
        BY <2>7, <2>8, <3>1, <4>1 DEF Text, L!Or, L!OrElse, L!Null
      <4> QED BY <2>3, <2>9, <3>2, <4>2 DEF Settled
    <3>3. CASE n.tls = "REALITY"
      <4>1. l.sni = L!Or(n.domain, "default")
        BY <2>6, <3>3 DEF StreamSni
      <4>2. StreamHost(e) = L!Null => e.domain = ""
        BY <2>7, <2>8, <3>1, <4>1 DEF Text, L!Or, L!OrElse, L!Null
      <4> QED BY <2>3, <2>9, <3>3, <4>2 DEF Settled
    <3>4. CASE n.tls \notin {"TLS", "REALITY"}
      BY <2>3, <2>9, <3>4 DEF Settled
    <3> QED BY <3>2, <3>3, <3>4
  <2>10. CASE n.protocol = "TROJAN"
    <3>1. e.domain = L!Or(l.sni, "")
      BY <2>1, <2>7, <2>10 DEF L!ServerName
    <3>2. StreamHost(e) = L!Null => e.domain \in {L!Null, ""}
      BY <2>7, <2>8, <3>1 DEF Text, L!Or, L!OrElse, L!Null
    <3> QED BY <2>3, <2>10, <3>2 DEF Settled
  <2> QED BY <1>1, <2>9, <2>10
<1>2. CASE n.protocol = "VMESS"
  <2>1. VmessFields(l, n)
    BY <1>2, VmessLinks
  <2> HIDE DEF l
  <2>2. ParsedFields(r, l, "VMESS")
    BY <1>0, <2>1 DEF VmessFields, Streams, StreamKind
  <2>3. e.protocol = "VMESS" /\ (e.net # "WS" => e.wsHost = L!Null)
    BY <1>0, <2>2 DEF ParsedFields, ExportedFields
  <2>4. Settled(e)
    BY <2>3 DEF Settled, L!Or, L!Null
  <2> QED BY <2>4 DEF e, r, l
<1>3. CASE n.protocol \in {"SHADOWSOCKS", "SOCKS5", "HTTP", "HYSTERIA2"}
  <2>1. l.scheme \notin Streams
    <3>1. n.protocol = "SHADOWSOCKS" => l.scheme = "ss"
      BY SsLink DEF SsFields
    <3>2. n.protocol = "HYSTERIA2" => l.scheme = "hy2"
      BY Hy2Link DEF Hy2Fields
    <3>3. n.protocol \in {"SOCKS5", "HTTP"} => l.scheme \in {"socks5", "http", "https"}
      BY LoginScheme
    <3> QED BY <1>3, <3>1, <3>2, <3>3 DEF Streams
  <2>2. e.protocol \in {"SHADOWSOCKS", "SOCKS5", "HTTP", "HYSTERIA2"}
    BY <1>0, <2>1 DEF PlainRow, ExportedFields
  <2>3. Settled(e)
    BY <2>2 DEF Settled
  <2> QED BY <2>3 DEF e, r, l
<1> QED BY <1>1, <1>2, <1>3 DEF Stored, Kinds

\* The nodes of the panel itself are settled already.
LEMMA PanelSettled ==
  ASSUME L!PanelAssumption, NEW n \in PanelNodes, n.protocol # "ANYTLS"
  PROVE  Stored(n) /\ Settled(n)
<1>1. Stored(n)
  BY DEF L!PanelAssumption, Stored, Kinds
<1>2. (n.wsHost = L!Null \/ (n.net = "WS" /\ n.wsHost = n.domain)) /\ (n.tls = "REALITY" => n.net # "WS")
  BY DEF L!PanelAssumption
<1>3. L!Or(n.wsHost, n.domain) = n.domain
  BY <1>2 DEF L!Or
<1>4. n.net = "WS" => StreamHost(n) = Text(n.domain)
  BY <1>3 DEF StreamHost
<1> QED BY <1>1, <1>2, <1>3, <1>4 DEF Settled, Text, L!OrElse, L!Null

-----------------------------------------------------------------------------
(* TLS is not lost *)

LinkSane(l) == l.security \in {"tls", "reality"} => l.scheme \in Streams

LEMMA ProtectedRow ==
  ASSUME NEW l, NEW p \in {"HTTP", "SOCKS5"}, L!parseUri(l, p) # L!Rejected, LinkSane(l), L!Protected(l)
  PROVE  L!parseUri(l, p).tls # "NONE"
<1> DEFINE r == L!parseUri(l, p)
<1>1. \/ l.scheme \in Streams /\ ~Refused(l) /\ ParsedFields(r, l, StreamKind(l.scheme))
      \/ l.scheme \notin Streams /\ PlainRow(r, l)
  BY ParsedRow
<1> HIDE DEF r
<1>2. CASE l.scheme \in Streams /\ ~Refused(l) /\ ParsedFields(r, l, StreamKind(l.scheme))
  <2>1. r.tls = L!Security(l)
    BY <1>2 DEF ParsedFields
  <2>2. l.security \in {"tls", "reality"}
    BY <1>2 DEF L!Protected, Streams
  <2> QED BY <2>1, <2>2 DEF L!Security, r
<1>3. CASE l.scheme \notin Streams /\ PlainRow(r, l)
  BY <1>3 DEF LinkSane, L!Protected, PlainRow, r
<1> QED BY <1>1, <1>2, <1>3

LEMMA BuiltLink ==
  ASSUME NEW n, n.protocol \in Kinds
  PROVE  LET l == L!buildShareUri(n)
         IN  /\ LinkSane(l)
             /\ n.tls \in {"TLS", "REALITY"} /\ n.protocol \in {"VLESS", "VMESS", "TROJAN", "HYSTERIA2"} => L!Protected(l)
             /\ n.tls = "TLS" /\ n.protocol = "HTTP" => L!Protected(l)
<1> DEFINE l == L!buildShareUri(n)
<1>1. CASE n.protocol \in {"VLESS", "TROJAN"}
  <2>1. l.security = SecurityOf(n.tls) /\ l.scheme \in Streams
    BY <1>1, VlessLink, TrojanLink DEF StreamFields, Streams
  <2> HIDE DEF l
  <2>2. LinkSane(l) /\ (n.tls \in {"TLS", "REALITY"} => L!Protected(l))
    BY <2>1 DEF LinkSane, L!Protected, SecurityOf
  <2> QED BY <1>1, <2>2 DEF l
<1>2. CASE n.protocol = "VMESS"
  <2>1. VmessFields(l, n)
    BY <1>2, VmessLinks
  <2> HIDE DEF l
  <2>2. LinkSane(l) /\ (n.tls \in {"TLS", "REALITY"} => L!Protected(l))
    BY <2>1 DEF VmessFields, LinkSane, L!Protected, Streams
  <2> QED BY <1>2, <2>2 DEF l
<1>3. CASE n.protocol = "SHADOWSOCKS"
  <2>1. SsFields(l, n)
    BY <1>3, SsLink
  <2> HIDE DEF l
  <2>2. LinkSane(l)
    BY <2>1 DEF SsFields, Plain, LinkSane, L!Null
  <2> QED BY <1>3, <2>2 DEF l
<1>4. CASE n.protocol = "HYSTERIA2"
  <2>1. Hy2Fields(l, n)
    BY <1>4, Hy2Link
  <2> HIDE DEF l
  <2>2. LinkSane(l) /\ L!Protected(l)
    BY <2>1 DEF Hy2Fields, Plain, LinkSane, L!Protected, L!Null
  <2> QED BY <1>4, <2>2 DEF l
<1>5. CASE n.protocol \in {"SOCKS5", "HTTP"}
  <2>1. l.security = L!Null /\ (n.protocol = "HTTP" /\ n.tls = "TLS" => l.scheme = "https")
    BY <1>5, LoginScheme
  <2> HIDE DEF l
  <2>2. LinkSane(l) /\ (n.protocol = "HTTP" /\ n.tls = "TLS" => L!Protected(l))
    BY <2>1 DEF LinkSane, L!Protected, L!Null
  <2> QED BY <1>5, <2>2 DEF l
<1> QED BY <1>1, <1>2, <1>3, <1>4, <1>5 DEF Kinds

\* A protected link is given out protected again.
LEMMA StaysProtected ==
  ASSUME NEW l, NEW p \in {"HTTP", "SOCKS5"}, L!parseUri(l, p) # L!Rejected, LinkSane(l)
  PROVE  LET k == L!buildShareUri(L!Exported(L!parseUri(l, p))) IN LinkSane(k) /\ (L!Protected(l) => L!Protected(k))
<1> DEFINE r == L!parseUri(l, p)
           e == L!Exported(r)
           k == L!buildShareUri(e)
<1>1. ExportedFields(e, r) /\ Stored(e) /\ (L!Protected(l) => r.tls # "NONE")
  BY ExportedRow, ParsedStored, ProtectedRow
<1>2. \/ l.scheme \in Streams /\ ~Refused(l) /\ ParsedFields(r, l, StreamKind(l.scheme))
      \/ l.scheme \notin Streams /\ PlainRow(r, l)
  BY ParsedRow
<1> HIDE DEF e, r
<1>3. e.protocol \in Kinds /\ e.tls = r.tls /\ e.protocol = r.protocol /\ e.tls \in {"NONE", "TLS", "REALITY"}
  BY <1>1 DEF Stored, ExportedFields
<1>4. LinkSane(k)
  BY <1>3, BuiltLink
<1>5. /\ e.tls \in {"TLS", "REALITY"} /\ e.protocol \in {"VLESS", "VMESS", "TROJAN", "HYSTERIA2"} => L!Protected(k)
      /\ e.tls = "TLS" /\ e.protocol = "HTTP" => L!Protected(k)
  BY <1>3, BuiltLink
<1> HIDE DEF k
<1>6. \/ e.protocol \in {"VLESS", "VMESS", "TROJAN"}
      \/ e.protocol \in {"SHADOWSOCKS", "SOCKS5", "HTTP", "HYSTERIA2"} /\
           (e.protocol \in {"SHADOWSOCKS", "SOCKS5"} => e.tls = "NONE") /\ e.tls \in {"NONE", "TLS"}
  BY <1>2, <1>3 DEF ParsedFields, PlainRow, StreamKind
<1>7. L!Protected(l) => L!Protected(k)
  BY <1>1, <1>3, <1>5, <1>6
<1> QED BY <1>4, <1>7 DEF k, e, r

-----------------------------------------------------------------------------
(* The invariant *)

BareChoices == {"HTTP", "SOCKS5"}
LinkInv ==
    /\ hop \in Nat /\ DOMAIN shared = 1 .. hop /\ (hop > 0 => shared[hop] = given)
    /\ own /\ hop = 0 => \E n \in PanelNodes : given = L!buildShareUri(n)
    /\ hop > 0 => Short(given) = given /\ \E n : Stored(n) /\ given = L!buildShareUri(n)
    /\ hop > 1 => \E n : Stored(n) /\ Settled(n) /\ given = L!buildShareUri(n)
    /\ row # L!NotYet => \E p \in BareChoices : row = L!parseUri(given, p)
    /\ LinkSane(given)
    /\ \A i \in 2 .. hop : L!Protected(shared[i - 1]) => L!Protected(shared[i])

LEMMA LinkInit == ASSUME L!ExternalAssumption, L!Init PROVE LinkInv
<1>1. hop = 0 /\ shared = <<>> /\ row = L!NotYet
  BY DEF L!Init
<1>2. hop \in Nat /\ DOMAIN shared = 1 .. hop /\ ~(hop > 0) /\ ~(hop > 1) /\ 2 .. hop = {}
  BY <1>1
<1>3. own => \E n \in PanelNodes : given = L!buildShareUri(n)
  BY DEF L!Init
<1>4. LinkSane(given)
  <2>1. CASE given \in ForeignLinks
    BY <2>1 DEF L!ExternalAssumption, L!LinksAssumption, LinkSane, Streams
  <2>2. CASE \E n \in PanelNodes : given = L!buildShareUri(n)
    <3>1. PICK n \in PanelNodes : given = L!buildShareUri(n)
      BY <2>2
    <3>2. CASE n.protocol = "ANYTLS"
      <4>1. given = [L!Bare("anytls") EXCEPT !.pass = L!Or(n.pass, ""), !.sni = L!OrElse(n.domain, L!Null)]
        BY <3>1, <3>2 DEF L!buildShareUri
      <4> QED BY <4>1 DEF L!Bare, LinkSane, L!Null
    <3>3. CASE n.protocol # "ANYTLS"
      BY <3>1, <3>3, PanelSettled, BuiltLink DEF L!ExternalAssumption, Stored
    <3> QED BY <3>2, <3>3
  <2> QED BY <2>1, <2>2 DEF L!Init
<1> QED BY <1>1, <1>2, <1>3, <1>4 DEF LinkInv

LEMMA LinkImport == ASSUME LinkInv, L!Import PROVE LinkInv'
<1>1. row' # L!NotYet => \E p \in BareChoices : row' = L!parseUri(given', p)
  BY DEF L!Import, BareChoices
<1> QED BY <1>1 DEF LinkInv, L!Import

LEMMA SharedRow ==
  ASSUME LinkInv, L!Share
  PROVE  \E p \in BareChoices : /\ row = L!parseUri(given, p) /\ row # L!Rejected
                              /\ given' = L!buildShareUri(L!Exported(row))
                              /\ Stored(L!Exported(row))
  BY ParsedStored DEF LinkInv, L!Share, BareChoices

LEMMA LinkShare == ASSUME LinkInv, L!Share PROVE LinkInv'
<1>1. PICK p \in BareChoices : /\ row = L!parseUri(given, p) /\ row # L!Rejected /\ given' = L!buildShareUri(L!Exported(row))
                               /\ Stored(L!Exported(row))
  BY SharedRow
<1>2. hop \in Nat /\ hop' = hop + 1 /\ row' = L!NotYet /\ shared' = [i \in 1 .. hop + 1 |-> IF i <= hop THEN shared[i] ELSE given']
  BY DEF L!Share, LinkInv
<1>3. hop' \in Nat /\ DOMAIN shared' = 1 .. hop' /\ shared'[hop'] = given' /\ hop' > 0
  BY <1>2
<1>4. hop' > 1 => Settled(L!Exported(row))
  <2>1. SUFFICES ASSUME hop > 0 PROVE Settled(L!Exported(row))
    BY <1>2
  <2>2. PICK n : Stored(n) /\ given = L!buildShareUri(n)
    BY <2>1 DEF LinkInv
  <2> QED BY <1>1, <2>2, OnceSettles DEF BareChoices
<1>5. LinkSane(given') /\ (L!Protected(given) => L!Protected(given'))
  BY <1>1, StaysProtected DEF LinkInv, BareChoices
<1>6. \A i \in 2 .. hop' : L!Protected(shared'[i - 1]) => L!Protected(shared'[i])
  <2> SUFFICES ASSUME NEW i \in 2 .. hop' PROVE L!Protected(shared'[i - 1]) => L!Protected(shared'[i])
    OBVIOUS
  <2>1. i \in Nat /\ i - 1 \in Nat /\ i - 1 >= 1 /\ i - 1 <= hop /\ i <= hop + 1 /\ i >= 2
    <3>1. hop \in Nat /\ hop' = hop + 1
      BY <1>2
    <3>2. i \in 2 .. hop + 1
      BY <3>1
    <3> QED BY <3>1, <3>2
  <2>2. shared'[i - 1] = shared[i - 1]
    BY <1>2, <2>1
  <2>3. CASE i <= hop
    <3>1. shared'[i] = shared[i] /\ i \in 2 .. hop
      BY <1>2, <2>1, <2>3
    <3> QED BY <2>2, <3>1 DEF LinkInv
  <2>4. CASE i = hop + 1
    <3>1. shared'[i] = given' /\ i - 1 = hop /\ hop > 0
      BY <1>2, <2>1, <2>4
    <3>2. shared[hop] = given
      BY <3>1 DEF LinkInv
    <3> QED BY <1>5, <2>2, <3>1, <3>2
  <2> QED BY <1>2, <2>1, <2>3, <2>4
<1>7. Short(given') = given' /\ \E n : Stored(n) /\ given' = L!buildShareUri(n)
  BY <1>1, NoAlpn DEF Stored
<1>8. hop' > 1 => \E n : Stored(n) /\ Settled(n) /\ given' = L!buildShareUri(n)
  BY <1>1, <1>4
<1>9. ~(own' /\ hop' = 0)
  BY <1>2
<1> QED BY <1>2, <1>3, <1>5, <1>6, <1>7, <1>8, <1>9 DEF LinkInv

LEMMA LinkAlways == ASSUME L!ExternalAssumption PROVE L!Spec => []LinkInv
<1>1. LinkInv /\ [L!Next]_(L!vars) => LinkInv'
  <2> SUFFICES ASSUME LinkInv, [L!Next]_(L!vars) PROVE LinkInv'
    OBVIOUS
  <2>1. CASE L!Import
    BY <2>1, LinkImport
  <2>2. CASE L!Share
    BY <2>2, LinkShare
  <2>3. CASE UNCHANGED L!vars
    BY <2>3 DEF L!vars, LinkInv
  <2> QED BY <2>1, <2>2, <2>3 DEF L!Next
<1> QED BY LinkInit, <1>1, PTL DEF L!Spec

\* OwnLinksAccepted and NeverWithoutTls (uri-parser, uri-builder): what the panel built
\* itself, for a node of its own or for one that it had imported, it can import again,
\* AnyTLS links excepted; and a node that came behind TLS or REALITY is stored and given
\* out behind one of them, however often it goes round.
THEOREM LinksAreKept == ASSUME L!ExternalAssumption PROVE L!Spec => [](L!OwnLinksAccepted /\ L!NeverWithoutTls)
<1>1. LinkInv => L!OwnLinksAccepted
  <2> SUFFICES ASSUME LinkInv, own \/ hop > 0, row = L!Rejected PROVE given.scheme = "anytls"
    BY DEF L!OwnLinksAccepted
  <2>1. PICK p \in BareChoices : row = L!parseUri(given, p)
    BY DEF LinkInv, L!Rejected, L!NotYet
  <2>2. CASE hop > 0
    BY <2>1, <2>2, StoredTaken DEF LinkInv, BareChoices
  <2>3. CASE ~(hop > 0)
    <3>1. PICK n \in PanelNodes : given = L!buildShareUri(n)
      BY <2>3 DEF LinkInv
    <3>2. n.protocol = "ANYTLS"
      BY <2>1, <3>1, StoredTaken, PanelSettled DEF L!ExternalAssumption, BareChoices
    <3> QED BY <3>1, <3>2 DEF L!buildShareUri, L!Bare
  <2> QED BY <2>2, <2>3
<1>2. LinkInv => L!NeverWithoutTls
  <2> SUFFICES ASSUME LinkInv PROVE L!NeverWithoutTls
    OBVIOUS
  <2>1. ASSUME L!Accepted, L!Protected(given) PROVE row.tls # "NONE"
    BY <2>1, ProtectedRow DEF LinkInv, L!Accepted, L!Imported, BareChoices
  <2> QED BY <2>1 DEF LinkInv, L!NeverWithoutTls
<1> QED BY LinkAlways, <1>1, <1>2, PTL

\* SameLink (uri-parser, external-nodes.service.ts, uri-builder): a node of the panel that
\* is imported by its link is given out with that link, field by field, but for the ALPN of
\* a CDN XHTTP node: the parser does not read it.
THEOREM LinkComesBack == ASSUME L!ExternalAssumption PROVE L!Spec => [][L!SameLink]_(L!vars)
<1>1. ASSUME LinkInv, L!Next, own, hop' = 1, hop = 0 PROVE given' = Short(given)
  <2>1. L!Share
    BY <1>1 DEF L!Next, L!Import
  <2>2. PICK p \in BareChoices : row = L!parseUri(given, p) /\ row # L!Rejected /\ given' = L!buildShareUri(L!Exported(row))
    BY <1>1, <2>1, SharedRow
  <2>3. PICK n \in PanelNodes : given = L!buildShareUri(n)
    BY <1>1 DEF LinkInv
  <2>4. n.protocol # "ANYTLS"
    <3> SUFFICES ASSUME n.protocol = "ANYTLS" PROVE FALSE
      OBVIOUS
    <3>1. given.scheme = "anytls"
      BY <2>3 DEF L!buildShareUri, L!Bare
    <3> QED BY <2>2, <3>1 DEF L!parseUri
  <2>5. Short(given') = Short(given)
    BY <2>2, <2>3, <2>4, PanelSettled, RoundTrip DEF SameOnceMore, L!ExternalAssumption, BareChoices
  <2>6. Short(given') = given'
    BY <1>1, <2>1, LinkShare DEF LinkInv
  <2> QED BY <2>5, <2>6
<1> QED BY LinkAlways, <1>1, PTL DEF L!Spec, L!SameLink, Short

\* Settles (uri-parser, uri-builder): after two imports the link does not change any more.
THEOREM LinkSettles == ASSUME L!ExternalAssumption PROVE L!Spec => [][L!Settles]_(L!vars)
<1>1. ASSUME LinkInv, L!Next, hop' > 2, hop' > hop PROVE given' = given
  <2>1. L!Share /\ hop > 1
    BY <1>1 DEF L!Next, L!Import, L!Share, LinkInv
  <2>2. PICK p \in BareChoices : row = L!parseUri(given, p) /\ row # L!Rejected /\ given' = L!buildShareUri(L!Exported(row))
    BY <1>1, <2>1, SharedRow
  <2>3. PICK n : Stored(n) /\ Settled(n) /\ given = L!buildShareUri(n)
    BY <1>1, <2>1 DEF LinkInv
  <2>4. Short(given') = Short(given)
    BY <2>2, <2>3, RoundTrip DEF SameOnceMore, BareChoices
  <2>5. Short(given) = given /\ Short(given') = given'
    BY <1>1, <2>1, LinkShare DEF LinkInv, L!Share
  <2> QED BY <2>4, <2>5
<1> QED BY LinkAlways, <1>1, PTL DEF L!Spec, L!Settles
==============================================================================
