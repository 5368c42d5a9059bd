----------------------- MODULE DeployTransactionProofs -----------------------
(***************************************************************************)
(* A deployment keeps its promises for any number of failed commands and   *)
(* lost answers, for direct, chained and legacy nodes. The invariant says  *)
(* how far the deployment has come: before it fails, the parts it has      *)
(* passed are new and the others old; once it takes back, a part that it   *)
(* holds no more is old, unless the answer of its command was lost or the  *)
(* failure was flagged, and every file that is not old has its copy.       *)
(***************************************************************************)
EXTENDS DeployTransaction, TLAPS

-----------------------------------------------------------------------------
(* The order of the steps *)

LEMMA PartNames ==
    Parts = {"cert", "exit", "exitOwner", "exitWall", "entry", "wall", "owner"}
  <1>1. Steps \in Seq({"cert", "exit", "exitOwner", "exitWall", "entry", "wall", "owner"}) /\ Len(Steps) = 7
    BY DEF Steps
  <1>2. ToSet(Steps) = {Steps[i] : i \in 1 .. 7}
    BY <1>1 DEF ToSet
  <1>3. /\ Steps[1] = "cert" /\ Steps[2] = "exit" /\ Steps[3] = "exitOwner" /\ Steps[4] = "exitWall"
        /\ Steps[5] = "entry" /\ Steps[6] = "wall" /\ Steps[7] = "owner"
    BY DEF Steps
  <1>4. \A i \in 1 .. 7 : i = 1 \/ i = 2 \/ i = 3 \/ i = 4 \/ i = 5 \/ i = 6 \/ i = 7
    OBVIOUS
  <1> QED BY <1>2, <1>3, <1>4 DEF Parts

\* The place of a part in an order of all of them.
Place(order, p) == CHOOSE i \in 1 .. 7 : order[i] = p
Order(order) ==
    /\ DOMAIN order = 1 .. 7
    /\ \A i \in 1 .. 7 : order[i] \in Parts
    /\ \A i, j \in 1 .. 7 : order[i] = order[j] => i = j
    /\ \A p \in Parts : \E i \in 1 .. 7 : order[i] = p

LEMMA Orders == Order(Steps) /\ Order(UndoOrder)
  <1>1. DOMAIN Steps = 1 .. 7 /\ DOMAIN UndoOrder = 1 .. 7
    BY DEF Steps, UndoOrder
  <1>2. /\ Steps[1] = "cert" /\ Steps[2] = "exit" /\ Steps[3] = "exitOwner" /\ Steps[4] = "exitWall"
        /\ Steps[5] = "entry" /\ Steps[6] = "wall" /\ Steps[7] = "owner"
    BY DEF Steps
  <1>3. /\ UndoOrder[1] = "owner" /\ UndoOrder[2] = "wall" /\ UndoOrder[3] = "cert" /\ UndoOrder[4] = "entry"
        /\ UndoOrder[5] = "exitWall" /\ UndoOrder[6] = "exitOwner" /\ UndoOrder[7] = "exit"
    BY DEF UndoOrder
  <1>4. \A i \in 1 .. 7 : i = 1 \/ i = 2 \/ i = 3 \/ i = 4 \/ i = 5 \/ i = 6 \/ i = 7
    OBVIOUS
  <1>5. Order(Steps)
    <2>1. \A i \in 1 .. 7 : Steps[i] \in Parts
      BY <1>2, <1>4, PartNames
    <2>2. \A i, j \in 1 .. 7 : Steps[i] = Steps[j] => i = j
      BY <1>2, <1>4
    <2>3. \A p \in Parts : \E i \in 1 .. 7 : Steps[i] = p
      BY <1>2, PartNames
    <2> QED BY <1>1, <2>1, <2>2, <2>3 DEF Order
  <1>6. Order(UndoOrder)
    <2>1. \A i \in 1 .. 7 : UndoOrder[i] \in Parts
      BY <1>3, <1>4, PartNames
    <2>2. \A i, j \in 1 .. 7 : UndoOrder[i] = UndoOrder[j] => i = j
      BY <1>3, <1>4
    <2>3. \A p \in Parts : \E i \in 1 .. 7 : UndoOrder[i] = p
      BY <1>3, PartNames
    <2> QED BY <1>1, <2>1, <2>2, <2>3 DEF Order
  <1> QED BY <1>5, <1>6

LEMMA Places ==
    ASSUME NEW order, Order(order), NEW p \in Parts, NEW q \in Parts
    PROVE  /\ Place(order, p) \in 1 .. 7
           /\ order[Place(order, p)] = p
           /\ Place(order, p) = Place(order, q) => p = q
           /\ Precedes(order, p, q) <=> Place(order, p) < Place(order, q)
  <1>1. \A x \in Parts : Place(order, x) \in 1 .. 7 /\ order[Place(order, x)] = x
    BY DEF Order, Place
  <1>2. \A x \in Parts, i \in 1 .. 7 : order[i] = x => i = Place(order, x)
    BY <1>1 DEF Order
  <1>3. Precedes(order, p, q) <=> Place(order, p) < Place(order, q)
    BY <1>1, <1>2 DEF Precedes, Order
  <1> QED BY <1>1, <1>3

\* First takes the part that precedes the others.
LEMMA FirstOf ==
    ASSUME NEW order, Order(order), NEW set \in SUBSET Parts, set # {}
    PROVE  /\ First(order, set) \in set
           /\ \A q \in set \ {First(order, set)} : Precedes(order, First(order, set), q)
  <1> DEFINE in(i) == i \in 1 .. 7 /\ order[i] \in set
  <1>1. \E i \in 1 .. 7 : in(i) /\ \A j \in 1 .. 7 : in(j) => i <= j
    <2>1. \E i \in 1 .. 7 : in(i)
      BY DEF Order
    <2>2. in(1) \/ in(2) \/ in(3) \/ in(4) \/ in(5) \/ in(6) \/ in(7)
      BY <2>1
    <2> QED BY <2>2
  <1>2. PICK i \in 1 .. 7 : order[i] \in set /\ \A j \in 1 .. 7 : order[j] \in set => i <= j
    BY <1>1
  <1>3. \A q \in set \ {order[i]} : Precedes(order, order[i], q)
    <2> SUFFICES ASSUME NEW q \in set, q # order[i] PROVE Precedes(order, order[i], q)
      OBVIOUS
    <2>1. PICK j \in 1 .. 7 : order[j] = q
      BY DEF Order
    <2>2. i < j
      BY <1>2, <2>1
    <2> QED BY <2>1, <2>2 DEF Precedes, Order
  <1> QED BY <1>2, <1>3 DEF First

-----------------------------------------------------------------------------
(* The invariant *)

Shape == uses \in {Parts, Parts \ {"cert"}, Parts \ ChainParts}

Passed(p) == {q \in uses : Precedes(Steps, q, p)}

\* Nothing has failed yet: what was passed is new, and the rest is old.
Forward ==
    /\ at \in Parts => at \in uses /\ held = Passed(at)
    /\ at \in {"finalize", "commit"} => held = uses
    /\ at = "generate" => held = {}
    /\ at \in Parts \cup {"generate", "finalize", "commit"} =>
         /\ ~flagged /\ lost = {} /\ saved = held \cap Files
         /\ \A p \in Parts : value[p] = IF p \in held THEN "new" ELSE "old"

\* The way back is open: what is not held any more is old, or somebody knows.
Backward ==
    /\ lost \cap Files = {}
    /\ \A p \in Parts \ uses : value[p] = "old"
    /\ answer # "ok" =>
         /\ held \cap Files \subseteq saved
         /\ \A p \in Files : value[p] = "old" \/ p \in saved
         /\ \A p \in Parts : value[p] = "old" \/ p \in held \cup lost \/ flagged

\* What is answered, said and restored.
Told ==
    /\ at \in Parts \cup {"generate", "finalize", "commit", "undo"} => answer = "none"
    /\ answer # "none" => held = {}
    /\ answer = "ok" => \A p \in uses : value[p] = "new"
    /\ answer \in {"failed", "thrown"} => ~flagged
    /\ at = "unlock" => answer # "none"
    /\ IF at = "done" THEN said = "flagged" \/ (said = answer /\ said \in {"ok", "failed", "thrown"})
                      ELSE said = "none"
    /\ row = "old" => replied /\ said \in Restorable

\* A deployment that made half a self-signed pair ends there.
Half ==
    pair = "mixed" =>
        held = {} /\ at \in {"undo", "unlock", "done", "dead"} /\ \A p \in Parts : value[p] = "old"

IInv == TypeOK /\ Shape /\ Forward /\ Backward /\ Told /\ Half

LEMMA FileNames ==
    /\ Files \subseteq Parts /\ ChainParts \subseteq Parts
    /\ "entry" \in Files /\ "entry" \notin ChainParts
    /\ \A p \in Parts : p \notin {"generate", "finalize", "commit", "undo", "unlock", "done", "dead"}
  BY PartNames DEF Files, ChainParts

\* The step after a part: what was passed then is what was passed before, and the part.
LEMMA AfterPart ==
    ASSUME uses \subseteq Parts, NEW p \in uses
    PROVE  /\ After(p) \in uses => Passed(After(p)) = Passed(p) \cup {p}
           /\ After(p) \in uses \/ (After(p) = "finalize" /\ Passed(p) \cup {p} = uses)
  <1> DEFINE rest == {q \in uses : Precedes(Steps, p, q)}
  <1>0. Order(Steps)
    BY Orders
  <1>1. \A q, r \in Parts :
          /\ Place(Steps, q) \in 1 .. 7
          /\ Place(Steps, q) = Place(Steps, r) => q = r
          /\ Precedes(Steps, q, r) <=> Place(Steps, q) < Place(Steps, r)
    BY <1>0, Places
  <1>2. CASE rest = {}
    <2>1. After(p) = "finalize"
      BY <1>2 DEF After
    <2>2. \A q \in uses : q = p \/ Precedes(Steps, q, p)
      BY <1>1, <1>2
    <2>3. "finalize" \notin uses
      BY FileNames
    <2> QED BY <2>1, <2>2, <2>3 DEF Passed
  <1>3. CASE rest # {}
    <2>1. After(p) = First(Steps, rest)
      BY <1>3 DEF After
    <2>2. After(p) \in rest /\ \A q \in rest \ {After(p)} : Precedes(Steps, After(p), q)
      BY <1>0, <1>3, <2>1, FirstOf
    <2>3. \A q \in uses : Precedes(Steps, q, After(p)) <=> q = p \/ Precedes(Steps, q, p)
      BY <1>1, <2>2
    <2> QED BY <2>2, <2>3 DEF Passed
  <1> QED BY <1>2, <1>3

LEMMA FirstStep ==
    ASSUME uses \in SUBSET Parts, uses # {}
    PROVE  First(Steps, uses) \in uses /\ Passed(First(Steps, uses)) = {}
  <1> DEFINE f == First(Steps, uses)
  <1>1. f \in uses /\ \A q \in uses \ {f} : Precedes(Steps, f, q)
    BY Orders, FirstOf
  <1> HIDE DEF f
  <1>2. \A q \in uses : ~Precedes(Steps, q, f)
    <2> TAKE q \in uses
    <2>1. Place(Steps, q) \in 1 .. 7 /\ Place(Steps, f) \in 1 .. 7
      BY <1>1, Orders, Places
    <2>2. CASE q = f
      BY <1>1, <2>1, <2>2, Orders, Places
    <2>3. CASE q # f
      <3>1. Place(Steps, f) < Place(Steps, q)
        BY <1>1, <2>3, Orders, Places
      <3> QED BY <1>1, <2>1, <3>1, Orders, Places
    <2> QED BY <2>2, <2>3
  <1> QED BY <1>1, <1>2 DEF Passed, f

LEMMA InitSafe == ASSUME DeployAssumption, Init PROVE IInv
  <1>1. uses \in SUBSET Parts /\ uses # {}
    BY PartNames, FileNames DEF Init
  <1>2. at \in uses \cup {"generate"} /\ (at # "generate" => Passed(at) = {})
    BY <1>1, FirstStep DEF Init
  <1>3. TypeOK
    <2>1. at \in Parts \cup {"generate"}
      BY <1>1, <1>2
    <2>2. faults \in 0 .. MaxFaults /\ value \in [Parts -> {"old", "new", "mixed"}]
      BY DEF Init, DeployAssumption
    <2> QED BY <1>1, <2>1, <2>2 DEF Init, TypeOK
  <1>5. Shape
    BY DEF Init, Shape
  <1>4. Forward /\ Backward /\ Told /\ Half
    BY <1>1, <1>2, FileNames DEF Init, Forward, Backward, Told, Half
  <1> QED BY <1>3, <1>4, <1>5 DEF IInv

-----------------------------------------------------------------------------
(* The steps *)

LEMMA FaultType == ASSUME TypeOK, DeployAssumption, Fault PROVE faults' \in 0 .. MaxFaults
  BY DEF TypeOK, DeployAssumption, Fault


LEMMA GenerateSafe ==
    ASSUME IInv, DeployAssumption, Generate \/ GenerateFails PROVE IInv' /\ OldServiceOldCert
  <1> USE FileNames DEF caller
  <1>1. /\ at = "generate" /\ held = {} /\ answer = "none" /\ ~flagged /\ lost = {} /\ saved = {}
        /\ \A p \in Parts : value[p] = "old"
        /\ UNCHANGED <<uses, value, saved, held, lost, flagged, answer, said, status, row, dns, replied>>
    BY DEF Generate, GenerateFails, IInv, Forward, Told
  <1>2. uses \in SUBSET Parts /\ uses # {}
    BY PartNames DEF IInv, Shape, ChainParts
  <1>3. \/ at' \in uses /\ Passed(at') = {} /\ pair' = "new" /\ UNCHANGED faults
        \/ at' = "undo" /\ pair' \in {"old", "mixed", "new"} /\ faults' \in 0 .. MaxFaults
    BY <1>2, FirstStep, FaultType DEF Generate, GenerateFails, IInv
  <1>4. TypeOK' /\ Shape'
    BY <1>1, <1>2, <1>3 DEF IInv, TypeOK, Shape
  <1>5. Forward'
    <2>1. at' \in Parts => at' \in uses' /\ held' = {q \in uses' : Precedes(Steps, q, at')}
      BY <1>1, <1>3 DEF Passed
    <2> QED BY <1>1, <1>2, <1>3, <2>1 DEF Forward, Passed
  <1>6. Backward' /\ Told' /\ Half'
    BY <1>1, <1>2, <1>3 DEF IInv, Backward, Told, Half
  <1>7. OldServiceOldCert
    BY <1>1, PartNames DEF OldServiceOldCert
  <1> QED BY <1>4, <1>5, <1>6, <1>7 DEF IInv

LEMMA ChangeSafe ==
    ASSUME IInv, DeployAssumption, NEW p \in Parts, Change(p) PROVE IInv' /\ OldServiceOldCert
  <1> DEFINE next == After(p)
  <1>1. p \in uses /\ uses \subseteq Parts /\ at = p /\ held = Passed(p)
    BY DEF Change, IInv, Forward, TypeOK
  <1>2. /\ next \in uses => Passed(next) = held \cup {p}
        /\ next \in uses \/ (next = "finalize" /\ held \cup {p} = uses)
    BY <1>1, AfterPart
  <1>3. /\ value' = [value EXCEPT ![p] = "new"] /\ saved' = saved \cup ({p} \cap Files)
        /\ held' = held \cup {p} /\ at' = next
        /\ UNCHANGED <<uses, pair, lost, flagged, answer, said, status, row, dns, replied, faults>>
    BY DEF Change, Put, KeepCopy, caller
  <1> HIDE DEF next
  <1>4. TypeOK'
    BY <1>1, <1>2, <1>3, FileNames DEF IInv, TypeOK
  <1>5. Shape'
    BY <1>3 DEF IInv, Shape
  <1>7. Forward'
    <2>1. ~flagged /\ lost = {} /\ saved = held \cap Files
          /\ \A q \in Parts : value[q] = IF q \in held THEN "new" ELSE "old"
      BY <1>1 DEF IInv, Forward
    <2>2. \A q \in Parts : value'[q] = IF q \in held' THEN "new" ELSE "old"
      BY <1>3, <2>1 DEF IInv, TypeOK
    <2>3. at' \in Parts => at' \in uses' /\ held' = {q \in uses' : Precedes(Steps, q, at')}
      BY <1>2, <1>3, FileNames DEF Passed
    <2>4. at' \in {"finalize", "commit"} => held' = uses'
      BY <1>1, <1>2, <1>3, FileNames
    <2>5. at' # "generate"
      BY <1>1, <1>2, <1>3, FileNames
    <2> QED BY <1>3, <2>1, <2>2, <2>3, <2>4, <2>5 DEF Forward, Passed
  <1>8. Backward'
    BY <1>1, <1>3, FileNames DEF IInv, TypeOK, Backward
  <1>9. Told'
    BY <1>1, <1>2, <1>3, FileNames DEF IInv, Told
  <1>10. OldServiceOldCert
    BY <1>3, FileNames DEF IInv, TypeOK, OldServiceOldCert
  <1>11. Half'
    BY <1>1, <1>3, FileNames DEF IInv, Half
  <1> QED BY <1>4, <1>5, <1>7, <1>8, <1>9, <1>10, <1>11 DEF IInv

\* What every failing command does: nothing that it cannot tell of is left behind.
Behind ==
    /\ \A p \in Parts \ uses : value'[p] = "old"
    /\ value' \in [Parts -> {"old", "new", "mixed"}]
    /\ saved' \subseteq Files \cap uses /\ held' \subseteq uses /\ lost' \subseteq uses /\ lost' \cap Files = {}
    /\ flagged' \in BOOLEAN
    /\ held' \cap Files \subseteq saved'
    /\ \A p \in Files : value'[p] = "old" \/ p \in saved'
    /\ \A p \in Parts : value'[p] = "old" \/ p \in held' \cup lost' \/ flagged'

\* While nothing has failed, what is at hand is the part that fails.
Underway(p) ==
    /\ p \in uses /\ uses \subseteq Parts /\ p \notin held /\ held \subseteq uses
    /\ value \in [Parts -> {"old", "new", "mixed"}]
    /\ flagged = FALSE /\ lost = {} /\ saved = held \cap Files
    /\ \A q \in Parts : value[q] = IF q \in held THEN "new" ELSE "old"
    /\ pair # "mixed"

LEMMA AtPart ==
    ASSUME IInv, NEW p \in Parts, at = p PROVE Underway(p)
  <1>1. p \in uses /\ held = Passed(p) /\ uses \subseteq Parts
    BY DEF IInv, Forward, TypeOK
  <1>2. ~Precedes(Steps, p, p)
    BY Orders, Places
  <1>3. p \notin held
    BY <1>1, <1>2 DEF Passed
  <1>4. pair # "mixed"
    BY FileNames DEF IInv, Half
  <1> QED BY <1>1, <1>3, <1>4 DEF IInv, Forward, TypeOK, Underway

LEMMA FilePart == Files = {"cert", "exit", "entry"} /\ \A p \in {"wall", "exitWall", "owner", "exitOwner"} : p \in Parts \ Files
  BY PartNames DEF Files

LEMMA FileFailsBehind ==
    ASSUME NEW p \in Parts, Underway(p), FileFails(p), UNCHANGED <<uses, pair>> PROVE Behind /\ OldServiceOldCert
  <1> USE FileNames, FilePart DEF Underway, Behind, OldServiceOldCert, Put
  <1>1. p \in Files \ {"entry"} /\ UNCHANGED <<held, lost>> /\ OwnUndo(p)
    BY DEF FileFails
  <1>2. CASE value' = [value EXCEPT ![p] = "old"] /\ saved' = saved \ {p} /\ UNCHANGED flagged
    BY <1>1, <1>2
  <1>3. CASE value' = [value EXCEPT ![p] = "mixed"] /\ saved' = saved \cup {p} /\ flagged' = TRUE
    BY <1>1, <1>3
  <1> QED BY <1>1, <1>2, <1>3 DEF OwnUndo

LEMMA ExitOwnerFailsBehind ==
    ASSUME Underway("exitOwner"), Shape, ExitOwnerFails, UNCHANGED <<uses, pair>> PROVE Behind /\ OldServiceOldCert
  <1> USE FileNames, FilePart DEF Underway, Behind, OldServiceOldCert, Put
  <1>1. "exit" \in uses
    BY PartNames DEF Shape, ChainParts
  <1>2. held' = held \ {"exit"} /\ UNCHANGED lost /\ OwnUndo("exit")
    BY DEF ExitOwnerFails
  <1>3. CASE value' = [value EXCEPT !["exit"] = "old"] /\ saved' = saved \ {"exit"} /\ UNCHANGED flagged
    BY <1>1, <1>2, <1>3
  <1>4. CASE value' = [value EXCEPT !["exit"] = "mixed"] /\ saved' = saved \cup {"exit"} /\ flagged' = TRUE
    BY <1>1, <1>2, <1>4
  <1> QED BY <1>2, <1>3, <1>4 DEF OwnUndo

LEMMA OtherFailsBehind ==
    ASSUME NEW p \in Parts, Underway(p), at = p, UNCHANGED <<uses, pair>>,
           EntryFails \/ WallFails(p) \/ OwnerFails \/ AnswerLost(p)
    PROVE  Behind /\ OldServiceOldCert
  <1> USE FileNames, FilePart DEF Underway, Behind, OldServiceOldCert, Put
  <1>1. CASE EntryFails
    <2>1. CASE UNCHANGED <<value, saved, held, lost, flagged>>
      BY <2>1
    <2>2. ASSUME NEW v \in {"mixed", "new"}, value' = [value EXCEPT !["entry"] = v],
                 saved' = saved \cup {"entry"}, held' = held \cup {"entry"}, UNCHANGED <<lost, flagged>>
          PROVE  Behind /\ OldServiceOldCert
      <3>1. p = "entry" /\ value' \in [Parts -> {"old", "new", "mixed"}]
        BY <1>1, <2>2 DEF EntryFails
      <3>2. \A q \in Parts \ {p} : value'[q] = value[q]
        BY <2>2, <3>1
      <3>3. lost' = lost /\ flagged' = FALSE /\ value["entry"] = "old"
        BY <2>2, <3>1
      <3> HIDE DEF Underway
      <3>4. /\ p \in uses /\ uses \subseteq Parts /\ held \subseteq uses /\ lost = {} /\ saved = held \cap Files
            /\ \A q \in Parts : value[q] = IF q \in held THEN "new" ELSE "old"
        BY DEF Underway
      <3>5. held' = held \cup {p} /\ saved' = saved \cup {p} /\ p \in Files
        BY <2>2, <3>1
      <3>6. /\ held' \subseteq uses' /\ saved' \subseteq Files \cap uses' /\ held' \cap Files \subseteq saved'
            /\ lost' = {} /\ flagged' \in BOOLEAN
        BY <3>3, <3>4, <3>5
      <3>7. /\ \A q \in Parts \ uses' : value'[q] = "old"
            /\ \A q \in Parts : value'[q] = "old" \/ q \in held'
        BY <3>2, <3>4, <3>5
      <3>8. \A q \in Files : value'[q] = "old" \/ q \in saved'
        BY <3>4, <3>5, <3>7
      <3>9. Behind
        BY <3>1, <3>6, <3>7, <3>8
      <3> QED BY <3>3, <3>9
    <2> QED BY <1>1, <2>1, <2>2 DEF EntryFails
  <1>2. CASE WallFails(p)
    <2>1. CASE UNCHANGED <<value, flagged>>
      BY <1>2, <2>1 DEF WallFails
    <2>2. CASE value' = [value EXCEPT ![p] = "new"] /\ flagged' = TRUE
      BY <1>2, <2>2 DEF WallFails
    <2> QED BY <1>2, <2>1, <2>2 DEF WallFails
  <1>3. CASE OwnerFails
    BY <1>3 DEF OwnerFails
  <1>4. CASE AnswerLost(p)
    <2>1. p \notin Files /\ lost' = lost \cup {p} /\ UNCHANGED flagged
      BY <1>4 DEF AnswerLost
    <2>2. CASE p = "exitOwner"
      <3>1. value' = [value EXCEPT ![p] = "new", !["exit"] = "old"]
            /\ held' = held \ {"exit"} /\ saved' = saved \ {"exit"}
        BY <1>4, <2>2 DEF AnswerLost
      <3> QED BY <2>1, <3>1
    <2>3. CASE p # "exitOwner"
      <3>1. value' = [value EXCEPT ![p] = "new"] /\ UNCHANGED <<held, saved>>
        BY <1>4, <2>3 DEF AnswerLost
      <3> QED BY <2>1, <3>1
    <2> QED BY <2>2, <2>3
  <1> QED BY <1>1, <1>2, <1>3, <1>4

LEMMA FailsSafe ==
    ASSUME IInv, DeployAssumption, Fails PROVE IInv' /\ OldServiceOldCert
  <1>1. at \in Parts /\ Underway(at) /\ Shape /\ Fault
        /\ \/ FileFails(at) \/ WallFails(at) \/ AnswerLost(at)
           \/ ExitOwnerFails \/ EntryFails \/ OwnerFails
    <2>1. at \in Parts /\ Fault
          /\ \/ FileFails(at) \/ WallFails(at) \/ AnswerLost(at)
             \/ ExitOwnerFails \/ EntryFails \/ OwnerFails
      BY PartNames DEF Fails, FileFails, WallFails, AnswerLost, ExitOwnerFails, EntryFails, OwnerFails
    <2> QED BY <2>1, AtPart DEF IInv
  <1>2. at' = "undo" /\ UNCHANGED <<uses, pair, answer, said, status, row, dns, replied>>
    BY DEF Fails, caller
  <1>3. Behind /\ OldServiceOldCert
    BY <1>1, <1>2, FileFailsBehind, ExitOwnerFailsBehind, OtherFailsBehind DEF ExitOwnerFails
  <1>4. faults' \in 0 .. MaxFaults
    BY <1>1, FaultType DEF IInv
  <1>5. answer = "none"
    BY <1>1 DEF IInv, Told
  <1>6. TypeOK' /\ Shape'
    BY <1>2, <1>3, <1>4 DEF IInv, TypeOK, Shape, Behind
  <1>7. Forward' /\ Backward'
    BY <1>2, <1>3, FileNames DEF Forward, Backward, Behind
  <1>8. Told' /\ Half'
    BY <1>1, <1>2, <1>5, FileNames DEF IInv, Told, Half, Underway
  <1> QED BY <1>3, <1>6, <1>7, <1>8 DEF IInv

\* A failed acceptance, or a finalization that fails, holds what was made so far.
LEMMA HoldsSafe ==
    ASSUME IInv, DeployAssumption, NotAccepted \/ Finalize \/ Commit PROVE IInv' /\ OldServiceOldCert
  <1> USE FileNames DEF caller
  <1>1. OldServiceOldCert
    BY DEF NotAccepted, Finalize, Commit, OldServiceOldCert
  <1>2. /\ at \in Parts \cup {"finalize", "commit"} /\ answer = "none"
        /\ UNCHANGED <<uses, pair, value, lost, flagged, said, row, dns, replied>>
    BY PartNames DEF NotAccepted, Finalize, Commit, IInv, Told
  <1>5. Half'
    BY <1>2 DEF IInv, Half
  <1>3. CASE NotAccepted \/ Finalize
    <2>1. /\ at' \in {"undo", "commit"} /\ (at' = "commit" => at = "finalize")
          /\ UNCHANGED <<saved, held, answer>> /\ status' \in {"old", "RUNNING", "ERROR"}
          /\ faults' \in 0 .. MaxFaults
      BY <1>3, FaultType DEF NotAccepted, Finalize, IInv, TypeOK
    <2>2. TypeOK' /\ Shape'
      BY <1>2, <2>1 DEF IInv, TypeOK, Shape
    <2>3. Forward' /\ Backward'
      BY <1>2, <2>1 DEF IInv, Forward, Backward
    <2>4. Told'
      BY <1>2, <2>1 DEF IInv, Told
    <2> QED BY <1>1, <1>5, <2>2, <2>3, <2>4 DEF IInv
  <1>4. CASE Commit
    <2>1. /\ at = "commit" /\ at' = "unlock" /\ saved' = {} /\ held' = {} /\ answer' = "ok"
          /\ UNCHANGED <<status, faults>>
      BY <1>4 DEF Commit, DropCopies
    <2>2. held = uses /\ uses \subseteq Parts /\ \A p \in uses : value[p] = "new"
      BY <2>1 DEF IInv, Forward, TypeOK
    <2>3. TypeOK' /\ Shape'
      BY <1>2, <2>1 DEF IInv, TypeOK, Shape
    <2>4. Forward' /\ Backward'
      BY <1>2, <2>1 DEF IInv, Forward, Backward
    <2>5. Told'
      BY <1>2, <2>1, <2>2 DEF IInv, Told
    <2> QED BY <1>1, <1>5, <2>3, <2>4, <2>5 DEF IInv
  <1> QED BY <1>3, <1>4

\* The certificate is taken back before the entry is.
LEMMA CertFirst ==
    ASSUME held \subseteq Parts, held # {}, First(UndoSequence, held) = "entry" PROVE "cert" \notin held
  <1>1. \A q \in held \ {"entry"} : Precedes(UndoOrder, "entry", q)
    BY Orders, FirstOf DEF UndoSequence
  <1>2. ~Precedes(UndoOrder, "entry", "cert")
    <2>1. UndoOrder[3] = "cert" /\ UndoOrder[4] = "entry"
      BY DEF UndoOrder
    <2>2. \A i, j \in 1 .. 7 : UndoOrder[i] = "entry" /\ UndoOrder[j] = "cert" => i = 4 /\ j = 3
      BY <2>1, Orders DEF Order
    <2> QED BY <2>2, Orders DEF Precedes, Order
  <1> QED BY <1>1, <1>2

LEMMA TakeBackSafe ==
    ASSUME IInv, DeployAssumption, TakeBack PROVE IInv' /\ OldServiceOldCert
  <1> DEFINE p == First(UndoSequence, held)
  <1>1. p \in held /\ held \subseteq uses /\ uses \subseteq Parts /\ at = "undo" /\ answer = "none"
    <2>1. held \in SUBSET Parts /\ held # {} /\ at = "undo" /\ held \subseteq uses /\ uses \subseteq Parts
      BY DEF TakeBack, IInv, TypeOK
    <2> QED BY <2>1, Orders, FirstOf DEF UndoSequence, IInv, Told
  <1>2. p = "entry" => "cert" \notin held
    BY <1>1, CertFirst
  <1>3. held' = held \ {p} /\ UNCHANGED <<uses, pair, lost, at, answer, said, status, row, dns, replied>>
    BY DEF TakeBack, caller
  <1>4. \/ value' = [value EXCEPT ![p] = "old"] /\ saved' = saved \ {p} /\ UNCHANGED <<flagged, faults>>
        \/ /\ Fault /\ flagged' = TRUE /\ UNCHANGED saved
           /\ \E v \in {value[p]} \cup (IF p \in Files THEN {"mixed"} ELSE {"old"}) :
                value' = [value EXCEPT ![p] = v]
    BY DEF TakeBack, Put, Remember
  <1> HIDE DEF p
  <1>5. /\ value \in [Parts -> {"old", "new", "mixed"}] /\ flagged \in BOOLEAN
        /\ saved \subseteq Files \cap uses /\ lost \cap Files = {}
        /\ held \cap Files \subseteq saved
        /\ \A q \in Files : value[q] = "old" \/ q \in saved
        /\ \A q \in Parts : value[q] = "old" \/ q \in held \cup lost \/ flagged
        /\ \A q \in Parts \ uses : value[q] = "old"
    BY <1>1 DEF IInv, TypeOK, Backward
  <1>6. /\ value' \in [Parts -> {"old", "new", "mixed"}] /\ flagged' \in BOOLEAN
        /\ \A q \in Parts \ {p} : value'[q] = value[q]
        /\ saved' \subseteq Files \cap uses /\ held' \cap Files \subseteq saved'
        /\ \A q \in Files : value'[q] = "old" \/ q \in saved'
        /\ \A q \in Parts : value'[q] = "old" \/ q \in held' \cup lost \/ flagged'
        /\ \A q \in Parts \ uses : value'[q] = "old"
    <2>1. CASE value' = [value EXCEPT ![p] = "old"] /\ saved' = saved \ {p} /\ UNCHANGED flagged
      BY <1>1, <1>3, <1>5, <2>1, FileNames
    <2>2. ASSUME NEW v \in {value[p]} \cup (IF p \in Files THEN {"mixed"} ELSE {"old"}),
                 value' = [value EXCEPT ![p] = v], flagged' = TRUE, UNCHANGED saved
          PROVE  <1>6!:
      BY <1>1, <1>3, <1>5, <2>2, FileNames
    <2> QED BY <1>4, <2>1, <2>2
  <1>7. TypeOK' /\ Shape'
    <2>1. faults' \in 0 .. MaxFaults
      BY <1>4, FaultType DEF IInv, TypeOK
    <2> QED BY <1>1, <1>3, <1>6, <2>1 DEF IInv, TypeOK, Shape
  <1>8. Forward' /\ Backward'
    BY <1>1, <1>3, <1>5, <1>6, FileNames DEF Forward, Backward
  <1>9. Told' /\ pair # "mixed" /\ Half'
    BY <1>1, <1>3, FileNames DEF IInv, Told, Half
  <1>10. OldServiceOldCert
    <2> SUFFICES ASSUME value["entry"] # "old", value'["entry"] = "old", ~flagged' PROVE value'["cert"] = "old"
      BY <1>3, <1>9 DEF OldServiceOldCert
    <2>1. p = "entry" /\ ~flagged
      BY <1>4, <1>6, FileNames
    <2>2. "cert" \in Parts /\ "cert" \notin held \cup lost
      BY <1>2, <1>5, <2>1, PartNames DEF Files
    <2> QED BY <1>5, <1>6, <2>1, <2>2
  <1> QED BY <1>7, <1>8, <1>9, <1>10 DEF IInv

\* What follows the work touches no host.
Elsewhere == UNCHANGED <<uses, pair, value, saved, held, lost, flagged>>

LEMMA EndSafe ==
    ASSUME IInv, DeployAssumption,
           FinalizeFailure \/ Unlock \/ PanelCrash \/ Settle \/ LegacyReply \/ UNCHANGED vars
    PROVE  IInv' /\ Elsewhere
  <1> USE DEF caller
  <1>1. Elsewhere
    BY DEF FinalizeFailure, Unlock, PanelCrash, Settle, LegacyReply, vars, Elsewhere
  <1>2. /\ at \in Parts \cup {"generate", "finalize", "commit", "undo", "unlock", "done", "dead"}
        /\ flagged \in BOOLEAN /\ faults \in 0 .. MaxFaults
        /\ answer \in {"none", "ok", "failed", "flagged", "thrown", "rethrown"}
        /\ said \in {"none", "ok", "failed", "flagged", "thrown"}
        /\ status \in {"old", "RUNNING", "ERROR"} /\ row \in {"old", "new"}
        /\ dns \subseteq {"old", "new"} /\ replied \in BOOLEAN
    BY DEF IInv, TypeOK
  <1>3. ASSUME Fault PROVE faults' \in 0 .. MaxFaults
    BY <1>3, FaultType DEF IInv
  <1>9. Half'
    <2>1. at' \in {at, "unlock", "done", "dead"}
      BY DEF FinalizeFailure, Unlock, PanelCrash, Settle, LegacyReply, vars
    <2> QED BY <1>1, <2>1 DEF IInv, Half, Elsewhere
  <1>4. CASE FinalizeFailure
    <2>1. /\ at = "undo" /\ held = {} /\ at' = "unlock"
          /\ answer' = (IF flagged THEN "flagged" ELSE "failed") \/ answer' = (IF flagged THEN "rethrown" ELSE "thrown")
          /\ status' \in {"old", "RUNNING", "ERROR"} /\ faults' \in 0 .. MaxFaults
          /\ UNCHANGED <<said, row, dns, replied>>
      BY <1>2, <1>3, <1>4 DEF FinalizeFailure
    <2>2. answer' \in {"failed", "flagged", "thrown", "rethrown"} /\ (answer' \in {"failed", "thrown"} => ~flagged)
      BY <1>2, <2>1
    <2>3. TypeOK' /\ Shape'
      BY <1>1, <2>1, <2>2 DEF IInv, TypeOK, Shape, Elsewhere
    <2>4. Forward' /\ Backward'
      BY <1>1, <2>1, <2>2, FileNames DEF IInv, Told, Forward, Backward, Elsewhere
    <2>5. Told'
      BY <1>1, <2>1, <2>2, FileNames DEF IInv, Told, Elsewhere
    <2> QED BY <1>1, <1>9, <2>3, <2>4, <2>5 DEF IInv
  <1>5. CASE Unlock
    <2>1. /\ at = "unlock" /\ at' = "done" /\ faults' \in 0 .. MaxFaults
          /\ said' \in {IF answer = "rethrown" THEN "flagged" ELSE answer, "flagged"}
          /\ UNCHANGED <<answer, status, row, dns, replied>>
      BY <1>2, <1>3, <1>5 DEF Unlock
    <2>2. answer \in {"ok", "failed", "flagged", "thrown", "rethrown"} /\ said = "none" /\ row # "old"
      BY <1>2, <2>1 DEF IInv, Told, Restorable
    <2>3. said' = "flagged" \/ (said' = answer /\ said' \in {"ok", "failed", "thrown"})
      BY <2>1, <2>2
    <2>4. TypeOK' /\ Shape'
      BY <1>1, <2>1, <2>3 DEF IInv, TypeOK, Shape, Elsewhere
    <2>5. Forward' /\ Backward'
      BY <1>1, <2>1, FileNames DEF IInv, Forward, Backward, Elsewhere
    <2>6. Told'
      BY <1>1, <2>1, <2>2, <2>3, FileNames DEF IInv, Told, Elsewhere
    <2> QED BY <1>1, <1>9, <2>4, <2>5, <2>6 DEF IInv
  <1>6. CASE PanelCrash
    <2>1. /\ at' = "dead" /\ at \notin {"done", "dead"} /\ faults' \in 0 .. MaxFaults
          /\ UNCHANGED <<answer, said, status, row, dns, replied>>
      BY <1>3, <1>6 DEF PanelCrash
    <2>2. TypeOK' /\ Shape'
      BY <1>1, <2>1 DEF IInv, TypeOK, Shape, Elsewhere
    <2>3. Forward' /\ Backward' /\ Told'
      BY <1>1, <2>1, FileNames DEF IInv, Forward, Backward, Told, Elsewhere
    <2> QED BY <1>1, <1>9, <2>2, <2>3 DEF IInv
  <1>7. CASE Settle \/ LegacyReply
    <2>1. /\ UNCHANGED <<at, answer, said>> /\ replied' = TRUE /\ dns' \subseteq {"old", "new"}
          /\ row' \in {row, "old"} /\ (row' # row => at = "done" /\ said \in Restorable)
          /\ status' \in {status, "old"} /\ faults' \in 0 .. MaxFaults
      BY <1>2, <1>3, <1>7 DEF Settle, LegacyReply
    <2>2. TypeOK' /\ Shape'
      BY <1>1, <1>2, <2>1 DEF IInv, TypeOK, Shape, Elsewhere
    <2>3. Forward' /\ Backward'
      BY <1>1, <2>1 DEF IInv, Forward, Backward, Passed, Elsewhere
    <2>4. Told'
      BY <1>1, <2>1 DEF IInv, Told, Elsewhere
    <2> QED BY <1>1, <1>9, <2>2, <2>3, <2>4 DEF IInv
  <1>8. CASE UNCHANGED vars
    BY <1>1, <1>8, <1>9 DEF vars, IInv, TypeOK, Shape, Forward, Backward, Told, Passed
  <1> QED BY <1>4, <1>5, <1>6, <1>7, <1>8

LEMMA StepSafe ==
    ASSUME IInv, DeployAssumption, [Next]_vars PROVE IInv' /\ OldServiceOldCert
  <1>1. ASSUME NEW p \in Parts, Change(p) PROVE IInv' /\ OldServiceOldCert
    BY <1>1, ChangeSafe
  <1>2. CASE FinalizeFailure \/ Unlock \/ PanelCrash \/ Settle \/ LegacyReply \/ UNCHANGED vars
    BY <1>2, EndSafe DEF Elsewhere, OldServiceOldCert
  <1> QED BY <1>1, <1>2, GenerateSafe, FailsSafe, HoldsSafe, TakeBackSafe DEF Next

-----------------------------------------------------------------------------
(* What the invariant says *)

LEMMA InvSafe == IInv => DeploymentsSafe
  <1> SUFFICES ASSUME IInv PROVE DeploymentsSafe
    OBVIOUS
  <1>1. ASSUME said \in {"failed", "thrown"}
        PROVE  answer = said /\ ~flagged /\ held = {} /\ \A p \in Parts \ lost : value[p] = "old"
    <2>1. answer = said
      BY <1>1 DEF IInv, Told
    <2> QED BY <1>1, <2>1 DEF IInv, Told, Backward
  <1>2. FailureLeavesNothing
    BY <1>1 DEF IInv, TypeOK, FailureLeavesNothing
  <1>3. CanBeUndone
    BY DEF IInv, Backward, CanBeUndone
  <1>4. RowMatchesRemote
    <2> SUFFICES ASSUME row = "old", NEW p \in Files PROVE value[p] = "old"
      BY DEF RowMatchesRemote
    <2> QED BY <1>1, FileNames DEF IInv, Told, Restorable, Backward
  <1>5. HalfIsAll
    BY DEF IInv, TypeOK, Half, HalfIsAll
  <1> QED BY <1>2, <1>3, <1>4, <1>5 DEF IInv, DeploymentsSafe

\* A deployment that says it failed has left nothing of itself on either host, but for
\* the effect of a command whose answer was lost and for a self-signed pair made in place;
\* half of such a pair is all that its deployment changed; until the row is committed what
\* else was replaced can be put back by hand, wherever the panel dies; and an update that
\* was answered left a row that describes what runs, or an operator was told.
THEOREM DeploymentsAreSafe == ASSUME DeployAssumption PROVE Spec => []DeploymentsSafe
  <1>1. Init => IInv
    BY InitSafe
  <1>2. IInv /\ [Next]_vars => IInv'
    BY StepSafe
  <1> QED BY <1>1, <1>2, InvSafe, PTL DEF Spec

\* The way back never starts the old entry service with the new managed certificate, unless
\* it said that the old one could not be restored (rollback's order in deployExclusive), and
\* never with half of a self-signed pair.
THEOREM OldServiceKeepsCert == ASSUME DeployAssumption PROVE Spec => [][OldServiceOldCert]_vars
  <1>1. Init => IInv
    BY InitSafe
  <1>2. IInv /\ [Next]_vars => IInv'
    BY StepSafe
  <1>3. IInv /\ [Next]_vars => [OldServiceOldCert]_vars
    BY StepSafe
  <1> QED BY <1>1, <1>2, <1>3, PTL DEF Spec

-----------------------------------------------------------------------------
(* The refinement *)

Promise == INSTANCE AtomicDeployment WITH config <- Config, reply <- Reply
Atomic == Promise!Spec

LEMMA Configs ==
    ASSUME IInv
    PROVE  /\ Config \in {"old", "new", "between"}
           /\ Config = "old" <=> \A p \in Files \cap uses : value[p] = "old"
           /\ Config = "new" <=> pair # "mixed" /\ \A p \in Files \cap uses : value[p] = "new"
  <1>1. "entry" \in Files \cap uses
    BY PartNames DEF IInv, Shape, Files, ChainParts
  <1> QED BY <1>1 DEF Config

LEMMA InitMaps == ASSUME DeployAssumption, Init PROVE Promise!Init
  <1>1. \A p \in Files \cap uses : value[p] = "old"
    BY FileNames DEF Init
  <1> QED BY <1>1, Configs, InitSafe DEF Init, Promise!Init, Promise!Old, Reply

\* The hosts change while no answer was given, and the answer says what they are left with.
LEMMA StepMaps ==
    ASSUME IInv, DeployAssumption, [Next]_vars
    PROVE  [Promise!Work \/ Promise!Reply]_<<Config, Reply>>
  <1>1. IInv'
    BY StepSafe
  <1>2. CASE UNCHANGED said
    <2>1. CASE said = "none"
      <3>1. Config' \in {"old", "new", "between"}
        BY DEF Config
      <3> QED BY <1>2, <2>1, <3>1 DEF Promise!Work, Reply
    <2>2. CASE said # "none"
      <3>1. at = "done"
        BY <2>2 DEF IInv, Told
      <3>2. UNCHANGED <<uses, pair, value>>
        <4>1. at \notin Parts \cup {"generate", "finalize", "commit", "undo"}
          BY <3>1, FileNames
        <4> QED BY <4>1, PartNames DEF Next, vars, Generate, GenerateFails, Change, Fails, FileFails, WallFails, AnswerLost, ExitOwnerFails,
             EntryFails, OwnerFails, NotAccepted, Finalize, Commit, TakeBack, FinalizeFailure, Unlock,
             PanelCrash, Settle, LegacyReply
      <3> QED BY <1>2, <3>2 DEF Config, Reply
    <2> QED BY <2>1, <2>2
  <1>3. CASE Unlock
    <2>1. said = "none" /\ answer' = answer /\ UNCHANGED <<uses, pair, value>> /\ at' = "done"
      BY <1>3 DEF Unlock, IInv, Told
    <2>2. UNCHANGED Config
      BY <2>1 DEF Config
    <2>3. said' = "flagged" \/ (said' = answer /\ said' \in {"ok", "failed", "thrown"})
      BY <1>1, <2>1 DEF IInv, Told
    <2>4. CASE said' = "ok"
      <3>1. (\A p \in uses : value[p] = "new") /\ "entry" \in uses
        BY <2>3, <2>4, PartNames DEF IInv, Told, Shape, ChainParts
      <3>2. pair # "mixed"
        BY <3>1, PartNames DEF IInv, Half
      <3> QED BY <2>1, <2>2, <2>4, <3>1, <3>2, Configs DEF Promise!Reply, Promise!New, Reply
    <2>5. CASE said' \in {"failed", "thrown"}
      <3>1. ~flagged /\ held = {} /\ answer # "ok" /\ lost \cap Files = {}
        BY <2>3, <2>5 DEF IInv, Told, Backward
      <3>2. \A p \in Files \cap uses : value[p] = "old"
        BY <3>1, FileNames DEF IInv, Backward
      <3> QED BY <2>1, <2>2, <2>5, <3>2, Configs DEF Promise!Reply, Promise!Old, Reply
    <2>6. CASE said' = "flagged"
      BY <2>1, <2>2, <2>6 DEF Promise!Reply, Reply
    <2> QED BY <2>3, <2>4, <2>5, <2>6
  <1>4. UNCHANGED said \/ Unlock
    BY DEF Next, vars, Generate, GenerateFails, Change, Fails, NotAccepted, Finalize, Commit, TakeBack, FinalizeFailure, PanelCrash,
      Settle, LegacyReply
  <1> QED BY <1>2, <1>3, <1>4

\* A deployment implements AtomicDeployment: its caller may take "ok" for the new
\* configuration and "failed" for the old one, whatever failed in between; what "failed"
\* does not cover is a self-signed pair that the deployment made in place.
THEOREM DeploymentsAreAtomic == ASSUME DeployAssumption PROVE Spec => Atomic
  <1>1. Init => IInv
    BY InitSafe
  <1>2. IInv /\ [Next]_vars => IInv'
    BY StepSafe
  <1>3. Init => Promise!Init
    BY InitMaps
  <1>4. IInv /\ [Next]_vars => [Promise!Work \/ Promise!Reply]_<<Config, Reply>>
    BY StepMaps
  <1> QED BY <1>1, <1>2, <1>3, <1>4, PTL DEF Spec, Atomic, Promise!Spec

-----------------------------------------------------------------------------
(* The shared core of an entry can be put back, and every node that is       *)
(* started with it still accepts it, for any nodes and number of faults. The *)
(* invariant adds that no binary is missing while one is replaced, and that  *)
(* the copy that is kept is of the version that the nodes accepted.          *)
CONSTANTS Plain, Xhttp, Reality
VARIABLES shared, isolated, backups, picky, bin, running, op, reported, crashed
K == INSTANCE CoreUpgrade

Upgrading == {"install", "verify", "preflight", "restore"}
Replacing == Upgrading \cup {"version", "backup"}
OnShared(n) == bin[n] = "shared"

NotMissing == op.step \in Replacing \/ (\E n \in K!Nodes : OnShared(n)) => ~K!Missing
CopyKept ==
    op.step \in Upgrading =>
        /\ op.prior \in backups /\ op.prior # "none" /\ shared \in {op.prior, "latest"}
        /\ op.step = "install" => shared = op.prior
Unspoilt ==
    ~reported /\ ~crashed => \A n \in K!Nodes : OnShared(n) =>
        K!Accepts(n, IF op.step \in Upgrading THEN op.prior ELSE shared)

CoreInv == K!TypeOK /\ NotMissing /\ CopyKept /\ K!Recoverable /\ Unspoilt

LEMMA CoreInit == ASSUME K!CoreAssumption PROVE K!Init => CoreInv
<1> SUFFICES ASSUME K!Init PROVE CoreInv
  OBVIOUS
<1>1. K!TypeOK
  <2>1. shared \in K!Versions /\ op = K!Idle /\ faults \in 0 .. MaxFaults
    BY DEF K!Init, K!Versions, K!CoreAssumption
  <2> QED BY <2>1 DEF K!Init, K!TypeOK
<1>2. op.step = "idle" /\ op.step \notin Replacing /\ op.step \notin Upgrading /\ \A n \in K!Nodes : ~OnShared(n)
  BY DEF K!Init, K!Idle, Replacing, Upgrading, OnShared
<1>3. NotMissing /\ CopyKept /\ K!Recoverable /\ Unspoilt
  BY <1>2 DEF NotMissing, CopyKept, K!Recoverable, Unspoilt, OnShared
<1> QED BY <1>1, <1>3 DEF CoreInv

\* What a step makes of the deployment that holds the lock.
Upgrades == [node : K!Nodes, step : K!Steps, core : {"none", "shared", "isolated"}, prior : K!Versions]

LEMMA UpgradeNext ==
  ASSUME K!TypeOK, op.step \in K!Steps
  PROVE  /\ op \in Upgrades
         /\ \A step \in K!Steps : K!Goto(step) => op' \in Upgrades /\ op'.step = step /\ op'.prior = op.prior
         /\ \A core \in {"shared", "isolated"} : K!Use(core) => op' \in Upgrades /\ op'.step = "start"
         /\ K!End => op' = K!Idle
<1>1. op \in Upgrades
  BY DEF K!TypeOK, K!Idle, K!Steps, Upgrades
<1> QED BY <1>1 DEF K!Goto, K!Use, K!End, Upgrades, K!Steps

LEMMA CoreTypeStep == ASSUME K!CoreAssumption PROVE CoreInv /\ [K!Next]_(K!vars) => K!TypeOK'
<1> SUFFICES ASSUME CoreInv, [K!Next]_(K!vars) PROVE K!TypeOK'
  OBVIOUS
<1>0. K!TypeOK /\ NotMissing /\ MaxFaults \in Nat
  BY DEF CoreInv, K!CoreAssumption
<1>a. (op' = op \/ op' = K!Idle \/ op' \in Upgrades) /\ faults' \in 0 .. MaxFaults
  <2>1. CASE \E n \in K!Nodes : K!DeployBegin(n) \/ K!ServiceRestart(n)
    BY <1>0, <2>1 DEF K!DeployBegin, K!ServiceRestart, Upgrades, K!Steps, K!Versions, K!TypeOK
  <2>2. CASE K!Backup
    <3>1. op \in Upgrades /\ shared \in K!Versions /\ (K!End => op' = K!Idle)
      BY <1>0, <2>2, UpgradeNext DEF K!Backup, K!Steps, K!TypeOK
    <3>2. [op EXCEPT !.step = "install", !.prior = shared] \in Upgrades
      BY <3>1 DEF Upgrades, K!Steps
    <3> QED BY <1>0, <2>2, <3>1, <3>2 DEF K!Backup, K!Fault, K!TypeOK
  <2>3. CASE K!ReviewedCore \/ K!SharedCore \/ K!Version \/ K!Install \/ K!Verify
    BY <1>0, <2>3, UpgradeNext DEF K!ReviewedCore, K!SharedCore, K!Version, K!Install, K!Verify, K!Fault, K!TypeOK, K!Steps
  <2>4. CASE K!Preflight \/ K!Restore \/ K!Start \/ K!PanelCrash
    BY <1>0, <2>4, UpgradeNext DEF K!Preflight, K!Restore, K!Start, K!PanelCrash, K!Fault, K!End, K!TypeOK, K!Steps
  <2>5. CASE UNCHANGED K!vars
    BY <1>0, <2>5 DEF K!vars, K!TypeOK
  <2> QED BY <2>1, <2>2, <2>3, <2>4, <2>5 DEF K!Next
<1>b. op' \in {K!Idle} \cup Upgrades
  BY <1>0, <1>a DEF K!TypeOK, Upgrades
<1>c. op.step \in K!Steps => op \in Upgrades
  BY <1>0, UpgradeNext
<1>d. /\ shared' \in K!Versions /\ isolated' \in BOOLEAN /\ backups' \subseteq K!Versions \ {"none"} /\ picky' \subseteq Plain
      /\ bin' \in [K!Nodes -> {"none", "shared", "isolated"}] /\ running' \in [K!Nodes -> K!Versions \cup {"down"}]
      /\ reported' \in BOOLEAN /\ crashed' \in BOOLEAN
  <2> USE <1>0, <1>c DEF K!TypeOK, K!host, K!Rest, Upgrades, K!Steps
  <2>1. CASE \E n \in K!Nodes : K!DeployBegin(n) \/ K!ServiceRestart(n)
    BY <2>1 DEF K!DeployBegin, K!ServiceRestart, K!VersionOf, K!VersionAt, K!Versions
  <2>2. CASE K!ReviewedCore \/ K!SharedCore \/ K!Version \/ K!Verify \/ K!Install
    BY <2>2 DEF K!ReviewedCore, K!SharedCore, K!Version, K!Verify, K!Install, K!Installed, K!Versions
  <2>3. CASE K!Backup
    BY <2>3 DEF K!Backup, K!KeepOld, NotMissing, K!Missing, Replacing, K!Versions
  <2>4. CASE K!Preflight \/ K!Restore \/ K!PanelCrash
    BY <2>4 DEF K!Preflight, K!Restore, K!PutBack, K!PanelCrash, K!Versions
  <2>5. CASE K!Start
    BY <2>5 DEF K!Start, K!VersionAt, K!Versions
  <2>6. CASE UNCHANGED K!vars
    BY <2>6 DEF K!vars
  <2> QED BY <2>1, <2>2, <2>3, <2>4, <2>5, <2>6 DEF K!Next
<1> QED BY <1>a, <1>b, <1>d DEF K!TypeOK, Upgrades

\* What an upgrade keeps, besides its types.
CoreKept == NotMissing /\ CopyKept /\ K!Recoverable /\ Unspoilt

LEMMA CoreStep == CoreInv /\ [K!Next]_(K!vars) => CoreKept'
<1> SUFFICES ASSUME CoreInv, [K!Next]_(K!vars) PROVE CoreKept'
  OBVIOUS
<1>0. K!TypeOK /\ CoreKept
  BY DEF CoreInv, CoreKept
<1>c. op.step \in K!Steps => op \in Upgrades
  BY <1>0, UpgradeNext
<1>d. K!ReviewedCore => /\ op'.step \in {"start", "idle"} /\ op.step = "core"
                      /\ UNCHANGED <<shared, backups, picky, bin, reported, crashed>>
  BY <1>0, UpgradeNext DEF K!ReviewedCore, K!Steps, K!Idle
<1>e. K!Backup => /\ op.step = "backup" /\ UNCHANGED <<shared, bin, picky, reported, crashed>>
                /\ \/ op'.step = "install" /\ op'.prior = shared /\ backups' = backups \cup {shared}
                   \/ op'.step = "idle" /\ UNCHANGED backups
  <2> SUFFICES ASSUME K!Backup PROVE /\ op.step = "backup" /\ UNCHANGED <<shared, bin, picky, reported, crashed>>
                                   /\ \/ op'.step = "install" /\ op'.prior = shared /\ backups' = backups \cup {shared}
                                      \/ op'.step = "idle" /\ UNCHANGED backups
    OBVIOUS
  <2>1. op \in Upgrades /\ op.step = "backup" /\ UNCHANGED <<shared, bin, picky, reported, crashed>>
    BY <1>c DEF K!Backup, K!Steps, K!Rest
  <2>2. CASE K!End /\ UNCHANGED backups
    BY <2>1, <2>2 DEF K!End, K!Idle
  <2>3. CASE K!KeepOld /\ op' = [op EXCEPT !.step = "install", !.prior = shared]
    BY <2>1, <2>3 DEF K!KeepOld, Upgrades
  <2> QED BY <2>1, <2>2, <2>3 DEF K!Backup
<1> USE <1>0, <1>c DEF K!Steps, Upgrades, CoreKept, NotMissing, CopyKept, K!Recoverable, Unspoilt, Upgrading, Replacing, OnShared, K!Missing,
             K!Accepts, K!Idle, K!host, K!Fault, K!Goto, K!End, K!Use, K!Rest
<1>1. ASSUME NEW n \in K!Nodes, K!DeployBegin(n) PROVE CoreKept'
  BY <1>1 DEF K!DeployBegin
<1>2. ASSUME NEW n \in K!Nodes, K!ServiceRestart(n) PROVE CoreKept'
  BY <1>2 DEF K!ServiceRestart
<1>3. CASE K!ReviewedCore
  BY <1>3, <1>d
<1>4. CASE K!SharedCore
  BY <1>4 DEF K!SharedCore, K!Installed, K!TypeOK
<1>5. CASE K!Version
  BY <1>5 DEF K!Version, K!TypeOK
<1>6. CASE K!Backup
  BY <1>6, <1>e
<1>7. CASE K!Install
  BY <1>7 DEF K!Install, K!Installed, K!TypeOK
<1>8. CASE K!Verify
  BY <1>8 DEF K!Verify, K!TypeOK
<1>9. CASE K!Preflight
  BY <1>9 DEF K!Preflight, K!AllPass, K!TypeOK
<1>10. CASE K!Restore
  BY <1>10 DEF K!Restore, K!PutBack, K!TypeOK
<1>11. CASE K!Start
  BY <1>11 DEF K!Start, K!VersionAt, K!TypeOK
<1>12. CASE K!PanelCrash
  BY <1>12 DEF K!PanelCrash, K!TypeOK
<1>13. CASE UNCHANGED K!vars
  BY <1>13 DEF K!vars
<1> QED BY <1>1, <1>2, <1>3, <1>4, <1>5, <1>6, <1>7, <1>8, <1>9, <1>10, <1>11, <1>12, <1>13 DEF K!Next

\* An upgrade of the shared core that fails is taken back or reported, so that the nodes
\* that use it still start (installReviewedXray's preflight and rollback).
THEOREM CoresAreKept == ASSUME K!CoreAssumption PROVE K!Spec => [](K!TypeOK /\ K!OthersStillStart /\ K!Recoverable)
<1>1. CoreInv /\ [K!Next]_(K!vars) => CoreInv'
  BY CoreTypeStep, CoreStep DEF CoreInv, CoreKept
<1>2. CoreInv => K!TypeOK /\ K!OthersStillStart /\ K!Recoverable
  BY DEF CoreInv, K!TypeOK, Unspoilt, K!OthersStillStart, K!Idle, Upgrading, OnShared, K!Accepts, K!VersionOf, K!VersionAt
<1> QED BY CoreInit, <1>1, <1>2, PTL DEF K!Spec

-----------------------------------------------------------------------------
(* The certificate that a node's service would load next is not mixed by a   *)
(* delivery, nor is the service stopped by one, for any number of nodes,     *)
(* renewals, self-signed pairs and faults. The invariant says, per node,     *)
(* what the files and the copy of them hold at each place of a job.          *)
CONSTANTS Nodes, MaxPair, Nothing
VARIABLES store, due, managed, files, backup, loaded, enabled, run, job, interrupted
C == INSTANCE CertDelivery

NodeTold(n) == n \in flagged \cup interrupted
Whole(n, p) == C!Matches(p) \/ C!HalfMade(n, p)
KeptPair(n) == \E p \in backup[n] : Whole(n, p)

NodeInv(n) ==
    /\ n \notin flagged => Whole(n, files[n]) \/ KeptPair(n)
    /\ n \notin flagged /\ job[n].before # Nothing => KeptPair(n)
    /\ C!At(n, "activate") => C!Matches(job[n].staged)
    /\ C!Matches(files[n]) \/ C!At(n, "revert") \/ NodeTold(n)
    /\ job[n].before = Nothing \/ C!Matches(job[n].before) \/ NodeTold(n)
    /\ loaded[n] = Nothing => ~enabled[n] \/ job[n].at \in {"service", "undo"} \/ NodeTold(n)

CertInv == C!TypeOK /\ (due => store.cert < MaxPair) /\ \A n \in Nodes : NodeInv(n)

CertPlaces == {"idle", "generate", "cert", "key", "compare", "activate", "service", "revert", "undo"}
CertJobs == [kind : {"none", "refresh", "deploy"}, at : CertPlaces, staged : C!Pairs, before : C!Held \cup {Nothing}]

\* The types, apart from what a job at work has kept aside.
CertTypes ==
    /\ store \in C!Pairs /\ due \in BOOLEAN
    /\ managed \in [Nodes -> BOOLEAN]
    /\ files \in [Nodes -> C!Held] /\ backup \in [Nodes -> SUBSET C!Held]
    /\ loaded \in [Nodes -> 0 .. MaxPair + 2 \cup {Nothing}]
    /\ enabled \in [Nodes -> BOOLEAN] /\ flagged \subseteq Nodes /\ run \subseteq Nodes
    /\ job \in [Nodes -> CertJobs] /\ interrupted \subseteq Nodes /\ faults \in 0 .. MaxFaults
PairAside(n) == job[n].at \in {"activate", "revert"} => job[n].before \in backup[n]

LEMMA CertTypeParts == C!TypeOK <=> CertTypes /\ \A n \in Nodes : PairAside(n)
  BY DEF C!TypeOK, CertTypes, PairAside, CertJobs, CertPlaces

LEMMA PairFacts ==
  ASSUME C!CertAssumption
  PROVE  /\ Nothing \notin C!Held /\ C!NoJob \in CertJobs /\ C!NoJob.at = "idle" /\ C!NoJob.before = Nothing
         /\ C!Pairs \subseteq C!Held
         /\ \A g \in 0 .. MaxPair + 2 : C!Pair(g) \in C!Held /\ C!Matches(C!Pair(g)) /\ C!Pair(g).cert = g
         /\ \A p \in C!Held : C!Started(p) \in 0 .. MaxPair + 2 \cup {Nothing} /\ (C!Started(p) = Nothing <=> ~C!Matches(p))
<1>1. \A g \in 0 .. MaxPair + 2 : C!Pair(g) \in C!Held /\ C!Matches(C!Pair(g)) /\ C!Pair(g).cert = g
  BY DEF C!Pair, C!Held, C!Matches
<1>2. \A p \in C!Held : C!Started(p) \in 0 .. MaxPair + 2 \cup {Nothing} /\ (C!Started(p) = Nothing <=> ~C!Matches(p))
  BY DEF C!CertAssumption, C!Started, C!Held
<1>3. C!Pair(0) \in C!Pairs
  BY DEF C!CertAssumption, C!Pair, C!Pairs
<1>4. C!NoJob \in CertJobs /\ C!NoJob.at = "idle" /\ C!NoJob.before = Nothing
  BY <1>3 DEF C!NoJob, CertJobs, CertPlaces
<1>5. C!Pairs \subseteq C!Held
  BY DEF C!CertAssumption, C!Pairs, C!Held
<1> QED BY <1>1, <1>2, <1>4, <1>5 DEF C!CertAssumption

LEMMA CertInit == ASSUME C!CertAssumption PROVE C!Init => CertInv
<1> SUFFICES ASSUME C!Init PROVE CertInv
  OBVIOUS
<1>0. 0 \in 0 .. MaxPair /\ 0 \in 0 .. MaxPair + 2 /\ 0 # Nothing
  BY DEF C!CertAssumption
<1>1. CertTypes
  <2>1. 0 \in 0 .. MaxFaults /\ store \in C!Pairs /\ C!Pair(0) \in C!Held /\ C!NoJob \in CertJobs
    BY <1>0, PairFacts DEF C!Init, C!CertAssumption, C!Pair, C!Pairs
  <2>2. [n \in Nodes |-> C!NoJob] \in [Nodes -> CertJobs]
    BY <2>1
  <2>3. [n \in Nodes |-> C!Pair(0)] \in [Nodes -> C!Held]
    BY <2>1
  <2> QED BY <1>0, <2>1, <2>2, <2>3 DEF C!Init, CertTypes
<1>3. \A n \in Nodes : PairAside(n)
  BY PairFacts DEF C!Init, PairAside
<1>2. ASSUME NEW n \in Nodes PROVE NodeInv(n)
  BY <1>0, PairFacts DEF C!Init, NodeInv, C!At, KeptPair, Whole, C!HalfMade, NodeTold
<1> QED BY <1>1, <1>2, <1>3, CertTypeParts DEF CertInv, C!Init

\* A node that a step leaves alone.
LEMMA Untouched ==
  ASSUME NEW q \in Nodes, NodeInv(q), PairAside(q), flagged \subseteq flagged', interrupted \subseteq interrupted',
         UNCHANGED <<files[q], backup[q], loaded[q], enabled[q], job[q]>>
  PROVE  NodeInv(q)' /\ PairAside(q)'
  BY DEF NodeInv, PairAside, KeptPair, Whole, C!HalfMade, NodeTold, C!At

\* A step at one node.
LEMMA AtNode ==
  ASSUME CertInv, NEW n \in Nodes, CertTypes', NodeInv(n)', PairAside(n)', UNCHANGED <<store, due>>,
         flagged \subseteq flagged', interrupted \subseteq interrupted',
         \A q \in Nodes \ {n} : UNCHANGED <<files[q], backup[q], loaded[q], enabled[q], job[q]>>
  PROVE  CertInv'
<1>1. ASSUME NEW q \in Nodes PROVE NodeInv(q)' /\ PairAside(q)'
  <2>1. CASE q = n
    BY <2>1
  <2>2. CASE q # n
    BY <2>2, Untouched, CertTypeParts DEF CertInv
  <2> QED BY <2>1, <2>2
<1>2. C!TypeOK'
  BY <1>1 DEF C!TypeOK, CertTypes, PairAside, CertJobs, CertPlaces
<1> QED BY <1>1, <1>2 DEF CertInv

\* A step that only changes what a job is at, and not to a place that relies on more.
LEMMA JobMoves ==
  ASSUME CertInv, NEW n \in Nodes, NEW j \in CertJobs, job' = [job EXCEPT ![n] = j],
         j.before = job[n].before \/ j.before = Nothing,
         j.at \in {"idle", "generate", "cert", "key", "compare", "service"}, job[n].at \in {"idle", "cert", "key", "compare"},
         UNCHANGED <<store, due, managed, files, backup, loaded, enabled, flagged, faults, interrupted>>, run' \subseteq run
  PROVE  CertInv'
<1>1. CertTypes /\ NodeInv(n)
  BY CertTypeParts DEF CertInv
<1>2. job'[n] = j /\ \A q \in Nodes \ {n} : job'[q] = job[q]
  BY <1>1 DEF CertTypes
<1>3. CertTypes'
  BY <1>1 DEF CertTypes
<1>4. NodeInv(n)' /\ PairAside(n)'
  BY <1>1, <1>2 DEF NodeInv, PairAside, KeptPair, Whole, C!HalfMade, NodeTold, C!At
<1> QED BY <1>2, <1>3, <1>4, AtNode

LEMMA CertBegin == ASSUME C!CertAssumption, CertInv, NEW n \in Nodes, C!RefreshBegin(n) \/ C!DeployBegin(n) PROVE CertInv'
<1>1. CertTypes
  BY CertTypeParts DEF CertInv
<1>2. job[n] = C!NoJob /\ run' \subseteq run /\ UNCHANGED <<store, due, managed, files, backup, loaded, enabled, flagged, faults, interrupted>>
  BY DEF C!RefreshBegin, C!DeployBegin
<1>3. PICK j \in CertJobs : job' = [job EXCEPT ![n] = j] /\ j.at \in {"idle", "generate", "cert"} /\ j.before = Nothing
  <2>1. \A kind \in {"refresh", "deploy"}, place \in {"generate", "cert"} :
            [C!NoJob EXCEPT !.kind = kind, !.at = place] \in CertJobs
    BY PairFacts DEF CertJobs, CertPlaces
  <2>2. CASE job' = job
    <3>1. job' = [job EXCEPT ![n] = C!NoJob]
      BY <1>1, <1>2, <2>2 DEF CertTypes
    <3> QED BY <3>1, PairFacts
  <2>3. CASE \E kind \in {"refresh", "deploy"}, place \in {"generate", "cert"} :
               job' = [job EXCEPT ![n] = [C!NoJob EXCEPT !.kind = kind, !.at = place]]
    <3>1. PICK kind \in {"refresh", "deploy"}, place \in {"generate", "cert"} :
               job' = [job EXCEPT ![n] = [C!NoJob EXCEPT !.kind = kind, !.at = place]]
      BY <2>3
    <3> DEFINE j == [C!NoJob EXCEPT !.kind = kind, !.at = place]
    <3>2. j \in CertJobs /\ j.at = place /\ j.before = Nothing
      BY <2>1, PairFacts DEF CertJobs
    <3> QED BY <3>1, <3>2
  <2> QED BY <2>2, <2>3 DEF C!RefreshBegin, C!DeployBegin
<1> QED BY <1>2, <1>3, JobMoves, PairFacts

LEMMA CertCopy == ASSUME C!CertAssumption, CertInv, NEW n \in Nodes, C!CopyCert(n) \/ C!CopyKey(n) PROVE CertInv'
<1>1. CertTypes
  BY CertTypeParts DEF CertInv
<1>2. job[n].at \in {"cert", "key"} /\ UNCHANGED <<store, due, managed, files, backup, loaded, enabled, flagged, run, faults, interrupted>>
  BY DEF C!CopyCert, C!CopyKey, C!At
<1>3. job[n] \in CertJobs /\ store \in C!Pairs
  BY <1>1 DEF CertTypes
<1>4. PICK j \in CertJobs : job' = [job EXCEPT ![n] = j] /\ j.at \in {"key", "compare"} /\ j.before = job[n].before
  <2>1. CASE C!CopyCert(n)
    <3> DEFINE j == [job[n] EXCEPT !.staged.cert = store.cert, !.at = "key"]
    <3>1. j \in CertJobs /\ j.at = "key" /\ j.before = job[n].before
      BY <1>3 DEF CertJobs, CertPlaces, C!Pairs
    <3>2. job' = [job EXCEPT ![n] = j]
      BY <2>1 DEF C!CopyCert
    <3> QED BY <3>1, <3>2
  <2>2. CASE C!CopyKey(n)
    <3> DEFINE j == [job[n] EXCEPT !.staged.key = store.key, !.at = "compare"]
    <3>1. j \in CertJobs /\ j.at = "compare" /\ j.before = job[n].before
      BY <1>3 DEF CertJobs, CertPlaces, C!Pairs
    <3>2. job' = [job EXCEPT ![n] = j]
      BY <2>2 DEF C!CopyKey
    <3> QED BY <3>1, <3>2
  <2> QED BY <2>1, <2>2
<1> QED BY <1>2, <1>4, JobMoves

LEMMA CertCompare == ASSUME C!CertAssumption, CertInv, NEW n \in Nodes, C!Compare(n) PROVE CertInv'
<1>1. CertTypes /\ NodeInv(n) /\ job[n] \in CertJobs /\ files[n] \in C!Held
  BY CertTypeParts DEF CertInv, CertTypes
<1>2. job[n].at = "compare" /\ UNCHANGED <<store, due, managed, files, loaded, enabled, flagged, run, faults, interrupted>>
  BY DEF C!Compare, C!At
<1>3. CASE (C!Done(n) \/ C!Go(n, "service")) /\ UNCHANGED backup
  <2>1. PICK j \in CertJobs : job' = [job EXCEPT ![n] = j] /\ j.at \in {"idle", "service"} /\ j.before \in {job[n].before, Nothing}
    <3>1. CASE C!Done(n)
      BY <3>1, PairFacts DEF C!Done
    <3>2. CASE C!Go(n, "service")
      <4> DEFINE j == [job[n] EXCEPT !.at = "service"]
      <4>1. j \in CertJobs /\ j.at = "service" /\ j.before = job[n].before
        BY <1>1 DEF CertJobs, CertPlaces
      <4> QED BY <3>2, <4>1 DEF C!Go
    <3> QED BY <1>3, <3>1, <3>2
  <2> QED BY <1>2, <1>3, <2>1, JobMoves
<1>4. CASE /\ C!Valid(job[n].staged) /\ C!KeepAside(n)
           /\ job' = [job EXCEPT ![n].before = files[n], ![n].at = "activate"]
  <2> DEFINE j == [job[n] EXCEPT !.before = files[n], !.at = "activate"]
  <2>1. /\ j \in CertJobs /\ j.at = "activate" /\ j.before = files[n] /\ j.staged = job[n].staged
        /\ job' = [job EXCEPT ![n] = j]
    BY <1>1, <1>4 DEF CertJobs, CertPlaces
  <2>2. job'[n] = j /\ backup'[n] = backup[n] \cup {files[n]}
    BY <1>1, <1>4, <2>1 DEF C!KeepAside, CertTypes
  <2>3. CertTypes' /\ \A q \in Nodes \ {n} : UNCHANGED <<backup[q], job[q]>>
    BY <1>1, <1>2, <1>4, <2>1 DEF CertTypes, C!KeepAside
  <2> HIDE DEF j
  <2>4. NodeInv(n)'
    BY <1>1, <1>2, <1>4, <2>1, <2>2 DEF NodeInv, KeptPair, Whole, C!HalfMade, NodeTold, C!At, C!Valid
  <2>5. PairAside(n)'
    BY <2>1, <2>2 DEF PairAside
  <2> QED BY <1>2, <2>3, <2>4, <2>5, AtNode
<1> QED BY <1>3, <1>4 DEF C!Compare

\* The end of a job leaves what it needs no more.
LEMMA CertActivate ==
  ASSUME C!CertAssumption, CertInv, NEW n \in Nodes, C!Activate(n) \/ C!ActivationFails(n) PROVE CertInv'
<1>1. CertTypes /\ NodeInv(n) /\ PairAside(n) /\ job[n] \in CertJobs /\ files[n] \in C!Held /\ backup[n] \subseteq C!Held
  BY CertTypeParts DEF CertInv, CertTypes
<1>2. job[n].at = "activate" /\ UNCHANGED <<store, due, managed, loaded, enabled, flagged, run, interrupted>>
  BY DEF C!Activate, C!ActivationFails, C!At
<1>3. job[n].before \in backup[n] /\ job[n].before # Nothing /\ C!Matches(job[n].staged)
  BY <1>1, <1>2, PairFacts DEF PairAside, NodeInv, C!At
<1>4. PICK p \in C!Held, j \in CertJobs :
        /\ files' = [files EXCEPT ![n] = p] /\ job' = [job EXCEPT ![n] = j] /\ j.before \in {job[n].before, Nothing}
        /\ \/ p = job[n].staged /\ j = C!NoJob /\ C!DropBackup(n) /\ ~enabled[n] /\ UNCHANGED faults
           \/ p = job[n].staged /\ j.at = "service" /\ UNCHANGED <<backup, faults>>
           \/ j.at = "revert" /\ j.before = job[n].before /\ C!Fault /\ UNCHANGED backup
  <2>1. \A place \in {"service", "revert"} : [job[n] EXCEPT !.at = place] \in CertJobs
    BY <1>1 DEF CertJobs, CertPlaces
  <2>2. job[n].staged \in C!Held /\ [files[n] EXCEPT !.cert = job[n].staged.cert] \in C!Held
    <3>1. job[n].staged \in C!Held
      BY <1>1, PairFacts DEF CertJobs
    <3> QED BY <1>1, <3>1 DEF C!Held
  <2>3. CASE C!Activate(n) /\ C!LeftAlone(n)
    BY <2>2, <2>3, PairFacts DEF C!Activate, C!LeftAlone, C!Done
  <2>4. CASE C!Activate(n) /\ ~C!LeftAlone(n)
    <3> DEFINE j == [job[n] EXCEPT !.at = "service"]
    <3>1. j \in CertJobs /\ j.at = "service" /\ j.before = job[n].before
      BY <1>1, <2>1 DEF CertJobs
    <3>2. job' = [job EXCEPT ![n] = j] /\ files' = [files EXCEPT ![n] = job[n].staged] /\ UNCHANGED <<backup, faults>>
      BY <2>4 DEF C!Activate, C!Go
    <3> QED BY <2>2, <3>1, <3>2
  <2>5. CASE C!ActivationFails(n)
    <3> DEFINE j == [job[n] EXCEPT !.at = "revert"]
    <3>1. j \in CertJobs /\ j.at = "revert" /\ j.before = job[n].before
      BY <1>1, <2>1 DEF CertJobs
    <3>2. PICK p \in {files[n], [files[n] EXCEPT !.cert = job[n].staged.cert], job[n].staged} :
            files' = [files EXCEPT ![n] = p]
      BY <2>5 DEF C!ActivationFails
    <3>3. p \in C!Held
      BY <1>1, <2>2, <3>2
    <3>4. job' = [job EXCEPT ![n] = j] /\ C!Fault /\ UNCHANGED backup
      BY <2>5 DEF C!ActivationFails, C!Go
    <3> QED BY <3>1, <3>2, <3>3, <3>4
  <2> QED BY <2>3, <2>4, <2>5
<1>5. files'[n] = p /\ job'[n] = j /\ faults' \in 0 .. MaxFaults
  BY <1>1, <1>4 DEF CertTypes, C!Fault, C!CertAssumption
<1>6. backup' \in [Nodes -> SUBSET C!Held] /\ backup'[n] \in {backup[n], backup[n] \ {job[n].before}}
      /\ \A q \in Nodes \ {n} : UNCHANGED <<files[q], backup[q], job[q]>>
  BY <1>1, <1>4 DEF CertTypes, C!DropBackup
<1>7. CertTypes'
  BY <1>1, <1>2, <1>4, <1>5, <1>6 DEF CertTypes
<1>8. NodeInv(n)' /\ PairAside(n)'
  BY <1>1, <1>2, <1>3, <1>4, <1>5, PairFacts DEF NodeInv, PairAside, KeptPair, Whole, C!HalfMade, NodeTold, C!At
<1> QED BY <1>2, <1>6, <1>7, <1>8, AtNode

\* The pair is put back, or the service is started: Revert, Restart, Undo.
LEMMA CertRevert ==
  ASSUME C!CertAssumption, CertInv, NEW n \in Nodes, C!Revert(n) \/ C!Undo(n) PROVE CertInv'
<1>1. CertTypes /\ NodeInv(n) /\ PairAside(n) /\ job[n] \in CertJobs /\ files[n] \in C!Held /\ backup[n] \subseteq C!Held
  BY CertTypeParts DEF CertInv, CertTypes
<1>2. job[n].at \in {"revert", "undo"} /\ UNCHANGED <<store, due, managed, enabled, run, faults, interrupted>>
  BY DEF C!Revert, C!Undo, C!At
<1>3. job' = [job EXCEPT ![n] = C!NoJob] /\ C!DropBackup(n)
  BY DEF C!Revert, C!Undo, C!Done
<1>4. C!Before(n) \in C!Held
  BY <1>1 DEF C!Before, CertJobs
<1>5. files' = [files EXCEPT ![n] = C!Before(n)]
  BY <1>1, PairFacts DEF C!Revert, C!Undo, C!Before, C!At, PairAside
<1>6. /\ job'[n] = C!NoJob /\ files'[n] = C!Before(n) /\ backup'[n] = backup[n] \ {job[n].before}
      /\ \A q \in Nodes \ {n} : UNCHANGED <<files[q], backup[q], job[q]>>
  BY <1>1, <1>3, <1>5 DEF CertTypes, C!DropBackup
<1>7. PICK l \in 0 .. MaxPair + 2 \cup {Nothing} :
        /\ loaded' = [loaded EXCEPT ![n] = l] /\ flagged' \in {flagged, flagged \cup {n}}
        /\ (l = loaded[n] /\ job[n].at = "revert") \/ l # Nothing \/ n \in flagged'
  <2>1. CASE C!Revert(n)
    BY <1>1, <2>1 DEF C!Revert, CertTypes, C!At
  <2>2. CASE C!Undo(n)
    <3>1. C!Started(C!Before(n)) \in 0 .. MaxPair + 2 \cup {Nothing}
      BY <1>4, PairFacts
    <3>2. loaded' = [loaded EXCEPT ![n] = C!Started(C!Before(n))]
      BY <1>6, <2>2 DEF C!Undo
    <3>3. loaded'[n] = C!Started(C!Before(n))
      BY <1>1, <3>2 DEF CertTypes
    <3> QED BY <2>2, <3>1, <3>2, <3>3 DEF C!Undo
  <2> QED BY <2>1, <2>2
<1>8. loaded'[n] = l /\ \A q \in Nodes \ {n} : UNCHANGED <<loaded[q], enabled[q]>>
  BY <1>1, <1>2, <1>7 DEF CertTypes
<1>9. CertTypes'
  BY <1>1, <1>2, <1>3, <1>4, <1>5, <1>7, PairFacts DEF CertTypes, C!DropBackup
<1>10. NodeInv(n)' /\ PairAside(n)'
  BY <1>1, <1>2, <1>6, <1>7, <1>8, PairFacts DEF NodeInv, PairAside, KeptPair, Whole, C!HalfMade, NodeTold, C!At, C!Before
<1> QED BY <1>2, <1>6, <1>7, <1>8, <1>9, <1>10, AtNode

LEMMA CertRestart ==
  ASSUME C!CertAssumption, CertInv, NEW n \in Nodes, C!Restart(n) \/ C!RestartFails(n) PROVE CertInv'
<1>1. CertTypes /\ NodeInv(n) /\ PairAside(n) /\ job[n] \in CertJobs /\ files[n] \in C!Held /\ backup[n] \subseteq C!Held
  BY CertTypeParts DEF CertInv, CertTypes
<1>2. job[n].at = "service" /\ UNCHANGED <<store, due, managed, files, enabled, flagged, run, interrupted>>
  BY DEF C!Restart, C!RestartFails, C!At
<1>3. [job[n] EXCEPT !.at = "undo"] \in CertJobs /\ [job[n] EXCEPT !.at = "undo"].before = job[n].before
      /\ [job[n] EXCEPT !.at = "undo"].at = "undo"
  BY <1>1 DEF CertJobs, CertPlaces
<1>4. C!Started(files[n]) \in 0 .. MaxPair + 2 \cup {Nothing} /\ (C!Started(files[n]) = Nothing <=> ~C!Matches(files[n]))
  BY <1>1, PairFacts
<1>5. PICK l \in 0 .. MaxPair + 2 \cup {Nothing}, j \in CertJobs :
        /\ loaded' = [loaded EXCEPT ![n] = l] /\ job' = [job EXCEPT ![n] = j]
        /\ \/ j = C!NoJob /\ l # Nothing /\ C!Matches(files[n]) /\ C!DropBackup(n) /\ UNCHANGED faults
           \/ j.at = "undo" /\ j.before = job[n].before /\ UNCHANGED backup /\ (UNCHANGED faults \/ C!Fault)
  <2>1. CASE C!Restart(n)
    <3>1. loaded' = [loaded EXCEPT ![n] = C!Started(files[n])] /\ loaded'[n] = C!Started(files[n])
      BY <1>1, <2>1 DEF C!Restart, CertTypes
    <3>2. CASE C!Started(files[n]) = Nothing
      BY <1>3, <1>4, <2>1, <3>1, <3>2 DEF C!Restart, C!Go
    <3>3. CASE C!Started(files[n]) # Nothing
      BY <1>4, <2>1, <3>1, <3>3, PairFacts DEF C!Restart, C!Done
    <3> QED BY <3>2, <3>3
  <2>2. CASE C!RestartFails(n)
    <3>1. PICK l \in {loaded[n], C!Started(files[n]), Nothing} : loaded' = [loaded EXCEPT ![n] = l]
      BY <2>2 DEF C!RestartFails
    <3>2. l \in 0 .. MaxPair + 2 \cup {Nothing}
      BY <1>1, <1>4 DEF CertTypes
    <3> QED BY <1>3, <2>2, <3>1, <3>2 DEF C!RestartFails, C!Go
  <2> QED BY <2>1, <2>2
<1>6. loaded'[n] = l /\ job'[n] = j /\ \A q \in Nodes \ {n} : UNCHANGED <<loaded[q], job[q], files[q], enabled[q]>>
  BY <1>1, <1>2, <1>5 DEF CertTypes
<1>7. /\ backup' \in [Nodes -> SUBSET C!Held] /\ backup'[n] \in {backup[n], backup[n] \ {job[n].before}}
      /\ (j # C!NoJob => backup'[n] = backup[n]) /\ faults' \in 0 .. MaxFaults
      /\ \A q \in Nodes \ {n} : UNCHANGED backup[q]
  BY <1>1, <1>5 DEF CertTypes, C!DropBackup, C!Fault, C!CertAssumption
<1>8. CertTypes'
  BY <1>1, <1>2, <1>5, <1>7 DEF CertTypes
<1>9. NodeInv(n)' /\ PairAside(n)'
  BY <1>1, <1>2, <1>5, <1>6, <1>7, PairFacts DEF NodeInv, PairAside, KeptPair, Whole, C!HalfMade, NodeTold, C!At
<1> QED BY <1>2, <1>6, <1>7, <1>8, <1>9, AtNode

LEMMA CertUndoFails ==
  ASSUME C!CertAssumption, CertInv, NEW n \in Nodes, C!UndoFails(n) PROVE CertInv'
<1>1. CertTypes /\ job[n] \in CertJobs /\ files[n] \in C!Held
  BY CertTypeParts DEF CertInv, CertTypes
<1>2. UNCHANGED <<store, due, managed, backup, enabled, run, interrupted>> /\ C!Fault /\ n \in flagged' /\ flagged' = flagged \cup {n}
      /\ job' = [job EXCEPT ![n] = C!NoJob] /\ loaded' \in {loaded, [loaded EXCEPT ![n] = Nothing]}
  BY DEF C!UndoFails, C!Flag, C!Done
<1>3. [files[n] EXCEPT !.cert = C!Before(n).cert] \in C!Held
  <2>1. C!Before(n) \in C!Held
    BY <1>1 DEF C!Before, CertJobs
  <2> QED BY <1>1, <2>1 DEF C!Held
<1>4. files' = [files EXCEPT ![n] = [files[n] EXCEPT !.cert = C!Before(n).cert]]
  BY DEF C!UndoFails
<1>5. job'[n] = C!NoJob /\ \A q \in Nodes \ {n} : UNCHANGED <<files[q], backup[q], loaded[q], enabled[q], job[q]>>
  BY <1>1, <1>2, <1>4 DEF CertTypes
<1>6. CertTypes'
  BY <1>1, <1>2, <1>3, <1>4, PairFacts DEF CertTypes, C!Fault, C!CertAssumption
<1>7. NodeInv(n)' /\ PairAside(n)'
  BY <1>2, <1>5, PairFacts DEF NodeInv, PairAside, NodeTold, C!At
<1> QED BY <1>2, <1>5, <1>6, <1>7, AtNode

LEMMA CertLife ==
  ASSUME C!CertAssumption, CertInv, NEW n \in Nodes, C!Toggle(n) \/ C!CoreRestart(n) PROVE CertInv'
<1>1. CertTypes /\ NodeInv(n) /\ PairAside(n) /\ files[n] \in C!Held
  BY CertTypeParts DEF CertInv, CertTypes
<1>2. UNCHANGED <<store, due, managed, files, backup, flagged, run, job, faults, interrupted>>
  BY DEF C!Toggle, C!CoreRestart
<1>3. C!Started(files[n]) \in 0 .. MaxPair + 2 \cup {Nothing} /\ (C!Started(files[n]) = Nothing <=> ~C!Matches(files[n]))
  BY <1>1, PairFacts
<1>4. PICK l \in 0 .. MaxPair + 2 \cup {Nothing}, on \in BOOLEAN :
        /\ loaded' = [loaded EXCEPT ![n] = l] /\ enabled' = [enabled EXCEPT ![n] = on]
        /\ l = Nothing => ~on \/ (job[n] = C!NoJob /\ ~C!Matches(files[n])) \/ n \in interrupted
  <2>1. CASE C!Toggle(n)
    <3>1. CASE enabled[n]
      BY <2>1, <3>1 DEF C!Toggle
    <3>2. CASE ~enabled[n]
      BY <1>1, <1>3, <2>1, <3>2 DEF C!Toggle, CertTypes
    <3> QED BY <3>1, <3>2
  <2>2. CASE C!CoreRestart(n)
    BY <1>1, <1>3, <2>2 DEF C!CoreRestart, C!HalfMade, CertTypes
  <2> QED BY <2>1, <2>2
<1>5. loaded'[n] = l /\ enabled'[n] = on
      /\ \A q \in Nodes \ {n} : UNCHANGED <<files[q], backup[q], loaded[q], enabled[q], job[q]>>
  BY <1>1, <1>2, <1>4 DEF CertTypes
<1>6. CertTypes'
  BY <1>1, <1>2, <1>4 DEF CertTypes
<1>7. NodeInv(n)' /\ PairAside(n)'
  BY <1>1, <1>2, <1>4, <1>5, PairFacts DEF NodeInv, PairAside, KeptPair, Whole, C!HalfMade, NodeTold, C!At
<1> QED BY <1>2, <1>5, <1>6, <1>7, AtNode

\* A self-signed pair is made, or half of one; a node begins or ends to get the panel's.
LEMMA CertGenerate ==
  ASSUME C!CertAssumption, CertInv, NEW n \in Nodes, C!Generate(n) \/ C!GenerateFails(n) PROVE CertInv'
<1>1. CertTypes /\ NodeInv(n) /\ PairAside(n) /\ job[n] \in CertJobs /\ files[n] \in C!Held
  BY CertTypeParts DEF CertInv, CertTypes
<1>2. job[n].at = "generate" /\ UNCHANGED <<store, due, managed, backup, loaded, enabled, flagged, run>>
  BY DEF C!Generate, C!GenerateFails, C!At
<1>3. C!Fresh(n) \in 0 .. MaxPair + 2 /\ C!SelfSigned(C!Fresh(n)) /\ [files[n] EXCEPT !.key = C!Fresh(n)] \in C!Held
  BY <1>1 DEF C!Fresh, C!SelfSigned, C!CertAssumption, C!Held
<1>4. PICK p \in C!Held, j \in CertJobs :
        /\ files' = [files EXCEPT ![n] = p] /\ job' = [job EXCEPT ![n] = j] /\ j.before \in {job[n].before, Nothing}
        /\ \/ C!Matches(p) /\ j.at = "service" /\ UNCHANGED <<faults, interrupted>>
           \/ /\ p = files[n] \/ C!Matches(p) \/ C!SelfSigned(p.key)
              /\ j = C!NoJob /\ C!Fault /\ interrupted' = interrupted \cup {n}
  <2>1. [job[n] EXCEPT !.at = "service"] \in CertJobs
    BY <1>1 DEF CertJobs, CertPlaces
  <2>2. CASE C!Generate(n)
    <3> DEFINE j == [job[n] EXCEPT !.at = "service"]
    <3>1. j \in CertJobs /\ j.at = "service" /\ j.before = job[n].before
      BY <1>1, <2>1 DEF CertJobs
    <3>2. /\ job' = [job EXCEPT ![n] = j] /\ files' = [files EXCEPT ![n] = C!Pair(C!Fresh(n))]
          /\ UNCHANGED <<faults, interrupted>>
      BY <2>2 DEF C!Generate, C!Go
    <3>3. C!Pair(C!Fresh(n)) \in C!Held /\ C!Matches(C!Pair(C!Fresh(n)))
      BY <1>3, PairFacts
    <3> QED BY <3>1, <3>2, <3>3
  <2>3. CASE C!GenerateFails(n)
    <3>1. [files[n] EXCEPT !.key = C!Fresh(n)].key = C!Fresh(n)
      BY <1>1 DEF C!Held
    <3>2. PICK p \in {files[n], [files[n] EXCEPT !.key = C!Fresh(n)], C!Pair(C!Fresh(n))} :
            files' = [files EXCEPT ![n] = p]
      BY <2>3 DEF C!GenerateFails
    <3>3. C!Pair(C!Fresh(n)) \in C!Held /\ C!Matches(C!Pair(C!Fresh(n)))
      BY <1>3, PairFacts
    <3>4. p \in C!Held /\ (p = files[n] \/ C!Matches(p) \/ C!SelfSigned(p.key))
      BY <1>1, <1>3, <3>1, <3>2, <3>3
    <3>5. job' = [job EXCEPT ![n] = C!NoJob] /\ C!Fault /\ interrupted' = interrupted \cup {n}
      BY <2>3 DEF C!GenerateFails, C!Done
    <3> QED BY <3>2, <3>4, <3>5, PairFacts
  <2> QED BY <2>2, <2>3
<1>5. /\ files'[n] = p /\ job'[n] = j /\ faults' \in 0 .. MaxFaults
      /\ interrupted \subseteq interrupted' /\ interrupted' \subseteq Nodes
      /\ \A q \in Nodes \ {n} : UNCHANGED <<files[q], job[q]>>
  BY <1>1, <1>4 DEF CertTypes, C!Fault, C!CertAssumption
<1>6. CertTypes'
  BY <1>1, <1>2, <1>4, <1>5 DEF CertTypes
<1>7. NodeInv(n)' /\ PairAside(n)'
  BY <1>1, <1>2, <1>4, <1>5, PairFacts DEF NodeInv, PairAside, KeptPair, Whole, C!HalfMade, NodeTold, C!At
<1> QED BY <1>2, <1>5, <1>6, <1>7, AtNode

LEMMA CertSwitch == ASSUME C!CertAssumption, CertInv, NEW n \in Nodes, C!Switch(n) PROVE CertInv'
<1>1. CertTypes /\ NodeInv(n) /\ PairAside(n)
  BY CertTypeParts DEF CertInv
<1>2. managed' \in [Nodes -> BOOLEAN]
      /\ UNCHANGED <<store, due, files, backup, loaded, enabled, flagged, run, job, faults, interrupted>>
  BY <1>1 DEF C!Switch, CertTypes
<1>3. CertTypes' /\ NodeInv(n)' /\ PairAside(n)'
  BY <1>1, <1>2, Untouched DEF CertTypes
<1> QED BY <1>2, <1>3, AtNode

\* The panel's pair, the daily run, and the death of the panel.
LEMMA CertPanel ==
  ASSUME C!CertAssumption, CertInv, C!Age \/ C!IssueKey \/ C!IssueCert \/ C!DailyRun \/ C!PanelCrash \/ UNCHANGED C!vars
  PROVE  CertInv'
<1>1. CertTypes /\ \A n \in Nodes : NodeInv(n) /\ PairAside(n)
  BY CertTypeParts DEF CertInv
<1>2. CASE C!PanelCrash
  <2>1. \A n \in Nodes : job'[n] = C!NoJob /\ UNCHANGED <<files[n], backup[n], loaded[n], enabled[n]>>
    BY <1>2 DEF C!PanelCrash
  <2>2. CertTypes'
    BY <1>1, <1>2, PairFacts DEF C!PanelCrash, CertTypes, C!Fault, C!CertAssumption
  <2>3. ASSUME NEW n \in Nodes PROVE NodeInv(n)' /\ PairAside(n)'
    <3>1. flagged' = flagged /\ interrupted' = interrupted \cup {q \in Nodes : job[q] # C!NoJob}
      BY <1>2 DEF C!PanelCrash
    <3>2. job[n].at # "idle" => n \in interrupted'
      BY <3>1, PairFacts
    <3> QED BY <1>1, <2>1, <3>1, <3>2, PairFacts DEF NodeInv, PairAside, KeptPair, Whole, C!HalfMade, NodeTold, C!At
  <2>4. C!TypeOK'
    BY <2>2, <2>3 DEF C!TypeOK, CertTypes, PairAside, CertJobs, CertPlaces
  <2>5. due' => store'.cert < MaxPair
    BY <1>2 DEF C!PanelCrash, CertInv
  <2> QED BY <2>3, <2>4, <2>5 DEF CertInv
<1>3. CASE C!Age \/ C!IssueKey \/ C!IssueCert \/ C!DailyRun \/ UNCHANGED C!vars
  <2>1. UNCHANGED <<managed, files, backup, loaded, enabled, flagged, job, faults, interrupted>>
    BY <1>3 DEF C!Age, C!IssueKey, C!IssueCert, C!DailyRun, C!vars
  <2>2. store' \in C!Pairs /\ due' \in BOOLEAN /\ run' \subseteq Nodes /\ (due' => store'.cert < MaxPair)
    <3>1. store \in C!Pairs /\ due \in BOOLEAN /\ run \subseteq Nodes /\ (due => store.cert < MaxPair) /\ MaxPair \in Nat
      BY <1>1 DEF CertTypes, CertInv, C!CertAssumption
    <3>2. CASE C!IssueKey
      <4>1. store.cert \in 0 .. MaxPair /\ store.key + 1 \in 0 .. MaxPair /\ due
        BY <3>1, <3>2 DEF C!IssueKey, C!Pairs, C!Matches
      <4>2. [store EXCEPT !.key = @ + 1] \in C!Pairs /\ [store EXCEPT !.key = @ + 1].cert = store.cert
        BY <3>1, <4>1 DEF C!Pairs
      <4> QED BY <3>1, <3>2, <4>2 DEF C!IssueKey
    <3>3. CASE C!IssueCert
      <4>1. [store EXCEPT !.cert = store.key] \in C!Pairs
        BY <3>1 DEF C!Pairs
      <4> QED BY <3>1, <3>3, <4>1 DEF C!IssueCert
    <3>4. CASE C!Age \/ C!DailyRun \/ UNCHANGED C!vars
      <4>1. CASE C!Age
        BY <3>1, <4>1 DEF C!Age
      <4>2. CASE C!DailyRun \/ UNCHANGED C!vars
        BY <3>1, <4>2 DEF C!DailyRun, C!vars
      <4> QED BY <3>4, <4>1, <4>2
    <3> QED BY <1>3, <3>2, <3>3, <3>4
  <2>3. CertTypes'
    BY <1>1, <2>1, <2>2 DEF CertTypes
  <2>4. \A n \in Nodes : NodeInv(n)' /\ PairAside(n)'
    BY <1>1, <2>1 DEF NodeInv, PairAside, KeptPair, Whole, C!HalfMade, NodeTold, C!At
  <2>5. C!TypeOK'
    BY <2>3, <2>4 DEF C!TypeOK, CertTypes, PairAside, CertJobs, CertPlaces
  <2> QED BY <2>2, <2>4, <2>5 DEF CertInv
<1> QED BY <1>2, <1>3

\* A node's files are of one pair or one is kept beside them, but for a self-signed pair of
\* which only the key was made; and a service is down only during a job, when somebody was
\* told, or after a job broke off (copy, activate and revert of a delivery).
THEOREM CertsAreSafe == ASSUME C!CertAssumption PROVE C!Spec => [](C!TypeOK /\ C!StartsAgain /\ C!NeverDown)
<1>1. CertInv /\ [C!Next]_(C!vars) => CertInv'
  BY CertBegin, CertCopy, CertCompare, CertActivate, CertRevert, CertRestart, CertUndoFails, CertLife, CertGenerate, CertSwitch, CertPanel
     DEF C!Next, C!Step
<1>2. CertInv => C!TypeOK /\ C!StartsAgain /\ C!NeverDown
  BY PairFacts DEF CertInv, NodeInv, C!StartsAgain, C!NeverDown, NodeTold, KeptPair, Whole, C!HalfMade, C!At
<1> QED BY CertInit, <1>1, <1>2, PTL DEF C!Spec

-----------------------------------------------------------------------------
(* The address of a chain's exit, for any resolvers, limit and number of     *)
(* faults. That Candidates, which the code builds with a Map and a sort,     *)
(* yields distinct addresses is a hypothesis: it is about SelectSeq, that is *)
(* about every sequence, which takes an induction over data. The invariant   *)
(* says that no candidate is forgotten, and none is probed twice in a round. *)
CONSTANTS V4, V6, MaxCandidates
VARIABLES own, others, ahead, retry, round, up, probe, seen, count, processes, result
E == INSTANCE ExitSelection

Known == E!ToSet(E!Candidates(own, others))

\* Before its last word, the selection has not forgotten a candidate, and probes none twice
\* in a round.
Going ==
    /\ probe # "none" => result = "none" /\ count[probe] = round
    /\ \A a \in E!ToSet(ahead) : count[a] = round - 1
    /\ round = 1 => probe \notin E!ToSet(retry) /\ \A a \in E!ToSet(retry) : count[a] = 1
    /\ \A a \in Known : \/ a = probe \/ a \in E!ToSet(ahead) \/ seen[a] = "refused"
                        \/ round = 1 /\ a \in E!ToSet(retry)
                        \/ round = 2 /\ count[a] = 2

ExitTypes ==
    /\ own \in E!Answers(2) /\ others \in E!Answers(2)
    /\ ahead \in Seq(E!Addresses) /\ retry \in Seq(E!Addresses) /\ E!IsInjective(ahead) /\ E!IsInjective(retry)
    /\ E!ToSet(ahead) \cup E!ToSet(retry) \subseteq Known /\ round \in {1, 2}
    /\ up \subseteq E!Addresses /\ probe \in Known \cup {"none"}
    /\ seen \in [E!Addresses -> {"none", "reached", "transient", "refused"}]
    /\ count \in [E!Addresses -> 0 .. 2] /\ processes \subseteq E!Addresses
    /\ result \in Known \cup {"none", "unavailable", "broken"} /\ faults \in 0 .. MaxFaults
    /\ Known \subseteq E!Addresses

ExitInv ==
    /\ ExitTypes /\ (result = "none" => Going) /\ (result # "none" => probe = "none")
    /\ E!PinnedWasReached /\ E!GivenUpAfterAll /\ E!NoLeftover

LEMMA TailFacts ==
  ASSUME NEW S, NEW s \in Seq(S), s # <<>>, E!IsInjective(s)
  PROVE  /\ Tail(s) \in Seq(S) /\ E!IsInjective(Tail(s)) /\ Head(s) \in E!ToSet(s) /\ Head(s) \in S
         /\ E!ToSet(Tail(s)) = E!ToSet(s) \ {Head(s)}
<1>1. /\ Len(s) \in Nat \ {0} /\ DOMAIN s = 1 .. Len(s) /\ Tail(s) \in Seq(S) /\ Len(Tail(s)) = Len(s) - 1
      /\ \A i \in 1 .. Len(s) - 1 : Tail(s)[i] = s[i + 1]
      /\ Head(s) = s[1] /\ DOMAIN Tail(s) = 1 .. Len(s) - 1
  OBVIOUS
<1>2. E!IsInjective(Tail(s))
  BY <1>1 DEF E!IsInjective
<1>3. Head(s) \in E!ToSet(s) /\ Head(s) \in S
  BY <1>1 DEF E!ToSet
<1>4. ASSUME NEW a \in E!ToSet(Tail(s)) PROVE a \in E!ToSet(s) \ {Head(s)}
  BY <1>1 DEF E!ToSet, E!IsInjective
<1>5. ASSUME NEW a \in E!ToSet(s) \ {Head(s)} PROVE a \in E!ToSet(Tail(s))
  <2>1. PICK i \in 1 .. Len(s) : a = s[i] /\ i # 1
    BY <1>1 DEF E!ToSet
  <2>2. i - 1 \in 1 .. Len(s) - 1 /\ Tail(s)[i - 1] = s[i]
    BY <1>1, <2>1
  <2> QED BY <1>1, <2>1, <2>2 DEF E!ToSet
<1> QED BY <1>1, <1>2, <1>3, <1>4, <1>5

LEMMA AppendFacts ==
  ASSUME NEW S, NEW s \in Seq(S), NEW a \in S, E!IsInjective(s), a \notin E!ToSet(s)
  PROVE  /\ Append(s, a) \in Seq(S) /\ E!IsInjective(Append(s, a))
         /\ E!ToSet(Append(s, a)) = E!ToSet(s) \cup {a}
<1>1. /\ Len(s) \in Nat /\ DOMAIN s = 1 .. Len(s) /\ Append(s, a) \in Seq(S) /\ Len(Append(s, a)) = Len(s) + 1
      /\ DOMAIN Append(s, a) = 1 .. Len(s) + 1
      /\ \A i \in 1 .. Len(s) : Append(s, a)[i] = s[i]
      /\ Append(s, a)[Len(s) + 1] = a
  OBVIOUS
<1>2. E!IsInjective(Append(s, a))
  BY <1>1 DEF E!IsInjective, E!ToSet
<1>3. ASSUME NEW b \in E!ToSet(Append(s, a)) PROVE b \in E!ToSet(s) \cup {a}
  BY <1>1 DEF E!ToSet
<1>4. ASSUME NEW b \in E!ToSet(s) \cup {a} PROVE b \in E!ToSet(Append(s, a))
  BY <1>1 DEF E!ToSet
<1> QED BY <1>1, <1>2, <1>3, <1>4

LEMMA ExitStart == ASSUME E!SelectionAssumption, E!CandidatesDiffer PROVE E!Init => ExitInv
<1> SUFFICES ASSUME E!Init PROVE ExitInv
  OBVIOUS
<1>1. /\ own \in E!Answers(2) /\ others \in E!Answers(2) /\ ahead = E!Candidates(own, others)
      /\ ahead \in Seq(E!Addresses) /\ E!IsInjective(ahead)
  BY DEF E!Init, E!CandidatesDiffer
<1>2. Known \subseteq E!Addresses /\ E!ToSet(ahead) = Known
  BY <1>1 DEF Known, E!ToSet
<1>3. retry = <<>> /\ retry \in Seq(E!Addresses) /\ E!IsInjective(retry) /\ E!ToSet(retry) = {}
  BY DEF E!Init, E!IsInjective, E!ToSet
<1>4. result \in {"none", "unavailable"} /\ (result = "unavailable" => ahead = <<>> /\ Known = {})
  BY <1>1, <1>2 DEF E!Init, E!ToSet
<1>5. ExitTypes
  BY <1>1, <1>2, <1>3, <1>4 DEF E!Init, ExitTypes, E!SelectionAssumption
<1>6. Going
  BY <1>2, <1>3 DEF E!Init, Going
<1>7. E!PinnedWasReached /\ E!GivenUpAfterAll /\ E!NoLeftover
  <2>1. result \notin E!Addresses
    BY <1>4 DEF E!SelectionAssumption, E!Addresses
  <2> QED BY <1>4, <2>1 DEF E!Init, E!PinnedWasReached, E!GivenUpAfterAll, E!NoLeftover, Known
<1> QED BY <1>5, <1>6, <1>7 DEF ExitInv, E!Init

LEMMA ExitStep == ASSUME E!SelectionAssumption, E!CandidatesDiffer PROVE ExitInv /\ [E!Next]_(E!vars) => ExitInv'
<1> SUFFICES ASSUME ExitInv, [E!Next]_(E!vars) PROVE ExitInv'
  OBVIOUS
<1>w. "none" \notin E!Addresses /\ "unavailable" \notin E!Addresses /\ "broken" \notin E!Addresses /\ MaxFaults \in Nat
  BY DEF E!SelectionAssumption, E!Addresses
<1>t. ExitTypes
  BY DEF ExitInv
<1>k. Known' = Known
  BY DEF E!Next, E!ProbeBegin, E!ProbeEnd, E!SessionBreaks, E!RoundEnds, E!Flap, E!input, E!vars, Known
<1>1. CASE E!ProbeBegin
  <2>1. /\ Tail(ahead) \in Seq(E!Addresses) /\ E!IsInjective(Tail(ahead)) /\ Head(ahead) \in E!ToSet(ahead)
        /\ E!ToSet(Tail(ahead)) = E!ToSet(ahead) \ {Head(ahead)}
    BY <1>1, <1>t, TailFacts DEF E!ProbeBegin, ExitTypes
  <2>a. PICK a : a = Head(ahead)
    OBVIOUS
  <2>b. /\ probe' = a /\ ahead' = Tail(ahead) /\ processes' = processes \cup {a}
        /\ count' = [count EXCEPT ![a] = IF @ < 3 THEN @ + 1 ELSE @]
        /\ UNCHANGED <<own, others, retry, round, up, seen, result, faults>>
    BY <1>1, <2>a DEF E!ProbeBegin, E!input
  <2>2. a \in Known /\ a \in E!Addresses /\ count[a] = round - 1 /\ result = "none" /\ Going /\ E!NoLeftover
    BY <1>1, <2>1, <2>a, <1>t DEF E!ProbeBegin, ExitInv, Going, ExitTypes
  <2>3. count' = [count EXCEPT ![a] = round]
    <3>1. count[a] \in {0, 1} /\ count[a] + 1 = round
      BY <2>2, <1>t DEF ExitTypes
    <3>2. (IF count[a] < 3 THEN count[a] + 1 ELSE count[a]) = round
      BY <3>1
    <3> QED BY <2>b, <3>2
  <2>4. ExitTypes'
    <3>1. count' \in [E!Addresses -> 0 .. 2] /\ round \in 0 .. 2
      BY <1>t, <2>2, <2>3 DEF ExitTypes
    <3>2. ahead' \in Seq(E!Addresses) /\ E!IsInjective(ahead') /\ E!ToSet(ahead') \subseteq Known
      BY <1>t, <2>1, <2>b DEF ExitTypes
    <3>3. retry' \in Seq(E!Addresses) /\ E!IsInjective(retry') /\ E!ToSet(retry') \subseteq Known
      BY <1>t, <2>b DEF ExitTypes
    <3> QED BY <1>t, <1>k, <2>2, <2>b, <3>1, <3>2, <3>3 DEF ExitTypes
  <2>5. Going'
    <3>1. \A b \in E!ToSet(ahead) : b \in E!Addresses /\ (b # a => count'[b] = count[b])
      BY <1>t, <2>3 DEF ExitTypes
    <3>2. count'[a] = round /\ round \in {1, 2}
      BY <1>t, <2>2, <2>3 DEF ExitTypes
    <3>3. round = 1 => a \notin E!ToSet(retry) /\ \A b \in E!ToSet(retry) : count'[b] = 1
      BY <1>t, <2>2, <2>3 DEF Going, ExitTypes
    <3>4. \A b \in Known : \/ b = a \/ b \in E!ToSet(ahead) \ {a} \/ seen[b] = "refused"
                           \/ round = 1 /\ b \in E!ToSet(retry)
                           \/ round = 2 /\ count'[b] = 2
      BY <1>t, <1>w, <1>1, <2>2, <2>3 DEF Going, ExitTypes, E!ProbeBegin
    <3> QED BY <1>k, <2>1, <2>2, <2>a, <2>b, <3>1, <3>2, <3>3, <3>4, <1>t DEF Going, ExitTypes
  <2>6. (E!PinnedWasReached /\ E!GivenUpAfterAll /\ E!NoLeftover)'
    <3>1. processes = {}
      BY <1>1, <1>t, <1>w, <2>2 DEF E!ProbeBegin, E!NoLeftover, ExitTypes
    <3> QED BY <1>w, <2>2, <2>b, <3>1 DEF E!PinnedWasReached, E!GivenUpAfterAll, E!NoLeftover
  <2> QED BY <2>2, <2>b, <2>4, <2>5, <2>6 DEF ExitInv
<1>2. CASE E!ProbeEnd
  <2>0. Going /\ E!NoLeftover /\ result = "none" /\ count[probe] = round /\ probe \in Known /\ probe \in E!Addresses
    BY <1>2, <1>t DEF E!ProbeEnd, ExitInv, Going, ExitTypes
  <2>1. PICK outcome \in {"reached", "transient", "refused"} :
            /\ seen' = [seen EXCEPT ![probe] = outcome]
            /\ retry' = IF round = 1 /\ outcome = "transient" THEN Append(retry, probe) ELSE retry
            /\ result' = IF outcome = "reached" THEN probe ELSE result
    BY <1>2 DEF E!ProbeEnd, E!Pinned
  <2>2. /\ processes' = processes \ {probe} /\ probe' = "none"
        /\ UNCHANGED <<own, others, ahead, round, up, count, faults>>
    BY <1>2 DEF E!ProbeEnd, E!Cleanup, E!input
  <2>3. /\ retry' \in Seq(E!Addresses) /\ E!IsInjective(retry')
        /\ E!ToSet(retry') = IF round = 1 /\ outcome = "transient" THEN E!ToSet(retry) \cup {probe} ELSE E!ToSet(retry)
    <3>1. CASE round = 1 /\ outcome = "transient"
      BY <3>1, <2>0, <2>1, <1>t, AppendFacts DEF Going, ExitTypes
    <3>2. CASE ~(round = 1 /\ outcome = "transient")
      BY <3>2, <2>1, <1>t DEF ExitTypes
    <3> QED BY <3>1, <3>2
  <2>4. ExitTypes'
    BY <1>t, <1>k, <2>0, <2>1, <2>2, <2>3 DEF ExitTypes
  <2>5. result' = "none" => Going'
    <3> SUFFICES ASSUME result' = "none" PROVE Going'
      OBVIOUS
    <3>1. outcome \in {"transient", "refused"} /\ seen'[probe] = outcome /\ \A b \in Known \ {probe} : seen'[b] = seen[b]
      BY <1>w, <1>t, <2>0, <2>1 DEF ExitTypes
    <3>2. round = 1 => probe' \notin E!ToSet(retry') /\ \A b \in E!ToSet(retry') : count'[b] = 1
      BY <1>w, <1>t, <2>0, <2>2, <2>3, <2>4 DEF Going, ExitTypes
    <3>3. \A b \in Known : \/ b \in E!ToSet(ahead) \/ seen'[b] = "refused"
                           \/ round = 1 /\ b \in E!ToSet(retry')
                           \/ round = 2 /\ count[b] = 2
      BY <1>t, <2>0, <2>3, <3>1 DEF Going, ExitTypes
    <3> QED BY <1>k, <2>0, <2>2, <3>2, <3>3 DEF Going
  <2>6. E!PinnedWasReached'
    <3>1. outcome = "reached" => seen'[probe] = "reached"
      BY <1>t, <2>0, <2>1 DEF ExitTypes
    <3> QED BY <1>w, <1>k, <2>0, <2>1, <3>1 DEF E!PinnedWasReached, Known
  <2>7. (E!GivenUpAfterAll /\ E!NoLeftover)'
    BY <1>w, <2>0, <2>1, <2>2 DEF E!GivenUpAfterAll, E!NoLeftover
  <2> QED BY <2>2, <2>4, <2>5, <2>6, <2>7 DEF ExitInv
<1>3. CASE E!SessionBreaks
  <2>1. ExitTypes'
    BY <1>3, <1>t, <1>k, <1>w DEF E!SessionBreaks, ExitTypes, E!input
  <2>2. (E!PinnedWasReached /\ E!GivenUpAfterAll /\ E!NoLeftover)' /\ result' # "none" /\ probe' = "none"
    BY <1>3, <1>w DEF E!SessionBreaks, E!PinnedWasReached, E!GivenUpAfterAll, E!NoLeftover
  <2> QED BY <2>1, <2>2 DEF ExitInv
<1>4. CASE E!RoundEnds
  <2>0. Going /\ E!NoLeftover /\ result = "none" /\ probe = "none" /\ ahead = <<>> /\ E!ToSet(ahead) = {}
    BY <1>4 DEF E!RoundEnds, ExitInv, E!ToSet
  <2>1. CASE E!NothingToRetry /\ result' = "unavailable" /\ UNCHANGED <<ahead, round>>
    <3>1. round = 1 => E!ToSet(retry) = {}
      BY <2>1 DEF E!NothingToRetry, E!ToSet
    <3>2. \A a \in Known : seen[a] = "refused" \/ count[a] = 2
      BY <1>t, <1>w, <2>0, <3>1 DEF Going, ExitTypes
    <3>3. E!GivenUpAfterAll'
      BY <1>4, <3>2 DEF E!RoundEnds, E!GivenUpAfterAll, Known, E!input
    <3>4. ExitTypes' /\ E!PinnedWasReached' /\ E!NoLeftover'
      BY <1>4, <1>t, <1>w, <1>k, <2>0, <2>1 DEF E!RoundEnds, ExitTypes, E!PinnedWasReached, E!NoLeftover, E!input
    <3> QED BY <1>4, <2>0, <2>1, <3>3, <3>4 DEF E!RoundEnds, ExitInv
  <2>2. CASE ~E!NothingToRetry /\ ahead' = retry /\ round' = 2 /\ UNCHANGED result
    <3>1. round = 1
      BY <2>2, <1>t DEF E!NothingToRetry, ExitTypes
    <3>2. ExitTypes'
      BY <1>4, <1>t, <1>k, <2>2 DEF E!RoundEnds, ExitTypes, E!input
    <3>3. Going'
      BY <1>4, <1>t, <1>k, <1>w, <2>0, <2>2, <3>1 DEF E!RoundEnds, ExitTypes, Going, E!input
    <3>4. (E!PinnedWasReached /\ E!GivenUpAfterAll /\ E!NoLeftover)'
      BY <1>4, <1>w, <2>0, <2>2 DEF E!RoundEnds, E!PinnedWasReached, E!GivenUpAfterAll, E!NoLeftover
    <3> QED BY <1>4, <2>0, <2>2, <3>2, <3>3, <3>4 DEF E!RoundEnds, ExitInv
  <2> QED BY <1>4, <2>1, <2>2 DEF E!RoundEnds
<1>5. ASSUME NEW a \in E!Addresses, E!Flap(a) PROVE ExitInv'
  <2>1. Going /\ E!NoLeftover /\ result = "none"
    BY <1>5 DEF E!Flap, ExitInv
  <2>2. ExitTypes'
    BY <1>5, <1>t, <1>k DEF E!Flap, ExitTypes, E!input
  <2>3. Going'
    BY <1>5, <1>k, <2>1 DEF E!Flap, Going, E!input
  <2>4. (E!PinnedWasReached /\ E!GivenUpAfterAll /\ E!NoLeftover)'
    BY <1>5, <1>w, <2>1 DEF E!Flap, E!PinnedWasReached, E!GivenUpAfterAll, E!NoLeftover
  <2> QED BY <1>5, <2>1, <2>2, <2>3, <2>4 DEF E!Flap, ExitInv
<1>6. CASE UNCHANGED E!vars
  BY <1>6, <1>k DEF E!vars, ExitInv, ExitTypes, Going, E!PinnedWasReached, E!GivenUpAfterAll, E!NoLeftover, Known
<1> QED BY <1>1, <1>2, <1>3, <1>4, <1>5, <1>6 DEF E!Next

(* The address that a chain is pinned to was reached, "none is available"    *)
(* comes after every candidate failed for good or twice, and no temporary    *)
(* core is left on the entry, for any resolvers, limit and number of faults. *)
THEOREM ExitIsSafe ==
    ASSUME E!SelectionAssumption, E!CandidatesDiffer
    PROVE  E!Spec => [](E!TypeOK /\ E!PinnedWasReached /\ E!GivenUpAfterAll /\ E!NoLeftover)
<1>1. ExitInv => E!TypeOK /\ E!PinnedWasReached /\ E!GivenUpAfterAll /\ E!NoLeftover
  BY DEF ExitInv, ExitTypes, E!TypeOK, Known
<1> QED BY ExitStart, ExitStep, <1>1, PTL DEF E!Spec
==============================================================================
