--------------------------- MODULE CfOriginProofs ---------------------------
(***************************************************************************)
(* CfOrigin is safe for any number of handlers and faults: nothing of the  *)
(* panel's is left at Cloudflare that no row and no job knows of, a        *)
(* mapping that has been broken for 20 minutes is not exported, and one    *)
(* whose removal has begun is not published again by an audit. The         *)
(* inductive invariant says what a handler may rely on at each of its      *)
(* steps: as long as no lock session was lost, that it is alone at the     *)
(* node, what it has taken away so far, and that the route it will write   *)
(* back is not older than a withdrawal; and always that what it has        *)
(* verified was not wrong. The groups of an exported file follow below.    *)
(***************************************************************************)
EXTENDS CfOrigin, TLAPS

USE OriginAssumption DEF OriginAssumption

\* Of the panel's at Cloudflare.
Ours == edge.dns \in {"ours", "drifted"} \/ edge.tls # "none" \/ edge.rule # "none"

Active(h) == at[h] # "idle"
\* Steps between the row's claim and the last request that makes something.
Making == {"dns", "dnsId", "tls", "tlsId", "rule"}
\* Steps whose copy of the route may still be written to the row with its acceptance.
Keeping == Preparing \cup Verifying \cup {"failed", "install", "audit", "unsound"}
Auditing == {"audit", "reverify", "reready", "unsound"}

Ruled == \A h \in Handlers : copy[h].state = "READY" => "rule" \in copy[h].ids

Sound ==
    /\ row.route.checked = "fresh" => wrong = {}
    /\ \A h \in Handlers :
          /\ copy[h].checked = "fresh" => wrong = {}
          /\ at[h] \in {"verify", "reverify"} => "guard" \notin wrong
          /\ at[h] \in {"ready", "reready"} => wrong = {}

Exclusive == ~lost => \A h \in Handlers : Active(h) => node = h

Owned ==
    /\ job # "none" => row = Gone
    /\ \A h \in Handlers : at[h] \in Preparing \cup {"failed"} => copy[h].state # "NONE"
    /\ ~lost => \A h \in Handlers :
          /\ at[h] \in Making => row.route.state \notin {"NONE", "GONE"}
          /\ at[h] \in {"untls", "undns"} => edge.rule = "none"
          /\ at[h] = "undns" => edge.tls = "none"
          /\ at[h] = "drop" => ~Ours

Kept ==
    ~lost =>
        /\ row.route.checked # "never" => accepted
        /\ \A h \in Handlers :
              /\ at[h] \in Keeping /\ copy[h].checked # "never" => accepted
              /\ at[h] \in Auditing => accepted

IInv == TypeOK /\ Ruled /\ Sound /\ Exclusive /\ Owned /\ Claimed /\ Kept

-----------------------------------------------------------------------------
(* The operators, and parts of the type invariant *)

\* What the updates of a route leave as it was.
LEMMA RouteOps ==
  ASSUME NEW r \in Routes, NEW x \in {"tls", "rule"}
  PROVE  /\ Knows(r, x) \in Routes /\ Knows(r, x).state = r.state /\ Knows(r, x).checked = r.checked /\ Knows(r, x).ids = r.ids \cup {x}
         /\ Ruling(r) \in Routes /\ Ruling(r).state = "CONFIGURED" /\ Ruling(r).checked = r.checked /\ "rule" \in Ruling(r).ids
         /\ Error(r) \in Routes /\ Error(r).state = "ERROR" /\ Error(r).checked = r.checked
         /\ Accepted(r) \in Routes /\ Accepted(r).state = "READY" /\ Accepted(r).checked = "fresh" /\ "rule" \in Accepted(r).ids
         /\ Withdrawn(r) \in Routes /\ Withdrawn(r).state = "CONFIGURED" /\ Withdrawn(r).checked = "never"
<1>1. Knows(r, x) \in Routes /\ Knows(r, x).state = r.state /\ Knows(r, x).checked = r.checked /\ Knows(r, x).ids = r.ids \cup {x}
  BY DEF Knows, Routes, RouteIn
<1>2. Knows(r, "rule") \in Routes /\ Knows(r, "rule").checked = r.checked /\ Knows(r, "rule").ids = r.ids \cup {"rule"}
  BY DEF Knows, Routes, RouteIn
<1>3. Ruling(r) \in Routes /\ Ruling(r).state = "CONFIGURED" /\ Ruling(r).checked = r.checked /\ "rule" \in Ruling(r).ids
  <2> DEFINE k == Knows(r, "rule")
  <2>1. k \in Routes /\ k.checked = r.checked /\ "rule" \in k.ids BY <1>2
  <2>2. Ruling(r) = [k EXCEPT !.state = "CONFIGURED"] BY DEF Ruling
  <2> HIDE DEF k
  <2> QED BY <2>1, <2>2 DEF Routes, RouteIn, States
<1>4. Error(r) \in Routes /\ Error(r).state = "ERROR" /\ Error(r).checked = r.checked
  BY DEF Error, Routes, RouteIn, States
<1>5. Accepted(r) \in Routes /\ Accepted(r).state = "READY" /\ Accepted(r).checked = "fresh" /\ "rule" \in Accepted(r).ids
  <2> DEFINE k == Knows(r, "rule")
  <2>1. k \in Routes /\ "rule" \in k.ids BY <1>2
  <2>2. Accepted(r) = [k EXCEPT !.state = "READY", !.checked = "fresh"] BY DEF Accepted
  <2>3. Accepted(r) = [state |-> "READY", checked |-> "fresh", ids |-> k.ids]
    <3> HIDE DEF k
    <3> QED BY <2>1, <2>2 DEF Routes, RouteIn, States
  <2> HIDE DEF k
  <2> QED BY <2>1, <2>3 DEF Routes, RouteIn, States
<1>6. Withdrawn(r) \in Routes /\ Withdrawn(r).state = "CONFIGURED" /\ Withdrawn(r).checked = "never"
  <2>1. Withdrawn(r) = [r EXCEPT !.state = "CONFIGURED", !.checked = "never"]
    BY DEF Withdrawn
  <2>2. r = [state |-> r.state, checked |-> r.checked, ids |-> r.ids]
    BY DEF Routes, RouteIn
  <2> QED
    BY <2>1, <2>2 DEF Routes, RouteIn, States
<1> QED BY <1>1, <1>3, <1>4, <1>5, <1>6


\* What is verified is not wrong, but for the guard, and a guard that is there neither.
LEMMA NothingWrong ==
  ASSUME edge \in Edges, wrong \subseteq Wrong(edge), Verified, "guard" \notin wrong
  PROVE  wrong = {}
  BY DEF Edges, Wrong, Flaw, Verified, Reached

LEMMA Guarded ==
  ASSUME edge \in Edges, wrong \subseteq Wrong(edge), edge.guard
  PROVE  "guard" \notin wrong
  BY DEF Edges, Wrong, Flaw

LEMMA GuardSet ==
  ASSUME edge \in Edges, NEW b \in BOOLEAN
  PROVE  /\ [edge EXCEPT !.guard = b] \in Edges
         /\ [edge EXCEPT !.guard = b].dns = edge.dns
         /\ [edge EXCEPT !.guard = b].tls = edge.tls /\ [edge EXCEPT !.guard = b].rule = edge.rule
         /\ b => "guard" \notin Wrong([edge EXCEPT !.guard = b])
  BY DEF Edges, Wrong, Flaw

EdgeOK == edge \in Edges /\ wrong \subseteq Wrong(edge)
RowOK ==
    /\ row \in Rows /\ (row.route.state = "GONE" => row = Gone)
    /\ row.route.state = "READY" => "rule" \in row.route.ids
WorkOK == at \in [Handlers -> Steps] /\ copy \in [Handlers -> Routes]
LocksOK ==
    /\ node \in Handlers \cup {Nobody} /\ zone \in Handlers \cup {Nobody}
    /\ zone # Nobody => at[zone] \in Preparing \cup Removing \cup {"failed"}
BooksOK == job \in {"none", "PENDING", "DONE"} /\ accepted \in BOOLEAN /\ lost \in BOOLEAN /\ faults \in 0 .. MaxFaults

LEMMA TypeParts == TypeOK <=> EdgeOK /\ RowOK /\ WorkOK /\ LocksOK /\ BooksOK
  BY DEF TypeOK, EdgeOK, RowOK, WorkOK, LocksOK, BooksOK

LEMMA TypePartsNext == TypeOK' <=> EdgeOK' /\ RowOK' /\ WorkOK' /\ LocksOK' /\ BooksOK'
  BY DEF TypeOK, EdgeOK, RowOK, WorkOK, LocksOK, BooksOK

LEMMA EdgeBecomes ==
  ASSUME EdgeOK, NEW e \in Edges, Becomes(e)
  PROVE  EdgeOK' /\ wrong' \subseteq wrong /\ wrong' \subseteq Wrong(e)
  BY DEF EdgeOK, Becomes

\* The row of a node that is not deleted is updated.
LEMMA RowUpdates ==
  ASSUME RowOK, row # Gone,
         row' = [row EXCEPT !.dns = TRUE] \/ row' = [row EXCEPT !.running = TRUE] \/ row' = [row EXCEPT !.running = FALSE]
  PROVE  RowOK' /\ row'.route = row.route
<1>1. row = [route |-> row.route, dns |-> row.dns, running |-> row.running]
  BY DEF RowOK, Rows
<1>2. row'.route = row.route /\ row' \in Rows
  BY <1>1 DEF RowOK, Rows
<1> QED
  BY <1>2 DEF RowOK

LEMMA RowWritten ==
  ASSUME RowOK, NEW r \in Routes, r.state = "READY" => "rule" \in r.ids, row' = [row EXCEPT !.route = r]
  PROVE  RowOK' /\ row'.route = r
<1>1. row = [route |-> row.route, dns |-> row.dns, running |-> row.running] /\ row' = [row EXCEPT !.route = r]
  BY DEF RowOK, Rows
<1>2. row' = [route |-> r, dns |-> row.dns, running |-> row.running]
  BY <1>1
<1>3. row' \in Rows /\ row'.route = r
  BY <1>2 DEF RowOK, Rows, Routes, RouteIn
<1> QED
  BY <1>3 DEF RowOK, Routes, RouteIn, States

LEMMA RowGone == Gone \in Rows /\ Gone.route.state = "GONE" /\ Gone.route.checked = "never"
  BY DEF Gone, Rows, RouteIn, States

-----------------------------------------------------------------------------
(* The initial states, and each action *)

LEMMA InitInv == Init => IInv
<1> SUFFICES ASSUME Init PROVE IInv
  OBVIOUS
<1>1. EdgeOK
  BY DEF Init, EdgeOK, Edges
<1>2. RowOK
  BY DEF Init, RowOK, Rows, RouteIn, States, NoRow, NoRoute, Gone
<1>3. WorkOK
  BY DEF Init, WorkOK, Steps, Routes, RouteIn, States, NoRoute
<1>4. LocksOK /\ BooksOK
  <2>1. LocksOK
    BY DEF Init, LocksOK
  <2>2. job = "none" /\ accepted \in BOOLEAN /\ lost \in BOOLEAN /\ faults = 0
    BY Zenon DEF Init
  <2>3. BooksOK
    BY <2>2 DEF BooksOK
  <2> QED
    BY <2>1, <2>3
<1>5. Ruled /\ Sound /\ Exclusive /\ Owned /\ Claimed /\ Kept
  BY DEF Init, Ruled, Sound, Exclusive, Owned, Claimed, Kept, Ours, Active, Making, Keeping, Auditing,
         Preparing, Verifying, NoRow, NoRoute, Gone
<1> QED
  BY <1>1, <1>2, <1>3, <1>4, <1>5, TypeParts DEF IInv

LEMMA DeployBeginInv ==
  ASSUME IInv, NEW h \in Handlers, DeployBegin(h)
  PROVE  IInv'
<1> USE DEF DeployBegin, To, SameEdge, SameLocks, outside, IInv,
         TypeOK, Ruled, Sound, Exclusive, Owned, Claimed, Kept, Ours, Active, Making, Keeping, Auditing,
         Steps, Preparing, Verifying, Removing, Edges, Rows, Routes, RouteIn, States, NoRow, NoRoute, Gone
<1>1. TypeOK'
  BY SMTT(20)
<1>2. Ruled'
  BY SMTT(20)
<1>3. Sound'
  BY SMTT(20)
<1>4. Exclusive'
  BY SMTT(20)
<1>5. Owned'
  BY SMTT(20)
<1>6. Claimed'
  BY SMTT(20)
<1>7. Kept'
  BY SMTT(20)
<1> QED
  BY <1>1, <1>2, <1>3, <1>4, <1>5, <1>6, <1>7 DEF IInv

LEMMA PreflightInv ==
  ASSUME IInv, NEW h \in Handlers, Preflight(h)
  PROVE  IInv'
<1> USE DEF Preflight, Asked, Becomes, Fault, To, SameEdge, SameLocks, outside, IInv,
         TypeOK, Ruled, Sound, Exclusive, Owned, Claimed, Kept, Ours, Active, Making, Keeping, Auditing,
         Steps, Preparing, Verifying, Removing, Edges, Rows, Routes, RouteIn, States, NoRow, NoRoute, Gone
<1>1. TypeOK'
  BY SMTT(20)
<1>2. Ruled'
  BY SMTT(20)
<1>3. Sound'
  BY SMTT(20)
<1>4. Exclusive'
  BY SMTT(20)
<1>5. Owned'
  BY SMTT(20)
<1>6. Claimed'
  BY SMTT(20)
<1>7. Kept'
  BY SMTT(20)
<1> QED
  BY <1>1, <1>2, <1>3, <1>4, <1>5, <1>6, <1>7 DEF IInv

LEMMA IntentInv ==
  ASSUME IInv, NEW h \in Handlers, Intent(h)
  PROVE  IInv'
<1> USE DEF Intent, Writes, To, SameEdge, SameLocks, outside, IInv,
         TypeOK, Ruled, Sound, Exclusive, Owned, Claimed, Kept, Ours, Active, Making, Keeping, Auditing,
         Steps, Preparing, Verifying, Removing, Edges, Rows, Routes, RouteIn, States, NoRow, NoRoute, Gone
<1>1. TypeOK'
  BY SMTT(20)
<1>2. Ruled'
  BY SMTT(20)
<1>3. Sound'
  BY SMTT(20)
<1>4. Exclusive'
  BY SMTT(20)
<1>5. Owned'
  BY SMTT(20)
<1>6. Claimed'
  BY SMTT(20)
<1>7. Kept'
  BY SMTT(20)
<1> QED
  BY <1>1, <1>2, <1>3, <1>4, <1>5, <1>6, <1>7 DEF IInv

LEMMA EnsureDnsInv ==
  ASSUME IInv, NEW h \in Handlers, EnsureDns(h)
  PROVE  IInv'
<1> USE DEF EnsureDns, Asked, Becomes, Fault, To, SameEdge, SameLocks, outside, IInv,
         TypeOK, Ruled, Sound, Exclusive, Owned, Claimed, Kept, Ours, Active, Making, Keeping, Auditing,
         Steps, Preparing, Verifying, Removing, Edges, Rows, Routes, RouteIn, States, NoRow, NoRoute, Gone
<1>1. TypeOK'
  BY SMTT(20)
<1>2. Ruled'
  BY SMTT(20)
<1>3. Sound'
  BY SMTT(20)
<1>4. Exclusive'
  BY SMTT(20)
<1>5. Owned'
  BY SMTT(20)
<1>6. Claimed'
  BY SMTT(20)
<1>7. Kept'
  BY SMTT(20)
<1> QED
  BY <1>1, <1>2, <1>3, <1>4, <1>5, <1>6, <1>7 DEF IInv

LEMMA RecordDnsInv ==
  ASSUME IInv, NEW h \in Handlers, RecordDns(h)
  PROVE  IInv'
<1> USE DEF RecordDns, To, SameEdge, SameLocks, outside, IInv,
         TypeOK, Ruled, Sound, Exclusive, Owned, Claimed, Kept, Ours, Active, Making, Keeping, Auditing,
         Steps, Preparing, Verifying, Removing, Edges, Rows, Routes, RouteIn, States, NoRow, NoRoute, Gone
<1>1. TypeOK'
  <2>1. EdgeOK'
    BY TypeParts, SMTT(20) DEF EdgeOK, RowOK, WorkOK, LocksOK, BooksOK
  <2>2. RowOK'
    <3>1. CASE row = Gone
      BY <3>1, TypeParts DEF RowOK
    <3>2. CASE row # Gone
      <4>1. row' = [row EXCEPT !.dns = TRUE]
        BY <3>2
      <4> QED
        BY <3>2, <4>1, RowUpdates, TypeParts, Zenon
    <3> QED
      BY <3>1, <3>2
  <2>3. WorkOK'
    BY TypeParts, SMTT(20) DEF EdgeOK, RowOK, WorkOK, LocksOK, BooksOK
  <2>4. LocksOK'
    BY TypeParts, SMTT(20) DEF EdgeOK, RowOK, WorkOK, LocksOK, BooksOK
  <2>5. BooksOK'
    BY TypeParts, SMTT(20) DEF EdgeOK, RowOK, WorkOK, LocksOK, BooksOK
  <2> QED
    BY <2>1, <2>2, <2>3, <2>4, <2>5, TypePartsNext
<1>2. Ruled'
  BY SMTT(20)
<1>3. Sound'
  BY SMTT(20)
<1>4. Exclusive'
  BY SMTT(20)
<1>5. Owned'
  BY SMTT(20)
<1>6. Claimed'
  BY SMTT(20)
<1>7. Kept'
  BY SMTT(20)
<1> QED
  BY <1>1, <1>2, <1>3, <1>4, <1>5, <1>6, <1>7 DEF IInv

LEMMA EnsureTlsInv ==
  ASSUME IInv, NEW h \in Handlers, EnsureTls(h)
  PROVE  IInv'
<1> USE DEF EnsureTls, Asked, Becomes, Fault, Ensurable, To, SameEdge, SameLocks, outside, IInv,
         TypeOK, Ruled, Sound, Exclusive, Owned, Claimed, Kept, Ours, Active, Making, Keeping, Auditing,
         Steps, Preparing, Verifying, Removing, Edges, Rows, Routes, RouteIn, States, NoRow, NoRoute, Gone
<1>1. TypeOK'
  BY RouteOps, SMTT(20)
<1>2. Ruled'
  BY RouteOps, SMTT(20)
<1>3. Sound'
  BY RouteOps, SMTT(20)
<1>4. Exclusive'
  BY RouteOps, SMTT(20)
<1>5. Owned'
  BY RouteOps, SMTT(20)
<1>6. Claimed'
  BY RouteOps, SMTT(20)
<1>7. Kept'
  BY RouteOps, SMTT(20)
<1> QED
  BY <1>1, <1>2, <1>3, <1>4, <1>5, <1>6, <1>7 DEF IInv

LEMMA RecordTlsInv ==
  ASSUME IInv, NEW h \in Handlers, RecordTls(h)
  PROVE  IInv'
<1> USE DEF RecordTls, Writes, To, SameEdge, SameLocks, outside, IInv,
         TypeOK, Ruled, Sound, Exclusive, Owned, Claimed, Kept, Ours, Active, Making, Keeping, Auditing,
         Steps, Preparing, Verifying, Removing, Edges, Rows, Routes, RouteIn, States, NoRow, NoRoute, Gone
<1>1. TypeOK'
  BY SMTT(20)
<1>2. Ruled'
  BY SMTT(20)
<1>3. Sound'
  BY SMTT(20)
<1>4. Exclusive'
  BY SMTT(20)
<1>5. Owned'
  BY SMTT(20)
<1>6. Claimed'
  BY SMTT(20)
<1>7. Kept'
  BY SMTT(20)
<1> QED
  BY <1>1, <1>2, <1>3, <1>4, <1>5, <1>6, <1>7 DEF IInv

LEMMA EnsureRuleInv ==
  ASSUME IInv, NEW h \in Handlers, EnsureRule(h)
  PROVE  IInv'
<1> USE DEF EnsureRule, Asked, Becomes, Fault, Ensurable, To, SameEdge, SameLocks, outside, IInv,
         TypeOK, Ruled, Sound, Exclusive, Owned, Claimed, Kept, Ours, Active, Making, Keeping, Auditing,
         Steps, Preparing, Verifying, Removing, Edges, Rows, Routes, RouteIn, States, NoRow, NoRoute, Gone
<1>1. TypeOK'
  BY SMTT(20)
<1>2. Ruled'
  BY SMTT(20)
<1>3. Sound'
  BY SMTT(20)
<1>4. Exclusive'
  BY SMTT(20)
<1>5. Owned'
  BY SMTT(20)
<1>6. Claimed'
  BY SMTT(20)
<1>7. Kept'
  BY SMTT(20)
<1> QED
  BY <1>1, <1>2, <1>3, <1>4, <1>5, <1>6, <1>7 DEF IInv

LEMMA ConfiguredInv ==
  ASSUME IInv, NEW h \in Handlers, Configured(h)
  PROVE  IInv'
<1>0. LocksOK'
  <2>1. /\ at[h] = "configured" /\ node' = node
        /\ zone' = IF at'[h] = "failed" THEN zone ELSE Releases(zone, h)
        /\ \E x \in {"failed", "install", "bad"} : at' = [at EXCEPT ![h] = x]
    BY Zenon DEF Configured, Writes, To
  <2>2. PICK x \in {"failed", "install", "bad"} : at' = [at EXCEPT ![h] = x]
    BY <2>1
  <2>3. at'[h] = x
    BY <2>2, TypeParts DEF IInv, WorkOK
  <2> QED
    BY <2>1, <2>2, <2>3, TypeParts DEF IInv, LocksOK, WorkOK, Releases
<1> USE DEF Configured, Writes, To, SameEdge, SameLocks, outside, IInv,
         TypeOK, Ruled, Sound, Exclusive, Owned, Claimed, Kept, Ours, Active, Making, Keeping, Auditing,
         Steps, Preparing, Verifying, Removing, Edges, Rows, Routes, RouteIn, States, NoRow, NoRoute, Gone
<1>1. TypeOK'
  <2>1. EdgeOK'
    BY TypeParts, RouteOps, SMTT(20) DEF EdgeOK, RowOK, WorkOK, LocksOK, BooksOK
  <2>2. RowOK'
    BY TypeParts, RouteOps, SMTT(20) DEF EdgeOK, RowOK, WorkOK, LocksOK, BooksOK
  <2>3. WorkOK'
    BY TypeParts, RouteOps, SMTT(20) DEF EdgeOK, RowOK, WorkOK, LocksOK, BooksOK
  <2>4. BooksOK'
    BY TypeParts, RouteOps, SMTT(20) DEF EdgeOK, RowOK, WorkOK, LocksOK, BooksOK
  <2> QED
    BY <1>0, <2>1, <2>2, <2>3, <2>4, TypePartsNext
<1>2. Ruled'
  BY RouteOps, SMTT(20)
<1>3. Sound'
  BY RouteOps, SMTT(20)
<1>4. Exclusive'
  BY RouteOps, SMTT(20)
<1>5. Owned'
  BY RouteOps, SMTT(20)
<1>6. Claimed'
  BY RouteOps, SMTT(20)
<1>7. Kept'
  BY RouteOps, SMTT(20)
<1> QED
  BY <1>1, <1>2, <1>3, <1>4, <1>5, <1>6, <1>7 DEF IInv

LEMMA FailedInv ==
  ASSUME IInv, NEW h \in Handlers, Failed(h)
  PROVE  IInv'
<1> USE DEF Failed, Writes, Ends, Releases, To, SameEdge, SameLocks, outside, IInv,
         TypeOK, Ruled, Sound, Exclusive, Owned, Claimed, Kept, Ours, Active, Making, Keeping, Auditing,
         Steps, Preparing, Verifying, Removing, Edges, Rows, Routes, RouteIn, States, NoRow, NoRoute, Gone
<1>1. TypeOK'
  BY RouteOps, SMTT(20)
<1>2. Ruled'
  BY RouteOps, SMTT(20)
<1>3. Sound'
  BY RouteOps, SMTT(20)
<1>4. Exclusive'
  BY RouteOps, SMTT(20)
<1>5. Owned'
  BY RouteOps, SMTT(20)
<1>6. Claimed'
  BY RouteOps, SMTT(20)
<1>7. Kept'
  BY RouteOps, SMTT(20)
<1> QED
  BY <1>1, <1>2, <1>3, <1>4, <1>5, <1>6, <1>7 DEF IInv

LEMMA InstallInv ==
  ASSUME IInv, NEW h \in Handlers, Install(h)
  PROVE  IInv'
<1> DEFINE e == [edge EXCEPT !.guard = TRUE]
<1>1. at[h] = "install" /\ UNCHANGED <<row, copy, node, zone, job, accepted, lost, faults>>
  BY DEF Install, SameLocks, outside
<1>2. (Becomes(e) /\ To(h, "verify")) \/ (SameEdge /\ To(h, "bad"))
  BY Zenon DEF Install
<1>3. e \in Edges /\ e.dns = edge.dns /\ e.tls = edge.tls /\ e.rule = edge.rule /\ "guard" \notin Wrong(e)
  BY GuardSet, TypeParts DEF IInv, EdgeOK
<1> HIDE DEF e
<1>4. /\ EdgeOK' /\ wrong' \subseteq wrong
      /\ edge'.dns = edge.dns /\ edge'.tls = edge.tls /\ edge'.rule = edge.rule
      /\ (To(h, "verify") /\ "guard" \notin wrong') \/ To(h, "bad")
  BY <1>2, <1>3, EdgeBecomes, TypeParts DEF Becomes, SameEdge, IInv, EdgeOK
<1> USE <1>1, <1>4 DEF To, IInv
<1>5. RowOK' /\ WorkOK' /\ LocksOK' /\ BooksOK'
  BY TypeParts DEF RowOK, WorkOK, LocksOK, BooksOK, Steps, Preparing, Verifying, Removing
<1>6. Ruled' /\ Sound'
  BY TypeParts DEF Ruled, Sound, WorkOK
<1>7. Exclusive'
  BY TypeParts DEF Exclusive, Active, WorkOK
<1>8. Owned'
  BY TypeParts DEF Owned, Ours, WorkOK, Preparing, Making
<1>9. Claimed' /\ Kept'
  BY TypeParts DEF Claimed, Kept, WorkOK, Keeping, Auditing, Preparing, Verifying
<1> QED
  BY <1>4, <1>5, <1>6, <1>7, <1>8, <1>9, TypePartsNext DEF IInv

LEMMA VerifyInv ==
  ASSUME IInv, NEW h \in Handlers, Verify(h)
  PROVE  IInv'
<1> USE DEF Verify, Asked, Becomes, Fault, To, SameEdge, SameLocks, outside, IInv,
         TypeOK, Ruled, Sound, Exclusive, Owned, Claimed, Kept, Ours, Active, Making, Keeping, Auditing,
         Steps, Preparing, Verifying, Removing, Edges, Rows, Routes, RouteIn, States, NoRow, NoRoute, Gone
<1>1. TypeOK'
  BY NothingWrong, SMTT(20)
<1>2. Ruled'
  BY NothingWrong, SMTT(20)
<1>3. Sound'
  BY NothingWrong, SMTT(20)
<1>4. Exclusive'
  BY NothingWrong, SMTT(20)
<1>5. Owned'
  BY NothingWrong, SMTT(20)
<1>6. Claimed'
  BY NothingWrong, SMTT(20)
<1>7. Kept'
  BY NothingWrong, SMTT(20)
<1> QED
  BY <1>1, <1>2, <1>3, <1>4, <1>5, <1>6, <1>7 DEF IInv

LEMMA ReadyInv ==
  ASSUME IInv, NEW h \in Handlers, Ready(h)
  PROVE  IInv'
<1>0. Kept'
  <2>1. (accepted => accepted') /\ (row # Gone => accepted')
    BY Zenon DEF Ready
  <2>2. row = Gone => row' = row
    BY Zenon DEF Ready, Writes
  <2>3. /\ at[h] = "ready" /\ UNCHANGED <<copy, lost>>
        /\ \E x \in {"good", "bad"} : at' = [at EXCEPT ![h] = x]
    BY Zenon DEF Ready, Writes, To
  <2>4. ~lost' => (row'.route.checked # "never" => accepted')
    BY <2>1, <2>2, RowGone
  <2> QED
    BY <2>1, <2>3, <2>4, TypeParts DEF IInv, Kept, WorkOK, Keeping, Auditing, Preparing, Verifying
<1> USE DEF Ready, Writes, To, SameEdge, SameLocks, outside, IInv,
         TypeOK, Ruled, Sound, Exclusive, Owned, Claimed, Kept, Ours, Active, Making, Keeping, Auditing,
         Steps, Preparing, Verifying, Removing, Edges, Rows, Routes, RouteIn, States, NoRow, NoRoute, Gone
<1>1. TypeOK'
  BY RouteOps, SMTT(20)
<1>2. Ruled'
  BY RouteOps, SMTT(20)
<1>3. Sound'
  BY RouteOps, SMTT(20)
<1>4. Exclusive'
  BY RouteOps, SMTT(20)
<1>5. Owned'
  BY RouteOps, SMTT(20)
<1>6. Claimed'
  BY RouteOps, SMTT(20)
<1> QED
  BY <1>0, <1>1, <1>2, <1>3, <1>4, <1>5, <1>6 DEF IInv

LEMMA DeployEndInv ==
  ASSUME IInv, NEW h \in Handlers, DeployEnd(h)
  PROVE  IInv'
<1>1. at[h] \in {"good", "bad"} /\ Ends(h) /\ UNCHANGED <<edge, wrong, copy, job, accepted, lost, faults>>
  BY DEF DeployEnd, SameEdge, outside
<1>2. RowOK' /\ row'.route = row.route /\ (row = Gone => row' = Gone)
  <2>1. CASE row = Gone
    BY <2>1, TypeParts DEF DeployEnd, IInv, RowOK
  <2>2. CASE row # Gone
    <3>1. row' = [row EXCEPT !.running = TRUE] \/ row' = [row EXCEPT !.running = FALSE]
      BY <2>2 DEF DeployEnd
    <3> QED
      BY <2>2, <3>1, RowUpdates, TypeParts, Zenon DEF IInv
  <2> QED
    BY <2>1, <2>2
<1> USE <1>1, <1>2 DEF Ends, To, Releases, IInv
<1>3. EdgeOK' /\ WorkOK' /\ LocksOK' /\ BooksOK'
  BY TypeParts DEF EdgeOK, WorkOK, LocksOK, BooksOK, Steps, Preparing, Removing
<1>4. Ruled' /\ Sound'
  BY TypeParts DEF Ruled, Sound, WorkOK
<1>5. Exclusive'
  BY TypeParts DEF Exclusive, Active, WorkOK
<1>6. Owned'
  BY TypeParts DEF Owned, Ours, WorkOK, Preparing, Making
<1>7. Claimed' /\ Kept'
  BY TypeParts DEF Claimed, Kept, WorkOK, Keeping, Auditing, Preparing, Verifying
<1> QED
  BY <1>2, <1>3, <1>4, <1>5, <1>6, <1>7, TypePartsNext DEF IInv

LEMMA AuditBeginInv ==
  ASSUME IInv, NEW h \in Handlers, AuditBegin(h)
  PROVE  IInv'
<1> USE DEF AuditBegin, Eligible, To, SameEdge, SameLocks, outside, IInv,
         TypeOK, Ruled, Sound, Exclusive, Owned, Claimed, Kept, Ours, Active, Making, Keeping, Auditing,
         Steps, Preparing, Verifying, Removing, Edges, Rows, Routes, RouteIn, States, NoRow, NoRoute, Gone
<1>1. TypeOK'
  BY SMTT(20)
<1>2. Ruled'
  BY SMTT(20)
<1>3. Sound'
  BY SMTT(20)
<1>4. Exclusive'
  BY SMTT(20)
<1>5. Owned'
  BY SMTT(20)
<1>6. Claimed'
  BY SMTT(20)
<1>7. Kept'
  BY SMTT(20)
<1> QED
  BY <1>1, <1>2, <1>3, <1>4, <1>5, <1>6, <1>7 DEF IInv

LEMMA AuditHostInv ==
  ASSUME IInv, NEW h \in Handlers, AuditHost(h)
  PROVE  IInv'
<1> USE DEF AuditHost, Asked, Becomes, Fault, To, SameEdge, SameLocks, outside, IInv,
         TypeOK, Ruled, Sound, Exclusive, Owned, Claimed, Kept, Ours, Active, Making, Keeping, Auditing,
         Steps, Preparing, Verifying, Removing, Edges, Rows, Routes, RouteIn, States, NoRow, NoRoute, Gone
<1>1. TypeOK'
  BY Guarded, SMTT(20)
<1>2. Ruled'
  BY Guarded, SMTT(20)
<1>3. Sound'
  BY Guarded, SMTT(20)
<1>4. Exclusive'
  BY Guarded, SMTT(20)
<1>5. Owned'
  BY Guarded, SMTT(20)
<1>6. Claimed'
  BY Guarded, SMTT(20)
<1>7. Kept'
  BY Guarded, SMTT(20)
<1> QED
  BY <1>1, <1>2, <1>3, <1>4, <1>5, <1>6, <1>7 DEF IInv

LEMMA AuditEndInv ==
  ASSUME IInv, NEW h \in Handlers, AuditEnd(h)
  PROVE  IInv'
<1> DEFINE r == IF at[h] = "unsound" THEN Error(copy[h]) ELSE Accepted(copy[h])
<1>1. at[h] \in {"reready", "unsound"} /\ Ends(h) /\ UNCHANGED <<edge, wrong, copy, job, accepted, lost, faults>>
  BY DEF AuditEnd, SameEdge, outside
<1>2. /\ r \in Routes /\ (r.state = "READY" => "rule" \in r.ids) /\ r.state \in {"ERROR", "READY"}
      /\ (at[h] = "unsound" /\ r.checked = copy[h].checked) \/ (at[h] = "reready" /\ r.checked = "fresh")
  <2>1. copy[h] \in Routes
    BY TypeParts DEF IInv, WorkOK
  <2>2. CASE at[h] = "unsound"
    <3>1. r = Error(copy[h])
      BY <2>2
    <3> QED
      BY <2>1, <2>2, <3>1, RouteOps, Zenon
  <2>3. CASE at[h] = "reready"
    <3>1. r = Accepted(copy[h])
      BY <2>3
    <3> QED
      BY <2>1, <2>3, <3>1, RouteOps, Zenon
  <2> QED
    BY <1>1, <2>2, <2>3
<1>3. (row = Gone /\ row' = Gone) \/ (row # Gone /\ row' = [row EXCEPT !.route = r])
  <2>1. row' = IF row = Gone THEN row ELSE [row EXCEPT !.route = r]
    BY Zenon DEF AuditEnd
  <2> HIDE DEF r
  <2> QED
    BY <2>1, Zenon
<1> HIDE DEF r
<1>4. RowOK' /\ ((row = Gone /\ row' = Gone) \/ (row # Gone /\ row'.route = r))
  <2>1. CASE row' = [row EXCEPT !.route = r] /\ row # Gone
    BY <1>2, <2>1, RowWritten, TypeParts, Zenon DEF IInv
  <2>2. CASE row = Gone /\ row' = Gone
    BY <2>2, TypeParts, RowGone DEF IInv, RowOK
  <2> QED
    BY <1>3, <2>1, <2>2, Zenon
<1> USE <1>1, <1>2, <1>4 DEF Ends, To, Releases, IInv
<1>5. EdgeOK' /\ WorkOK' /\ LocksOK' /\ BooksOK'
  BY TypeParts DEF EdgeOK, WorkOK, LocksOK, BooksOK, Steps, Preparing, Removing
<1>6. Ruled' /\ Sound'
  BY TypeParts, RowGone DEF Ruled, Sound, WorkOK, Auditing
<1>7. Exclusive'
  BY TypeParts DEF Exclusive, Active, WorkOK
<1>8. Owned'
  BY TypeParts DEF Owned, Ours, WorkOK, RowOK, Preparing, Making
<1>9. Claimed' /\ Kept'
  BY TypeParts, RowGone DEF Claimed, Kept, WorkOK, Keeping, Auditing, Preparing, Verifying
<1> QED
  BY <1>4, <1>5, <1>6, <1>7, <1>8, <1>9, TypePartsNext DEF IInv

LEMMA RemoveBeginInv ==
  ASSUME IInv, NEW h \in Handlers, RemoveBegin(h)
  PROVE  IInv'
<1> USE DEF RemoveBegin, To, SameEdge, SameLocks, outside, IInv,
         TypeOK, Ruled, Sound, Exclusive, Owned, Claimed, Kept, Ours, Active, Making, Keeping, Auditing,
         Steps, Preparing, Verifying, Removing, Edges, Rows, Routes, RouteIn, States, NoRow, NoRoute, Gone
<1>1. TypeOK'
  BY SMTT(20)
<1>2. Ruled'
  BY SMTT(20)
<1>3. Sound'
  BY SMTT(20)
<1>4. Exclusive'
  BY SMTT(20)
<1>5. Owned'
  BY SMTT(20)
<1>6. Claimed'
  BY SMTT(20)
<1>7. Kept'
  BY SMTT(20)
<1> QED
  BY <1>1, <1>2, <1>3, <1>4, <1>5, <1>6, <1>7 DEF IInv

LEMMA WithdrawInv ==
  ASSUME IInv, NEW h \in Handlers, Withdraw(h)
  PROVE  IInv'
<1>0. BooksOK'
  <2>1. job' = job /\ lost' = lost /\ faults' = faults /\ (accepted' = accepted \/ accepted' = FALSE)
    BY Zenon DEF Withdraw
  <2>2. job \in {"none", "PENDING", "DONE"} /\ accepted \in BOOLEAN /\ lost \in BOOLEAN /\ faults \in 0 .. MaxFaults
    BY TypeParts, Zenon DEF IInv, BooksOK
  <2> QED
    BY <2>1, <2>2, Zenon DEF BooksOK
<1> USE DEF Withdraw, Ends, Releases, To, SameEdge, SameLocks, outside, IInv,
         TypeOK, Ruled, Sound, Exclusive, Owned, Claimed, Kept, Ours, Active, Making, Keeping, Auditing,
         Steps, Preparing, Verifying, Removing, Edges, Rows, Routes, RouteIn, States, NoRow, NoRoute, Gone
<1>1. TypeOK'
  <2>1. EdgeOK'
    BY TypeParts, RouteOps, SMTT(20) DEF EdgeOK, RowOK, WorkOK, LocksOK, BooksOK
  <2>2. RowOK'
    BY TypeParts, RouteOps, SMTT(20) DEF EdgeOK, RowOK, WorkOK, LocksOK, BooksOK
  <2>3. WorkOK'
    BY TypeParts, RouteOps, SMTT(20) DEF EdgeOK, RowOK, WorkOK, LocksOK, BooksOK
  <2>4. LocksOK'
    BY TypeParts, RouteOps, SMTT(20) DEF EdgeOK, RowOK, WorkOK, LocksOK, BooksOK
  <2> QED
    BY <1>0, <2>1, <2>2, <2>3, <2>4, TypePartsNext
<1>2. Ruled'
  BY RouteOps, SMTT(20)
<1>3. Sound'
  BY RouteOps, SMTT(20)
<1>4. Exclusive'
  BY RouteOps, SMTT(20)
<1>5. Owned'
  BY RouteOps, SMTT(20)
<1>6. Claimed'
  BY RouteOps, SMTT(20)
<1>7. Kept'
  BY RouteOps, SMTT(20)
<1> QED
  BY <1>1, <1>2, <1>3, <1>4, <1>5, <1>6, <1>7 DEF IInv

LEMMA StopInv ==
  ASSUME IInv, NEW h \in Handlers, Stop(h)
  PROVE  IInv'
<1> DEFINE e == [edge EXCEPT !.guard = FALSE]
<1>1. at[h] = "stop" /\ UNCHANGED <<row, copy, job, accepted, lost, faults>>
  BY DEF Stop, outside
<1>2. (Becomes(e) /\ To(h, "unrule") /\ SameLocks) \/ (SameEdge /\ Ends(h))
  BY Zenon DEF Stop
<1>3. e \in Edges /\ e.dns = edge.dns /\ e.tls = edge.tls /\ e.rule = edge.rule
  BY GuardSet, TypeParts DEF IInv, EdgeOK
<1> HIDE DEF e
<1>4. /\ EdgeOK' /\ wrong' \subseteq wrong
      /\ edge'.dns = edge.dns /\ edge'.tls = edge.tls /\ edge'.rule = edge.rule
  BY <1>2, <1>3, EdgeBecomes, TypeParts DEF Becomes, SameEdge, IInv, EdgeOK
<1>5. (To(h, "unrule") /\ SameLocks) \/ Ends(h)
  BY <1>2
<1> USE <1>1, <1>4, <1>5 DEF To, Ends, Releases, SameLocks, IInv
<1>6. RowOK' /\ WorkOK' /\ LocksOK' /\ BooksOK'
  BY TypeParts DEF RowOK, WorkOK, LocksOK, BooksOK, Steps, Preparing, Verifying, Removing
<1>7. Ruled' /\ Sound'
  BY TypeParts DEF Ruled, Sound, WorkOK
<1>8. Exclusive'
  BY TypeParts DEF Exclusive, Active, WorkOK
<1>9. Owned'
  BY TypeParts DEF Owned, Ours, WorkOK, Preparing, Making
<1>10. Claimed' /\ Kept'
  BY TypeParts DEF Claimed, Kept, WorkOK, Keeping, Auditing, Preparing, Verifying
<1> QED
  BY <1>4, <1>6, <1>7, <1>8, <1>9, <1>10, TypePartsNext DEF IInv

LEMMA WorkBeginInv ==
  ASSUME IInv, NEW h \in Handlers, WorkBegin(h)
  PROVE  IInv'
<1> USE DEF WorkBegin, To, SameEdge, SameLocks, outside, IInv,
         TypeOK, Ruled, Sound, Exclusive, Owned, Claimed, Kept, Ours, Active, Making, Keeping, Auditing,
         Steps, Preparing, Verifying, Removing, Edges, Rows, Routes, RouteIn, States, NoRow, NoRoute, Gone
<1>1. TypeOK'
  BY SMTT(20)
<1>2. Ruled'
  BY SMTT(20)
<1>3. Sound'
  BY SMTT(20)
<1>4. Exclusive'
  BY SMTT(20)
<1>5. Owned'
  BY SMTT(20)
<1>6. Claimed'
  BY SMTT(20)
<1>7. Kept'
  BY SMTT(20)
<1> QED
  BY <1>1, <1>2, <1>3, <1>4, <1>5, <1>6, <1>7 DEF IInv

LEMMA RemoveRuleInv ==
  ASSUME IInv, NEW h \in Handlers, RemoveRule(h)
  PROVE  IInv'
<1> USE DEF RemoveRule, Deletes, Becomes, Fault, Ends, Releases, To, SameEdge, SameLocks, outside, IInv,
         TypeOK, Ruled, Sound, Exclusive, Owned, Claimed, Kept, Ours, Active, Making, Keeping, Auditing,
         Steps, Preparing, Verifying, Removing, Edges, Rows, Routes, RouteIn, States, NoRow, NoRoute, Gone
<1>1. TypeOK'
  BY SMTT(20)
<1>2. Ruled'
  BY SMTT(20)
<1>3. Sound'
  BY SMTT(20)
<1>4. Exclusive'
  BY SMTT(20)
<1>5. Owned'
  BY SMTT(20)
<1>6. Claimed'
  BY SMTT(20)
<1>7. Kept'
  BY SMTT(20)
<1> QED
  BY <1>1, <1>2, <1>3, <1>4, <1>5, <1>6, <1>7 DEF IInv

LEMMA RemoveTlsInv ==
  ASSUME IInv, NEW h \in Handlers, RemoveTls(h)
  PROVE  IInv'
<1> USE DEF RemoveTls, Deletes, Becomes, Fault, Ends, Releases, To, SameEdge, SameLocks, outside, IInv,
         TypeOK, Ruled, Sound, Exclusive, Owned, Claimed, Kept, Ours, Active, Making, Keeping, Auditing,
         Steps, Preparing, Verifying, Removing, Edges, Rows, Routes, RouteIn, States, NoRow, NoRoute, Gone
<1>1. TypeOK'
  BY SMTT(20)
<1>2. Ruled'
  BY SMTT(20)
<1>3. Sound'
  BY SMTT(20)
<1>4. Exclusive'
  BY SMTT(20)
<1>5. Owned'
  BY SMTT(20)
<1>6. Claimed'
  BY SMTT(20)
<1>7. Kept'
  BY SMTT(20)
<1> QED
  BY <1>1, <1>2, <1>3, <1>4, <1>5, <1>6, <1>7 DEF IInv

LEMMA RemoveDnsInv ==
  ASSUME IInv, NEW h \in Handlers, RemoveDns(h)
  PROVE  IInv'
<1> USE DEF RemoveDns, Deletes, Becomes, Fault, Ends, Releases, To, SameEdge, SameLocks, outside, IInv,
         TypeOK, Ruled, Sound, Exclusive, Owned, Claimed, Kept, Ours, Active, Making, Keeping, Auditing,
         Steps, Preparing, Verifying, Removing, Edges, Rows, Routes, RouteIn, States, NoRow, NoRoute, Gone
<1>1. TypeOK'
  BY SMTT(20)
<1>2. Ruled'
  BY SMTT(20)
<1>3. Sound'
  BY SMTT(20)
<1>4. Exclusive'
  BY SMTT(20)
<1>5. Owned'
  BY SMTT(20)
<1>6. Claimed'
  BY SMTT(20)
<1>7. Kept'
  BY SMTT(20)
<1> QED
  BY <1>1, <1>2, <1>3, <1>4, <1>5, <1>6, <1>7 DEF IInv

LEMMA DropInv ==
  ASSUME IInv, NEW h \in Handlers, Drop(h)
  PROVE  IInv'
<1>0. RowOK'
  <2>1. row' = row \/ row' = Gone
    BY Zenon DEF Drop
  <2> QED
    BY <2>1, RowGone, TypeParts DEF IInv, RowOK
<1> USE DEF Drop, Ends, Releases, To, SameEdge, SameLocks, outside, IInv,
         TypeOK, Ruled, Sound, Exclusive, Owned, Claimed, Kept, Ours, Active, Making, Keeping, Auditing,
         Steps, Preparing, Verifying, Removing, Edges, Rows, Routes, RouteIn, States, NoRow, NoRoute, Gone
<1>1. TypeOK'
  <2>1. EdgeOK'
    BY TypeParts, SMTT(20) DEF EdgeOK, RowOK, WorkOK, LocksOK, BooksOK
  <2>2. WorkOK'
    BY TypeParts, SMTT(20) DEF EdgeOK, RowOK, WorkOK, LocksOK, BooksOK
  <2>3. LocksOK'
    BY TypeParts, SMTT(20) DEF EdgeOK, RowOK, WorkOK, LocksOK, BooksOK
  <2>4. BooksOK'
    BY TypeParts, SMTT(20) DEF EdgeOK, RowOK, WorkOK, LocksOK, BooksOK
  <2> QED
    BY <1>0, <2>1, <2>2, <2>3, <2>4, TypePartsNext
<1>2. Ruled'
  BY SMTT(20)
<1>3. Sound'
  BY SMTT(20)
<1>4. Exclusive'
  BY SMTT(20)
<1>5. Owned'
  BY SMTT(20)
<1>6. Claimed'
  BY SMTT(20)
<1>7. Kept'
  BY SMTT(20)
<1> QED
  BY <1>1, <1>2, <1>3, <1>4, <1>5, <1>6, <1>7 DEF IInv

LEMMA CrashInv ==
  ASSUME IInv, NEW h \in Handlers, Crash(h)
  PROVE  IInv'
<1> USE DEF Crash, Fault, Ends, Releases, To, SameEdge, SameLocks, outside, IInv,
         TypeOK, Ruled, Sound, Exclusive, Owned, Claimed, Kept, Ours, Active, Making, Keeping, Auditing,
         Steps, Preparing, Verifying, Removing, Edges, Rows, Routes, RouteIn, States, NoRow, NoRoute, Gone
<1>1. TypeOK'
  BY SMTT(20)
<1>2. Ruled'
  BY SMTT(20)
<1>3. Sound'
  BY SMTT(20)
<1>4. Exclusive'
  BY SMTT(20)
<1>5. Owned'
  BY SMTT(20)
<1>6. Claimed'
  BY SMTT(20)
<1>7. Kept'
  BY SMTT(20)
<1> QED
  BY <1>1, <1>2, <1>3, <1>4, <1>5, <1>6, <1>7 DEF IInv

LEMMA QueueInv ==
  ASSUME IInv, Queue
  PROVE  IInv'
<1>1. /\ node = Nobody /\ row # Gone /\ row' = Gone
      /\ UNCHANGED <<edge, wrong, at, copy, node, zone, accepted, lost, faults>>
      /\ IF row.route.state = "NONE" THEN job' = job ELSE job' = "PENDING"
  BY DEF Queue
<1>2. EdgeOK' /\ RowOK' /\ WorkOK' /\ LocksOK' /\ BooksOK'
  BY <1>1, TypeParts, RowGone DEF IInv, EdgeOK, RowOK, WorkOK, LocksOK, BooksOK
<1>3. Ruled' /\ Sound' /\ Exclusive'
  BY <1>1, RowGone DEF IInv, Ruled, Sound, Exclusive, Active
<1>4. Owned'
  <2>1. ~lost => \A h \in Handlers : at[h] = "idle"
    BY <1>1 DEF IInv, Exclusive, Active
  <2> QED
    BY <1>1, <2>1 DEF IInv, Owned, Making, Preparing
<1>5. Claimed'
  BY <1>1 DEF IInv, Claimed, Owned
<1>6. Kept'
  BY <1>1, RowGone DEF IInv, Kept
<1> QED
  BY <1>2, <1>3, <1>4, <1>5, <1>6, TypePartsNext DEF IInv

LEMMA AgedIs ==
  ASSUME NEW r \in RouteIn(States \cup {"GONE"})
  PROVE  /\ Aged(r) \in RouteIn(States \cup {"GONE"}) /\ Aged(r).state = r.state /\ Aged(r).ids = r.ids
         /\ Aged(r).checked # "fresh" /\ (r.checked = "never" <=> Aged(r).checked = "never")
         /\ r.checked = "never" => Aged(r) = r
<1> DEFINE c == IF r.checked = "fresh" THEN "old" ELSE r.checked
<1>1. r = [state |-> r.state, checked |-> r.checked, ids |-> r.ids]
  BY DEF RouteIn
<1>2. Aged(r) = [r EXCEPT !.checked = c]
  BY DEF Aged
<1>3. c \in {"never", "old"} /\ (c = "never" <=> r.checked = "never")
  BY DEF RouteIn
<1> HIDE DEF c
<1>4. Aged(r) = [state |-> r.state, checked |-> c, ids |-> r.ids]
  BY <1>1, <1>2
<1> QED
  BY <1>1, <1>3, <1>4 DEF RouteIn, States

LEMMA TwentyMinutesInv ==
  ASSUME IInv, TwentyMinutes
  PROVE  IInv'
<1>1. /\ \A h \in Handlers : at[h] \notin Verifying
      /\ wrong' = Wrong(edge) /\ row' = [row EXCEPT !.route = Aged(row.route)]
      /\ copy' = [h \in Handlers |-> Aged(copy[h])]
      /\ UNCHANGED <<edge, job, at, node, zone, accepted, lost, faults>>
  BY DEF TwentyMinutes
<1>2. \A r \in Routes : r \in RouteIn(States \cup {"GONE"}) /\ r.state # "GONE"
  BY DEF Routes, RouteIn, States
<1>3. \A h \in Handlers :
        /\ copy'[h] \in Routes /\ copy'[h].state = copy[h].state /\ copy'[h].ids = copy[h].ids
        /\ copy'[h].checked # "fresh" /\ (copy[h].checked = "never" <=> copy'[h].checked = "never")
  <2> TAKE h \in Handlers
  <2>1. copy[h] \in Routes /\ copy'[h] = Aged(copy[h])
    BY <1>1, TypeParts DEF IInv, WorkOK
  <2>2. /\ Aged(copy[h]) \in RouteIn(States \cup {"GONE"}) /\ Aged(copy[h]).state = copy[h].state
        /\ Aged(copy[h]).ids = copy[h].ids /\ Aged(copy[h]).checked # "fresh"
        /\ (copy[h].checked = "never" <=> Aged(copy[h]).checked = "never")
    BY <1>2, <2>1, AgedIs
  <2>3. \A r \in RouteIn(States \cup {"GONE"}) : r.state # "GONE" => r \in Routes
    BY DEF Routes, RouteIn, States
  <2>4. Aged(copy[h]).state # "GONE"
    BY <1>2, <2>1, <2>2
  <2>5. Aged(copy[h]) \in Routes
    BY <2>2, <2>3, <2>4, Zenon
  <2> QED
    BY <2>1, <2>2, <2>5
<1>4. /\ RowOK' /\ (row = Gone => row' = Gone)
      /\ row'.route.state = row.route.state /\ row'.route.checked # "fresh"
      /\ (row.route.checked = "never" <=> row'.route.checked = "never")
  <2> DEFINE r == Aged(row.route)
  <2>1. row = [route |-> row.route, dns |-> row.dns, running |-> row.running]
        /\ row.route \in RouteIn(States \cup {"GONE"})
    BY TypeParts DEF IInv, RowOK, Rows
  <2>2. /\ r \in RouteIn(States \cup {"GONE"}) /\ r.state = row.route.state /\ r.ids = row.route.ids
        /\ r.checked # "fresh" /\ (row.route.checked = "never" <=> r.checked = "never")
        /\ (row.route.checked = "never" => r = row.route)
    BY <2>1, AgedIs
  <2>3. row' = [row EXCEPT !.route = r]
    BY <1>1
  <2> HIDE DEF r
  <2>4. row' = [route |-> r, dns |-> row.dns, running |-> row.running]
    BY <2>1, <2>3
  <2>5. row' \in Rows /\ row'.route = r
    BY <2>1, <2>2, <2>4, TypeParts DEF IInv, RowOK, Rows
  <2>6. row = Gone => row' = Gone
    BY <2>1, <2>2, <2>4, RowGone
  <2> QED
    BY <2>2, <2>5, <2>6, TypeParts DEF IInv, RowOK
<1>5. EdgeOK' /\ WorkOK' /\ LocksOK' /\ BooksOK'
  BY <1>1, <1>3, TypeParts DEF IInv, EdgeOK, WorkOK, LocksOK, BooksOK
<1>6. Ruled' /\ Sound'
  BY <1>1, <1>3, <1>4 DEF IInv, Ruled, Sound, Verifying
<1>7. Exclusive'
  BY <1>1 DEF IInv, Exclusive, Active
<1>8. Owned' /\ Claimed'
  BY <1>1, <1>3, <1>4 DEF IInv, Owned, Claimed, Ours
<1>9. Kept'
  BY <1>1, <1>3, <1>4 DEF IInv, Kept
<1> QED
  BY <1>4, <1>5, <1>6, <1>7, <1>8, <1>9, TypePartsNext DEF IInv

\* Others change and delete, and never make what would be taken for the panel's.
LEMMA DriftMakesNothing ==
  ASSUME EdgeOK, Drift
  PROVE  /\ EdgeOK' /\ wrong' \subseteq wrong
         /\ edge'.dns \in {"ours", "drifted"} => edge.dns \in {"ours", "drifted"}
         /\ edge'.tls # "none" => edge.tls # "none"
         /\ edge'.rule # "none" => edge.rule # "none"
<1>1. edge = [dns |-> edge.dns, tls |-> edge.tls, rule |-> edge.rule, overlap |-> edge.overlap, guard |-> edge.guard]
      /\ edge \in Edges
  BY DEF EdgeOK, Edges
<1>2. CASE \E d \in DnsDriftsTo(edge.dns) : Becomes([edge EXCEPT !.dns = d])
  <2>1. PICK d \in DnsDriftsTo(edge.dns) : Becomes([edge EXCEPT !.dns = d])
    BY <1>2
  <2> DEFINE e == [edge EXCEPT !.dns = d]
  <2>2. e \in Edges /\ e.tls = edge.tls /\ e.rule = edge.rule
        /\ (e.dns \in {"ours", "drifted"} => edge.dns \in {"ours", "drifted"})
    BY <1>1, <2>1 DEF Edges, DnsDriftsTo
  <2> HIDE DEF e
  <2> QED
    BY <2>1, <2>2, EdgeBecomes DEF e, Becomes
<1>3. CASE \E d \in DriftsTo(edge.tls) : Becomes([edge EXCEPT !.tls = d])
  <2>1. PICK d \in DriftsTo(edge.tls) : Becomes([edge EXCEPT !.tls = d])
    BY <1>3
  <2> DEFINE e == [edge EXCEPT !.tls = d]
  <2>2. e \in Edges /\ e.dns = edge.dns /\ e.rule = edge.rule /\ (e.tls # "none" => edge.tls # "none")
    BY <1>1, <2>1 DEF Edges, DriftsTo
  <2> HIDE DEF e
  <2> QED
    BY <2>1, <2>2, EdgeBecomes DEF e, Becomes
<1>4. CASE \E d \in DriftsTo(edge.rule) : Becomes([edge EXCEPT !.rule = d])
  <2>1. PICK d \in DriftsTo(edge.rule) : Becomes([edge EXCEPT !.rule = d])
    BY <1>4
  <2> DEFINE e == [edge EXCEPT !.rule = d]
  <2>2. e \in Edges /\ e.dns = edge.dns /\ e.tls = edge.tls /\ (e.rule # "none" => edge.rule # "none")
    BY <1>1, <2>1 DEF Edges, DriftsTo
  <2> HIDE DEF e
  <2> QED
    BY <2>1, <2>2, EdgeBecomes DEF e, Becomes
<1>5. CASE Becomes([edge EXCEPT !.overlap = ~edge.overlap])
  <2> DEFINE e == [edge EXCEPT !.overlap = ~edge.overlap]
  <2>1. e \in Edges /\ e.dns = edge.dns /\ e.tls = edge.tls /\ e.rule = edge.rule
    BY <1>1 DEF Edges
  <2> HIDE DEF e
  <2> QED
    BY <1>5, <2>1, EdgeBecomes DEF e, Becomes
<1>6. CASE Becomes([edge EXCEPT !.guard = FALSE])
  <2> DEFINE e == [edge EXCEPT !.guard = FALSE]
  <2>1. e \in Edges /\ e.dns = edge.dns /\ e.tls = edge.tls /\ e.rule = edge.rule
    BY <1>1 DEF Edges
  <2> HIDE DEF e
  <2> QED
    BY <1>6, <2>1, EdgeBecomes DEF e, Becomes
<1> QED
  BY <1>2, <1>3, <1>4, <1>5, <1>6, Zenon DEF Drift

LEMMA DriftInv ==
  ASSUME IInv, Drift
  PROVE  IInv'
<1>1. UNCHANGED <<row, job, at, copy, node, zone, accepted, lost>> /\ faults' \in 0 .. MaxFaults
  BY TypeParts DEF IInv, BooksOK, Drift, Fault
<1>2. EdgeOK
  BY TypeParts DEF IInv
<1> USE <1>1, <1>2, DriftMakesNothing
<1>3. EdgeOK' /\ RowOK' /\ WorkOK' /\ LocksOK' /\ BooksOK'
  BY TypeParts DEF IInv, EdgeOK, RowOK, WorkOK, LocksOK, BooksOK
<1>4. Ruled' /\ Sound' /\ Exclusive'
  BY DEF IInv, Ruled, Sound, Exclusive, Active
<1>5. Owned' /\ Claimed'
  BY DEF IInv, Owned, Claimed, Ours
<1>6. Kept'
  BY DEF IInv, Kept
<1> QED
  BY <1>3, <1>4, <1>5, <1>6, TypePartsNext DEF IInv

LEMMA LoseSessionInv ==
  ASSUME IInv, LoseSession
  PROVE  IInv'
<1>1. UNCHANGED <<edge, wrong, row, job, at, copy, accepted>> /\ lost'
  BY Zenon DEF LoseSession
<1>2. faults' \in 0 .. MaxFaults /\ node' \in {node, Nobody} /\ zone' \in {zone, Nobody}
  BY TypeParts DEF IInv, BooksOK, LoseSession, Fault
<1>3. BooksOK'
  <2>1. job' \in {"none", "PENDING", "DONE"} /\ accepted' \in BOOLEAN
    BY <1>1, TypeParts, Zenon DEF IInv, BooksOK
  <2>2. lost' \in BOOLEAN
    BY Zenon DEF LoseSession
  <2> QED
    BY <1>2, <2>1, <2>2, Zenon DEF BooksOK
<1>4. EdgeOK' /\ RowOK' /\ WorkOK' /\ LocksOK'
  BY <1>1, <1>2, TypeParts DEF IInv, EdgeOK, RowOK, WorkOK, LocksOK
<1>5. Ruled' /\ Sound' /\ Exclusive' /\ Claimed' /\ Kept'
  BY <1>1 DEF IInv, Ruled, Sound, Exclusive, Claimed, Kept
<1>6. Owned'
  BY <1>1 DEF IInv, Owned
<1> QED
  BY <1>3, <1>4, <1>5, <1>6, TypePartsNext DEF IInv

-----------------------------------------------------------------------------
(* Every step, and the theorems *)

LEMMA NextInv ==
  ASSUME IInv, [Next]_vars
  PROVE  IInv'
<1>1. CASE UNCHANGED vars
  BY <1>1 DEF vars, IInv, TypeOK, Ruled, Sound, Exclusive, Owned, Claimed, Kept, Ours, Active
<1>2. ASSUME NEW h \in Handlers, Step(h)
      PROVE  IInv'
  BY <1>2, PreflightInv, IntentInv, EnsureDnsInv, RecordDnsInv, EnsureTlsInv, RecordTlsInv, EnsureRuleInv,
     ConfiguredInv, FailedInv, InstallInv, VerifyInv, ReadyInv, DeployEndInv, AuditHostInv, AuditEndInv,
     WithdrawInv, StopInv, RemoveRuleInv, RemoveTlsInv, RemoveDnsInv, DropInv, Zenon DEF Step
<1>3. ASSUME NEW h \in Handlers, DeployBegin(h) \/ AuditBegin(h) \/ RemoveBegin(h) \/ WorkBegin(h) \/ Crash(h)
      PROVE  IInv'
  BY <1>3, DeployBeginInv, AuditBeginInv, RemoveBeginInv, WorkBeginInv, CrashInv, Zenon
<1> QED
  BY <1>1, <1>2, <1>3, QueueInv, TwentyMinutesInv, DriftInv, LoseSessionInv, Zenon DEF Next

LEMMA SafeInv ==
  ASSUME IInv
  PROVE  OriginSafe
<1>1. Exported => row.route.checked = "fresh"
  BY DEF Exported
<1>2. FailsClosed
  BY <1>1 DEF IInv, Sound, FailsClosed
<1>3. NotRepublished
  BY <1>1, Zenon DEF IInv, Kept, NotRepublished
<1> QED
  BY <1>2, <1>3 DEF IInv, OriginSafe

\* For any number of deployments, removals, jobs and audits at once, and any number of lost
\* answers, crashes and changes by others: no orphan is left at Cloudflare, no mapping is
\* exported that has been broken for 20 minutes, and none that was being removed is
\* published again, unless a lock session was lost.
THEOREM OriginIsSafe == Spec => []OriginSafe
<1>1. Init => IInv
  BY InitInv
<1>2. IInv /\ [Next]_vars => IInv'
  BY NextInv
<1>3. IInv => OriginSafe
  BY SafeInv
<1> QED
  BY <1>1, <1>2, <1>3, PTL DEF Spec

-----------------------------------------------------------------------------
(* The groups of an exported file. The invariant is about the file the client  *)
(* runs: its groups have members of their own node or REJECT, its selectors    *)
(* lead down to entries it has, and none of them to DIRECT where a protected   *)
(* node or an automatic choice stands behind it.                               *)
CONSTANTS Nodes, Ips, Dns, Kinds
VARIABLES kind, pool, auto, config, cache, current
G == INSTANCE ExportGroups

Addresses == Ips \cup {Dns}
VariantsOf(n) == {<<n, x>> : x \in Addresses}

\* Names in the order in which one may lead to another: entries and built-ins, groups, auto, select.
Endings == {<<n, x>> : n \in Nodes, x \in Addresses \cup {"own"}} \cup {G!Direct, G!Reject}
GroupBelow == Endings \cup {G!Group(n) : n \in Nodes}
AutoBelow == GroupBelow \cup {G!Selector("auto")}
SelectBelow == AutoBelow \cup {G!Selector("select")}
Below(s) == CASE s = "auto" -> GroupBelow [] s = "select" -> AutoBelow [] OTHER -> SelectBelow

AllSelectors == G!ClashSelectors \cup G!SingboxSelectors(TRUE)

Known(c) ==
    /\ c.proxies \subseteq {<<n, x>> : n \in Nodes, x \in Addresses \cup {"own"}}
    /\ c.providers \subseteq Nodes
    /\ \A g \in DOMAIN c.groups : (\E n \in Nodes : g = G!Group(n)) \/ (\E s \in AllSelectors : g = G!Selector(s))

GroupsKnown(c) ==
    \A n \in Nodes : G!Group(n) \in DOMAIN c.groups =>
        /\ c.groups[G!Group(n)] # {}
        /\ c.groups[G!Group(n)] = {G!Reject} \/ c.groups[G!Group(n)] \subseteq c.proxies \cap VariantsOf(n)

SelectorsKnown(c) ==
    \A s \in AllSelectors : G!Selector(s) \in DOMAIN c.groups =>
        /\ c.groups[G!Selector(s)] # {} /\ c.groups[G!Selector(s)] \subseteq Below(s)
        /\ c.groups[G!Selector(s)] \subseteq c.proxies \cup DOMAIN c.groups \cup {G!Direct, G!Reject}

DefaultsKnown(c) == \A s \in DOMAIN c.default : c.default[s] \in c.groups[G!Selector(s)]

\* Only protected nodes have groups and providers, and while there is one the file is not open.
Guarding(c) ==
    /\ \A n \in Nodes : G!Group(n) \in DOMAIN c.groups \/ n \in c.providers => G!Protected(n)
    /\ (\E n \in Nodes : G!Protected(n)) =>
          \A s \in {"auto", "select"} : G!Selector(s) \in DOMAIN c.groups => G!Direct \notin c.groups[G!Selector(s)]

Sane(c) == Known(c) /\ GroupsKnown(c) /\ SelectorsKnown(c) /\ DefaultsKnown(c)

Parts ==
    /\ kind \in [Nodes -> Kinds] /\ pool \in [Nodes -> SUBSET Addresses]
    /\ cache = [n \in Nodes |-> cache[n]]
    /\ \A n \in Nodes : cache[n] \subseteq VariantsOf(n) \cup {G!Sentinel}

GroupsInv == Parts /\ Sane(config) /\ Guarding(config)

Assumed == G!NamesAssumption /\ G!KindsAssumption

-----------------------------------------------------------------------------
(* What is exported *)

LEMMA ExportsKnown ==
  ASSUME Parts, NEW profile, NEW n \in Nodes
  PROVE  /\ G!Protected(n) => G!Exports(profile, n) \subseteq G!Variants(n)
         /\ ~G!Protected(n) => G!Exports(profile, n) \subseteq {G!Own(n)}
         /\ kind[n] = "lost" => G!Exports(profile, n) = {}
         /\ G!Variants(n) \subseteq VariantsOf(n)
<1>1. pool[n] \subseteq Addresses
  BY DEF Parts
<1>2. G!Variants(n) \subseteq VariantsOf(n)
  BY <1>1 DEF G!Variants, VariantsOf
<1> QED BY <1>2 DEF G!Exports, G!Protected

\* Entries of the exports: the node's own for one that is not protected, else of its addresses.
ExportSet(entries) ==
    \A e \in entries : \E n \in Nodes :
        \/ G!Protected(n) /\ e \in VariantsOf(n)
        \/ ~G!Protected(n) /\ e = G!Own(n)

LEMMA ExportedKnown == ASSUME Parts, NEW profile PROVE ExportSet(G!Exported(profile))
<1> SUFFICES ASSUME NEW n \in Nodes, NEW e \in G!Exports(profile, n)
    PROVE  \/ G!Protected(n) /\ e \in VariantsOf(n)
           \/ ~G!Protected(n) /\ e = G!Own(n)
  BY DEF ExportSet, G!Exported
<1> QED BY ExportsKnown

LEMMA EntriesKnown ==
  ASSUME Assumed, NEW entries, ExportSet(entries)
  PROVE  /\ entries \subseteq {<<n, x>> : n \in Nodes, x \in Addresses \cup {"own"}}
         /\ \A n \in Nodes : G!Members(entries, n) \subseteq VariantsOf(n) \cup {G!Own(n)}
         /\ \A n \in G!cfGroups(entries) : /\ n \in Nodes /\ G!Protected(n)
                                         /\ G!Members(entries, n) # {} /\ G!Members(entries, n) \subseteq VariantsOf(n)
         /\ \A e \in entries : e[1] \notin G!cfGroups(entries) => e = G!Own(e[1]) /\ e[1] \in Nodes
<1>1. ASSUME NEW e \in entries
      PROVE  \E n \in Nodes, x \in Addresses \cup {"own"} :
                e = <<n, x>> /\ e[1] = n /\ (G!Protected(n) => x \in Addresses) /\ (~G!Protected(n) => x = "own")
  BY <1>1 DEF ExportSet, VariantsOf, G!Own
<1>2. "own" \notin Addresses
  BY DEF Assumed, G!NamesAssumption, Addresses
<1>3. entries \subseteq {<<n, x>> : n \in Nodes, x \in Addresses \cup {"own"}}
  BY <1>1
<1>4. ASSUME NEW n \in Nodes PROVE G!Members(entries, n) \subseteq VariantsOf(n) \cup {G!Own(n)}
  <2> SUFFICES ASSUME NEW e \in entries, e[1] = n PROVE e \in VariantsOf(n) \cup {G!Own(n)}
    BY DEF G!Members
  <2> QED BY <1>1 DEF VariantsOf, G!Own
<1>5. ASSUME NEW n \in G!cfGroups(entries)
      PROVE  /\ n \in Nodes /\ G!Protected(n)
             /\ G!Members(entries, n) # {} /\ G!Members(entries, n) \subseteq VariantsOf(n)
  <2>1. PICK e \in entries : e[1] = n /\ e # G!Own(n)
    BY DEF G!cfGroups
  <2>2. n \in Nodes /\ G!Protected(n) /\ e \in G!Members(entries, n)
    BY <1>1, <2>1 DEF G!Own, G!cfGroups, G!Members
  <2>3. ASSUME NEW f \in entries, f[1] = n PROVE f \in VariantsOf(n)
    BY <1>1, <2>2, <2>3 DEF VariantsOf
  <2> QED BY <2>2, <2>3 DEF G!Members
<1>6. ASSUME NEW e \in entries, e[1] \notin G!cfGroups(entries) PROVE e = G!Own(e[1]) /\ e[1] \in Nodes
  <2>1. e[1] \in Nodes
    BY <1>1
  <2> QED BY <1>6, <2>1 DEF G!cfGroups
<1> QED BY <1>3, <1>4, <1>5, <1>6

LEMMA TagsKnown ==
  ASSUME Assumed, NEW entries, ExportSet(entries)
  PROVE  /\ G!selectableTags(entries) \subseteq GroupBelow \ {G!Direct}
         /\ G!selectableTags(entries) \subseteq {G!Group(n) : n \in G!cfGroups(entries)} \cup {e \in entries : e[1] \notin G!cfGroups(entries)}
         /\ entries # {} => G!selectableTags(entries) # {}
<1>1. ASSUME NEW n \in Nodes PROVE G!Group(n) \in GroupBelow /\ G!Group(n) # G!Direct
  BY DEF GroupBelow, G!Group, G!Direct, Assumed, G!NamesAssumption
<1>2. ASSUME NEW e \in entries PROVE e \in Endings /\ e # G!Direct
  <2>1. PICK n \in Nodes, x \in Addresses \cup {"own"} : e = <<n, x>>
    BY EntriesKnown
  <2>2. n # "builtin"
    BY DEF Assumed, G!NamesAssumption
  <2> QED BY <2>1, <2>2 DEF Endings, G!Direct
<1>3. G!cfGroups(entries) \subseteq Nodes
  BY DEF G!cfGroups
<1>4. Endings \subseteq GroupBelow
  BY DEF GroupBelow
<1>5. G!selectableTags(entries) \subseteq GroupBelow \ {G!Direct}
  <2> SUFFICES ASSUME NEW g \in G!selectableTags(entries) PROVE g \in GroupBelow /\ g # G!Direct
    OBVIOUS
  <2>1. CASE g \in entries
    BY <1>2, <1>4, <2>1
  <2>2. CASE g \in {G!Group(n) : n \in G!cfGroups(entries)}
    BY <1>1, <1>3, <2>2
  <2> QED BY <2>1, <2>2 DEF G!selectableTags
<1>6. ASSUME entries # {} PROVE G!selectableTags(entries) # {}
  <2>1. PICK e \in entries : TRUE
    BY <1>6
  <2>2. CASE e[1] \in G!cfGroups(entries)
    <3>1. G!Group(e[1]) \in G!selectableTags(entries)
      BY <2>2 DEF G!selectableTags
    <3> QED BY <3>1
  <2>3. CASE e[1] \notin G!cfGroups(entries)
    <3>1. e \in G!selectableTags(entries)
      BY <2>1, <2>3 DEF G!selectableTags
    <3> QED BY <3>1
  <2> QED BY <2>2, <2>3
<1> QED BY <1>5, <1>6 DEF G!selectableTags

-----------------------------------------------------------------------------
(* The downloads *)

LEMMA NamesApart ==
  ASSUME G!NamesAssumption
  PROVE  /\ \A n \in Nodes : n # "selector" /\ n # "builtin"
         /\ \A n \in Nodes : G!Group(n)[1] = n /\ G!Group(n) # G!Direct /\ \A s : G!Group(n) # G!Selector(s)
         /\ \A s : G!Selector(s)[1] = "selector" /\ G!Selector(s) # G!Direct
         /\ \A s, t : G!Selector(s) = G!Selector(t) => s = t
         /\ \A n, m : G!Group(n) = G!Group(m) => n = m
  BY DEF G!NamesAssumption, G!Group, G!Selector, G!Direct

LEMMA ClashSane ==
  ASSUME Assumed, Parts, NEW profile, ~G!Refused(profile)
  PROVE  Sane(G!Clash(profile)) /\ Guarding(G!Clash(profile))
<1> DEFINE nodes == G!Exported(profile)
           cf == G!cfGroups(nodes)
           tags == G!selectableTags(nodes)
           c == G!Clash(profile)
           dynamic == auto /\ cf # {}
           Choices(s) == G!Offer(G!Before(s), tags)
<1>1. ExportSet(nodes)
  BY ExportedKnown
<1>2. /\ c.proxies = IF dynamic THEN {e \in nodes : e[1] \notin cf} ELSE nodes
      /\ c.providers = IF dynamic THEN cf ELSE {}
      /\ DOMAIN c.groups = {G!Group(n) : n \in cf} \cup {G!Selector(s) : s \in G!ClashSelectors}
      /\ c.default = [s \in {"apple", "microsoft"} |-> G!Direct]
  BY DEF G!Clash
<1>3. ASSUME NEW n \in cf PROVE c.groups[G!Group(n)] = IF dynamic THEN {G!Reject} ELSE G!Members(nodes, n)
  <2>1. n \in Nodes /\ G!Group(n)[1] = n /\ n # "selector"
    BY NamesApart DEF G!cfGroups, Assumed
  <2> QED BY <2>1 DEF G!Clash
<1>4. ASSUME NEW s \in G!ClashSelectors PROVE c.groups[G!Selector(s)] = Choices(s)
  <2>1. G!Selector(s)[1] = "selector" /\ G!Selector(s)[2] = s
    BY DEF G!Selector
  <2> QED BY <2>1 DEF G!Clash
<1> HIDE DEF c
<1>5. /\ cf \subseteq Nodes /\ c.proxies \subseteq nodes
      /\ \A n \in cf : G!Protected(n) /\ G!Members(nodes, n) # {} /\ G!Members(nodes, n) \subseteq VariantsOf(n)
      /\ \A n \in Nodes : G!Group(n) \in DOMAIN c.groups => n \in cf
      /\ \A s : G!Selector(s) \in DOMAIN c.groups => s \in G!ClashSelectors
  <2>1. \A n \in cf : n \in Nodes /\ G!Protected(n) /\ G!Members(nodes, n) # {} /\ G!Members(nodes, n) \subseteq VariantsOf(n)
    BY <1>1, EntriesKnown
  <2> QED BY <1>2, <2>1, NamesApart DEF Assumed
<1>6. Known(c)
  <2>1. nodes \subseteq {<<n, x>> : n \in Nodes, x \in Addresses \cup {"own"}}
    BY <1>1, EntriesKnown
  <2>2. \A g \in DOMAIN c.groups : (\E n \in Nodes : g = G!Group(n)) \/ (\E s \in AllSelectors : g = G!Selector(s))
    BY <1>2, <1>5 DEF AllSelectors
  <2>3. c.proxies \subseteq {<<n, x>> : n \in Nodes, x \in Addresses \cup {"own"}}
    BY <1>5, <2>1
  <2>4. c.providers \subseteq Nodes
    BY <1>2, <1>5
  <2> QED BY <2>2, <2>3, <2>4 DEF Known
<1>7. GroupsKnown(c)
  <2> SUFFICES ASSUME NEW n \in cf
      PROVE  /\ c.groups[G!Group(n)] # {}
             /\ c.groups[G!Group(n)] = {G!Reject} \/ c.groups[G!Group(n)] \subseteq c.proxies \cap VariantsOf(n)
    BY <1>5 DEF GroupsKnown
  <2>1. CASE dynamic
    BY <1>3, <2>1
  <2>2. CASE ~dynamic
    BY <1>2, <1>3, <1>5, <2>2 DEF G!Members
  <2> QED BY <2>1, <2>2
<1>8. /\ tags \subseteq GroupBelow \ {G!Direct} /\ (nodes # {} => tags # {})
      /\ tags \subseteq {G!Group(n) : n \in cf} \cup {e \in nodes : e[1] \notin cf}
  BY <1>1, TagsKnown
<1>9. tags \subseteq c.proxies \cup DOMAIN c.groups
  BY <1>2, <1>8
<1>10. SelectorsKnown(c)
  <2> SUFFICES ASSUME NEW s \in G!ClashSelectors
      PROVE  /\ Choices(s) # {} /\ Choices(s) \subseteq Below(s)
             /\ Choices(s) \subseteq c.proxies \cup DOMAIN c.groups \cup {G!Direct, G!Reject}
    BY <1>4, <1>5 DEF SelectorsKnown
  <2>1. G!Direct \in GroupBelow /\ tags \subseteq GroupBelow
    BY <1>8 DEF GroupBelow, Endings
  <2>2. Choices(s) # {} /\ Choices(s) \subseteq G!Before(s) \cup tags \cup {G!Direct}
    BY DEF G!Offer
  <2>3. G!Before(s) \subseteq Below(s) /\ GroupBelow \subseteq Below(s)
    BY DEF G!Before, Below, SelectBelow, AutoBelow, GroupBelow, Endings, G!ClashSelectors
  <2>4. G!Before(s) \subseteq DOMAIN c.groups \cup {G!Direct}
    BY <1>2 DEF G!Before, G!ClashSelectors
  <2> QED BY <1>9, <2>1, <2>2, <2>3, <2>4
<1>11. DefaultsKnown(c)
  <2> SUFFICES ASSUME NEW s \in {"apple", "microsoft"} PROVE G!Direct \in Choices(s)
    BY <1>2, <1>4 DEF DefaultsKnown, G!ClashSelectors
  <2> QED BY DEF G!Offer, G!Before
<1>12. Guarding(c)
  <2>1. \A n \in Nodes : G!Group(n) \in DOMAIN c.groups \/ n \in c.providers => G!Protected(n)
    BY <1>2, <1>5
  <2>2. ASSUME \E n \in Nodes : G!Protected(n), NEW s \in {"auto", "select"} PROVE G!Direct \notin Choices(s)
    <3>1. tags # {}
      BY <1>8, <2>2 DEF G!Refused, G!Guarded
    <3>2. G!Direct \notin G!Before(s)
      BY DEF G!Before, G!Direct, G!Selector
    <3> QED BY <1>8, <3>1, <3>2 DEF G!Offer
  <2> QED BY <1>4, <2>1, <2>2 DEF Guarding, G!ClashSelectors
<1> QED BY <1>6, <1>7, <1>10, <1>11, <1>12 DEF Sane, c

LEMMA SingboxSane ==
  ASSUME Assumed, Parts, NEW home \in BOOLEAN, NEW profile, ~G!Refused(profile), ~G!SingboxRefused(profile), profile = "compatible"
  PROVE  Sane(G!Singbox(home, profile)) /\ Guarding(G!Singbox(home, profile))
<1> DEFINE nodes == G!Exported(profile)
           spoken == G!Outbounds(nodes)
           cf == G!cfGroups(nodes)
           tags == G!selectableTags(spoken)
           c == G!Singbox(home, profile)
           S == G!SingboxSelectors(home)
           Choices(s) == G!Selecting(tags, s)
<1>1. ExportSet(nodes) /\ ExportSet(spoken) /\ spoken \subseteq nodes
  <2>1. ExportSet(nodes)
    BY ExportedKnown
  <2> QED BY <2>1 DEF ExportSet, G!Outbounds
<1>2. /\ c.proxies = spoken /\ c.providers = {}
      /\ DOMAIN c.groups = {G!Group(n) : n \in cf} \cup {G!Selector(s) : s \in S}
      /\ c.default = [s \in S \ {"auto"} |-> G!Chosen(tags, s)]
  BY DEF G!Singbox
<1>3. ASSUME NEW n \in cf PROVE c.groups[G!Group(n)] = G!Members(nodes, n)
  <2>1. n \in Nodes /\ G!Group(n)[1] = n /\ n # "selector"
    BY NamesApart DEF G!cfGroups, Assumed
  <2> QED BY <2>1 DEF G!Singbox
<1>4. ASSUME NEW s \in S PROVE c.groups[G!Selector(s)] = Choices(s)
  <2>1. G!Selector(s)[1] = "selector" /\ G!Selector(s)[2] = s
    BY DEF G!Selector
  <2> QED BY <2>1 DEF G!Singbox
<1> HIDE DEF c
<1>5. /\ cf \subseteq Nodes
      /\ \A n \in cf : G!Protected(n) /\ G!Members(nodes, n) # {} /\ G!Members(nodes, n) \subseteq VariantsOf(n)
      /\ \A n \in Nodes : G!Group(n) \in DOMAIN c.groups => n \in cf
      /\ \A s : G!Selector(s) \in DOMAIN c.groups => s \in S
  <2>1. \A n \in cf : n \in Nodes /\ G!Protected(n) /\ G!Members(nodes, n) # {} /\ G!Members(nodes, n) \subseteq VariantsOf(n)
    BY <1>1, EntriesKnown
  <2> QED BY <1>2, <2>1, NamesApart DEF Assumed
<1>6. Known(c)
  <2>1. \A g \in DOMAIN c.groups : (\E n \in Nodes : g = G!Group(n)) \/ (\E s \in AllSelectors : g = G!Selector(s))
    <3>1. S \subseteq AllSelectors
      BY DEF AllSelectors, G!SingboxSelectors
    <3> QED BY <1>2, <1>5, <3>1
  <2>2. c.proxies \subseteq {<<n, x>> : n \in Nodes, x \in Addresses \cup {"own"}}
    BY <1>1, <1>2, EntriesKnown
  <2> QED BY <1>2, <2>1, <2>2 DEF Known
\* A node with a group is not an XHTTP one: the compatible profile has none of those.
<1>7. ASSUME NEW n \in cf PROVE G!Members(nodes, n) \subseteq spoken
  <2>1. PICK e \in nodes : e[1] = n /\ e # G!Own(n)
    BY <1>7 DEF G!cfGroups
  <2>2. PICK m \in Nodes : e \in G!Exports(profile, m)
    BY DEF G!Exported
  <2>3. m = n
    BY <2>1, <2>2, ExportsKnown DEF VariantsOf, G!Own
  <2>4. kind[n] \notin {"xhttp", "cdnx"}
    BY <2>1, <2>2, <2>3 DEF G!Exports
  <2> QED BY <2>4 DEF G!Members, G!Outbounds
<1>8. GroupsKnown(c)
  <2> SUFFICES ASSUME NEW n \in cf PROVE G!Members(nodes, n) # {} /\ G!Members(nodes, n) \subseteq c.proxies \cap VariantsOf(n)
    BY <1>3, <1>5 DEF GroupsKnown
  <2> QED BY <1>2, <1>5, <1>7
<1>9. /\ tags \subseteq GroupBelow \ {G!Direct} /\ (spoken # {} => tags # {})
      /\ tags \subseteq {G!Group(n) : n \in G!cfGroups(spoken)} \cup {e \in spoken : e[1] \notin G!cfGroups(spoken)}
  BY <1>1, TagsKnown
<1>10. tags \subseteq c.proxies \cup DOMAIN c.groups
  <2>1. G!cfGroups(spoken) \subseteq cf
    BY <1>1 DEF G!cfGroups
  <2> QED BY <1>2, <1>9, <2>1
<1>11. SelectorsKnown(c)
  <2> SUFFICES ASSUME NEW s \in S
      PROVE  /\ Choices(s) # {} /\ Choices(s) \subseteq Below(s)
             /\ Choices(s) \subseteq c.proxies \cup DOMAIN c.groups \cup {G!Direct, G!Reject}
    BY <1>4, <1>5 DEF SelectorsKnown
  <2>1. G!Direct \in GroupBelow /\ tags \subseteq GroupBelow
    BY <1>9 DEF GroupBelow, Endings
  <2>2. CASE tags = {}
    <3>1. Choices(s) = {G!Direct}
      BY <2>2 DEF G!Selecting
    <3> QED BY <2>1, <3>1 DEF Below, AutoBelow, SelectBelow
  <2>3. CASE tags # {} /\ s = "auto"
    <3>1. Choices(s) = tags
      BY <2>3 DEF G!Selecting
    <3> QED BY <1>10, <2>1, <2>3, <3>1 DEF Below
  <2>4. CASE tags # {} /\ s = "select"
    <3>1. Choices(s) = {G!Selector("auto")} \cup tags
      BY <2>4 DEF G!Selecting
    <3>2. G!Selector("auto") \in DOMAIN c.groups
      BY <1>2 DEF G!SingboxSelectors
    <3> QED BY <1>10, <2>1, <2>4, <3>1, <3>2 DEF Below, AutoBelow
  <2>5. CASE tags # {} /\ s \notin {"auto", "select"}
    <3>1. Choices(s) = {G!Selector("select"), G!Selector("auto")} \cup tags
      BY <2>5 DEF G!Selecting
    <3>2. G!Selector("auto") \in DOMAIN c.groups /\ G!Selector("select") \in DOMAIN c.groups
      BY <1>2 DEF G!SingboxSelectors
    <3> QED BY <1>10, <2>1, <2>5, <3>1, <3>2 DEF Below, AutoBelow, SelectBelow
  <2> QED BY <2>2, <2>3, <2>4, <2>5
<1>12. DefaultsKnown(c)
  <2> SUFFICES ASSUME NEW s \in S \ {"auto"} PROVE G!Chosen(tags, s) \in Choices(s)
    BY <1>2, <1>4 DEF DefaultsKnown
  <2> QED BY DEF G!Chosen, G!Selecting
<1>13. Guarding(c)
  <2>1. \A n \in Nodes : G!Group(n) \in DOMAIN c.groups \/ n \in c.providers => G!Protected(n)
    BY <1>2, <1>5
  <2>2. ASSUME \E n \in Nodes : G!Protected(n), NEW s \in {"auto", "select"} PROVE G!Direct \notin Choices(s)
    <3>1. tags # {}
      BY <1>9, <2>2 DEF G!Refused, G!Guarded, G!SingboxRefused
    <3>2. Choices(s) \subseteq {G!Selector("auto")} \cup tags /\ G!Selector("auto") # G!Direct
      BY <3>1 DEF G!Selecting, G!Selector, G!Direct
    <3> QED BY <1>9, <3>2
  <2>3. \A s \in {"auto", "select"} : G!Selector(s) \in DOMAIN c.groups => c.groups[G!Selector(s)] = Choices(s)
    BY <1>4, <1>5
  <2> HIDE DEF Choices
  <2> QED BY <2>1, <2>2, <2>3 DEF Guarding
<1> QED BY <1>6, <1>8, <1>11, <1>12, <1>13 DEF Sane, c

-----------------------------------------------------------------------------
(* The client's configuration, at any time *)

LEMMA GroupsInit == ASSUME Assumed PROVE G!Init => GroupsInv
<1> SUFFICES ASSUME G!Init PROVE GroupsInv
  OBVIOUS
<1>1. Parts
  BY DEF G!Init, Parts, VariantsOf, Addresses
<1>2. config.proxies = {} /\ config.providers = {} /\ DOMAIN config.groups = {} /\ DOMAIN config.default = {}
  BY DEF G!Init, G!None
<1>3. Sane(config)
  BY <1>2 DEF Sane, Known, GroupsKnown, SelectorsKnown, DefaultsKnown
<1>4. Guarding(config)
  BY <1>2 DEF Guarding
<1> QED BY <1>1, <1>3, <1>4 DEF GroupsInv

LEMMA DriftKeeps == ASSUME GroupsInv, NEW n \in Nodes, G!Drift(n) PROVE GroupsInv'
<1>1. PICK k \in Kinds : (k \in {"cdn", "cdnx", "lost"}) = G!Protected(n) /\ kind' = [kind EXCEPT ![n] = k]
  BY DEF G!Drift
<1>2. UNCHANGED <<pool, auto, config, cache>>
  BY DEF G!Drift
<1>3. Parts'
  BY <1>1, <1>2 DEF GroupsInv, Parts
<1>4. \A m \in Nodes : G!Protected(m)' <=> G!Protected(m)
  BY <1>1 DEF GroupsInv, Parts, G!Protected
<1> QED BY <1>2, <1>3, <1>4 DEF GroupsInv, Sane, Known, GroupsKnown, SelectorsKnown, DefaultsKnown, Guarding

LEMMA PoolKept == ASSUME GroupsInv, Parts', UNCHANGED <<kind, config>> PROVE GroupsInv'
  BY DEF GroupsInv, Sane, Known, GroupsKnown, SelectorsKnown, DefaultsKnown, Guarding, G!Protected

LEMMA PublishKeeps == ASSUME GroupsInv, NEW n \in Nodes, G!Publish(n) PROVE GroupsInv'
<1>1. PICK addresses \in SUBSET (Ips \cup {Dns}) : pool' = [pool EXCEPT ![n] = addresses]
  BY DEF G!Publish
<1>2. UNCHANGED <<kind, auto, config, cache>>
  BY DEF G!Publish
<1>3. Parts'
  BY <1>1, <1>2 DEF GroupsInv, Parts, Addresses
<1> QED BY <1>2, <1>3, PoolKept

LEMMA Downloaded ==
  ASSUME GroupsInv, NEW c, Sane(c), Guarding(c), config' = c, cache' = [n \in Nodes |-> {}], UNCHANGED <<kind, pool, auto>>
  PROVE  GroupsInv'
<1>1. Parts'
  BY DEF GroupsInv, Parts
<1>2. \A n \in Nodes : G!Protected(n)' <=> G!Protected(n)
  BY DEF G!Protected
<1>3. Guarding(config)'
  BY <1>2 DEF Guarding
<1>4. Sane(config)'
  BY DEF Sane, Known, GroupsKnown, SelectorsKnown, DefaultsKnown
<1> QED BY <1>1, <1>3, <1>4 DEF GroupsInv

LEMMA Refreshed ==
  ASSUME GroupsInv, NEW n \in Nodes, NEW xhttp \in BOOLEAN, G!Refresh(n, xhttp)
  PROVE  /\ G!Provider(G!Profile(xhttp), n) \subseteq G!Variants(n) \cup {G!Sentinel}
         /\ kind[n] = "lost" => G!Provider(G!Profile(xhttp), n) = {G!Sentinel}
         /\ G!Provider(G!Profile(xhttp), n) # {} /\ cache' = [cache EXCEPT ![n] = G!Provider(G!Profile(xhttp), n)]
         /\ Parts'
<1> DEFINE got == G!Provider(G!Profile(xhttp), n)
<1>1. Parts /\ G!Protected(n)
  BY DEF GroupsInv, Guarding, G!Refresh
<1>2. got \subseteq G!Variants(n) \cup {G!Sentinel} /\ got # {} /\ (kind[n] = "lost" => got = {G!Sentinel})
  BY <1>1, ExportsKnown DEF G!Provider
<1>3. cache' = [cache EXCEPT ![n] = got] /\ UNCHANGED <<kind, pool, auto, config>>
  BY <1>2 DEF G!Refresh
<1>4. got \subseteq VariantsOf(n) \cup {G!Sentinel}
  BY <1>1, <1>2, ExportsKnown
<1> HIDE DEF got
<1>5. Parts'
  BY <1>1, <1>3, <1>4 DEF Parts
<1> QED BY <1>2, <1>3, <1>5 DEF got

LEMMA GroupsNext == ASSUME Assumed PROVE GroupsInv /\ [G!Next]_(G!vars) => GroupsInv'
<1> SUFFICES ASSUME GroupsInv, [G!Next]_(G!vars) PROVE GroupsInv'
  OBVIOUS
<1>1. ASSUME NEW n \in Nodes, G!Drift(n) \/ G!Publish(n) PROVE GroupsInv'
  BY <1>1, DriftKeeps, PublishKeeps
<1>2. ASSUME NEW x \in BOOLEAN, G!ClashDownload(x) PROVE GroupsInv'
  <2>1. Sane(G!Clash(G!Profile(x))) /\ Guarding(G!Clash(G!Profile(x)))
    BY <1>2, ClashSane DEF G!ClashDownload, GroupsInv
  <2> QED BY <1>2, <2>1, Downloaded DEF G!ClashDownload
<1>3. ASSUME NEW x \in BOOLEAN, G!SingboxDownload(x) PROVE GroupsInv'
  <2>1. Sane(G!Singbox(x, G!SingboxProfile)) /\ Guarding(G!Singbox(x, G!SingboxProfile))
    BY <1>3, SingboxSane DEF G!SingboxDownload, GroupsInv, G!SingboxProfile
  <2> QED BY <1>3, <2>1, Downloaded DEF G!SingboxDownload
<1>4. ASSUME NEW n \in Nodes, NEW x \in BOOLEAN, G!Refresh(n, x) PROVE GroupsInv'
  <2>1. UNCHANGED <<kind, config>>
    BY <1>4 DEF G!Refresh
  <2> QED BY <1>4, <2>1, Refreshed, PoolKept
<1>5. CASE G!SetAuto
  <2>1. Parts' /\ UNCHANGED <<kind, config>>
    BY <1>5 DEF G!SetAuto, GroupsInv, Parts
  <2> QED BY <2>1, PoolKept
<1>6. CASE UNCHANGED G!vars
  <2>1. Parts' /\ UNCHANGED <<kind, config>>
    BY <1>6 DEF G!vars, GroupsInv, Parts
  <2> QED BY <2>1, PoolKept
<1> QED BY <1>1, <1>2, <1>3, <1>4, <1>5, <1>6 DEF G!Next

LEMMA GroupsInvariance == ASSUME Assumed PROVE G!Spec => []GroupsInv
  BY GroupsInit, GroupsNext, PTL DEF G!Spec

-----------------------------------------------------------------------------
(* Where its groups lead *)

LEMMA BelowAreNames == \A s : GroupBelow \subseteq Below(s) /\ Below(s) \subseteq SelectBelow
  BY DEF Below, AutoBelow, SelectBelow

LEMMA EndsAreNoGroups ==
  ASSUME Assumed, NEW c, Known(c), NEW e \in Endings
  PROVE  e \notin DOMAIN c.groups
<1>1. ASSUME NEW n \in Nodes PROVE e # G!Group(n)
  BY DEF Endings, G!Group, G!Direct, G!Reject, Assumed, G!NamesAssumption, Addresses
<1>2. ASSUME NEW s PROVE e # G!Selector(s)
  BY DEF Endings, G!Selector, G!Direct, G!Reject, Assumed, G!NamesAssumption
<1> QED BY <1>1, <1>2 DEF Known

\* What a provider's cache offers, and a group on the whole.
LEMMA GroupLeads ==
  ASSUME Assumed, GroupsInv, NEW n \in Nodes, G!Group(n) \in DOMAIN config.groups
  PROVE  /\ G!Inner(config, G!Group(n)) \subseteq VariantsOf(n) \cup {G!Reject}
         /\ G!Inner(config, G!Group(n)) # {}
<1>1. config.groups[G!Group(n)] # {} /\ config.groups[G!Group(n)] \subseteq VariantsOf(n) \cup {G!Reject}
  BY DEF GroupsInv, Sane, GroupsKnown
<1>2. {m \in Nodes : G!Group(m) = G!Group(n)} = {n}
  BY NamesApart DEF Assumed
<1>3. G!Loaded(config, n) \subseteq VariantsOf(n)
  BY DEF G!Loaded, GroupsInv, Parts
<1>4. G!Inner(config, G!Group(n)) = config.groups[G!Group(n)] \cup G!Loaded(config, n)
  BY <1>2 DEF G!Inner
<1> QED BY <1>1, <1>3, <1>4

LEMMA SelectorLeads ==
  ASSUME Assumed, GroupsInv, NEW s \in AllSelectors, G!Selector(s) \in DOMAIN config.groups
  PROVE  G!Inner(config, G!Selector(s)) = config.groups[G!Selector(s)] /\ G!Inner(config, G!Selector(s)) \subseteq Below(s)
<1>1. {m \in Nodes : G!Group(m) = G!Selector(s)} = {}
  BY NamesApart DEF Assumed
<1>2. G!Inner(config, G!Selector(s)) = config.groups[G!Selector(s)]
  BY <1>1 DEF G!Inner
<1> QED BY <1>2 DEF GroupsInv, Sane, SelectorsKnown

\* One step of expansion goes at least one level down, and entries stay.
LEMMA ExpandedElement ==
  ASSUME NEW names, NEW e
  PROVE  e \in G!Expanded(config, names) <=>
            \/ e \in names /\ e \notin DOMAIN config.groups
            \/ \E m \in names : m \in DOMAIN config.groups /\ e \in G!Inner(config, m)
  BY DEF G!Expanded

LEMMA ExpandEnds ==
  ASSUME Assumed, GroupsInv, NEW names, names \subseteq Endings
  PROVE  G!Expanded(config, names) = names
<1>1. \A e \in names : e \notin DOMAIN config.groups
  BY EndsAreNoGroups DEF GroupsInv, Sane
<1> QED BY <1>1, ExpandedElement

LEMMA VariantsEnd == ASSUME NEW n \in Nodes PROVE VariantsOf(n) \cup {G!Reject} \subseteq Endings
  BY DEF VariantsOf, Endings

LEMMA FinalEntries ==
  ASSUME Assumed, GroupsInv, NEW n \in Nodes, G!Group(n) \in DOMAIN config.groups
  PROVE  G!Leaves(config, G!Group(n)) = G!Inner(config, G!Group(n))
<1>1. G!Inner(config, G!Group(n)) \subseteq Endings
  BY GroupLeads, VariantsEnd
<1> QED BY <1>1, ExpandEnds DEF G!Leaves

GroupNames == {G!Group(n) : n \in Nodes}
\* What names lead to in at most a number of steps.
Level(k) == CASE k = 0 -> {} [] k = 1 -> GroupNames [] k = 2 -> GroupNames \cup {G!Selector("auto")}
              [] OTHER -> GroupNames \cup {G!Selector("auto"), G!Selector("select")}

LEMMA InnerKnown ==
  ASSUME Assumed, GroupsInv, NEW g \in DOMAIN config.groups
  PROVE  /\ G!Inner(config, g) \subseteq SelectBelow
         /\ g \in GroupNames => G!Inner(config, g) \subseteq Endings \ {G!Direct}
         /\ g = G!Selector("auto") => G!Inner(config, g) \subseteq GroupBelow
         /\ g = G!Selector("select") => G!Inner(config, g) \subseteq AutoBelow
<1>1. CASE \E n \in Nodes : g = G!Group(n)
  <2>1. PICK n \in Nodes : g = G!Group(n)
    BY <1>1
  <2>2. G!Inner(config, g) \subseteq VariantsOf(n) \cup {G!Reject}
    BY <2>1, GroupLeads
  <2>3. G!Direct \notin VariantsOf(n) \cup {G!Reject}
    BY DEF VariantsOf, G!Direct, G!Reject, Assumed, G!NamesAssumption
  <2>4. G!Inner(config, g) \subseteq Endings \ {G!Direct}
    BY <2>2, <2>3, VariantsEnd
  <2>5. Endings \subseteq SelectBelow /\ Endings \subseteq GroupBelow /\ Endings \subseteq AutoBelow
    BY DEF SelectBelow, AutoBelow, GroupBelow
  <2> QED BY <2>4, <2>5
<1>2. CASE \E s \in AllSelectors : g = G!Selector(s)
  <2>1. PICK s \in AllSelectors : g = G!Selector(s)
    BY <1>2
  <2>2. G!Inner(config, g) \subseteq Below(s)
    BY <2>1, SelectorLeads
  <2>3. g \notin GroupNames
    BY <2>1, NamesApart DEF GroupNames, Assumed
  <2>4. \A t : g = G!Selector(t) => s = t
    BY <2>1, NamesApart DEF Assumed
  <2> QED BY <2>2, <2>3, <2>4, BelowAreNames DEF Below
<1> QED BY <1>1, <1>2 DEF GroupsInv, Sane, Known

LEMMA Descends ==
  ASSUME Assumed, GroupsInv, NEW k \in 0 .. 2, NEW names, names \cap DOMAIN config.groups \subseteq Level(k + 1)
  PROVE  G!Expanded(config, names) \cap DOMAIN config.groups \subseteq Level(k)
<1> SUFFICES ASSUME NEW e \in G!Expanded(config, names), e \in DOMAIN config.groups PROVE e \in Level(k)
  OBVIOUS
<1>1. PICK m \in names : m \in DOMAIN config.groups /\ e \in G!Inner(config, m)
  BY ExpandedElement
<1>2. m \in Level(k + 1)
  BY <1>1
<1>3. e \notin Endings
  BY EndsAreNoGroups DEF GroupsInv, Sane
<1>4. CASE m \in GroupNames
  BY <1>1, <1>3, <1>4, InnerKnown
<1>5. CASE m = G!Selector("auto") /\ m \notin GroupNames
  <2>1. e \in GroupNames
    BY <1>1, <1>3, <1>5, InnerKnown DEF GroupBelow, GroupNames
  <2>2. k # 0
    BY <1>2, <1>5 DEF Level
  <2> QED BY <2>1, <2>2 DEF Level
<1>6. CASE m = G!Selector("select") /\ m \notin GroupNames /\ m # G!Selector("auto")
  <2>1. e \in GroupNames \cup {G!Selector("auto")}
    BY <1>1, <1>3, <1>6, InnerKnown DEF AutoBelow, GroupBelow, GroupNames
  <2>2. k = 2
    BY <1>2, <1>6 DEF Level
  <2> QED BY <2>1, <2>2 DEF Level
<1> QED BY <1>2, <1>4, <1>5, <1>6 DEF Level

LEMMA LeavesEnd ==
  ASSUME Assumed, GroupsInv, NEW g \in DOMAIN config.groups
  PROVE  G!Leaves(config, g) \cap DOMAIN config.groups = {}
<1> DEFINE a == G!Inner(config, g)
           b == G!Expanded(config, a)
           c == G!Expanded(config, b)
           d == G!Expanded(config, c)
           D == DOMAIN config.groups
<1>1. a \cap D \subseteq Level(2 + 1)
  <2>1. a \subseteq SelectBelow
    BY InnerKnown
  <2>2. Endings \cap D = {}
    BY EndsAreNoGroups DEF GroupsInv, Sane
  <2> QED BY <2>1, <2>2 DEF Level, SelectBelow, AutoBelow, GroupBelow, GroupNames
<1> HIDE DEF a
<1>2. b \cap D \subseteq Level(1 + 1)
  BY <1>1, Descends
<1> HIDE DEF b
<1>3. c \cap D \subseteq Level(0 + 1)
  BY <1>2, Descends
<1> HIDE DEF c
<1>4. d \cap D = {}
  <2>1. d \cap D \subseteq Level(0)
    BY <1>3, Descends
  <2> QED BY <2>1 DEF Level
<1> HIDE DEF d
<1>5. G!Expanded(config, d) = d
  <2>1. \A e \in d : e \notin DOMAIN config.groups
    BY <1>4
  <2>2. \A e : e \in G!Expanded(config, d) <=> e \in d
    BY <2>1, ExpandedElement
  <2> QED BY <2>2
<1>6. G!Leaves(config, g) = G!Expanded(config, d)
  BY DEF G!Leaves, a, b, c, d
<1> QED BY <1>4, <1>5, <1>6

\* While a node is protected, nothing that auto and select lead to is direct.
LEMMA StaysCovered ==
  ASSUME Assumed, GroupsInv, \E n \in Nodes : G!Protected(n), NEW names, names \subseteq AutoBelow \ {G!Direct}
  PROVE  G!Expanded(config, names) \subseteq AutoBelow \ {G!Direct}
<1> SUFFICES ASSUME NEW e \in G!Expanded(config, names), e \notin names PROVE e \in AutoBelow \ {G!Direct}
  OBVIOUS
<1>1. PICK m \in names : m \in DOMAIN config.groups /\ e \in G!Inner(config, m)
  BY ExpandedElement
<1>2. Endings \subseteq AutoBelow /\ GroupBelow \subseteq AutoBelow /\ m \notin Endings
  BY <1>1, EndsAreNoGroups DEF AutoBelow, GroupBelow, GroupsInv, Sane
<1>3. CASE m \in GroupNames
  BY <1>1, <1>2, <1>3, InnerKnown
<1>4. CASE m = G!Selector("auto")
  <2>1. e \in GroupBelow
    BY <1>1, <1>4, InnerKnown
  <2>2. e \in config.groups[G!Selector("auto")]
    BY <1>1, <1>4, SelectorLeads DEF AllSelectors, G!SingboxSelectors
  <2>3. G!Direct \notin config.groups[G!Selector("auto")]
    BY <1>1, <1>4 DEF GroupsInv, Guarding
  <2> QED BY <1>2, <2>1, <2>2, <2>3
<1> QED BY <1>1, <1>2, <1>3, <1>4 DEF AutoBelow, GroupBelow, GroupNames

LEMMA SelectCovered ==
  ASSUME Assumed, GroupsInv, \E n \in Nodes : G!Protected(n), G!Selector("select") \in DOMAIN config.groups
  PROVE  G!Direct \notin G!Leaves(config, G!Selector("select"))
<1>1. G!Inner(config, G!Selector("select")) \subseteq AutoBelow \ {G!Direct}
  <2>1. G!Inner(config, G!Selector("select")) \subseteq AutoBelow
    BY InnerKnown
  <2>2. G!Inner(config, G!Selector("select")) = config.groups[G!Selector("select")]
    BY SelectorLeads DEF AllSelectors, G!SingboxSelectors
  <2>3. G!Direct \notin config.groups[G!Selector("select")]
    BY DEF GroupsInv, Guarding
  <2> QED BY <2>1, <2>2, <2>3
<1> QED BY <1>1, StaysCovered DEF G!Leaves

LEMMA FilesAccepted == ASSUME Assumed, GroupsInv PROVE G!Accepted
<1>1. ASSUME NEW g \in DOMAIN config.groups
      PROVE  config.groups[g] # {} /\ config.groups[g] \subseteq G!Defined
  <2>1. CASE \E n \in Nodes : g = G!Group(n)
    BY <2>1 DEF GroupsInv, Sane, GroupsKnown, G!Defined
  <2>2. CASE \E s \in AllSelectors : g = G!Selector(s)
    BY <2>2 DEF GroupsInv, Sane, SelectorsKnown, G!Defined
  <2> QED BY <2>1, <2>2 DEF GroupsInv, Sane, Known
<1>2. \A s \in DOMAIN config.default : config.default[s] \in config.groups[G!Selector(s)]
  BY DEF GroupsInv, Sane, DefaultsKnown
<1> QED BY <1>1, <1>2, LeavesEnd DEF G!Accepted

LEMMA GroupsCovered == ASSUME Assumed, GroupsInv PROVE G!GroupsNeverDirect
<1> SUFFICES ASSUME NEW n \in Nodes, G!Group(n) \in DOMAIN config.groups
    PROVE  G!Leaves(config, G!Group(n)) \cap {G!Direct, G!Own(n)} = {} /\ G!Leaves(config, G!Group(n)) # {}
  BY DEF G!GroupsNeverDirect
<1>1. G!Leaves(config, G!Group(n)) \subseteq VariantsOf(n) \cup {G!Reject} /\ G!Leaves(config, G!Group(n)) # {}
  BY GroupLeads, FinalEntries
<1>2. (VariantsOf(n) \cup {G!Reject}) \cap {G!Direct, G!Own(n)} = {}
  BY DEF VariantsOf, G!Direct, G!Reject, G!Own, Assumed, G!NamesAssumption, Addresses
<1> QED BY <1>1, <1>2

\* For any nodes and addresses, and any drift, publication and refresh between the downloads:
\* the clients accept every file, and what a protected node's group or, while there is one, the
\* proxy selector leads to is never direct (Accepted, GroupsNeverDirect, NoSilentDirect).
THEOREM GroupsAreSafe == ASSUME Assumed PROVE G!Spec => [](G!Accepted /\ G!GroupsNeverDirect /\ G!NoSilentDirect)
<1>1. GroupsInv => G!Accepted /\ G!GroupsNeverDirect /\ G!NoSilentDirect
  BY FilesAccepted, GroupsCovered, SelectCovered DEF G!NoSilentDirect
<1> QED BY <1>1, GroupsInvariance, PTL

-----------------------------------------------------------------------------
(* What a refresh leaves. A provider stands behind a group that holds REJECT   *)
(* alone; and since a node was last refreshed and has not changed, the client  *)
(* has nothing of it but what it was answered, which is never empty.           *)

Offered(n) == IF kind[n] = "lost" THEN {} ELSE G!Variants(n)
ProvidersKnown(c) ==
    /\ c.providers \subseteq Nodes
    /\ \A n \in c.providers : G!Group(n) \in DOMAIN c.groups /\ c.groups[G!Group(n)] = {G!Reject}
CurrentKnown == \A n \in current : n \in config.providers /\ cache[n] \subseteq Offered(n) \cup {G!Sentinel}
ForgetInv == ProvidersKnown(config) /\ CurrentKnown

LEMMA ClashProviders == ASSUME Assumed, NEW profile PROVE ProvidersKnown(G!Clash(profile))
<1> DEFINE c == G!Clash(profile)
           cf == G!cfGroups(G!Exported(profile))
<1>1. /\ DOMAIN c.groups = {G!Group(n) : n \in cf} \cup {G!Selector(s) : s \in G!ClashSelectors}
      /\ c.providers = IF auto /\ cf # {} THEN cf ELSE {}
  BY DEF G!Clash
<1>2. cf \subseteq Nodes
  BY DEF G!cfGroups
<1>3. ASSUME NEW n \in c.providers PROVE c.groups[G!Group(n)] = {G!Reject}
  <2>1. auto /\ n \in cf /\ n \in Nodes
    BY <1>1, <1>2, <1>3
  <2>2. G!Group(n)[1] = n /\ n # "selector"
    BY <2>1, NamesApart DEF Assumed
  <2> QED BY <2>1, <2>2 DEF G!Clash
<1> HIDE DEF c
<1> QED BY <1>1, <1>2, <1>3 DEF ProvidersKnown, c

LEMMA SingboxProviders == ASSUME NEW home, NEW profile PROVE ProvidersKnown(G!Singbox(home, profile))
  BY DEF ProvidersKnown, G!Singbox

\* Of the other nodes nothing changes, and this one is no longer current.
LEMMA ChangedOne ==
  ASSUME ForgetInv, GroupsInv, NEW n \in Nodes, current' = current \ {n}, UNCHANGED <<config, cache>>,
         \A m \in Nodes \ {n} : kind'[m] = kind[m] /\ pool'[m] = pool[m]
  PROVE  ForgetInv'
<1>1. \A m \in Nodes \ {n} : Offered(m)' = Offered(m)
  BY DEF Offered, G!Variants
<1>2. current \subseteq Nodes
  BY DEF ForgetInv, CurrentKnown, ProvidersKnown
<1>3. CurrentKnown'
  BY <1>1, <1>2 DEF ForgetInv, CurrentKnown
<1> QED BY <1>3 DEF ForgetInv, ProvidersKnown

LEMMA ForgetNext == ASSUME Assumed PROVE GroupsInv /\ ForgetInv /\ [G!Next]_(G!vars) => ForgetInv'
<1> SUFFICES ASSUME GroupsInv, ForgetInv, [G!Next]_(G!vars) PROVE ForgetInv'
  OBVIOUS
<1>1. ASSUME NEW n \in Nodes, G!Drift(n) \/ G!Publish(n) PROVE ForgetInv'
  <2>1. kind = [m \in Nodes |-> kind[m]] /\ pool = [m \in Nodes |-> pool[m]]
    BY DEF GroupsInv, Parts
  <2>2. current' = current \ {n} /\ UNCHANGED <<config, cache>>
    BY <1>1 DEF G!Drift, G!Publish
  <2>3. \A m \in Nodes \ {n} : kind'[m] = kind[m] /\ pool'[m] = pool[m]
    BY <1>1, <2>1 DEF G!Drift, G!Publish
  <2> QED BY <2>2, <2>3, ChangedOne
<1>2. ASSUME NEW x \in BOOLEAN, G!ClashDownload(x) \/ G!SingboxDownload(x) PROVE ForgetInv'
  <2>1. current' = {} /\ ProvidersKnown(config')
    BY <1>2, ClashProviders, SingboxProviders DEF G!ClashDownload, G!SingboxDownload
  <2> QED BY <2>1 DEF ForgetInv, ProvidersKnown, CurrentKnown
<1>3. ASSUME NEW n \in Nodes, NEW x \in BOOLEAN, G!Refresh(n, x) PROVE ForgetInv'
  <2> DEFINE got == G!Provider(G!Profile(x), n)
  <2>1. /\ got \subseteq Offered(n) \cup {G!Sentinel} /\ cache' = [cache EXCEPT ![n] = got]
        /\ cache = [m \in Nodes |-> cache[m]]
    BY <1>3, Refreshed DEF Offered, GroupsInv, Parts
  <2>2. UNCHANGED <<kind, pool, config>> /\ current' = current \cup {n} /\ n \in config.providers
    BY <1>3 DEF G!Refresh
  <2> HIDE DEF got
  <2>3. \A m : Offered(m)' = Offered(m)
    BY <2>2 DEF Offered, G!Variants
  <2>4. current \subseteq Nodes
    BY DEF ForgetInv, CurrentKnown, ProvidersKnown
  <2>5. CurrentKnown'
    BY <2>1, <2>2, <2>3, <2>4 DEF ForgetInv, CurrentKnown
  <2> QED BY <2>2, <2>5 DEF ForgetInv, ProvidersKnown
<1>4. CASE G!SetAuto \/ UNCHANGED G!vars
  BY <1>4 DEF G!SetAuto, G!vars, ForgetInv, ProvidersKnown, CurrentKnown, Offered, G!Variants
<1> QED BY <1>1, <1>2, <1>3, <1>4 DEF G!Next

\* For any nodes and addresses, and any drift and publication: once a client has refreshed a
\* node, its group leads to what the panel offers of it and to nothing older, and to nothing at
\* all when its protection is lost (RefreshForgets).
THEOREM RefreshesForget == ASSUME Assumed PROVE G!Spec => []G!RefreshForgets
<1>1. ForgetInv /\ GroupsInv => G!RefreshForgets
  <2> SUFFICES ASSUME ForgetInv, GroupsInv, NEW n \in current
      PROVE  G!Leaves(config, G!Group(n)) \subseteq Offered(n) \cup {G!Reject}
    BY DEF G!RefreshForgets, Offered
  <2>1. /\ n \in Nodes /\ n \in config.providers /\ cache[n] \subseteq Offered(n) \cup {G!Sentinel}
        /\ G!Group(n) \in DOMAIN config.groups /\ config.groups[G!Group(n)] = {G!Reject}
    BY DEF ForgetInv, CurrentKnown, ProvidersKnown
  <2>2. {m \in Nodes : G!Group(m) = G!Group(n)} = {n}
    BY <2>1, NamesApart DEF Assumed
  <2>3. G!Inner(config, G!Group(n)) = config.groups[G!Group(n)] \cup G!Loaded(config, n)
    BY <2>2 DEF G!Inner
  <2>4. G!Loaded(config, n) \subseteq Offered(n)
    BY <2>1 DEF G!Loaded
  <2> QED BY <2>1, <2>3, <2>4, FinalEntries
<1>2. G!Init => ForgetInv
  BY DEF G!Init, G!None, ForgetInv, ProvidersKnown, CurrentKnown
<1>3. G!Init /\ [][G!Next]_(G!vars) => [](ForgetInv /\ GroupsInv)
  BY <1>2, GroupsInit, GroupsNext, ForgetNext, PTL
<1> QED BY <1>1, <1>3, PTL DEF G!Spec
==============================================================================
