-------------------------- MODULE PortAllocationProofs --------------------------
(***************************************************************************)
(* That no port of a server is kept for two nodes, whatever the number of  *)
(* servers, nodes and ports, and that no node listens where another one    *)
(* should.                                                                 *)
(*                                                                         *)
(* An allocation uses what it read of the rows a step earlier.  It still   *)
(* knows all that is kept at its own server then, because an operation     *)
(* that claims more holds the lock of each server it claims it at.  What   *)
(* is not under the locks, a deployment that records the statistics port,  *)
(* adds nothing to what is kept, for a loose node keeps no such port.      *)
(***************************************************************************)
EXTENDS PortAllocation, TLAPS

Owners == Nodes \cup {"foreign"}
RowType == [server : Servers, listen : Ports, core : BOOLEAN, stats : Ports \cup {0},
            exit : Servers \cup {None}, exitPort : Ports \cup {0}]
AllocType == [step : {"scan", "edit"}, kind : Kinds, core : BOOLEAN, server : Servers,
              exit : Servers \cup {None}, used : SUBSET Ports]
TaskType == [server : Servers, ports : SUBSET Ports, node : Nodes]
Typed ==
    /\ row \in [Nodes -> RowType \cup {NoRow}]
    /\ sockets \in SUBSET (Servers \X Ports \X Owners)
    /\ tasks \in SUBSET TaskType
    /\ alloc \in [Nodes -> AllocType \cup {NoAlloc}]
    /\ edits \in 0 .. MaxEdits /\ loose \in SUBSET Nodes

\* A statistics port that was recorded is the derived one, but for a loose node; an exit has
\* its port.
HasExit(r) == r.exit # None => r.exitPort # 0
Recorded(r) == r.stats # 0 => r.core /\ r.stats = Derived(r.listen)
Sound(r, n, L) == HasExit(r) /\ (n \notin L => Recorded(r))
AllRecorded == \A n \in Nodes : row[n] # NoRow => Sound(row[n], n, loose)

\* What is kept at a server for node n with row r, when the loose nodes are L.
Firm(r, n, L, s) == IF n \in L THEN Main(r, s) ELSE Claims(r, s)
Firmly(n, s) == Firm(row[n], n, loose, s)

\* What is kept at a server is kept for one node, belongs to no cleanup, and nothing of
\* another node listens there.
Exclusive ==
    /\ \A n, m \in Nodes, s \in Servers :
         n # m /\ row[n] # NoRow /\ row[m] # NoRow => Firmly(n, s) \cap Firmly(m, s) = {}
    /\ \A n \in Nodes, t \in tasks :
         row[n] # NoRow /\ t.node \notin loose => Firmly(n, t.server) \cap t.ports = {}
    /\ \A n \in Nodes, k \in sockets :
         row[n] # NoRow /\ k[2] \in Firmly(n, k[1]) => k[3] \in {n, "foreign"} \cup loose

\* No allocation claims anything at the server of another one.
Apart ==
    \A n, m \in Nodes : n # m /\ alloc[n] # NoAlloc /\ alloc[m] # NoAlloc
        => alloc[n].server \notin {alloc[m].server, alloc[m].exit}

\* What an allocation read is still all that is kept for other nodes at its server.
Knows(n) ==
    /\ \A m \in Nodes \ {n} : row[m] # NoRow => Firmly(m, alloc[n].server) \subseteq alloc[n].used
    /\ alloc[n].step = "scan" => row[n] = NoRow
    /\ alloc[n].step = "edit" => row[n] # NoRow /\ row[n].server = alloc[n].server
AllKnow == \A n \in Nodes : alloc[n] # NoAlloc => Knows(n)

IInv == Typed /\ AllRecorded /\ Exclusive /\ Apart /\ AllKnow

-----------------------------------------------------------------------------
(* Lemmas about the operators: what a row claims, and what a pool offers.    *)

LEMMA DerivedType == ASSUME PortAssumption, NEW p \in Ports PROVE Derived(p) \in Ports
  BY DEF PortAssumption, Derived, Ports

LEMMA Distinct ==
    ASSUME PortAssumption
    PROVE  /\ \A r \in RowType : r # NoRow
           /\ \A a \in AllocType : a # NoAlloc
           /\ \A s \in Servers : s # None
  BY DEF PortAssumption, NoRow, NoAlloc, RowType, AllocType, None

\* What the property says is kept is what the invariant says.
LEMMA KeptIsFirm ==
    ASSUME NEW n \in Nodes, NEW s, row[n] \in RowType, Sound(row[n], n, loose)
    PROVE  Kept(n, s) = Firmly(n, s)
  BY DEF Promised, Claims, Stats, RowType, Recorded, Sound, Kept, Firmly, Firm

LEMMA ClaimsType ==
    ASSUME PortAssumption, NEW r \in RowType, HasExit(r), NEW s \in Servers
    PROVE  Claims(r, s) \subseteq Ports
  <1>1. r.listen \in Ports /\ Derived(r.listen) \in Ports
    BY DerivedType DEF RowType
  <1>2. r.exit = s => r.exitPort \in Ports
    BY DEF RowType, HasExit, PortAssumption
  <1> QED BY <1>1, <1>2 DEF Claims, Stats, RowType

LEMMA FirmIsClaimed == ASSUME NEW r, NEW n, NEW L, NEW s PROVE Firm(r, n, L, s) \subseteq Claims(r, s)
  BY DEF Firm, Main, Claims

\* A row with its statistics port recorded keeps what it kept.
WithStats(r) == [r EXCEPT !.stats = IF r.core THEN Derived(r.listen) ELSE 0]
LEMMA WithStatsFirm ==
    ASSUME PortAssumption, NEW r \in RowType, NEW n, NEW L, Sound(r, n, L)
    PROVE  /\ WithStats(r) \in RowType /\ Sound(WithStats(r), n, L)
           /\ \A s : Firm(WithStats(r), n, L, s) = Firm(r, n, L, s)
  <1>1. r.listen \in Ports /\ Derived(r.listen) \in Ports /\ 0 \notin Ports
    BY DerivedType DEF RowType, Ports
  <1>2. WithStats(r) \in RowType
    BY <1>1 DEF WithStats, RowType
  <1>3. Recorded(WithStats(r)) /\ HasExit(WithStats(r))
    BY <1>1 DEF WithStats, RowType, Recorded, HasExit, Sound
  <1>4. ASSUME n \notin L PROVE Stats(WithStats(r)) = Stats(r)
    BY <1>1, <1>4 DEF WithStats, RowType, Recorded, Sound, Stats
  <1>5. /\ WithStats(r).server = r.server /\ WithStats(r).listen = r.listen
        /\ WithStats(r).exit = r.exit /\ WithStats(r).exitPort = r.exitPort
    BY DEF WithStats, RowType
  <1>6. \A s : Firm(WithStats(r), n, L, s) = Firm(r, n, L, s)
    BY <1>4, <1>5 DEF Firm, Main, Claims
  <1> QED BY <1>2, <1>3, <1>6 DEF Sound

\* A row with another listen port and core, deployed or not, keeps that port and its
\* statistics port besides what it kept at the exit.
LEMMA MovedSound ==
    ASSUME PortAssumption, NEW r \in RowType, HasExit(r), NEW q \in RowType, NEW n, NEW L,
           q.server = r.server, q.exit = r.exit, q.exitPort = r.exitPort
    PROVE  /\ HasExit(q) /\ WithStats(q) \in RowType /\ WithStats(q).server = r.server
           /\ Sound(WithStats(q), n, L)
  <1>1. Derived(q.listen) \in Ports /\ 0 \notin Ports
    BY DerivedType DEF Ports, RowType
  <1>2. WithStats(q) \in RowType
    BY <1>1 DEF WithStats, RowType
  <1> QED BY <1>1, <1>2 DEF WithStats, RowType, Sound, Recorded, HasExit

LEMMA MovedKeeps ==
    ASSUME PortAssumption, NEW r \in RowType, NEW q \in RowType, NEW n, NEW L, NEW s, NEW x,
           q.server = r.server, q.exit = r.exit, q.exitPort = r.exitPort
    PROVE  /\ x \in Claims(WithStats(q), s) =>
                x \in Firm(r, n, L, s) \/ (s = r.server /\ (x = q.listen \/ (q.core /\ x = Derived(q.listen))))
           /\ x \in Main(q, s) => x \in Firm(r, n, L, s) \/ (s = r.server /\ x = q.listen)
  <1> DEFINE w == WithStats(q)
  <1>1. Derived(q.listen) \in Ports /\ 0 \notin Ports
    BY DerivedType DEF Ports, RowType
  <1>2. /\ w.server = r.server /\ w.listen = q.listen /\ w.core = q.core /\ w.exit = r.exit
        /\ w.exitPort = r.exitPort /\ w.stats = (IF q.core THEN Derived(q.listen) ELSE 0)
    BY DEF WithStats, RowType
  <1>3. Stats(w) = IF q.core THEN {Derived(q.listen)} ELSE {}
    BY <1>1, <1>2 DEF Stats
  <1> HIDE DEF w
  <1>4. ASSUME x \in Claims(w, s)
        PROVE  x \in Firm(r, n, L, s) \/ (s = r.server /\ (x = q.listen \/ (q.core /\ x = Derived(q.listen))))
    BY <1>2, <1>3, <1>4 DEF Claims, Firm, Main
  <1>5. x \in Main(q, s) => x \in Firm(r, n, L, s) \/ (s = r.server /\ x = q.listen)
    BY DEF Claims, Firm, Main
  <1> QED BY <1>4, <1>5 DEF w

\* The listeners of a node are at ports that its row claims.
LEMMA SocketsClaimed ==
    ASSUME PortAssumption, NEW n \in Nodes, NEW r \in RowType, r.exit # None => r.exitPort # 0,
           NEW k \in NodeSockets(n, r)
    PROVE  k \in Servers \X Ports \X Owners /\ k[3] = n /\ k[2] \in Claims(WithStats(r), k[1])
  <1>1. r.listen \in Ports /\ Derived(r.listen) \in Ports /\ 0 \notin Ports
    BY DerivedType DEF RowType, Ports
  <1>2. CASE k = <<r.server, r.listen, n>>
    BY <1>1, <1>2 DEF Claims, Owners, RowType, WithStats
  <1>3. CASE r.core /\ k = <<r.server, Derived(r.listen), n>>
    <2>1. Stats(WithStats(r)) = {Derived(r.listen)}
      BY <1>1, <1>3 DEF Stats, WithStats, RowType
    <2> QED BY <1>1, <1>3, <2>1 DEF Claims, Owners, RowType, WithStats
  <1>4. CASE r.exit # None /\ k = <<r.exit, r.exitPort, n>>
    BY <1>1, <1>4 DEF Claims, Owners, RowType, WithStats
  <1> QED BY <1>2, <1>3, <1>4 DEF NodeSockets, RowType

LEMMA InRowPorts ==
    ASSUME NEW s, NEW e, NEW m \in Nodes \ e, row[m] # NoRow
    PROVE  Firmly(m, s) \subseteq RowPorts(s, e)
  <1>1. Claims(row[m], s) \subseteq RowPorts(s, e)
    BY DEF RowPorts, Live
  <1> QED BY <1>1, FirmIsClaimed DEF Firmly

LEMMA RowPortsType ==
    ASSUME PortAssumption, Typed, AllRecorded, NEW s \in Servers, NEW e
    PROVE  RowPorts(s, e) \subseteq Ports
  <1> SUFFICES ASSUME NEW m \in Nodes, row[m] # NoRow PROVE Claims(row[m], s) \subseteq Ports
    BY DEF RowPorts, Live
  <1> QED BY ClaimsType DEF Typed, AllRecorded, Sound

LEMMA InUnavailable ==
    ASSUME NEW s, NEW e
    PROVE  /\ \A k \in sockets : k[1] = s /\ k[3] \notin e => k[2] \in Unavailable(s, e)
           /\ \A t \in tasks : t.server = s => t.ports \subseteq Unavailable(s, e)
  <1>1. \A k \in sockets : k[1] = s /\ k[3] \notin e => k[2] \in Listening(s, e)
    BY DEF Listening
  <1>2. \A t \in tasks : t.server = s => t.ports \subseteq Pending(s)
    BY DEF Pending
  <1> QED BY <1>1, <1>2 DEF Unavailable

\* Every choice gives 0, or a port that is free with its statistics port.
LEMMA PickFits ==
    ASSUME NEW pool, ToSet(pool) \subseteq Ports, NEW core, NEW used, NEW p \in Pick(pool, core, used), p # 0
    PROVE  p \in Ports /\ Fits(p, core, used)
  <1>1. PICK i \in DOMAIN pool : p = pool[i] /\ Fits(pool[i], core, used)
    BY DEF Pick
  <1>2. pool[i] \in ToSet(pool)
    BY DEF ToSet
  <1> QED BY <1>1, <1>2

LEMMA OfferedFits ==
    ASSUME PortAssumption, NEW kind, NEW core, NEW used, NEW p \in Offered(kind, core, used), p # 0
    PROVE  p \in Ports /\ Fits(p, core, used)
  <1>1. FixedPort \in Ports /\ ToSet(Mapped) \subseteq Ports /\ ToSet(Pool) \subseteq Ports
    BY DEF PortAssumption, Ports
  <1>2. CASE kind = "manual" BY <1>2 DEF Offered
  <1>3. CASE kind = "fixed" BY <1>1, <1>3 DEF Offered
  <1>4. CASE kind = "mapped" BY <1>1, <1>4, PickFits DEF Offered
  <1>5. CASE kind \notin {"manual", "fixed", "mapped"} BY <1>1, <1>5, PickFits DEF Offered
  <1> QED BY <1>2, <1>3, <1>4, <1>5

-----------------------------------------------------------------------------
(* Lemmas about steps: a row is written, and rows are removed.               *)

\* What is kept for row r of node n, when the loose nodes are L, is kept for no other node, belongs to no
\* cleanup and no listener of others.
Fresh(n, r, L) ==
    /\ r \in RowType /\ Sound(r, n, L)
    /\ \A m \in Nodes \ {n}, s \in Servers : row[m] # NoRow => Firm(r, n, L, s) \cap Firmly(m, s) = {}
    /\ \A t \in tasks : t.node \notin loose => Firm(r, n, L, t.server) \cap t.ports = {}
    /\ \A k \in sockets : k[2] \in Firm(r, n, L, k[1]) => k[3] \in {n, "foreign"} \cup loose

\* What is kept stays exclusive when a fresh row is written, also when the listeners of the
\* row replace the node's.
LEMMA WriteKeeps ==
    ASSUME PortAssumption, Typed, AllRecorded, Exclusive, NEW n \in Nodes, NEW r,
           loose' = loose \/ loose' = loose \cup {n}, Fresh(n, r, loose'),
           row' = [row EXCEPT ![n] = r], UNCHANGED tasks,
           \A k \in sockets' : \/ k \in sockets
                               \/ k[3] = n /\ k[1] \in Servers /\ (n \in loose' \/ k[2] \in Claims(r, k[1]))
    PROVE  row' \in [Nodes -> RowType \cup {NoRow}] /\ AllRecorded' /\ Exclusive'
  <1>1. /\ row \in [Nodes -> RowType \cup {NoRow}] /\ row'[n] = r /\ r \in RowType
        /\ \A m \in Nodes \ {n} : row'[m] = row[m] /\ (m \in loose' <=> m \in loose)
    BY DEF Typed, Fresh
  <1>2. row' \in [Nodes -> RowType \cup {NoRow}]
    BY <1>1 DEF Typed
  <1>3. AllRecorded'
    BY <1>1 DEF AllRecorded, Fresh, Sound
  <1>4. \A s : /\ Firmly(n, s)' = Firm(r, n, loose', s)
               /\ \A m \in Nodes \ {n} : Firmly(m, s)' = Firmly(m, s)
    BY <1>1 DEF Firmly, Firm
  <1>5. ASSUME NEW o \in Nodes, NEW m \in Nodes, NEW s \in Servers, o # m, row'[o] # NoRow, row'[m] # NoRow
        PROVE  Firmly(o, s)' \cap Firmly(m, s)' = {}
    <2>1. CASE o = n
      BY <1>1, <1>4, <1>5, <2>1 DEF Fresh
    <2>2. CASE m = n
      BY <1>1, <1>4, <1>5, <2>2 DEF Fresh
    <2>3. CASE o # n /\ m # n
      BY <1>1, <1>4, <1>5, <2>3 DEF Exclusive
    <2> QED BY <2>1, <2>2, <2>3
  <1>6. ASSUME NEW m \in Nodes, NEW t \in tasks', row'[m] # NoRow, t.node \notin loose'
        PROVE  Firmly(m, t.server)' \cap t.ports = {}
    <2>1. t \in tasks /\ t.node \notin loose
      BY <1>6
    <2>2. CASE m = n
      BY <1>4, <2>1, <2>2 DEF Fresh
    <2>3. CASE m # n
      BY <1>1, <1>4, <1>6, <2>1, <2>3 DEF Exclusive
    <2> QED BY <2>2, <2>3
  <1>7. ASSUME NEW m \in Nodes, NEW k \in sockets', row'[m] # NoRow, k[2] \in Firmly(m, k[1])'
        PROVE  k[3] \in {m, "foreign"} \cup loose'
    <2>1. CASE k \in sockets /\ m = n
      BY <1>4, <1>7, <2>1 DEF Fresh
    <2>2. CASE k \in sockets /\ m # n
      BY <1>1, <1>4, <1>7, <2>2 DEF Exclusive
    <2>3. CASE k[3] = n /\ k[1] \in Servers /\ k[2] \in Claims(r, k[1]) /\ m # n /\ n \notin loose'
      <3>1. k[2] \in Firm(r, n, loose', k[1])
        BY <2>3 DEF Firm
      <3>2. k[2] \in Firmly(m, k[1]) /\ row[m] # NoRow
        BY <1>1, <1>4, <1>7, <2>3
      <3> QED BY <2>3, <3>1, <3>2 DEF Fresh
    <2> QED BY <2>1, <2>2, <2>3, <1>7
  <1>8. Exclusive'
    BY <1>5, <1>6, <1>7 DEF Exclusive
  <1> QED BY <1>2, <1>3, <1>8

\* Fewer rows and fewer listeners, and cleanups that wait for what is kept for nobody.
LEMMA FewerKeep ==
    ASSUME PortAssumption, Typed, AllRecorded, Exclusive, UNCHANGED loose,
           \A m \in Nodes : row'[m] = row[m] \/ row'[m] = NoRow,
           sockets' \subseteq sockets,
           \A t \in tasks', m \in Nodes :
              t \in tasks \/ row'[m] = NoRow \/ t.node \in loose \/ Firmly(m, t.server) \cap t.ports = {}
    PROVE  AllRecorded' /\ Exclusive'
  <1>1. AllRecorded'
    BY DEF AllRecorded
  <1>2. \A m \in Nodes : \A s : row'[m] # NoRow => row[m] # NoRow /\ Firmly(m, s)' = Firmly(m, s)
    BY DEF Firmly
  <1>3. ASSUME NEW o \in Nodes, NEW m \in Nodes, NEW s \in Servers, o # m, row'[o] # NoRow, row'[m] # NoRow
        PROVE  Firmly(o, s)' \cap Firmly(m, s)' = {}
    BY <1>2, <1>3 DEF Exclusive
  <1>4. ASSUME NEW m \in Nodes, NEW t \in tasks', row'[m] # NoRow, t.node \notin loose'
        PROVE  Firmly(m, t.server)' \cap t.ports = {}
    BY <1>2, <1>4 DEF Exclusive
  <1>5. ASSUME NEW m \in Nodes, NEW k \in sockets', row'[m] # NoRow, k[2] \in Firmly(m, k[1])'
        PROVE  k[3] \in {m, "foreign"} \cup loose'
    BY <1>2, <1>5 DEF Exclusive
  <1>6. Exclusive'
    BY <1>3, <1>4, <1>5 DEF Exclusive
  <1> QED BY <1>1, <1>6

\* What other allocations know when rows are only removed.
LEMMA FewerKnow ==
    ASSUME PortAssumption, Typed, AllKnow,
           \A m \in Nodes : row'[m] = row[m] \/ (row'[m] = NoRow /\ alloc[m] = NoAlloc),
           UNCHANGED <<alloc, loose>>
    PROVE  AllKnow'
  BY DEF AllKnow, Knows, Firmly

\* What is known of an allocation that ends, and of the others when nothing new is kept for
\* the row of n at their servers.
LEMMA OthersKnow ==
    ASSUME PortAssumption, Typed, Apart, AllKnow, NEW n \in Nodes, NEW r \in RowType,
           loose' = loose \/ loose' = loose \cup {n},
           row' = [row EXCEPT ![n] = r],
           alloc' = alloc \/ alloc' = [alloc EXCEPT ![n] = NoAlloc],
           alloc'[n] = NoAlloc,
           \A m \in Nodes \ {n} : alloc[m] # NoAlloc =>
              \A x \in Firm(r, n, loose', alloc[m].server) : row[n] # NoRow /\ x \in Firmly(n, alloc[m].server)
    PROVE  Apart' /\ AllKnow'
  <1>1. /\ row'[n] = r /\ \A m \in Nodes \ {n} : row'[m] = row[m]
        /\ \A m \in Nodes \ {n} : alloc'[m] = alloc[m] /\ (m \in loose' <=> m \in loose)
    BY DEF Typed
  <1>2. Apart'
    BY <1>1 DEF Apart
  <1>3. ASSUME NEW m \in Nodes, alloc'[m] # NoAlloc PROVE Knows(m)'
    <2>1. m # n /\ alloc'[m] = alloc[m] /\ row'[m] = row[m] /\ Knows(m)
      BY <1>1, <1>3 DEF AllKnow
    <2>2. ASSUME NEW o \in Nodes \ {m}, row'[o] # NoRow
          PROVE  Firmly(o, alloc[m].server)' \subseteq alloc[m].used
      <3>1. CASE o = n
        <4>1. Firmly(o, alloc[m].server)' = Firm(r, n, loose', alloc[m].server)
          BY <1>1, <2>1, <3>1 DEF Firmly
        <4>2. row[n] # NoRow => Firmly(n, alloc[m].server) \subseteq alloc[m].used
          BY <2>1 DEF Knows
        <4> QED BY <1>3, <2>1, <4>1, <4>2
      <3>2. CASE o # n
        BY <1>1, <2>1, <2>2, <3>2 DEF Knows, Firmly, Firm
      <3> QED BY <3>1, <3>2
    <2> QED BY <2>1, <2>2 DEF Knows
  <1> QED BY <1>2, <1>3 DEF AllKnow

LEMMA SubsetListeners ==
    ASSUME Typed, sockets' \subseteq sockets PROVE sockets' \in SUBSET (Servers \X Ports \X Owners)
  BY DEF Typed

-----------------------------------------------------------------------------
(* The invariant holds initially and each action preserves it.               *)

LEMMA InitSafe == ASSUME PortAssumption, Init PROVE IInv
  BY DEF PortAssumption, Init, IInv, Typed, AllRecorded, Exclusive, Apart, AllKnow, NoAlloc

LEMMA AllocBeginSafe ==
    ASSUME PortAssumption, IInv, NEW n \in Nodes, NEW q \in Requests, AllocBegin(n, q[1], q[2], q[3], q[4])
    PROVE  IInv'
  <1> DEFINE a == [step |-> "scan", kind |-> q[1], core |-> q[2], server |-> q[3], exit |-> q[4],
                   used |-> RowPorts(q[3], {})]
  <1>1. q[1] \in Kinds /\ q[2] \in BOOLEAN /\ q[3] \in Servers /\ q[4] \in Servers \cup {None}
    BY DEF PortAssumption, Kinds
  <1>2. a \in AllocType
    BY <1>1, RowPortsType DEF IInv, AllocType
  <1>3. alloc' = [alloc EXCEPT ![n] = a] /\ UNCHANGED <<row, sockets, tasks, edits, loose>> /\ row[n] = NoRow
    BY DEF AllocBegin
  <1>4. alloc'[n] = a /\ \A m \in Nodes \ {n} : alloc'[m] = alloc[m]
    BY <1>3 DEF IInv, Typed
  <1>5. Typed'
    BY <1>2, <1>3 DEF IInv, Typed
  <1>6. AllRecorded' /\ Exclusive'
    BY <1>3 DEF IInv, AllRecorded, Exclusive, Firmly
  <1>7. Apart'
    <2>1. \A m \in Nodes : alloc[m] # NoAlloc => /\ alloc[m].server \notin {q[3], q[4]} /\ alloc[m].exit # q[3]
                                                /\ alloc[m].server \in Servers
      BY <1>1, Distinct DEF AllocBegin, Free, IInv, Typed, AllocType
    <2> QED BY <1>4, <2>1 DEF IInv, Apart
  <1>8. ASSUME NEW m \in Nodes, alloc'[m] # NoAlloc PROVE Knows(m)'
    <2>1. CASE m = n
      <3>1. \A o \in Nodes : row[o] # NoRow => Firmly(o, q[3]) \subseteq RowPorts(q[3], {})
        BY InRowPorts
      <3>2. /\ alloc'[m].server = q[3] /\ alloc'[m].used = RowPorts(q[3], {}) /\ alloc'[m].step = "scan"
            /\ row' = row /\ row[m] = NoRow
        BY <1>3, <1>4, <2>1
      <3> QED BY <1>3, <3>1, <3>2 DEF Knows, Firmly
    <2>2. CASE m # n
      BY <1>3, <1>4, <1>8, <2>2 DEF IInv, AllKnow, Knows, Firmly
    <2> QED BY <2>1, <2>2
  <1> QED BY <1>5, <1>6, <1>7, <1>8 DEF IInv, AllKnow

LEMMA EditBeginSafe == ASSUME PortAssumption, IInv, NEW n \in Nodes, EditBegin(n) PROVE IInv'
  <1> DEFINE a == [step |-> "edit", kind |-> "manual", core |-> row[n].core, server |-> row[n].server,
                   exit |-> None, used |-> RowPorts(row[n].server, {n})]
  <1>1. row[n] \in RowType /\ row[n] # NoRow
    BY DEF EditBegin, Live, IInv, Typed
  <1>2. a \in AllocType
    BY <1>1, RowPortsType DEF IInv, AllocType, RowType, Kinds
  <1>3. alloc' = [alloc EXCEPT ![n] = a] /\ UNCHANGED <<row, sockets, tasks, loose>> /\ edits' \in 0 .. MaxEdits
    BY DEF EditBegin, IInv, Typed, PortAssumption
  <1>4. alloc'[n] = a /\ \A m \in Nodes \ {n} : alloc'[m] = alloc[m]
    BY <1>3 DEF IInv, Typed
  <1>5. Typed'
    BY <1>2, <1>3 DEF IInv, Typed
  <1>6. AllRecorded' /\ Exclusive'
    BY <1>3 DEF IInv, AllRecorded, Exclusive, Firmly
  <1>7. Apart'
    <2>1. \A m \in Nodes : alloc[m] # NoAlloc => /\ alloc[m].server # row[n].server /\ alloc[m].exit # row[n].server
                                                /\ alloc[m].server \in Servers
      BY Distinct DEF EditBegin, Free, IInv, Typed, AllocType
    <2> QED BY <1>4, <2>1, Distinct DEF IInv, Apart
  <1>8. ASSUME NEW m \in Nodes, alloc'[m] # NoAlloc PROVE Knows(m)'
    <2>1. CASE m = n
      <3> DEFINE s == row[n].server
      <3>1. \A o \in Nodes \ {n} : row[o] # NoRow => Firmly(o, s) \subseteq RowPorts(s, {n})
        BY InRowPorts
      <3>2. /\ alloc'[m].server = s /\ alloc'[m].used = RowPorts(s, {n}) /\ alloc'[m].step = "edit"
            /\ row' = row /\ row[m] # NoRow
        BY <1>1, <1>3, <1>4, <2>1
      <3> QED BY <1>3, <2>1, <3>1, <3>2 DEF Knows, Firmly
    <2>2. CASE m # n
      BY <1>3, <1>4, <1>8, <2>2 DEF IInv, AllKnow, Knows, Firmly
    <2> QED BY <2>1, <2>2
  <1> QED BY <1>5, <1>6, <1>7, <1>8 DEF IInv, AllKnow

\* The port of the entry is free at the server of the allocation, the port of the exit at
\* the other one.
LEMMA InsertFresh ==
    ASSUME PortAssumption, IInv, NEW n \in Nodes, alloc[n].step = "scan", NEW p \in Ports, NEW e \in Ports \cup {0},
           Fits(p, alloc[n].core, alloc[n].used \cup Unavailable(alloc[n].server, {})),
           alloc[n].exit # None =>
              e \in Ports /\ Fits(e, FALSE, RowPorts(alloc[n].exit, {}) \cup Unavailable(alloc[n].exit, {})),
           NEW r, r = [server |-> alloc[n].server, listen |-> p, core |-> alloc[n].core, stats |-> 0,
                       exit |-> alloc[n].exit, exitPort |-> e]
    PROVE  Fresh(n, r, loose)
  <1> DEFINE s0 == alloc[n].server
             e0 == alloc[n].exit
  <1>1. alloc[n] \in AllocType /\ alloc[n] # NoAlloc
    BY DEF IInv, Typed, NoAlloc
  <1>2. r \in RowType /\ Sound(r, n, loose)
    <2>1. 0 \notin Ports
      BY DEF Ports
    <2>2. r \in RowType
      BY <1>1 DEF RowType, AllocType
    <2>3. r.stats = 0 /\ r.exit = e0 /\ r.exitPort = e
      OBVIOUS
    <2> QED BY <2>1, <2>2, <2>3 DEF Recorded, HasExit, Sound
  <1>3. ASSUME NEW s \in Servers, NEW x \in Firm(r, n, loose, s)
        PROVE  \/ s = s0 /\ x \notin alloc[n].used /\ x \notin Unavailable(s0, {})
               \/ s = e0 /\ x \notin RowPorts(e0, {}) /\ x \notin Unavailable(e0, {})
    <2>1. \/ s = s0 /\ (x = p \/ (alloc[n].core /\ x = Derived(p)))
          \/ s = e0 /\ x = e
      BY <1>3, FirmIsClaimed DEF Claims, Stats
    <2>2. CASE s = e0 /\ x = e
      BY <2>2, Distinct DEF Fits
    <2>3. CASE s = s0 /\ (x = p \/ (alloc[n].core /\ x = Derived(p)))
      BY <2>3 DEF Fits
    <2> QED BY <2>1, <2>2, <2>3
  <1>4. ASSUME NEW m \in Nodes \ {n}, NEW s \in Servers, row[m] # NoRow
        PROVE  Firm(r, n, loose, s) \cap Firmly(m, s) = {}
    <2>1. Firmly(m, s0) \subseteq alloc[n].used
      BY <1>1, <1>4 DEF IInv, AllKnow, Knows
    <2>2. Firmly(m, e0) \subseteq RowPorts(e0, {})
      BY <1>4, InRowPorts
    <2> QED BY <1>3, <2>1, <2>2
  <1>5. ASSUME NEW t \in tasks PROVE Firm(r, n, loose, t.server) \cap t.ports = {}
    <2>1. t.server \in Servers
      BY DEF IInv, Typed, TaskType
    <2>2. /\ t.server = s0 => t.ports \subseteq Unavailable(s0, {})
          /\ t.server = e0 => t.ports \subseteq Unavailable(e0, {})
      BY InUnavailable
    <2> QED BY <1>3, <2>1, <2>2
  <1>6. ASSUME NEW k \in sockets, k[2] \in Firm(r, n, loose, k[1]) PROVE k[3] \in {n, "foreign"} \cup loose
    <2>1. k[1] \in Servers
      BY DEF IInv, Typed
    <2>2. /\ k[1] = s0 => k[2] \in Unavailable(s0, {})
          /\ k[1] = e0 => k[2] \in Unavailable(e0, {})
      BY InUnavailable
    <2> QED BY <1>3, <1>6, <2>1, <2>2
  <1> QED BY <1>2, <1>4, <1>5, <1>6 DEF Fresh

LEMMA AllocScanSafe == ASSUME PortAssumption, IInv, NEW n \in Nodes, AllocScan(n) PROVE IInv'
  <1> DEFINE a == alloc[n]
             used == a.used \cup Unavailable(a.server, {})
  <1>1. a \in AllocType /\ a # NoAlloc /\ a.step = "scan" /\ row[n] = NoRow
    BY DEF AllocScan, IInv, Typed, NoAlloc, AllKnow, Knows
  <1>2. UNCHANGED <<sockets, tasks, edits, loose>>
    BY DEF AllocScan
  <1>3. CASE Refuse(n)
    <2>1. Typed'
      BY <1>2, <1>3 DEF Refuse, IInv, Typed
    <2>2. AllRecorded' /\ Exclusive'
      BY <1>2, <1>3 DEF Refuse, IInv, AllRecorded, Exclusive, Firmly
    <2>3. \A m \in Nodes : alloc'[m] = alloc[m] \/ alloc'[m] = NoAlloc
      BY <1>3 DEF Refuse, IInv, Typed
    <2>4. Apart' /\ AllKnow'
      BY <1>2, <1>3, <2>3 DEF Refuse, IInv, Apart, AllKnow, Knows, Firmly
    <2> QED BY <2>1, <2>2, <2>4 DEF IInv
  <1>4. ASSUME NEW p, NEW e, p \in Offered(a.kind, a.core, used), p # 0, Insert(n, a, p, e),
               \/ a.exit = None /\ e = 0
               \/ /\ a.exit # None /\ e # 0
                  /\ e \in Pick(ExitPool, FALSE, RowPorts(a.exit, {}) \cup Unavailable(a.exit, {}))
        PROVE  IInv'
    <2> DEFINE r == [server |-> a.server, listen |-> p, core |-> a.core, stats |-> 0,
                     exit |-> a.exit, exitPort |-> e]
    <2>1. p \in Ports /\ Fits(p, a.core, used)
      BY <1>4, OfferedFits
    <2>2. ToSet(ExitPool) \subseteq Ports
      BY DEF PortAssumption, Ports
    <2>3. /\ e \in Ports \cup {0}
          /\ a.exit # None => e \in Ports /\ Fits(e, FALSE, RowPorts(a.exit, {}) \cup Unavailable(a.exit, {}))
      BY <1>4, <2>2, PickFits
    <2>4. row' = [row EXCEPT ![n] = r] /\ alloc' = [alloc EXCEPT ![n] = NoAlloc]
      BY <1>4 DEF Insert
    <2>5. Fresh(n, r, loose)
      BY <1>1, <2>1, <2>3, InsertFresh
    <2>6. r \in RowType /\ r.server = a.server /\ r.exit = a.exit
      BY <2>5 DEF Fresh
    <2> HIDE DEF r
    <2>7. row' \in [Nodes -> RowType \cup {NoRow}] /\ AllRecorded' /\ Exclusive'
      BY <1>2, <2>4, <2>5, WriteKeeps DEF IInv, Typed
    <2>8. Typed'
      BY <1>2, <2>4, <2>7 DEF IInv, Typed
    <2>9. ASSUME NEW m \in Nodes \ {n}, alloc[m] # NoAlloc PROVE Firm(r, n, loose, alloc[m].server) = {}
      BY <1>1, <2>6, <2>9, FirmIsClaimed DEF IInv, Apart, Claims
    <2>10. alloc'[n] = NoAlloc
      BY <2>4 DEF IInv, Typed
    <2>11. Apart' /\ AllKnow'
      BY <1>2, <2>4, <2>6, <2>9, <2>10, OthersKnow DEF IInv
    <2> QED BY <2>7, <2>8, <2>11 DEF IInv
  <1>5. PICK p \in Offered(a.kind, a.core, used) :
           \/ p = 0 /\ Refuse(n)
           \/ p # 0 /\ a.exit = None /\ Insert(n, a, p, 0)
           \/ /\ p # 0 /\ a.exit # None
              /\ \E q \in Pick(ExitPool, FALSE, RowPorts(a.exit, {}) \cup Unavailable(a.exit, {})) :
                   IF q = 0 THEN Refuse(n) ELSE Insert(n, a, p, q)
    BY DEF AllocScan
  <1> HIDE DEF used, a
  <1> QED BY <1>3, <1>4, <1>5

\* An edit writes a row that keeps only what the node kept or what was free at its server.
LEMMA EditKeeps ==
    ASSUME PortAssumption, IInv, NEW n \in Nodes, alloc[n].step = "edit", row[n] # NoRow,
           loose' = loose \/ loose' = loose \cup {n}, UNCHANGED <<tasks, edits>>,
           alloc' = [alloc EXCEPT ![n] = NoAlloc],
           NEW r \in RowType, r.server = row[n].server, Sound(r, n, loose'), row' = [row EXCEPT ![n] = r],
           \A s : \A x \in Firm(r, n, loose', s) :
              \/ x \in Firmly(n, s)
              \/ s = r.server /\ x \notin alloc[n].used /\ x \notin Unavailable(r.server, {n}),
           \A k \in sockets' : \/ k \in sockets
                               \/ /\ k \in Servers \X Ports \X Owners /\ k[3] = n
                                  /\ n \in loose' \/ k[2] \in Claims(r, k[1])
    PROVE  IInv'
  <1> DEFINE a == alloc[n]
             s0 == row[n].server
  <1>1. a # NoAlloc /\ a.server = s0 /\ s0 \in Servers
    BY DEF NoAlloc, IInv, AllKnow, Knows, Typed, RowType
  <1>2. ASSUME NEW m \in Nodes \ {n}, NEW s \in Servers, row[m] # NoRow
        PROVE  Firm(r, n, loose', s) \cap Firmly(m, s) = {}
    <2>1. Firmly(n, s) \cap Firmly(m, s) = {}
      BY <1>2 DEF IInv, Exclusive
    <2>2. Firmly(m, s0) \subseteq a.used
      BY <1>1, <1>2 DEF IInv, AllKnow, Knows
    <2> QED BY <2>1, <2>2
  <1>3. ASSUME NEW t \in tasks, t.node \notin loose PROVE Firm(r, n, loose', t.server) \cap t.ports = {}
    <2>1. Firmly(n, t.server) \cap t.ports = {}
      BY <1>3 DEF IInv, Exclusive
    <2>2. t.server = s0 => t.ports \subseteq Unavailable(s0, {n})
      BY InUnavailable
    <2> QED BY <2>1, <2>2
  <1>4. ASSUME NEW k \in sockets, k[2] \in Firm(r, n, loose', k[1]) PROVE k[3] \in {n, "foreign"} \cup loose
    <2>1. k[2] \in Firmly(n, k[1]) => k[3] \in {n, "foreign"} \cup loose
      BY DEF IInv, Exclusive
    <2>2. k[1] = s0 /\ k[3] \notin {n} => k[2] \in Unavailable(s0, {n})
      BY InUnavailable
    <2> QED BY <1>4, <2>1, <2>2
  <1>5. Fresh(n, r, loose')
    BY <1>2, <1>3, <1>4 DEF Fresh
  <1>6. \A k \in sockets' : \/ k \in sockets
                            \/ k[3] = n /\ k[1] \in Servers /\ (n \in loose' \/ k[2] \in Claims(r, k[1]))
    OBVIOUS
  <1>7. row' \in [Nodes -> RowType \cup {NoRow}] /\ AllRecorded' /\ Exclusive'
    BY <1>5, <1>6, WriteKeeps DEF IInv
  <1>8. Typed'
    BY <1>7 DEF IInv, Typed
  <1>9. ASSUME NEW m \in Nodes \ {n}, alloc[m] # NoAlloc, NEW x \in Firm(r, n, loose', alloc[m].server)
        PROVE  x \in Firmly(n, alloc[m].server)
    BY <1>1, <1>9 DEF IInv, Apart
  <1>10. alloc'[n] = NoAlloc
    BY DEF IInv, Typed
  <1>11. Apart' /\ AllKnow'
    BY <1>9, <1>10, OthersKnow DEF IInv
  <1> QED BY <1>7, <1>8, <1>11 DEF IInv

LEMMA EditEndSafe == ASSUME PortAssumption, IInv, NEW n \in Nodes, EditEnd(n) PROVE IInv'
  <1> DEFINE a == alloc[n]
             s0 == row[n].server
             used == a.used \cup Unavailable(a.server, {n})
  <1>1. /\ a \in AllocType /\ a # NoAlloc /\ a.step = "edit" /\ a.server = s0
        /\ row[n] # NoRow /\ row[n] \in RowType /\ Sound(row[n], n, loose) /\ HasExit(row[n])
    <2>1. a \in AllocType /\ a # NoAlloc /\ a.step = "edit"
      <3>1. a.step = "edit"
        BY DEF EditEnd
      <3>2. a # NoAlloc /\ a \in AllocType \cup {NoAlloc}
        BY <3>1 DEF NoAlloc, IInv, Typed
      <3> QED BY <3>1, <3>2
    <2>2. a.server = s0 /\ row[n] # NoRow
      BY <2>1 DEF IInv, AllKnow, Knows
    <2>3. row[n] \in RowType /\ Sound(row[n], n, loose)
      BY <2>2 DEF IInv, Typed, AllRecorded
    <2> QED BY <2>1, <2>2, <2>3 DEF Sound
  <1>2. UNCHANGED <<tasks, edits>> /\ alloc' = [alloc EXCEPT ![n] = NoAlloc]
    BY DEF EditEnd
  <1>3. CASE UNCHANGED <<row, sockets, loose>>
    <2>1. Typed'
      BY <1>2, <1>3 DEF IInv, Typed
    <2>2. AllRecorded' /\ Exclusive'
      BY <1>2, <1>3 DEF IInv, AllRecorded, Exclusive, Firmly
    <2>3. \A m \in Nodes : alloc'[m] = alloc[m] \/ alloc'[m] = NoAlloc
      BY <1>2 DEF IInv, Typed
    <2>4. Apart' /\ AllKnow'
      BY <1>3, <2>3 DEF IInv, Apart, AllKnow, Knows, Firmly
    <2> QED BY <2>1, <2>2, <2>4 DEF IInv
  <1>4. ASSUME NEW p \in Ports, NEW c \in BOOLEAN, NEW q, q = [row[n] EXCEPT !.listen = p, !.core = c],
               Fits(p, c, used),
               \/ /\ sockets' = (sockets \ Own(n)) \cup NodeSockets(n, q) /\ UNCHANGED loose
                  /\ row' = [row EXCEPT ![n] = [q EXCEPT !.stats = IF c THEN Derived(p) ELSE 0]]
               \/ /\ row' = [row EXCEPT ![n] = q]
                  /\ \A k \in sockets' : k \in sockets \/ k \in NodeSockets(n, q)
                  /\ loose' = IF q = row[n] THEN loose ELSE loose \cup {n}
        PROVE  IInv'
    <2> DEFINE w == WithStats(q)
    <2>1. /\ q \in RowType /\ q.server = s0 /\ q.core = c /\ q.listen = p /\ HasExit(q)
          /\ w = [q EXCEPT !.stats = IF c THEN Derived(p) ELSE 0]
          /\ w \in RowType /\ w.server = s0 /\ Sound(w, n, loose)
          /\ \A s : \A x \in Claims(w, s) : x \in Firmly(n, s) \/ (s = s0 /\ (x = p \/ (c /\ x = Derived(p))))
          /\ \A s : \A x \in Main(q, s) : x \in Firmly(n, s) \/ (s = s0 /\ x = p)
      <3>1. /\ q \in RowType /\ q.server = s0 /\ q.core = c /\ q.listen = p
            /\ q.exit = row[n].exit /\ q.exitPort = row[n].exitPort
            /\ WithStats(q) = [q EXCEPT !.stats = IF c THEN Derived(p) ELSE 0]
        BY <1>1, <1>4 DEF RowType, WithStats
      <3>2. /\ HasExit(q) /\ WithStats(q) \in RowType /\ WithStats(q).server = s0
            /\ Sound(WithStats(q), n, loose)
            /\ \A s : \A x \in Claims(WithStats(q), s) :
                 \/ x \in Firm(row[n], n, loose, s)
                 \/ s = s0 /\ (x = q.listen \/ (q.core /\ x = Derived(q.listen)))
            /\ \A s : \A x \in Main(q, s) : x \in Firm(row[n], n, loose, s) \/ (s = s0 /\ x = q.listen)
        <4>1. row[n] \in RowType /\ HasExit(row[n]) /\ q \in RowType
          BY <1>1, <3>1
        <4> DEFINE r == row[n]
        <4>2. r \in RowType /\ HasExit(r) /\ q.server = r.server /\ q.exit = r.exit /\ q.exitPort = r.exitPort
          BY <4>1, <3>1
        <4> HIDE DEF r
        <4>3. /\ HasExit(q) /\ WithStats(q) \in RowType /\ WithStats(q).server = r.server
              /\ Sound(WithStats(q), n, loose)
          BY <4>1, <4>2, MovedSound
        <4>4. \A s : \A x \in Claims(WithStats(q), s) :
                 \/ x \in Firm(r, n, loose, s)
                 \/ s = r.server /\ (x = q.listen \/ (q.core /\ x = Derived(q.listen)))
          BY <4>1, <4>2, MovedKeeps
        <4>5. \A s : \A x \in Main(q, s) : x \in Firm(r, n, loose, s) \/ (s = r.server /\ x = q.listen)
          BY <4>1, <4>2, MovedKeeps
        <4> QED BY <4>3, <4>4, <4>5 DEF r
      <3> QED BY <3>1, <3>2 DEF Firmly
    <2>2. \A k \in NodeSockets(n, q) : k \in Servers \X Ports \X Owners /\ k[3] = n /\ k[2] \in Claims(w, k[1])
      BY <2>1, SocketsClaimed DEF HasExit
    <2> HIDE DEF w
    <2>3. /\ p \notin a.used /\ p \notin Unavailable(s0, {n})
          /\ c => Derived(p) \notin a.used /\ Derived(p) \notin Unavailable(s0, {n})
      BY <1>1, <1>4 DEF Fits
    <2>4. CASE /\ sockets' = (sockets \ Own(n)) \cup NodeSockets(n, q) /\ UNCHANGED loose
               /\ row' = [row EXCEPT ![n] = w]
      <3>1. \A s : \A x \in Firm(w, n, loose, s) :
              x \in Firmly(n, s) \/ (s = s0 /\ x \notin a.used /\ x \notin Unavailable(s0, {n}))
        BY <2>1, <2>3, FirmIsClaimed
      <3>2. \A k \in sockets' : \/ k \in sockets
                                \/ /\ k \in Servers \X Ports \X Owners /\ k[3] = n
                                   /\ n \in loose' \/ k[2] \in Claims(w, k[1])
        BY <2>2, <2>4
      <3>3. loose' = loose /\ Sound(w, n, loose') /\ row' = [row EXCEPT ![n] = w] /\ w.server = row[n].server
        BY <2>1, <2>4
      <3> QED BY <1>1, <1>2, <2>1, <3>1, <3>2, <3>3, EditKeeps
    <2>5. CASE /\ row' = [row EXCEPT ![n] = q] /\ q # row[n] /\ loose' = loose \cup {n}
               /\ \A k \in sockets' : k \in sockets \/ k \in NodeSockets(n, q)
      <3>1. \A s : \A x \in Firm(q, n, loose', s) :
              x \in Firmly(n, s) \/ (s = s0 /\ x \notin a.used /\ x \notin Unavailable(s0, {n}))
        BY <2>1, <2>3, <2>5 DEF Firm
      <3>2. Sound(q, n, loose')
        BY <2>1, <2>5 DEF Sound
      <3> QED BY <1>1, <1>2, <2>1, <2>2, <2>5, <3>1, <3>2, EditKeeps
    <2>6. CASE /\ row' = [row EXCEPT ![n] = q] /\ q = row[n] /\ UNCHANGED loose
               /\ \A k \in sockets' : k \in sockets \/ k \in NodeSockets(n, q)
      <3>1. \A s : Firm(w, n, loose, s) = Firm(q, n, loose, s)
        BY <1>1, <2>1, <2>6, WithStatsFirm DEF w
      <3>2. \A k \in NodeSockets(n, q) : n \in loose' \/ k[2] \in Claims(q, k[1])
        BY <2>2, <2>6, <3>1 DEF Firm
      <3>3. \A s : \A x \in Firm(q, n, loose', s) : x \in Firmly(n, s)
        BY <2>6 DEF Firmly
      <3>4. Sound(q, n, loose')
        BY <1>1, <2>6
      <3> HIDE DEF s0
      <3> QED BY <1>1, <1>2, <2>1, <2>2, <2>6, <3>2, <3>3, <3>4, EditKeeps DEF s0
    <2> QED BY <1>4, <2>1, <2>4, <2>5, <2>6
  <1>5. ASSUME ~UNCHANGED <<row, sockets, loose>> PROVE IInv'
    <2>1. PICK p \in Ports, c \in BOOLEAN :
            LET q == [row[n] EXCEPT !.listen = p, !.core = c]
                replaced == (sockets \ Own(n)) \cup NodeSockets(n, q)
            IN  /\ Fits(p, c, used)
                /\ \/ /\ Clear(n, q) /\ sockets' = replaced
                      /\ row' = [row EXCEPT ![n] = [q EXCEPT !.stats = IF c THEN Derived(p) ELSE 0]]
                      /\ UNCHANGED loose
                   \/ /\ row' = [row EXCEPT ![n] = q]
                      /\ sockets' \in {sockets, sockets \ Own(n)} \cup (IF Clear(n, q) THEN {replaced} ELSE {})
                      /\ loose' = IF q = row[n] THEN loose ELSE loose \cup {n}
      BY <1>5 DEF EditEnd
    <2> DEFINE q == [row[n] EXCEPT !.listen = p, !.core = c]
    <2> HIDE DEF used
    <2>2. sockets' \in {sockets, sockets \ Own(n), (sockets \ Own(n)) \cup NodeSockets(n, q)}
            => \A k \in sockets' : k \in sockets \/ k \in NodeSockets(n, q)
      OBVIOUS
    <2> QED BY <1>4, <2>1, <2>2
  <1> QED BY <1>3, <1>5

LEMMA DeploySafe == ASSUME PortAssumption, IInv, NEW n \in Nodes, Deploy(n) PROVE IInv'
  <1> DEFINE r == WithStats(row[n])
  <1>1. row[n] # NoRow /\ row[n] \in RowType /\ Sound(row[n], n, loose) /\ HasExit(row[n]) /\ alloc[n] = NoAlloc
    BY DEF Deploy, Live, IInv, Typed, AllRecorded, Sound
  <1>2. /\ row' = [row EXCEPT ![n] = r] /\ UNCHANGED <<tasks, alloc, edits, loose>>
        /\ sockets' = (sockets \ Own(n)) \cup NodeSockets(n, row[n])
    BY <1>1 DEF Deploy, WithStats, IInv, Typed
  <1>3. r \in RowType /\ Sound(r, n, loose) /\ \A s : Firm(r, n, loose, s) = Firmly(n, s)
    BY <1>1, WithStatsFirm DEF Firmly
  <1>4. \A k \in NodeSockets(n, row[n]) : k \in Servers \X Ports \X Owners /\ k[3] = n /\ k[2] \in Claims(r, k[1])
    BY <1>1, SocketsClaimed DEF HasExit
  <1> HIDE DEF r
  <1>5. Fresh(n, r, loose')
    BY <1>1, <1>2, <1>3 DEF Fresh, IInv, Exclusive
  <1>6. row' \in [Nodes -> RowType \cup {NoRow}] /\ AllRecorded' /\ Exclusive'
    <2>1. \A k \in sockets' : \/ k \in sockets
                              \/ k[3] = n /\ k[1] \in Servers /\ (n \in loose' \/ k[2] \in Claims(r, k[1]))
      BY <1>2, <1>4
    <2> QED BY <1>2, <1>5, <2>1, WriteKeeps DEF IInv
  <1>7. Typed'
    BY <1>2, <1>4, <1>6 DEF IInv, Typed, Own
  <1>8. Apart' /\ AllKnow'
    BY <1>1, <1>2, <1>3, OthersKnow DEF IInv
  <1> QED BY <1>6, <1>7, <1>8 DEF IInv

LEMMA StopSafe == ASSUME PortAssumption, IInv, NEW n \in Nodes, Stop(n) PROVE IInv'
  <1>1. sockets' \subseteq sockets /\ UNCHANGED <<row, tasks, alloc, edits, loose>>
    BY DEF Stop
  <1>2. Typed'
    BY <1>1 DEF IInv, Typed
  <1>3. AllRecorded' /\ Exclusive'
    BY <1>1, FewerKeep DEF IInv, Typed
  <1>4. Apart' /\ AllKnow'
    BY <1>1, FewerKnow DEF IInv, Apart
  <1> QED BY <1>2, <1>3, <1>4 DEF IInv

LEMMA RemoveNodeSafe == ASSUME PortAssumption, IInv, NEW n \in Nodes, RemoveNode(n) PROVE IInv'
  <1>1. row' = [row EXCEPT ![n] = NoRow] /\ alloc[n] = NoAlloc /\ UNCHANGED <<sockets, tasks, alloc, edits, loose>>
    BY DEF RemoveNode
  <1>2. \A m \in Nodes : row'[m] = row[m] \/ (row'[m] = NoRow /\ alloc[m] = NoAlloc)
    BY <1>1 DEF IInv, Typed
  <1>3. Typed'
    BY <1>1 DEF IInv, Typed
  <1>4. AllRecorded' /\ Exclusive'
    BY <1>1, <1>2, <1>3, FewerKeep DEF IInv, Typed
  <1>5. Apart' /\ AllKnow'
    BY <1>1, <1>2, FewerKnow DEF IInv, Apart
  <1> QED BY <1>3, <1>4, <1>5 DEF IInv

LEMMA QueueSafe == ASSUME PortAssumption, IInv, NEW n \in Nodes, Queue(n) PROVE IInv'
  <1> DEFINE r == row[n]
             entry == [server |-> r.server, ports |-> {r.listen} \cup ({r.stats} \ {0}), node |-> n]
             exit == [server |-> r.exit, ports |-> {r.exitPort}, node |-> n]
  <1>1. r # NoRow /\ r \in RowType /\ Sound(r, n, loose) /\ alloc[n] = NoAlloc
    BY DEF Queue, Live, IInv, Typed, AllRecorded
  <1>2. row' = [row EXCEPT ![n] = NoRow] /\ UNCHANGED <<sockets, alloc, edits, loose>>
    BY DEF Queue
  <1>3. \A t \in tasks' : t \in tasks \/ t = entry \/ (r.exit # None /\ t = exit)
    BY DEF Queue
  <1>4. row'[n] = NoRow /\ \A m \in Nodes \ {n} : row'[m] = row[m]
    BY <1>2 DEF IInv, Typed
  <1>5. entry \in TaskType /\ entry.node = n /\ entry.ports \subseteq Claims(r, entry.server)
    BY <1>1 DEF TaskType, RowType, Claims, Stats, Ports
  <1>6. r.exit # None => exit \in TaskType /\ exit.node = n /\ exit.ports \subseteq Claims(r, exit.server)
    BY <1>1 DEF TaskType, RowType, Claims, HasExit, Sound
  <1> HIDE DEF r, entry, exit
  <1>7. Typed'
    BY <1>2, <1>3, <1>5, <1>6 DEF IInv, Typed
  <1>8. ASSUME NEW m \in Nodes, m # n, row[m] # NoRow, NEW t \in tasks', t \notin tasks, t.node \notin loose
        PROVE  Firmly(m, t.server) \cap t.ports = {}
    <2>1. t \in TaskType /\ t.ports \subseteq Claims(r, t.server) /\ t.node = n
      BY <1>3, <1>5, <1>6, <1>8
    <2>2. t.server \in Servers
      BY <2>1 DEF TaskType
    <2>3. Firmly(n, t.server) \cap Firmly(m, t.server) = {}
      BY <1>1, <1>8, <2>2 DEF IInv, Exclusive, r
    <2>4. Firmly(n, t.server) = Claims(r, t.server)
      BY <1>8, <2>1 DEF Firmly, Firm, r
    <2> QED BY <2>1, <2>3, <2>4
  <1>9. AllRecorded' /\ Exclusive'
    BY <1>2, <1>4, <1>7, <1>8, FewerKeep DEF IInv, Typed
  <1>10. Apart' /\ AllKnow'
    BY <1>1, <1>2, <1>4, FewerKnow DEF IInv, Apart
  <1> QED BY <1>7, <1>9, <1>10 DEF IInv

LEMMA CleanupDoneSafe == ASSUME PortAssumption, IInv, NEW t \in tasks, CleanupDone(t) PROVE IInv'
  <1>1. tasks' \subseteq tasks /\ sockets' \subseteq sockets /\ UNCHANGED <<row, alloc, edits, loose>>
    BY DEF CleanupDone
  <1>2. Typed'
    BY <1>1 DEF IInv, Typed
  <1>3. AllRecorded' /\ Exclusive'
    BY <1>1, FewerKeep DEF IInv, Typed
  <1>4. Apart' /\ AllKnow'
    BY <1>1, FewerKnow DEF IInv, Apart
  <1> QED BY <1>2, <1>3, <1>4 DEF IInv

LEMMA ForeignListensSafe ==
    ASSUME PortAssumption, IInv, NEW k \in Foreign, ForeignListens(k[1], k[2]) PROVE IInv'
  <1> DEFINE new == <<k[1], k[2], "foreign">>
  <1>1. new \in Servers \X Ports \X Owners /\ new[3] = "foreign"
    BY DEF PortAssumption, Ports, Owners
  <1>2. (\A l \in sockets' : l \in sockets \/ l = new) /\ UNCHANGED <<row, tasks, alloc, edits, loose>>
    BY DEF ForeignListens
  <1> HIDE DEF new
  <1>3. Typed'
    BY <1>1, <1>2 DEF IInv, Typed
  <1>4. AllRecorded' /\ Exclusive'
    BY <1>1, <1>2 DEF IInv, AllRecorded, Exclusive, Firmly
  <1>5. Apart' /\ AllKnow'
    BY <1>2, FewerKnow DEF IInv, Apart
  <1> QED BY <1>3, <1>4, <1>5 DEF IInv

-----------------------------------------------------------------------------
LEMMA NextSafe == ASSUME PortAssumption, IInv, [Next]_vars PROVE IInv'
  <1>1. CASE UNCHANGED vars
    BY <1>1 DEF vars, IInv, Typed, AllRecorded, Exclusive, Apart, AllKnow, Knows, Firmly
  <1>2. ASSUME NEW n \in Nodes, NEW q \in Requests, AllocBegin(n, q[1], q[2], q[3], q[4]) PROVE IInv'
    BY <1>2, AllocBeginSafe
  <1>3. ASSUME NEW n \in Nodes, AllocScan(n) PROVE IInv'
    BY <1>3, AllocScanSafe
  <1>4. ASSUME NEW n \in Nodes, EditBegin(n) PROVE IInv'
    BY <1>4, EditBeginSafe
  <1>5. ASSUME NEW n \in Nodes, EditEnd(n) PROVE IInv'
    BY <1>5, EditEndSafe
  <1>6. ASSUME NEW n \in Nodes, Deploy(n) PROVE IInv'
    BY <1>6, DeploySafe
  <1>7. ASSUME NEW n \in Nodes, Stop(n) PROVE IInv'
    BY <1>7, StopSafe
  <1>8. ASSUME NEW n \in Nodes, RemoveNode(n) PROVE IInv'
    BY <1>8, RemoveNodeSafe
  <1>9. ASSUME NEW n \in Nodes, Queue(n) PROVE IInv'
    BY <1>9, QueueSafe
  <1>10. ASSUME NEW t \in tasks, CleanupDone(t) PROVE IInv'
    BY <1>10, CleanupDoneSafe
  <1>11. ASSUME NEW k \in Foreign, ForeignListens(k[1], k[2]) PROVE IInv'
    BY <1>11, ForeignListensSafe
  <1> QED BY <1>1, <1>2, <1>3, <1>4, <1>5, <1>6, <1>7, <1>8, <1>9, <1>10, <1>11 DEF Next

LEMMA IInvSafe == ASSUME PortAssumption, IInv PROVE PortsApart
  <1>1. TypeOK
    BY DEF IInv, Typed, TypeOK, RowType, AllocType, TaskType, Owners
  <1>2. \A n \in Live : \A s : row[n] # NoRow /\ Kept(n, s) = Firmly(n, s)
    BY KeptIsFirm DEF Live, IInv, Typed, AllRecorded
  <1>3. NothingPromisedTwice
    BY <1>2 DEF NothingPromisedTwice, IInv, Exclusive, Live
  <1>4. OnlyOwnListeners
    BY <1>2 DEF OnlyOwnListeners, IInv, Exclusive, Live
  <1> QED BY <1>1, <1>3, <1>4 DEF PortsApart

(* No port of a server is kept for two nodes, or for a node and a resource   *)
(* that waits for its cleanup, and nothing that listens on a node's ports    *)
(* belongs to another node: creations, edits, deployments and deletions may  *)
(* run at once on any number of servers.  An edit may reply before its       *)
(* deployment, fail without a way back, or be cut short by a crash: only the *)
(* statistics port of such a node may then be promised twice, and only such  *)
(* a node may listen where another one should.                               *)
THEOREM PortsStayApart == ASSUME PortAssumption PROVE Spec => []PortsApart
  <1>1. Init => IInv
    BY InitSafe
  <1>2. IInv /\ [Next]_vars => IInv'
    BY NextSafe
  <1>3. IInv => PortsApart
    BY IInvSafe
  <1> QED BY <1>1, <1>2, <1>3, PTL DEF Spec
=============================================================================
