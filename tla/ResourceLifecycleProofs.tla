----------------------- MODULE ResourceLifecycleProofs -----------------------
(***************************************************************************)
(* What ResourceLifecycle guarantees for every number of nodes, servers,   *)
(* machines and handlers.                                                  *)
(***************************************************************************)
EXTENDS ResourceLifecycle, TLAPS

-----------------------------------------------------------------------------
(* The services of nodes *)

\* A resource is a pair of a node and a role, and runs for a server.
LEMMA ResourceParts ==
    ASSUME NEW r \in Resources
    PROVE  /\ NodeOf(r) \in Nodes
           /\ RoleOf(r) \in Roles
           /\ ServerOf(r) \in Servers
           /\ r = <<NodeOf(r), RoleOf(r)>>
           /\ r \in ServicesOf(NodeOf(r))
           /\ RoleOf(r) = "EXIT" => ExitOf[NodeOf(r)] # NoServer
BY PlacementAssumption DEF Resources, ServicesOf, NodeOf, RoleOf, ServerOf, Roles

\* Every node has an entry, and an exit when it names an exit server.
LEMMA NodeServices ==
    ASSUME NEW n \in Nodes
    PROVE  /\ <<n, "ENTRY">> \in Resources
           /\ ServerOf(<<n, "ENTRY">>) = EntryOf[n]
           /\ EntryOf[n] \in Servers
           /\ ExitOf[n] # NoServer => /\ <<n, "EXIT">> \in Resources
                                      /\ ServerOf(<<n, "EXIT">>) = ExitOf[n]
                                      /\ ExitOf[n] \in Servers
           /\ Hosting(n) \subseteq Servers
           /\ ServicesOf(n) \subseteq Resources
BY PlacementAssumption DEF Resources, ServicesOf, ServerOf, Hosting

-----------------------------------------------------------------------------
(* Types *)

\* What each handler has in its locals, by where it stands.
Operating == DeployPCs \cup UndeployPCs
Control(w) ==
    /\ pc[w] \in {"create", "provision"} \cup Operating => tgt[w] \in Nodes
    /\ pc[w] \in Operating =>
          /\ ssh[w]["ENTRY"] \in Hosts
          /\ role[w] = "EXIT" => ExitOf[tgt[w]] # NoServer /\ ssh[w]["EXIT"] \in Hosts
    /\ pc[w] \in DeployPCs => prior[w] \in Configs
    /\ pc[w] \in {"picked"} \cup CleanupPCs => tgt[w] \in Resources /\ role[w] = RoleOf(tgt[w])
    /\ pc[w] \in CleanupPCs \ {"prepare"} => ssh[w][role[w]] \in Hosts
    /\ pc[w] \in {"queue", "scanList", "scanObserve"} \cup FinalPCs => tgt[w] \in Servers
    /\ pc[w] \in {"scanObserve", "finalObserve"} => seen[w] \subseteq Resources

TypeInv == TypeOK /\ \A w \in Workers : Control(w)

LEMMA TypeInit == Init => TypeInv
  <1> SUFFICES ASSUME Init PROVE TypeInv
    OBVIOUS
  <1>1. TypeOK
    BY NamesAssumption DEF Init, TypeOK, RowTypes, HostingTypes, JobTypes, MachineTypes,
       HandlerTypes, GhostTypes, NoTask, Task, TaskStates, Nothing, Artifact, PCs, Roles,
       NoPeers, NoneKnown, NoSaves
  <1>2. \A w \in Workers : Control(w)
    BY DEF Init, Control, Operating, DeployPCs, PinPCs, UndeployPCs, CleanupPCs, FinalPCs
  <1> QED BY <1>1, <1>2 DEF TypeInv

\* A group of variables that a step leaves alone keeps its types.
LEMMA TypesKept ==
    ASSUME TypeOK
    PROVE  /\ UNCHANGED rows => RowTypes'
           /\ UNCHANGED hosting => HostingTypes'
           /\ UNCHANGED jobs => JobTypes'
           /\ UNCHANGED machines => MachineTypes'
           /\ UNCHANGED <<procs, locals>> => HandlerTypes'
           /\ UNCHANGED ghosts => GhostTypes'
BY DEF TypeOK, RowTypes, HostingTypes, JobTypes, MachineTypes, HandlerTypes, GhostTypes,
       rows, hosting, jobs, machines, procs, locals, ghosts

\* One more disturbance of some kind.
LEMMA SpendTyped ==
    ASSUME GhostTypes, NEW kind \in Disturbances, Spend(kind),
           abandoned' \subseteq Resources
    PROVE  GhostTypes'
BY DEF GhostTypes, Spend

\* A handler that ends.
LEMMA EndTyped ==
    ASSUME TypeInv, NEW w \in Workers, End(w)
    PROVE  HandlerTypes' /\ \A v \in Workers : Control(v)'
  <1>1. HandlerTypes'
    BY DEF TypeInv, TypeOK, HandlerTypes, End, PCs, Roles, NoPeers, NoneKnown, NoSaves
  <1>2. ASSUME NEW v \in Workers PROVE Control(v)'
    <2>1. CASE v = w
      BY <2>1 DEF End, TypeInv, TypeOK, HandlerTypes, Control, Operating, DeployPCs, PinPCs, UndeployPCs,
         CleanupPCs, FinalPCs
    <2>2. CASE v # w
      BY <2>2 DEF End, TypeInv, TypeOK, HandlerTypes, Control
    <2> QED BY <2>1, <2>2
  <1> QED BY <1>1, <1>2

\* A handler that begins.
LEMMA BeginTyped ==
    ASSUME TypeInv, NEW w \in Workers, NEW p \in PCs,
           NEW t \in Nodes \cup Servers \cup Resources, NEW x \in Roles, NEW keys \in SUBSET Keys,
           Begin(w, p, t, x, keys), UNCHANGED <<saved>>,
           prior' \in [Workers -> Configs \cup {NoConfig}],
           ssh' \in [Workers -> [Roles -> Hosts \cup {NoHost}]],
           known' \in [Workers -> [Roles -> Identities \cup {NoId}]],
           seen' \in [Workers -> SUBSET (Nodes \cup Resources)],
           \A v \in Workers \ {w} : prior'[v] = prior[v] /\ ssh'[v] = ssh[v] /\ seen'[v] = seen[v],
           Control(w)'
    PROVE  HandlerTypes' /\ \A v \in Workers : Control(v)'
  <1>1. HandlerTypes'
    BY DEF TypeInv, TypeOK, HandlerTypes, Begin
  <1>2. ASSUME NEW v \in Workers, v # w PROVE Control(v)'
    BY <1>2 DEF Begin, TypeInv, TypeOK, HandlerTypes, Control
  <1> QED BY <1>1, <1>2

\* What one write to a machine, and one change of a job, keep.
LEMMA PutTyped ==
    ASSUME MachineTypes, UNCHANGED mark,
           NEW h \in Hosts, NEW r \in Resources, NEW a \in Artifact, Put(h, r, a)
    PROVE  MachineTypes'
BY DEF MachineTypes, Put

LEMMA TaskTyped ==
    ASSUME JobTypes, UNCHANGED finding,
           NEW r \in Resources, NEW state \in TaskStates, NEW due \in BOOLEAN,
           TaskBecomes(r, state, due)
    PROVE  JobTypes'
BY DEF JobTypes, TaskBecomes, Task

\* The service a deployment or a removal works on, and its machine.
LEMMA TargetTyped ==
    ASSUME TypeInv, NEW w \in Workers, pc[w] \in Operating
    PROVE  /\ tgt[w] \in Nodes
           /\ Target(w) \in Resources
           /\ Peer(w) \in Hosts
           /\ ServerOf(Target(w)) \in Servers
  <1>1. tgt[w] \in Nodes /\ ssh[w]["ENTRY"] \in Hosts /\ role[w] \in {"ENTRY", "EXIT"}
    BY DEF TypeInv, TypeOK, HandlerTypes, Control, Roles
  <1>2. CASE role[w] = "ENTRY"
    BY <1>1, <1>2, NodeServices DEF Target, Peer
  <1>3. CASE role[w] = "EXIT"
    <2>1. ExitOf[tgt[w]] # NoServer /\ ssh[w]["EXIT"] \in Hosts
      BY <1>3 DEF TypeInv, Control
    <2> QED BY <1>1, <1>3, <2>1, NodeServices DEF Target, Peer
  <1> QED BY <1>1, <1>2, <1>3

\* A handler that goes on, with or without a new connection, role or reading.
LEMMA StepTyped ==
    ASSUME TypeInv, NEW w \in Workers, NEW p \in PCs, pc' = [pc EXCEPT ![w] = p],
           UNCHANGED <<tgt, prior>>, held' \in [Workers -> SUBSET Keys],
           UNCHANGED role \/ \E x \in Roles : role' = [role EXCEPT ![w] = x],
           UNCHANGED ssh \/ \E x \in Roles, h \in Hosts : ssh' = [ssh EXCEPT ![w][x] = h],
           UNCHANGED known
             \/ \E x \in Roles, i \in Identities \cup {NoId} : known' = [known EXCEPT ![w][x] = i],
           saved' \in [Workers -> [Roles -> Artifact \cup {Nobody}]],
           UNCHANGED seen \/ \E S \in SUBSET Resources : seen' = [seen EXCEPT ![w] = S],
           Control(w)'
    PROVE  HandlerTypes' /\ \A v \in Workers : Control(v)'
  <1>1. HandlerTypes'
    <2>1. pc' \in [Workers -> PCs] /\ role' \in [Workers -> Roles]
      <3>1. CASE UNCHANGED role
        BY <3>1 DEF TypeInv, TypeOK, HandlerTypes
      <3>2. CASE \E x \in Roles : role' = [role EXCEPT ![w] = x]
        BY <3>2 DEF TypeInv, TypeOK, HandlerTypes
      <3> QED BY <3>1, <3>2
    <2>2. ssh' \in [Workers -> [Roles -> Hosts \cup {NoHost}]]
      <3>1. CASE UNCHANGED ssh
        BY <3>1 DEF TypeInv, TypeOK, HandlerTypes
      <3>2. CASE \E x \in Roles, h \in Hosts : ssh' = [ssh EXCEPT ![w][x] = h]
        BY <3>2 DEF TypeInv, TypeOK, HandlerTypes
      <3> QED BY <3>1, <3>2
    <2>3. seen' \in [Workers -> SUBSET (Nodes \cup Resources)]
      BY DEF TypeInv, TypeOK, HandlerTypes
    <2>4. known' \in [Workers -> [Roles -> Identities \cup {NoId}]]
      <3>1. CASE UNCHANGED known
        BY <3>1 DEF TypeInv, TypeOK, HandlerTypes
      <3>2. CASE \E x \in Roles, i \in Identities \cup {NoId} : known' = [known EXCEPT ![w][x] = i]
        BY <3>2 DEF TypeInv, TypeOK, HandlerTypes
      <3> QED BY <3>1, <3>2
    <2> QED BY <2>1, <2>2, <2>3, <2>4 DEF TypeInv, TypeOK, HandlerTypes
  <1>2. ASSUME NEW v \in Workers, v # w PROVE Control(v)'
    <2>1. pc'[v] = pc[v] /\ role'[v] = role[v] /\ ssh'[v] = ssh[v] /\ seen'[v] = seen[v]
      BY <1>2 DEF TypeInv, TypeOK, HandlerTypes
    <2> QED BY <2>1 DEF TypeInv, Control
  <1> QED BY <1>1, <1>2

-----------------------------------------------------------------------------
(* Types: the steps of the handlers *)

LEMMA CreateTyped ==
    ASSUME TypeInv, NEW w \in Workers,
           CreateInsert(w) \/ CreateRefused(w) \/ Provisioned(w) \/ Compensate(w)
    PROVE  TypeInv'
  <1>1. CASE CreateInsert(w)
    <2>1. HandlerTypes' /\ \A v \in Workers : Control(v)'
      BY <1>1 DEF CreateInsert, locals, TypeInv, TypeOK, HandlerTypes, Control, Operating,
         DeployPCs, PinPCs, UndeployPCs, CleanupPCs, FinalPCs, PCs
    <2>2. RowTypes'
      BY <1>1 DEF CreateInsert, TypeInv, TypeOK, RowTypes
    <2> QED BY <1>1, <2>1, <2>2, TypesKept DEF CreateInsert, TypeInv, TypeOK
  <1>2. CASE CreateRefused(w) \/ Provisioned(w)
    <2>1. HandlerTypes' /\ \A v \in Workers : Control(v)'
      BY <1>2, EndTyped DEF CreateRefused, Provisioned
    <2> QED BY <1>2, <2>1, TypesKept DEF CreateRefused, Provisioned, TypeInv, TypeOK
  <1>3. CASE Compensate(w)
    <2>1. HandlerTypes' /\ \A v \in Workers : Control(v)'
      BY <1>3, EndTyped DEF Compensate
    <2>2. tgt[w] \in Nodes
      BY <1>3 DEF Compensate, TypeInv, Control
    <2>3. RowTypes'
      BY <1>3, <2>2 DEF Compensate, TypeInv, TypeOK, RowTypes
    <2>4. GhostTypes'
      <3>1. abandoned' \subseteq Resources
        BY <1>3, <2>2, NodeServices DEF Compensate, TypeInv, TypeOK, GhostTypes
      <3> QED BY <1>3, <3>1, SpendTyped DEF Compensate, TypeInv, TypeOK, Disturbances
    <2> QED BY <1>3, <2>1, <2>3, <2>4, TypesKept DEF Compensate, TypeInv, TypeOK
  <1> QED BY <1>1, <1>2, <1>3

\* The owner is asserted on the machine of the entry, then on that of the exit.
LEMMA AssertedTyped ==
    ASSUME TypeInv, NEW w \in Workers, pc[w] \in PinPCs, Asserted(w),
           UNCHANGED <<tgt, held, prior, saved, seen>>
    PROVE  HandlerTypes' /\ \A v \in Workers : Control(v)'
  <1> USE DEF TypeInv
  <1>1. tgt[w] \in Nodes /\ Peer(w) \in Hosts
    BY TargetTyped DEF Operating, DeployPCs, PinPCs
  <1>2. CASE role[w] = "ENTRY" /\ ExitOf[tgt[w]] # NoServer
    <2>1. addr[ExitOf[tgt[w]]] \in Hosts /\ hostId[ExitOf[tgt[w]]] \in Identities \cup {NoId}
      BY <1>1, <1>2, NodeServices DEF TypeOK, HostingTypes
    <2>2. /\ pc' = [pc EXCEPT ![w] = "pin"] /\ role' = [role EXCEPT ![w] = "EXIT"]
          /\ ssh' = [ssh EXCEPT ![w]["EXIT"] = addr[ExitOf[tgt[w]]]]
          /\ known' = [known EXCEPT ![w]["EXIT"] = hostId[ExitOf[tgt[w]]]]
      BY <1>2 DEF Asserted
    <2>3. Control(w)'
      BY <1>1, <1>2, <2>1, <2>2 DEF TypeOK, HandlerTypes, Control, Operating,
         DeployPCs, PinPCs, UndeployPCs, CleanupPCs, FinalPCs, Roles
    <2> QED BY <2>1, <2>2, <2>3, StepTyped DEF TypeOK, HandlerTypes, PCs, DeployPCs, PinPCs, Roles
  <1>3. CASE ~(role[w] = "ENTRY" /\ ExitOf[tgt[w]] # NoServer)
    <2>1. pc' = [pc EXCEPT ![w] = "install"] /\ UNCHANGED <<role, ssh, known>>
      BY <1>3 DEF Asserted
    <2>2. Control(w)'
      BY <1>1, <2>1 DEF TypeOK, HandlerTypes, Control, Operating,
         DeployPCs, PinPCs, UndeployPCs, CleanupPCs, FinalPCs
    <2> QED BY <2>1, <2>2, StepTyped DEF TypeOK, HandlerTypes, PCs, DeployPCs, PinPCs
  <1> QED BY <1>2, <1>3

LEMMA PinTyped ==
    ASSUME TypeInv, NEW w \in Workers, Pin(w) \/ Propose(w) \/ Record(w) \/ Confirm(w)
    PROVE  TypeInv'
  <1> USE DEF TypeInv
  <1>1. /\ tgt[w] \in Nodes /\ Target(w) \in Resources /\ pc[w] \in PinPCs
        /\ Peer(w) \in Hosts /\ ServerOf(Target(w)) \in Servers
        /\ role[w] \in Roles
    BY TargetTyped DEF Pin, Propose, Record, Confirm, Operating, DeployPCs, PinPCs, TypeOK, HandlerTypes
  <1>2. ASSUME NEW p \in PinPCs, pc' = [pc EXCEPT ![w] = p],
               UNCHANGED <<tgt, role, held, ssh, prior, saved, seen>>,
               UNCHANGED known \/ \E i \in Identities \cup {NoId} :
                                      known' = [known EXCEPT ![w][role[w]] = i]
        PROVE  HandlerTypes' /\ \A v \in Workers : Control(v)'
    <2>1. Control(w)'
      BY <1>1, <1>2 DEF TypeOK, HandlerTypes, Control, Operating,
         DeployPCs, PinPCs, UndeployPCs, CleanupPCs, FinalPCs
    <2> QED BY <1>1, <1>2, <2>1, StepTyped DEF TypeOK, HandlerTypes, PCs, DeployPCs, PinPCs
  <1>3. CASE Pin(w)
    <2>1. mark[Peer(w)] \in Identities \cup {NoId}
      BY <1>1 DEF TypeOK, MachineTypes
    <2>2. HandlerTypes' /\ \A v \in Workers : Control(v)'
      <3>1. CASE mark[Peer(w)] = NoId
        BY <1>2, <1>3, <3>1 DEF Pin, PinPCs
      <3>2. CASE mark[Peer(w)] # NoId /\ known[w][role[w]] = NoId
        <4>1. CASE Asserted(w)
          BY <1>1, <1>3, <4>1, AssertedTyped DEF Pin
        <4>2. CASE ~Asserted(w)
          BY <1>2, <1>3, <2>1, <3>2, <4>2 DEF Pin, PinPCs
        <4> QED BY <4>1, <4>2
      <3>3. CASE mark[Peer(w)] # NoId /\ known[w][role[w]] # NoId
        BY <1>1, <1>3, <3>3, AssertedTyped DEF Pin
      <3> QED BY <3>1, <3>2, <3>3
    <2> QED BY <1>3, <2>2, TypesKept DEF Pin, TypeOK
  <1>4. CASE Propose(w)
    <2>1. HandlerTypes' /\ \A v \in Workers : Control(v)'
      BY <1>2, <1>4 DEF Propose, Goto, locals, PinPCs
    <2>2. MachineTypes'
      BY <1>1, <1>4 DEF Propose, Keep, TypeOK, MachineTypes
    <2> QED BY <1>4, <2>1, <2>2, TypesKept DEF Propose, TypeOK
  <1>5. CASE Record(w)
    <2>1. HandlerTypes' /\ \A v \in Workers : Control(v)'
      BY <1>2, <1>5 DEF Record, Goto, locals, PinPCs
    <2>2. HostingTypes'
      BY <1>1, <1>5 DEF Record, FirstOnly, TypeOK, HostingTypes, HandlerTypes
    <2> QED BY <1>5, <2>1, <2>2, TypesKept DEF Record, TypeOK
  <1>6. CASE Confirm(w)
    <2>1. HandlerTypes' /\ \A v \in Workers : Control(v)'
      BY <1>1, <1>6, AssertedTyped DEF Confirm
    <2> QED BY <1>6, <2>1, TypesKept DEF Confirm, TypeOK
  <1> QED BY <1>3, <1>4, <1>5, <1>6

LEMMA DeployTyped ==
    ASSUME TypeInv, NEW w \in Workers,
           \/ Pin(w) \/ Propose(w) \/ Record(w) \/ Confirm(w)
           \/ Install(w) \/ Register(w) \/ Finalize(w)
           \/ Rollback(w) \/ RollbackFails(w) \/ Settle(w)
    PROVE  TypeInv'
  <1> USE DEF TypeInv
  <1>1. CASE Pin(w) \/ Propose(w) \/ Record(w) \/ Confirm(w)
    BY <1>1, PinTyped
  <1>2. CASE Install(w)
    <2>1. /\ tgt[w] \in Nodes /\ Target(w) \in Resources /\ Peer(w) \in Hosts
      BY <1>2, TargetTyped DEF Install, Operating, DeployPCs, PinPCs
    <2>2. HandlerTypes' /\ \A v \in Workers : Control(v)'
      <3>1. remote[Peer(w)][Target(w)] \in Artifact
        BY <2>1 DEF TypeOK, MachineTypes
      <3> QED BY <1>2, <3>1 DEF Install, Goto, TypeOK, HandlerTypes, Control, Operating,
         DeployPCs, PinPCs, UndeployPCs, CleanupPCs, FinalPCs, PCs
    <2>3. MachineTypes'
      <3>1. [config |-> row[tgt[w]], unit |-> TRUE,
             manifest |-> remote[Peer(w)][Target(w)].manifest] \in Artifact
        BY <2>1 DEF TypeOK, RowTypes, MachineTypes, Artifact
      <3> QED BY <1>2, <2>1, <3>1, PutTyped DEF Install, TypeOK, MachineTypes
    <2> QED BY <1>2, <2>2, <2>3, TypesKept DEF Install, TypeOK
  <1>3. CASE Register(w)
    <2>1. /\ tgt[w] \in Nodes /\ Target(w) \in Resources /\ Peer(w) \in Hosts
      BY <1>3, TargetTyped DEF Register, Operating, DeployPCs, PinPCs
    <2>2. HandlerTypes' /\ \A v \in Workers : Control(v)'
      <3>1. Control(w)'
        BY <1>3 DEF Register, Goto, locals, TypeOK, HandlerTypes, Control, Operating,
           DeployPCs, PinPCs, UndeployPCs, CleanupPCs, FinalPCs
      <3> QED BY <1>3, <3>1, StepTyped
          DEF Register, Goto, locals, TypeOK, HandlerTypes, PCs, DeployPCs, PinPCs, Roles
    <2>3. MachineTypes'
      <3>1. [config |-> remote[Peer(w)][Target(w)].config, unit |-> remote[Peer(w)][Target(w)].unit,
             manifest |-> row[tgt[w]]] \in Artifact
        BY <2>1 DEF TypeOK, RowTypes, MachineTypes, Artifact
      <3> QED BY <1>3, <2>1, <3>1, PutTyped DEF Register, TypeOK, MachineTypes
    <2> QED BY <1>3, <2>2, <2>3, TypesKept DEF Register, TypeOK
  <1>4. CASE Finalize(w)
    <2>1. HandlerTypes' /\ \A v \in Workers : Control(v)'
      BY <1>4, EndTyped DEF Finalize
    <2>2. RowTypes'
      BY <1>4, TargetTyped DEF Finalize, TypeOK, RowTypes, Operating, DeployPCs, PinPCs
    <2> QED BY <1>4, <2>1, <2>2, TypesKept DEF Finalize, TypeOK
  <1>5. CASE Rollback(w) \/ RollbackFails(w)
    <2>1. HandlerTypes' /\ \A v \in Workers : Control(v)'
      <3>1. Control(w)'
        BY <1>5 DEF Rollback, RollbackFails, Goto, locals, TypeOK, HandlerTypes, Control, Operating,
           DeployPCs, PinPCs, UndeployPCs, CleanupPCs, FinalPCs
      <3> QED BY <1>5, <3>1, StepTyped
          DEF Rollback, RollbackFails, Goto, locals, TypeOK, HandlerTypes, PCs, DeployPCs, PinPCs
    <2>2. ASSUME NEW h \in Hosts, NEW r \in Resources, Touches(w, h, r)
          PROVE  saved[w][RoleOf(r)] \in Artifact
      BY <2>2, ResourceParts DEF Touches, Touched, TypeOK, HandlerTypes
    <2>3. MachineTypes'
      <3>1. CASE Rollback(w)
        BY <3>1, <2>2 DEF Rollback, TypeOK, MachineTypes
      <3>2. CASE RollbackFails(w)
        BY <3>2, <2>2 DEF RollbackFails, Mixed, TypeOK, MachineTypes, Artifact
      <3> QED BY <1>5, <3>1, <3>2
    <2>4. GhostTypes'
      BY <1>5, TypesKept, SpendTyped DEF Rollback, RollbackFails, TypeOK, GhostTypes, Disturbances
    <2> QED BY <1>5, <2>1, <2>3, <2>4, TypesKept DEF Rollback, RollbackFails, TypeOK
  <1>6. CASE Settle(w)
    <2>1. HandlerTypes' /\ \A v \in Workers : Control(v)'
      BY <1>6, EndTyped DEF Settle
    <2>2. RowTypes'
      <3>1. tgt[w] \in Nodes /\ prior[w] \in Configs
        BY <1>6 DEF Settle, Control, Operating, DeployPCs, PinPCs
      <3> QED BY <1>6, <3>1 DEF Settle, TypeOK, RowTypes
    <2> QED BY <1>6, <2>1, <2>2, TypesKept DEF Settle, TypeOK
  <1> QED BY <1>1, <1>2, <1>3, <1>4, <1>5, <1>6

LEMMA UndeployTyped ==
    ASSUME TypeInv, NEW w \in Workers, Wipe(w) \/ UndeployFails(w) \/ Drop(w)
    PROVE  TypeInv'
  <1> USE DEF TypeInv
  <1>1. CASE Wipe(w)
    <2>1. /\ tgt[w] \in Nodes /\ Target(w) \in Resources /\ Peer(w) \in Hosts
      BY <1>1, TargetTyped DEF Wipe, Operating, UndeployPCs
    <2>2. HandlerTypes' /\ \A v \in Workers : Control(v)'
      <3>1. CASE role[w] = "ENTRY" /\ ExitOf[tgt[w]] # NoServer
        <4>1. addr[ExitOf[tgt[w]]] \in Hosts
          BY <2>1, <3>1, NodeServices DEF TypeOK, HostingTypes
        <4>2. pc' = [pc EXCEPT ![w] = "wipe"] /\ role' = [role EXCEPT ![w] = "EXIT"]
          BY <1>1, <3>1 DEF Wipe, TypeOK, HandlerTypes
        <4>3. Control(w)'
          BY <1>1, <2>1, <3>1, <4>1, <4>2 DEF Wipe, TypeOK, HandlerTypes, Control, Operating,
             DeployPCs, PinPCs, UndeployPCs, CleanupPCs, FinalPCs, Roles
        <4> QED BY <1>1, <3>1, <4>1, <4>2, <4>3, StepTyped
            DEF Wipe, TypeOK, HandlerTypes, PCs, UndeployPCs, Roles
      <3>2. CASE ~(role[w] = "ENTRY" /\ ExitOf[tgt[w]] # NoServer)
        <4>1. Control(w)'
          BY <1>1, <2>1, <3>2 DEF Wipe, Goto, TypeOK, HandlerTypes, Control, Operating,
             DeployPCs, PinPCs, UndeployPCs, CleanupPCs, FinalPCs
        <4> QED BY <1>1, <3>2, <4>1, StepTyped
            DEF Wipe, Goto, TypeOK, HandlerTypes, PCs, UndeployPCs
      <3> QED BY <3>1, <3>2
    <2>3. MachineTypes'
      <3>1. Stopped(Peer(w), Target(w)) \in Artifact
        BY <2>1 DEF Stopped, TypeOK, MachineTypes, Artifact
      <3> QED BY <1>1, <2>1, <3>1, PutTyped DEF Wipe, TypeOK, MachineTypes
    <2> QED BY <1>1, <2>2, <2>3, TypesKept DEF Wipe, TypeOK
  <1>2. CASE UndeployFails(w)
    <2>1. HandlerTypes' /\ \A v \in Workers : Control(v)'
      BY <1>2, EndTyped DEF UndeployFails
    <2> QED BY <1>2, <2>1, TypesKept DEF UndeployFails, TypeOK
  <1>3. CASE Drop(w)
    <2>1. HandlerTypes' /\ \A v \in Workers : Control(v)'
      BY <1>3, EndTyped DEF Drop
    <2>2. tgt[w] \in Nodes
      BY <1>3, TargetTyped DEF Drop, Operating, UndeployPCs
    <2>3. RowTypes'
      BY <1>3, <2>2 DEF Drop, TypeOK, RowTypes
    <2>4. GhostTypes'
      BY <1>3, <2>2, NodeServices DEF Drop, TypeOK, GhostTypes
    <2> QED BY <1>3, <2>1, <2>3, <2>4, TypesKept DEF Drop, TypeOK
  <1> QED BY <1>1, <1>2, <1>3

LEMMA DeletionTyped ==
    ASSUME TypeInv, NEW w \in Workers, QueueCommit(w) \/ QueueRefused(w)
    PROVE  TypeInv'
  <1> USE DEF TypeInv
  <1>1. HandlerTypes' /\ \A v \in Workers : Control(v)'
    BY EndTyped DEF QueueCommit, QueueRefused
  <1>2. CASE QueueCommit(w)
    <2>1. tgt[w] \in Servers
      BY <1>2 DEF QueueCommit, Control
    <2>2. RowTypes'
      BY <1>2 DEF QueueCommit, TypeOK, RowTypes
    <2>3. HostingTypes'
      BY <1>2, <2>1 DEF QueueCommit, TypeOK, HostingTypes
    <2>4. JobTypes'
      BY <1>2, <2>1, ResourceParts
      DEF QueueCommit, TypeOK, RowTypes, HostingTypes, JobTypes, Task, TaskStates
    <2> QED BY <1>1, <1>2, <2>2, <2>3, <2>4, TypesKept DEF QueueCommit, TypeOK
  <1>3. CASE QueueRefused(w)
    BY <1>1, <1>3, TypesKept DEF QueueRefused, TypeOK
  <1> QED BY <1>2, <1>3

LEMMA CleanupTyped ==
    ASSUME TypeInv, NEW w \in Workers,
           \/ CleanupBegin(w) \/ CleanupDeferred(w) \/ Prepare(w) \/ Block(w)
           \/ Remove(w) \/ Unlist(w) \/ Done(w) \/ CleanupFails(w)
    PROVE  TypeInv'
  <1> USE DEF TypeInv
  <1>1. tgt[w] \in Resources /\ role[w] = RoleOf(tgt[w])
    BY DEF CleanupBegin, CleanupDeferred, Prepare, Block, Remove, Unlist, Done, CleanupFails,
       Control, CleanupPCs
  <1>2. role[w] \in Roles /\ ServerOf(tgt[w]) \in Servers /\ NodeOf(tgt[w]) \in Nodes
    BY <1>1, ResourceParts
  <1>3. CASE CleanupBegin(w)
    <2>1. CleanupKeys(tgt[w]) \subseteq Keys
      BY <1>1, <1>2 DEF CleanupKeys, Keys
    <2>2. Control(w)'
      BY <1>1, <1>3 DEF CleanupBegin, locals, TypeOK, HandlerTypes, Control, Operating,
         DeployPCs, PinPCs, UndeployPCs, CleanupPCs, FinalPCs
    <2>3. HandlerTypes' /\ \A v \in Workers : Control(v)'
      BY <1>3, <2>1, <2>2, StepTyped
      DEF CleanupBegin, locals, TypeOK, HandlerTypes, PCs, CleanupPCs
    <2>4. JobTypes'
      BY <1>1, <1>3, TaskTyped DEF CleanupBegin, TypeOK, TaskStates
    <2> QED BY <1>3, <2>3, <2>4, TypesKept DEF CleanupBegin, TypeOK
  <1>4. CASE CleanupDeferred(w)
    <2>1. HandlerTypes' /\ \A v \in Workers : Control(v)'
      BY <1>4, EndTyped DEF CleanupDeferred
    <2> QED BY <1>4, <2>1, TypesKept DEF CleanupDeferred, TypeOK
  <1>5. CASE Prepare(w)
    <2>1. addr[ServerOf(tgt[w])] \in Hosts /\ mark[addr[ServerOf(tgt[w])]] \in Identities \cup {NoId}
      BY <1>2 DEF TypeOK, HostingTypes, MachineTypes
    <2>2. Control(w)'
      BY <1>1, <1>2, <1>5, <2>1 DEF Prepare, Goto, TypeOK, HandlerTypes, Control, Operating,
         DeployPCs, PinPCs, UndeployPCs, CleanupPCs, FinalPCs
    <2>3. HandlerTypes' /\ \A v \in Workers : Control(v)'
      BY <1>2, <1>5, <2>1, <2>2, StepTyped
      DEF Prepare, Goto, TypeOK, HandlerTypes, PCs, CleanupPCs
    <2>4. JobTypes'
      BY <1>1, <1>5, <2>1 DEF Prepare, TypeOK, JobTypes, Task
    <2> QED BY <1>5, <2>3, <2>4, TypesKept DEF Prepare, TypeOK
  <1>6. CASE Block(w) \/ Done(w) \/ CleanupFails(w)
    <2>1. HandlerTypes' /\ \A v \in Workers : Control(v)'
      BY <1>6, EndTyped DEF Block, Done, CleanupFails
    <2>2. JobTypes'
      BY <1>1, <1>6, TaskTyped DEF Block, Done, CleanupFails, TypeOK, TaskStates
    <2>3. GhostTypes'
      BY <1>6, TypesKept, SpendTyped DEF Block, Done, CleanupFails, TypeOK, GhostTypes, Disturbances
    <2> QED BY <1>6, <2>1, <2>2, <2>3, TypesKept DEF Block, Done, CleanupFails, TypeOK
  <1>7. CASE Remove(w) \/ Unlist(w)
    <2>1. Peer(w) \in Hosts
      BY <1>7 DEF Remove, Unlist, Peer, Control, CleanupPCs
    <2>2. Control(w)'
      BY <1>1, <1>7 DEF Remove, Unlist, Goto, locals, TypeOK, HandlerTypes, Control, Operating,
         DeployPCs, PinPCs, UndeployPCs, CleanupPCs, FinalPCs
    <2>3. HandlerTypes' /\ \A v \in Workers : Control(v)'
      BY <1>7, <2>2, StepTyped
      DEF Remove, Unlist, Goto, locals, TypeOK, HandlerTypes, PCs, CleanupPCs
    <2>4. MachineTypes'
      <3>1. /\ Stopped(Peer(w), tgt[w]) \in Artifact
            /\ [config |-> remote[Peer(w)][tgt[w]].config, unit |-> remote[Peer(w)][tgt[w]].unit,
                manifest |-> NoConfig] \in Artifact
        BY <1>1, <2>1 DEF Stopped, TypeOK, MachineTypes, Artifact
      <3> QED BY <1>1, <1>7, <2>1, <3>1, PutTyped DEF Remove, Unlist, TypeOK, MachineTypes
    <2> QED BY <1>7, <2>3, <2>4, TypesKept DEF Remove, Unlist, TypeOK
  <1> QED BY <1>3, <1>4, <1>5, <1>6, <1>7

LEMMA InventoryTyped ==
    ASSUME TypeInv, NEW w \in Workers,
           List(w) \/ Observe(w) \/ Retire(w) \/ InventoryFails(w)
    PROVE  TypeInv'
  <1> USE DEF TypeInv
  <1>1. tgt[w] \in Servers
    BY DEF List, Observe, Retire, InventoryFails, Control, FinalPCs
  <1>2. CASE List(w)
    <2>1. UnitsOn(addr[tgt[w]]) \subseteq Resources
      BY DEF UnitsOn
    <2>2. Control(w)'
      BY <1>1, <1>2, <2>1 DEF List, Goto, TypeOK, HandlerTypes, Control, Operating,
         DeployPCs, PinPCs, UndeployPCs, CleanupPCs, FinalPCs
    <2>3. HandlerTypes' /\ \A v \in Workers : Control(v)'
      <3>1. /\ IF pc[w] = "scanList" THEN pc' = [pc EXCEPT ![w] = "scanObserve"]
                                     ELSE pc' = [pc EXCEPT ![w] = "finalObserve"]
            /\ \E S \in SUBSET Resources : seen' = [seen EXCEPT ![w] = S]
        BY <1>2, <2>1 DEF List, Goto
      <3> QED BY <1>2, <2>2, <3>1, StepTyped
          DEF List, Goto, TypeOK, HandlerTypes, PCs, FinalPCs
    <2> QED BY <1>2, <2>3, TypesKept DEF List, TypeOK
  <1>3. CASE Observe(w)
    <2>1. HandlerTypes' /\ \A v \in Workers : Control(v)'
      <3>1. CASE pc[w] = "finalObserve"
        <4>1. Control(w)'
          BY <1>1, <1>3, <3>1 DEF Observe, Goto, locals, TypeOK, HandlerTypes, Control, Operating,
             DeployPCs, PinPCs, UndeployPCs, CleanupPCs, FinalPCs
        <4> QED BY <1>3, <3>1, <4>1, StepTyped
            DEF Observe, Goto, locals, TypeOK, HandlerTypes, PCs, FinalPCs
      <3>2. CASE pc[w] # "finalObserve"
        BY <1>3, <3>2, EndTyped DEF Observe
      <3> QED BY <3>1, <3>2
    <2>2. JobTypes'
      BY <1>1, <1>3 DEF Observe, TypeOK, JobTypes, Control
    <2> QED BY <1>3, <2>1, <2>2, TypesKept DEF Observe, TypeOK
  <1>4. CASE Retire(w)
    <2>1. HandlerTypes' /\ \A v \in Workers : Control(v)'
      BY <1>4, EndTyped DEF Retire
    <2>2. HostingTypes'
      BY <1>1, <1>4 DEF Retire, TypeOK, HostingTypes
    <2> QED BY <1>4, <2>1, <2>2, TypesKept DEF Retire, TypeOK
  <1>5. CASE InventoryFails(w)
    <2>1. HandlerTypes' /\ \A v \in Workers : Control(v)'
      BY <1>5, EndTyped DEF InventoryFails
    <2> QED BY <1>5, <2>1, TypesKept DEF InventoryFails, TypeOK
  <1> QED BY <1>2, <1>3, <1>4, <1>5

LEMMA FailureTyped ==
    ASSUME TypeInv, NEW w \in Workers, Crash(w) \/ LoseSession(w)
    PROVE  TypeInv'
  <1> USE DEF TypeInv
  <1>1. GhostTypes'
    BY SpendTyped DEF Crash, LoseSession, TypeOK, GhostTypes, Disturbances
  <1>2. CASE Crash(w)
    <2>1. HandlerTypes' /\ \A v \in Workers : Control(v)'
      BY <1>2, EndTyped DEF Crash
    <2> QED BY <1>1, <1>2, <2>1, TypesKept DEF Crash, TypeOK
  <1>3. CASE LoseSession(w)
    <2>1. HandlerTypes' /\ \A v \in Workers : Control(v)'
      BY <1>3 DEF LoseSession, locals, TypeOK, HandlerTypes, Control
    <2> QED BY <1>1, <1>3, <2>1, TypesKept DEF LoseSession, TypeOK
  <1> QED BY <1>2, <1>3

-----------------------------------------------------------------------------
(* Types: what begins, and what takes no lock *)

LEMMA KeysTyped ==
    /\ \A n \in Nodes : OperationKeys(n) \subseteq Keys /\ {Ports(s) : s \in Hosting(n)} \subseteq Keys
    /\ \A s \in Servers : {Core(s), Ports(s)} \subseteq Keys
BY NodeServices DEF OperationKeys, Keys

LEMMA RequestTyped ==
    ASSUME TypeInv, NEW w \in Workers, Request(w)
    PROVE  TypeInv'
  <1> USE DEF TypeInv
  <1>1. CASE \E n \in Nodes : CreateBegin(w, n)
    <2> PICK n \in Nodes : CreateBegin(w, n)
      BY <1>1
    <2>1. Control(w)'
      BY DEF CreateBegin, Begin, TypeOK, HandlerTypes, Control, Operating,
         DeployPCs, PinPCs, UndeployPCs, CleanupPCs, FinalPCs
    <2>2. HandlerTypes' /\ \A v \in Workers : Control(v)'
      BY <2>1, KeysTyped, BeginTyped DEF CreateBegin, locals, TypeOK, HandlerTypes, PCs, Roles
    <2> QED BY <2>2, TypesKept DEF CreateBegin, TypeOK
  <1>2. CASE \E n \in Nodes : UndeployBegin(w, n)
    <2> PICK n \in Nodes : UndeployBegin(w, n)
      BY <1>2
    <2>1. addr[EntryOf[n]] \in Hosts
      BY NodeServices DEF TypeOK, HostingTypes
    <2>2. Control(w)'
      BY <2>1 DEF UndeployBegin, Begin, TypeOK, HandlerTypes, Control, Operating,
         DeployPCs, PinPCs, UndeployPCs, CleanupPCs, FinalPCs, Roles
    <2>3. HandlerTypes' /\ \A v \in Workers : Control(v)'
      BY <2>1, <2>2, KeysTyped, BeginTyped
      DEF UndeployBegin, TypeOK, HandlerTypes, PCs, UndeployPCs, Roles
    <2> QED BY <2>3, TypesKept DEF UndeployBegin, TypeOK
  <1>3. CASE \E n \in Nodes, c \in Configs : DeployBegin(w, n, c)
    <2> PICK n \in Nodes, c \in Configs : DeployBegin(w, n, c)
      BY <1>3
    <2>1. addr[EntryOf[n]] \in Hosts /\ row[n] \in Configs /\ hostId[EntryOf[n]] \in Identities \cup {NoId}
      BY NodeServices DEF TypeOK, HostingTypes, RowTypes
    <2>2. Control(w)'
      BY <2>1 DEF DeployBegin, Existing, Begin, TypeOK, HandlerTypes, Control, Operating,
         DeployPCs, PinPCs, UndeployPCs, CleanupPCs, FinalPCs, Roles
    <2>3. HandlerTypes' /\ \A v \in Workers : Control(v)'
      BY <2>1, <2>2, KeysTyped, BeginTyped
      DEF DeployBegin, Existing, TypeOK, HandlerTypes, PCs, DeployPCs, PinPCs, Roles
    <2>4. RowTypes'
      BY DEF DeployBegin, TypeOK, RowTypes
    <2>5. GhostTypes'
      BY SpendTyped DEF DeployBegin, TypeOK, GhostTypes, Disturbances
    <2> QED BY <2>3, <2>4, <2>5, TypesKept DEF DeployBegin, TypeOK
  <1>4. CASE \E s \in Servers : QueueBegin(w, s)
    <2> PICK s \in Servers : QueueBegin(w, s)
      BY <1>4
    <2>1. LiveOn(s) \subseteq Nodes
      BY DEF LiveOn
    <2>2. Control(w)'
      BY DEF QueueBegin, Begin, TypeOK, HandlerTypes, Control, Operating,
         DeployPCs, PinPCs, UndeployPCs, CleanupPCs, FinalPCs
    <2>3. HandlerTypes' /\ \A v \in Workers : Control(v)'
      <3>1. "queue" \in PCs /\ "ENTRY" \in Roles /\ {} \in SUBSET Keys
        BY DEF PCs, Roles
      <3> QED BY <2>1, <2>2, <3>1, BeginTyped DEF QueueBegin, TypeOK, HandlerTypes
    <2> QED BY <2>3, TypesKept DEF QueueBegin, TypeOK
  <1>5. CASE \E s \in Servers : ScanBegin(w, s)
    <2> PICK s \in Servers : ScanBegin(w, s)
      BY <1>5
    <2>1. Control(w)'
      BY DEF ScanBegin, Begin, TypeOK, HandlerTypes, Control, Operating,
         DeployPCs, PinPCs, UndeployPCs, CleanupPCs, FinalPCs
    <2>2. HandlerTypes' /\ \A v \in Workers : Control(v)'
      <3>1. "scanList" \in PCs /\ "ENTRY" \in Roles /\ {} \in SUBSET Keys
        BY DEF PCs, Roles
      <3> QED BY <2>1, <3>1, BeginTyped DEF ScanBegin, locals, TypeOK, HandlerTypes
    <2>3. GhostTypes'
      BY SpendTyped DEF ScanBegin, TypeOK, GhostTypes, Disturbances
    <2> QED BY <2>2, <2>3, TypesKept DEF ScanBegin, TypeOK
  <1> QED BY <1>1, <1>2, <1>3, <1>4, <1>5 DEF Request

LEMMA SchedulerTyped ==
    ASSUME TypeInv, NEW w \in Workers,
           \/ \E r \in Resources : Pick(w, r)
           \/ \E s \in Servers : FinalBegin(w, s)
    PROVE  TypeInv'
  <1> USE DEF TypeInv
  <1>1. CASE \E r \in Resources : Pick(w, r)
    <2> PICK r \in Resources : Pick(w, r)
      BY <1>1
    <2>1. Control(w)'
      BY DEF Pick, Begin, TypeOK, HandlerTypes, Control, Operating,
         DeployPCs, PinPCs, UndeployPCs, CleanupPCs, FinalPCs
    <2>2. HandlerTypes' /\ \A v \in Workers : Control(v)'
      <3>1. "picked" \in PCs /\ RoleOf(r) \in Roles /\ {} \in SUBSET Keys
        BY ResourceParts DEF PCs
      <3> QED BY <2>1, <3>1, BeginTyped DEF Pick, locals, TypeOK, HandlerTypes
    <2> QED BY <2>2, TypesKept DEF Pick, TypeOK
  <1>2. CASE \E s \in Servers : FinalBegin(w, s)
    <2> PICK s \in Servers : FinalBegin(w, s)
      BY <1>2
    <2>1. Control(w)'
      BY DEF FinalBegin, Begin, TypeOK, HandlerTypes, Control, Operating,
         DeployPCs, PinPCs, UndeployPCs, CleanupPCs, FinalPCs
    <2>2. HandlerTypes' /\ \A v \in Workers : Control(v)'
      <3>1. "finalList" \in PCs /\ "ENTRY" \in Roles /\ {Core(s), Ports(s)} \in SUBSET Keys
        BY KeysTyped DEF PCs, FinalPCs, Roles
      <3> QED BY <2>1, <3>1, BeginTyped DEF FinalBegin, locals, TypeOK, HandlerTypes
    <2> QED BY <2>2, TypesKept DEF FinalBegin, TypeOK
  <1> QED BY <1>1, <1>2

LEMMA UnlockedTyped ==
    ASSUME TypeInv, Unlocked \/ \E r \in Resources : TimePasses(r)
    PROVE  TypeInv'
  <1> USE DEF TypeInv
  <1>1. UNCHANGED <<procs, locals>>
    BY DEF Unlocked, Retry, Edit, DestroyCredentials, RestoreCredentials, Move, Heartbeat, TimePasses
  <1>2. \A v \in Workers : Control(v)'
    BY <1>1 DEF Control, procs, locals
  <1>3. RowTypes'
    BY TypesKept DEF Unlocked, Retry, Edit, DestroyCredentials, RestoreCredentials, Move, Heartbeat,
       TimePasses, TypeOK, RowTypes
  <1>4. HostingTypes'
    BY TypesKept DEF Unlocked, Retry, Edit, DestroyCredentials, RestoreCredentials, Move, Heartbeat,
       TimePasses, TypeOK, HostingTypes
  <1>5. JobTypes'
    <2>1. CASE \E r \in Resources : Retry(r) \/ TimePasses(r)
      <3> PICK r \in Resources : Retry(r) \/ TimePasses(r)
        BY <2>1
      <3>1. task[r].state \in TaskStates
        BY DEF TypeOK, JobTypes, Task
      <3> QED BY <3>1, TaskTyped DEF Retry, TimePasses, TypeOK, TaskStates
    <2>2. CASE \E s \in Servers, reported \in SUBSET Resources : Heartbeat(s, reported)
      BY <2>2 DEF Heartbeat, TypeOK, JobTypes
    <2>3. CASE UNCHANGED jobs
      BY <2>3, TypesKept DEF TypeOK
    <2> QED BY <2>1, <2>2, <2>3
        DEF Unlocked, Edit, DestroyCredentials, RestoreCredentials, Move
  <1>6. MachineTypes'
    BY TypesKept DEF Unlocked, Retry, Edit, DestroyCredentials, RestoreCredentials, Move, Heartbeat,
       TimePasses, TypeOK
  <1>7. GhostTypes'
    BY TypesKept, SpendTyped
    DEF Unlocked, Retry, Edit, DestroyCredentials, RestoreCredentials, Move, Heartbeat,
       TimePasses, TypeOK, GhostTypes, Disturbances
  <1> QED BY <1>1, <1>2, <1>3, <1>4, <1>5, <1>6, <1>7, TypesKept DEF TypeOK

LEMMA TypeStep == TypeInv /\ [Next]_vars => TypeInv'
  <1> SUFFICES ASSUME TypeInv, [Next]_vars PROVE TypeInv'
    OBVIOUS
  <1>1. ASSUME NEW w \in Workers, Proceed(w) PROVE TypeInv'
    BY <1>1, CreateTyped, DeployTyped, UndeployTyped, DeletionTyped, CleanupTyped, InventoryTyped
    DEF Proceed
  <1>2. ASSUME NEW w \in Workers, Disturb(w) PROVE TypeInv'
    BY <1>2, CreateTyped, DeployTyped, CleanupTyped, FailureTyped DEF Disturb
  <1>3. CASE UNCHANGED vars
    <2>1. \A v \in Workers : Control(v)'
      BY <1>3 DEF TypeInv, Control, vars, procs, locals
    <2> QED BY <1>3, <2>1, TypesKept DEF TypeInv, TypeOK, vars
  <1> QED BY <1>1, <1>2, <1>3, RequestTyped, SchedulerTyped, UnlockedTyped DEF Next

\* Every variable keeps its type, and every handler finds in its locals what the
\* step it stands at needs: a connection to a machine, a job, a row to restore.
THEOREM TypeCorrect == Spec => [](TypeOK /\ \A w \in Workers : Control(w))
  <1>1. Spec => []TypeInv
    BY TypeInit, TypeStep, PTL DEF Spec
  <1> QED BY <1>1 DEF TypeInv

-----------------------------------------------------------------------------
(* One step moves one handler, and a recorded identity stays *)

\* A handler's own variables are the same after the step.
Still(v) ==
    /\ pc'[v] = pc[v] /\ tgt'[v] = tgt[v] /\ role'[v] = role[v]
    /\ ssh'[v] = ssh[v] /\ known'[v] = known[v] /\ saved'[v] = saved[v] /\ prior'[v] = prior[v] /\ seen'[v] = seen[v]

Acts(w) ==
    \/ Proceed(w) \/ Disturb(w) \/ Request(w)
    \/ \E r \in Resources : Pick(w, r)
    \/ \E s \in Servers : FinalBegin(w, s)

LEMMA OneMoves ==
    ASSUME TypeInv, NEW w \in Workers, Acts(w), NEW v \in Workers, v # w
    PROVE  Still(v)
  <1> USE DEF TypeInv, TypeOK, HandlerTypes, Still, locals
  <1>1. CASE \/ CreateInsert(w) \/ CreateRefused(w) \/ Provisioned(w) \/ Compensate(w)
             \/ UndeployFails(w) \/ Drop(w) \/ QueueCommit(w) \/ QueueRefused(w)
             \/ Finalize(w) \/ Settle(w) \/ Crash(w) \/ LoseSession(w)
    BY <1>1 DEF CreateInsert, CreateRefused, Provisioned, Compensate, UndeployFails, Drop,
       QueueCommit, QueueRefused, Finalize, Settle, Crash, LoseSession, End
  <1>2. CASE \/ Pin(w) \/ Propose(w) \/ Record(w) \/ Confirm(w)
             \/ Install(w) \/ Register(w) \/ Rollback(w) \/ RollbackFails(w) \/ Wipe(w)
    BY <1>2 DEF Pin, Propose, Record, Confirm, Asserted, Install, Register, Rollback, RollbackFails,
       Wipe, Goto
  <1>3. CASE \/ CleanupBegin(w) \/ CleanupDeferred(w) \/ Prepare(w) \/ Block(w)
             \/ Remove(w) \/ Unlist(w) \/ Done(w) \/ CleanupFails(w)
    BY <1>3 DEF CleanupBegin, CleanupDeferred, Prepare, Block, Remove, Unlist, Done, CleanupFails,
       Goto, End
  <1>4. CASE List(w) \/ Observe(w) \/ Retire(w) \/ InventoryFails(w)
    BY <1>4 DEF List, Observe, Retire, InventoryFails, Goto, End
  <1>5. CASE \/ Request(w)
             \/ \E r \in Resources : Pick(w, r)
             \/ \E s \in Servers : FinalBegin(w, s)
    <2>1. ASSUME NEW n \in Nodes, CreateBegin(w, n) PROVE Still(v)
      BY <2>1 DEF CreateBegin, Begin
    <2>2. ASSUME NEW n \in Nodes, UndeployBegin(w, n) PROVE Still(v)
      BY <2>2 DEF UndeployBegin, Begin
    <2>3. ASSUME NEW n \in Nodes, NEW c \in Configs, DeployBegin(w, n, c) PROVE Still(v)
      BY <2>3 DEF DeployBegin, Begin
    <2>4. ASSUME NEW s \in Servers, QueueBegin(w, s) \/ ScanBegin(w, s) \/ FinalBegin(w, s)
          PROVE  Still(v)
      BY <2>4 DEF QueueBegin, ScanBegin, FinalBegin, Begin
    <2>5. ASSUME NEW r \in Resources, Pick(w, r) PROVE Still(v)
      BY <2>5 DEF Pick, Begin
    <2> QED BY <1>5, <2>1, <2>2, <2>3, <2>4, <2>5 DEF Request
  <1> QED BY <1>1, <1>2, <1>3, <1>4, <1>5 DEF Acts, Proceed, Disturb

\* What takes no handler moves none.
LEMMA NoneMoves ==
    ASSUME Unlocked \/ (\E r \in Resources : TimePasses(r)) \/ UNCHANGED vars,
           NEW v \in Workers
    PROVE  Still(v)
BY DEF Unlocked, Retry, Edit, DestroyCredentials, RestoreCredentials, Move, Heartbeat, TimePasses,
       vars, procs, locals, Still

LEMMA StepKinds ==
    [Next]_vars => \/ \E w \in Workers : Acts(w)
                   \/ Unlocked \/ (\E r \in Resources : TimePasses(r)) \/ UNCHANGED vars
BY DEF Next, Acts

HostKept == \A s \in Servers : hostId[s] # NoId => hostId'[s] = hostId[s]
MarkKept == \A h \in Hosts : mark[h] # NoId => mark'[h] = mark[h]

\* Only the first identity is recorded.
LEMMA HostStep == TypeInv /\ [Next]_vars => HostKept
  <1> SUFFICES ASSUME TypeInv, [Next]_vars PROVE HostKept
    OBVIOUS
  <1>1. ASSUME NEW w \in Workers, Record(w) PROVE HostKept
    BY <1>1 DEF Record, FirstOnly, HostKept, TypeInv, TypeOK, HostingTypes
  <1>2. CASE UNCHANGED hostId
    BY <1>2, SMTT(20) DEF HostKept
  <1>3. ASSUME NEW w \in Workers, Acts(w), ~Record(w) PROVE UNCHANGED hostId
    BY <1>3 DEF Acts, Proceed, Disturb, Request, CreateInsert, CreateRefused, Provisioned, Compensate,
       UndeployFails, Drop, QueueCommit, QueueRefused, Finalize, Settle, Crash, LoseSession,
       Pin, Propose, Confirm, Asserted,
       Install, Register, Rollback, RollbackFails, Wipe, CleanupBegin, CleanupDeferred, Prepare, Block,
       Remove, Unlist, Done, CleanupFails, List, Observe, Retire, InventoryFails, CreateBegin,
       UndeployBegin, DeployBegin, QueueBegin, ScanBegin, Pick, FinalBegin, hosting
  <1>4. ASSUME Unlocked \/ (\E r \in Resources : TimePasses(r)) \/ UNCHANGED vars
        PROVE  UNCHANGED hostId
    BY <1>4 DEF Unlocked, Retry, Edit, DestroyCredentials, RestoreCredentials, Move, Heartbeat,
       TimePasses, vars, hosting
  <1> QED BY <1>1, <1>2, <1>3, <1>4, StepKinds

\* Only a machine without an identity is marked, with one that nobody has.
LEMMA MarkStep ==
    ASSUME TypeInv, [Next]_vars
    PROVE  MarkKept /\ (MarksApart => MarksApart')
  <1>1. ASSUME NEW w \in Workers, Propose(w)
        PROVE  MarkKept /\ (MarksApart => MarksApart')
    <2>1. Peer(w) \in Hosts
      BY <1>1, TargetTyped DEF Propose, Operating, DeployPCs, PinPCs
    <2>2. PICK i \in Identities \ InUse : mark' = [mark EXCEPT ![Peer(w)] = Keep(@, i)]
      BY <1>1 DEF Propose
    <2>3. \A h \in Hosts : mark[h] # i
      BY <2>2 DEF InUse
    <2>4. /\ \A h \in Hosts : h # Peer(w) => mark'[h] = mark[h]
          /\ mark'[Peer(w)] = IF mark[Peer(w)] = NoId THEN i ELSE mark[Peer(w)]
      BY <2>1, <2>2 DEF Keep, TypeInv, TypeOK, MachineTypes
    <2> QED BY <2>1, <2>3, <2>4, SMTT(20) DEF MarkKept, MarksApart
  <1>2. CASE UNCHANGED mark
    BY <1>2, SMTT(20) DEF MarkKept, MarksApart
  <1>3. ASSUME NEW w \in Workers, Acts(w), ~Propose(w) PROVE UNCHANGED mark
    BY <1>3 DEF Acts, Proceed, Disturb, Request, CreateInsert, CreateRefused, Provisioned, Compensate,
       UndeployFails, Drop, QueueCommit, QueueRefused, Finalize, Settle, Crash, LoseSession,
       Pin, Record, Confirm, Asserted,
       Install, Register, Rollback, RollbackFails, Wipe, CleanupBegin, CleanupDeferred, Prepare, Block,
       Remove, Unlist, Done, CleanupFails, List, Observe, Retire, InventoryFails, CreateBegin,
       UndeployBegin, DeployBegin, QueueBegin, ScanBegin, Pick, FinalBegin, machines
  <1>4. ASSUME Unlocked \/ (\E r \in Resources : TimePasses(r)) \/ UNCHANGED vars
        PROVE  UNCHANGED mark
    BY <1>4 DEF Unlocked, Retry, Edit, DestroyCredentials, RestoreCredentials, Move, Heartbeat,
       TimePasses, vars, machines
  <1> QED BY <1>1, <1>2, <1>3, <1>4, StepKinds

\* The identity of a machine recorded for a server is never replaced, whatever
\* address the server gets, whichever sessions are lost, and however many handlers read
\* the row before any of them recorded what its own machine says.
THEOREM IdentityNeverReplaced == Spec => HostPinned
  <1>1. TypeInv /\ [Next]_vars => [HostKept]_vars
    BY HostStep
  <1>2. Spec => []TypeInv
    BY TypeInit, TypeStep, PTL DEF Spec
  <1>3. Spec => [][HostKept]_vars
    BY <1>1, <1>2, PTL DEF Spec
  <1> QED BY <1>3 DEF HostPinned, HostKept

-----------------------------------------------------------------------------
(* Services run on the machine that is recorded *)

\* A machine is the home of a server when it carries the identity in the server's row.
Home(s, h) == mark[h] # NoId /\ hostId[s] = mark[h]
HomeNext(s, h) == mark'[h] # NoId /\ hostId'[s] = mark'[h]

\* The machines a deployment writes to are the recorded ones, from the moment its
\* owner is asserted there; its rollback points come from there too.
Pinned(w) ==
    /\ pc[w] \in {"pin", "propose"} => known[w][role[w]] \in {NoId, hostId[ServerOf(Target(w))]}
    /\ pc[w] \in {"record", "confirm"} => known[w][role[w]] # NoId /\ known[w][role[w]] = mark[Peer(w)]
    /\ pc[w] \in PinPCs /\ role[w] = "EXIT" => Home(EntryOf[tgt[w]], ssh[w]["ENTRY"])
    /\ pc[w] \in {"install", "register", "finalize"} =>
          \A r \in ServicesOf(tgt[w]) : /\ ssh[w][RoleOf(r)] \in Hosts
                                       /\ Home(ServerOf(r), ssh[w][RoleOf(r)])
    /\ \A x \in Touched(w) : /\ pc[w] \in DeployPCs \ PinPCs
                             /\ <<tgt[w], x>> \in Resources
                             /\ ssh[w][x] \in Hosts
                             /\ Home(ServerOf(<<tgt[w], x>>), ssh[w][x])

PinInv == TypeInv /\ PinnedArtifacts /\ \A w \in Workers : Pinned(w)

LEMMA PinInit == Init => PinInv
BY TypeInit DEF Init, PinInv, PinnedArtifacts, Pinned, Touched, Nothing, NoSaves, Roles, PinPCs

\* A home stays a home.
LEMMA HomeKept ==
    ASSUME HostKept, MarkKept, NEW s \in Servers, NEW h \in Hosts, Home(s, h)
    PROVE  HomeNext(s, h)
BY DEF HostKept, MarkKept, Home, HomeNext

\* A handler that stands still stays pinned.
LEMMA StillPinned ==
    ASSUME PinInv, HostKept, MarkKept, NEW v \in Workers, Still(v)
    PROVE  Pinned(v)'
  <1> USE DEF PinInv, TypeInv, Still
  <1>1. ASSUME pc[v] \in {"pin", "propose"}
        PROVE  known'[v][role'[v]] \in {NoId, hostId'[ServerOf(Target(v)')]}
    <2>1. ServerOf(Target(v)) \in Servers /\ Target(v)' = Target(v)
      BY <1>1, TargetTyped DEF Operating, DeployPCs, PinPCs, Target
    <2>2. known[v][role[v]] \in {NoId, hostId[ServerOf(Target(v))]}
      BY <1>1 DEF Pinned
    <2> QED BY <2>1, <2>2 DEF HostKept
  <1>2. ASSUME pc[v] \in {"record", "confirm"}
        PROVE  known'[v][role'[v]] # NoId /\ known'[v][role'[v]] = mark'[Peer(v)']
    <2>1. Peer(v) \in Hosts /\ Peer(v)' = Peer(v)
      BY <1>2, TargetTyped DEF Operating, DeployPCs, PinPCs, Peer
    <2>2. known[v][role[v]] # NoId /\ known[v][role[v]] = mark[Peer(v)]
      BY <1>2 DEF Pinned
    <2> QED BY <2>1, <2>2 DEF MarkKept
  <1>3. ASSUME pc[v] \in PinPCs, role[v] = "EXIT"
        PROVE  HomeNext(EntryOf[tgt[v]], ssh[v]["ENTRY"])
    <2>1. tgt[v] \in Nodes /\ ssh[v]["ENTRY"] \in Hosts /\ Home(EntryOf[tgt[v]], ssh[v]["ENTRY"])
      BY <1>3 DEF Control, Operating, DeployPCs, Pinned
    <2>2. Home(EntryOf[tgt[v]], ssh[v]["ENTRY"]) /\ EntryOf[tgt[v]] \in Servers
      BY <2>1, NodeServices
    <2> QED BY <2>1, <2>2, HomeKept
  <1>4. ASSUME pc[v] \in {"install", "register", "finalize"}, NEW r \in ServicesOf(tgt[v])
        PROVE  ssh[v][RoleOf(r)] \in Hosts /\ HomeNext(ServerOf(r), ssh[v][RoleOf(r)])
    <2>1. Home(ServerOf(r), ssh[v][RoleOf(r)]) /\ ssh[v][RoleOf(r)] \in Hosts
      BY <1>4 DEF Pinned
    <2>2. tgt[v] \in Nodes
      BY <1>4 DEF Control, Operating, DeployPCs
    <2>3. ServerOf(r) \in Servers
      BY <2>2, NodeServices, ResourceParts
    <2> QED BY <2>1, <2>3, HomeKept
  <1>5. ASSUME NEW x \in Touched(v)
        PROVE  /\ pc[v] \in DeployPCs \ PinPCs
               /\ <<tgt[v], x>> \in Resources
               /\ ssh[v][x] \in Hosts
               /\ HomeNext(ServerOf(<<tgt[v], x>>), ssh[v][x])
    <2>1. /\ pc[v] \in DeployPCs \ PinPCs /\ <<tgt[v], x>> \in Resources /\ ssh[v][x] \in Hosts
          /\ Home(ServerOf(<<tgt[v], x>>), ssh[v][x])
      BY <1>5 DEF Pinned
    <2> QED BY <2>1, ResourceParts, HomeKept
  <1> QED BY <1>1, <1>2, <1>3, <1>4, <1>5 DEF Pinned, Touched, Home, HomeNext

\* A handler that has written nothing, and is not in the midst of a deployment.
LEMMA QuietPinned ==
    ASSUME NEW v \in Workers, (Touched(v) = {})',
           pc'[v] \notin DeployPCs
             \/ (pc'[v] = "pin" /\ role'[v] = "ENTRY"
                 /\ known'[v]["ENTRY"] \in {NoId, hostId'[ServerOf(Target(v)')]})
    PROVE  Pinned(v)'
BY DEF Pinned, DeployPCs, PinPCs

\* Asserting the owner of the entry, and then that of the exit.
LEMMA AssertedPinned ==
    ASSUME PinInv, HostKept, MarkKept, NEW w \in Workers, pc[w] \in PinPCs, Asserted(w),
           UNCHANGED <<tgt, saved, hostId>>, Home(ServerOf(Target(w)), Peer(w))
    PROVE  Pinned(w)'
  <1> USE DEF PinInv, TypeInv
  <1> DEFINE n == tgt[w]
  <1>1. /\ n \in Nodes /\ Target(w) \in Resources /\ Peer(w) \in Hosts /\ ServerOf(Target(w)) \in Servers
        /\ ssh[w]["ENTRY"] \in Hosts /\ role[w] \in {"ENTRY", "EXIT"}
        /\ tgt'[w] = n
    BY TargetTyped DEF Operating, DeployPCs, PinPCs, Control, TypeOK, HandlerTypes, Roles
  <1>2. HomeNext(ServerOf(Target(w)), Peer(w)) /\ saved'[w] = saved[w] /\ Touched(w) = {}
    BY <1>1, HomeKept DEF Pinned
  <1>3. (Touched(w) = {})'
    BY <1>2 DEF Touched
  <1>4. CASE role[w] = "ENTRY" /\ ExitOf[n] # NoServer
    <2>1. /\ pc'[w] = "pin" /\ role'[w] = "EXIT" /\ ssh'[w]["ENTRY"] = Peer(w)
          /\ known'[w]["EXIT"] = hostId[ExitOf[n]]
          /\ Target(w) = <<n, "ENTRY">>
      BY <1>1, <1>4 DEF Asserted, Target, Peer, TypeOK, HandlerTypes, Roles
    <2>2. Target(w)' = <<n, "EXIT">>
      BY <1>1, <2>1 DEF Target
    <2>3. known'[w][role'[w]] = hostId'[ServerOf(Target(w)')]
      BY <1>1, <1>4, <2>1, <2>2, NodeServices
    <2> QED BY <1>1, <1>2, <1>3, <2>1, <2>3, NodeServices DEF Pinned, Home, HomeNext
  <1>5. CASE role[w] = "ENTRY" /\ ExitOf[n] = NoServer
    <2>1. /\ pc'[w] = "install" /\ ssh' = ssh /\ Peer(w) = ssh[w]["ENTRY"]
          /\ ServicesOf(n) = {<<n, "ENTRY">>} /\ Target(w) = <<n, "ENTRY">>
      BY <1>1, <1>5 DEF Asserted, Target, Peer, ServicesOf, TypeOK, HandlerTypes
    <2> QED BY <1>1, <1>2, <1>3, <2>1 DEF Pinned, Home, HomeNext, RoleOf, PinPCs
  <1>6. CASE role[w] = "EXIT"
    <2>1. /\ pc'[w] = "install" /\ ssh' = ssh /\ Peer(w) = ssh[w]["EXIT"]
          /\ ServicesOf(n) = {<<n, "ENTRY">>, <<n, "EXIT">>} /\ Target(w) = <<n, "EXIT">>
      BY <1>1, <1>6 DEF Asserted, Target, Peer, ServicesOf, Control, Operating, DeployPCs,
         TypeOK, HandlerTypes
    <2>2. HomeNext(ServerOf(<<n, "ENTRY">>), ssh[w]["ENTRY"])
      <3>1. Home(EntryOf[n], ssh[w]["ENTRY"])
        BY <1>1, <1>6 DEF Pinned
      <3>2. EntryOf[n] \in Servers /\ ServerOf(<<n, "ENTRY">>) = EntryOf[n]
        BY <1>1, NodeServices
      <3> QED BY <1>1, <3>1, <3>2, HomeKept
    <2> QED BY <1>1, <1>2, <1>3, <2>1, <2>2 DEF Pinned, Home, HomeNext, RoleOf, PinPCs
  <1> QED BY <1>1, <1>4, <1>5, <1>6

\* Finding, proposing and recording the identity of a machine.
LEMMA IdentityPinned ==
    ASSUME PinInv, HostKept, MarkKept, NEW w \in Workers,
           Pin(w) \/ Propose(w) \/ Record(w) \/ Confirm(w)
    PROVE  Pinned(w)'
  <1> USE DEF PinInv, TypeInv
  <1> DEFINE n == tgt[w]
             s == ServerOf(Target(w))
  <1>1. /\ n \in Nodes /\ Peer(w) \in Hosts /\ s \in Servers
        /\ ssh[w]["ENTRY"] \in Hosts /\ role[w] \in Roles /\ pc[w] \in PinPCs
        /\ UNCHANGED <<tgt, saved>> /\ Touched(w) = {}
    BY TargetTyped DEF Pin, Propose, Record, Confirm, Goto, locals, Operating, DeployPCs, PinPCs,
       Control, TypeOK, HandlerTypes, Pinned
  <1>2. ASSUME UNCHANGED <<role, ssh>>, pc'[w] \in PinPCs,
               pc'[w] \in {"pin", "propose"} => known'[w][role[w]] \in {NoId, hostId'[s]},
               pc'[w] \in {"record", "confirm"} =>
                  known'[w][role[w]] # NoId /\ known'[w][role[w]] = mark'[Peer(w)]
        PROVE  Pinned(w)'
    <2>1. (Touched(w) = {})' /\ Target(w)' = Target(w) /\ Peer(w)' = Peer(w)
      BY <1>1, <1>2 DEF Touched, Target, Peer
    <2>2. role[w] = "EXIT" => HomeNext(EntryOf[n], ssh[w]["ENTRY"])
      BY <1>1, NodeServices, HomeKept DEF Pinned
    <2> QED BY <1>1, <1>2, <2>1, <2>2 DEF Pinned, Home, HomeNext, PinPCs
  <1>3. CASE Pin(w)
    <2>1. known[w][role[w]] \in {NoId, hostId[s]} /\ UNCHANGED <<mark, hostId>>
      BY <1>3 DEF Pin, Pinned, machines, hosting
    <2>2. CASE Asserted(w) /\ mark[Peer(w)] # NoId /\ known[w][role[w]] = mark[Peer(w)]
      BY <1>1, <2>1, <2>2, AssertedPinned DEF Home
    <2>3. CASE pc' = [pc EXCEPT ![w] = "propose"] /\ UNCHANGED <<role, ssh, known>>
      <3>1. pc'[w] = "propose"
        BY <2>3 DEF TypeOK, HandlerTypes
      <3> QED BY <1>2, <2>1, <2>3, <3>1 DEF PinPCs
    <2>4. CASE /\ pc' = [pc EXCEPT ![w] = "record"] /\ UNCHANGED <<role, ssh>>
               /\ known' = [known EXCEPT ![w][role[w]] = mark[Peer(w)]] /\ mark[Peer(w)] # NoId
      <3>1. pc'[w] = "record" /\ known'[w][role[w]] = mark[Peer(w)]
        BY <1>1, <2>4 DEF TypeOK, HandlerTypes
      <3> QED BY <1>2, <2>1, <2>4, <3>1 DEF PinPCs
    <2> QED BY <1>3, <2>2, <2>3, <2>4 DEF Pin
  <1>4. CASE Propose(w)
    <2>1. /\ pc'[w] = "pin" /\ UNCHANGED <<role, ssh, known, hostId>>
          /\ known[w][role[w]] \in {NoId, hostId[s]}
      BY <1>4 DEF Propose, Goto, locals, hosting, Pinned, TypeOK, HandlerTypes
    <2> QED BY <1>2, <2>1 DEF PinPCs
  <1>5. CASE Record(w)
    <2>1. /\ pc'[w] = "confirm" /\ UNCHANGED <<role, ssh, known, mark>>
          /\ known[w][role[w]] # NoId /\ known[w][role[w]] = mark[Peer(w)]
      BY <1>5 DEF Record, Goto, locals, machines, Pinned, TypeOK, HandlerTypes
    <2> QED BY <1>2, <2>1 DEF PinPCs
  <1>6. CASE Confirm(w)
    <2>1. Asserted(w) /\ UNCHANGED hostId /\ Home(s, Peer(w))
      BY <1>6 DEF Confirm, hosting, Pinned, Home
    <2> QED BY <1>1, <2>1, AssertedPinned
  <1> QED BY <1>3, <1>4, <1>5, <1>6

\* The steps of a deployment keep it pinned.
LEMMA DeployPinned ==
    ASSUME PinInv, HostKept, MarkKept, NEW w \in Workers,
           Install(w) \/ Register(w) \/ Rollback(w) \/ RollbackFails(w)
    PROVE  Pinned(w)'
  <1> USE DEF PinInv, TypeInv
  <1> DEFINE n == tgt[w]
  <1>1. /\ n \in Nodes /\ Target(w) \in Resources /\ Peer(w) \in Hosts
        /\ ssh[w]["ENTRY"] \in Hosts /\ role[w] \in {"ENTRY", "EXIT"}
        /\ tgt'[w] = n
    BY TargetTyped DEF Install, Register, Rollback, RollbackFails, Goto, Operating, DeployPCs, PinPCs,
       Control, TypeOK, HandlerTypes, Roles
  <1>2. \A x \in Touched(w) : /\ <<n, x>> \in Resources
                              /\ ssh[w][x] \in Hosts
                              /\ HomeNext(ServerOf(<<n, x>>), ssh[w][x])
    BY ResourceParts, HomeKept DEF Pinned
  <1>3. ASSUME pc[w] \in {"install", "register", "finalize"}, NEW r \in ServicesOf(n)
        PROVE  ssh[w][RoleOf(r)] \in Hosts /\ HomeNext(ServerOf(r), ssh[w][RoleOf(r)])
    BY <1>1, <1>3, NodeServices, ResourceParts, HomeKept DEF Pinned
  <1>5. CASE Install(w)
    <2>1. /\ pc[w] = "install" /\ pc'[w] = "register" /\ ssh' = ssh
          /\ \A x \in Roles : x # role[w] => saved'[w][x] = saved[w][x]
      BY <1>5 DEF Install, Goto, TypeOK, HandlerTypes, DeployPCs
    <2>2. Target(w) \in ServicesOf(n) /\ RoleOf(Target(w)) = role[w]
      BY <1>1, ResourceParts DEF Target, NodeOf, RoleOf
    <2>3. \A x \in Roles : saved'[w][x] # Nobody => x = role[w] \/ x \in Touched(w)
      BY <2>1 DEF Touched
    <2> QED BY <1>1, <1>2, <1>3, <2>1, <2>2, <2>3
        DEF Pinned, Home, HomeNext, Touched, Target, DeployPCs, PinPCs
  <1>6. CASE Register(w)
    <2>1. /\ pc[w] = "register" /\ pc'[w] \in {"install", "finalize"}
          /\ ssh' = ssh /\ saved' = saved
      BY <1>6 DEF Register, Goto, locals, TypeOK, HandlerTypes, DeployPCs
    <2> QED BY <1>1, <1>2, <1>3, <2>1 DEF Pinned, Home, HomeNext, Touched, DeployPCs, PinPCs
  <1>7. CASE Rollback(w) \/ RollbackFails(w)
    <2>1. pc'[w] \in {"settle", "flagged"} /\ ssh' = ssh /\ saved' = saved
      BY <1>7 DEF Rollback, RollbackFails, Goto, locals, TypeOK, HandlerTypes
    <2> QED BY <1>1, <1>2, <2>1 DEF Pinned, Home, HomeNext, Touched, DeployPCs, PinPCs
  <1> QED BY <1>5, <1>6, <1>7

\* ... and no other step of a handler enters a deployment or leaves a rollback point.
LEMMA OtherPinned ==
    ASSUME PinInv, NEW w \in Workers, Acts(w),
           ~Pin(w), ~Propose(w), ~Record(w), ~Confirm(w),
           ~Install(w), ~Register(w), ~Rollback(w), ~RollbackFails(w), ~LoseSession(w)
    PROVE  Pinned(w)'
  <1> USE DEF PinInv, TypeInv, TypeOK, HandlerTypes
  <1>1. CASE End(w)
    BY <1>1, QuietPinned DEF End, Touched, NoSaves, DeployPCs, PinPCs, Roles
  <1>2. ASSUME pc[w] \notin DeployPCs, saved'[w] = saved[w],
               pc'[w] \notin DeployPCs
                 \/ (pc'[w] = "pin" /\ role'[w] = "ENTRY"
                     /\ known'[w]["ENTRY"] \in {NoId, hostId'[ServerOf(Target(w)')]})
        PROVE  Pinned(w)'
    <2>1. Touched(w) = {} /\ (Touched(w) = {})'
      <3>1. Touched(w) = {}
        BY <1>2 DEF Pinned
      <3> QED BY <1>2, <3>1 DEF Touched
    <2> QED BY <1>2, <2>1, QuietPinned
  <1>3. pc[w] \notin DeployPCs /\ pc'[w] \notin DeployPCs /\ saved' = saved => Pinned(w)'
    BY <1>2
  <1>4. CASE Request(w) \/ (\E r \in Resources : Pick(w, r)) \/ \E s \in Servers : FinalBegin(w, s)
    <2>1. ASSUME NEW n \in Nodes, NEW c \in Configs, DeployBegin(w, n, c) PROVE Pinned(w)'
      <3>1. /\ pc'[w] = "pin" /\ role'[w] = "ENTRY" /\ Target(w)' = <<n, "ENTRY">>
            /\ known'[w]["ENTRY"] = hostId'[EntryOf[n]]
        BY <2>1 DEF DeployBegin, Begin, Target, Roles, hosting
      <3> QED BY <1>2, <2>1, <3>1, NodeServices DEF DeployBegin, Begin, DeployPCs, PinPCs
    <2>2. ASSUME NEW n \in Nodes, CreateBegin(w, n) \/ UndeployBegin(w, n) PROVE Pinned(w)'
      BY <1>2, <2>2 DEF CreateBegin, UndeployBegin, Begin, locals, DeployPCs, PinPCs
    <2>3. ASSUME NEW s \in Servers, QueueBegin(w, s) \/ ScanBegin(w, s) \/ FinalBegin(w, s)
          PROVE  Pinned(w)'
      BY <1>2, <2>3 DEF QueueBegin, ScanBegin, FinalBegin, Begin, locals, DeployPCs, PinPCs
    <2>4. ASSUME NEW r \in Resources, Pick(w, r) PROVE Pinned(w)'
      BY <1>2, <2>4 DEF Pick, Begin, locals, DeployPCs, PinPCs
    <2> QED BY <1>4, <2>1, <2>2, <2>3, <2>4 DEF Request
  <1>5. CASE \/ CreateRefused(w) \/ Provisioned(w) \/ Compensate(w) \/ UndeployFails(w) \/ Drop(w)
             \/ QueueCommit(w) \/ QueueRefused(w) \/ Finalize(w) \/ Settle(w) \/ Crash(w)
             \/ CleanupDeferred(w) \/ Block(w) \/ Done(w) \/ CleanupFails(w)
             \/ Retire(w) \/ InventoryFails(w)
    BY <1>1, <1>5 DEF CreateRefused, Provisioned, Compensate, UndeployFails, Drop,
       QueueCommit, QueueRefused, Finalize, Settle, Crash, CleanupDeferred, Block, Done,
       CleanupFails, Retire, InventoryFails
  <1>6. CASE CreateInsert(w) \/ Wipe(w) \/ CleanupBegin(w) \/ Prepare(w) \/ Remove(w) \/ Unlist(w)
             \/ List(w)
    BY <1>3, <1>6 DEF CreateInsert, Wipe, CleanupBegin, Prepare, Remove, Unlist, List, Goto, locals,
       DeployPCs, PinPCs
  <1>7. CASE Observe(w)
    BY <1>1, <1>3, <1>7 DEF Observe, Goto, locals, DeployPCs, PinPCs
  <1> QED BY <1>4, <1>5, <1>6, <1>7 DEF Acts, Proceed, Disturb

\* Where nothing is, a removal leaves nothing.
Unlisted(h, r) ==
    [config |-> remote[h][r].config, unit |-> remote[h][r].unit, manifest |-> NoConfig]

LEMMA EmptyStopped ==
    ASSUME NEW h, NEW r, remote[h][r] = Nothing
    PROVE  Stopped(h, r) = Nothing /\ Unlisted(h, r) = Nothing
BY DEF Stopped, Unlisted, Nothing

\* Something appears only where a deployment installs it, or puts it back.
LEMMA ArtifactsPinned ==
    ASSUME PinInv, HostKept, MarkKept, MarksApart', [Next]_vars
    PROVE  PinnedArtifacts'
  <1> USE DEF PinInv, TypeInv
  <1> SUFFICES ASSUME NEW h \in Hosts, NEW r \in Resources, remote'[h][r] # Nothing
               PROVE  HomeNext(ServerOf(r), h)
    BY DEF PinnedArtifacts, HomeNext
  <1>1. ServerOf(r) \in Servers
    BY ResourceParts
  <1>2. CASE remote[h][r] # Nothing
    BY <1>1, <1>2, HomeKept DEF PinnedArtifacts, Home
  <1>3. ASSUME NEW w \in Workers, Install(w) \/ Register(w) PROVE HomeNext(ServerOf(r), h)
    <2>1. Target(w) \in Resources /\ Peer(w) \in Hosts
      BY <1>3, TargetTyped DEF Install, Register, Operating, DeployPCs, PinPCs
    <2>2. CASE h = Peer(w) /\ r = Target(w)
      <3>1. r \in ServicesOf(tgt[w]) /\ RoleOf(r) = role[w]
        BY <2>1, <2>2, ResourceParts DEF Target, NodeOf, RoleOf
      <3> QED BY <1>1, <1>3, <2>2, <3>1, HomeKept DEF Install, Register, Pinned, Peer
    <2>3. CASE ~(h = Peer(w) /\ r = Target(w))
      BY <1>2, <1>3, <2>1, <2>3 DEF Install, Register, Put, TypeOK, MachineTypes
    <2> QED BY <2>2, <2>3
  <1>4. ASSUME NEW w \in Workers, Rollback(w) \/ RollbackFails(w) PROVE HomeNext(ServerOf(r), h)
    <2>1. CASE Touches(w, h, r)
      <3>1. r = <<tgt[w], RoleOf(r)>>
        BY <2>1, ResourceParts DEF Touches
      <3> QED BY <1>1, <2>1, <3>1, HomeKept DEF Touches, Pinned
    <2>2. CASE ~Touches(w, h, r)
      BY <1>2, <1>4, <2>2 DEF Rollback, RollbackFails
    <2> QED BY <2>1, <2>2
  <1>5. ASSUME NEW w \in Workers, Wipe(w) PROVE HomeNext(ServerOf(r), h)
    <2>1. Target(w) \in Resources /\ Peer(w) \in Hosts
      BY <1>5, TargetTyped DEF Wipe, Operating, UndeployPCs
    <2>2. remote'[h][r] \in {remote[h][r], Stopped(h, r)}
      BY <1>5, <2>1 DEF Wipe, Put, TypeOK, MachineTypes
    <2>3. remote[h][r] # Nothing
      BY <2>2, EmptyStopped
    <2> QED BY <1>2, <2>3
  <1>6. ASSUME NEW w \in Workers, Remove(w) \/ Unlist(w) PROVE HomeNext(ServerOf(r), h)
    <2>1. tgt[w] \in Resources /\ Peer(w) \in Hosts
      BY <1>6 DEF Remove, Unlist, Peer, Control, CleanupPCs
    <2>2. remote'[h][r] \in {remote[h][r], Stopped(h, r), Unlisted(h, r)}
      BY <1>6, <2>1 DEF Remove, Unlist, Unlisted, Put, TypeOK, MachineTypes
    <2>3. remote[h][r] # Nothing
      BY <2>2, EmptyStopped
    <2> QED BY <1>2, <2>3
  <1>7. CASE UNCHANGED remote
    BY <1>2, <1>7
  <1>8. ASSUME NEW w \in Workers, Acts(w), ~Install(w), ~Rollback(w), ~RollbackFails(w), ~Register(w),
               ~Wipe(w), ~Remove(w), ~Unlist(w)
        PROVE  UNCHANGED remote
    BY <1>8 DEF Acts, Proceed, Disturb, Request, CreateInsert, CreateRefused, Provisioned, Compensate,
       UndeployFails, Drop, QueueCommit, QueueRefused, Finalize, Settle, Crash, LoseSession, Pin, Propose,
       Record, Confirm, Asserted,
       CleanupBegin, CleanupDeferred, Prepare, Block, Done, CleanupFails, List, Observe, Retire,
       InventoryFails, CreateBegin, UndeployBegin, DeployBegin, QueueBegin, ScanBegin, Pick,
       FinalBegin, machines
  <1>9. ASSUME Unlocked \/ (\E x \in Resources : TimePasses(x)) \/ UNCHANGED vars
        PROVE  UNCHANGED remote
    BY <1>9 DEF Unlocked, Retry, Edit, DestroyCredentials, RestoreCredentials, Move, Heartbeat,
       TimePasses, vars, machines
  <1> QED BY <1>3, <1>4, <1>5, <1>6, <1>7, <1>8, <1>9, StepKinds

LEMMA PinStep == PinInv /\ [Next]_vars => PinInv'
  <1> SUFFICES ASSUME PinInv, [Next]_vars PROVE PinInv'
    OBVIOUS
  <1>1. TypeInv' /\ HostKept /\ MarkKept /\ PinnedArtifacts'
    BY TypeStep, HostStep, MarkStep, ArtifactsPinned DEF PinInv, PinnedArtifacts
  <1>2. ASSUME NEW w \in Workers, Acts(w), NEW v \in Workers PROVE Pinned(v)'
    <2>1. CASE v # w
      BY <1>1, <1>2, <2>1, OneMoves, StillPinned DEF PinInv
    <2>2. CASE v = w /\ LoseSession(w)
      <3>1. Still(w)
        BY <2>2 DEF LoseSession, locals, Still
      <3> QED BY <1>1, <2>2, <3>1, StillPinned
    <2>3. CASE v = w /\ ~LoseSession(w)
      BY <1>1, <1>2, <2>3, IdentityPinned, DeployPinned, OtherPinned
    <2> QED BY <2>1, <2>2, <2>3
  <1>3. ASSUME Unlocked \/ (\E r \in Resources : TimePasses(r)) \/ UNCHANGED vars,
               NEW v \in Workers
        PROVE  Pinned(v)'
    BY <1>1, <1>3, NoneMoves, StillPinned
  <1> QED BY <1>1, <1>2, <1>3, StepKinds DEF PinInv

\* Services of a server run only on the machine whose identity it records: every
\* write of a deployment, its rollback included, goes to a machine that was asked
\* for its identity, although the address may change at any time.
THEOREM ArtifactsStayPinned == Spec => []PinnedArtifacts
  <1>1. Spec => []PinInv
    BY PinInit, PinStep, PTL DEF Spec
  <1> QED BY <1>1, PTL DEF PinInv

-----------------------------------------------------------------------------
(***************************************************************************)
(* While no lock session is lost, the database and the machines agree,     *)
(* whatever number of handlers interleave and wherever they die: every     *)
(* service has an owner, a finished job left nothing behind and stays      *)
(* finished, and a server keeps its credentials as long as it needs them.  *)
(***************************************************************************)

(* The locks *)

\* No lock is held twice.
Apart == \A v, w \in Workers : v # w => held[v] \cap held[w] = {}

\* What a handler at work has locked.
Locked(w) ==
    /\ pc[w] = "create" => {Ports(s) : s \in Hosting(tgt[w])} \subseteq held[w]
    /\ pc[w] \in Operating => NodeLock(tgt[w]) \in held[w]
    /\ pc[w] \in CleanupPCs => NodeLock(NodeOf(tgt[w])) \in held[w]
    /\ pc[w] \in FinalPCs => Ports(tgt[w]) \in held[w]

LockInv == TypeInv /\ (Fenced => Apart /\ \A w \in Workers : Locked(w))

\* A step after which no session was lost lost none.
LEMMA FenceStep ==
    ASSUME TypeInv, [Next]_vars, Fenced'
    PROVE  Fenced /\ \A w \in Workers : ~LoseSession(w)
  <1> USE DEF TypeInv, TypeOK, GhostTypes, Fenced
  <1>1. "lost" \in Disturbances /\ spent["lost"] \in Nat
    BY DEF Disturbances
  <1>2. ASSUME NEW kind \in Disturbances, Spend(kind) PROVE Fenced /\ kind # "lost"
    BY <1>1, <1>2 DEF Spend
  <1>3. \A w \in Workers : ~LoseSession(w)
    BY <1>1, <1>2 DEF LoseSession
  <1>4. Fenced
    <2>1. ASSUME UNCHANGED spent \/ \E kind \in Disturbances : Spend(kind) PROVE Fenced
      BY <1>2, <2>1
    <2>2. ASSUME NEW w \in Workers, Acts(w)
          PROVE  UNCHANGED spent \/ \E kind \in Disturbances : Spend(kind)
      BY <1>3, <2>2 DEF Acts, Proceed, Disturb, Request, CreateInsert, CreateRefused, Provisioned,
       Compensate, UndeployFails, Drop, QueueCommit, QueueRefused, Finalize, Settle, Crash,
       Install, Register, Pin, Propose, Record, Confirm, Asserted, Rollback, RollbackFails, Wipe, CleanupBegin, CleanupDeferred, Prepare, Block,
       Remove, Unlist, Done, CleanupFails, List, Observe, Retire, InventoryFails, CreateBegin,
       UndeployBegin, DeployBegin, QueueBegin, ScanBegin, Pick, FinalBegin, ghosts, Disturbances
    <2>3. ASSUME Unlocked \/ (\E r \in Resources : TimePasses(r)) \/ UNCHANGED vars
          PROVE  UNCHANGED spent \/ \E kind \in Disturbances : Spend(kind)
      BY <2>3 DEF Unlocked, Retry, Edit, DestroyCredentials, RestoreCredentials, Move, Heartbeat,
         TimePasses, vars, ghosts, Disturbances
    <2> QED BY <2>1, <2>2, <2>3, StepKinds
  <1> QED BY <1>3, <1>4

\* A step takes locks nobody has, or none.
LEMMA HeldMoves ==
    ASSUME TypeInv, NEW w \in Workers, Acts(w), ~LoseSession(w)
    PROVE  /\ \A v \in Workers : v # w => held'[v] = held[v]
           /\ held'[w] \in {held[w], {}} \/ Free(held'[w])
  <1> USE DEF TypeInv, TypeOK, HandlerTypes
  <1>1. CASE \/ CreateInsert(w) \/ CreateRefused(w) \/ Provisioned(w) \/ Compensate(w)
             \/ UndeployFails(w) \/ Drop(w) \/ QueueCommit(w) \/ QueueRefused(w)
             \/ Finalize(w) \/ Settle(w) \/ Crash(w)
    BY <1>1 DEF CreateInsert, CreateRefused, Provisioned, Compensate, UndeployFails, Drop,
       QueueCommit, QueueRefused, Finalize, Settle, Crash, End
  <1>2. CASE \/ Pin(w) \/ Propose(w) \/ Record(w) \/ Confirm(w)
             \/ Install(w) \/ Register(w) \/ Rollback(w) \/ RollbackFails(w) \/ Wipe(w)
    BY <1>2 DEF Pin, Propose, Record, Confirm, Asserted, Install, Register, Rollback, RollbackFails,
       Wipe, Goto
  <1>3. CASE CleanupBegin(w)
    BY <1>3 DEF CleanupBegin
  <1>4. CASE \/ CleanupDeferred(w) \/ Prepare(w) \/ Block(w)
             \/ Remove(w) \/ Unlist(w) \/ Done(w) \/ CleanupFails(w)
    BY <1>4 DEF CleanupDeferred, Prepare, Block, Remove, Unlist, Done, CleanupFails, Goto, End
  <1>5. CASE List(w) \/ Observe(w) \/ Retire(w) \/ InventoryFails(w)
    BY <1>5 DEF List, Observe, Retire, InventoryFails, Goto, End
  <1>6. CASE \/ Request(w)
             \/ \E r \in Resources : Pick(w, r)
             \/ \E s \in Servers : FinalBegin(w, s)
    <2> DEFINE Goal == /\ \A v \in Workers : v # w => held'[v] = held[v]
                       /\ held'[w] \in {held[w], {}} \/ Free(held'[w])
    <2>1. ASSUME NEW n \in Nodes, CreateBegin(w, n) \/ UndeployBegin(w, n) PROVE Goal
      BY <2>1 DEF CreateBegin, UndeployBegin, Begin
    <2>2. ASSUME NEW n \in Nodes, NEW c \in Configs, DeployBegin(w, n, c) PROVE Goal
      BY <2>2 DEF DeployBegin, Begin
    <2>3. ASSUME NEW s \in Servers, QueueBegin(w, s) \/ ScanBegin(w, s) \/ FinalBegin(w, s)
          PROVE  Goal
      BY <2>3 DEF QueueBegin, ScanBegin, FinalBegin, Begin
    <2>4. ASSUME NEW r \in Resources, Pick(w, r) PROVE Goal
      BY <2>4 DEF Pick, Begin
    <2> QED BY <1>6, <2>1, <2>2, <2>3, <2>4 DEF Request
  <1> QED BY <1>1, <1>2, <1>3, <1>4, <1>5, <1>6 DEF Acts, Proceed, Disturb

\* A handler at work has what its work requires.
LEMMA LockedMoves ==
    ASSUME TypeInv, NEW w \in Workers, Locked(w), Acts(w), ~LoseSession(w)
    PROVE  Locked(w)'
  <1> USE DEF TypeInv, TypeOK, HandlerTypes, Operating, DeployPCs, PinPCs, UndeployPCs, CleanupPCs, FinalPCs
  <1>1. CASE End(w)
    BY <1>1 DEF End, Locked
  <1>2. ASSUME held'[w] = held[w], tgt'[w] = tgt[w], pc'[w] # "create",
               pc'[w] \in Operating => pc[w] \in Operating,
               pc'[w] \in CleanupPCs => pc[w] \in CleanupPCs,
               pc'[w] \in FinalPCs => pc[w] \in FinalPCs
        PROVE  Locked(w)'
    BY <1>2 DEF Locked
  <1>3. CASE CreateInsert(w)
    BY <1>3 DEF CreateInsert, Locked
  <1>4. CASE \/ CreateRefused(w) \/ Provisioned(w) \/ Compensate(w) \/ UndeployFails(w) \/ Drop(w)
             \/ QueueCommit(w) \/ QueueRefused(w) \/ Finalize(w) \/ Settle(w) \/ Crash(w)
             \/ CleanupDeferred(w) \/ Block(w) \/ Done(w) \/ CleanupFails(w)
             \/ Retire(w) \/ InventoryFails(w)
    BY <1>1, <1>4 DEF CreateRefused, Provisioned, Compensate, UndeployFails, Drop,
       QueueCommit, QueueRefused, Finalize, Settle, Crash, CleanupDeferred, Block, Done,
       CleanupFails, Retire, InventoryFails
  <1>5. CASE \/ Pin(w) \/ Propose(w) \/ Record(w) \/ Confirm(w)
             \/ Install(w) \/ Register(w) \/ Rollback(w) \/ RollbackFails(w) \/ Wipe(w)
    BY <1>2, <1>5 DEF Pin, Propose, Record, Confirm, Asserted, Install, Register, Rollback, RollbackFails,
       Wipe, Goto
  <1>6. CASE CleanupBegin(w)
    BY <1>6 DEF CleanupBegin, Locked, CleanupKeys
  <1>7. CASE Prepare(w) \/ Remove(w) \/ Unlist(w) \/ List(w)
    BY <1>2, <1>7 DEF Prepare, Remove, Unlist, List, Goto
  <1>8. CASE Observe(w)
    BY <1>1, <1>2, <1>8 DEF Observe, Goto
  <1>9. CASE \/ Request(w)
             \/ \E r \in Resources : Pick(w, r)
             \/ \E s \in Servers : FinalBegin(w, s)
    <2>1. ASSUME NEW n \in Nodes, CreateBegin(w, n) PROVE Locked(w)'
      BY <2>1 DEF CreateBegin, Begin, Locked
    <2>2. ASSUME NEW n \in Nodes, UndeployBegin(w, n) PROVE Locked(w)'
      BY <2>2 DEF UndeployBegin, Begin, Locked, OperationKeys
    <2>3. ASSUME NEW n \in Nodes, NEW c \in Configs, DeployBegin(w, n, c) PROVE Locked(w)'
      BY <2>3 DEF DeployBegin, Begin, Locked, OperationKeys
    <2>4. ASSUME NEW s \in Servers, QueueBegin(w, s) \/ ScanBegin(w, s) \/ FinalBegin(w, s)
          PROVE  Locked(w)'
      BY <2>4 DEF QueueBegin, ScanBegin, FinalBegin, Begin, Locked
    <2>5. ASSUME NEW r \in Resources, Pick(w, r) PROVE Locked(w)'
      BY <2>5 DEF Pick, Begin, Locked
    <2> QED BY <1>9, <2>1, <2>2, <2>3, <2>4, <2>5 DEF Request
  <1> QED BY <1>3, <1>4, <1>5, <1>6, <1>7, <1>8, <1>9 DEF Acts, Proceed, Disturb

\* No lock is held at first.
LEMMA LockInit == Init => LockInv
BY TypeInit DEF Init, LockInv, Apart, Locked, Operating, DeployPCs, PinPCs, UndeployPCs, CleanupPCs, FinalPCs

\* Locks stay apart, and with the handlers whose work needs them.
LEMMA LockStep == LockInv /\ [Next]_vars => LockInv'
  <1> SUFFICES ASSUME LockInv, [Next]_vars, Fenced'
               PROVE  Apart' /\ \A v \in Workers : Locked(v)'
    BY TypeStep DEF LockInv
  <1>1. Apart /\ (\A v \in Workers : Locked(v)) /\ TypeInv /\ \A w \in Workers : ~LoseSession(w)
    BY FenceStep DEF LockInv
  <1>2. ASSUME NEW v \in Workers, Still(v), held'[v] = held[v] PROVE Locked(v)'
    BY <1>1, <1>2 DEF Still, Locked
  <1>3. ASSUME NEW w \in Workers, Acts(w) PROVE Apart' /\ \A v \in Workers : Locked(v)'
    <2>1. /\ \A v \in Workers : v # w => held'[v] = held[v]
          /\ held'[w] \in {held[w], {}} \/ Free(held'[w])
      BY <1>1, <1>3, HeldMoves
    <2>2. \A v \in Workers : v # w => held[v] \cap held'[w] = {}
      BY <1>1, <2>1 DEF Apart, Free
    <2>3. Apart'
      BY <1>1, <2>1, <2>2 DEF Apart
    <2> QED BY <1>1, <1>2, <1>3, <2>1, <2>3, OneMoves, LockedMoves
  <1>4. ASSUME Unlocked \/ (\E r \in Resources : TimePasses(r)) \/ UNCHANGED vars
        PROVE  Apart' /\ \A v \in Workers : Locked(v)'
    <2>1. UNCHANGED held
      BY <1>4 DEF Unlocked, Retry, Edit, DestroyCredentials, RestoreCredentials, Move, Heartbeat,
         TimePasses, vars, procs
    <2> QED BY <1>1, <1>2, <1>4, <2>1, NoneMoves DEF Apart
  <1> QED BY <1>3, <1>4, StepKinds

-----------------------------------------------------------------------------
(* What the database and the machines agree on *)

JobsAreForGone ==
    \A r \in Resources : /\ task[r].state = "none" => task[r].host = NoId
                         /\ task[r].state # "none" => node[NodeOf(r)] = "gone"
LiveHosted == \A n \in Nodes : node[n] = "live" => \A s \in Hosting(n) : status[s] # "gone"
JobsHosted == \A r \in Resources : Open(r) => status[ServerOf(r)] # "gone"
JobsPinned ==
    \A h \in Hosts, r \in Resources :
        task[r].host # NoId /\ remote[h][r] # Nothing => mark[h] = task[r].host
Owned ==
    \A h \in Hosts, r \in Resources :
        remote[h][r].unit => r \in abandoned \/ node[NodeOf(r)] = "live" \/ Open(r)
CleanDone ==
    \A h \in Hosts, r \in Resources : task[r].state = "DONE" => remote[h][r] = Nothing

\* What a handler has established and goes on relying on.
Wiped(w, x) == ~remote[ssh[w][x]][<<tgt[w], x>>].unit
SoundCreate(w) ==
    pc[w] = "create" => \A s \in Hosting(tgt[w]) : status[s] # "gone"
SoundOperation(w) ==
    /\ pc[w] \in Operating =>
         /\ node[tgt[w]] = "live" \/ ServicesOf(tgt[w]) \subseteq abandoned
         /\ \A r \in ServicesOf(tgt[w]) : task[r].state = "none"
    /\ (pc[w] = "wipe" /\ role[w] = "EXIT") \/ pc[w] = "drop" => Wiped(w, "ENTRY")
    /\ pc[w] = "drop" /\ ExitOf[tgt[w]] # NoServer => ssh[w]["EXIT"] \in Hosts /\ Wiped(w, "EXIT")
Approved(w) ==
    LET found == remote[ssh[w][role[w]]][tgt[w]]
    IN  found.config \in {NoConfig, found.manifest, task[tgt[w]].expected}
SoundCleanup(w) ==
    /\ pc[w] = "remove" => Approved(w)
    /\ pc[w] \in CleanupPCs => task[tgt[w]].state = "RUNNING"
    /\ pc[w] \in CleanupPCs \ {"prepare"} =>
         task[tgt[w]].host # NoId /\ task[tgt[w]].host = mark[ssh[w][role[w]]]
    /\ pc[w] \in {"unlist", "done"} =>
         LET left == remote[ssh[w][role[w]]][tgt[w]]
         IN  /\ left.config = NoConfig /\ ~left.unit
             /\ pc[w] = "done" => left.manifest = NoConfig
SoundFinal(w) ==
    pc[w] \in FinalPCs =>
         /\ \A r \in Resources : ServerOf(r) = tgt[w] => ~Open(r)
         /\ \A n \in Nodes : tgt[w] \in Hosting(n) => node[n] # "live"
Sound(w) == SoundCreate(w) /\ SoundOperation(w) /\ SoundCleanup(w) /\ SoundFinal(w)

Agreed ==
    /\ JobsAreForGone /\ LiveHosted /\ JobsHosted /\ JobsPinned /\ Owned /\ CleanDone
    /\ \A w \in Workers : Sound(w)

OwnInv == PinInv /\ LockInv /\ (Fenced => Agreed)

\* Nothing is anywhere at first.
LEMMA OwnInit == Init => OwnInv
  <1> SUFFICES ASSUME Init PROVE OwnInv
    OBVIOUS
  <1>1. \A w \in Workers : Sound(w)
    BY DEF Init, Sound, SoundCreate, SoundOperation, SoundCleanup, SoundFinal, Operating,
       DeployPCs, PinPCs, UndeployPCs, CleanupPCs, FinalPCs
  <1>2. JobsAreForGone /\ LiveHosted /\ JobsHosted /\ JobsPinned /\ Owned /\ CleanDone
    BY NodeServices DEF Init, JobsAreForGone, LiveHosted, JobsHosted, JobsPinned, Owned, CleanDone,
       NoTask, Nothing, Open
  <1> QED BY <1>1, <1>2, PinInit, LockInit DEF OwnInv, Agreed

\* A state and a step in which all this holds so far.
Agreeing == PinInv /\ LockInv /\ Fenced /\ Agreed

-----------------------------------------------------------------------------
(* What each handler may change *)

\* A handler changes machines only for the node or the service it has locked.
LEMMA RemoteOwn ==
    ASSUME TypeInv, NEW w \in Workers, Acts(w), NEW h \in Hosts, NEW r \in Resources
    PROVE  \/ remote'[h][r] = remote[h][r]
           \/ pc[w] \in Operating /\ NodeOf(r) = tgt[w]
           \/ pc[w] \in CleanupPCs /\ r = tgt[w]
  <1> USE DEF TypeInv, TypeOK, MachineTypes
  <1>1. CASE Install(w) \/ Register(w) \/ Wipe(w)
    <2>1. /\ Target(w) \in Resources /\ Peer(w) \in Hosts /\ NodeOf(Target(w)) = tgt[w]
          /\ pc[w] \in Operating
      BY <1>1, TargetTyped
      DEF Install, Register, Wipe, Operating, DeployPCs, PinPCs, UndeployPCs, Target, NodeOf
    <2>2. r # Target(w) => remote'[h][r] = remote[h][r]
      BY <1>1, <2>1 DEF Install, Register, Wipe, Put
    <2> QED BY <2>1, <2>2
  <1>2. CASE Rollback(w) \/ RollbackFails(w)
    BY <1>2 DEF Rollback, RollbackFails, Touches, Operating, DeployPCs, PinPCs
  <1>3. CASE Remove(w) \/ Unlist(w)
    <2>1. tgt[w] \in Resources /\ Peer(w) \in Hosts /\ pc[w] \in CleanupPCs
      BY <1>3 DEF Remove, Unlist, Peer, Control, CleanupPCs
    <2> QED BY <1>3, <2>1 DEF Remove, Unlist, Put
  <1>4. ASSUME ~Install(w), ~Rollback(w), ~RollbackFails(w), ~Register(w),
               ~Wipe(w), ~Remove(w), ~Unlist(w)
        PROVE  UNCHANGED remote
    BY <1>4 DEF Acts, Proceed, Disturb, Request, CreateInsert, CreateRefused, Provisioned, Compensate,
       UndeployFails, Drop, QueueCommit, QueueRefused, Finalize, Settle, Crash, LoseSession, Pin, Propose,
       Record, Confirm, Asserted,
       CleanupBegin, CleanupDeferred, Prepare, Block, Done, CleanupFails, List, Observe, Retire,
       InventoryFails, CreateBegin, UndeployBegin, DeployBegin, QueueBegin, ScanBegin, Pick,
       FinalBegin, machines
  <1> QED BY <1>1, <1>2, <1>3, <1>4

\* Jobs change by their worker, or are created with the deletion of a live node.
LEMMA TaskOwn ==
    ASSUME TypeInv, NEW w \in Workers, Acts(w), NEW r \in Resources
    PROVE  \/ task'[r] = task[r]
           \/ pc[w] \in CleanupPCs /\ r = tgt[w]
           \/ CleanupBegin(w) /\ r = tgt[w]
           \/ QueueCommit(w) /\ NodeOf(r) \in LiveOn(tgt[w]) /\ task[r].state = "none"
  <1> USE DEF TypeInv, TypeOK, JobTypes
  <1>1. CASE CleanupBegin(w) \/ Prepare(w) \/ Block(w) \/ Done(w) \/ CleanupFails(w)
    <2>1. tgt[w] \in Resources /\ (CleanupBegin(w) \/ pc[w] \in CleanupPCs)
      BY <1>1 DEF CleanupBegin, Prepare, Block, Done, CleanupFails, Control, CleanupPCs
    <2> QED BY <1>1, <2>1 DEF CleanupBegin, Prepare, Block, Done, CleanupFails, TaskBecomes
  <1>2. CASE QueueCommit(w)
    BY <1>2 DEF QueueCommit
  <1>3. ASSUME ~CleanupBegin(w), ~Prepare(w), ~Block(w), ~Done(w), ~CleanupFails(w), ~QueueCommit(w)
        PROVE  UNCHANGED task
    BY <1>3 DEF Acts, Proceed, Disturb, Request, CreateInsert, CreateRefused, Provisioned, Compensate,
       UndeployFails, Drop, QueueRefused, Finalize, Settle, Crash, LoseSession, Pin, Propose,
       Record, Confirm, Asserted, Install,
       Register, Rollback, RollbackFails, Wipe, Remove, Unlist,
       CleanupDeferred, List, Observe, Retire,
       InventoryFails, CreateBegin, UndeployBegin, DeployBegin, QueueBegin, ScanBegin, Pick,
       FinalBegin, jobs
  <1> QED BY <1>1, <1>2, <1>3

\* Rows of nodes come and go in four ways.
LEMMA NodeOwn ==
    ASSUME TypeInv, NEW w \in Workers, Acts(w), NEW n \in Nodes
    PROVE  \/ node'[n] = node[n]
           \/ CreateInsert(w) /\ n = tgt[w] /\ node[n] = "unborn" /\ node'[n] = "live"
           \/ /\ Compensate(w) /\ node'[n] = "gone"
              /\ ServicesOf(n) \subseteq abandoned'
           \/ Drop(w) /\ n = tgt[w] /\ node[n] = "live" /\ node'[n] = "gone"
           \/ QueueCommit(w) /\ n \in LiveOn(tgt[w]) /\ node'[n] = "gone"
  <1> USE DEF TypeInv, TypeOK, RowTypes
  <1>1. CASE CreateInsert(w)
    BY <1>1 DEF CreateInsert
  <1>2. CASE Compensate(w)
    BY <1>2 DEF Compensate
  <1>3. CASE Drop(w)
    BY <1>3 DEF Drop
  <1>4. CASE QueueCommit(w)
    BY <1>4 DEF QueueCommit
  <1>5. ASSUME ~CreateInsert(w), ~Compensate(w), ~Drop(w), ~QueueCommit(w) PROVE UNCHANGED node
    BY <1>5 DEF Acts, Proceed, Disturb, Request, CreateRefused, Provisioned,
       UndeployFails, QueueRefused, Finalize, Settle, Crash, LoseSession, Pin, Propose,
       Record, Confirm, Asserted, Install,
       Register, Rollback, RollbackFails, Wipe, Remove, Unlist,
       CleanupBegin, CleanupDeferred, Prepare, Block, Done, CleanupFails, List, Observe, Retire,
       InventoryFails, CreateBegin, UndeployBegin, DeployBegin, QueueBegin, ScanBegin, Pick,
       FinalBegin, rows
  <1> QED BY <1>1, <1>2, <1>3, <1>4, <1>5

\* Servers are marked by a deletion and go by a final inventory.
LEMMA StatusOwn ==
    ASSUME TypeInv, NEW w \in Workers, Acts(w), NEW s \in Servers
    PROVE  \/ status'[s] = status[s]
           \/ status'[s] = "DELETING" /\ status[s] # "gone"
           \/ Retire(w) /\ s = tgt[w]
  <1> USE DEF TypeInv, TypeOK, HostingTypes
  <1>1. CASE QueueCommit(w)
    BY <1>1 DEF QueueCommit
  <1>2. CASE Retire(w)
    BY <1>2 DEF Retire
  <1>3. ASSUME ~QueueCommit(w), ~Retire(w) PROVE UNCHANGED status
    BY <1>3 DEF Acts, Proceed, Disturb, Request, CreateInsert, CreateRefused, Provisioned, Compensate,
       UndeployFails, Drop, QueueRefused, Finalize, Settle, Crash, LoseSession, Pin, Propose,
       Record, Confirm, Asserted, Install,
       Register, Rollback, RollbackFails, Wipe, Remove, Unlist,
       CleanupBegin, CleanupDeferred, Prepare, Block, Done, CleanupFails, List, Observe,
       InventoryFails, CreateBegin, UndeployBegin, DeployBegin, QueueBegin, ScanBegin, Pick,
       FinalBegin, hosting
  <1> QED BY <1>1, <1>2, <1>3

\* What was abandoned stays so.
LEMMA AbandonedGrows ==
    ASSUME [Next]_vars
    PROVE  abandoned \subseteq abandoned'
  <1>1. ASSUME NEW w \in Workers, Acts(w) PROVE abandoned \subseteq abandoned'
    BY <1>1 DEF Acts, Proceed, Disturb, Request, CreateInsert, CreateRefused, Provisioned, Compensate,
       UndeployFails, Drop, QueueCommit, QueueRefused, Finalize, Settle, Crash, LoseSession, Pin, Propose,
       Record, Confirm, Asserted,
       Install, Register, Rollback, RollbackFails, Wipe, Remove, Unlist,
       CleanupBegin, CleanupDeferred, Prepare, Block, Done, CleanupFails, List, Observe, Retire,
       InventoryFails, CreateBegin, UndeployBegin, DeployBegin, QueueBegin, ScanBegin, Pick,
       FinalBegin, ghosts
  <1>2. ASSUME Unlocked \/ (\E r \in Resources : TimePasses(r)) \/ UNCHANGED vars
        PROVE  abandoned \subseteq abandoned'
    BY <1>2 DEF Unlocked, Retry, Edit, DestroyCredentials, RestoreCredentials, Move, Heartbeat,
       TimePasses, vars, ghosts
  <1> QED BY <1>1, <1>2, StepKinds

\* Without a handler only the state of a job changes, among those that are open.
LEMMA NoneOwn ==
    ASSUME TypeInv, Unlocked \/ (\E r \in Resources : TimePasses(r)) \/ UNCHANGED vars
    PROVE  /\ UNCHANGED <<node, status, remote, mark, abandoned>>
           /\ \A r \in Resources : /\ task'[r].host = task[r].host
                                   /\ task'[r].expected = task[r].expected
                                   /\ \/ task'[r] = task[r]
                                      \/ Open(r) /\ Open(r)'
                                   /\ \/ task'[r].state = task[r].state
                                      \/ task[r].state \in {"PENDING", "BLOCKED"}
  <1> USE DEF TypeInv, TypeOK, JobTypes, Task
  <1>1. UNCHANGED <<node, status, remote, mark, abandoned>>
    BY DEF Unlocked, Retry, Edit, DestroyCredentials, RestoreCredentials, Move, Heartbeat,
       TimePasses, vars, rows, hosting, machines, ghosts
  <1>2. ASSUME NEW x \in Resources, Retry(x) \/ TimePasses(x), NEW r \in Resources
        PROVE  /\ task'[r].host = task[r].host
               /\ task'[r].expected = task[r].expected
               /\ \/ task'[r] = task[r]
                  \/ Open(r) /\ Open(r)'
               /\ \/ task'[r].state = task[r].state
                  \/ task[r].state \in {"PENDING", "BLOCKED"}
    <2>1. CASE r # x
      BY <1>2, <2>1 DEF Retry, TimePasses, TaskBecomes
    <2>2. CASE r = x
      <3>1. ASSUME NEW state, TaskBecomes(x, state, TRUE)
            PROVE  /\ task'[x].state = state /\ task'[x].host = task[x].host
                   /\ task'[x].expected = task[x].expected
        <4>1. task'[x] = [task[x] EXCEPT !.state = state, !.due = TRUE] /\ task[x] \in Task
          BY <3>1 DEF TaskBecomes
        <4> QED BY <4>1
      <3>2. CASE Retry(x)
        BY <2>2, <3>1, <3>2 DEF Retry, Open
      <3>3. CASE TimePasses(x)
        BY <2>2, <3>1, <3>3 DEF TimePasses, Open
      <3> QED BY <1>2, <3>2, <3>3
    <2> QED BY <2>1, <2>2
  <1>3. ASSUME ~\E x \in Resources : Retry(x) \/ TimePasses(x)
        PROVE  UNCHANGED task
    BY <1>3 DEF Unlocked, Edit, DestroyCredentials, RestoreCredentials, Move, Heartbeat,
       vars, jobs
  <1> QED BY <1>1, <1>2, <1>3

-----------------------------------------------------------------------------
(* A handler is not disturbed by the others *)

\* No two handlers work on a node, or on the end of a server and a new node of it.
LEMMA Exclusive ==
    ASSUME Agreeing, NEW v \in Workers, NEW w \in Workers, v # w
    PROVE  /\ pc[v] \in Operating /\ pc[w] \in Operating => tgt[v] # tgt[w]
           /\ pc[v] \in Operating /\ pc[w] \in CleanupPCs => tgt[v] # NodeOf(tgt[w])
           /\ pc[v] \in CleanupPCs /\ pc[w] \in Operating => tgt[w] # NodeOf(tgt[v])
           /\ pc[v] \in CleanupPCs /\ pc[w] \in CleanupPCs => NodeOf(tgt[v]) # NodeOf(tgt[w])
           /\ pc[v] = "create" /\ pc[w] \in FinalPCs => tgt[w] \notin Hosting(tgt[v])
           /\ pc[v] \in FinalPCs /\ pc[w] = "create" => tgt[v] \notin Hosting(tgt[w])
  <1>1. held[v] \cap held[w] = {} /\ Locked(v) /\ Locked(w)
    BY DEF Agreeing, LockInv, Apart
  <1> QED BY <1>1 DEF Locked

\* Where locks are free, nobody is at work.
LEMMA NobodyAt ==
    ASSUME Agreeing, NEW v \in Workers, NEW keys, Free(keys)
    PROVE  /\ pc[v] \in Operating => NodeLock(tgt[v]) \notin keys
           /\ pc[v] \in CleanupPCs => NodeLock(NodeOf(tgt[v])) \notin keys
           /\ pc[v] \in FinalPCs => Ports(tgt[v]) \notin keys
BY DEF Agreeing, LockInv, Locked, Free

\* A deletion locks every node it removes.
LEMMA DoomedLocked ==
    ASSUME NEW w \in Workers, QueueCommit(w), NEW n \in LiveOn(tgt[w])
    PROVE  /\ node[n] = "live"
           /\ NodeLock(n) \in GraphKeys(tgt[w], seen[w])
           /\ Free(GraphKeys(tgt[w], seen[w]))
BY DEF QueueCommit, LiveOn, GraphKeys

\* No server goes under a creation: its ports are locked.
LEMMA CreateUndisturbed ==
    ASSUME Agreeing, NEW w \in Workers, Acts(w), NEW v \in Workers, v # w, Still(v)
    PROVE  SoundCreate(v)'
  <1> SUFFICES ASSUME pc[v] = "create", NEW s \in Hosting(tgt[v])
               PROVE  status'[s] # "gone"
    BY DEF Still, SoundCreate
  <1>1. tgt[v] \in Nodes /\ s \in Servers /\ status[s] # "gone"
    <2>1. tgt[v] \in Nodes /\ SoundCreate(v)
      BY DEF Agreeing, Agreed, PinInv, TypeInv, Control, Sound
    <2> QED BY <2>1, NodeServices DEF SoundCreate
  <1>2. ~(Retire(w) /\ s = tgt[w])
    BY Exclusive DEF Retire, FinalPCs
  <1> QED BY <1>1, <1>2, StatusOwn DEF Agreeing, PinInv

\* A node that is deployed or removed stays as it is: its lock is held.
LEMMA OperationUndisturbed ==
    ASSUME Agreeing, [Next]_vars, NEW w \in Workers, Acts(w), NEW v \in Workers, v # w, Still(v)
    PROVE  SoundOperation(v)'
  <1> DEFINE n == tgt[v]
  <1>1. CASE pc[v] \in Operating
    <2>1. n \in Nodes /\ SoundOperation(v) /\ TypeInv /\ tgt'[v] = n /\ pc'[v] = pc[v]
      BY <1>1 DEF Agreeing, Agreed, PinInv, TypeInv, Control, Sound, Still
    <2>2. ~(QueueCommit(w) /\ n \in LiveOn(tgt[w]))
      BY <1>1, DoomedLocked, NobodyAt
    <2>3. pc[w] \in Operating => n # tgt[w]
      BY <1>1, Exclusive
    <2>4. node'[n] = "live" \/ ServicesOf(n) \subseteq abandoned'
      <3>1. CASE ServicesOf(n) \subseteq abandoned
        BY <3>1, AbandonedGrows
      <3>2. CASE node[n] = "live"
        <4>1. ~(Drop(w) /\ n = tgt[w])
          BY <2>3 DEF Drop, Operating, UndeployPCs
        <4> QED BY <2>1, <2>2, <3>2, <4>1, NodeOwn
      <3> QED BY <1>1, <2>1, <3>1, <3>2 DEF SoundOperation
    <2>5. ASSUME NEW r \in ServicesOf(n) PROVE task'[r].state = "none"
      <3>1. r \in Resources /\ NodeOf(r) = n /\ task[r].state = "none"
        <4>1. NodeOf(r) = n
          BY DEF ServicesOf, NodeOf
        <4> QED BY <1>1, <2>1, <4>1, NodeServices DEF SoundOperation
      <3>2. ~(pc[w] \in CleanupPCs /\ r = tgt[w])
        BY <1>1, <3>1, Exclusive
      <3>3. ~(CleanupBegin(w) /\ r = tgt[w])
        BY <3>1 DEF CleanupBegin, StillDue, Pollable
      <3> QED BY <2>1, <2>2, <3>1, <3>2, <3>3, TaskOwn
    <2>6. ASSUME NEW x \in Roles, <<n, x>> \in Resources, ssh[v][x] \in Hosts, Wiped(v, x)
          PROVE  Wiped(v, x)'
      <3>1. ~(pc[w] \in CleanupPCs /\ <<n, x>> = tgt[w])
        BY <1>1, Exclusive DEF NodeOf
      <3>2. remote'[ssh[v][x]][<<n, x>>] = remote[ssh[v][x]][<<n, x>>]
        BY <2>1, <2>3, <2>6, <3>1, RemoteOwn DEF NodeOf
      <3> QED BY <2>6, <3>2 DEF Wiped, Still
    <2>7. <<n, "ENTRY">> \in Resources /\ ssh[v]["ENTRY"] \in Hosts
          /\ (ExitOf[n] # NoServer => <<n, "EXIT">> \in Resources)
      BY <1>1, <2>1, NodeServices DEF TypeInv, Control
    <2> QED BY <1>1, <2>1, <2>4, <2>5, <2>6, <2>7 DEF SoundOperation, Still, Roles
  <1>2. CASE pc[v] \notin Operating
    BY <1>2 DEF Still, SoundOperation, Operating, UndeployPCs
  <1> QED BY <1>1, <1>2

\* A job and what is left of its service are the worker's own.
LEMMA CleanupUndisturbed ==
    ASSUME Agreeing, [Next]_vars, NEW w \in Workers, Acts(w), NEW v \in Workers, v # w, Still(v)
    PROVE  SoundCleanup(v)'
  <1> DEFINE r == tgt[v]
  <1>1. CASE pc[v] \in CleanupPCs
    <2>1. r \in Resources /\ SoundCleanup(v) /\ TypeInv /\ task[r].state = "RUNNING"
      BY <1>1 DEF Agreeing, Agreed, PinInv, TypeInv, Control, Sound, SoundCleanup
    <2>2. ~(pc[w] \in CleanupPCs /\ r = tgt[w]) /\ ~(pc[w] \in Operating /\ NodeOf(r) = tgt[w])
      BY <1>1, Exclusive
    <2>3. ~(CleanupBegin(w) /\ r = tgt[w])
      BY <1>1, NobodyAt DEF CleanupBegin, CleanupKeys
    <2>4. task'[r] = task[r]
      BY <2>1, <2>2, <2>3, TaskOwn
    <2>5. \A h \in Hosts : remote'[h][r] = remote[h][r]
      BY <2>1, <2>2, RemoteOwn
    <2>6. pc[v] # "prepare" => ssh[v][role[v]] \in Hosts
      BY <1>1, <2>1 DEF TypeInv, Control
    <2>7. pc[v] # "prepare" => mark'[ssh[v][role[v]]] = mark[ssh[v][role[v]]]
      BY <1>1, <2>1, <2>6, MarkStep DEF MarkKept, SoundCleanup
    <2> QED BY <1>1, <2>1, <2>4, <2>5, <2>6, <2>7 DEF SoundCleanup, Approved, Still
  <1>2. CASE pc[v] \notin CleanupPCs
    BY <1>2 DEF Still, SoundCleanup, CleanupPCs
  <1> QED BY <1>1, <1>2, SMTT(20)

\* No node and no job appears on a server that is about to go.
LEMMA FinalUndisturbed ==
    ASSUME Agreeing, NEW w \in Workers, Acts(w), NEW v \in Workers, v # w, Still(v)
    PROVE  SoundFinal(v)'
  <1> SUFFICES ASSUME pc[v] \in FinalPCs
               PROVE  /\ \A r \in Resources : ServerOf(r) = tgt[v] => ~Open(r)'
                      /\ \A n \in Nodes : tgt[v] \in Hosting(n) => node'[n] # "live"
    BY DEF Still, SoundFinal
  <1>1. /\ TypeInv /\ Sound(w)
        /\ \A r \in Resources : ServerOf(r) = tgt[v] => ~Open(r)
        /\ \A n \in Nodes : tgt[v] \in Hosting(n) => node[n] # "live"
    BY DEF Agreeing, Agreed, PinInv, Sound, SoundFinal
  <1>2. ASSUME NEW r \in Resources, ServerOf(r) = tgt[v] PROVE ~Open(r)'
    <2>1. ~Open(r) /\ node[NodeOf(r)] # "live"
      <3>1. NodeOf(r) \in Nodes /\ tgt[v] \in Hosting(NodeOf(r))
        BY <1>2, ResourceParts DEF Hosting
      <3> QED BY <1>1, <1>2, <3>1
    <2>2. ~(pc[w] \in CleanupPCs /\ r = tgt[w])
      BY <1>1, <2>1 DEF Sound, SoundCleanup, Open
    <2>3. ~(CleanupBegin(w) /\ r = tgt[w])
      BY <2>1 DEF CleanupBegin, StillDue, Pollable, Open
    <2>4. ~(QueueCommit(w) /\ NodeOf(r) \in LiveOn(tgt[w]))
      BY <2>1, DoomedLocked
    <2>5. task'[r] = task[r]
      BY <1>1, <2>2, <2>3, <2>4, TaskOwn
    <2> QED BY <2>1, <2>5 DEF Open
  <1>3. ASSUME NEW n \in Nodes, tgt[v] \in Hosting(n) PROVE node'[n] # "live"
    <2>1. ~(CreateInsert(w) /\ n = tgt[w])
      BY <1>3, Exclusive DEF CreateInsert
    <2> QED BY <1>1, <1>3, <2>1, NodeOwn
  <1> QED BY <1>2, <1>3

\* The steps of the others leave all of that alone.
LEMMA OthersSound ==
    ASSUME Agreeing, [Next]_vars, NEW w \in Workers, Acts(w), NEW v \in Workers, v # w
    PROVE  Sound(v)'
  <1>1. Still(v)
    BY OneMoves DEF Agreeing, PinInv
  <1> QED BY <1>1, CreateUndisturbed, OperationUndisturbed, CleanupUndisturbed, FinalUndisturbed
      DEF Sound

\* ... nor by what takes no handler.
LEMMA AllSound ==
    ASSUME Agreeing, Unlocked \/ (\E r \in Resources : TimePasses(r)) \/ UNCHANGED vars,
           NEW v \in Workers
    PROVE  Sound(v)'
  <1>1. Still(v) /\ TypeInv /\ Sound(v) /\ Control(v)
    BY NoneMoves DEF Agreeing, Agreed, PinInv, TypeInv
  <1>2. /\ UNCHANGED <<node, status, remote, mark, abandoned>>
        /\ \A r \in Resources : /\ task'[r].host = task[r].host
                                /\ task'[r].expected = task[r].expected
                                /\ Open(r)' => Open(r)
                                /\ task[r].state \in {"none", "RUNNING"} => task'[r].state = task[r].state
    BY <1>1, NoneOwn DEF Open
  <1>3. SoundCreate(v)'
    BY <1>1, <1>2 DEF Sound, SoundCreate, Still
  <1>4. SoundOperation(v)'
    <2>1. pc[v] \in Operating => \A r \in ServicesOf(tgt[v]) : r \in Resources
      BY <1>1, NodeServices DEF Control
    <2> QED BY <1>1, <1>2, <2>1 DEF Sound, SoundOperation, Wiped, Still
  <1>5. SoundCleanup(v)'
    <2>1. CASE pc[v] \in CleanupPCs
      <3>1. /\ task'[tgt[v]].host = task[tgt[v]].host
            /\ task'[tgt[v]].expected = task[tgt[v]].expected
            /\ task'[tgt[v]].state = "RUNNING"
        BY <1>1, <1>2, <2>1 DEF Sound, SoundCleanup, Control
      <3> QED BY <1>1, <1>2, <2>1, <3>1 DEF Sound, SoundCleanup, Approved, Still
    <2>2. CASE pc[v] \notin CleanupPCs
      BY <1>1, <2>2 DEF SoundCleanup, Still, CleanupPCs
    <2> QED BY <2>1, <2>2
  <1>6. SoundFinal(v)'
    BY <1>1, <1>2 DEF Sound, SoundFinal, Still
  <1> QED BY <1>3, <1>4, <1>5, <1>6 DEF Sound

-----------------------------------------------------------------------------
(* Its own steps establish what a handler relies on *)

\* A handler that stands at none of the places has nothing to establish.
LEMMA IdleSound ==
    ASSUME NEW w, pc'[w] \notin {"create"} \cup Operating \cup CleanupPCs \cup FinalPCs
    PROVE  Sound(w)'
BY DEF Sound, SoundCreate, SoundOperation, SoundCleanup, SoundFinal, Operating, UndeployPCs,
       CleanupPCs, FinalPCs

\* What a handler reads under its locks when it begins.
LEMMA BeginSound ==
    ASSUME Agreeing, NEW w \in Workers,
           \/ Request(w)
           \/ \E r \in Resources : Pick(w, r)
           \/ \E s \in Servers : FinalBegin(w, s)
    PROVE  Sound(w)'
  <1> USE DEF Operating, DeployPCs, PinPCs, UndeployPCs, CleanupPCs, FinalPCs
  <1>1. TypeInv /\ JobsAreForGone
    BY DEF Agreeing, PinInv, Agreed
  <1>2. w \in DOMAIN pc /\ w \in DOMAIN tgt /\ w \in DOMAIN role
    BY <1>1 DEF TypeInv, TypeOK, HandlerTypes
  <1>3. ASSUME NEW n \in Nodes, CreateBegin(w, n) PROVE Sound(w)'
    <2>1. pc'[w] = "create" /\ tgt'[w] = n /\ UNCHANGED status
      BY <1>2, <1>3 DEF CreateBegin, Begin, hosting
    <2>2. \A s \in Hosting(n) : status[s] = "ok"
      BY <1>3 DEF CreateBegin
    <2> QED BY <2>1, <2>2 DEF Sound, SoundCreate, SoundOperation, SoundCleanup, SoundFinal
  <1>4. ASSUME NEW n \in Nodes, UndeployBegin(w, n) \/ \E c \in Configs : DeployBegin(w, n, c)
        PROVE  Sound(w)'
    <2>1. /\ pc'[w] \in {"pin", "wipe"} /\ tgt'[w] = n /\ role'[w] = "ENTRY"
          /\ UNCHANGED <<node, task>> /\ node[n] = "live"
      BY <1>2, <1>4 DEF UndeployBegin, DeployBegin, Deployable, Begin, rows, jobs
    <2>2. ASSUME NEW r \in ServicesOf(n) PROVE task[r].state = "none"
      <3>1. NodeOf(r) = n
        BY DEF ServicesOf, NodeOf
      <3> QED BY <1>1, <2>1, <3>1, NodeServices DEF JobsAreForGone
    <2> QED BY <2>1, <2>2 DEF Sound, SoundCreate, SoundOperation, SoundCleanup, SoundFinal
  <1>5. ASSUME NEW s \in Servers, QueueBegin(w, s) \/ ScanBegin(w, s) PROVE Sound(w)'
    BY <1>2, <1>5, IdleSound DEF QueueBegin, ScanBegin, Begin
  <1>6. ASSUME NEW r \in Resources, Pick(w, r) PROVE Sound(w)'
    BY <1>2, <1>6, IdleSound DEF Pick, Begin
  <1>7. ASSUME NEW s \in Servers, FinalBegin(w, s) PROVE Sound(w)'
    <2>1. pc'[w] = "finalList" /\ tgt'[w] = s /\ UNCHANGED <<node, task>>
      BY <1>2, <1>7 DEF FinalBegin, Begin, rows, jobs
    <2>2. /\ \A r \in Resources : ServerOf(r) = s => ~Open(r)
          /\ \A n \in Nodes : s \in Hosting(n) => node[n] # "live"
      BY <1>7 DEF FinalBegin, Outstanding, LiveOn
    <2> QED BY <2>1, <2>2
        DEF Sound, SoundCreate, SoundOperation, SoundCleanup, SoundFinal, Open
  <1> QED BY <1>3, <1>4, <1>5, <1>6, <1>7 DEF Request

\* A deployment changes no row and no job until it ends.
LEMMA DeploySound ==
    ASSUME Agreeing, NEW w \in Workers,
           \/ Pin(w) \/ Propose(w) \/ Record(w) \/ Confirm(w)
           \/ Install(w) \/ Register(w) \/ Rollback(w) \/ RollbackFails(w)
    PROVE  Sound(w)'
  <1>1. /\ pc[w] \in DeployPCs /\ pc'[w] \in DeployPCs /\ tgt'[w] = tgt[w]
        /\ UNCHANGED <<node, task, abandoned>>
    BY DEF Agreeing, PinInv, TypeInv, TypeOK, HandlerTypes, Pin, Propose, Record, Confirm, Asserted,
       Install, Register, Rollback, RollbackFails, Goto, DeployPCs, PinPCs, rows, jobs, ghosts
  <1>2. SoundOperation(w)
    BY DEF Agreeing, Agreed, Sound
  <1> QED BY <1>1, <1>2 DEF Sound, SoundCreate, SoundOperation, SoundCleanup, SoundFinal,
      Operating, DeployPCs, PinPCs, UndeployPCs, CleanupPCs, FinalPCs

\* A removal has wiped the entry before it turns to the exit, and both in the end.
LEMMA WipeSound ==
    ASSUME Agreeing, NEW w \in Workers, Wipe(w)
    PROVE  Sound(w)'
  <1> DEFINE n == tgt[w]
  <1>1. /\ TypeInv /\ SoundOperation(w) /\ pc[w] = "wipe"
        /\ UNCHANGED <<node, task, abandoned>>
    BY DEF Agreeing, Agreed, PinInv, Sound, Wipe, rows, jobs, ghosts
  <1>2. /\ n \in Nodes /\ Target(w) \in Resources /\ Peer(w) \in Hosts
        /\ ssh[w]["ENTRY"] \in Hosts /\ role[w] \in {"ENTRY", "EXIT"}
        /\ role[w] = "EXIT" => ExitOf[n] # NoServer
    BY <1>1, TargetTyped DEF Operating, UndeployPCs, TypeInv, Control, TypeOK, HandlerTypes, Roles
  <1>3. /\ ~remote'[Peer(w)][Target(w)].unit
        /\ \A h \in Hosts, r \in Resources : r # Target(w) => remote'[h][r] = remote[h][r]
    BY <1>1, <1>2 DEF Wipe, Put, Stopped, TypeInv, TypeOK, MachineTypes
  <1>4. /\ pc'[w] \in UndeployPCs /\ tgt'[w] = n /\ ssh'[w]["ENTRY"] = ssh[w]["ENTRY"]
        /\ pc'[w] = "wipe" => role[w] = "ENTRY" /\ role'[w] = "EXIT"
        /\ pc'[w] = "drop" => ssh' = ssh /\ role' = role /\ (role[w] = "EXIT" \/ ExitOf[n] = NoServer)
    BY <1>1, <1>2 DEF Wipe, Goto, UndeployPCs, TypeInv, TypeOK, HandlerTypes, Roles
  <1>5. ~remote'[ssh[w]["ENTRY"]][<<n, "ENTRY">>].unit
    <2>1. CASE role[w] = "ENTRY"
      BY <1>3, <2>1 DEF Target, Peer
    <2>2. CASE role[w] = "EXIT"
      BY <1>1, <1>2, <1>3, <2>2, NodeServices DEF SoundOperation, Wiped, Target
    <2> QED BY <1>2, <2>1, <2>2
  <1>6. pc'[w] = "drop" /\ ExitOf[n] # NoServer =>
           ssh[w]["EXIT"] \in Hosts /\ ~remote'[ssh[w]["EXIT"]][<<n, "EXIT">>].unit
    BY <1>2, <1>3, <1>4 DEF Target, Peer
  <1> QED BY <1>1, <1>4, <1>5, <1>6 DEF Sound, SoundCreate, SoundOperation, SoundCleanup, SoundFinal,
      Wiped, Operating, DeployPCs, PinPCs, UndeployPCs, CleanupPCs, FinalPCs

\* A cleanup records the machine it works on and removes step by step.
LEMMA CleanupSound ==
    ASSUME Agreeing, NEW w \in Workers,
           CleanupBegin(w) \/ Prepare(w) \/ Remove(w) \/ Unlist(w)
    PROVE  Sound(w)'
  <1> DEFINE r == tgt[w]
  <1>1. /\ TypeInv /\ SoundCleanup(w) /\ r \in Resources /\ tgt'[w] = r
        /\ pc'[w] \in CleanupPCs /\ role'[w] = role[w] /\ role[w] \in Roles
    BY ResourceParts DEF Agreeing, Agreed, PinInv, Sound, TypeInv, TypeOK, HandlerTypes, Control,
       CleanupBegin, Prepare, Remove, Unlist, Goto, locals, CleanupPCs
  <1>2. SoundCleanup(w)'
    <2>1. CASE CleanupBegin(w)
      <3>1. task'[r] = [task[r] EXCEPT !.state = "RUNNING", !.due = FALSE] /\ task[r] \in Task
        BY <1>1, <2>1 DEF CleanupBegin, TaskBecomes, TypeInv, TypeOK, JobTypes
      <3>2. task'[r].state = "RUNNING" /\ pc'[w] = "prepare"
        BY <2>1, <3>1 DEF CleanupBegin, TypeInv, TypeOK, HandlerTypes, Agreeing, PinInv
      <3> QED BY <1>1, <3>2 DEF SoundCleanup
    <2>2. CASE Prepare(w)
      <3>1. task'[r] = [task[r] EXCEPT !.host = mark[addr[ServerOf(r)]]] /\ task[r] \in Task
        BY <1>1, <2>2 DEF Prepare, TypeInv, TypeOK, JobTypes
      <3>2. task'[r].state = task[r].state /\ task'[r].host = mark[addr[ServerOf(r)]]
        BY <3>1 DEF Task
      <3>3. pc[w] = "prepare" /\ pc'[w] = "remove" /\ ssh'[w][role[w]] = addr[ServerOf(r)]
        BY <1>1, <2>2 DEF Prepare, Goto, TypeInv, TypeOK, HandlerTypes
      <3>4. Approved(w)'
        <4> DEFINE found == remote[addr[ServerOf(r)]][r]
        <4>1. found.config \in {NoConfig, found.manifest, task[r].expected}
          BY <2>2 DEF Prepare, Authorised, Attributable
        <4>2. task'[r].expected = task[r].expected
          BY <3>1 DEF Task
        <4>3. UNCHANGED remote
          BY <2>2 DEF Prepare, machines
        <4> QED BY <1>1, <3>3, <4>1, <4>2, <4>3, SMTT(20) DEF Approved
      <3>5. mark[addr[ServerOf(r)]] # NoId /\ UNCHANGED mark
        BY <2>2 DEF Prepare, Authorised, machines
      <3> QED BY <1>1, <3>2, <3>3, <3>4, <3>5 DEF SoundCleanup, CleanupPCs
    <2>3. CASE Remove(w) \/ Unlist(w)
      <3>1. Peer(w) \in Hosts /\ UNCHANGED task /\ ssh'[w] = ssh[w]
        BY <1>1, <2>3 DEF Remove, Unlist, Peer, TypeInv, Control, CleanupPCs, locals, jobs
      <3>2. CASE Remove(w)
        BY <1>1, <3>1, <3>2, SMTT(20) DEF Remove, Goto, Put, Stopped, Peer, SoundCleanup, CleanupPCs,
           TypeInv, TypeOK, HandlerTypes, MachineTypes
      <3>3. CASE Unlist(w)
        BY <1>1, <3>1, <3>3 DEF Unlist, Goto, Put, Peer, SoundCleanup, CleanupPCs,
           TypeInv, TypeOK, HandlerTypes, MachineTypes
      <3> QED BY <2>3, <3>2, <3>3
    <2> QED BY <2>1, <2>2, <2>3
  <1> QED BY <1>1, <1>2 DEF Sound, SoundCreate, SoundOperation, SoundFinal,
      Operating, DeployPCs, PinPCs, UndeployPCs, CleanupPCs, FinalPCs

\* A final inventory reads only.
LEMMA InventorySound ==
    ASSUME Agreeing, NEW w \in Workers, List(w) \/ Observe(w)
    PROVE  Sound(w)'
  <1>1. /\ SoundFinal(w) /\ UNCHANGED <<node, task>>
        /\ \/ pc'[w] \in {"idle", "scanObserve"}
           \/ pc[w] \in FinalPCs /\ pc'[w] \in FinalPCs /\ tgt'[w] = tgt[w]
    BY DEF Agreeing, Agreed, PinInv, Sound, TypeInv, TypeOK, HandlerTypes,
       List, Observe, Goto, End, FinalPCs, rows, jobs
  <1>2. CASE pc'[w] \in {"idle", "scanObserve"}
    BY <1>2, IdleSound DEF Operating, DeployPCs, PinPCs, UndeployPCs, CleanupPCs, FinalPCs
  <1>3. CASE pc[w] \in FinalPCs /\ pc'[w] \in FinalPCs /\ tgt'[w] = tgt[w]
    BY <1>1, <1>3 DEF Sound, SoundCreate, SoundOperation, SoundCleanup, SoundFinal, Open,
       Operating, DeployPCs, PinPCs, UndeployPCs, CleanupPCs, FinalPCs
  <1> QED BY <1>1, <1>2, <1>3

\* Every handler's own steps establish what it relies on.
LEMMA OwnSound ==
    ASSUME Agreeing, NEW w \in Workers, Acts(w), ~LoseSession(w)
    PROVE  Sound(w)'
  <1>1. CASE \/ CreateRefused(w) \/ Provisioned(w) \/ Compensate(w) \/ UndeployFails(w) \/ Drop(w)
             \/ QueueCommit(w) \/ QueueRefused(w) \/ Finalize(w) \/ Settle(w) \/ Crash(w)
             \/ CleanupDeferred(w) \/ Block(w) \/ Done(w) \/ CleanupFails(w)
             \/ Retire(w) \/ InventoryFails(w)
    <2>1. pc'[w] = "idle"
      BY <1>1 DEF CreateRefused, Provisioned, Compensate, UndeployFails, Drop,
         QueueCommit, QueueRefused, Finalize, Settle, Crash, CleanupDeferred, Block, Done,
         CleanupFails, Retire, InventoryFails, End, Agreeing, PinInv, TypeInv, TypeOK, HandlerTypes
    <2> QED BY <2>1, IdleSound DEF Operating, DeployPCs, PinPCs, UndeployPCs, CleanupPCs, FinalPCs
  <1>2. CASE CreateInsert(w)
    <2>1. pc'[w] = "provision"
      BY <1>2 DEF CreateInsert, Agreeing, PinInv, TypeInv, TypeOK, HandlerTypes
    <2> QED BY <2>1, IdleSound DEF Operating, DeployPCs, PinPCs, UndeployPCs, CleanupPCs, FinalPCs
  <1> QED BY <1>1, <1>2, BeginSound, DeploySound, WipeSound, CleanupSound, InventorySound
      DEF Acts, Proceed, Disturb

-----------------------------------------------------------------------------
(* Jobs, nodes and servers *)

\* What the worker of a job does with it.
LEMMA WorkerMoves ==
    ASSUME Agreeing, NEW w \in Workers, Acts(w), pc[w] \in CleanupPCs \/ CleanupBegin(w),
           NEW r, r = tgt[w]
    PROVE  /\ Open(r)
           /\ task'[r].state # "none"
           /\ task'[r].host # task[r].host => Prepare(w)
           /\ ~Open(r)' => Done(w)
  <1>1. /\ TypeInv /\ r \in Resources /\ task[r] \in Task
        /\ pc[w] \in {"picked"} \cup CleanupPCs
    BY DEF Agreeing, PinInv, TypeInv, TypeOK, JobTypes, Control, CleanupBegin
  <1>2. Open(r)
    BY DEF Agreeing, Agreed, Sound, SoundCleanup, CleanupBegin, StillDue, Pollable, Open
  <1>3. ASSUME NEW state, NEW due, TaskBecomes(r, state, due)
        PROVE  task'[r].state = state /\ task'[r].host = task[r].host
    <2>1. task'[r] = [task[r] EXCEPT !.state = state, !.due = due]
      BY <1>1, <1>3 DEF TaskBecomes, TypeInv, TypeOK, JobTypes
    <2> QED BY <1>1, <2>1 DEF Task
  <1>4. CASE CleanupBegin(w) \/ Block(w) \/ CleanupFails(w)
    <2>1. task'[r].state \in {"RUNNING", "BLOCKED", "PENDING"} /\ task'[r].host = task[r].host
      BY <1>3, <1>4 DEF CleanupBegin, Block, CleanupFails
    <2> QED BY <1>1, <1>2, <2>1 DEF Open
  <1>5. CASE Done(w)
    <2>1. task'[r].state = "DONE" /\ task'[r].host = task[r].host
      BY <1>3, <1>5 DEF Done
    <2> QED BY <1>1, <1>2, <1>5, <2>1
  <1>6. CASE Prepare(w)
    <2>1. task'[r] = [task[r] EXCEPT !.host = mark[addr[ServerOf(r)]]]
      BY <1>1, <1>6 DEF Prepare, TypeInv, TypeOK, JobTypes
    <2>2. task'[r].state = task[r].state
      BY <1>1, <2>1, SMTT(20) DEF Task
    <2> QED BY <1>1, <1>2, <1>6, <2>2 DEF Open
  <1>7. ASSUME ~CleanupBegin(w), ~Prepare(w), ~Block(w), ~Done(w), ~CleanupFails(w)
        PROVE  UNCHANGED task
    BY <1>1, <1>7 DEF Acts, Proceed, Disturb, Request, CreateInsert, CreateRefused, Provisioned, Compensate,
       UndeployFails, Drop, QueueCommit, QueueRefused, Finalize, Settle, Crash, LoseSession, Pin, Propose,
       Record, Confirm, Asserted, Install,
       Register, Rollback, RollbackFails, Wipe, Remove, Unlist,
       CleanupDeferred, List, Observe, Retire,
       InventoryFails, CreateBegin, UndeployBegin, DeployBegin, QueueBegin, ScanBegin, Pick, Begin,
       FinalBegin, jobs, CleanupPCs
  <1>8. CASE UNCHANGED task
    <2>1. Open(r)'
      BY <1>2, <1>8 DEF Open
    <2>2. task[r].state # "none"
      BY <1>2 DEF Open
    <2> QED BY <1>1, <1>2, <1>8, <2>1, <2>2
  <1> QED BY <1>4, <1>5, <1>6, <1>7, <1>8

\* A job a deletion creates.
LEMMA QueuedJob ==
    ASSUME TypeInv, NEW w \in Workers, QueueCommit(w),
           NEW r \in Resources, NodeOf(r) \in LiveOn(tgt[w]), task[r].state = "none"
    PROVE  task'[r].state = "PENDING" /\ task'[r].host = hostId[ServerOf(r)]
BY ResourceParts DEF QueueCommit, Targets

\* A job begins in the transaction that deletes the row of its node.
LEMMA JobsStep ==
    ASSUME Agreeing, NEW w \in Workers, Acts(w)
    PROVE  JobsAreForGone'
  <1> SUFFICES ASSUME NEW r \in Resources
               PROVE  /\ task'[r].state = "none" => task'[r].host = NoId
                      /\ task'[r].state # "none" => node'[NodeOf(r)] = "gone"
    BY DEF JobsAreForGone
  <1>1. /\ TypeInv /\ NodeOf(r) \in Nodes
        /\ task[r].state = "none" => task[r].host = NoId
        /\ task[r].state # "none" => node[NodeOf(r)] = "gone"
    BY ResourceParts DEF Agreeing, Agreed, PinInv, JobsAreForGone
  <1>2. node[NodeOf(r)] = "gone" => node'[NodeOf(r)] = "gone"
    BY <1>1, NodeOwn
  <1>3. CASE task'[r] = task[r]
    BY <1>1, <1>2, <1>3
  <1>4. CASE (pc[w] \in CleanupPCs \/ CleanupBegin(w)) /\ r = tgt[w]
    BY <1>1, <1>2, <1>4, WorkerMoves DEF Open
  <1>5. CASE QueueCommit(w) /\ NodeOf(r) \in LiveOn(tgt[w]) /\ task[r].state = "none"
    <2>1. node'[NodeOf(r)] = "gone"
      BY <1>1, <1>5 DEF QueueCommit
    <2> QED BY <1>1, <1>5, <2>1, QueuedJob
  <1> QED BY <1>1, <1>3, <1>4, <1>5, TaskOwn

\* A server that goes has no live node and no open job.
LEMMA RetireAlone ==
    ASSUME Agreeing, NEW w \in Workers, Retire(w)
    PROVE  /\ \A r \in Resources : ServerOf(r) = tgt[w] => ~Open(r)
           /\ \A n \in Nodes : tgt[w] \in Hosting(n) => node[n] # "live"
BY DEF Agreeing, Agreed, Sound, SoundFinal, Retire, FinalPCs

\* The servers of live nodes and of open jobs stay.
LEMMA HostedStep ==
    ASSUME Agreeing, NEW w \in Workers, Acts(w)
    PROVE  LiveHosted' /\ JobsHosted'
  <1>1. TypeInv /\ LiveHosted /\ JobsHosted /\ Sound(w)
    BY DEF Agreeing, Agreed, PinInv
  <1>2. ASSUME NEW n \in Nodes, node'[n] = "live", NEW s \in Hosting(n) PROVE status'[s] # "gone"
    <2>1. s \in Servers
      BY NodeServices
    <2>2. CASE CreateInsert(w) /\ n = tgt[w]
      <3>1. status[s] # "gone" /\ ~Retire(w)
        BY <1>1, <1>2, <2>2 DEF CreateInsert, Retire, Sound, SoundCreate
      <3> QED BY <1>1, <2>1, <3>1, StatusOwn
    <2>3. CASE node[n] = "live"
      <3>1. status[s] # "gone" /\ ~(Retire(w) /\ s = tgt[w])
        BY <1>1, <1>2, <2>3, RetireAlone DEF LiveHosted
      <3> QED BY <1>1, <2>1, <3>1, StatusOwn
    <2> QED BY <1>1, <1>2, <2>2, <2>3, NodeOwn
  <1>3. ASSUME NEW r \in Resources, Open(r)' PROVE status'[ServerOf(r)] # "gone"
    <2>1. ServerOf(r) \in Servers /\ NodeOf(r) \in Nodes /\ ServerOf(r) \in Hosting(NodeOf(r))
      BY ResourceParts DEF Hosting
    <2>2. CASE Open(r)
      <3>1. status[ServerOf(r)] # "gone" /\ ~(Retire(w) /\ ServerOf(r) = tgt[w])
        BY <1>1, <2>2, RetireAlone DEF JobsHosted
      <3> QED BY <1>1, <2>1, <3>1, StatusOwn
    <2>3. CASE QueueCommit(w) /\ NodeOf(r) \in LiveOn(tgt[w])
      <3>1. status[ServerOf(r)] # "gone" /\ ~Retire(w)
        BY <1>1, <2>1, <2>3, DoomedLocked DEF LiveHosted, QueueCommit, Retire
      <3> QED BY <1>1, <2>1, <3>1, StatusOwn
    <2> QED BY <1>1, <1>3, <2>2, <2>3, TaskOwn, WorkerMoves DEF Open
  <1> QED BY <1>2, <1>3 DEF LiveHosted, JobsHosted

-----------------------------------------------------------------------------
(* Jobs and machines *)

\* Where a deployment or a removal of a node works, no job ever was.
LEMMA NoJobThere ==
    ASSUME Agreeing, NEW w \in Workers, pc[w] \in Operating,
           NEW r \in Resources, NodeOf(r) = tgt[w]
    PROVE  task[r].state = "none" /\ task[r].host = NoId
  <1>1. r \in ServicesOf(tgt[w])
    BY ResourceParts
  <1> QED BY <1>1 DEF Agreeing, Agreed, Sound, SoundOperation, JobsAreForGone

\* A cleanup, and everything else outside deployments, only takes things away.
LEMMA CleanupTakes ==
    ASSUME Agreeing, NEW w \in Workers, Acts(w), pc[w] \in CleanupPCs,
           NEW h \in Hosts, remote[h][tgt[w]] = Nothing
    PROVE  remote'[h][tgt[w]] = Nothing
  <1>1. TypeInv /\ tgt[w] \in Resources
    BY DEF Agreeing, PinInv, TypeInv, Control
  <1>2. CASE Remove(w) \/ Unlist(w)
    <2>1. Peer(w) \in Hosts
      BY <1>1, <1>2 DEF Remove, Unlist, Peer, TypeInv, Control, CleanupPCs
    <2>2. remote'[h][tgt[w]] \in {remote[h][tgt[w]], Stopped(h, tgt[w]), Unlisted(h, tgt[w])}
      BY <1>1, <1>2, <2>1 DEF Remove, Unlist, Unlisted, Put, TypeInv, TypeOK, MachineTypes
    <2> QED BY <2>2, EmptyStopped
  <1>3. CASE ~Remove(w) /\ ~Unlist(w)
    <2>1. ~Install(w) /\ ~Register(w) /\ ~Rollback(w) /\ ~RollbackFails(w) /\ ~Wipe(w)
      BY DEF Install, Register, Rollback, RollbackFails, Wipe, CleanupPCs, PinPCs
    <2>2. UNCHANGED remote
      BY <1>3, <2>1 DEF Acts, Proceed, Disturb, Request, CreateInsert, CreateRefused, Provisioned,
       Compensate, UndeployFails, Drop, QueueCommit, QueueRefused, Finalize, Settle, Crash, LoseSession,
       Pin, Propose, Record, Confirm,
       CleanupBegin, CleanupDeferred, Prepare, Block, Done, CleanupFails, List, Observe, Retire,
       InventoryFails, CreateBegin, UndeployBegin, DeployBegin, QueueBegin, ScanBegin, Pick,
       FinalBegin, machines
    <2> QED BY <2>2, SMTT(20)
  <1> QED BY <1>2, <1>3

\* The machine a job records is the only one that holds its service.
LEMMA JobsPinnedStep ==
    ASSUME Agreeing, [Next]_vars, NEW w \in Workers, Acts(w)
    PROVE  JobsPinned'
  <1> SUFFICES ASSUME NEW h \in Hosts, NEW r \in Resources,
                      task'[r].host # NoId, remote'[h][r] # Nothing
               PROVE  mark'[h] = task'[r].host
    BY DEF JobsPinned
  <1>1. /\ TypeInv /\ JobsPinned /\ PinnedArtifacts /\ JobsAreForGone /\ ServerOf(r) \in Servers
    BY ResourceParts DEF Agreeing, Agreed, PinInv
  <1>2. CASE pc[w] \in Operating /\ NodeOf(r) = tgt[w]
    <2>1. ~(pc[w] \in CleanupPCs) /\ ~CleanupBegin(w) /\ ~QueueCommit(w)
      BY <1>2 DEF Operating, DeployPCs, PinPCs, UndeployPCs, CleanupPCs, CleanupBegin, QueueCommit
    <2>2. task'[r] = task[r]
      BY <1>1, <2>1, TaskOwn
    <2> QED BY <1>2, <2>2, NoJobThere
  <1>3. CASE ~(pc[w] \in Operating /\ NodeOf(r) = tgt[w])
    <2>1. remote[h][r] # Nothing
      BY <1>1, <1>3, RemoteOwn, CleanupTakes
    <2>2. hostId[ServerOf(r)] = mark[h] /\ mark[h] # NoId /\ mark'[h] = mark[h]
      BY <1>1, <2>1, MarkStep DEF PinnedArtifacts, MarkKept
    <2>3. CASE task'[r].host = task[r].host
      BY <1>1, <2>1, <2>2, <2>3 DEF JobsPinned
    <2>4. CASE QueueCommit(w) /\ NodeOf(r) \in LiveOn(tgt[w]) /\ task[r].state = "none"
      BY <1>1, <2>2, <2>4, QueuedJob
    <2>5. CASE Prepare(w) /\ r = tgt[w]
      <3>1. task'[r].host = mark[addr[ServerOf(r)]]
        <4>1. task'[r] = [task[r] EXCEPT !.host = mark[addr[ServerOf(r)]]] /\ task[r] \in Task
          BY <1>1, <2>5 DEF Prepare, TypeInv, TypeOK, JobTypes
        <4> QED BY <4>1 DEF Task
      <3>2. SameHost(Recorded(r), mark[addr[ServerOf(r)]])
        BY <2>5 DEF Prepare, Authorised
      <3>3. Recorded(r) = mark[h]
        BY <1>1, <2>1, <2>2 DEF Recorded, JobsPinned
      <3> QED BY <2>2, <3>1, <3>2, <3>3 DEF SameHost
    <2> QED BY <1>1, <2>3, <2>4, <2>5, TaskOwn, WorkerMoves
  <1> QED BY <1>2, <1>3

\* When a job is done, nothing of its service is left, here or elsewhere.
LEMMA DoneClears ==
    ASSUME Agreeing, NEW w \in Workers, Done(w), NEW h \in Hosts
    PROVE  remote[h][tgt[w]] = Nothing
  <1> DEFINE r == tgt[w]
             p == ssh[w][role[w]]
  <1>1. /\ TypeInv /\ r \in Resources /\ p \in Hosts /\ JobsPinned /\ MarksApart
        /\ task[r].host # NoId /\ task[r].host = mark[p]
        /\ remote[p][r].config = NoConfig /\ ~remote[p][r].unit /\ remote[p][r].manifest = NoConfig
    BY DEF Agreeing, Agreed, PinInv, TypeInv, Control, Sound, SoundCleanup, Done, CleanupPCs,
       PinnedArtifacts
  <1>2. remote[p][r] = Nothing
    <2>1. remote[p][r] \in Artifact
      BY <1>1 DEF TypeInv, TypeOK, MachineTypes
    <2>2. remote[p][r].unit = FALSE
      BY <1>1, <2>1 DEF Artifact
    <2> HIDE DEF p, r
    <2> QED BY <1>1, <2>1, <2>2 DEF Nothing, Artifact
  <1>3. remote[h][r] # Nothing => mark[h] = mark[p] /\ mark[p] # NoId
    BY <1>1 DEF JobsPinned
  <1> QED BY <1>1, <1>2, <1>3 DEF MarksApart

\* What a finished job has cleared stays clear.
LEMMA CleanDoneStep ==
    ASSUME Agreeing, NEW w \in Workers, Acts(w)
    PROVE  CleanDone'
  <1> SUFFICES ASSUME NEW h \in Hosts, NEW r \in Resources, task'[r].state = "DONE"
               PROVE  remote'[h][r] = Nothing
    BY DEF CleanDone
  <1>1. TypeInv /\ CleanDone
    BY DEF Agreeing, Agreed, PinInv
  <1>2. CASE task[r].state = "DONE"
    <2>1. remote[h][r] = Nothing
      BY <1>1, <1>2 DEF CleanDone
    <2>2. ~(pc[w] \in Operating /\ NodeOf(r) = tgt[w])
      BY <1>2, NoJobThere
    <2> QED BY <1>1, <2>1, <2>2, RemoteOwn, CleanupTakes
  <1>3. CASE Done(w) /\ r = tgt[w]
    BY <1>3, DoneClears DEF Done, machines
  <1>4. ~(QueueCommit(w) /\ NodeOf(r) \in LiveOn(tgt[w]) /\ task[r].state = "none")
    BY <1>1, QueuedJob
  <1>5. CASE (pc[w] \in CleanupPCs \/ CleanupBegin(w)) /\ r = tgt[w]
    <2>1. ~Open(r)'
      BY DEF Open
    <2> QED BY <1>3, <1>5, <2>1, WorkerMoves
  <1> QED BY <1>1, <1>2, <1>4, <1>5, TaskOwn

-----------------------------------------------------------------------------
(* Every service has an owner *)

\* The row of a node goes only with its services, or into their jobs.
LEMMA DropClears ==
    ASSUME Agreeing, NEW w \in Workers, Drop(w),
           NEW h \in Hosts, NEW r \in Resources, NodeOf(r) = tgt[w], remote[h][r].unit
    PROVE  r \in abandoned'
  <1> DEFINE p == ssh[w][RoleOf(r)]
  <1>1. /\ PinnedArtifacts /\ SoundOperation(w) /\ pc[w] = "drop"
        /\ r \in ServicesOf(tgt[w]) /\ r = <<tgt[w], RoleOf(r)>> /\ RoleOf(r) \in {"ENTRY", "EXIT"}
        /\ RoleOf(r) = "EXIT" => ExitOf[tgt[w]] # NoServer
        /\ p \in Hosts
    BY ResourceParts DEF Agreeing, Agreed, PinInv, TypeInv, Control, Operating, UndeployPCs, Sound,
       SoundOperation, Drop, Roles
  <1>2. ~remote[p][r].unit
    BY <1>1 DEF SoundOperation, Wiped
  <1>3. hostId[ServerOf(r)] = mark[h] /\ mark[h] # NoId /\ MarksApart
    BY <1>1 DEF PinnedArtifacts, Nothing
  <1>4. ~SameHost(hostId[ServerOf(r)], mark[p])
    BY <1>1, <1>2, <1>3 DEF SameHost, MarksApart
  <1> QED BY <1>1, <1>4 DEF Drop

\* A service keeps an owner.
LEMMA OwnedStep ==
    ASSUME Agreeing, [Next]_vars, NEW w \in Workers, Acts(w)
    PROVE  Owned'
  <1> SUFFICES ASSUME NEW h \in Hosts, NEW r \in Resources, remote'[h][r].unit
               PROVE  r \in abandoned' \/ node'[NodeOf(r)] = "live" \/ Open(r)'
    BY DEF Owned
  <1>1. /\ TypeInv /\ Owned /\ JobsAreForGone /\ NodeOf(r) \in Nodes /\ r \in ServicesOf(NodeOf(r))
        /\ abandoned \subseteq abandoned'
    BY ResourceParts, AbandonedGrows DEF Agreeing, Agreed, PinInv
  <1>2. CASE r \in abandoned
    BY <1>1, <1>2
  <1>3. CASE Open(r)
    <2>1. CASE Done(w) /\ r = tgt[w]
      <3>1. remote'[h][r] = Nothing
        BY <2>1, DoneClears DEF Done, machines
      <3> QED BY <3>1 DEF Nothing
    <2>2. CASE ~(Done(w) /\ r = tgt[w])
      <3>1. CASE task'[r] = task[r]
        BY <1>3, <3>1 DEF Open
      <3>2. CASE (pc[w] \in CleanupPCs \/ CleanupBegin(w)) /\ r = tgt[w]
        BY <2>2, <3>2, WorkerMoves
      <3>3. task[r].state # "none"
        BY <1>3 DEF Open
      <3> QED BY <1>1, <3>1, <3>2, <3>3, TaskOwn
    <2> QED BY <2>1, <2>2
  <1>4. CASE node[NodeOf(r)] = "live"
    <2>1. CASE Drop(w) /\ NodeOf(r) = tgt[w]
      <3>1. remote[h][r].unit
        BY <2>1 DEF Drop, machines
      <3> QED BY <2>1, <3>1, DropClears
    <2>2. CASE QueueCommit(w) /\ NodeOf(r) \in LiveOn(tgt[w])
      <3>1. task[r].state = "none"
        BY <1>1, <1>4 DEF JobsAreForGone
      <3> QED BY <1>1, <2>2, <3>1, QueuedJob DEF Open
    <2> QED BY <1>1, <1>4, <2>1, <2>2, NodeOwn
  <1>5. CASE pc[w] \in Operating /\ NodeOf(r) = tgt[w]
    <2>1. node[NodeOf(r)] = "live" \/ r \in abandoned
      BY <1>1, <1>5 DEF Agreeing, Agreed, Sound, SoundOperation
    <2> QED BY <1>2, <1>4, <2>1
  <1>6. CASE pc[w] \in CleanupPCs /\ r = tgt[w]
    BY <1>3, <1>6, WorkerMoves
  <1>7. CASE remote'[h][r] = remote[h][r]
    BY <1>1, <1>2, <1>3, <1>4, <1>7 DEF Owned
  <1> QED BY <1>1, <1>5, <1>6, <1>7, RemoteOwn

-----------------------------------------------------------------------------
(* The invariant *)

\* The invariant is inductive.
LEMMA OwnStep == OwnInv /\ [Next]_vars => OwnInv'
  <1> SUFFICES ASSUME OwnInv, [Next]_vars, Fenced'
               PROVE  Agreed'
    BY PinStep, LockStep DEF OwnInv
  <1>1. Agreeing /\ \A w \in Workers : ~LoseSession(w)
    BY FenceStep DEF OwnInv, Agreeing, PinInv
  <1>2. ASSUME NEW w \in Workers, Acts(w) PROVE Agreed'
    <2>1. \A v \in Workers : Sound(v)'
      BY <1>1, <1>2, OthersSound, OwnSound
    <2> QED BY <1>1, <1>2, <2>1, JobsStep, HostedStep, JobsPinnedStep, CleanDoneStep, OwnedStep
        DEF Agreed
  <1>3. ASSUME Unlocked \/ (\E r \in Resources : TimePasses(r)) \/ UNCHANGED vars
        PROVE  Agreed'
    <2>1. Agreed /\ TypeInv
      BY <1>1 DEF Agreeing, PinInv
    <2>2. /\ UNCHANGED <<node, status, remote, mark, abandoned>>
          /\ \A r \in Resources : /\ task'[r].host = task[r].host
                                  /\ Open(r)' <=> Open(r)
                                  /\ task'[r].state = task[r].state
                                     \/ (task[r].state # "none" /\ task'[r].state \notin {"none", "DONE"})
      BY <1>3, <2>1, NoneOwn DEF Open
    <2>3. JobsAreForGone' /\ CleanDone'
      BY <2>1, <2>2 DEF Agreed, JobsAreForGone, CleanDone
    <2>4. LiveHosted' /\ JobsHosted' /\ JobsPinned' /\ Owned'
      BY <2>1, <2>2 DEF Agreed, LiveHosted, JobsHosted, JobsPinned, Owned
    <2> QED BY <1>1, <1>3, <2>3, <2>4, AllSound DEF Agreed
  <1> QED BY <1>2, <1>3, StepKinds

\* A service left on a machine always has an owner in the database, a live node
\* or an unfinished cleanup job, whichever handlers interleave, fail half way or
\* die: the rows go only after the services, in one transaction with their jobs,
\* or under the locks that keep every other handler away.
THEOREM ServicesOwned == Spec => []NoOrphan
  <1>1. OwnInv => NoOrphan
    BY DEF OwnInv, Agreed, Owned, NoOrphan
  <1>2. Spec => []OwnInv
    BY OwnInit, OwnStep, PTL DEF Spec
  <1> QED BY <1>1, <1>2, PTL

\* The row of a server, with the last credentials to its machine, stays as long
\* as a service with an owner runs for it: no node of it can appear and no job
\* can be queued between the final inventory and the end.
THEOREM CredentialsStay == Spec => []CredentialsRetained
  <1>1. OwnInv => CredentialsRetained
    <2> SUFFICES ASSUME OwnInv, Fenced, NEW h \in Hosts, NEW r \in Resources,
                        remote[h][r].unit, r \notin abandoned
                 PROVE  status[ServerOf(r)] # "gone"
      BY DEF CredentialsRetained
    <2>1. NodeOf(r) \in Nodes /\ ServerOf(r) \in Hosting(NodeOf(r))
      BY ResourceParts DEF Hosting
    <2> QED BY <2>1 DEF OwnInv, Agreed, Owned, LiveHosted, JobsHosted
  <1>2. Spec => []OwnInv
    BY OwnInit, OwnStep, PTL DEF Spec
  <1> QED BY <1>1, <1>2, PTL

\* A finished job left nothing of its service on any machine, and nothing comes
\* back: the machine it worked on is the only one that ever held it.
THEOREM FinishedJobsClean == Spec => []DoneIsClean
  <1>1. OwnInv => DoneIsClean
    BY DEF OwnInv, Agreed, CleanDone, DoneIsClean
  <1>2. Spec => []OwnInv
    BY OwnInit, OwnStep, PTL DEF Spec
  <1> QED BY <1>1, <1>2, PTL

DoneKept == Fenced => \A r \in Resources : task[r].state = "DONE" => task'[r] = task[r]

\* Nothing changes a finished job.
LEMMA DoneStep == OwnInv /\ [Next]_vars => DoneKept
  <1> SUFFICES ASSUME OwnInv, [Next]_vars, Fenced, NEW r \in Resources, task[r].state = "DONE"
               PROVE  task'[r] = task[r]
    BY DEF DoneKept
  <1>1. Agreeing /\ TypeInv
    BY DEF OwnInv, Agreeing, PinInv
  <1>2. ASSUME NEW w \in Workers, Acts(w) PROVE task'[r] = task[r]
    BY <1>1, <1>2, TaskOwn, WorkerMoves DEF Open
  <1>3. ASSUME Unlocked \/ (\E x \in Resources : TimePasses(x)) \/ UNCHANGED vars
        PROVE  task'[r] = task[r]
    BY <1>1, <1>3, NoneOwn DEF Open
  <1> QED BY <1>2, <1>3, StepKinds

\* A finished job is never touched again, by a tick that picked it before, a
\* retry, or the deletion of the other server of its chain.
THEOREM FinishedJobsStay == Spec => DoneIsFinal
  <1>1. Spec => []OwnInv
    BY OwnInit, OwnStep, PTL DEF Spec
  <1>2. OwnInv /\ [Next]_vars => [DoneKept]_vars
    BY DoneStep
  <1>3. Spec => [][DoneKept]_vars
    BY <1>1, <1>2, PTL DEF Spec
  <1> QED BY <1>3 DEF DoneIsFinal, DoneKept

ApprovalKept ==
    Fenced => \A w \in Workers : pc[w] = "remove" /\ pc'[w] = "unlist" =>
         LET r == tgt[w]
             found == remote[Peer(w)][r]
         IN  /\ node[NodeOf(r)] # "live"
             /\ found.config \in {NoConfig, found.manifest, task[r].expected}

\* What a worker was allowed to remove is what it finds when it removes it.
LEMMA ApprovalStep == OwnInv => ApprovalKept
  <1> SUFFICES ASSUME OwnInv, Fenced, NEW w \in Workers, pc[w] = "remove"
               PROVE  /\ node[NodeOf(tgt[w])] # "live"
                      /\ remote[Peer(w)][tgt[w]].config
                           \in {NoConfig, remote[Peer(w)][tgt[w]].manifest, task[tgt[w]].expected}
    BY DEF ApprovalKept
  <1>1. tgt[w] \in Resources /\ SoundCleanup(w) /\ JobsAreForGone
    BY DEF OwnInv, PinInv, TypeInv, Control, Agreed, Sound, CleanupPCs
  <1>2. task[tgt[w]].state = "RUNNING" /\ Approved(w)
    BY <1>1 DEF SoundCleanup, CleanupPCs
  <1> QED BY <1>1, <1>2 DEF JobsAreForGone, Approved, Peer

\* A cleanup takes away only what it could attribute when it looked: between its
\* look and the removal no deployment, update or other job changes the service,
\* the job or the node.
THEOREM RemovalsApproved == Spec => ApprovedRemoval
  <1>1. Spec => []OwnInv
    BY OwnInit, OwnStep, PTL DEF Spec
  <1>2. OwnInv /\ [Next]_vars => [ApprovalKept]_vars
    BY ApprovalStep
  <1>3. Spec => [][ApprovalKept]_vars
    BY <1>1, <1>2, PTL DEF Spec
  <1> QED BY <1>3 DEF ApprovedRemoval, ApprovalKept
=============================================================================
