---- MODULE SubscriptionsProofs ----
(* What Subscriptions promises, for any nodes, forms, tabs and drifts.         *)
(*                                                                             *)
(* The invariant is about the forms under way: the row a form has read is one  *)
(* the subscription had, and when updatedAt has not moved since, it still      *)
(* agrees on everything protection depends on (a write of relations alone      *)
(* leaves updatedAt, but not the flags nor the protected nodes); what a form   *)
(* has validated keeps every node of its selection that was protected in the   *)
(* row it read. From both, the write of a form that is not stale takes no      *)
(* protection away, and one that is stale is refused.                          *)
EXTENDS Subscriptions, FiniteSetTheorems, SequenceTheorems, TLAPS

Rows == [cfOnly : BOOLEAN, cfAuto : BOOLEAN, ips : BOOLEAN, pids : SUBSET Nodes,
         nodes : SUBSET Nodes, ext : BOOLEAN, ver : 0..MaxWrites]
Reading == [at : {"read"}, says : Forms, row : Rows]
Checked == [at : {"checked"}, says : Forms, row : Rows, pids : SUBSET Nodes, nodes : SUBSET Nodes]

Typed ==
    /\ sub \in Rows /\ conf \in [Nodes -> Confs] /\ guarded \subseteq Nodes
    /\ form \in [Editors -> {Idle} \cup Reading \cup Checked]

(* A row that some form has read, beside the one there is now.                 *)
Behind(r, s) ==
    /\ r.ver <= s.ver
    /\ r.ips => r.cfOnly
    /\ r.cfOnly => s.cfOnly
    /\ r.ver = s.ver => (/\ r.cfOnly = s.cfOnly /\ r.ips = s.ips
                         /\ r.pids = s.pids /\ s.nodes \subseteq r.nodes)

Selected(f) == Says(f.says.nodes, f.row.nodes)

Validated(f) ==
    /\ f.nodes \subseteq Selected(f)
    /\ f.row.pids \cap Selected(f) \subseteq f.pids
    /\ Says(f.says.ips, f.row.ips) => Says(f.says.cfOnly, f.row.cfOnly)

FormSafe(f, s) ==
    /\ f.at # "idle" => Behind(f.row, s)
    /\ f.at = "checked" => Validated(f)

IInv ==
    /\ Typed
    /\ sub.ips => sub.cfOnly
    /\ guarded \subseteq sub.nodes
    /\ NoStaleErase
    /\ \A e \in Editors : FormSafe(form[e], sub)

----
(* The pieces the steps are made of.                                           *)

(* A field a form leaves alone keeps its value, and any other gets the form's. *)
LEMMA SaysType ==
    ASSUME NEW S, NEW field \in {Kept} \cup S, NEW old \in S
    PROVE Says(field, old) \in S
BY DEF Says

LEMMA FormFields ==
    ASSUME NEW f \in Forms
    PROVE /\ f.cfOnly \in {Kept} \cup BOOLEAN /\ f.cfAuto \in {Kept} \cup BOOLEAN
          /\ f.ips \in {Kept} \cup BOOLEAN /\ f.nodes \in {Kept} \cup SUBSET Nodes
          /\ f.ext \in {Kept} \cup BOOLEAN
BY FormsAssumption

(* What a form makes of the row it reads is a row, and keeps the protection of *)
(* the nodes that stay selected.                                               *)
LEMMA WantedType ==
    ASSUME NEW f \in Forms, NEW s \in Rows, conf \in [Nodes -> Confs]
    PROVE /\ Wanted(f, s) \in Rows
          /\ Wanted(f, s).cfOnly = Says(f.cfOnly, s.cfOnly)
          /\ Wanted(f, s).ips = Says(f.ips, s.ips)
          /\ Wanted(f, s).nodes = Says(f.nodes, s.nodes)
          /\ Wanted(f, s).ver = s.ver
          /\ s.pids \cap Says(f.nodes, s.nodes) \subseteq Wanted(f, s).pids
<1> DEFINE only == Says(f.cfOnly, s.cfOnly)
           auto == Says(f.cfAuto, s.cfAuto)
           ips == Says(f.ips, s.ips)
           nodes == Says(f.nodes, s.nodes)
           ext == Says(f.ext, s.ext)
           pids == (s.pids \cap nodes) \cup (IF auto /\ ~only THEN Automatic(nodes) ELSE {})
<1>1. /\ only \in BOOLEAN /\ auto \in BOOLEAN /\ ips \in BOOLEAN /\ ext \in BOOLEAN
      /\ nodes \in SUBSET Nodes
    <2>1. /\ s.cfOnly \in BOOLEAN /\ s.cfAuto \in BOOLEAN /\ s.ips \in BOOLEAN
          /\ s.ext \in BOOLEAN /\ s.nodes \in SUBSET Nodes
        BY DEF Rows
    <2> QED BY <2>1, FormFields, SaysType
<1>2. pids \in SUBSET Nodes
    <2>1. s.pids \in SUBSET Nodes BY DEF Rows
    <2>2. Automatic(nodes) \subseteq nodes BY DEF Automatic
    <2> QED BY <1>1, <2>1, <2>2
<1>3. s.ver \in 0..MaxWrites BY DEF Rows
<1>4. Wanted(f, s) = [cfOnly |-> only, cfAuto |-> auto, ips |-> ips, nodes |-> nodes,
                      ext |-> ext, ver |-> s.ver, pids |-> pids]
    BY DEF Wanted
<1>5. s.pids \cap nodes \subseteq pids OBVIOUS
<1> HIDE DEF only, auto, ips, nodes, ext, pids
<1>6. /\ Wanted(f, s) \in Rows
      /\ Wanted(f, s).cfOnly = only /\ Wanted(f, s).ips = ips /\ Wanted(f, s).nodes = nodes
      /\ Wanted(f, s).ver = s.ver /\ Wanted(f, s).pids = pids
    BY <1>1, <1>2, <1>3, <1>4 DEF Rows
<1> QED BY <1>5, <1>6 DEF only, ips, nodes

(* The row a form writes, field by field.                                      *)
LEMMA WrittenFields ==
    ASSUME NEW f, NEW s, NEW bump
    PROVE LET w == Written(f, s, bump) IN
          /\ w.cfOnly = Says(f.says.cfOnly, s.cfOnly)
          /\ w.ips = Says(f.says.ips, s.ips)
          /\ w.nodes = (IF f.says.nodes = Kept THEN s.nodes ELSE f.nodes)
          /\ w.pids = (IF f.pids = f.row.pids THEN s.pids ELSE f.pids)
          /\ w.ver = s.ver + bump
BY DEF Written

LEMMA WrittenType ==
    ASSUME NEW f \in Checked, NEW s \in Rows, NEW bump \in {0, 1}, s.ver < MaxWrites
    PROVE Written(f, s, bump) \in Rows
<1> DEFINE only == Says(f.says.cfOnly, s.cfOnly)
           auto == Says(f.says.cfAuto, s.cfAuto)
           ips == Says(f.says.ips, s.ips)
           ext == Says(f.says.ext, s.ext)
           nodes == IF f.says.nodes = Kept THEN s.nodes ELSE f.nodes
           pids == IF f.pids = f.row.pids THEN s.pids ELSE f.pids
           ver == s.ver + bump
<1>1. only \in BOOLEAN /\ auto \in BOOLEAN /\ ips \in BOOLEAN /\ ext \in BOOLEAN
    <2>1. /\ s.cfOnly \in BOOLEAN /\ s.cfAuto \in BOOLEAN /\ s.ips \in BOOLEAN
          /\ s.ext \in BOOLEAN /\ f.says \in Forms
        BY DEF Rows, Checked
    <2> QED BY <2>1, FormFields, SaysType
<1>2. nodes \in SUBSET Nodes /\ pids \in SUBSET Nodes
    BY DEF Rows, Checked
<1>3. ver \in 0..MaxWrites
    BY BoundsAssumption DEF Rows
<1>4. Written(f, s, bump) = [cfOnly |-> only, cfAuto |-> auto, ips |-> ips, ext |-> ext,
                             nodes |-> nodes, pids |-> pids, ver |-> ver]
    BY DEF Written
<1> HIDE DEF only, auto, ips, ext, nodes, pids, ver
<1> QED BY <1>1, <1>2, <1>3, <1>4 DEF Rows

(* A row that a form has read stays behind the row when the row moves on, and  *)
(* when it stays where it is but loses nodes.                                  *)
LEMMA StaysBehind ==
    ASSUME NEW r \in Rows, NEW s \in Rows, NEW t \in Rows,
           Behind(r, s), s.cfOnly => t.cfOnly,
           \/ t.ver = s.ver + 1
           \/ /\ t.ver = s.ver /\ t.cfOnly = s.cfOnly /\ t.ips = s.ips
              /\ t.pids = s.pids /\ t.nodes \subseteq s.nodes
    PROVE Behind(r, t)
<1>1. r.ver \in Nat /\ s.ver \in Nat /\ t.ver \in Nat
    BY BoundsAssumption DEF Rows
<1>2. CASE t.ver = s.ver + 1
    <2>1. r.ver <= t.ver /\ r.ver # t.ver BY <1>1, <1>2 DEF Behind
    <2> QED BY <2>1 DEF Behind
<1>3. CASE /\ t.ver = s.ver /\ t.cfOnly = s.cfOnly /\ t.ips = s.ips
           /\ t.pids = s.pids /\ t.nodes \subseteq s.nodes
    <2>1. r.ver <= t.ver BY <1>3 DEF Behind
    <2>2. r.cfOnly => t.cfOnly BY <1>3 DEF Behind
    <2>3. ASSUME r.ver = t.ver
          PROVE r.cfOnly = t.cfOnly /\ r.ips = t.ips /\ r.pids = t.pids /\ t.nodes \subseteq r.nodes
        BY <1>3, <2>3 DEF Behind
    <2> QED BY <2>1, <2>2, <2>3 DEF Behind
<1> QED BY <1>2, <1>3

(* Where a form stands.                                                        *)
LEMMA FormStands ==
    ASSUME NEW f \in {Idle} \cup Reading \cup Checked
    PROVE /\ f.at = "read" => f \in Reading
          /\ f.at = "checked" => f \in Checked
          /\ f.at # "idle" => f.row \in Rows /\ f.says \in Forms
          /\ f.at \in {"idle", "read", "checked"}
BY DEF Idle, Reading, Checked

----
(* The invariant.                                                              *)

LEMMA InitSafe == Init => IInv /\ answer = NoAnswer
<1> SUFFICES ASSUME Init PROVE IInv /\ answer = NoAnswer
    OBVIOUS
<1>1. PICK f \in Forms : Acceptable(Created(f)) /\ sub = Created(f)
    BY DEF Init
<1>2. conf \in [Nodes -> Confs]
    BY StartAssumption DEF Init
<1>3. Empty \in Rows
    BY BoundsAssumption DEF Empty, Rows
<1>4. sub \in Rows
    BY <1>1, <1>2, <1>3, WantedType DEF Created
<1>5. sub.ips => sub.cfOnly
    BY <1>1 DEF Acceptable
<1>6. guarded = Protecting(sub)
    BY DEF Init
<1>7. guarded \subseteq sub.nodes /\ guarded \subseteq Nodes
    BY <1>4, <1>6 DEF Protecting, Rows
<1>8. NoStaleErase
    BY <1>6 DEF NoStaleErase
<1>9. form \in [Editors -> {Idle} \cup Reading \cup Checked]
    BY DEF Init
<1>10. \A e \in Editors : FormSafe(form[e], sub)
    BY DEF Init, FormSafe, Idle
<1>11. answer = NoAnswer
    BY DEF Init
<1> QED BY <1>2, <1>4, <1>5, <1>7, <1>8, <1>9, <1>10, <1>11 DEF IInv, Typed

(* A form that is read, validated or refused changes nothing else.             *)
LEMMA FormMoves ==
    ASSUME IInv, NEW e \in Editors, NEW f \in {Idle} \cup Reading \cup Checked,
           FormSafe(f, sub), form' = [form EXCEPT ![e] = f], UNCHANGED <<sub, conf, guarded>>
    PROVE IInv'
<1>1. form' \in [Editors -> {Idle} \cup Reading \cup Checked]
    BY DEF IInv, Typed
<1>2. Typed'
    BY <1>1 DEF IInv, Typed
<1>3. ASSUME NEW x \in Editors PROVE FormSafe(form'[x], sub')
    <2>1. CASE x = e BY <2>1 DEF IInv, Typed
    <2>2. CASE x # e BY <2>2 DEF IInv, Typed
    <2> QED BY <2>1, <2>2
<1>4. NoStaleErase'
    BY DEF IInv, NoStaleErase, Protecting
<1> QED BY <1>2, <1>3, <1>4 DEF IInv

LEMMA ReadSafe ==
    ASSUME IInv, NEW e \in Editors, NEW f \in Forms, FormRead(e, f)
    PROVE IInv'
<1> DEFINE new == [at |-> "read", says |-> f, row |-> sub]
<1>1. sub \in Rows /\ (sub.ips => sub.cfOnly)
    BY DEF IInv, Typed
<1>2. new \in Reading /\ new.at = "read" /\ new.row = sub
    BY <1>1 DEF Reading
<1>3. Behind(sub, sub)
    BY <1>1, BoundsAssumption DEF Behind, Rows
<1>4. form' = [form EXCEPT ![e] = new] /\ UNCHANGED <<sub, conf, guarded>>
    BY DEF FormRead
<1> HIDE DEF new
<1>5. FormSafe(new, sub)
    BY <1>2, <1>3 DEF FormSafe
<1> QED BY <1>2, <1>4, <1>5, FormMoves

LEMMA CheckSafe ==
    ASSUME IInv, NEW e \in Editors, FormCheck(e)
    PROVE IInv'
<1> DEFINE f == form[e]
           w == Wanted(f.says, f.row)
           new == [at |-> "checked", says |-> f.says, row |-> f.row,
                   pids |-> w.pids, nodes |-> {n \in w.nodes : conf[n] # "gone"}]
<1>1. f \in Reading /\ f.row \in Rows /\ f.says \in Forms /\ Behind(f.row, sub)
    <2>1. f \in {Idle} \cup Reading \cup Checked /\ f.at = "read" /\ FormSafe(f, sub)
        BY DEF FormCheck, IInv, Typed
    <2> QED BY <2>1, FormStands DEF FormSafe
<1>2. conf \in [Nodes -> Confs] /\ UNCHANGED <<sub, conf, guarded>>
    BY DEF FormCheck, IInv, Typed
<1>3. /\ w \in Rows
      /\ w.cfOnly = Says(f.says.cfOnly, f.row.cfOnly) /\ w.ips = Says(f.says.ips, f.row.ips)
      /\ w.nodes = Selected(f) /\ f.row.pids \cap Selected(f) \subseteq w.pids
    BY <1>1, <1>2, WantedType DEF Selected
<1>4. form' = [form EXCEPT ![e] = IF Acceptable(w) THEN new ELSE Idle]
    BY DEF FormCheck
<1>5. CASE Acceptable(w)
    <2>1. w.pids \in SUBSET Nodes /\ {n \in w.nodes : conf[n] # "gone"} \in SUBSET Nodes
        BY <1>3 DEF Rows
    <2>2. /\ new.at = "checked" /\ new.says = f.says /\ new.row = f.row
          /\ new.pids = w.pids /\ new.nodes \subseteq w.nodes
        OBVIOUS
    <2>3. new \in Checked
        BY <1>1, <2>1 DEF Checked
    <2>4. w.ips => w.cfOnly
        BY <1>5 DEF Acceptable
    <2>5. form' = [form EXCEPT ![e] = new]
        BY <1>4, <1>5
    <2> HIDE DEF new, w
    <2>6. FormSafe(new, sub)
        BY <1>1, <1>3, <2>2, <2>4 DEF FormSafe, Validated, Selected
    <2> QED BY <1>2, <2>3, <2>5, <2>6, FormMoves
<1>6. CASE ~Acceptable(w)
    <2>1. form' = [form EXCEPT ![e] = Idle]
        BY <1>4, <1>6
    <2>2. FormSafe(Idle, sub)
        BY DEF FormSafe, Idle
    <2> QED BY <1>2, <2>1, <2>2, FormMoves
<1> QED BY <1>5, <1>6

LEMMA RefuseSafe ==
    ASSUME IInv, NEW e \in Editors, FormRefused(e)
    PROVE IInv'
<1>1. form' = [form EXCEPT ![e] = Idle] /\ UNCHANGED <<sub, conf, guarded>>
    BY DEF FormRefused
<1>2. FormSafe(Idle, sub)
    BY DEF FormSafe, Idle
<1> QED BY <1>1, <1>2, FormMoves

(* The write of a form: its row was current but for relations, and a write of  *)
(* relations alone changes neither the flags nor the nodes nor their protection. *)
LEMMA WriteSafe ==
    ASSUME IInv, NEW e \in Editors, FormWrite(e)
    PROVE IInv' /\ (sub.cfOnly => sub'.cfOnly)
<1> DEFINE f == form[e]
<1>1. f \in Checked /\ f.row \in Rows /\ f.says \in Forms /\ Behind(f.row, sub) /\ Validated(f)
    <2>1. f \in {Idle} \cup Reading \cup Checked /\ f.at = "checked" /\ FormSafe(f, sub)
        BY DEF FormWrite, IInv, Typed
    <2> QED BY <2>1, FormStands DEF FormSafe
<1>2. PICK bump \in {0, 1} : /\ sub' = Written(f, sub, bump)
                             /\ ~OnlyRelations(f) => bump = 1
    BY DEF FormWrite
<1>3. /\ sub.ver = f.row.ver /\ (f.says.cfOnly = FALSE => ~sub.cfOnly)
      /\ sub.ver < MaxWrites
      /\ guarded' = (guarded \cap sub'.nodes) \cup Protecting(sub')
      /\ form' = [form EXCEPT ![e] = Idle] /\ UNCHANGED conf
    BY DEF FormWrite, Current
<1>4. sub \in Rows /\ (sub.ips => sub.cfOnly) /\ guarded \subseteq sub.nodes /\ NoStaleErase
    BY DEF IInv, Typed
<1> HIDE DEF f
<1>5. sub' \in Rows
    BY <1>1, <1>2, <1>3, <1>4, WrittenType
<1>6. /\ sub'.cfOnly = Says(f.says.cfOnly, sub.cfOnly)
      /\ sub'.ips = Says(f.says.ips, sub.ips)
      /\ sub'.nodes = (IF f.says.nodes = Kept THEN sub.nodes ELSE f.nodes)
      /\ sub'.pids = (IF f.pids = f.row.pids THEN sub.pids ELSE f.pids)
      /\ sub'.ver = sub.ver + bump
    BY <1>2, WrittenFields
<1>7. /\ sub.cfOnly = f.row.cfOnly /\ sub.ips = f.row.ips
      /\ sub.pids = f.row.pids /\ sub.nodes \subseteq f.row.nodes
    BY <1>1, <1>3 DEF Behind
<1>8. sub.cfOnly => sub'.cfOnly
    <2>1. f.says.cfOnly \in {Kept} \cup BOOLEAN
        BY <1>1, FormFields
    <2> QED BY <1>3, <1>6, <2>1 DEF Says
<1>9. sub'.ips => sub'.cfOnly
    <2>1. sub'.ips = Says(f.says.ips, f.row.ips) /\ sub'.cfOnly = Says(f.says.cfOnly, f.row.cfOnly)
        BY <1>6, <1>7
    <2>2. Says(f.says.ips, f.row.ips) => Says(f.says.cfOnly, f.row.cfOnly)
        BY <1>1 DEF Validated
    <2> QED BY <2>1, <2>2, Zenon
<1>10. guarded' \subseteq sub'.nodes /\ guarded' \subseteq Nodes
    BY <1>3, <1>5 DEF Protecting, Rows
<1>11. NoStaleErase'
    <2> SUFFICES ASSUME NEW n \in guarded', n \in sub'.nodes, n \notin Protecting(sub')
                 PROVE FALSE
        BY DEF NoStaleErase
    <2>1. n \in guarded /\ n \in sub.nodes
        BY <1>3, <1>4
    <2>2. ~sub'.cfOnly /\ n \notin sub'.pids
        BY DEF Protecting
    <2>3. n \in sub.pids
        BY <1>4, <1>8, <2>1, <2>2 DEF NoStaleErase, Protecting
    <2>4. n \in Selected(f)
        BY <1>1, <1>6, <1>7, <2>1 DEF Selected, Says, Validated
    <2>5. n \in f.pids
        BY <1>1, <1>7, <2>3, <2>4 DEF Validated
    <2> QED BY <1>6, <2>2, <2>3, <2>5
<1>12. ASSUME NEW r \in Rows, Behind(r, sub) PROVE Behind(r, sub')
    <2>1. CASE bump = 1
        BY <1>4, <1>5, <1>6, <1>8, <1>12, <2>1, StaysBehind
    <2>2. CASE bump = 0
        <3>1. f.says.cfOnly = Kept /\ f.says.cfAuto = Kept /\ f.says.ips = Kept /\ f.pids = f.row.pids
            BY <1>2, <2>2 DEF OnlyRelations
        <3>2. f.says.nodes = Kept
            BY <1>1, <3>1, PageAssumption
        <3>3. /\ sub'.cfOnly = sub.cfOnly /\ sub'.ips = sub.ips
              /\ sub'.nodes = sub.nodes /\ sub'.pids = sub.pids
            BY <1>6, <3>1, <3>2 DEF Says
        <3>4. sub'.ver = sub.ver
            BY <1>4, <1>6, <2>2, BoundsAssumption DEF Rows
        <3> QED BY <1>4, <1>5, <1>8, <1>12, <3>3, <3>4, StaysBehind
    <2> QED BY <2>1, <2>2
<1>13. form' \in [Editors -> {Idle} \cup Reading \cup Checked]
    BY <1>3 DEF IInv, Typed
<1>14. ASSUME NEW x \in Editors PROVE FormSafe(form'[x], sub')
    <2>1. CASE x = e
        <3>1. form'[x] = Idle BY <1>3, <2>1 DEF IInv, Typed
        <3> QED BY <3>1 DEF FormSafe, Idle
    <2>2. CASE x # e
        <3>1. form'[x] = form[x] /\ form[x] \in {Idle} \cup Reading \cup Checked /\ FormSafe(form[x], sub)
            BY <1>3, <2>2 DEF IInv, Typed
        <3>2. form[x].at # "idle" => form[x].row \in Rows
            BY <3>1, FormStands
        <3> QED BY <1>12, <3>1, <3>2 DEF FormSafe
    <2> QED BY <2>1, <2>2
<1>15. Typed'
    BY <1>3, <1>5, <1>10, <1>13 DEF IInv, Typed
<1> QED BY <1>8, <1>9, <1>10, <1>11, <1>14, <1>15 DEF IInv

LEMMA DriftSafe ==
    ASSUME IInv, NEW n \in Nodes, Drift(n)
    PROVE IInv'
<1>1. PICK c \in Becomes[conf[n]] : conf' = [conf EXCEPT ![n] = c]
    BY DEF Drift
<1>2. conf \in [Nodes -> Confs]
    BY DEF IInv, Typed
<1>3. conf[n] \in Confs
    BY <1>2
<1>4. Becomes[conf[n]] \subseteq Confs
    BY <1>3, StartAssumption
<1>5. conf' \in [Nodes -> Confs]
    BY <1>1, <1>2, <1>4
<1>6. UNCHANGED <<sub, form, guarded>>
    BY DEF Drift
<1>7. Typed'
    BY <1>5, <1>6 DEF IInv, Typed
<1>8. NoStaleErase'
    BY <1>6 DEF IInv, NoStaleErase, Protecting
<1>9. \A e \in Editors : FormSafe(form'[e], sub')
    BY <1>6 DEF IInv
<1> QED BY <1>6, <1>7, <1>8, <1>9 DEF IInv

LEMMA RemovedSafe ==
    ASSUME IInv, NEW n \in Nodes, NodeRemoved(n)
    PROVE IInv' /\ sub'.cfOnly = sub.cfOnly
<1>1. /\ conf' = [conf EXCEPT ![n] = "gone"] /\ sub' = [sub EXCEPT !.nodes = @ \ {n}]
      /\ guarded' = guarded \ {n} /\ UNCHANGED form
    BY DEF NodeRemoved
<1>2. sub \in Rows /\ conf \in [Nodes -> Confs]
    BY DEF IInv, Typed
<1>3. conf' \in [Nodes -> Confs]
    <2>1. "gone" \in Confs BY DEF Confs
    <2> QED BY <1>1, <1>2, <2>1
<1>4. /\ sub' \in Rows /\ sub'.cfOnly = sub.cfOnly /\ sub'.ips = sub.ips /\ sub'.pids = sub.pids
      /\ sub'.nodes = sub.nodes \ {n} /\ sub'.ver = sub.ver
    <2> DEFINE left == sub.nodes \ {n}
    <2>1. left \in SUBSET Nodes
        BY <1>2 DEF Rows
    <2>2. sub' = [sub EXCEPT !.nodes = left]
        BY <1>1
    <2> HIDE DEF left
    <2>3. /\ sub' \in Rows /\ sub'.cfOnly = sub.cfOnly /\ sub'.ips = sub.ips
          /\ sub'.pids = sub.pids /\ sub'.nodes = left /\ sub'.ver = sub.ver
        BY <1>2, <2>1, <2>2 DEF Rows
    <2> QED BY <2>3 DEF left
<1>5. Typed'
    BY <1>1, <1>3, <1>4 DEF IInv, Typed
<1>6. NoStaleErase'
    BY <1>1, <1>4 DEF IInv, NoStaleErase, Protecting
<1>7. ASSUME NEW e \in Editors PROVE FormSafe(form'[e], sub')
    <2>1. form[e] \in {Idle} \cup Reading \cup Checked /\ FormSafe(form[e], sub)
        BY DEF IInv, Typed
    <2>2. form[e].at # "idle" => form[e].row \in Rows
        BY <2>1, FormStands
    <2>3. form[e].at # "idle" => Behind(form[e].row, sub')
        BY <1>2, <1>4, <2>1, <2>2, StaysBehind DEF FormSafe
    <2> QED BY <1>1, <2>1, <2>3 DEF FormSafe
<1> QED BY <1>1, <1>4, <1>5, <1>6, <1>7 DEF IInv

LEMMA StepSafe == IInv /\ [Next]_vars => IInv' /\ (sub.cfOnly => sub'.cfOnly)
<1> SUFFICES ASSUME IInv, [Next]_vars PROVE IInv' /\ (sub.cfOnly => sub'.cfOnly)
    OBVIOUS
<1>1. ASSUME NEW e \in Editors, NEW f \in Forms, FormRead(e, f)
      PROVE IInv' /\ (sub.cfOnly => sub'.cfOnly)
    BY <1>1, ReadSafe DEF FormRead
<1>2. ASSUME NEW e \in Editors, FormCheck(e) PROVE IInv' /\ (sub.cfOnly => sub'.cfOnly)
    BY <1>2, CheckSafe DEF FormCheck
<1>3. ASSUME NEW e \in Editors, FormWrite(e) PROVE IInv' /\ (sub.cfOnly => sub'.cfOnly)
    BY <1>3, WriteSafe
<1>4. ASSUME NEW e \in Editors, FormRefused(e) PROVE IInv' /\ (sub.cfOnly => sub'.cfOnly)
    BY <1>4, RefuseSafe DEF FormRefused
<1>5. ASSUME NEW n \in Nodes, Drift(n) PROVE IInv' /\ (sub.cfOnly => sub'.cfOnly)
    BY <1>5, DriftSafe DEF Drift
<1>6. ASSUME NEW n \in Nodes, NodeRemoved(n) PROVE IInv' /\ (sub.cfOnly => sub'.cfOnly)
    BY <1>6, RemovedSafe
<1>7. ASSUME UNCHANGED <<sub, conf, form, guarded>> PROVE IInv' /\ (sub.cfOnly => sub'.cfOnly)
    BY <1>7 DEF IInv, Typed, NoStaleErase, Protecting
<1>8. ASSUME NEW provider, NEW profile, NEW up, NEW cdn, Download(up, provider, profile, cdn)
      PROVE IInv' /\ (sub.cfOnly => sub'.cfOnly)
    BY <1>7, <1>8 DEF Download
<1>9. CASE Next
    BY <1>1, <1>2, <1>3, <1>4, <1>5, <1>6, <1>8, <1>9 DEF Next
<1>10. CASE UNCHANGED vars
    BY <1>7, <1>10 DEF vars
<1> QED BY <1>9, <1>10

----
(* The downloads.                                                              *)

(* What a download gives of the node n, given what the row says.               *)
LEMMA Entries ==
    ASSUME NEW active, NEW cdn, NEW x \in Exported(active, cdn)
    PROVE \E n \in active : /\ x[1] = n
                            /\ Shielded(n) => x[2] = "cdn"
BY DEF Exported, OfNode

LEMMA DownloadSafe ==
    ASSUME IInv, NEW provider \in Nodes \cup {Kept}, NEW profile, NEW up, NEW cdn,
           Download(up, provider, profile, cdn)
    PROVE ProtectedStaysBehindCdn' /\ StrictIsStrict'
<1> DEFINE active == Active(up, provider, profile)
           entries == Exported(active, cdn)
                        \cup (IF provider = Kept /\ sub.ext THEN {<<Kept, "own">>} ELSE {})
           kept == guarded \cup {n \in sub.nodes : Xhttp(n)}
<1>1. ~Refuses(active, cdn, provider)
    BY DEF Download
<1>2. answer'.entries = entries /\ answer'.kept = kept /\ answer'.strict = sub.cfOnly
    BY DEF Download
<1>3. sub \in Rows /\ guarded \subseteq sub.nodes /\ NoStaleErase
    BY DEF IInv, Typed
<1>4. active \subseteq sub.nodes /\ sub.nodes \subseteq Nodes
    BY <1>3 DEF Active, Rows
<1>5. ASSUME NEW n \in kept PROVE n \in Nodes /\ Shielded(n)
    BY <1>3, <1>4 DEF NoStaleErase, Protecting, Shielded
<1>6. ProtectedStaysBehindCdn'
    <2> SUFFICES ASSUME NEW n \in kept, <<n, "own">> \in entries PROVE FALSE
        BY <1>2 DEF ProtectedStaysBehindCdn
    <2>1. n # Kept
        BY <1>5, KeptAssumption
    <2>2. <<n, "own">> \in Exported(active, cdn)
        BY <2>1
    <2> QED BY <1>5, <2>2, Entries
<1>7. StrictIsStrict'
    <2> SUFFICES ASSUME sub.cfOnly, NEW x \in entries PROVE x[2] = "cdn"
        BY <1>2 DEF StrictIsStrict
    <2>1. ~sub.ext
        BY <1>1 DEF Refuses
    <2>2. x \in Exported(active, cdn)
        BY <2>1
    <2> QED BY <2>2, Entries DEF Shielded
<1> QED BY <1>6, <1>7

LEMMA AnswersSafe ==
    ASSUME IInv, [Next]_vars, ProtectedStaysBehindCdn, StrictIsStrict
    PROVE ProtectedStaysBehindCdn' /\ StrictIsStrict'
<1>1. ASSUME answer' = NoAnswer PROVE ProtectedStaysBehindCdn' /\ StrictIsStrict'
    BY <1>1 DEF ProtectedStaysBehindCdn, StrictIsStrict, NoAnswer
<1>2. ASSUME NEW e \in Editors, NEW f \in Forms, FormRead(e, f) PROVE answer' = NoAnswer
    BY <1>2 DEF FormRead
<1>3. ASSUME NEW e \in Editors, FormCheck(e) \/ FormWrite(e) \/ FormRefused(e)
      PROVE answer' = NoAnswer
    BY <1>3 DEF FormCheck, FormWrite, FormRefused
<1>4. ASSUME NEW n \in Nodes, Drift(n) \/ NodeRemoved(n) PROVE answer' = NoAnswer
    BY <1>4 DEF Drift, NodeRemoved
<1>5. CASE Next
    BY <1>1, <1>2, <1>3, <1>4, <1>5, DownloadSafe DEF Next
<1>6. CASE UNCHANGED vars
    BY <1>6 DEF vars, ProtectedStaysBehindCdn, StrictIsStrict
<1> QED BY <1>5, <1>6

LEMMA InvSafe == IInv /\ ProtectedStaysBehindCdn /\ StrictIsStrict => SubscriptionSafe
<1> SUFFICES ASSUME IInv, ProtectedStaysBehindCdn, StrictIsStrict PROVE SubscriptionSafe
    OBVIOUS
<1>1. sub \in Rows /\ (sub.ips => sub.cfOnly) /\ conf \in [Nodes -> Confs] /\ guarded \subseteq Nodes
    BY DEF IInv, Typed
<1>2. \A e \in Editors : form[e].at \in {"idle", "read", "checked"}
    BY FormStands DEF IInv, Typed
<1>3. ListsHideToo
    BY DEF IInv, NoStaleErase, Protecting, ListsHideToo, Disclosed, Shielded
<1> QED BY <1>1, <1>2, <1>3 DEF SubscriptionSafe, TypeOK, IInv, Rows

----
(* What a subscription promises of its nodes holds of every download: a node   *)
(* that came under protection and stayed selected never leaves one with its    *)
(* own address, a strict subscription gives no address of its own, and no      *)
(* stale form takes protection away; the lists of VIEWERs hide what the        *)
(* downloads hide. For forms that name a flag when they name                   *)
(* nodes, which are what the page sends.                                       *)
THEOREM SubscriptionsAreSafe == Spec => []SubscriptionSafe
<1>1. Init => IInv /\ ProtectedStaysBehindCdn /\ StrictIsStrict
    BY InitSafe DEF ProtectedStaysBehindCdn, StrictIsStrict, NoAnswer
<1>2. IInv /\ ProtectedStaysBehindCdn /\ StrictIsStrict /\ [Next]_vars
        => (IInv /\ ProtectedStaysBehindCdn /\ StrictIsStrict)'
    BY StepSafe, AnswersSafe
<1> QED BY <1>1, <1>2, InvSafe, PTL DEF Spec

(* A strict subscription stays strict, whatever was read before it became so.  *)
THEOREM StrictStaysStrict == Spec => StrictForGood
<1>1. Init => IInv
    BY InitSafe
<1>2. IInv /\ [Next]_vars => IInv'
    BY StepSafe
<1>3. IInv /\ [Next]_vars => [sub.cfOnly => sub'.cfOnly]_vars
    BY StepSafe
<1> QED BY <1>1, <1>2, <1>3, PTL DEF Spec, StrictForGood

-----------------------------------------------------------------------------
(* Every account that was created with an invite code is counted, for any     *)
(* number of users and of requests that go on at once. The invariant counts   *)
(* the accounts that were registered, those that are gone again included.     *)
CONSTANTS Users, Admins, Requests, MaxUses
VARIABLES role, password, bound, invite, used, registered, request
A == INSTANCE Accounts

\* The instance has its own names for finiteness and the size of a set.
LEMMA AccountSizes == ASSUME NEW S PROVE A!Cardinality(S) = Cardinality(S) /\ A!IsFiniteSet(S) = IsFiniteSet(S)
  BY Zenon DEF A!Cardinality, Cardinality, A!IsFiniteSet, IsFiniteSet

Counted == used = Cardinality(registered) /\ \A u \in registered : role[u] # "none"
Asked == \A r \in Requests :
    /\ request[r].step # "idle" => request[r].user \in Users
    /\ request[r].step = "unbind" => request[r].user \in password

AccountInv == A!TypeOK /\ Counted /\ Asked

LEMMA NoUses == A!AccountAssumption => A!Idle \in [step : {"idle"}, user : {A!Nobody}, uses : 0 .. Cardinality(Users)]
<1> SUFFICES ASSUME A!AccountAssumption PROVE 0 \in 0 .. Cardinality(Users)
  BY DEF A!Idle
<1> QED BY FS_CardinalityType, AccountSizes DEF A!AccountAssumption

LEMMA AccountInit == ASSUME A!AccountAssumption PROVE A!Init => AccountInv
<1> SUFFICES ASSUME A!Init PROVE AccountInv
  OBVIOUS
<1>1. Cardinality(Users) \in Nat
  BY FS_CardinalityType, AccountSizes DEF A!AccountAssumption
<1>2. Cardinality(registered) = 0
  BY FS_EmptySet DEF A!Init
<1> QED BY <1>1, <1>2, AccountSizes DEF A!AccountAssumption, A!Init, AccountInv, A!TypeOK, Counted, Asked, A!Exists, A!Idle

\* The steps that neither create an account with the code nor delete one.
LEMMA AccountAsks ==
  ASSUME A!AccountAssumption, AccountInv, NEW u \in Users, NEW r \in Requests,
         A!Register(r, u) \/ A!Unbind(r, u) \/ A!UpdateRole(r, u) \/ A!Remove(r, u)
  PROVE  AccountInv'
<1>1. PICK step \in {"register", "unbind", "promote", "remove", "counted"} :
        /\ request' = [request EXCEPT ![r] = [step |-> step, user |-> u, uses |-> used]]
        /\ step = "unbind" => u \in password
  BY DEF A!Register, A!Unbind, A!UpdateRole, A!Remove, A!Do, A!MayUnbind
<1>2. UNCHANGED <<role, A!login, A!code>>
  BY DEF A!Register, A!Unbind, A!UpdateRole, A!Remove
<1>3. used \in 0 .. Cardinality(Users)
  BY AccountSizes DEF AccountInv, A!TypeOK
<1> QED BY <1>1, <1>2, <1>3, AccountSizes DEF AccountInv, A!TypeOK, Counted, Asked, A!Exists, A!login, A!code

LEMMA AccountCommits ==
  ASSUME A!AccountAssumption, AccountInv, NEW r \in Requests, A!RegisterCommit(r) PROVE AccountInv'
<1> DEFINE u == request[r].user
<1>1. u \in Users /\ request' = [request EXCEPT ![r] = A!Idle] /\ UNCHANGED <<invite, bound>>
  BY DEF A!RegisterCommit, A!Done, AccountInv, Asked
<1>2. CASE UNCHANGED <<role, password, used, registered>>
  BY <1>1, <1>2, NoUses, AccountSizes DEF AccountInv, A!TypeOK, Counted, Asked, A!Exists, A!Idle
<1>3. CASE /\ role[u] = "none" /\ role' = [role EXCEPT ![u] = "OPERATOR"] /\ password' = password \cup {u}
           /\ used' = used + 1 /\ registered' = registered \cup {u}
  <2>1. registered \in SUBSET Users /\ u \notin registered /\ registered' \in SUBSET Users
    BY <1>1, <1>3, AccountSizes DEF AccountInv, A!TypeOK, Counted
  <2>2. IsFiniteSet(registered) /\ IsFiniteSet(registered')
    BY <2>1, FS_Subset, AccountSizes DEF A!AccountAssumption
  <2>3. Cardinality(registered') = Cardinality(registered) + 1
    BY <1>3, <2>1, <2>2, FS_AddElement
  <2>4. Cardinality(registered') <= Cardinality(Users) /\ Cardinality(registered') \in Nat /\ Cardinality(Users) \in Nat
    BY <2>1, <2>2, FS_Subset, FS_CardinalityType, AccountSizes DEF A!AccountAssumption
  <2>5. used' = Cardinality(registered') /\ used' \in 0 .. Cardinality(Users)
    BY <1>3, <2>3, <2>4 DEF AccountInv, Counted
  <2>6. A!TypeOK'
    BY <1>1, <1>3, <2>1, <2>5, NoUses, AccountSizes DEF AccountInv, A!TypeOK, A!Exists, A!Idle
  <2>7. Counted' /\ Asked'
    BY <1>1, <1>3, <2>5, AccountSizes DEF AccountInv, A!TypeOK, Counted, Asked, A!Idle
  <2> QED BY <2>6, <2>7 DEF AccountInv
<1> QED BY <1>2, <1>3 DEF A!RegisterCommit, A!Incremented

LEMMA AccountWrites ==
  ASSUME A!AccountAssumption, AccountInv, NEW r \in Requests,
         A!UnbindWrite(r) \/ A!UpdateRoleWrite(r) \/ A!Count(r) \/ A!RemoveWrite(r)
  PROVE  AccountInv'
<1>1. CASE A!UnbindWrite(r)
  BY <1>1, NoUses, AccountSizes DEF A!UnbindWrite, A!Done, A!Idle, AccountInv, A!TypeOK, Counted, Asked, A!Exists, A!code
<1>2. CASE A!UpdateRoleWrite(r)
  BY <1>2, NoUses, AccountSizes DEF A!UpdateRoleWrite, A!Done, A!Idle, AccountInv, A!TypeOK, Counted, Asked, A!Exists, A!code,
         A!login
<1>3. CASE A!Count(r)
  BY <1>3, NoUses, AccountSizes DEF A!Count, A!Done, A!Idle, AccountInv, A!TypeOK, Counted, Asked, A!Exists, A!code, A!login
<1>4. CASE A!RemoveWrite(r)
  BY <1>4, NoUses, AccountSizes DEF A!RemoveWrite, A!Done, A!Idle, AccountInv, A!TypeOK, Counted, Asked, A!Exists, A!code, A!login
<1> QED BY <1>1, <1>2, <1>3, <1>4

LEMMA AccountNext == ASSUME A!AccountAssumption PROVE AccountInv /\ [A!Next]_(A!vars) => AccountInv'
<1> SUFFICES ASSUME AccountInv, [A!Next]_(A!vars) PROVE AccountInv'
  OBVIOUS
<1>1. CASE UNCHANGED A!vars
  BY <1>1, AccountSizes DEF A!vars, A!login, A!code, AccountInv, A!TypeOK, Counted, Asked, A!Exists
<1>2. CASE A!RemoveCode
  BY <1>2, AccountSizes DEF A!RemoveCode, A!login, AccountInv, A!TypeOK, Counted, Asked, A!Exists
<1>3. ASSUME NEW u \in Users, A!wxWorkLogin(u) \/ A!wxWorkBind(u) \/ A!ChangePassword(u) PROVE AccountInv'
  BY <1>3, AccountSizes DEF A!wxWorkLogin, A!wxWorkBind, A!ChangePassword, A!code, AccountInv, A!TypeOK, Counted, Asked, A!Exists
<1> QED BY <1>1, <1>2, <1>3, AccountAsks, AccountCommits, AccountWrites DEF A!Next

LEMMA AccountInvariance == ASSUME A!AccountAssumption PROVE A!Spec => []AccountInv
  BY AccountInit, AccountNext, PTL DEF A!Spec

\* Every account that was created with an invite code is counted (auth.service register).
THEOREM EveryUseIsCounted == ASSUME A!AccountAssumption PROVE A!Spec => []A!UsesCounted
<1>1. AccountInv => A!UsesCounted
  <2> SUFFICES ASSUME AccountInv PROVE A!UsesCounted
    OBVIOUS
  <2>1. Cardinality(registered) \in Nat
    BY FS_Subset, FS_CardinalityType, AccountSizes DEF A!AccountAssumption, AccountInv, A!TypeOK
  <2> QED BY <2>1, AccountSizes DEF AccountInv, Counted, A!UsesCounted
<1> QED BY <1>1, AccountInvariance, PTL

-----------------------------------------------------------------------------
(* What the measurements of preferred addresses may cost, for any number of   *)
(* panels, jobs and faults. A replica that has reserved a batch and has not   *)
(* yet called its probe owes the month one call: the invariant adds what is   *)
(* owed to what is billed. The daily requests are read and written in two     *)
(* steps, so their ceiling also needs that one replica measures at a time,    *)
(* that is, that no lock session is lost.                                     *)
CONSTANTS Replicas, Jobs, Probe, MaxMonthly, MaxDaily, Batch, MaxFaults, Faults
VARIABLES lock, phase, todo, early, job, read, keys, order, recent, waiting, pausedJobs, month, day,
          batches, requests, billed, tested, faults
O == INSTANCE CfOptimization

\* The instance has its own name for finiteness.
LEMMA ReplicasFinite == O!ReplicasAssumption => IsFiniteSet(Replicas)
  BY Zenon DEF O!ReplicasAssumption, O!IsFiniteSet, IsFiniteSet

MayMeasure == O!BudgetAssumption /\ O!ReplicasAssumption

\* The replicas that have reserved a batch of the month and not yet called a probe.
Reserved(m) == {r \in Replicas : phase[r] = "capabilities" /\ keys[r][1] = m}
Overdue(m) == Cardinality(Reserved(m))

Keyed == \A r \in Replicas : keys[r][1] \in 0 .. 1 /\ keys[r][2] \in 0 .. 1
Clocks == month \in 0 .. 1 /\ day \in 0 .. 1
Counts == batches \in [0 .. 1 -> Nat] /\ billed \in [0 .. 1 -> Nat]
Cycles == /\ phase \in [Replicas -> {"idle", "cycle", "retry", "reserve", "capabilities", "read", "write", "probe"}]
          /\ keys = [r \in Replicas |-> keys[r]] /\ job = [r \in Replicas |-> job[r]]
Billing == \A m \in 0 .. 1 : billed[m] + Overdue(m) <= batches[m] /\ batches[m] <= MaxMonthly

BudgetInv == Keyed /\ Clocks /\ Counts /\ Cycles /\ Billing

LEMMA ReservedSize ==
  ASSUME O!ReplicasAssumption PROVE \A m : IsFiniteSet(Reserved(m)) /\ Overdue(m) \in Nat
<1> TAKE m
<1>1. Reserved(m) \in SUBSET Replicas
  BY DEF Reserved
<1> QED BY <1>1, ReplicasFinite, FS_Subset, FS_CardinalityType DEF Overdue

\* Where the set gets smaller, the bill only gets smaller.
LEMMA FewerReserved ==
  ASSUME O!ReplicasAssumption, \A m \in 0 .. 1 : Reserved(m)' \subseteq Reserved(m)
  PROVE  \A m \in 0 .. 1 : Overdue(m)' \in Nat /\ Overdue(m)' <= Overdue(m)
<1> TAKE m \in 0 .. 1
<1>1. Reserved(m)' \in SUBSET Reserved(m) /\ IsFiniteSet(Reserved(m))
  BY ReservedSize
<1>2. IsFiniteSet(Reserved(m)') /\ Cardinality(Reserved(m)') <= Cardinality(Reserved(m))
  BY <1>1, FS_Subset
<1> QED BY <1>2, FS_CardinalityType DEF Overdue

LEMMA BudgetInit == ASSUME MayMeasure PROVE O!Init => BudgetInv
<1> SUFFICES ASSUME O!Init PROVE BudgetInv
  OBVIOUS
<1>1. \A m \in 0 .. 1 : Overdue(m) = 0
  <2> TAKE m \in 0 .. 1
  <2>1. Reserved(m) = {}
    BY DEF O!Init, Reserved
  <2> QED BY <2>1, FS_EmptySet DEF Overdue
<1> QED BY <1>1 DEF MayMeasure, O!BudgetAssumption, O!Init, BudgetInv, Keyed, Clocks, Counts, Cycles, Billing

\* A step that neither reserves nor bills, nor changes the months of those that have reserved.
LEMMA BillKept ==
  ASSUME MayMeasure, BudgetInv, UNCHANGED <<batches, billed>>,
         \A r \in Replicas : phase'[r] = "capabilities" => phase[r] = "capabilities" /\ keys'[r] = keys[r]
  PROVE  Counts' /\ Billing'
<1>1. \A m \in 0 .. 1 : Reserved(m)' \subseteq Reserved(m)
  BY DEF Reserved
<1>2. \A m \in 0 .. 1 : Overdue(m)' \in Nat /\ Overdue(m) \in Nat /\ Overdue(m)' <= Overdue(m)
  BY <1>1, FewerReserved, ReservedSize DEF MayMeasure
<1>3. \A m \in 0 .. 1 : billed[m] \in Nat /\ batches[m] \in Nat
  BY DEF BudgetInv, Counts
<1>4. Billing'
  <2> SUFFICES ASSUME NEW m \in 0 .. 1 PROVE billed[m] + Overdue(m)' <= batches[m] /\ batches[m] <= MaxMonthly
    BY DEF Billing
  <2> QED BY <1>2, <1>3 DEF BudgetInv, Billing
<1> QED BY <1>4 DEF BudgetInv, Counts

LEMMA BudgetCycle ==
  ASSUME MayMeasure, BudgetInv, NEW r \in Replicas,
         \/ O!Tick(r) \/ O!Pick(r) \/ O!Finish(r) \/ O!Crash(r) \/ O!LoseLock(r)
         \/ O!ReadRetry(r) \/ O!ReadDaily(r) \/ O!WriteDaily(r) \/ O!Call(r)
  PROVE  BudgetInv'
<1>1. /\ Keyed' /\ Clocks' /\ Cycles' /\ UNCHANGED <<batches, billed>>
      /\ \A q \in Replicas : phase'[q] = "capabilities" => phase[q] = "capabilities" /\ keys'[q] = keys[q]
  <2> USE DEF BudgetInv, Keyed, Clocks, Cycles, O!cycle, O!record, O!clock, O!budget, O!spent, O!To
  <2>1. CASE O!Tick(r)
    BY <2>1 DEF O!Tick
  <2>2. CASE O!Pick(r) \/ O!ReadRetry(r)
    BY <2>2 DEF O!Pick, O!ReadRetry, O!Skip
  <2>3. CASE O!Finish(r) \/ O!Crash(r)
    BY <2>3 DEF O!Finish, O!Crash
  <2>4. CASE O!LoseLock(r)
    BY <2>4 DEF O!LoseLock
  <2>5. CASE O!ReadDaily(r)
    BY <2>5 DEF O!ReadDaily
  <2>6. CASE O!WriteDaily(r)
    BY <2>6 DEF O!WriteDaily, O!GivenUp
  <2>7. CASE O!Call(r)
    BY <2>7 DEF O!Call, O!GivenUp
  <2> QED BY <2>1, <2>2, <2>3, <2>4, <2>5, <2>6, <2>7
<1> QED BY <1>1, BillKept DEF BudgetInv

\* A batch is counted before its probe is called.
LEMMA BudgetReserve == ASSUME MayMeasure, BudgetInv, NEW r \in Replicas, O!Reserve(r) PROVE BudgetInv'
<1> DEFINE k == keys[r][1]
<1>1. CASE O!GivenUp(r, "month") /\ UNCHANGED batches
  <2>1. /\ Keyed' /\ Clocks' /\ Cycles' /\ UNCHANGED <<batches, billed>>
        /\ \A q \in Replicas : phase'[q] = "capabilities" => phase[q] = "capabilities" /\ keys'[q] = keys[q]
    BY <1>1 DEF O!Reserve, O!GivenUp, BudgetInv, Keyed, Clocks, Cycles, O!clock, O!spent, O!To
  <2> QED BY <2>1, BillKept DEF BudgetInv
<1>2. CASE ~(batches[k] >= MaxMonthly) /\ O!Counted(k) /\ O!To(r, "capabilities")
  <2>1. k \in 0 .. 1 /\ phase[r] = "reserve" /\ UNCHANGED <<keys, billed>>
    BY DEF O!Reserve, BudgetInv, Keyed, O!spent
  <2>2. Keyed' /\ Clocks' /\ Cycles' /\ Counts'
    BY <1>2, <2>1 DEF O!Reserve, O!Counted, BudgetInv, Keyed, Clocks, Cycles, Counts, O!clock, O!spent, O!To
  <2>3. \A m \in 0 .. 1 : Reserved(m)' = IF m = k THEN Reserved(m) \cup {r} ELSE Reserved(m)
    BY <1>2, <2>1 DEF Reserved, O!To, BudgetInv, Cycles
  <2>4. \A m \in 0 .. 1 : Overdue(m) \in Nat /\ Overdue(m)' \in Nat
                           /\ Overdue(m)' = IF m = k THEN Overdue(m) + 1 ELSE Overdue(m)
    <3> TAKE m \in 0 .. 1
    <3>0. r \notin Reserved(m)
      BY <2>1 DEF Reserved
    <3>1. IsFiniteSet(Reserved(m)) /\ Overdue(m) \in Nat
      BY ReservedSize DEF MayMeasure
    <3>2. CASE m = k
      <4>1. Reserved(m)' = Reserved(m) \cup {r}
        BY <2>3, <3>2
      <4>2. Cardinality(Reserved(m) \cup {r}) = Cardinality(Reserved(m)) + 1
        BY <3>0, <3>1, FS_AddElement
      <4> QED BY <3>1, <3>2, <4>1, <4>2 DEF Overdue
    <3>3. CASE m # k
      BY <2>3, <3>1, <3>3 DEF Overdue
    <3> QED BY <3>1, <3>2, <3>3
  <2>5. \A m \in 0 .. 1 : batches'[m] = IF m = k THEN batches[m] + 1 ELSE batches[m]
    BY <1>2 DEF O!Counted, BudgetInv, Counts
  <2>6. Billing'
    <3> SUFFICES ASSUME NEW m \in 0 .. 1
                 PROVE  billed'[m] + Overdue(m)' <= batches'[m] /\ batches'[m] <= MaxMonthly
      BY DEF Billing
    <3>1. billed[m] \in Nat /\ batches[m] \in Nat /\ MaxMonthly \in Nat /\ billed'[m] = billed[m]
      BY <2>1 DEF BudgetInv, Counts, MayMeasure, O!BudgetAssumption
    <3>2. billed[m] + Overdue(m) <= batches[m] /\ batches[m] <= MaxMonthly /\ (m = k => batches[m] < MaxMonthly)
      BY <1>2, <3>1 DEF BudgetInv, Billing
    <3> QED BY <2>4, <2>5, <3>1, <3>2
  <2> QED BY <2>2, <2>6 DEF BudgetInv
<1> QED BY <1>1, <1>2 DEF O!Reserve

LEMMA BudgetCapabilities == ASSUME MayMeasure, BudgetInv, NEW r \in Replicas, O!Capabilities(r) PROVE BudgetInv'
<1> DEFINE k == keys[r][1]
<1>1. /\ k \in 0 .. 1 /\ phase[r] = "capabilities" /\ UNCHANGED <<keys, batches>>
      /\ billed' = [billed EXCEPT ![k] = @ + 1]
  BY DEF O!Capabilities, BudgetInv, Keyed, O!budget
<1>2. \E step \in {"read", "cycle"} : phase' = [phase EXCEPT ![r] = step]
  BY DEF O!Capabilities, O!GivenUp, O!To
<1>3. Keyed' /\ Clocks' /\ Cycles' /\ Counts'
  BY <1>1, <1>2 DEF O!Capabilities, BudgetInv, Keyed, Clocks, Cycles, Counts, O!clock
<1>4. \A m \in 0 .. 1 : Reserved(m)' = IF m = k THEN Reserved(m) \ {r} ELSE Reserved(m)
  BY <1>1, <1>2 DEF Reserved, BudgetInv, Cycles
<1>5. r \in Reserved(k)
  BY <1>1 DEF Reserved
<1>6. \A m \in 0 .. 1 : Overdue(m) \in Nat /\ Overdue(m)' = IF m = k THEN Overdue(m) - 1 ELSE Overdue(m)
  <2> TAKE m \in 0 .. 1
  <2>1. IsFiniteSet(Reserved(m)) /\ Overdue(m) \in Nat
    BY ReservedSize DEF MayMeasure
  <2>2. CASE m = k
    <3>1. Reserved(m)' = Reserved(m) \ {r} /\ r \in Reserved(m)
      BY <1>4, <1>5, <2>2
    <3>2. Cardinality(Reserved(m) \ {r}) = Cardinality(Reserved(m)) - 1
      BY <2>1, <3>1, FS_RemoveElement
    <3> QED BY <2>1, <2>2, <3>1, <3>2 DEF Overdue
  <2>3. CASE m # k
    BY <1>4, <2>1, <2>3 DEF Overdue
  <2> QED BY <2>1, <2>2, <2>3
<1>7. Billing'
  <2> SUFFICES ASSUME NEW m \in 0 .. 1
               PROVE  billed'[m] + Overdue(m)' <= batches'[m] /\ batches'[m] <= MaxMonthly
    BY DEF Billing
  <2>1. billed[m] \in Nat /\ batches'[m] = batches[m] /\ batches[m] \in Nat /\ MaxMonthly \in Nat
        /\ billed'[m] = IF m = k THEN billed[m] + 1 ELSE billed[m]
    BY <1>1 DEF BudgetInv, Counts, MayMeasure, O!BudgetAssumption
  <2>2. billed[m] + Overdue(m) <= batches[m] /\ batches[m] <= MaxMonthly
    BY DEF BudgetInv, Billing
  <2> QED BY <1>6, <2>1, <2>2
<1> QED BY <1>3, <1>7 DEF BudgetInv

\* A month begins where no measurement of the one before last is under way.
LEMMA BudgetNewDay == ASSUME MayMeasure, BudgetInv, O!NewDay PROVE BudgetInv'
<1>1. UNCHANGED <<phase, keys, job>> /\ Keyed' /\ Cycles' /\ day' \in 0 .. 1
  BY DEF O!NewDay, BudgetInv, Keyed, Cycles, Clocks, O!cycle
<1>2. CASE UNCHANGED <<month, batches, billed>>
  <2>1. \A q \in Replicas : phase'[q] = "capabilities" => phase[q] = "capabilities" /\ keys'[q] = keys[q]
    BY <1>1
  <2>2. Counts' /\ Billing'
    BY <1>2, <2>1, BillKept
  <2> QED BY <1>1, <1>2, <2>2 DEF BudgetInv, Clocks
<1>3. CASE /\ \A r \in Replicas : O!Busy(r) => keys[r][1] = month
           /\ month' = 1 - month
           /\ batches' = [batches EXCEPT ![1 - month] = 0]
           /\ billed' = [billed EXCEPT ![1 - month] = 0]
  <2> DEFINE new == 1 - month
  <2>1. new \in 0 .. 1 /\ new # month /\ Clocks'
    BY <1>1, <1>3 DEF BudgetInv, Clocks
  <2>2. Counts'
    BY <1>3 DEF BudgetInv, Counts
  <2>3. \A m \in 0 .. 1 : Reserved(m)' = Reserved(m)
    BY <1>1 DEF Reserved
  <2>4. Reserved(new) = {}
    BY <1>3, <2>1 DEF Reserved, O!Busy
  <2>5. \A m \in 0 .. 1 : Overdue(m)' = Overdue(m) /\ Overdue(m) \in Nat
    BY <2>3, ReservedSize DEF Overdue, MayMeasure
  <2>6. Overdue(new) = 0
    BY <2>4, FS_EmptySet DEF Overdue
  <2>7. Billing'
    <3> SUFFICES ASSUME NEW m \in 0 .. 1
                 PROVE  billed'[m] + Overdue(m)' <= batches'[m] /\ batches'[m] <= MaxMonthly
      BY DEF Billing
    <3>1. billed[m] + Overdue(m) <= batches[m] /\ batches[m] <= MaxMonthly /\ MaxMonthly \in Nat
      BY DEF BudgetInv, Billing, MayMeasure, O!BudgetAssumption
    <3>2. CASE m = new
      <4>1. billed'[m] = 0 /\ batches'[m] = 0
        BY <1>3, <3>2 DEF BudgetInv, Counts
      <4> QED BY <2>5, <2>6, <3>1, <3>2, <4>1
    <3>3. CASE m # new
      <4>1. billed'[m] = billed[m] /\ batches'[m] = batches[m]
        BY <1>3, <3>3 DEF BudgetInv, Counts
      <4> QED BY <2>5, <3>1, <4>1
    <3> QED BY <3>2, <3>3
  <2> QED BY <1>1, <2>1, <2>2, <2>7 DEF BudgetInv
<1> QED BY <1>2, <1>3 DEF O!NewDay

LEMMA BudgetNext == ASSUME MayMeasure PROVE BudgetInv /\ [O!Next]_(O!vars) => BudgetInv'
<1> SUFFICES ASSUME BudgetInv, [O!Next]_(O!vars) PROVE BudgetInv'
  OBVIOUS
<1>1. CASE O!NextSlot \/ O!RetryDue \/ (\E j \in Jobs : O!Pause(j)) \/ UNCHANGED O!vars
  <2>1. UNCHANGED <<phase, keys, job, month, day, batches, billed>>
    BY <1>1 DEF O!NextSlot, O!RetryDue, O!Pause, O!vars, O!cycle, O!clock, O!budget, O!spent
  <2>2. Counts' /\ Billing'
    BY <2>1, BillKept
  <2> QED BY <2>1, <2>2 DEF BudgetInv, Keyed, Clocks, Cycles
<1> QED BY <1>1, BudgetCycle, BudgetReserve, BudgetCapabilities, BudgetNewDay DEF O!Next, O!Measuring

LEMMA BudgetInvariance == ASSUME MayMeasure PROVE O!Spec => []BudgetInv
  BY BudgetInit, BudgetNext, PTL DEF O!Spec

\* No month has more batches called than the operator allows, whatever crashes, fails or loses
\* its lock, and however many panels run (cf-optimization.service measure).
THEOREM MonthIsPaid == ASSUME MayMeasure PROVE O!Spec => []O!MonthlyCeiling
<1>1. BudgetInv => O!MonthlyCeiling
  <2> SUFFICES ASSUME BudgetInv, NEW m \in 0 .. 1 PROVE billed[m] <= batches[m] /\ batches[m] <= MaxMonthly
    BY DEF O!MonthlyCeiling
  <2>1. billed[m] + Overdue(m) <= batches[m] /\ batches[m] <= MaxMonthly
    BY DEF BudgetInv, Billing
  <2>2. billed[m] \in Nat /\ batches[m] \in Nat /\ Overdue(m) \in Nat
    BY ReservedSize DEF BudgetInv, Counts, MayMeasure
  <2> QED BY <2>1, <2>2
<1> QED BY <1>1, BudgetInvariance, PTL

\* Whoever holds the lock has held it since it read the pause, and no operator can pause a node
\* without it: what was read is still so at each call. A lock that is lost frees its cycle
\* of the promise, and it is not taken again before that cycle is over.
PauseInv ==
    \A r \in Replicas : lock = r =>
        /\ phase[r] # "idle"
        /\ phase[r] = "retry" => Head(todo[r]) \notin pausedJobs
        /\ O!Busy(r) => job[r] \notin pausedJobs
Tracked == todo = [r \in Replicas |-> todo[r]]

LEMMA PauseMeasures ==
  ASSUME BudgetInv, Tracked, PauseInv, NEW r \in Replicas, O!Measuring(r)
  PROVE  Tracked' /\ PauseInv'
<1> USE DEF BudgetInv, Cycles, Tracked, PauseInv, O!Busy, O!To, O!GivenUp
<1>1. CASE O!ReadRetry(r)
  BY <1>1 DEF O!ReadRetry, O!Skip
<1>2. CASE O!Reserve(r)
  BY <1>2 DEF O!Reserve
<1>3. CASE O!Capabilities(r)
  BY <1>3 DEF O!Capabilities
<1>4. CASE O!ReadDaily(r)
  BY <1>4 DEF O!ReadDaily
<1>5. CASE O!WriteDaily(r)
  BY <1>5 DEF O!WriteDaily
<1>6. CASE O!Call(r)
  BY <1>6 DEF O!Call
<1> QED BY <1>1, <1>2, <1>3, <1>4, <1>5, <1>6 DEF O!Measuring

LEMMA PauseNext ==
  ASSUME MayMeasure PROVE BudgetInv /\ Tracked /\ PauseInv /\ [O!Next]_(O!vars) => Tracked' /\ PauseInv'
<1> SUFFICES ASSUME BudgetInv, Tracked, PauseInv, [O!Next]_(O!vars) PROVE Tracked' /\ PauseInv'
  OBVIOUS
<1> USE DEF BudgetInv, Cycles, Tracked, PauseInv, O!Busy, O!To, MayMeasure, O!ReplicasAssumption
<1>1. ASSUME NEW r \in Replicas, O!Tick(r) PROVE Tracked' /\ PauseInv'
  BY <1>1 DEF O!Tick
<1>2. ASSUME NEW r \in Replicas, O!Pick(r) PROVE Tracked' /\ PauseInv'
  BY <1>2 DEF O!Pick, O!Skip
<1>3. ASSUME NEW r \in Replicas, O!Finish(r) \/ O!Crash(r) PROVE Tracked' /\ PauseInv'
  BY <1>3 DEF O!Finish, O!Crash
<1>4. ASSUME NEW r \in Replicas, O!LoseLock(r) PROVE Tracked' /\ PauseInv'
  BY <1>4 DEF O!LoseLock
<1>5. CASE O!NextSlot \/ O!RetryDue \/ O!NewDay \/ UNCHANGED O!vars
  BY <1>5 DEF O!NextSlot, O!RetryDue, O!NewDay, O!vars, O!cycle
<1>6. ASSUME NEW j \in Jobs, O!Pause(j) PROVE Tracked' /\ PauseInv'
  BY <1>6 DEF O!Pause, O!cycle
<1> QED BY <1>1, <1>2, <1>3, <1>4, <1>5, <1>6, PauseMeasures DEF O!Next

\* Once an operator has been told that a node is paused, no cycle that holds its lock is at a
\* reservation or a call for it, though the pause was read several awaits before them
\* (cf-optimization.service tick, rollback).
THEOREM PausedCostsNothing == ASSUME MayMeasure PROVE O!Spec => []O!PausedIsFree
<1>1. O!Init => Tracked /\ PauseInv
  BY DEF O!Init, Tracked, PauseInv, MayMeasure, O!ReplicasAssumption
<1>2. BudgetInv /\ PauseInv => O!PausedIsFree
  BY DEF PauseInv, O!PausedIsFree
<1> QED BY <1>1, <1>2, BudgetInit, BudgetNext, PauseNext, PTL DEF O!Spec

\* One cycle at a time, as long as no lock is lost: what is read of the day's budget is what
\* it is when it is written, and a call was written down before it is made.
Alone == \A r \in Replicas : phase[r] # "idle" => lock = r
Days == /\ requests \in [O!Probes -> [0 .. 1 -> Nat]] /\ tested \in [O!Probes -> [0 .. 1 -> Nat]]
        /\ read = [r \in Replicas |-> read[r]]
UpToDate ==
    \A r \in Replicas : phase[r] = "write" /\ Probe[job[r]] \in O!Probes => read[r] = requests[Probe[job[r]]][keys[r][2]]
WrittenDown ==
    \A p \in O!Probes, d \in 0 .. 1 :
        /\ tested[p][d] <= requests[p][d] /\ requests[p][d] <= MaxDaily
        /\ \A r \in Replicas : phase[r] = "probe" /\ Probe[job[r]] = p /\ keys[r][2] = d =>
              tested[p][d] + Batch <= requests[p][d]

DayInv == Alone /\ Days /\ UpToDate /\ WrittenDown

LEMMA DayInit == ASSUME MayMeasure PROVE O!Init => DayInv
<1> SUFFICES ASSUME O!Init PROVE DayInv
  OBVIOUS
<1>1. Alone /\ UpToDate
  BY DEF O!Init, Alone, UpToDate
<1>2. requests = [p \in O!Probes |-> [d \in 0 .. 1 |-> 0]] /\ tested = requests /\ read = [r \in Replicas |-> 0]
      /\ \A r \in Replicas : phase[r] = "idle"
  BY DEF O!Init
<1>3. MaxDaily \in Nat
  BY DEF MayMeasure, O!BudgetAssumption
<1>4. \A p \in O!Probes, d \in 0 .. 1 : tested[p][d] = 0 /\ requests[p][d] = 0
  BY <1>2
<1>5. WrittenDown
  BY <1>2, <1>3, <1>4 DEF WrittenDown
<1>6. Days
  BY <1>2 DEF Days
<1> QED BY <1>1, <1>5, <1>6 DEF DayInv

\* Steps that leave the day's budget alone, and those that are about to use it.
LEMMA DayKept ==
  ASSUME DayInv, UNCHANGED <<requests, tested>>,
         \A q \in Replicas : phase'[q] \in {"write", "probe"} =>
             phase'[q] = phase[q] /\ job'[q] = job[q] /\ keys'[q] = keys[q] /\ read'[q] = read[q]
  PROVE  UpToDate' /\ WrittenDown'
<1>1. UpToDate'
  BY DEF DayInv, UpToDate
<1>2. WrittenDown'
  BY DEF DayInv, WrittenDown
<1> QED BY <1>1, <1>2

LEMMA DayCycle ==
  ASSUME MayMeasure, "lost" \notin Faults, BudgetInv, DayInv, NEW r \in Replicas,
         O!Tick(r) \/ O!Pick(r) \/ O!ReadRetry(r) \/ O!Finish(r) \/ O!Crash(r) \/ O!Reserve(r) \/ O!Capabilities(r)
  PROVE  DayInv'
<1>1. /\ UNCHANGED <<requests, tested, read>>
      /\ \A q \in Replicas : phase'[q] \in {"write", "probe"} =>
             phase'[q] = phase[q] /\ job'[q] = job[q] /\ keys'[q] = keys[q] /\ read'[q] = read[q]
  <2> USE DEF BudgetInv, Cycles, O!To, O!budget, O!spent, O!GivenUp
  <2>1. CASE O!Tick(r)
    BY <2>1 DEF O!Tick
  <2>2. CASE O!Pick(r) \/ O!ReadRetry(r)
    BY <2>2 DEF O!Pick, O!ReadRetry, O!Skip
  <2>3. CASE O!Finish(r) \/ O!Crash(r)
    BY <2>3 DEF O!Finish, O!Crash
  <2>4. CASE O!Reserve(r) \/ O!Capabilities(r)
    BY <2>4 DEF O!Reserve, O!Capabilities
  <2> QED BY <2>1, <2>2, <2>3, <2>4
<1>2. Alone'
  <2> USE DEF BudgetInv, Cycles, DayInv, Alone, O!To, O!GivenUp, MayMeasure, O!ReplicasAssumption
  <2>1. CASE O!Tick(r)
    BY <2>1 DEF O!Tick
  <2>2. CASE O!Pick(r) \/ O!ReadRetry(r)
    BY <2>2 DEF O!Pick, O!ReadRetry, O!Skip
  <2>3. CASE O!Finish(r) \/ O!Crash(r)
    BY <2>3 DEF O!Finish, O!Crash
  <2>4. CASE O!Reserve(r) \/ O!Capabilities(r)
    BY <2>4 DEF O!Reserve, O!Capabilities
  <2> QED BY <2>1, <2>2, <2>3, <2>4
<1> QED BY <1>1, <1>2, DayKept DEF DayInv, Days

LEMMA DayRead == ASSUME MayMeasure, BudgetInv, DayInv, NEW r \in Replicas, O!ReadDaily(r) PROVE DayInv'
<1>1. /\ read' = [read EXCEPT ![r] = requests[Probe[job[r]]][keys[r][2]]] /\ phase' = [phase EXCEPT ![r] = "write"]
      /\ phase[r] = "read" /\ UNCHANGED <<lock, job, keys, requests, tested>>
  BY DEF O!ReadDaily, O!To, O!budget, O!spent
<1>2. Alone' /\ Days'
  BY <1>1 DEF BudgetInv, Cycles, DayInv, Alone, Days
<1>3. UpToDate'
  BY <1>1 DEF BudgetInv, Cycles, DayInv, Days, UpToDate
<1>4. WrittenDown'
  BY <1>1 DEF BudgetInv, Cycles, DayInv, WrittenDown
<1> QED BY <1>2, <1>3, <1>4 DEF DayInv

LEMMA DayWrite == ASSUME MayMeasure, BudgetInv, DayInv, NEW r \in Replicas, O!WriteDaily(r) PROVE DayInv'
<1> DEFINE p == Probe[job[r]]
           d == keys[r][2]
<1>1. phase[r] = "write" /\ d \in 0 .. 1 /\ UNCHANGED <<lock, job, keys, read, tested>>
  BY DEF O!WriteDaily, BudgetInv, Keyed, O!spent
<1>2. \A q \in Replicas \ {r} : phase[q] = "idle"
  BY <1>1 DEF DayInv, Alone
<1>3. CASE phase' = [phase EXCEPT ![r] = "cycle"] /\ UNCHANGED requests
  <2>1. UpToDate' /\ WrittenDown'
    BY <1>1, <1>3, DayKept DEF BudgetInv, Cycles
  <2> QED BY <1>1, <1>3, <2>1 DEF BudgetInv, Cycles, DayInv, Alone, Days
<1>4. CASE /\ ~(read[r] + Batch > MaxDaily) /\ phase' = [phase EXCEPT ![r] = "probe"]
           /\ requests' = [requests EXCEPT ![p][d] = read[r] + Batch]
  <2> HIDE DEF p, d
  <2>1. Alone'
    BY <1>1, <1>4 DEF BudgetInv, Cycles, DayInv, Alone
  <2>2. UpToDate'
    BY <1>2, <1>4 DEF BudgetInv, Cycles, UpToDate
  <2>3. CASE p \notin O!Probes
    <3>1. requests' = requests
      BY <1>4, <2>3 DEF DayInv, Days
    <3>2. WrittenDown'
      BY <1>1, <1>2, <1>4, <2>3, <3>1 DEF BudgetInv, Cycles, DayInv, WrittenDown, p
    <3> QED BY <1>1, <2>1, <2>2, <3>1, <3>2 DEF DayInv, Days
  <2>4. CASE p \in O!Probes
    <3>1. read[r] = requests[p][d] /\ read[r] \in Nat /\ Batch \in Nat /\ MaxDaily \in Nat
      <4>1. read[r] = requests[p][d]
        BY <1>1, <2>4 DEF DayInv, UpToDate, p, d
      <4> QED BY <1>1, <2>4, <4>1 DEF DayInv, Days, MayMeasure, O!BudgetAssumption
    <3>2. Days'
      BY <1>1, <1>4, <2>4, <3>1 DEF DayInv, Days
    <3>3. \A a \in O!Probes, b \in 0 .. 1 :
            requests'[a][b] = IF a = p /\ b = d THEN read[r] + Batch ELSE requests[a][b]
      BY <1>1, <1>4, <2>4 DEF DayInv, Days
    <3>4. WrittenDown'
      <4> SUFFICES ASSUME NEW a \in O!Probes, NEW b \in 0 .. 1
                   PROVE  /\ tested[a][b] <= requests'[a][b] /\ requests'[a][b] <= MaxDaily
                          /\ \A q \in Replicas : phase'[q] = "probe" /\ Probe[job[q]] = a /\ keys[q][2] = b =>
                                tested[a][b] + Batch <= requests'[a][b]
        BY <1>1 DEF WrittenDown
      <4>1. tested[a][b] <= requests[a][b] /\ requests[a][b] <= MaxDaily
        BY DEF DayInv, WrittenDown
      <4>2. tested[a][b] \in Nat /\ requests[a][b] \in Nat
        BY DEF DayInv, Days
      <4>3. \A q \in Replicas : phase'[q] = "probe" => q = r
        BY <1>2, <1>4 DEF BudgetInv, Cycles
      <4>4. CASE a = p /\ b = d
        BY <1>4, <3>1, <3>3, <4>1, <4>2, <4>4
      <4>5. CASE ~(a = p /\ b = d)
        <5>1. ~(Probe[job[r]] = a /\ keys[r][2] = b)
          BY <4>5 DEF p, d
        <5> QED BY <3>3, <4>1, <4>3, <4>5, <5>1
      <4> QED BY <4>4, <4>5
    <3> QED BY <2>1, <2>2, <3>2, <3>4 DEF DayInv
  <2> QED BY <2>3, <2>4
<1> QED BY <1>3, <1>4 DEF O!WriteDaily, O!GivenUp, O!TooMany, O!To

LEMMA DayCall == ASSUME MayMeasure, BudgetInv, DayInv, NEW r \in Replicas, O!Call(r) PROVE DayInv'
<1> DEFINE p == Probe[job[r]]
           d == keys[r][2]
<1>1. /\ phase[r] = "probe" /\ d \in 0 .. 1 /\ UNCHANGED <<lock, job, keys, read, requests>>
      /\ tested' = [tested EXCEPT ![p][d] = @ + Batch] /\ phase' = [phase EXCEPT ![r] = "cycle"]
  BY DEF O!Call, O!GivenUp, O!To, BudgetInv, Keyed, O!budget
<1>2. \A q \in Replicas : phase'[q] \in {"idle", "cycle"}
  BY <1>1 DEF BudgetInv, Cycles, DayInv, Alone
<1>3. Alone' /\ UpToDate'
  BY <1>1, <1>2 DEF BudgetInv, Cycles, DayInv, Alone, UpToDate
<1> HIDE DEF p, d
<1>4. Days' /\ \A a \in O!Probes, b \in 0 .. 1 : tested'[a][b] = IF a = p /\ b = d THEN tested[a][b] + Batch ELSE tested[a][b]
  <2>1. Batch \in Nat
    BY DEF MayMeasure, O!BudgetAssumption
  <2>2. CASE p \in O!Probes
    BY <1>1, <2>1, <2>2 DEF DayInv, Days
  <2>3. CASE p \notin O!Probes
    BY <1>1, <2>3 DEF DayInv, Days
  <2> QED BY <2>2, <2>3
<1>5. WrittenDown'
  <2> SUFFICES ASSUME NEW a \in O!Probes, NEW b \in 0 .. 1
               PROVE  tested'[a][b] <= requests[a][b] /\ requests[a][b] <= MaxDaily
    BY <1>1, <1>2 DEF WrittenDown
  <2>1. tested[a][b] <= requests[a][b] /\ requests[a][b] <= MaxDaily
    BY DEF DayInv, WrittenDown
  <2>2. a = p /\ b = d => tested[a][b] + Batch <= requests[a][b]
    BY <1>1 DEF DayInv, WrittenDown, p, d
  <2> QED BY <1>4, <2>1, <2>2
<1> QED BY <1>3, <1>4, <1>5 DEF DayInv

LEMMA DayBegins == ASSUME MayMeasure, BudgetInv, DayInv, O!NewDay PROVE DayInv'
<1> DEFINE new == 1 - day
<1>1. /\ \A r \in Replicas : O!Busy(r) => keys[r][2] = day
      /\ UNCHANGED <<lock, phase, job, read, keys>>
      /\ requests' = [p \in O!Probes |-> [requests[p] EXCEPT ![new] = 0]]
      /\ tested' = [p \in O!Probes |-> [tested[p] EXCEPT ![new] = 0]]
  BY DEF O!NewDay, O!cycle
<1>2. new \in 0 .. 1 /\ new # day /\ MaxDaily \in Nat
  BY DEF BudgetInv, Clocks, MayMeasure, O!BudgetAssumption
<1> HIDE DEF new
<1>3. Alone' /\ Days'
  BY <1>1, <1>2 DEF DayInv, Alone, Days
<1>4. \A p \in O!Probes, d \in 0 .. 1 : /\ requests'[p][d] = IF d = new THEN 0 ELSE requests[p][d]
                                      /\ tested'[p][d] = IF d = new THEN 0 ELSE tested[p][d]
  BY <1>1, <1>2 DEF DayInv, Days
<1>5. UpToDate'
  BY <1>1, <1>2, <1>4 DEF DayInv, UpToDate, BudgetInv, Keyed, O!Busy
<1>6. WrittenDown'
  BY <1>1, <1>2, <1>4 DEF DayInv, WrittenDown, O!Busy
<1> QED BY <1>3, <1>5, <1>6 DEF DayInv

LEMMA DayNext ==
  ASSUME MayMeasure, "lost" \notin Faults PROVE BudgetInv /\ DayInv /\ [O!Next]_(O!vars) => DayInv'
<1> SUFFICES ASSUME BudgetInv, DayInv, [O!Next]_(O!vars) PROVE DayInv'
  OBVIOUS
<1>1. CASE O!NextSlot \/ O!RetryDue \/ (\E j \in Jobs : O!Pause(j)) \/ UNCHANGED O!vars
  <2>1. UNCHANGED <<lock, phase, keys, job, read, requests, tested>>
    BY <1>1 DEF O!NextSlot, O!RetryDue, O!Pause, O!vars, O!cycle, O!budget, O!spent
  <2> QED BY <2>1 DEF DayInv, Alone, Days, UpToDate, WrittenDown
<1>2. ASSUME NEW r \in Replicas, O!LoseLock(r) PROVE FALSE
  BY <1>2 DEF O!LoseLock
<1> QED BY <1>1, <1>2, DayCycle, DayRead, DayWrite, DayCall, DayBegins DEF O!Next, O!Measuring

\* No day has more candidates tested by one probe than its ceiling, whatever crashes and
\* changes: the lock of the cycles is what makes the unlocked read and write of it safe.
THEOREM DayIsPaid == ASSUME MayMeasure, "lost" \notin Faults PROVE O!Spec => []O!DailyCeiling
<1>1. BudgetInv /\ DayInv => O!DailyCeiling
  <2> SUFFICES ASSUME DayInv, NEW p \in O!Probes, NEW d \in 0 .. 1 PROVE tested[p][d] <= MaxDaily
    BY DEF O!DailyCeiling
  <2>1. tested[p][d] \in Nat /\ requests[p][d] \in Nat /\ MaxDaily \in Nat
    BY DEF DayInv, Days, MayMeasure, O!BudgetAssumption
  <2> QED BY <2>1 DEF DayInv, WrittenDown
<1>2. O!Init /\ [][O!Next]_(O!vars) => [](BudgetInv /\ DayInv)
  BY BudgetInit, BudgetNext, DayInit, DayNext, PTL
<1> QED BY <1>1, <1>2, PTL DEF O!Spec

-----------------------------------------------------------------------------
(* What the cores and the clients of one node are told. The invariant is about *)
(* its row: a shape that a core speaks, a key pair that is one, a name of the  *)
(* zone where the certificate needs one, and IPv4-only on Xray alone; what     *)
(* the generators make of such a row agrees.                                   *)
CONSTANTS Presets, Protocols, Transports, Identities, Keys, Exits, Policies
VARIABLE node
F == INSTANCE NodeConfigs WITH row <- node

IsShape(s) == s = F!Shape(s.protocol, s.impl, s.net, s.tls)
IsRow(r) == r = F!Row(r, r.domain, r.dns, r.policy, r.exit, r.creds)
IsCreds(c) == c = [uuid |-> c.uuid, priv |-> c.priv, pub |-> c.pub, sid |-> c.sid,
                   path |-> c.path, mode |-> c.mode, alpn |-> c.alpn]

\* A shape that a core speaks.
NodeSound(s) ==
    /\ s.tls \in {"NONE", "TLS", "REALITY"}
    /\ s.net = "XHTTP" => s.protocol = "VLESS" /\ s.impl = "XRAY" /\ s.tls # "NONE"
    /\ s.tls = "REALITY" => s.protocol = "VLESS"
    /\ F!isManagedCertificateProtocol(s.protocol) => s.net = F!Null /\ s.tls = "TLS"

KeysPaired(c) == IsCreds(c) /\ c.priv = c.pub /\ c.priv \in Keys \cup {F!Null}

RowInv(r) ==
    /\ IsRow(r) /\ NodeSound(r) /\ KeysPaired(r.creds)
    /\ r.tls = "REALITY" => r.creds.pub # F!Null
    /\ r.exit \in {F!Null, "MANAGED_SERVER", "SOCKS5"} /\ r.policy \in {"AUTO", "IPV4_ONLY"} /\ r.dns \in BOOLEAN
    /\ F!isManagedCertificateProtocol(r.protocol) => r.domain = "zone" /\ r.dns
    /\ F!isCfXhttp(r) => r.domain = F!Null \/ (r.domain = "zone" /\ r.dns)
    /\ r.policy = "IPV4_ONLY" => r.impl \in {F!Null, "XRAY"}

ShapesInv == F!Exists => RowInv(node)

LEMMA RequestShape ==
  ASSUME F!FormsAssumption, NEW q \in F!Requests \cup {F!Shape(F!Null, F!Null, F!Null, F!Null)}
  PROVE  IsShape(q) /\ q.tls \in {F!Null, "NONE", "TLS", "REALITY"}
<1>1. CASE q = F!Shape(F!Null, F!Null, F!Null, F!Null)
  BY <1>1 DEF F!Shape, IsShape, F!Null
<1>2. CASE q \in F!Requests
  <2>1. PICK p \in Protocols : \E i \in F!Implementations(p) \cup {F!Null}, n \in Transports, t \in F!TlsModes(p) : q = F!Shape(p, i, n, t)
    BY <1>2 DEF F!Requests
  <2>2. PICK i \in F!Implementations(p) \cup {F!Null}, n \in Transports, t \in F!TlsModes(p) : q = F!Shape(p, i, n, t)
    BY <2>1
  <2>3. t \in {"NONE", "TLS", "REALITY"}
    BY <2>2 DEF F!TlsModes
  <2> QED BY <2>2, <2>3 DEF F!Shape, IsShape
<1> QED BY <1>1, <1>2

LEMMA NormalSound ==
  ASSUME NEW s, s.tls \in {F!Null, "NONE", "TLS", "REALITY"}, ~F!Unsupported(s)
  PROVE  NodeSound(F!Normal(s)) /\ IsShape(F!Normal(s)) /\ F!Normal(s).protocol = s.protocol
  BY DEF F!Unsupported, F!Normal, NodeSound, F!Shape, IsShape, F!isManagedCertificateProtocol, F!Or, F!Null

LEMMA Ensured ==
  ASSUME F!KeysAssumption, NEW s, NodeSound(s), NEW c, KeysPaired(c), NEW k \in Keys
  PROVE  LET e == F!ensureCredentials(s, c, k)
         IN  /\ KeysPaired(e) /\ (s.tls = "REALITY" => e.pub # F!Null)
             /\ F!isCfXhttp(s) => e = c
             /\ c.pub # F!Null => e.pub = c.pub
             /\ e.sid \in {c.sid, "sid"}
<1> DEFINE e == F!ensureCredentials(s, c, k)
<1>0. c = [uuid |-> c.uuid, priv |-> c.priv, pub |-> c.pub, sid |-> c.sid, path |-> c.path, mode |-> c.mode, alpn |-> c.alpn]
  BY DEF KeysPaired, IsCreds
<1>1. IsCreds(e)
  <2>1. DOMAIN e = DOMAIN c
    BY DEF F!ensureCredentials
  <2>2. DOMAIN c = {"uuid", "priv", "pub", "sid", "path", "mode", "alpn"}
    BY <1>0
  <2>3. e = [f \in DOMAIN e |-> e[f]]
    BY DEF F!ensureCredentials
  <2> HIDE DEF e
  <2>4. e = [f \in {"uuid", "priv", "pub", "sid", "path", "mode", "alpn"} |-> e[f]]
    BY <2>1, <2>2, <2>3
  <2> QED BY <2>4 DEF IsCreds
<1>2. /\ e.priv = IF (s.net = "XHTTP" \/ s.tls = "REALITY") /\ ~F!isCfXhttp(s) /\ (c.priv = F!Null \/ c.pub = F!Null) THEN k ELSE c.priv
      /\ e.pub = IF (s.net = "XHTTP" \/ s.tls = "REALITY") /\ ~F!isCfXhttp(s) /\ (c.priv = F!Null \/ c.pub = F!Null) THEN k ELSE c.pub
      /\ e.uuid = (IF (s.net = "XHTTP" /\ ~F!isCfXhttp(s)) \/ s.protocol = "TUIC" THEN F!Or(c.uuid, "uuid") ELSE c.uuid)
      /\ e.sid = (IF s.net = "XHTTP" /\ ~F!isCfXhttp(s) THEN F!Or(c.sid, "sid") ELSE c.sid)
      /\ e.path = (IF s.net = "XHTTP" /\ ~F!isCfXhttp(s) THEN F!Or(c.path, "/path") ELSE c.path)
      /\ e.mode = c.mode /\ e.alpn = c.alpn
  BY <1>0 DEF F!ensureCredentials
<1> HIDE DEF e
<1>3. F!isCfXhttp(s) => e = c
  BY <1>0, <1>1, <1>2 DEF F!isCfXhttp, IsCreds
<1>4. e.priv = e.pub /\ e.priv \in Keys \cup {F!Null} /\ (c.pub # F!Null => e.pub = c.pub)
  BY <1>2 DEF KeysPaired
<1>5. s.tls = "REALITY" => e.pub # F!Null
  BY <1>2 DEF KeysPaired, F!isCfXhttp, F!KeysAssumption
<1>6. e.sid \in {c.sid, "sid"}
  BY <1>2 DEF F!Or
<1> QED BY <1>1, <1>3, <1>4, <1>5, <1>6 DEF KeysPaired, e

LEMMA MergedPaired ==
  ASSUME F!FormsAssumption, NEW old, KeysPaired(old), NEW new \in Identities \cup {F!Absent}
  PROVE  LET m == F!Merged(old, new)
         IN  KeysPaired(m) /\ m.pub = old.pub /\ m.sid = old.sid /\ (new = F!Absent => m = old)
<1>1. CASE new = F!Absent
  BY <1>1 DEF F!Merged
<1>2. CASE new # F!Absent
  <2>1. new = [uuid |-> new.uuid, priv |-> F!Null, pub |-> F!Null, sid |-> F!Null, path |-> F!Null, mode |-> F!Null, alpn |-> F!Null]
    BY <1>2 DEF F!FormsAssumption, F!PresetsAssumption, F!ProtocolsAssumption, F!IdentitiesAssumption, F!Blank
  <2>2. DOMAIN old = {"uuid", "priv", "pub", "sid", "path", "mode", "alpn"}
    BY DEF KeysPaired, IsCreds
  <2> DEFINE m == F!Merged(old, new)
  <2>3. m = [f \in {"uuid", "priv", "pub", "sid", "path", "mode", "alpn"} |-> F!Or(new[f], old[f])]
    BY <1>2, <2>2 DEF F!Merged
  <2> HIDE DEF m
  <2>4. m.priv = old.priv /\ m.pub = old.pub /\ m.sid = old.sid
    BY <2>1, <2>3 DEF F!Or
  <2>5. IsCreds(m)
    BY <2>3 DEF IsCreds
  <2> QED BY <1>2, <2>4, <2>5 DEF KeysPaired, m
<1> QED BY <1>1, <1>2

LEMMA IsARow ==
  ASSUME NEW s, NEW domain, NEW dns, NEW policy, NEW exit, NEW creds
  PROVE  LET r == F!Row(s, domain, dns, policy, exit, creds)
         IN  /\ r # F!None /\ IsRow(r)
             /\ r.protocol = s.protocol /\ r.impl = s.impl /\ r.net = s.net /\ r.tls = s.tls
             /\ r.domain = domain /\ r.dns = dns /\ r.policy = policy /\ r.exit = exit /\ r.creds = creds
<1> DEFINE r == F!Row(s, domain, dns, policy, exit, creds)
<1>1. DOMAIN r # DOMAIN F!None
  BY DEF F!Row, F!None
<1>2. r # F!None
  BY <1>1
<1> QED BY <1>2 DEF F!Row, IsRow

LEMMA MadeFromForm == ASSUME F!FormsAssumption, F!Create PROVE node' # F!None /\ RowInv(node')
<1>1. PICK s \in F!Requests, domain \in {F!Null, "own"}, policy \in Policies, c \in Identities, k \in Keys :
        /\ ~F!Unsupported(s) /\ ~F!isCfXhttp(F!Normal(s)) /\ ~F!UnsupportedPolicy(F!Normal(s), policy)
        /\ LET n == F!Normal(s)
               named == F!isManagedCertificateProtocol(n.protocol)
           IN  node' = F!Row(n, IF named THEN "zone" ELSE domain, named, policy, F!Null, F!ensureCredentials(n, c, k))
  BY DEF F!Create
<1> DEFINE n == F!Normal(s)
           named == F!isManagedCertificateProtocol(n.protocol)
           e == F!ensureCredentials(n, c, k)
           d == IF named THEN "zone" ELSE domain
<1>2. NodeSound(n) /\ IsShape(n)
  BY <1>1, RequestShape, NormalSound
<1>3. KeysPaired(c)
  BY DEF F!FormsAssumption, F!PresetsAssumption, F!ProtocolsAssumption, F!IdentitiesAssumption, F!Blank,
         KeysPaired, IsCreds
<1>4. KeysPaired(e) /\ (n.tls = "REALITY" => e.pub # F!Null)
  BY <1>2, <1>3, Ensured DEF F!FormsAssumption, F!PresetsAssumption, F!ProtocolsAssumption, F!IdentitiesAssumption
<1>5. node' = F!Row(n, d, named, policy, F!Null, e) /\ ~F!isCfXhttp(n) /\ ~F!UnsupportedPolicy(n, policy)
  BY <1>1
<1>6. named \in BOOLEAN /\ policy \in {"AUTO", "IPV4_ONLY"}
  BY DEF F!isManagedCertificateProtocol, F!FormsAssumption, F!PoliciesAssumption
<1>7. policy = "IPV4_ONLY" => n.impl \in {F!Null, "XRAY"}
  BY <1>5 DEF F!UnsupportedPolicy, F!Or
<1>8. named <=> F!isManagedCertificateProtocol(n.protocol)
  OBVIOUS
<1> HIDE DEF n, named, e
<1>9. /\ node' # F!None /\ IsRow(node')
      /\ node'.protocol = n.protocol /\ node'.impl = n.impl /\ node'.net = n.net /\ node'.tls = n.tls
      /\ node'.domain = d /\ node'.dns = named /\ node'.policy = policy /\ node'.exit = F!Null /\ node'.creds = e
  BY <1>5, IsARow
<1> QED BY <1>2, <1>4, <1>5, <1>6, <1>7, <1>8, <1>9 DEF RowInv, NodeSound, F!isCfXhttp

LEMMA MadeFromPreset == ASSUME F!FormsAssumption, F!CreateFromPreset PROVE node' # F!None /\ RowInv(node')
<1>1. PICK preset \in Presets, exit \in Exits, k \in Keys : \E domain \in F!Named(preset, exit) :
        node' = F!Row(F!PROTOCOL_PRESETS[preset], domain, domain = "zone", "AUTO", exit, F!Generated(preset, k))
  BY DEF F!CreateFromPreset
<1>2. PICK domain \in F!Named(preset, exit) :
        node' = F!Row(F!PROTOCOL_PRESETS[preset], domain, domain = "zone", "AUTO", exit, F!Generated(preset, k))
  BY <1>1
<1> DEFINE s == F!PROTOCOL_PRESETS[preset]
           g == F!Generated(preset, k)
<1>3. preset \in DOMAIN F!PROTOCOL_PRESETS
  BY DEF F!FormsAssumption, F!PresetsAssumption, F!ProtocolsAssumption, F!IdentitiesAssumption
<1>4. NodeSound(s)
  BY <1>3 DEF F!PROTOCOL_PRESETS, F!Shape, NodeSound, F!isManagedCertificateProtocol, F!Null
<1>5. /\ F!isCfXhttp(s) => preset \in F!CfPresets
      /\ F!isManagedCertificateProtocol(s.protocol) => preset \in F!STRICT_DNS_PRESETS
  BY <1>3 DEF F!PROTOCOL_PRESETS, F!Shape, F!isCfXhttp, F!CfPresets, F!isManagedCertificateProtocol,
         F!STRICT_DNS_PRESETS
<1>6. KeysPaired(g) /\ (s.tls = "REALITY" => g.pub # F!Null)
  <2>1. IsCreds(g)
    <3>1. DOMAIN g = DOMAIN F!Blank /\ g = [f \in DOMAIN g |-> g[f]]
      BY DEF F!Generated
    <3>2. DOMAIN F!Blank = {"uuid", "priv", "pub", "sid", "path", "mode", "alpn"}
      BY DEF F!Blank
    <3> HIDE DEF g
    <3>3. g = [f \in {"uuid", "priv", "pub", "sid", "path", "mode", "alpn"} |-> g[f]]
      BY <3>1, <3>2
    <3> QED BY <3>3 DEF IsCreds
  <2>2. g.priv = (IF s.tls = "REALITY" THEN k ELSE F!Null) /\ g.pub = (IF s.tls = "REALITY" THEN k ELSE F!Null)
    BY DEF F!Generated, F!Blank
  <2> QED BY <2>1, <2>2 DEF KeysPaired, F!FormsAssumption, F!KeysAssumption
<1>7. /\ preset \in F!STRICT_DNS_PRESETS => domain = "zone"
      /\ preset \in F!CfPresets => domain \in {"zone", F!Null}
  BY <1>2 DEF F!Named, F!STRICT_DNS_PRESETS, F!CfPresets
<1>8. exit \in {F!Null, "MANAGED_SERVER", "SOCKS5"}
  BY DEF F!FormsAssumption, F!PresetsAssumption, F!ProtocolsAssumption, F!IdentitiesAssumption, F!ExitsAssumption
<1> HIDE DEF s, g
<1>9. /\ node' # F!None /\ IsRow(node')
      /\ node'.protocol = s.protocol /\ node'.impl = s.impl /\ node'.net = s.net /\ node'.tls = s.tls
      /\ node'.domain = domain /\ node'.dns = (domain = "zone") /\ node'.policy = "AUTO" /\ node'.exit = exit /\ node'.creds = g
  BY <1>2, IsARow DEF s, g
<1> QED BY <1>4, <1>5, <1>6, <1>7, <1>8, <1>9 DEF RowInv, NodeSound, F!isCfXhttp

\* What an edit makes of a node that is sound, and what it keeps.
LEMMA Edited ==
  ASSUME F!FormsAssumption, F!Exists, RowInv(node), F!Edit
  PROVE  /\ node' # F!None /\ RowInv(node')
         /\ F!isCfXhttp(node) <=> F!isCfXhttp(node')
         /\ F!isCfXhttp(node) => node'.creds = node.creds /\ node'.domain = node.domain
         /\ node.tls = "REALITY" /\ node'.tls = "REALITY" =>
               node'.creds.pub = node.creds.pub /\ node'.creds.sid \in {node.creds.sid, "sid"}
<1>0. PICK x \in F!Reshaped, domain \in {F!Null, "own", node.domain},
           policy \in Policies \cup {node.policy}, c \in Identities \cup {F!Absent}, k \in Keys :
        /\ ~F!UnsupportedPolicy(x, policy) /\ F!InPlace(x, domain, c)
        /\ LET d == F!DomainKept(x, domain)
           IN  node' = F!Row(x, d.domain, d.dns, policy, node.exit,
                             IF F!needsCredentialNormalization(x)
                             THEN F!ensureCredentials(x, F!Merged(node.creds, c), k)
                             ELSE IF c = F!Absent THEN node.creds ELSE c)
  BY DEF F!Edit
<1>1. PICK q \in F!Requests \cup {F!Shape(F!Null, F!Null, F!Null, F!Null)} :
        x = F!Normal(F!Fields(q)) /\ ~F!Unsupported(F!Fields(q))
  BY DEF F!Reshaped
<1> DEFINE f == F!Fields(q)
           s == F!Normal(f)
           d == F!DomainKept(s, domain)
           m == F!Merged(node.creds, c)
           e == F!ensureCredentials(s, m, k)
           creds == IF F!needsCredentialNormalization(s) THEN e ELSE IF c = F!Absent THEN node.creds ELSE c
<1>2. node' = F!Row(s, d.domain, d.dns, policy, node.exit, creds) /\ F!InPlace(s, domain, c)
  BY <1>0, <1>1
<1>3. f.tls \in {F!Null, "NONE", "TLS", "REALITY"}
  BY RequestShape DEF F!Fields, F!Shape, F!Or, RowInv, NodeSound
<1>4. NodeSound(s)
  BY <1>1, <1>3, NormalSound
<1>5. KeysPaired(m) /\ m.pub = node.creds.pub /\ m.sid = node.creds.sid /\ (c = F!Absent => m = node.creds)
  BY MergedPaired DEF RowInv
<1>6. /\ KeysPaired(e) /\ (s.tls = "REALITY" => e.pub # F!Null) /\ (F!isCfXhttp(s) => e = m)
      /\ m.pub # F!Null => e.pub = m.pub
      /\ e.sid \in {m.sid, "sid"}
  BY <1>4, <1>5, Ensured DEF F!FormsAssumption, F!PresetsAssumption, F!ProtocolsAssumption, F!IdentitiesAssumption
<1>7. c # F!Absent => KeysPaired(c)
  BY DEF F!FormsAssumption, F!PresetsAssumption, F!ProtocolsAssumption, F!IdentitiesAssumption, F!Blank,
         KeysPaired, IsCreds
<1>8. policy \in {"AUTO", "IPV4_ONLY"} /\ (policy = "IPV4_ONLY" => s.impl \in {F!Null, "XRAY"})
  BY <1>0, <1>1 DEF F!UnsupportedPolicy, F!Or, F!FormsAssumption, F!PoliciesAssumption, RowInv
<1>9. /\ d.dns \in BOOLEAN
      /\ F!isManagedCertificateProtocol(s.protocol) => d.domain = "zone" /\ d.dns
      /\ F!isCfXhttp(s) => d.domain = F!Or(domain, node.domain) /\ d.dns = node.dns
  <2>1. s.protocol = "VLESS" => ~F!isManagedCertificateProtocol(s.protocol)
    BY DEF F!isManagedCertificateProtocol
  <2>2. CASE F!isManagedCertificateProtocol(s.protocol)
    BY <2>1, <2>2 DEF F!DomainKept, RowInv, F!isCfXhttp
  <2>3. CASE ~F!isManagedCertificateProtocol(s.protocol)
    BY <2>3 DEF F!DomainKept, RowInv, F!isCfXhttp
  <2> QED BY <2>2, <2>3
<1>10. KeysPaired(creds) /\ (s.tls = "REALITY" => creds = e) /\ (F!isCfXhttp(s) => creds = e)
  BY <1>6, <1>7 DEF F!needsCredentialNormalization, RowInv, F!isCfXhttp
<1> HIDE DEF f, s, d, m, e, creds
<1>11. /\ node' # F!None /\ IsRow(node')
       /\ node'.protocol = s.protocol /\ node'.impl = s.impl /\ node'.net = s.net /\ node'.tls = s.tls
       /\ node'.domain = d.domain /\ node'.dns = d.dns /\ node'.policy = policy /\ node'.exit = node.exit /\ node'.creds = creds
  BY <1>2, IsARow
<1>12. /\ F!isCfXhttp(node) <=> F!isCfXhttp(s)
       /\ F!isCfXhttp(s) => c = F!Absent /\ F!Or(domain, node.domain) = node.domain
  BY <1>2 DEF F!InPlace, F!isCfXhttp, F!Or
<1>13. RowInv(node')
  BY <1>4, <1>6, <1>8, <1>9, <1>10, <1>11, <1>12 DEF RowInv, NodeSound, F!isCfXhttp
<1>14. F!isCfXhttp(node) <=> F!isCfXhttp(node')
  BY <1>11, <1>12 DEF F!isCfXhttp
<1>15. F!isCfXhttp(node) => node'.creds = node.creds /\ node'.domain = node.domain
  BY <1>5, <1>6, <1>9, <1>10, <1>11, <1>12
<1>16. node.tls = "REALITY" /\ node'.tls = "REALITY" =>
         node'.creds.pub = node.creds.pub /\ node'.creds.sid \in {node.creds.sid, "sid"}
  BY <1>5, <1>6, <1>10, <1>11 DEF RowInv
<1> QED BY <1>11, <1>13, <1>14, <1>15, <1>16

LEMMA Prepared ==
  ASSUME F!Exists, RowInv(node), F!Prepare
  PROVE  /\ node' # F!None /\ RowInv(node')
         /\ F!isCfXhttp(node) /\ F!isCfXhttp(node') /\ node'.creds = node.creds /\ node.domain = F!Null
<1>1. F!isCfXhttp(node) /\ node.domain = F!Null /\ node' = [node EXCEPT !.domain = "zone", !.dns = TRUE]
  BY DEF F!Prepare
<1>2. node' = F!Row(node, "zone", node'.dns, node.policy, node.exit, node.creds)
  BY <1>1 DEF RowInv, IsRow, F!Row
<1>4. node'.dns /\ node'.dns \in BOOLEAN
  BY <1>1 DEF RowInv, IsRow, F!Row
<1>3. /\ node' # F!None /\ IsRow(node')
      /\ node'.protocol = node.protocol /\ node'.impl = node.impl /\ node'.net = node.net /\ node'.tls = node.tls
      /\ node'.domain = "zone" /\ node'.policy = node.policy /\ node'.exit = node.exit /\ node'.creds = node.creds
  <2>1. IsRow(node') /\ node'.protocol = node.protocol /\ node'.impl = node.impl /\ node'.net = node.net /\ node'.tls = node.tls
    BY <1>2 DEF F!Row, IsRow
  <2>2. node'.domain = "zone" /\ node'.policy = node.policy /\ node'.exit = node.exit /\ node'.creds = node.creds
    BY <1>2 DEF F!Row
  <2>3. node' # F!None
    BY <1>2, IsARow
  <2> QED BY <2>1, <2>2, <2>3
<1> QED BY <1>1, <1>3, <1>4 DEF RowInv, NodeSound, F!isCfXhttp

LEMMA ModeEdited ==
  ASSUME F!Exists, RowInv(node), F!EditMode
  PROVE  /\ node' # F!None /\ RowInv(node')
         /\ F!isCfXhttp(node) /\ F!isCfXhttp(node') /\ node'.domain = node.domain
         /\ [node'.creds EXCEPT !.mode = F!Null] = [node.creds EXCEPT !.mode = F!Null]
<1>1. F!isCfXhttp(node) /\ \E mode \in {"packet-up", "stream-up"} : node' = [node EXCEPT !.creds.mode = mode]
  BY DEF F!EditMode
<1>2. PICK mode : node' = [node EXCEPT !.creds.mode = mode]
  BY <1>1
<1> DEFINE c == [node.creds EXCEPT !.mode = mode]
<1>3. node' = F!Row(node, node.domain, node.dns, node.policy, node.exit, c)
  BY <1>2 DEF RowInv, IsRow, F!Row
<1>4. c = [uuid |-> node.creds.uuid, priv |-> node.creds.priv, pub |-> node.creds.pub, sid |-> node.creds.sid,
           path |-> node.creds.path, mode |-> mode, alpn |-> node.creds.alpn]
  BY DEF RowInv, KeysPaired, IsCreds
<1> HIDE DEF c
<1>5. KeysPaired(c) /\ c.pub = node.creds.pub
  BY <1>4 DEF RowInv, KeysPaired, IsCreds
<1>6. [c EXCEPT !.mode = F!Null] = [node.creds EXCEPT !.mode = F!Null]
  BY <1>4 DEF RowInv, KeysPaired, IsCreds
<1>7. /\ node' # F!None /\ IsRow(node')
      /\ node'.protocol = node.protocol /\ node'.impl = node.impl /\ node'.net = node.net /\ node'.tls = node.tls
      /\ node'.domain = node.domain /\ node'.dns = node.dns /\ node'.policy = node.policy /\ node'.exit = node.exit /\ node'.creds = c
  BY <1>3, IsARow
<1> QED BY <1>1, <1>5, <1>6, <1>7 DEF RowInv, NodeSound, F!isCfXhttp

LEMMA ShapesNext == ASSUME F!FormsAssumption PROVE ShapesInv /\ [F!Next]_node => ShapesInv'
<1> SUFFICES ASSUME ShapesInv, [F!Next]_node, node' # F!None PROVE RowInv(node')
  BY DEF ShapesInv, F!Exists
<1>1. CASE F!Create
  BY <1>1, MadeFromForm
<1>2. CASE F!CreateFromPreset
  BY <1>2, MadeFromPreset
<1>3. CASE F!Prepare
  BY <1>3, Prepared DEF ShapesInv, F!Prepare
<1>4. CASE F!Edit
  BY <1>4, Edited DEF ShapesInv, F!Edit
<1>5. CASE F!EditMode
  BY <1>5, ModeEdited DEF ShapesInv, F!EditMode
<1>6. CASE F!Remove
  BY <1>6 DEF F!Remove
<1>7. CASE UNCHANGED node
  BY <1>7 DEF ShapesInv, F!Exists
<1> QED BY <1>1, <1>2, <1>3, <1>4, <1>5, <1>6, <1>7 DEF F!Next

LEMMA ShapesInvariance == ASSUME F!FormsAssumption PROVE F!Spec => []ShapesInv
<1>1. F!Init => ShapesInv
  BY DEF F!Init, ShapesInv, F!Exists
<1> QED BY <1>1, ShapesNext, PTL DEF F!Spec

-----------------------------------------------------------------------------
(* What clients and server make of a sound node *)

LEMMA AgreeOnWire ==
  ASSUME NEW r, NodeSound(r), F!Routed(r), r.protocol \in {"VLESS", "VMESS"}, NEW c \in F!Clients(r)
  PROVE  c.net = F!Inbound(r).net /\ c.sec = F!Inbound(r).sec
<1>1. c.net = F!Wire(r.net) /\ c.sec = r.tls
  BY DEF F!Clients, F!ShareUri, F!ClashProxy, F!SingboxOutbound, F!XrayClient, F!SingboxClient, F!Native, F!Bare,
         F!Entry
<1>2. F!Inbound(r).net = F!Wire(r.net) /\ F!Inbound(r).sec = r.tls
  <2>1. CASE F!Family(r.impl) = "xray"
    BY <2>1 DEF F!Inbound, F!XrayInbound, F!Shown
  <2>2. CASE F!Family(r.impl) = "sing-box"
    <3>1. r.net # "XHTTP"
      BY <2>2 DEF NodeSound, F!Family
    <3> QED BY <2>2, <3>1 DEF F!Inbound, F!SingBoxInbound, F!Shown
  <2>3. F!Family(r.impl) \in {"xray", "sing-box"}
    BY DEF F!Family, F!Routed
  <2> QED BY <2>1, <2>2, <2>3
<1> QED BY <1>1, <1>2

LEMMA ClientsKeyed ==
  ASSUME NEW r, NodeSound(r), r.tls = "REALITY", NEW c \in F!Clients(r)
  PROVE  c.key = r.creds.pub /\ c.sid = r.creds.sid /\ c.sni = F!Sni(r)
<1>1. r.protocol = "VLESS"
  BY DEF NodeSound
<1> QED BY <1>1 DEF F!Clients, F!ShareUri, F!ClashProxy, F!SingboxOutbound, F!XrayClient, F!SingboxClient, F!Native, F!Bare, F!Entry, F!Keyed

LEMMA ServerKeyed ==
  ASSUME NEW r, F!Routed(r), r.tls = "REALITY"
  PROVE  /\ F!Inbound(r).key = r.creds.priv /\ F!Inbound(r).sid = r.creds.sid
         /\ F!Inbound(r).dest = F!Sni(r) /\ F!Inbound(r).sni \in {F!Null, F!Sni(r)}
<1>1. CASE F!Family(r.impl) = "xray"
  BY <1>1 DEF F!Inbound, F!XrayInbound, F!Shown, F!Keyed
<1>2. CASE F!Family(r.impl) = "sing-box"
  BY <1>2 DEF F!Inbound, F!SingBoxInbound, F!Shown, F!Keyed
<1>3. F!Family(r.impl) \in {"xray", "sing-box"}
  BY DEF F!Family, F!Routed
<1> QED BY <1>1, <1>2, <1>3

LEMMA ClientsVerify ==
  ASSUME NEW r, NodeSound(r), F!isManagedCertificateProtocol(r.protocol) \/ F!isCfXhttp(r), NEW c \in F!Clients(r)
  PROVE  c.verify /\ c.sec = "TLS" /\ c.sni = r.domain
<1>1. CASE F!isManagedCertificateProtocol(r.protocol)
  <2>1. /\ r.protocol \in {"TUIC", "ANYTLS"} /\ r.tls = "TLS" /\ F!Native(r) /\ r.protocol # "HYSTERIA2"
        /\ F!Sni(r) = r.domain /\ ~F!Bare(r)
    BY <1>1 DEF NodeSound, F!isManagedCertificateProtocol, F!Native, F!Bare, F!Sni
  <2>2. F!Clients(r) \subseteq {F!Entry(r, "TCP", "TLS", FALSE, F!Null, TRUE), F!Entry(r, "TCP", "TLS", FALSE, F!Null, r.protocol # "HYSTERIA2")}
    <3>1. F!ShareUri(r) \subseteq {F!Entry(r, "TCP", "TLS", FALSE, F!Null, TRUE)}
      BY <2>1 DEF F!ShareUri
    <3>2. F!ClashProxy(r) \subseteq {F!Entry(r, "TCP", "TLS", FALSE, F!Null, r.protocol # "HYSTERIA2")}
      BY <2>1 DEF F!ClashProxy
    <3>3. F!SingboxOutbound(r) \subseteq {F!Entry(r, "TCP", "TLS", FALSE, F!Null, r.protocol # "HYSTERIA2")}
      BY <2>1 DEF F!SingboxOutbound
    <3>4. F!XrayClient(r) = {} /\ F!SingboxClient(r) = {F!Entry(r, "TCP", "TLS", FALSE, F!Null, r.protocol # "HYSTERIA2")}
      BY <2>1 DEF F!XrayClient, F!SingboxClient
    <3> QED BY <3>1, <3>2, <3>3, <3>4 DEF F!Clients
  <2>3. (r.protocol # "HYSTERIA2") = TRUE
    BY <2>1
  <2>4. c = F!Entry(r, "TCP", "TLS", FALSE, F!Null, TRUE)
    BY <2>2, <2>3, Zenon
  <2>5. c.verify /\ c.sec = "TLS" /\ c.sni = F!Sni(r)
    BY <2>4 DEF F!Entry
  <2> QED BY <2>1, <2>5
<1>2. CASE F!isCfXhttp(r)
  BY <1>2 DEF F!isCfXhttp, F!Clients, F!ShareUri, F!ClashProxy, F!SingboxOutbound, F!XrayClient, F!SingboxClient,
         F!Native, F!Bare,
              F!Entry, F!Sni
<1> QED BY <1>1, <1>2

\* Of at most three rules the first that matches is taken.
LEMMA FirstHit ==
  ASSUME NEW hit \in SUBSET (1 .. 3), hit # {}
  PROVE  LET i == CHOOSE i \in hit : \A j \in hit : i <= j
         IN  i \in hit /\ \A j \in hit : i <= j
<1>1. \E i \in hit : \A j \in hit : i <= j
  <2>1. CASE 1 \in hit
    BY <2>1
  <2>2. CASE 1 \notin hit /\ 2 \in hit
    BY <2>2
  <2>3. CASE 1 \notin hit /\ 2 \notin hit
    <3>1. \A j \in hit : j \in 1 .. 3 /\ j # 1 /\ j # 2
      BY <2>3
    <3>2. \A j \in hit : j = 3
      BY <3>1
    <3>3. PICK j \in hit : TRUE
      OBVIOUS
    <3>4. j = 3 /\ 3 \in hit
      BY <3>2, <3>3
    <3> QED BY <3>2, <3>4
  <2> QED BY <2>1, <2>2, <2>3
<1> QED BY <1>1

LEMMA VerdictIs ==
  ASSUME NEW c, DOMAIN c.rules \subseteq 1 .. 3, NEW t,
         NEW hit, hit = {i \in DOMAIN c.rules : F!Matches(c.rules[i].field, t)}
  PROVE  \/ hit = {} /\ F!Verdict(c, t) = c.first
         \/ \E i \in hit : (\A j \in hit : i <= j) /\ F!Verdict(c, t) = c.rules[i].out
<1>1. CASE hit = {}
  BY <1>1 DEF F!Verdict
<1>2. CASE hit # {}
  <2> DEFINE i == CHOOSE i \in hit : \A j \in hit : i <= j
  <2>1. i \in hit /\ \A j \in hit : i <= j
    BY <1>2, FirstHit
  <2>2. F!Verdict(c, t) = c.rules[i].out
    BY <1>2 DEF F!Verdict
  <2> QED BY <2>1, <2>2
<1> QED BY <1>1, <1>2

LEMMA Appended ==
  ASSUME NEW S, NEW s \in Seq(S), NEW x \in S, NEW t \in Seq(S), Len(t) = Len(s) + 1,
         \A i \in 1 .. Len(s) : s[i] = t[i], t[Len(t)] = x
  PROVE  s \o <<x>> = t
<1> DEFINE u == <<x>>
           v == s \o u
<1>1. u \in Seq(S) /\ Len(u) = 1 /\ u[1] = x
  OBVIOUS
<1> HIDE DEF u
<1>2. /\ v \in Seq(S) /\ Len(v) = Len(s) + Len(u)
      /\ \A i \in 1 .. Len(s) + Len(u) : v[i] = IF i <= Len(s) THEN s[i] ELSE u[i - Len(s)]
  BY <1>1, ConcatProperties
<1> HIDE DEF v
<1>3. Len(s) \in Nat /\ Len(t) \in Nat /\ Len(v) = Len(t)
  BY <1>1, <1>2, LenProperties
<1>4. ASSUME NEW i \in 1 .. Len(v) PROVE v[i] = t[i]
  <2>1. CASE i \in 1 .. Len(s)
    BY <1>1, <1>2, <1>3, <2>1
  <2>2. CASE i = Len(s) + 1
    <3>1. i - Len(s) = 1 /\ ~(i <= Len(s)) /\ i = Len(t)
      BY <1>3, <2>2
    <3> QED BY <1>1, <1>2, <1>3, <3>1
  <2> QED BY <1>1, <1>2, <1>3, <1>4, <2>1, <2>2
<1>5. v = t
  BY <1>2, <1>3, <1>4, SeqEqual
<1> QED BY <1>5 DEF u, v

LEMMA Joined ==
  ASSUME NEW a, NEW b, NEW x
  PROVE  /\ <<a>> \o <<b>> \o <<x>> = <<a, b, x>> /\ <<a>> \o <<b>> \o <<>> = <<a, b>>
         /\ <<a>> \o <<>> \o <<x>> = <<a, x>> /\ <<a>> \o <<>> \o <<>> = <<a>>
<1> DEFINE S == {a, b, x}
<1>1. <<a>> \in Seq(S) /\ <<b>> \in Seq(S) /\ <<x>> \in Seq(S) /\ <<a, b>> \in Seq(S)
  OBVIOUS
<1>2. <<a>> \o <<>> = <<a>> /\ <<a, b>> \o <<>> = <<a, b>>
  BY <1>1, ConcatEmptySeq
<1>3. <<a>> \o <<b>> = <<a, b>> /\ <<a>> \o <<x>> = <<a, x>>
  <2>1. ASSUME NEW y \in S PROVE <<a>> \o <<y>> = <<a, y>>
    <3> DEFINE s == <<a>>
               t == <<a, y>>
    <3>1. t \in Seq(S) /\ s \in Seq(S) /\ Len(t) = 2 /\ Len(s) = 1 /\ s[1] = t[1] /\ t[2] = y
      BY <2>1
    <3> HIDE DEF s, t
    <3>2. Len(t) = Len(s) + 1 /\ (\A i \in 1 .. Len(s) : s[i] = t[i]) /\ t[Len(t)] = y
      BY <3>1
    <3>3. s \o <<y>> = t
      BY <2>1, <3>1, <3>2, Appended
    <3> QED BY <3>3 DEF s, t
  <2> QED BY <2>1
<1>4. <<a, b>> \o <<x>> = <<a, b, x>>
  <2> DEFINE s == <<a, b>>
             t == <<a, b, x>>
  <2>1. t \in Seq(S) /\ s \in Seq(S) /\ Len(t) = 3 /\ Len(s) = 2 /\ x \in S
    OBVIOUS
  <2>2. s[1] = t[1] /\ s[2] = t[2] /\ t[3] = x
    OBVIOUS
  <2> HIDE DEF s, t
  <2>3. Len(t) = Len(s) + 1 /\ t[Len(t)] = x
    BY <2>1, <2>2
  <2>4. \A i \in 1 .. Len(s) : s[i] = t[i]
    BY <2>1, <2>2
  <2>5. s \o <<x>> = t
    BY <2>1, <2>3, <2>4, Appended
  <2> QED BY <2>5 DEF s, t
<1> QED BY <1>2, <1>3, <1>4

\* The rules of a core one by one.
LEMMA XrayRules ==
  ASSUME NEW r
  PROVE  LET c == F!XrayRouting(r)
             n == IF r.policy = "IPV4_ONLY" THEN 2 ELSE 1
         IN  /\ c.first = (IF r.exit = F!Null THEN "direct" ELSE "chain-exit")
             /\ DOMAIN c.rules = 1 .. (IF r.exit = F!Null THEN n ELSE n + 1)
             /\ c.rules[1] = F!Rule("api", "api")
             /\ r.policy = "IPV4_ONLY" => c.rules[2] = F!Rule("::/0", "blocked")
             /\ r.exit # F!Null => c.rules[n + 1] = F!Rule("in", "chain-exit")
<1> DEFINE a == F!Rule("api", "api")
           b == F!Rule("::/0", "blocked")
           x == F!Rule("in", "chain-exit")
           c == F!XrayRouting(r)
<1>1. CASE r.policy = "IPV4_ONLY" /\ r.exit # F!Null
  <2>1. c.rules = <<a>> \o <<b>> \o <<x>> /\ c.first = "chain-exit"
    BY <1>1 DEF F!XrayRouting
  <2>2. <<a>> \o <<b>> \o <<x>> = <<a, b, x>>
    BY Joined
  <2> QED BY <1>1, <2>1, <2>2
<1>2. CASE r.policy = "IPV4_ONLY" /\ r.exit = F!Null
  <2>1. c.rules = <<a>> \o <<b>> \o <<>> /\ c.first = "direct"
    BY <1>2 DEF F!XrayRouting
  <2>2. <<a>> \o <<b>> \o <<>> = <<a, b>>
    BY Joined
  <2> QED BY <1>2, <2>1, <2>2
<1>3. CASE r.policy # "IPV4_ONLY" /\ r.exit # F!Null
  <2>1. c.rules = <<a>> \o <<>> \o <<x>> /\ c.first = "chain-exit"
    BY <1>3 DEF F!XrayRouting
  <2>2. <<a>> \o <<>> \o <<x>> = <<a, x>>
    BY Joined
  <2> QED BY <1>3, <2>1, <2>2
<1>4. CASE r.policy # "IPV4_ONLY" /\ r.exit = F!Null
  <2>1. c.rules = <<a>> \o <<>> \o <<>> /\ c.first = "direct"
    BY <1>4 DEF F!XrayRouting
  <2>2. <<a>> \o <<>> \o <<>> = <<a>>
    BY Joined
  <2> QED BY <1>4, <2>1, <2>2
<1> QED BY <1>1, <1>2, <1>3, <1>4

LEMMA BlocksIpv6 ==
  ASSUME NEW r, r.policy = "IPV4_ONLY", r.impl \in {F!Null, "XRAY"},
         NEW t \in F!Traffic, t.v6, t.from = "proxy"
  PROVE  F!Verdict(F!Routing(r), t) = "blocked"
<1> DEFINE c == F!XrayRouting(r)
<1>1. F!Routing(r) = c
  BY DEF F!Routing, F!Family, F!Null
<1>2. /\ DOMAIN c.rules = 1 .. (IF r.exit = F!Null THEN 2 ELSE 3)
      /\ c.rules[1] = F!Rule("api", "api") /\ c.rules[2] = F!Rule("::/0", "blocked")
  BY XrayRules
<1> HIDE DEF c
<1>3. 1 \in DOMAIN c.rules /\ 2 \in DOMAIN c.rules /\ DOMAIN c.rules \subseteq 1 .. 3
  BY <1>2
<1>4. ~F!Matches("api", t) /\ F!Matches("::/0", t)
  BY DEF F!Matches
<1> DEFINE hit == {i \in DOMAIN c.rules : F!Matches(c.rules[i].field, t)}
<1>5. 1 \notin hit /\ 2 \in hit
  BY <1>2, <1>3, <1>4 DEF F!Rule
<1>6. hit \subseteq 1 .. 3
  BY <1>3
<1> HIDE DEF hit
<1>7. PICK i \in hit : (\A j \in hit : i <= j) /\ F!Verdict(c, t) = c.rules[i].out
  BY <1>3, <1>5, VerdictIs DEF hit
<1>8. i = 2
  BY <1>5, <1>6, <1>7
<1> QED BY <1>1, <1>2, <1>7, <1>8 DEF F!Rule

LEMMA NeverDirect ==
  ASSUME NEW r, r.exit \in {"MANAGED_SERVER", "SOCKS5"}, F!Family(r.impl) \in {"xray", "sing-box"}, NEW t \in F!Traffic, t.from = "proxy"
  PROVE  F!Verdict(F!Routing(r), t) # "direct"
<1>0. r.exit # F!Null
  BY DEF F!Null
<1>1. CASE F!Family(r.impl) = "xray"
  <2> DEFINE c == F!XrayRouting(r)
  <2>1. F!Routing(r) = c
    BY <1>1 DEF F!Routing
  <2>2. c.first = "chain-exit" /\ DOMAIN c.rules \subseteq 1 .. 3
    <3>1. CASE r.policy = "IPV4_ONLY"
      BY <1>0, <3>1, XrayRules
    <3>2. CASE r.policy # "IPV4_ONLY"
      BY <1>0, <3>2, XrayRules
    <3> QED BY <3>1, <3>2
  <2>3. \A i \in DOMAIN c.rules : c.rules[i].out # "direct"
    <3>1. CASE r.policy = "IPV4_ONLY"
      <4>1. /\ DOMAIN c.rules = 1 .. 3 /\ c.rules[1] = F!Rule("api", "api")
            /\ c.rules[2] = F!Rule("::/0", "blocked") /\ c.rules[3] = F!Rule("in", "chain-exit")
        BY <1>0, <3>1, XrayRules
      <4> HIDE DEF c
      <4> QED BY <4>1 DEF F!Rule
    <3>2. CASE r.policy # "IPV4_ONLY"
      <4>1. DOMAIN c.rules = 1 .. 2 /\ c.rules[1] = F!Rule("api", "api") /\ c.rules[2] = F!Rule("in", "chain-exit")
        BY <1>0, <3>2, XrayRules
      <4> HIDE DEF c
      <4> QED BY <4>1 DEF F!Rule
    <3> QED BY <3>1, <3>2
  <2> HIDE DEF c
  <2> DEFINE hit == {i \in DOMAIN c.rules : F!Matches(c.rules[i].field, t)}
  <2>4. F!Verdict(c, t) = c.first \/ \E i \in hit : F!Verdict(c, t) = c.rules[i].out
    BY <2>2, VerdictIs
  <2> QED BY <2>1, <2>2, <2>3, <2>4
<1>2. CASE F!Family(r.impl) = "sing-box"
  <2> DEFINE c == F!SingBoxRouting(r)
  <2>1. F!Routing(r) = c
    BY <1>2 DEF F!Routing
  <2>2. c.rules = <<F!Rule("in", "chain-exit")>>
    BY <1>0 DEF F!SingBoxRouting
  <2> HIDE DEF c
  <2>3. DOMAIN c.rules = {1} /\ c.rules[1] = F!Rule("in", "chain-exit")
    BY <2>2
  <2>4. F!Matches(c.rules[1].field, t) /\ c.rules[1].out # "direct"
    BY <2>3 DEF F!Matches, F!Rule
  <2> QED BY <2>1, <2>3, <2>4, VerdictIs
<1> QED BY <1>1, <1>2

-----------------------------------------------------------------------------
(* The configurations *)

LEMMA Spoken == ASSUME NEW r, F!Routed(r) PROVE F!Family(r.impl) \in {"xray", "sing-box"}
  BY DEF F!Routed, F!Family

LEMMA WireSafe == ASSUME ShapesInv PROVE F!NoDowngrade
<1> SUFFICES ASSUME F!Exists, F!Routed(node), node.protocol \in {"VLESS", "VMESS"}, NEW c \in F!Clients(node)
    PROVE  c.net = F!Inbound(node).net /\ c.sec = F!Inbound(node).sec
  BY DEF F!NoDowngrade, F!Served
<1> QED BY AgreeOnWire DEF ShapesInv, RowInv

LEMMA RealitySafe == ASSUME F!KeysAssumption, ShapesInv PROVE F!RealityMatches
<1> SUFFICES ASSUME F!Exists, F!Routed(node), node.tls = "REALITY", NEW c \in F!Clients(node)
    PROVE  /\ c.key = F!Inbound(node).key /\ c.key # F!Null /\ c.sid = F!Inbound(node).sid
           /\ c.sni = F!Inbound(node).dest /\ F!Inbound(node).sni \in {F!Null, c.sni}
  BY DEF F!RealityMatches, F!Served
<1>1. NodeSound(node) /\ node.creds.pub # F!Null /\ node.creds.priv = node.creds.pub
  BY DEF ShapesInv, RowInv, KeysPaired
<1> QED BY <1>1, ClientsKeyed, ServerKeyed

LEMMA NamesSafe == ASSUME ShapesInv PROVE F!NamedAndVerified
<1> SUFFICES ASSUME F!Exists, F!Generable(node), F!isManagedCertificateProtocol(node.protocol) \/ F!isCfXhttp(node)
    PROVE  /\ node.domain = "zone" /\ node.dns
           /\ \A c \in F!Clients(node) : c.verify /\ c.sec = "TLS" /\ c.sni = "zone"
  BY DEF F!NamedAndVerified, F!Served
<1>1. RowInv(node) /\ NodeSound(node)
  BY DEF ShapesInv, RowInv
<1>2. node.domain = "zone" /\ node.dns
  <2>1. CASE F!isManagedCertificateProtocol(node.protocol)
    BY <1>1, <2>1 DEF RowInv
  <2>2. CASE F!isCfXhttp(node)
    <3>1. F!Family(node.impl) = "xray"
      BY <1>1, <2>2 DEF NodeSound, F!isCfXhttp, F!Family
    <3> QED BY <1>1, <2>2, <3>1 DEF F!Generable, RowInv
  <2> QED BY <2>1, <2>2
<1>3. ASSUME NEW c \in F!Clients(node) PROVE c.verify /\ c.sec = "TLS" /\ c.sni = "zone"
  BY <1>1, <1>2, ClientsVerify
<1> QED BY <1>2, <1>3

LEMMA ChainSafe == ASSUME ShapesInv PROVE F!ChainNeverDirect
<1> SUFFICES ASSUME F!Exists, F!Routed(node), node.exit # F!Null
    PROVE  /\ \A t \in F!Traffic : t.from = "proxy" => F!Verdict(F!Routing(node), t) # "direct"
           /\ \A v6 \in BOOLEAN : F!ExitVerdict(node, FALSE, v6) = "blocked"
  BY DEF F!ChainNeverDirect, F!Served
<1>1. node.exit \in {"MANAGED_SERVER", "SOCKS5"}
  BY DEF ShapesInv, RowInv
<1>2. ASSUME NEW t \in F!Traffic, t.from = "proxy" PROVE F!Verdict(F!Routing(node), t) # "direct"
  BY <1>1, <1>2, NeverDirect, Spoken
<1>3. ASSUME NEW v6 \in BOOLEAN PROVE F!ExitVerdict(node, FALSE, v6) = "blocked"
  BY DEF F!ExitVerdict
<1> QED BY <1>2, <1>3

LEMMA PolicySafe == ASSUME ShapesInv PROVE F!Ipv4OnlyHolds
<1> SUFFICES ASSUME F!Exists, node.policy = "IPV4_ONLY"
    PROVE  /\ \A t \in F!Traffic : t.v6 /\ t.from = "proxy" => F!Verdict(F!Routing(node), t) = "blocked"
           /\ node.exit = "MANAGED_SERVER" => F!ExitVerdict(node, TRUE, TRUE) = "blocked"
  BY DEF F!Ipv4OnlyHolds, F!Served
<1>1. node.impl \in {F!Null, "XRAY"}
  BY DEF ShapesInv, RowInv
<1>2. ASSUME NEW t \in F!Traffic, t.v6, t.from = "proxy" PROVE F!Verdict(F!Routing(node), t) = "blocked"
  BY <1>1, <1>2, BlocksIpv6
<1>3. F!ExitVerdict(node, TRUE, TRUE) = "blocked"
  BY DEF F!ExitVerdict
<1> QED BY <1>2, <1>3

\* Whatever was asked for and edited, every client of a node speaks what its server speaks, with
\* the server's key and site, and its configuration sends nothing past its chain or its policy,
\* nodes that ss-libev is to serve apart, which has neither REALITY nor a chain
\* (NoDowngrade, RealityMatches, NamedAndVerified, ChainNeverDirect, Ipv4OnlyHolds).
THEOREM ConfigsAgree ==
  ASSUME F!FormsAssumption
  PROVE  F!Spec => [](F!NoDowngrade /\ F!RealityMatches /\ F!NamedAndVerified /\ F!ChainNeverDirect /\ F!Ipv4OnlyHolds)
<1>1. ShapesInv => F!NoDowngrade /\ F!RealityMatches /\ F!NamedAndVerified /\ F!ChainNeverDirect /\ F!Ipv4OnlyHolds
  BY WireSafe, RealitySafe, NamesSafe, ChainSafe, PolicySafe DEF F!FormsAssumption, F!PresetsAssumption,
         F!ProtocolsAssumption, F!IdentitiesAssumption
<1> QED BY <1>1, ShapesInvariance, PTL

\* A step that leaves the node in place edits it, prepares its origin or changes its mode.
LEMMA NodeSteps == ASSUME [F!Next]_node, F!Exists, node' # F!None PROVE F!Edit \/ F!Prepare \/ F!EditMode \/ node' = node
  BY DEF F!Next, F!Create, F!CreateFromPreset, F!Remove, F!Exists

\* No edit makes a CDN XHTTP node of another node or the other way round, nor changes what the
\* clients of one hold (CdnStaysItself).
THEOREM CdnIdentity == ASSUME F!FormsAssumption PROVE F!Spec => [][F!CdnStaysItself]_node
<1>1. ASSUME ShapesInv, [F!Next]_node PROVE [F!CdnStaysItself]_node
  <2> SUFFICES ASSUME F!Exists, node' # F!None
      PROVE  /\ F!isCfXhttp(node) <=> F!isCfXhttp(node')
             /\ F!isCfXhttp(node) => /\ [node'.creds EXCEPT !.mode = F!Null] = [node.creds EXCEPT !.mode = F!Null]
                                  /\ node.domain \in {F!Null, node'.domain}
    BY DEF F!CdnStaysItself, F!Exists
  <2>0. RowInv(node)
    BY <1>1 DEF ShapesInv
  <2>1. CASE F!Edit
    BY <2>0, <2>1, Edited
  <2>2. CASE F!Prepare
    BY <2>0, <2>2, Prepared
  <2>3. CASE F!EditMode
    BY <2>0, <2>3, ModeEdited
  <2>4. CASE node' = node
    BY <2>4 DEF F!isCfXhttp
  <2> QED BY <1>1, <2>1, <2>2, <2>3, <2>4, NodeSteps
<1> QED BY <1>1, ShapesInvariance, PTL DEF F!Spec

\* An edit that leaves REALITY on leaves the key pair that clients know alone (KeysKept).
THEOREM KeysStay == ASSUME F!FormsAssumption PROVE F!Spec => [][F!KeysKept]_node
<1>1. ASSUME ShapesInv, [F!Next]_node PROVE [F!KeysKept]_node
  <2> SUFFICES ASSUME F!Exists, node' # F!None, node.tls = "REALITY", node'.tls = "REALITY"
      PROVE  node'.creds.pub = node.creds.pub /\ node'.creds.sid \in {node.creds.sid, "sid"}
    BY DEF F!KeysKept, F!Exists
  <2>0. RowInv(node) /\ ~F!isCfXhttp(node)
    BY <1>1 DEF ShapesInv, F!isCfXhttp
  <2>1. CASE F!Edit
    BY <2>0, <2>1, Edited
  <2>2. CASE F!Prepare
    BY <2>0, <2>2, Prepared
  <2>3. CASE F!EditMode
    BY <2>0, <2>3, ModeEdited
  <2>4. CASE node' = node
    BY <2>4
  <2> QED BY <1>1, <2>1, <2>2, <2>3, <2>4, NodeSteps
<1> QED BY <1>1, ShapesInvariance, PTL DEF F!Spec
==============================================================================
