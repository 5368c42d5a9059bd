------------------------------- MODULE Accounts -------------------------------
(***************************************************************************)
(* The accounts of the panel (auth.service, users.service, invite-codes):  *)
(* registering with an invite code, binding WeChat Work, changing roles    *)
(* and deleting users. Requests read, await and write.                     *)
(***************************************************************************)
EXTENDS Naturals, FiniteSets

CONSTANTS
    Users,     \* accounts that may come to be
    Admins,    \* those that are administrators at first
    Requests,  \* requests under way at a time
    MaxUses    \* what the invite code allows

AccountAssumption == IsFiniteSet(Users) /\ Admins \subseteq Users /\ MaxUses \in Nat \ {0}

VARIABLES
    role,       \* Users -> "ADMIN", "OPERATOR", "none" before the account, "gone" after it
    password,   \* accounts that have a password
    bound,      \* accounts that have a WeChat Work identity
    invite,     \* whether the code exists
    used,       \* usedCount
    registered, \* accounts that were created with the code
    request     \* Requests -> what it does, for whom, and what it read

vars == <<role, password, bound, invite, used, registered, request>>
code == <<invite, used, registered>>
login == <<password, bound>>

Nobody == "nobody"
Idle == [step |-> "idle", user |-> Nobody, uses |-> 0]
Exists(u) == role[u] \in {"ADMIN", "OPERATOR"}

TypeOK ==
    /\ role \in [Users -> {"ADMIN", "OPERATOR", "none", "gone"}]
    /\ password \cup bound \cup registered \subseteq Users
    /\ {u \in Users : Exists(u)} \subseteq password \cup bound
    /\ invite \in BOOLEAN /\ used \in 0 .. Cardinality(Users)
    /\ request \in [Requests -> [step : {"idle", "register", "unbind", "promote", "remove", "counted"},
                                 user : Users \cup {Nobody}, uses : 0 .. Cardinality(Users)]]

Init ==
    /\ role = [u \in Users |-> IF u \in Admins THEN "ADMIN" ELSE "none"]
    /\ password = Admins /\ bound = {}
    /\ invite = TRUE /\ used = 0 /\ registered = {}
    /\ request = [r \in Requests |-> Idle]

Do(r, step, u) == request' = [request EXCEPT ![r] = [step |-> step, user |-> u, uses |-> used]]
Done(r) == request' = [request EXCEPT ![r] = Idle]

-----------------------------------------------------------------------------
(* Registration. *)

Free == used < MaxUses

\* The code and the name are looked up, then the password is hashed.
Register(r, u) ==
    /\ request[r] = Idle /\ role[u] = "none"
    /\ invite /\ Free
    /\ Do(r, "register", u)
    /\ UNCHANGED <<role, login, code>>

Incremented(r) == used + 1

\* One transaction: it fails when the name is taken or the code deleted in between.
RegisterCommit(r) ==
    /\ request[r].step = "register"
    /\ LET u == request[r].user IN
          IF role[u] # "none" \/ ~invite THEN UNCHANGED <<role, password, bound, used, registered>>
          ELSE /\ role' = [role EXCEPT ![u] = "OPERATOR"]
               /\ password' = password \cup {u} /\ UNCHANGED bound
               /\ used' = Incremented(r) /\ registered' = registered \cup {u}
    /\ Done(r) /\ UNCHANGED invite

RemoveCode ==
    /\ invite /\ invite' = FALSE
    /\ UNCHANGED <<role, login, used, registered, request>>

-----------------------------------------------------------------------------
(* WeChat Work. *)

\* The first login creates an account without a password; a name that is taken is numbered.
wxWorkLogin(u) ==
    /\ role[u] = "none"
    /\ role' = [role EXCEPT ![u] = "OPERATOR"]
    /\ bound' = bound \cup {u} /\ UNCHANGED password
    /\ UNCHANGED <<code, request>>

\* Binding is begun with the present password.
wxWorkBind(u) ==
    /\ Exists(u) /\ u \in password \ bound
    /\ bound' = bound \cup {u}
    /\ UNCHANGED <<role, password, code, request>>

MayUnbind(u) == u \in bound /\ u \in password

Unbind(r, u) ==
    /\ request[r] = Idle /\ Exists(u)
    /\ MayUnbind(u)
    /\ Do(r, "unbind", u)
    /\ UNCHANGED <<role, login, code>>

UnbindWrite(r) ==
    /\ request[r].step = "unbind"
    /\ bound' = IF Exists(request[r].user) THEN bound \ {request[r].user} ELSE bound
    /\ Done(r)
    /\ UNCHANGED <<role, password, code>>

\* The present password is compared first, and an empty hash matches none.
ChangePassword(u) ==
    /\ Exists(u) /\ u \in password
    /\ password' = password \cup {u}
    /\ UNCHANGED <<role, bound, code, request>>

-----------------------------------------------------------------------------
(* Administration: the guard lets an administrator in, who cannot choose himself. *)

ByAdmin(u) == \E a \in Users \ {u} : role[a] = "ADMIN"

RoleMayChange(u) == role[u] = "OPERATOR"

UpdateRole(r, u) ==
    /\ request[r] = Idle /\ ByAdmin(u)
    /\ RoleMayChange(u)
    /\ Do(r, "promote", u)
    /\ UNCHANGED <<role, login, code>>

UpdateRoleWrite(r) ==
    /\ request[r].step = "promote"
    /\ LET u == request[r].user IN
          \E new \in {"ADMIN", "OPERATOR"} : role' = IF Exists(u) THEN [role EXCEPT ![u] = new] ELSE role
    /\ Done(r)
    /\ UNCHANGED <<login, code>>

\* The user is read; for an administrator the administrators are counted.
Remove(r, u) ==
    /\ request[r] = Idle /\ Exists(u) /\ ByAdmin(u)
    /\ Do(r, IF role[u] = "ADMIN" THEN "remove" ELSE "counted", u)
    /\ UNCHANGED <<role, login, code>>

Count(r) ==
    /\ request[r].step = "remove"
    /\ IF Cardinality({u \in Users : role[u] = "ADMIN"}) > 1
       THEN request' = [request EXCEPT ![r].step = "counted"] ELSE Done(r)
    /\ UNCHANGED <<role, login, code>>

\* The database refuses the users that own servers, nodes or other rows.
RemoveWrite(r) ==
    /\ request[r].step = "counted"
    /\ role' = [role EXCEPT ![request[r].user] = "gone"] \/ UNCHANGED role
    /\ Done(r)
    /\ UNCHANGED <<login, code>>

Next ==
    \/ \E u \in Users, r \in Requests : Register(r, u) \/ Unbind(r, u) \/ UpdateRole(r, u) \/ Remove(r, u)
    \/ \E r \in Requests : RegisterCommit(r) \/ UnbindWrite(r) \/ UpdateRoleWrite(r) \/ Count(r) \/ RemoveWrite(r)
    \/ \E u \in Users : wxWorkLogin(u) \/ wxWorkBind(u) \/ ChangePassword(u)
    \/ RemoveCode

Spec == Init /\ [][Next]_vars

-----------------------------------------------------------------------------
(* Properties. *)

\* Every account that was created with the code is counted, those registered at one time too.
UsesCounted == Cardinality(registered) <= used
=============================================================================
