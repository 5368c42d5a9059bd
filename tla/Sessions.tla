------------------------------- MODULE Sessions -------------------------------
(***************************************************************************)
(* The sessions of one user (auth.service, jwt.strategy, oauth-state):     *)
(* logging in with a password or by WeChat Work, logging out, changing the *)
(* password and ending all other sessions. Every request awaits between    *)
(* reading the user and what follows from it.                              *)
(***************************************************************************)
EXTENDS Naturals, FiniteSets

CONSTANTS
    Tokens,      \* identities (jti) of the tokens that are signed
    Requests,    \* requests under way at a time
    MaxVersion,  \* bound on the changes of the account
    MaxStates    \* bound on the authorizations that are begun

ASSUME SessionAssumption == MaxVersion \in Nat /\ MaxStates \in Nat

VARIABLES
    password,  \* which of the user's passwords is the present one
    version,   \* tokenVersion
    signed,    \* Tokens -> the session it was signed for, or Unsigned
    revoked,   \* tokens in RevokedToken
    expired,   \* tokens whose time is over
    request,   \* Requests -> what it does and what it read
    oauth,     \* authorizations that may be consumed
    begun,     \* authorizations so far
    logins     \* authorizations that led to a login, each time they did

vars == <<password, version, signed, revoked, expired, request, oauth, begun, logins>>
account == <<password, version>>
session == <<signed, revoked, expired>>
states == <<oauth, begun, logins>>

Unsigned == [version |-> 0, password |-> 0]
Idle == [step |-> "idle", version |-> 0, password |-> 0]
Steps == {"idle", "issue", "wxlogin", "guarded", "change", "revoke"}

TypeOK ==
    /\ password \in 1 .. MaxVersion + 1 /\ version \in 0 .. MaxVersion /\ password <= version + 1
    /\ signed \in [Tokens -> [version : 0 .. MaxVersion, password : 0 .. MaxVersion + 1]]
    /\ revoked \subseteq Tokens /\ expired \subseteq Tokens
    /\ request \in [Requests -> [step : Steps, version : 0 .. MaxVersion, password : 0 .. MaxVersion + 1]]
    /\ begun \in 0 .. MaxStates /\ oauth \subseteq 1 .. begun /\ logins \in [1 .. MaxStates -> Nat]

Init ==
    /\ password = 1 /\ version = 0
    /\ signed = [t \in Tokens |-> Unsigned] /\ revoked = {} /\ expired = {}
    /\ request = [r \in Requests |-> Idle]
    /\ oauth = {} /\ begun = 0 /\ logins = [n \in 1 .. MaxStates |-> 0]

-----------------------------------------------------------------------------
(* Requests. *)

Do(r, step, v, p) == request' = [request EXCEPT ![r] = [step |-> step, version |-> v, password |-> p]]
Done(r) == request' = [request EXCEPT ![r] = Idle]

Present(t) == signed[t] # Unsigned
\* Tokens are signed once; one that was never signed is free.
Sign(v, p) == \E t \in {x \in Tokens : ~Present(x)} : signed' = [signed EXCEPT ![t] = [version |-> v, password |-> p]]

UpTo(t) == signed[t].version <= version                                     \* mutant
SameVersion(t) == signed[t].version = version

\* JwtStrategy.validate
Accepted(t) == Present(t) /\ t \notin expired /\ t \notin revoked /\ SameVersion(t)

\* The user is read and the password of that moment compared; the counter of failures is left out.
login(r) ==
    /\ request[r] = Idle
    /\ Do(r, "issue", version, password)
    /\ UNCHANGED <<account, session, states>>

\* The token has the version that was read, not the present one.
issueToken(r) ==
    /\ request[r].step = "issue"
    /\ Sign(request[r].version, request[r].password)
    /\ Done(r)
    /\ UNCHANGED <<account, revoked, expired, states>>

logout(t) ==
    /\ Accepted(t)
    /\ revoked' = revoked \cup {t}
    /\ UNCHANGED <<account, signed, expired, request, states>>

TokenExpires(t) ==
    /\ Present(t) /\ t \notin expired
    /\ expired' = expired \cup {t}
    /\ UNCHANGED <<account, signed, revoked, request, states>>

AnyTime == revoked                                                          \* mutant
Purgeable == revoked \cap expired

purgeExpiredTokens ==
    /\ Purgeable # {}
    /\ revoked' = revoked \ Purgeable
    /\ UNCHANGED <<account, signed, expired, request, states>>

-----------------------------------------------------------------------------
(* WeChat Work. *)

issue ==
    /\ begun < MaxStates
    /\ begun' = begun + 1 /\ oauth' = oauth \cup {begun + 1}
    /\ UNCHANGED <<account, session, request, logins>>

Kept(n) == oauth                                                            \* mutant
Consumed(n) == oauth \ {n}

\* The row is deleted and counted in one statement. The request remembers the authorization.
consume(r, n) ==
    /\ request[r] = Idle /\ n \in oauth
    /\ oauth' = Consumed(n) /\ logins' = [logins EXCEPT ![n] = @ + 1]
    /\ Do(r, "wxlogin", 0, 0)
    /\ UNCHANGED <<account, session, begun>>

StateExpires(n) ==
    /\ n \in oauth /\ oauth' = oauth \ {n}
    /\ UNCHANGED <<account, session, request, begun, logins>>

\* WeChat Work may refuse the code; else the user is read.
wxWorkLogin(r) ==
    /\ request[r].step = "wxlogin"
    /\ Do(r, "issue", version, password) \/ Done(r)
    /\ UNCHANGED <<account, session, states>>

-----------------------------------------------------------------------------
(* Changing the account. *)

\* The guard lets the request in; the version it saw is passed on.
Guard(r, t) ==
    /\ request[r] = Idle /\ Accepted(t)
    /\ Do(r, "guarded", version, password)
    /\ UNCHANGED <<account, session, states>>

\* The user is read again and must still have that version; the present password is asked for.
Reread(r, step) ==
    /\ request[r].step = "guarded"
    /\ IF version = request[r].version THEN Do(r, step, version, password) ELSE Done(r)
    /\ UNCHANGED <<account, session, states>>

\* updateMany with the password and the version that were read.
Unchanged(r) == request[r].password = password /\ request[r].version = version

NextVersion == version + 1

changePassword(r) ==
    /\ request[r].step = "change" /\ version < MaxVersion
    /\ IF Unchanged(r) THEN password' = password + 1 /\ version' = NextVersion ELSE UNCHANGED account
    /\ Done(r)
    /\ UNCHANGED <<session, states>>

revokeOtherSessions(r) ==
    /\ request[r].step = "revoke" /\ version < MaxVersion
    /\ IF Unchanged(r) THEN version' = NextVersion /\ Sign(request[r].version + 1, request[r].password) ELSE UNCHANGED <<version, signed>>
    /\ Done(r)
    /\ UNCHANGED <<password, revoked, expired, states>>

Next ==
    \/ \E r \in Requests :
          \/ login(r) \/ issueToken(r) \/ wxWorkLogin(r) \/ changePassword(r) \/ revokeOtherSessions(r)
          \/ (\E n \in oauth : consume(r, n)) \/ (\E t \in Tokens : Guard(r, t))
          \/ Reread(r, "change") \/ Reread(r, "revoke")
    \/ \E t \in Tokens : logout(t) \/ TokenExpires(t)
    \/ issue \/ (\E n \in oauth : StateExpires(n)) \/ purgeExpiredTokens

Spec == Init /\ [][Next]_vars

-----------------------------------------------------------------------------
(* Properties. *)

\* A session that is accepted was opened with the password of today: a change ends all
\* others, those included that are being opened while it takes place.
PresentPasswordOnly == \A t \in Tokens : Accepted(t) => signed[t].password = password

\* A session that has ended does not come back, whatever is purged later.
EndedStaysEnded == [][\A t \in Tokens : Present(t) /\ ~Accepted(t) => ~Accepted(t)']_vars

\* An authorization leads to one login at most.
ConsumedOnce == \A n \in DOMAIN logins : logins[n] <= 1
=============================================================================
