------------------------------ MODULE PanelProofs -------------------------------
(***************************************************************************)
(* Sessions and drawers. No session outlives the password it was opened    *)
(* with, and none that has ended comes back, for any number of tokens,     *)
(* requests and changes. The invariant relates what was signed, or read by *)
(* a request on its way to sign, to the account: it is not newer, and what *)
(* is as new has the same password. An authorization that led to a login   *)
(* is not left to consume. The drawers of the web interface follow below.  *)
(***************************************************************************)
EXTENDS Sessions, SequenceTheorems, TLAPS

\* A version and a password that were read at some time.
Was(x) == x.version <= version /\ (x.version = version => x.password = password)

Reading == {"issue", "guarded", "change", "revoke"}

SignedWas == \A t \in Tokens : Present(t) => Was(signed[t]) /\ signed[t].password > 0
ReadWas == \A r \in Requests : request[r].step \in Reading => Was(request[r]) /\ request[r].password > 0
Logins == \A n \in 1 .. MaxStates : logins[n] <= 1 /\ (n \in oauth \/ n > begun => logins[n] = 0)

IInv == TypeOK /\ SignedWas /\ ReadWas /\ Logins

USE SessionAssumption

LEMMA InitInv == Init => IInv
  BY DEF Init, IInv, TypeOK, SignedWas, ReadWas, Logins, Present, Unsigned, Idle, Steps, Reading, states

\* The parts of the invariant that no request disturbs.
Account == password \in 1 .. MaxVersion + 1 /\ version \in 0 .. MaxVersion /\ password <= version + 1
Session == [version : 0 .. MaxVersion, password : 0 .. MaxVersion + 1]
Request == [step : Steps, version : 0 .. MaxVersion, password : 0 .. MaxVersion + 1]

LEMMA Parts ==
  TypeOK <=> /\ Account /\ signed \in [Tokens -> Session] /\ revoked \subseteq Tokens /\ expired \subseteq Tokens
             /\ request \in [Requests -> Request]
             /\ begun \in 0 .. MaxStates /\ oauth \subseteq 1 .. begun /\ logins \in [1 .. MaxStates -> Nat]
  BY DEF TypeOK, Account, Session, Request

\* A request that reads the account, or ends, keeps the invariant.
LEMMA ReadInv ==
  ASSUME IInv, NEW r \in Requests, NEW step \in Steps, UNCHANGED <<account, session, states>>,
         Do(r, step, version, password) \/ Done(r)
  PROVE  IInv'
<1> DEFINE new == [step |-> step, version |-> version, password |-> password]
<1>0. /\ request \in [Requests -> Request] /\ new \in Request /\ Idle \in Request
      /\ UNCHANGED <<password, version>>
      /\ request' = [request EXCEPT ![r] = new] \/ request' = [request EXCEPT ![r] = Idle]
  BY DEF IInv, TypeOK, Request, Idle, Steps, Do, Done, account
<1>1. request' \in [Requests -> Request]
  BY <1>0
<1>2. TypeOK'
  BY <1>1 DEF IInv, TypeOK, Request, account, session, states
<1>3. ReadWas'
  <2> SUFFICES ASSUME NEW q \in Requests, request'[q].step \in Reading
               PROVE  /\ request'[q].version <= version
                      /\ request'[q].version = version => request'[q].password = password
                      /\ request'[q].password > 0
    BY <1>0 DEF ReadWas, Was
  <2>1. CASE request'[q] = request[q]
    BY <1>0, <2>1 DEF IInv, ReadWas, Was
  <2>2. CASE request'[q] = new
    BY <1>0, <2>2 DEF IInv, TypeOK, Was
  <2>3. CASE request'[q] = Idle
    BY <2>3 DEF Idle, Reading
  <2> QED BY <1>0, <2>1, <2>2, <2>3
<1>4. SignedWas' /\ Logins'
  BY DEF IInv, SignedWas, Logins, Was, Present, account, session, states
<1> QED BY <1>2, <1>3, <1>4 DEF IInv

LEMMA IssueTokenInv == ASSUME IInv, NEW r \in Requests, issueToken(r) PROVE IInv'
<1>1. PICK t \in Tokens : ~Present(t) /\ signed' = [signed EXCEPT ![t] = [version |-> request[r].version, password |-> request[r].password]]
  BY DEF issueToken, Sign
<1>2. Was(request[r]) /\ request[r].password > 0
  BY DEF issueToken, IInv, ReadWas, Reading
<1>3. request[r] \in Request
  BY DEF IInv, TypeOK, Request
<1>4. TypeOK'
  BY <1>1, <1>3 DEF issueToken, IInv, TypeOK, Request, Done, Idle, Steps, account, states
<1>5. SignedWas'
  BY <1>1, <1>2, <1>3 DEF issueToken, IInv, TypeOK, SignedWas, Was, Present, Unsigned, account, Request
<1>6. ReadWas' /\ Logins'
  BY DEF issueToken, IInv, TypeOK, ReadWas, Logins, Was, Done, Idle, Reading, account, states
<1> QED BY <1>4, <1>5, <1>6 DEF IInv

\* Logging out, time and the purge change which tokens are refused, not what they are.
LEMMA TimeInv ==
  ASSUME IInv, purgeExpiredTokens \/ \E t \in Tokens : logout(t) \/ TokenExpires(t)
  PROVE  IInv'
<1>1. UNCHANGED <<account, signed, request, states>> /\ revoked' \subseteq Tokens /\ expired' \subseteq Tokens
  BY DEF IInv, TypeOK, purgeExpiredTokens, Purgeable, logout, TokenExpires
<1> QED BY <1>1 DEF IInv, TypeOK, SignedWas, ReadWas, Logins, Was, Present, account, states

LEMMA StateInv == ASSUME IInv, issue \/ \E n \in oauth : StateExpires(n) PROVE IInv'
<1>1. CASE issue
  <2>1. TypeOK'
    BY <1>1 DEF issue, IInv, TypeOK, account, session
  <2>2. Logins'
    BY <1>1 DEF issue, IInv, TypeOK, Logins
  <2> QED BY <1>1, <2>1, <2>2 DEF issue, IInv, SignedWas, ReadWas, Was, Present, account, session
<1>2. ASSUME NEW n \in oauth, StateExpires(n) PROVE IInv'
  BY <1>2 DEF StateExpires, IInv, TypeOK, Logins, SignedWas, ReadWas, Was, Present, account, session
<1> QED BY <1>1, <1>2

LEMMA ConsumeInv == ASSUME IInv, NEW r \in Requests, NEW n \in oauth, consume(r, n) PROVE IInv'
<1>1. n \in 1 .. MaxStates /\ logins[n] = 0
  BY DEF IInv, TypeOK, Logins
<1>2. TypeOK'
  BY <1>1 DEF consume, Consumed, IInv, TypeOK, Do, Steps, account, session
<1>3. Logins'
  BY <1>1 DEF consume, Consumed, IInv, TypeOK, Logins
<1>4. SignedWas' /\ ReadWas'
  BY DEF consume, IInv, TypeOK, SignedWas, ReadWas, Was, Present, Do, Reading, account, session
<1> QED BY <1>2, <1>3, <1>4 DEF IInv

\* A change makes every version that was signed or read an old one.
LEMMA ChangePasswordInv == ASSUME IInv, NEW r \in Requests, changePassword(r) PROVE IInv'
<1>1. TypeOK'
  <2>1. Idle \in Request /\ request \in [Requests -> Request]
    BY DEF Idle, Request, Steps, IInv, TypeOK
  <2>2. request' \in [Requests -> Request]
    BY <2>1 DEF changePassword, Done
  <2>3. password \in Nat /\ version \in Nat /\ password <= version + 1 /\ version <= MaxVersion /\ password >= 1
    BY DEF IInv, TypeOK
  <2>4. Account'
    BY <2>3 DEF changePassword, NextVersion, Account, account
  <2>5. signed' = signed /\ revoked' = revoked /\ expired' = expired /\ UNCHANGED <<begun, oauth, logins>>
    BY DEF changePassword, session, states
  <2> QED BY <2>2, <2>4, <2>5 DEF IInv, TypeOK, Request, Account
<1>2. SignedWas' /\ ReadWas' /\ Logins'
  BY SMTT(20) DEF changePassword, NextVersion, IInv, TypeOK, SignedWas, ReadWas, Logins, Was, Present, Done, Idle, Reading, session, states, account
<1> QED BY <1>1, <1>2 DEF IInv

\* Only the token of the answer has the new version.
LEMMA RevokeInv == ASSUME IInv, NEW r \in Requests, revokeOtherSessions(r) PROVE IInv'
<1>1. CASE ~Unchanged(r)
  BY <1>1 DEF revokeOtherSessions, IInv, TypeOK, SignedWas, ReadWas, Logins, Was, Present, Done, Idle, Reading, Steps, states
<1>2. CASE Unchanged(r)
  <2>1. PICK t \in Tokens : ~Present(t) /\ signed' = [signed EXCEPT ![t] = [version |-> version + 1, password |-> password]]
    BY <1>2 DEF revokeOtherSessions, Sign, Unchanged
  <2>2. version' = version + 1 /\ version < MaxVersion /\ Done(r) /\ UNCHANGED <<password, revoked, expired, states>>
    BY <1>2 DEF revokeOtherSessions, NextVersion
  <2>3. TypeOK'
    BY <2>1, <2>2, SMTT(20) DEF IInv, TypeOK, Done, Idle, Steps, states
  <2>4. SignedWas'
    BY <2>1, <2>2 DEF IInv, TypeOK, SignedWas, Was, Present, Unsigned
  <2>5. ReadWas' /\ Logins'
    BY <2>2 DEF IInv, TypeOK, ReadWas, Logins, Was, Done, Idle, Reading, states
  <2> QED BY <2>3, <2>4, <2>5 DEF IInv
<1> QED BY <1>1, <1>2

LEMMA NextInv == IInv /\ [Next]_vars => IInv'
<1> SUFFICES ASSUME IInv, [Next]_vars PROVE IInv'
  OBVIOUS
<1>1. ASSUME NEW r \in Requests, login(r) \/ wxWorkLogin(r) PROVE IInv'
  <2>1. UNCHANGED <<account, session, states>> /\ (Do(r, "issue", version, password) \/ Done(r))
    BY <1>1 DEF login, wxWorkLogin
  <2> QED BY <2>1, ReadInv DEF Steps
<1>2. ASSUME NEW r \in Requests, NEW t \in Tokens, Guard(r, t) PROVE IInv'
  <2>1. UNCHANGED <<account, session, states>> /\ Do(r, "guarded", version, password)
    BY <1>2 DEF Guard
  <2> QED BY <2>1, ReadInv DEF Steps
<1>3. ASSUME NEW r \in Requests, NEW step \in {"change", "revoke"}, Reread(r, step) PROVE IInv'
  <2>1. UNCHANGED <<account, session, states>> /\ (Do(r, step, version, password) \/ Done(r))
    BY <1>3 DEF Reread
  <2> QED BY <2>1, ReadInv DEF Steps
<1>4. CASE UNCHANGED vars
  BY <1>4 DEF vars, IInv, TypeOK, SignedWas, ReadWas, Logins, Was, Present, account, session, states
<1> QED
  BY <1>1, <1>2, <1>3, <1>4, IssueTokenInv, TimeInv, StateInv, ConsumeInv, ChangePasswordInv, RevokeInv DEF Next

LEMMA Invariance == Spec => []IInv
  BY InitInv, NextInv, PTL DEF Spec

\* The password never runs ahead of the version that ends its sessions (changePassword).
THEOREM TypeCorrect == Spec => []TypeOK
<1>1. IInv => TypeOK
  BY DEF IInv
<1> QED BY <1>1, Invariance, PTL

\* Whoever is let in holds a session of the present password, whatever overlapped with the
\* change (auth.service, jwt.strategy).
THEOREM SessionsOfToday == Spec => []PresentPasswordOnly
<1>1. IInv => PresentPasswordOnly
  BY DEF IInv, SignedWas, Was, PresentPasswordOnly, Accepted, SameVersion
<1> QED BY <1>1, Invariance, PTL

\* An authorization of WeChat Work leads to one login (oauth-state.service).
THEOREM OneLogin == Spec => []ConsumedOnce
<1>1. IInv => ConsumedOnce
  BY DEF IInv, TypeOK, Logins, ConsumedOnce
<1> QED BY <1>1, Invariance, PTL

-----------------------------------------------------------------------------
(* Sessions that have ended. *)

Refused(t) == Present(t) /\ ~Accepted(t)

\* Versions grow, and tokens are not signed again.
LEMMA Growing ==
  ASSUME IInv, [Next]_vars
  PROVE  /\ version' >= version
         /\ \A t \in Tokens : Present(t) => signed'[t] = signed[t]
         /\ expired \subseteq expired'
         /\ revoked \subseteq revoked' \cup expired
<1> DEFINE Grows == /\ version' >= version
                    /\ \A t \in Tokens : Present(t) => signed'[t] = signed[t]
                    /\ expired \subseteq expired'
                    /\ revoked \subseteq revoked' \cup expired
<1>0. version \in Nat /\ signed \in [Tokens -> Session]
  BY Parts DEF IInv, Account
<1>1. ASSUME UNCHANGED <<version, signed, revoked, expired>> PROVE Grows
  BY <1>0, <1>1
<1>2. ASSUME NEW r \in Requests, issueToken(r) PROVE Grows
  BY <1>0, <1>2 DEF issueToken, Sign, account
<1>3. ASSUME NEW r \in Requests, changePassword(r) PROVE Grows
  BY <1>0, <1>3 DEF changePassword, NextVersion, account, session
<1>4. ASSUME NEW r \in Requests, revokeOtherSessions(r) PROVE Grows
  BY <1>0, <1>4 DEF revokeOtherSessions, NextVersion, Sign
<1>5. CASE purgeExpiredTokens \/ \E t \in Tokens : logout(t) \/ TokenExpires(t)
  BY <1>0, <1>5 DEF purgeExpiredTokens, Purgeable, logout, TokenExpires, account
<1>6. ASSUME NEW r \in Requests, login(r) \/ wxWorkLogin(r) \/ Reread(r, "change") \/ Reread(r, "revoke")
      PROVE Grows
  BY <1>1, <1>6 DEF login, wxWorkLogin, Reread, account, session
<1>7. ASSUME NEW r \in Requests, (\E n \in oauth : consume(r, n)) \/ (\E t \in Tokens : Guard(r, t))
      PROVE Grows
  BY <1>1, <1>7 DEF consume, Guard, account, session
<1>8. CASE issue \/ \E n \in oauth : StateExpires(n)
  BY <1>1, <1>8 DEF issue, StateExpires, account, session
<1>9. CASE UNCHANGED vars
  BY <1>1, <1>9 DEF vars
<1> QED BY <1>2, <1>3, <1>4, <1>5, <1>6, <1>7, <1>8, <1>9 DEF Next

\* What has ended, by logging out, by time or by a change, does not come back, also when the
\* purge forgets that it was revoked (purgeExpiredTokens).
THEOREM NoReturn == Spec => EndedStaysEnded
<1>1. IInv /\ IInv' /\ [Next]_vars => [\A t \in Tokens : Present(t) /\ ~Accepted(t) => ~Accepted(t)']_vars
  <2> SUFFICES ASSUME IInv, IInv', [Next]_vars, NEW t \in Tokens, Present(t), ~Accepted(t), Accepted(t)'
               PROVE  FALSE
    OBVIOUS
  <2>1. signed'[t] = signed[t] /\ version' >= version
    BY Growing
  <2>2. t \notin expired /\ t \notin revoked
    BY Growing DEF Accepted
  <2>3. signed[t].version # version
    BY <2>2 DEF Accepted, SameVersion
  <2>4. signed[t].version < version
    BY <2>3, Parts DEF IInv, SignedWas, Was, Session, Account
  <2>5. signed[t].version = version'
    BY <2>1 DEF Accepted, SameVersion
  <2> QED BY <2>1, <2>4, <2>5, Parts DEF IInv, Session, Account
<1> QED BY <1>1, Invariance, PTL DEF Spec, EndedStaysEnded

-----------------------------------------------------------------------------
(* What a drawer shows is true, for any number of tasks. The invariant adds  *)
(* where the controller of the drawer comes from: it belongs to the task the *)
(* drawer was opened for, whose stream is still open.                        *)
CONSTANT Tasks
VARIABLES task, stream, aborted, current, opened, lines, status, fresh
V == INSTANCE TaskViews
Drawers == V!Nothing \notin Tasks

Owned == current # V!Nothing => opened = current /\ stream[current] = "open"

DrawerInv == V!TypeOK /\ Owned /\ V!OwnLines /\ V!TrueResult

LEMMA DrawerInit == V!Init => DrawerInv
  BY DEF V!Init, DrawerInv, V!TypeOK, Owned, V!OwnLines, V!TrueResult, V!Nothing, V!Results

LEMMA DrawerOpen == ASSUME Drawers, DrawerInv, NEW t \in Tasks, V!Open(t) PROVE DrawerInv'
<1>1. V!TypeOK'
  BY DEF Drawers, DrawerInv, V!Open, V!TypeOK, V!Controller, V!Results
<1>2. Owned' /\ V!OwnLines' /\ V!TrueResult'
  BY DEF Drawers, DrawerInv, V!Open, V!TypeOK, Owned, V!OwnLines, V!TrueResult
<1> QED BY <1>1, <1>2 DEF DrawerInv

LEMMA DrawerClose == DrawerInv /\ V!Close => DrawerInv'
  BY DEF DrawerInv, V!Close, V!TypeOK, Owned, V!OwnLines, V!TrueResult, V!Controller

LEMMA DrawerReset == DrawerInv /\ V!Reset => DrawerInv'
  BY DEF DrawerInv, V!Reset, V!TypeOK, Owned, V!OwnLines, V!TrueResult, V!Controller, V!Nothing, V!Results

\* A task that has a result keeps it, so what is shown stays true while others begin and end.
LEMMA DrawerTask ==
  ASSUME Drawers, DrawerInv, NEW t \in Tasks, V!Begin(t) \/ \E r \in V!Results : V!End(t, r) PROVE DrawerInv'
<1>1. CASE V!Begin(t)
  BY <1>1 DEF DrawerInv, V!Begin, V!TypeOK, Owned, V!OwnLines, V!TrueResult, V!Results
<1>2. ASSUME NEW r \in V!Results, V!End(t, r) PROVE DrawerInv'
  BY <1>2 DEF DrawerInv, V!End, V!TypeOK, Owned, V!OwnLines, V!TrueResult, V!Results
<1> QED BY <1>1, <1>2

LEMMA DrawerLine == ASSUME Drawers, DrawerInv, NEW t \in Tasks, V!Line(t) PROVE DrawerInv'
  BY DEF Drawers, DrawerInv, V!Line, V!Listening, V!Present, V!TypeOK, Owned, V!OwnLines, V!TrueResult

LEMMA DrawerSettle == ASSUME Drawers, DrawerInv, NEW t \in Tasks, V!Settle(t) PROVE DrawerInv'
<1>1. PICK outcome \in V!Answers(t) :
        IF ~V!Present(t) THEN UNCHANGED <<current, lines, status, fresh>>
        ELSE /\ current' = V!Cleared /\ status' = outcome
             /\ lines' = IF outcome = "interrupted" THEN lines \cup {t} ELSE lines
             /\ fresh' = IF outcome = "success" THEN fresh \cup {t} ELSE fresh
  BY DEF V!Settle
<1>2. stream' = [stream EXCEPT ![t] = "over"] /\ UNCHANGED <<task, aborted, opened>>
  BY DEF V!Settle
<1>3. CASE ~V!Present(t)
  BY <1>1, <1>2, <1>3 DEF DrawerInv, V!Present, V!TypeOK, Owned, V!OwnLines, V!TrueResult
<1>4. CASE V!Present(t)
  <2>1. current = t /\ opened = t /\ t # V!Nothing
    BY <1>4 DEF Drawers, V!Present, DrawerInv, Owned
  <2>2. /\ outcome \in {"cancelled", "interrupted"} \cup V!Results
        /\ outcome = "success" => task[t] = "success"
        /\ outcome = "failed" => task[t] \in {"failed", "refused"}
    BY DEF V!Answers, V!Results
  <2>3. V!TypeOK'
    BY <1>1, <1>2, <1>4, <2>1, <2>2 DEF DrawerInv, V!TypeOK, V!Cleared, V!Results
  <2>4. Owned' /\ V!OwnLines' /\ V!TrueResult'
    BY <1>1, <1>2, <1>4, <2>1, <2>2 DEF DrawerInv, V!TypeOK, Owned, V!OwnLines, V!TrueResult, V!Cleared
  <2> QED BY <2>3, <2>4 DEF DrawerInv
<1> QED BY <1>3, <1>4

LEMMA DrawerNext == ASSUME Drawers PROVE DrawerInv /\ [V!Next]_(V!vars) => DrawerInv'
<1> SUFFICES ASSUME DrawerInv, [V!Next]_(V!vars) PROVE DrawerInv'
  OBVIOUS
<1>1. CASE V!Next
  BY <1>1, DrawerOpen, DrawerClose, DrawerReset, DrawerTask, DrawerLine, DrawerSettle DEF V!Next
<1>2. CASE UNCHANGED V!vars
  BY <1>2 DEF V!vars, DrawerInv, V!TypeOK, Owned, V!OwnLines, V!TrueResult
<1> QED BY <1>1, <1>2

LEMMA DrawerInvariance == ASSUME Drawers PROVE V!Spec => []DrawerInv
  BY DrawerInit, DrawerNext, PTL DEF V!Spec

\* A drawer shows the log and the result of its own task and spins exactly while a
\* controller is its own, whatever streams end late (useDeployStream).
THEOREM DrawersAreTrue == ASSUME Drawers PROVE V!Spec => []V!ShownIsTrue
<1>1. DrawerInv => V!ShownIsTrue
  BY DEF DrawerInv, V!ShownIsTrue
<1> QED BY <1>1, DrawerInvariance, PTL

-----------------------------------------------------------------------------
(* What a deployment's drawer reads of its stream stays within its bounds,    *)
(* and success is reported only where the server has said so, for any text,   *)
(* however it is cut.                                                         *)
CONSTANTS MaxLength, Limit
VARIABLES text, got, closed, buffer, data, size, events, outcome, phase
E == INSTANCE EventStream

StreamTypes ==
    /\ text \in Seq(E!Lines \cup E!Ends) /\ got \in 0 .. Len(text) /\ closed \in BOOLEAN
    /\ buffer \in Seq(E!Lines \cup E!Ends) /\ data \in Seq(E!Data) /\ events \in Seq(E!Data)
    /\ size \in Nat /\ outcome \in E!Outcomes /\ phase \in {"read", "lines"}

StreamInv == StreamTypes /\ E!Bounded /\ E!SuccessIsSaid

LEMMA StreamInit == ASSUME E!StreamAssumption PROVE E!Init => StreamInv
<1> SUFFICES ASSUME E!Init PROVE StreamInv
  OBVIOUS
<1>1. text \in Seq(E!Lines \cup E!Ends) /\ Len(text) \in Nat
  <2>1. PICK n \in 0 .. MaxLength : text \in [1 .. n -> E!Lines \cup E!Ends]
    BY DEF E!Init, E!Texts
  <2> QED BY <2>1 DEF E!StreamAssumption
<1>2. StreamTypes
  <2>1. buffer \in Seq(E!Lines \cup E!Ends) /\ data \in Seq(E!Data) /\ events \in Seq(E!Data)
    BY EmptySeq, Zenon DEF E!Init
  <2>2. got \in 0 .. Len(text) /\ size \in Nat
    BY <1>1 DEF E!Init
  <2>3. closed \in BOOLEAN /\ outcome \in E!Outcomes /\ phase \in {"read", "lines"}
    BY DEF E!Init, E!Outcomes
  <2> QED BY <1>1, <2>1, <2>2, <2>3 DEF StreamTypes
<1>3. E!Bounded
  BY EmptySeq DEF E!StreamAssumption, E!Init, E!Bounded
<1> QED BY <1>2, <1>3 DEF E!Init, StreamInv, E!SuccessIsSaid

LEMMA StreamReads ==
  ASSUME StreamInv, (\E n \in 1 .. Len(text) - got : E!Receive(n)) \/ E!Close \/ E!Break \/ E!Abort
  PROVE  StreamInv'
<1>1. ASSUME NEW n \in 1 .. Len(text) - got, E!Receive(n) PROVE StreamInv'
  <2>1. SubSeq(text, got + 1, got + n) \in Seq(E!Lines \cup E!Ends)
    <3>1. text \in Seq(E!Lines \cup E!Ends) /\ got + 1 \in 1 .. Len(text) + 1 /\ got + n \in 0 .. Len(text)
      BY DEF StreamInv, StreamTypes
    <3>2. \A i \in got + 1 .. got + n : i \in 1 .. Len(text)
      BY <3>1 DEF StreamInv, StreamTypes
    <3> QED BY <3>1, <3>2
  <2>2. buffer' \in Seq(E!Lines \cup E!Ends)
    BY <1>1, <2>1 DEF E!Receive, StreamInv, StreamTypes
  <2>3. got' \in 0 .. Len(text)
    BY <1>1 DEF E!Receive, StreamInv, StreamTypes
  <2> QED BY <1>1, <2>2, <2>3 DEF E!Receive, StreamInv, StreamTypes, E!Bounded, E!SuccessIsSaid, E!Running
<1>2. CASE E!Close \/ E!Break \/ E!Abort
  BY <1>2 DEF E!Close, E!Break, E!Abort, StreamInv, StreamTypes, E!Bounded, E!SuccessIsSaid, E!Running, E!Outcomes
<1> QED BY <1>1, <1>2

LEMMA StreamLine == ASSUME StreamInv, NEW i \in E!End, E!Line(i) PROVE StreamInv'
<1>0. i \in 1 .. Len(buffer) /\ i <= Len(buffer) /\ UNCHANGED <<text, got, closed, phase>> /\ E!Running("lines")
      /\ Len(buffer) \in Nat
  BY DEF E!End, E!Line, StreamInv, StreamTypes
<1>1. buffer' \in Seq(E!Lines \cup E!Ends)
  <2>1. E!Separator(i) \in 1 .. 2 /\ i + E!Separator(i) \in 1 .. Len(buffer) + 1
    BY <1>0 DEF E!Separator
  <2>2. \A j \in i + E!Separator(i) .. Len(buffer) : j \in 1 .. Len(buffer)
    BY <1>0, <2>1
  <2>3. buffer \in Seq(E!Lines \cup E!Ends)
    BY DEF StreamInv, StreamTypes
  <2>4. SubSeq(buffer, i + E!Separator(i), Len(buffer)) \in Seq(E!Lines \cup E!Ends)
    BY <1>0, <2>1, <2>2, <2>3
  <2> QED BY <2>4 DEF E!Line
<1>2. E!Size(i) \in Nat
  BY <1>0 DEF E!Size, StreamInv, StreamTypes
<1>3. E!Bounded'
  BY <1>0 DEF E!Bounded, E!Running
<1>4. CASE outcome' = "interrupted" /\ UNCHANGED <<data, size, events>>
  BY <1>0, <1>1, <1>3, <1>4 DEF StreamInv, StreamTypes, E!SuccessIsSaid, E!Outcomes
<1>5. CASE size' = 0 /\ UNCHANGED <<data, events, outcome>>
  BY <1>0, <1>1, <1>3, <1>5 DEF StreamInv, StreamTypes, E!SuccessIsSaid, E!Outcomes
<1>6. CASE size' = E!Size(i) /\ data' = (IF buffer[1] \in E!Data THEN Append(data, buffer[1]) ELSE data)
           /\ UNCHANGED <<events, outcome>>
  <2>1. data' \in Seq(E!Data)
    BY <1>6 DEF StreamInv, StreamTypes
  <2> QED BY <1>0, <1>1, <1>2, <1>3, <1>6, <2>1 DEF StreamInv, StreamTypes, E!SuccessIsSaid
<1>7. CASE /\ Len(data) = 1 /\ size' = 0 /\ data' = <<>>
           /\ events' = events \o data /\ outcome' = E!Result(data[1])
  <2>1. events \in Seq(E!Data) /\ data \in Seq(E!Data) /\ Len(events) \in Nat /\ data[1] \in E!Data
    <3>1. events \in Seq(E!Data) /\ data \in Seq(E!Data)
      BY DEF StreamInv, StreamTypes
    <3>2. 1 \in 1 .. Len(data)
      BY <1>7
    <3> QED BY <3>1, <3>2, ElementOfSeq, LenProperties
  <2>2. events' \in Seq(E!Data) /\ Len(events') = Len(events) + 1 /\ events'[Len(events) + 1] = data[1]
    <3>1. events' = events \o data /\ Len(data) = 1
      BY <1>7
    <3>2. events' \in Seq(E!Data) /\ Len(events') = Len(events) + Len(data)
          /\ \A j \in 1 .. Len(events) + Len(data) :
                events'[j] = IF j <= Len(events) THEN events[j] ELSE data[j - Len(events)]
      BY <2>1, <3>1, ConcatProperties
    <3> QED BY <2>1, <3>1, <3>2
  <2>3. outcome' \in E!Outcomes /\ (outcome' = "success" => data[1] = "succeeded")
    BY <1>7 DEF E!Result, E!Outcomes
  <2>4. E!SuccessIsSaid'
    <3>1. events' # <<>>
      BY <2>1, <2>2
    <3> QED BY <2>2, <2>3, <3>1 DEF E!SuccessIsSaid
  <2> QED BY <1>0, <1>1, <1>3, <1>7, <2>2, <2>3, <2>4 DEF StreamInv, StreamTypes
<1> QED BY <1>4, <1>5, <1>6, <1>7 DEF E!Line

LEMMA StreamDrained == ASSUME E!StreamAssumption, StreamInv, E!Drained PROVE StreamInv'
<1>1. Len(buffer) \in Nat /\ size \in Nat /\ Limit \in Nat
  BY DEF StreamInv, StreamTypes, E!StreamAssumption
<1>2. outcome' = "none" => Len(buffer) + size <= Limit
  BY <1>1 DEF E!Drained, E!AtEnd
<1> QED BY <1>2 DEF E!Drained, E!AtEnd, StreamInv, StreamTypes, E!Bounded, E!SuccessIsSaid, E!Running, E!Outcomes

LEMMA StreamNext == ASSUME E!StreamAssumption PROVE StreamInv /\ [E!Next]_(E!vars) => StreamInv'
<1> SUFFICES ASSUME StreamInv, [E!Next]_(E!vars) PROVE StreamInv'
  OBVIOUS
<1>1. CASE UNCHANGED E!vars
  BY <1>1 DEF E!vars, StreamInv, StreamTypes, E!Bounded, E!SuccessIsSaid, E!Running
<1> QED BY <1>1, StreamReads, StreamLine, StreamDrained DEF E!Next

\* An end of the connection is not taken for success: success was said; and what is kept does
\* not grow past an event and the piece that came last (readSse).
THEOREM StreamsAreSafe == ASSUME E!StreamAssumption PROVE E!Spec => [](E!SuccessIsSaid /\ E!Bounded)
<1>1. StreamInv => E!SuccessIsSaid /\ E!Bounded
  BY DEF StreamInv
<1> QED BY <1>1, StreamInit, StreamNext, PTL DEF E!Spec

-----------------------------------------------------------------------------
(* The tags of a server follow the results of its check, for any number of    *)
(* checks, agent runs and requests, while nothing fails. The invariant knows   *)
(* by which of the agent's runs the row was last written, and that the one     *)
(* report under way is that of the agent's present run.                        *)
CONSTANTS Ips, Checks, MaxRuns, MaxRequests, MaxFaults, Nothing
VARIABLES server, row, tags, check, agent, handlers, runs, requests, faults, up
I == INSTANCE IpCheck

By == IF row = Nothing THEN 0 ELSE row.by

ByAgent ==
    /\ up
    /\ agent.at # "reporting" => handlers = {}
    /\ agent.at = "reporting" => \E h \in handlers : handlers = {h} /\ h.run = agent.run
    /\ \A h \in handlers : h.at = "tags" => row # Nothing /\ By = h.run
    /\ (\A h \in handlers : h.at # "tags") => By = tags

Numbered == agent.at # "idle" => agent.run \in 1 .. MaxRuns

CheckInv == I!TypeOK /\ Numbered /\ (faults = 0 /\ server # Nothing => ByAgent)

LEMMA CheckInit == ASSUME I!IpCheckAssumption PROVE I!Init => CheckInv
  BY DEF I!Init, CheckInv, Numbered, I!TypeOK, ByAgent, By, I!IpCheckAssumption, I!Idle, I!Resting

\* What the panel's part of the check does to the row.
SameResults == (row = Nothing => row' = Nothing \/ row'.by = 0) /\ (row # Nothing => row' # Nothing /\ row'.by = row.by)

\* The row is made, or written to in the columns that are not about the agent's results.
LEMMA RowIsThere == ASSUME I!IpCheckAssumption, NEW r \in I!Rows PROVE r # Nothing
  BY DEF I!IpCheckAssumption

LEMMA RowMade ==
  ASSUME I!IpCheckAssumption, NEW s \in {"PENDING", "RUNNING"} PROVE I!Row(s) \in I!Rows /\ I!Row(s).by = 0
<1>1. 0 \in 0 .. MaxRuns
  BY DEF I!IpCheckAssumption
<1> QED BY <1>1 DEF I!Row, I!Rows

\* Steps that leave the agent, its reports and the tags alone.
LEMMA PanelSafe ==
  ASSUME I!IpCheckAssumption, CheckInv, I!TypeOK', SameResults, UNCHANGED <<tags, agent, handlers>>,
         faults' = 0 => faults = 0, server' # Nothing => server # Nothing,
         faults' = 0 /\ server' # Nothing => up'
  PROVE  CheckInv'
<1> SUFFICES ASSUME faults' = 0, server' # Nothing PROVE ByAgent'
  BY DEF CheckInv, Numbered
<1>1. ByAgent
  BY DEF CheckInv
<1>2. By' = By /\ (row # Nothing => row' # Nothing)
  BY DEF By, SameResults
<1> QED BY <1>1, <1>2 DEF ByAgent

Bounds == runs' \in 0 .. MaxRuns /\ requests' \in 0 .. MaxRequests /\ faults' \in 0 .. MaxFaults /\ up' \in BOOLEAN
Checking == [Checks -> [at : {"idle", "start", "info", "gfw", "answer"}, ip : Ips \cup {Nothing}]]

LEMMA CheckOperator ==
  ASSUME I!IpCheckAssumption, CheckInv, NEW c \in Checks,
         I!TriggerManual(c) \/ I!TriggerGfw(c) \/ I!ScheduledGfwCheck(c) \/ I!Unanswered(c)
  PROVE  CheckInv'
<1>1. I!TypeOK' /\ SameResults
  <2>1. CASE I!TriggerManual(c)
    <3>1. row' \in I!Rows /\ row' # Nothing /\ SameResults
      <4>1. CASE row = Nothing
        <5>1. row' \in I!Rows /\ row'.by = 0
          BY <2>1, <4>1, RowMade DEF I!TriggerManual
        <5> QED BY <4>1, <5>1, RowIsThere DEF SameResults
      <4>2. CASE row # Nothing
        <5>1. row \in I!Rows /\ row' = [row EXCEPT !.status = "PENDING", !.old = FALSE, !.error = FALSE]
          BY <2>1, <4>2 DEF I!TriggerManual, CheckInv, I!TypeOK
        <5>2. row' \in I!Rows /\ row'.by = row.by
          BY <5>1 DEF I!Rows
        <5> QED BY <4>2, <5>2, RowIsThere DEF SameResults
      <4> QED BY <4>1, <4>2
    <3> QED BY <2>1, <3>1 DEF I!TriggerManual, I!Request, I!To, CheckInv, I!TypeOK, I!IpCheckAssumption
  <2>2. CASE I!TriggerGfw(c) \/ I!ScheduledGfwCheck(c) \/ I!Unanswered(c)
    BY <2>2 DEF I!TriggerGfw, I!ScheduledGfwCheck, I!Unanswered, I!Fault, I!Due, I!Request, I!To, CheckInv, I!TypeOK, SameResults,
                I!IpCheckAssumption
  <2> QED BY <2>1, <2>2
<1>2. UNCHANGED <<tags, agent, handlers, server, up>>
  BY DEF I!TriggerManual, I!TriggerGfw, I!ScheduledGfwCheck, I!Unanswered
<1>3. faults' = 0 => faults = 0
  BY DEF I!TriggerManual, I!TriggerGfw, I!ScheduledGfwCheck, I!Unanswered, I!Fault, CheckInv, I!TypeOK
<1> QED BY <1>1, <1>2, <1>3, PanelSafe DEF CheckInv, ByAgent

LEMMA CheckPanel == ASSUME I!IpCheckAssumption, CheckInv, NEW c \in Checks, I!PanelStep(c) PROVE CheckInv'
<1>1. CASE I!Rejected(c)
  BY <1>1 DEF I!Rejected, CheckInv, Numbered, I!TypeOK
<1>2. CASE ~I!Rejected(c)
  <2>1. /\ UNCHANGED <<server, tags, agent, handlers, runs, requests, faults, up>>
        /\ \E at \in {"idle", "info", "gfw"}, ip \in Ips \cup {Nothing} : check' = [check EXCEPT ![c] = [at |-> at, ip |-> ip]]
    BY <1>2 DEF I!PanelStep, I!Start, I!LookUp, I!Answered, I!ScheduledAnswer, I!To, CheckInv, I!TypeOK
  <2>2. check[c].ip \in Ips \cup {Nothing}
    BY DEF CheckInv, I!TypeOK
  <2>3. (row' = Nothing \/ (row' \in I!Rows /\ server # Nothing)) /\ SameResults
    <3>1. CASE row' = row
      BY <3>1 DEF CheckInv, I!TypeOK, SameResults
    <3>2. CASE I!Start(c) /\ row' # row
      <4>1. CASE row = Nothing
        <5>1. row' = I!Row("RUNNING") /\ server # Nothing
          BY <3>2, <4>1 DEF I!Start
        <5> QED BY <4>1, <5>1, RowMade, RowIsThere DEF SameResults
      <4>2. CASE row # Nothing
        <5>1. row \in I!Rows /\ server # Nothing /\ row' = [row EXCEPT !.status = "RUNNING", !.old = FALSE, !.error = FALSE]
          BY <3>2, <4>2 DEF I!Start, CheckInv, I!TypeOK
        <5>2. row' \in I!Rows /\ row'.by = row.by
          BY <5>1 DEF I!Rows
        <5> QED BY <4>2, <5>1, <5>2, RowIsThere DEF SameResults
      <4> QED BY <4>1, <4>2
    <3>3. CASE I!LookUp(c) /\ row' # row
      <4>1. row # Nothing /\ row \in I!Rows /\ server # Nothing /\ row' = [row EXCEPT !.info = check[c].ip]
        BY <3>3 DEF I!LookUp, I!Lookup, CheckInv, I!TypeOK
      <4>2. row' \in I!Rows /\ row'.by = row.by
        BY <2>2, <4>1 DEF I!Rows
      <4> QED BY <4>1, <4>2, RowIsThere DEF SameResults
    <3>4. CASE I!Store(check[c].ip)
      <4> DEFINE r == IF row = Nothing THEN I!Row("PENDING") ELSE row
      <4>1. r \in I!Rows /\ server # Nothing /\ r.by = (IF row = Nothing THEN 0 ELSE row.by)
        BY <3>4, RowMade DEF I!Store, CheckInv, I!TypeOK
      <4>2. row' = [r EXCEPT !.gfw = check[c].ip]
        BY <3>4 DEF I!Store
      <4> HIDE DEF r
      <4>3. row' \in I!Rows /\ row'.by = r.by
        BY <2>2, <4>1, <4>2 DEF I!Rows
      <4> QED BY <4>1, <4>3, RowIsThere DEF SameResults
    <3> QED BY <1>2, <3>1, <3>2, <3>3, <3>4 DEF I!PanelStep, I!Answered, I!ScheduledAnswer
  <2>4. I!TypeOK'
    BY <2>1, <2>3 DEF CheckInv, I!TypeOK
  <2> QED BY <2>1, <2>3, <2>4, PanelSafe DEF CheckInv, ByAgent
<1> QED BY <1>1, <1>2

\* The operator's other steps, and those of time.
LEMMA CheckOthers ==
  ASSUME I!IpCheckAssumption, CheckInv, I!ChangeIp \/ I!DeleteServer \/ I!TenMinutes \/ I!ExpireStaleChecks \/ I!Crash \/ I!Restart
  PROVE  CheckInv'
<1>1. CASE I!ChangeIp
  <2>1. I!TypeOK' /\ SameResults
    BY <1>1 DEF I!ChangeIp, I!Request, CheckInv, I!TypeOK, SameResults, I!IpCheckAssumption
  <2> QED BY <1>1, <2>1, PanelSafe DEF I!ChangeIp, CheckInv, ByAgent
<1>2. CASE I!DeleteServer
  BY <1>2 DEF I!DeleteServer, I!Request, CheckInv, Numbered, I!TypeOK, I!IpCheckAssumption
<1>3. CASE I!TenMinutes \/ I!ExpireStaleChecks
  <2>1. row # Nothing /\ row \in I!Rows /\ server # Nothing
        /\ (row' = [row EXCEPT !.old = TRUE] \/ row' = [row EXCEPT !.status = "FAILED", !.error = TRUE])
        /\ UNCHANGED <<server, tags, check, agent, handlers, runs, requests, faults, up>>
    BY <1>3 DEF I!TenMinutes, I!ExpireStaleChecks, CheckInv, I!TypeOK
  <2>2. row' \in I!Rows /\ row' # Nothing /\ row'.by = row.by
    <3>1. row' \in I!Rows /\ row'.by = row.by
      BY <2>1 DEF I!Rows
    <3> QED BY <3>1, RowIsThere
  <2>3. I!TypeOK' /\ SameResults
    BY <2>1, <2>2 DEF CheckInv, I!TypeOK, SameResults
  <2> QED BY <2>1, <2>3, PanelSafe DEF CheckInv, ByAgent
<1>4. CASE I!Crash
  <2>1. faults' # 0 /\ faults' \in 0 .. MaxFaults
    BY <1>4 DEF I!Crash, I!Fault, CheckInv, I!TypeOK, I!IpCheckAssumption
  <2> QED BY <1>4, <2>1 DEF I!Crash, CheckInv, Numbered, I!TypeOK
<1>5. CASE I!Restart
  <2>1. I!TypeOK'
    BY <1>5 DEF I!Restart, I!Idle, I!Resting, CheckInv, I!TypeOK, I!IpCheckAssumption
  <2>2. ~(faults' = 0 /\ server' # Nothing) /\ Numbered'
    BY <1>5 DEF I!Restart, CheckInv, ByAgent, Numbered, I!Resting
  <2> QED BY <2>1, <2>2 DEF CheckInv
<1> QED BY <1>1, <1>2, <1>3, <1>4, <1>5

LEMMA CheckAgent == ASSUME I!IpCheckAssumption, CheckInv, I!Heartbeat \/ I!GiveUp \/ I!Report PROVE CheckInv'
<1>1. CASE I!Heartbeat
  <2>1. I!TypeOK'
    BY <1>1 DEF I!Heartbeat, I!NotRunning, CheckInv, I!TypeOK, I!IpCheckAssumption
  <2>2. agent.at = "idle" /\ agent'.at = "checking" /\ By' = By
    BY <1>1 DEF I!Heartbeat, I!NotRunning, By
  <2>3. Numbered'
    BY <1>1 DEF I!Heartbeat, Numbered, CheckInv, I!TypeOK, I!IpCheckAssumption
  <2> QED BY <1>1, <2>1, <2>2, <2>3 DEF I!Heartbeat, CheckInv, ByAgent
<1>2. CASE I!GiveUp
  BY <1>2 DEF I!GiveUp, I!Fault, I!Resting, CheckInv, Numbered, I!TypeOK, I!IpCheckAssumption
<1>3. CASE I!Report
  <2>1. PICK ok \in BOOLEAN : handlers' = handlers \cup {[at |-> "row", run |-> agent.run, success |-> ok]}
    BY <1>3 DEF I!Report
  <2>2. agent.at = "checking" /\ agent'.at = "reporting" /\ agent'.run = agent.run /\ By' = By
    BY <1>3 DEF I!Report, CheckInv, I!TypeOK, By
  <2>3. I!TypeOK' /\ Numbered'
    BY <1>3, <2>1 DEF I!Report, CheckInv, Numbered, I!TypeOK, I!IpCheckAssumption
  <2>4. ASSUME ByAgent PROVE ByAgent'
    <3>1. handlers' = {[at |-> "row", run |-> agent.run, success |-> ok]}
      BY <2>1, <2>2, <2>4 DEF ByAgent
    <3>2. By = tags /\ UNCHANGED <<up, tags>> /\ By' = By
      BY <1>3, <2>2, <2>4 DEF I!Report, ByAgent
    <3> QED BY <2>2, <2>4, <3>1, <3>2 DEF ByAgent
  <2> QED BY <1>3, <2>3, <2>4 DEF I!Report, CheckInv
<1> QED BY <1>1, <1>2, <1>3

\* The one report there is writes the row and then the tags.
LEMMA CheckReports ==
  ASSUME I!IpCheckAssumption, CheckInv, NEW h \in handlers, I!ReportRow(h) \/ I!ReportTags(h) PROVE CheckInv'
<1>1. h \in [at : {"row", "tags"}, run : 1 .. MaxRuns, success : BOOLEAN]
  BY DEF CheckInv, I!TypeOK
<1>2. CASE I!ReportTags(h)
  <2>1. /\ h.at = "tags" /\ tags' = (IF server = Nothing THEN tags ELSE h.run) /\ handlers' = handlers \ {h}
        /\ agent' = (IF agent = [at |-> "reporting", run |-> h.run] THEN I!Resting ELSE agent)
        /\ UNCHANGED <<server, row, check, runs, requests, faults, up>>
    BY <1>2 DEF I!ReportTags, I!Answer
  <2>2. I!TypeOK' /\ Numbered'
    BY <1>1, <2>1 DEF CheckInv, Numbered, I!TypeOK, I!Resting, I!IpCheckAssumption
  <2>3. ASSUME ByAgent, server # Nothing PROVE ByAgent'
    <3>1. agent.at = "reporting" /\ handlers = {h} /\ h.run = agent.run /\ By = h.run
      BY <2>1, <2>3 DEF ByAgent, CheckInv, I!TypeOK
    <3>2. agent = [at |-> "reporting", run |-> h.run]
      BY <3>1 DEF CheckInv, I!TypeOK
    <3> QED BY <2>1, <2>3, <3>1, <3>2 DEF ByAgent, By, I!Resting
  <2> QED BY <2>1, <2>2, <2>3 DEF CheckInv
<1>3. CASE I!ReportRow(h)
  <2>1. /\ h.at = "row" /\ UNCHANGED <<server, tags, check, runs, requests, faults, up>>
    BY <1>3 DEF I!ReportRow
  <2>2. CASE /\ handlers' = handlers \ {h}
             /\ agent' = (IF agent = [at |-> "reporting", run |-> h.run] THEN I!Resting ELSE agent)
             /\ (row' = row \/ (row # Nothing /\ server # Nothing /\ row' = [row EXCEPT !.status = "FAILED", !.error = TRUE]))
    <3>1. (row' = Nothing \/ (row' \in I!Rows /\ server # Nothing)) /\ SameResults
      <4>1. CASE row' = row
        BY <4>1 DEF CheckInv, I!TypeOK, SameResults
      <4>2. CASE row # Nothing /\ server # Nothing /\ row' = [row EXCEPT !.status = "FAILED", !.error = TRUE]
        <5>1. row' \in I!Rows /\ row'.by = row.by
          BY <4>2 DEF CheckInv, I!TypeOK, I!Rows
        <5> QED BY <4>2, <5>1, RowIsThere DEF SameResults
      <4> QED BY <2>2, <4>1, <4>2
    <3>2. I!TypeOK' /\ Numbered'
      BY <1>1, <2>1, <2>2, <3>1 DEF CheckInv, Numbered, I!TypeOK, I!Resting, I!IpCheckAssumption
    <3>3. ASSUME ByAgent PROVE ByAgent'
      <4>1. agent.at = "reporting" /\ handlers = {h} /\ h.run = agent.run
        BY <3>3 DEF ByAgent
      <4>2. agent' = I!Resting /\ handlers' = {} /\ By' = By
        BY <2>2, <3>1, <4>1 DEF CheckInv, I!TypeOK, By, SameResults
      <4>3. By = tags
        BY <2>1, <3>3, <4>1 DEF ByAgent
      <4> QED BY <2>1, <3>3, <4>2, <4>3 DEF ByAgent, I!Resting
    <3> QED BY <2>1, <3>2, <3>3 DEF CheckInv
  <2>3. CASE /\ row # Nothing /\ server # Nothing /\ row' = [row EXCEPT !.status = "COMPLETED", !.by = h.run]
             /\ handlers' = (handlers \ {h}) \cup {[h EXCEPT !.at = "tags"]} /\ UNCHANGED agent
    <3>1. row' \in I!Rows /\ row' # Nothing /\ row'.by = h.run
      <4>1. row \in I!Rows /\ h.run \in 0 .. MaxRuns
        BY <1>1, <2>3 DEF CheckInv, I!TypeOK, I!IpCheckAssumption
      <4>2. row' \in I!Rows /\ row'.by = h.run
        BY <2>3, <4>1 DEF I!Rows
      <4> QED BY <4>2 DEF I!IpCheckAssumption
    <3>2. I!TypeOK' /\ Numbered'
      BY <1>1, <2>1, <2>3, <3>1 DEF CheckInv, Numbered, I!TypeOK, I!IpCheckAssumption
    <3>3. ASSUME ByAgent PROVE ByAgent'
      <4>1. agent.at = "reporting" /\ handlers = {h} /\ h.run = agent.run
        BY <3>3 DEF ByAgent
      <4>2. handlers' = {[h EXCEPT !.at = "tags"]} /\ [h EXCEPT !.at = "tags"].at = "tags" /\ [h EXCEPT !.at = "tags"].run = h.run
        BY <1>1, <2>3, <4>1
      <4> QED BY <2>1, <2>3, <3>1, <3>3, <4>1, <4>2 DEF ByAgent, By
    <3> QED BY <2>1, <3>2, <3>3 DEF CheckInv
  <2> QED BY <1>3, <2>2, <2>3 DEF I!ReportRow, I!Answer
<1> QED BY <1>2, <1>3

LEMMA CheckNext == ASSUME I!IpCheckAssumption PROVE CheckInv /\ [I!Next]_(I!vars) => CheckInv'
<1> SUFFICES ASSUME CheckInv, [I!Next]_(I!vars) PROVE CheckInv'
  OBVIOUS
<1>1. CASE UNCHANGED I!vars
  BY <1>1 DEF I!vars, CheckInv, Numbered, I!TypeOK, ByAgent, By
<1> QED BY <1>1, CheckOperator, CheckPanel, CheckOthers, CheckAgent, CheckReports DEF I!Next, I!AgentStep

\* As long as no connection broke and no process ended, the tags of a server are those of the
\* results its row shows, once the panel is done with the reports (ip-check.service reportResult).
THEOREM TagsFollow == ASSUME I!IpCheckAssumption PROVE I!Spec => []I!TagsFollowResults
<1>1. CheckInv => I!TagsFollowResults
  BY DEF CheckInv, I!TypeOK, ByAgent, By, I!TagsFollowResults
<1> QED BY <1>1, CheckInit, CheckNext, PTL DEF I!Spec
==============================================================================
