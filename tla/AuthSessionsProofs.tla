------------------------- MODULE AuthSessionsProofs --------------------------
(* Theorems about AuthSessions, for every value of its constants: its types,  *)
(* the inductive invariant, what revocation and deactivation guarantee, what  *)
(* the tokens in the rows mean, and that it implements SessionLifecycle.      *)
EXTENDS AuthSessions, FiniteSetTheorems, WellFoundedInduction, TLAPS

IInv == TypeOK /\ Consistent

USE DEF Steps, LoginSteps, RefreshSteps

\* The rows the statements write are rows.
LEMMA RowsTyped ==
    ASSUME TypeOK, NEW S
    PROVE  /\ RevokeRows(S) \in [Sessions -> Row]
           /\ RevokeRowsKeepToken(S) \in [Sessions -> Row]
<1>1. \A s \in Sessions : sess[s] \in Row
  BY DEF TypeOK
<1>2. now \in Nat
  BY DEF TypeOK
<1>3. QED  BY <1>1, <1>2 DEF RevokeRows, RevokeRowsKeepToken, Row

LEMMA IdleTyped == NoRow \in Row /\ Idle \in Request
<1>1. NoRow \in Row  BY DEF NoRow, Row
<1>2. QED  BY <1>1 DEF Idle, Request

\* Moving a request to its next statement, or ending it, keeps req typed.
LEMMA GotoTyped ==
    ASSUME TypeOK, NEW r \in Requests, NEW step \in Steps, Goto(r, step)
    PROVE  req' \in [Requests -> Request]
BY DEF TypeOK, Goto, Request

LEMMA FinishTyped ==
    ASSUME TypeOK, NEW r \in Requests, Finish(r)
    PROVE  req' \in [Requests -> Request]
BY IdleTyped DEF TypeOK, Finish

\* Storing a token changes the three token columns of one row.
LEMMA StoreTyped ==
    ASSUME TypeOK, NEW r \in Requests, StoreToken(r)
    PROVE  sess' \in [Sessions -> Row]
<1> DEFINE sid == req[r].sid
           row == [sess[sid] EXCEPT !.hash = req[r].token,
                                    !.hash_expires = now + RefreshTokenLifetime,
                                    !.hash_revoked_at = None]
<1>1. CASE sid \in Sessions
  <2>1. sess[sid] \in Row /\ req[r].token \in Tokens \cup {None}
    BY <1>1 DEF TypeOK, Request
  <2>2. now + RefreshTokenLifetime \in Nat
    BY SettingsAssumption DEF TypeOK
  <2>3. row \in Row
    BY <2>1, <2>2 DEF Row
  <2>4. sess' = [sess EXCEPT ![sid] = row]
    BY <1>1 DEF StoreToken, TypeOK
  <2> HIDE DEF row
  <2>5. QED  BY <2>3, <2>4 DEF TypeOK
<1>2. CASE sid \notin Sessions
  BY <1>2 DEF StoreToken, TypeOK
<1>3. QED  BY <1>1, <1>2

\* Every step keeps the types, given that requests are consistent.
LEMMA TypeStep == IInv /\ [Next]_vars => TypeOK'
<1> SUFFICES ASSUME IInv, [Next]_vars PROVE TypeOK'
  OBVIOUS
<1> USE DEF IInv
<1>a. ASSUME NEW r \in Requests, Advance(r) PROVE TypeOK'
  <2>1. CASE LoginBelowLimit(r)
    BY <2>1, GotoTyped DEF LoginBelowLimit, TypeOK
  <2>2. CASE LoginRefused(r)
    BY <2>2, FinishTyped DEF LoginRefused, TypeOK
  <2>3. CASE LoginMustEvict(r)
    BY <2>3, GotoTyped DEF LoginMustEvict, TypeOK
  <2>4. CASE LoginFindOldest(r)
    <3>1. CASE Goto(r, "create")
      BY <2>4, <3>1, GotoTyped DEF LoginFindOldest, TypeOK
    <3>2. CASE \E s \in OldestLive(req[r].user) :
                 req' = [req EXCEPT ![r] = [@ EXCEPT !.at = "evict", !.victim = s]]
      <4>1. PICK s \in OldestLive(req[r].user) :
                   req' = [req EXCEPT ![r] = [@ EXCEPT !.at = "evict", !.victim = s]]
        BY <3>2
      <4>2. s \in Sessions
        BY DEF OldestLive, LiveSessions, SessionsOf
      <4>3. [req[r] EXCEPT !.at = "evict", !.victim = s] \in Request
        BY <4>2 DEF TypeOK, Request
      <4>4. req' = [req EXCEPT ![r] = [req[r] EXCEPT !.at = "evict", !.victim = s]]
        BY <4>1
      <4>5. QED  BY <2>4, <4>3, <4>4 DEF LoginFindOldest, TypeOK
    <3>3. QED  BY <2>4, <3>1, <3>2 DEF LoginFindOldest
  <2>5. CASE LoginEvict(r)
    BY <2>5, GotoTyped, RowsTyped DEF LoginEvict, TypeOK
  <2>6. CASE LoginCreate(r)
    <3>1. req' \in [Requests -> Request]
      BY <2>6, GotoTyped DEF LoginCreate
    <3>2. sess' \in [Sessions -> Row]
      <4> DEFINE row == [NoRow EXCEPT !.user = req[r].user, !.is_active = TRUE,
                                      !.login_at = inserts,
                                      !.expires_at = now + RefreshTokenLifetime]
      <4>a. req[r].user \in Users \cup {None}
        BY DEF TypeOK, Request
      <4>b. inserts \in Nat /\ now + RefreshTokenLifetime \in Nat
        BY SettingsAssumption DEF TypeOK
      <4>1. row \in Row
        BY <4>a, <4>b DEF NoRow, Row
      <4>2. sess' = [sess EXCEPT ![req[r].sid] = row]
        BY <2>6 DEF LoginCreate
      <4> HIDE DEF row
      <4>3. QED  BY <4>1, <4>2 DEF TypeOK
    <3>3. QED  BY <2>6, <3>1, <3>2 DEF LoginCreate, TypeOK
  <2>7. CASE LoginStoreToken(r)
    BY <2>7, GotoTyped, StoreTyped DEF LoginStoreToken, TypeOK
  <2>8. CASE Respond(r)
    <3>1. req[r].sid \in Sessions /\ req[r].token \in Tokens
      BY <2>8 DEF Respond, Consistent, RequestConsistent, TypeOK
    <3>2. QED  BY <2>8, <3>1, FinishTyped DEF Respond, TypeOK
  <2>9. CASE RefreshConcurrent(r)
    BY <2>9, FinishTyped DEF RefreshConcurrent, TypeOK
  <2>10. CASE RefreshReplay(r)
    BY <2>10, FinishTyped, GotoTyped DEF RefreshReplay, TypeOK
  <2>11. CASE RefreshRejected(r)
    BY <2>11, FinishTyped DEF RefreshRejected, TypeOK
  <2>12. CASE RefreshAccepted(r)
    BY <2>12, GotoTyped DEF RefreshAccepted, TypeOK
  <2>13. CASE ReplayRevoke(r)
    BY <2>13, FinishTyped, GotoTyped, RowsTyped DEF ReplayRevoke, TypeOK
  <2>14. CASE ReplayLogout(r)
    BY <2>14, FinishTyped, RowsTyped DEF ReplayLogout, TypeOK
  <2>15. CASE RefreshRevokeOld(r)
    BY <2>15, GotoTyped DEF RefreshRevokeOld, TypeOK, Row
  <2>16. CASE RefreshRotate(r)
    BY <2>16, GotoTyped, StoreTyped DEF RefreshRotate, TypeOK
  <2>17. CASE LogoutRevokeToken(r)
    BY <2>17, FinishTyped DEF LogoutRevokeToken, TypeOK, Row
  <2>18. QED
    BY <1>a, <2>1, <2>2, <2>3, <2>4, <2>5, <2>6, <2>7, <2>8, <2>9, <2>10,
       <2>11, <2>12, <2>13, <2>14, <2>15, <2>16, <2>17 DEF Advance
<1>b. ASSUME NEW r \in Requests, Arrive(r) PROVE TypeOK'
  <2>1. ASSUME NEW u \in Users, NEW confirm \in BOOLEAN,
               LoginStart(r, u, confirm)
        PROVE  TypeOK'
    <3>1. PICK s \in FreshSessions, t \in FreshTokens :
             /\ req' = [req EXCEPT ![r] = [Idle EXCEPT !.at = "count", !.user = u,
                           !.confirm = confirm, !.sid = s, !.token = t]]
             /\ minted' = minted \cup {t}
      BY <2>1 DEF LoginStart
    <3> DEFINE q == [Idle EXCEPT !.at = "count", !.user = u,
                        !.confirm = confirm, !.sid = s, !.token = t]
    <3>2. s \in Sessions /\ t \in Tokens
      BY DEF FreshSessions, FreshTokens
    <3>3. q \in Request
      BY <3>2, IdleTyped DEF Idle, Request
    <3>4. req' = [req EXCEPT ![r] = q]
      BY <3>1
    <3> HIDE DEF q
    <3>5. QED  BY <2>1, <3>1, <3>2, <3>3, <3>4 DEF LoginStart, TypeOK
  <2>2. ASSUME NEW s \in Sessions, RefreshRead(r, s) PROVE TypeOK'
    <3>1. PICK t \in FreshTokens :
             /\ req' = [req EXCEPT ![r] = [Idle EXCEPT !.at = "decide",
                           !.user = sess[s].user, !.sid = s, !.token = t,
                           !.snap = sess[s]]]
             /\ minted' = minted \cup {t}
      BY <2>2 DEF RefreshRead
    <3> DEFINE q == [Idle EXCEPT !.at = "decide", !.user = sess[s].user,
                        !.sid = s, !.token = t, !.snap = sess[s]]
    <3>2. sess[s] \in Row /\ t \in Tokens
      BY DEF FreshTokens, TypeOK
    <3>3. sess[s].user \in Users \cup {None}
      BY <3>2 DEF Row
    <3>4. q \in Request
      BY <3>2, <3>3, IdleTyped DEF Idle, Request
    <3>5. req' = [req EXCEPT ![r] = q]
      BY <3>1
    <3> HIDE DEF q
    <3>6. QED  BY <2>2, <3>1, <3>2, <3>4, <3>5 DEF RefreshRead, TypeOK
  <2>3. ASSUME NEW s \in Sessions, Logout(r, s) PROVE TypeOK'
    <3>1. req' \in [Requests -> Request]
      BY <2>3, IdleTyped DEF Logout, TypeOK, Request, Idle
    <3>2. QED  BY <2>3, <3>1, RowsTyped DEF Logout, TypeOK
  <2>4. QED  BY <1>b, <2>1, <2>2, <2>3 DEF Arrive
<1>c. ASSUME NEW r \in Requests, RequestFails(r) PROVE TypeOK'
  <2>1. req[r].sid \in Sessions
    BY <1>c DEF RequestFails, Consistent, RequestConsistent
  <2>2. QED  BY <1>c, <2>1, FinishTyped DEF RequestFails, TypeOK
<1>d. CASE Administer
  <2>1. sess' \in [Sessions -> Row] /\ active' \in [Users -> BOOLEAN]
    BY <1>d, RowsTyped
    DEF Administer, RevokeOne, RevokeAllOthers, RevokeAllForUser, ResetPassword,
        Deactivate, Activate, RevokeSystemWide, TypeOK
  <2>2. UNCHANGED Others
    BY <1>d
    DEF Administer, RevokeOne, RevokeAllOthers, RevokeAllForUser, ResetPassword,
        Deactivate, Activate, RevokeSystemWide, Others
  <2>3. QED  BY <2>1, <2>2 DEF Others, TypeOK
<1>e. CASE Tick
  BY <1>e DEF Tick, TypeOK
<1>f. CASE UNCHANGED vars
  BY <1>f DEF vars, TypeOK
<1>g. QED  BY <1>a, <1>b, <1>c, <1>d, <1>e, <1>f DEF Next

-----------------------------------------------------------------------------
\* Revoking rows that exist leaves every row consistent and its user alone,
\* and makes no row active.
LEMMA RevokeKeepsRows ==
    ASSUME IInv, NEW S \in SUBSET Created,
           sess' = RevokeRows(S) \/ sess' = RevokeRowsKeepToken(S)
    PROVE  \A s \in Sessions : /\ RowConsistent(s)'
                               /\ sess'[s].user = sess[s].user
                               /\ sess'[s].is_active => sess[s].is_active
                               /\ sess'[s].hash = sess[s].hash
                               /\ sess'[s].expires_at = sess[s].expires_at
<1> TAKE s \in Sessions
<1>1. sess[s] \in Row /\ RowConsistent(s)
  BY DEF IInv, TypeOK, Consistent
<1>2. CASE s \in S
  <2>1. sess[s].user # None
    BY <1>2 DEF Created
  <2>2. sess'[s].user = sess[s].user /\ sess'[s].is_active = FALSE
        /\ sess'[s].revoked = TRUE /\ sess'[s].hash = sess[s].hash
        /\ sess'[s].expires_at = sess[s].expires_at
    BY <1>1, <1>2 DEF RevokeRows, RevokeRowsKeepToken, Row
  <2>3. QED  BY <2>1, <2>2 DEF RowConsistent
<1>3. CASE s \notin S
  <2>1. sess'[s] = sess[s]
    BY <1>3 DEF RevokeRows, RevokeRowsKeepToken
  <2>2. QED  BY <1>1, <2>1 DEF RowConsistent
<1>4. QED  BY <1>2, <1>3

\* A step of request r that takes nobody's unused session id, and drops no
\* row, leaves the other requests consistent.
LEMMA OthersStayConsistent ==
    ASSUME IInv, NEW r \in Requests, NEW q,
           req' = [req EXCEPT ![r] = q],
           minted \subseteq minted',
           \A s \in Sessions : sess[s].user # None => sess'[s].user # None,
           \A p \in Requests \ {r} : req[p].at \in BeforeInsert =>
               q.sid # req[p].sid /\ sess'[req[p].sid].user = None
    PROVE  \A p \in Requests \ {r} : RequestConsistent(p)'
<1> TAKE p \in Requests \ {r}
<1>1. RequestConsistent(p) /\ req'[p] = req[p]
  BY DEF IInv, TypeOK, Consistent
<1>2. \A o \in Requests : req'[o] = IF o = r THEN q ELSE req[o]
  BY DEF IInv, TypeOK
<1>3. req[p].at \in BeforeInsert =>
         \A o \in Requests \ {p} : req'[o].sid # req'[p].sid
  BY <1>1, <1>2 DEF RequestConsistent
<1>4. QED  BY <1>1, <1>3 DEF RequestConsistent, BeforeInsert

\* The same for a step that only moves or ends the request.
LEMMA MoveKeepsOthers ==
    ASSUME IInv, NEW r \in Requests, NEW step \in Steps,
           Goto(r, step) \/ Finish(r), UNCHANGED minted,
           \A s \in Sessions : sess'[s].user = sess[s].user
    PROVE  \A p \in Requests \ {r} : RequestConsistent(p)'
<1>1. PICK q : /\ req' = [req EXCEPT ![r] = q]
               /\ q.sid = req[r].sid \/ q.sid = None
  <2>1. CASE Goto(r, step)
    <3>1. req' = [req EXCEPT ![r] = [req[r] EXCEPT !.at = step]]
      BY <2>1 DEF Goto
    <3>2. [req[r] EXCEPT !.at = step].sid = req[r].sid
      BY DEF IInv, TypeOK, Request
    <3>3. QED  BY <3>1, <3>2
  <2>2. CASE Finish(r)
    <3>1. req' = [req EXCEPT ![r] = Idle] /\ Idle.sid = None
      BY <2>2 DEF Finish, Idle
    <3>2. QED  BY <3>1
  <2>3. QED  BY <2>1, <2>2
<1>2. ASSUME NEW p \in Requests \ {r}, req[p].at \in BeforeInsert
      PROVE  q.sid # req[p].sid /\ sess'[req[p].sid].user = None
  <2>1. RequestConsistent(p)
    BY DEF IInv, Consistent
  <2>2. req[p].sid \in Sessions /\ sess[req[p].sid].user = None
        /\ req[r].sid # req[p].sid
    BY <1>2, <2>1 DEF RequestConsistent, BeforeInsert
  <2>3. QED  BY <1>1, <2>2, IdentityAssumption
<1>3. QED  BY <1>1, <1>2, OthersStayConsistent


\* What Goto leaves alone, and what Finish leaves: nothing.
LEMMA GotoFields ==
    ASSUME TypeOK, NEW r \in Requests, NEW step \in Steps, Goto(r, step)
    PROVE  /\ req'[r].at = step
           /\ req'[r].user = req[r].user
           /\ req'[r].sid = req[r].sid
           /\ req'[r].token = req[r].token
           /\ req'[r].victim = req[r].victim
           /\ req'[r].snap = req[r].snap
           /\ \A p \in Requests \ {r} : req'[p] = req[p]
BY DEF TypeOK, Goto, Request

LEMMA FinishFields ==
    ASSUME TypeOK, NEW r \in Requests, Finish(r)
    PROVE  /\ req'[r] = Idle
           /\ req'[r].at = "idle"
           /\ req'[r].sid = None
           /\ RequestConsistent(r)'
           /\ \A p \in Requests \ {r} : req'[p] = req[p]
BY DEF TypeOK, Finish, Idle, RequestConsistent, BeforeInsert

\* A started request stays consistent where it goes on to a step on the same
\* side of the insert, and keeps its user, session and token.
LEMMA GotoConsistent ==
    ASSUME IInv, NEW r \in Requests, NEW step \in Steps, Goto(r, step),
           UNCHANGED minted,
           \A s \in Sessions : sess'[s].user = sess[s].user,
           req[r].at # "idle", req[r].at # "logoutToken",
           (step \in BeforeInsert) <=> (req[r].at \in BeforeInsert),
           step \in {"oldest"} => AutoRevokeOldestSession,
           step # "evict"
    PROVE  RequestConsistent(r)'
<1>1. RequestConsistent(r)
  BY DEF IInv, Consistent
<1>2. TypeOK
  BY DEF IInv
<1>3. QED
  BY <1>1, <1>2, GotoFields DEF RequestConsistent, BeforeInsert

\* Steps that leave rows and users as they are: it is enough to look at r.
LEMMA QuietStep ==
    ASSUME IInv, NEW r \in Requests, RequestConsistent(r)',
           \A p \in Requests \ {r} : RequestConsistent(p)',
           UNCHANGED <<sess, delivered>>
    PROVE  Consistent'
BY DEF IInv, Consistent, RowConsistent

\* Steps that revoke existing rows and move or end r.
LEMMA RevokingStep ==
    ASSUME IInv, NEW r \in Requests, NEW step \in Steps,
           Goto(r, step) \/ Finish(r),
           req[r].at # "idle", req[r].at # "logoutToken",
           (step \in BeforeInsert) <=> (req[r].at \in BeforeInsert),
           step \notin {"oldest", "evict"},
           NEW S \in SUBSET Created, sess' = RevokeRows(S),
           UNCHANGED <<minted, delivered>>
    PROVE  Consistent'
<1>1. \A s \in Sessions : /\ RowConsistent(s)'
                          /\ sess'[s].user = sess[s].user
  BY RevokeKeepsRows
<1>2. \A p \in Requests \ {r} : RequestConsistent(p)'
  BY <1>1, MoveKeepsOthers
<1>3. RequestConsistent(r)'
  BY <1>1, GotoConsistent, FinishFields DEF IInv
<1>4. \A d \in delivered' : sess'[d[1]].user # None
  BY <1>1 DEF IInv, TypeOK, Consistent
<1>5. QED  BY <1>1, <1>2, <1>3, <1>4 DEF Consistent

\* Steps that write token columns of the existing row of r.
LEMMA TokenStep ==
    ASSUME IInv, NEW r \in Requests, NEW step \in Steps,
           Goto(r, step) \/ Finish(r),
           req[r].at \notin BeforeInsert \cup {"idle"},
           step \in {"respond", "rotate", "idle"},
           Goto(r, step) => req[r].at # "logoutToken",
           \A s \in Sessions : s # req[r].sid => sess'[s] = sess[s],
           sess'[req[r].sid].user = sess[req[r].sid].user,
           sess'[req[r].sid].is_active = sess[req[r].sid].is_active,
           sess'[req[r].sid].revoked = sess[req[r].sid].revoked,
           UNCHANGED <<minted, delivered>>
    PROVE  Consistent'
<1>1. req[r].sid \in Sessions /\ sess[req[r].sid].user # None
  BY DEF IInv, Consistent, RequestConsistent
<1>2. \A s \in Sessions : RowConsistent(s)' /\ sess'[s].user = sess[s].user
  BY <1>1 DEF IInv, Consistent, RowConsistent
<1>3. \A p \in Requests \ {r} : RequestConsistent(p)'
  BY <1>2, MoveKeepsOthers
<1>4. RequestConsistent(r)'
  BY <1>2, GotoConsistent, FinishFields DEF IInv, BeforeInsert
<1>5. \A d \in delivered' : sess'[d[1]].user # None
  BY <1>2 DEF IInv, TypeOK, Consistent
<1>6. QED  BY <1>2, <1>3, <1>4, <1>5 DEF Consistent


LEMMA ConsistentAdvance ==
    ASSUME IInv, NEW r \in Requests, Advance(r) PROVE Consistent'
<1> USE DEF IInv
<1>0. RequestConsistent(r)
  BY DEF Consistent
<1>1. ASSUME NEW step \in Steps, Goto(r, step) \/ Finish(r),
             req[r].at # "idle", req[r].at # "logoutToken",
             (step \in BeforeInsert) <=> (req[r].at \in BeforeInsert),
             step \in {"oldest"} => AutoRevokeOldestSession,
             step # "evict", UNCHANGED <<sess, minted, delivered>>
      PROVE  Consistent'
  BY <1>1, MoveKeepsOthers, GotoConsistent, FinishFields, QuietStep
<1>2. CASE LoginBelowLimit(r)
  BY <1>2, <1>1 DEF LoginBelowLimit, BeforeInsert
<1>3. CASE LoginRefused(r)
  <2>1. "count" \in Steps
    OBVIOUS
  <2>2. QED  BY <1>3, <2>1, <1>1 DEF LoginRefused, BeforeInsert
<1>4. CASE LoginMustEvict(r)
  BY <1>4, <1>1 DEF LoginMustEvict, BeforeInsert
<1>5. CASE LoginFindOldest(r)
  <2>1. CASE Goto(r, "create")
    BY <1>5, <2>1, <1>1 DEF LoginFindOldest, BeforeInsert
  <2>2. CASE \E v \in OldestLive(req[r].user) :
               req' = [req EXCEPT ![r] = [@ EXCEPT !.at = "evict", !.victim = v]]
    <3>1. PICK v \in OldestLive(req[r].user) :
               req' = [req EXCEPT ![r] = [req[r] EXCEPT !.at = "evict", !.victim = v]]
      BY <2>2
    <3>2. /\ req'[r].at = "evict" /\ req'[r].victim = v
          /\ req'[r].sid = req[r].sid /\ req'[r].user = req[r].user
          /\ req'[r].token = req[r].token
          /\ \A p \in Requests \ {r} : req'[p] = req[p]
      BY <3>1 DEF TypeOK, Request
    <3>3. v \in Sessions /\ sess[v].user # None
      BY <1>0, <1>5, IdentityAssumption
      DEF LoginFindOldest, OldestLive, LiveSessions, SessionsOf,
          RequestConsistent, BeforeInsert
    <3>4. UNCHANGED <<sess, minted, delivered>>
      BY <1>5 DEF LoginFindOldest
    <3>5. RequestConsistent(r)'
      BY <1>0, <1>5, <3>2, <3>3, <3>4
      DEF RequestConsistent, BeforeInsert, LoginFindOldest
    <3>6. \A p \in Requests \ {r} : RequestConsistent(p)'
      BY <3>2, <3>4 DEF Consistent, RequestConsistent, BeforeInsert
    <3>7. QED  BY <3>4, <3>5, <3>6, QuietStep
  <2>3. QED  BY <1>5, <2>1, <2>2 DEF LoginFindOldest
<1>6. CASE LoginEvict(r)
  <2>1. {req[r].victim} \in SUBSET Created
    BY <1>0, <1>6 DEF LoginEvict, RequestConsistent, Created
  <2>2. QED  BY <1>6, <2>1, RevokingStep DEF LoginEvict, BeforeInsert
<1>7. CASE LoginCreate(r)
  <2> DEFINE sid == req[r].sid
             row == [NoRow EXCEPT !.user = req[r].user, !.is_active = TRUE,
                                  !.login_at = inserts,
                                  !.expires_at = now + RefreshTokenLifetime]
  <2>1. /\ sid \in Sessions /\ sess[sid].user = None /\ req[r].user \in Users
        /\ req[r].token \in minted
        /\ \A p \in Requests \ {r} : req[p].sid # sid
    BY <1>0, <1>7 DEF LoginCreate, RequestConsistent, BeforeInsert
  <2>2. row.user = req[r].user /\ row.is_active = TRUE /\ row.revoked = FALSE
    BY DEF NoRow
  <2>3. sess' = [sess EXCEPT ![sid] = row] /\ Goto(r, "store")
        /\ UNCHANGED <<minted, delivered>>
    BY <1>7 DEF LoginCreate
  <2> HIDE DEF row
  <2>4. sess'[sid] = row /\ \A s \in Sessions \ {sid} : sess'[s] = sess[s]
    BY <2>1, <2>3 DEF TypeOK
  <2>5. ASSUME NEW s \in Sessions PROVE RowConsistent(s)'
    <3>1. CASE s = sid
      <4>1. sess'[s].is_active = TRUE /\ sess'[s].revoked = FALSE
        BY <2>2, <2>4, <3>1
      <4>2. sess'[s].user # None
        BY <2>1, <2>2, <2>4, <3>1, IdentityAssumption
      <4>3. QED  BY <4>1, <4>2 DEF RowConsistent
    <3>2. CASE s # sid
      <4>1. RowConsistent(s) /\ sess'[s] = sess[s]
        BY <2>4, <3>2 DEF Consistent
      <4>2. QED  BY <4>1 DEF RowConsistent
    <3>3. QED  BY <3>1, <3>2
  <2>6. RequestConsistent(r)'
    <3>1. req'[r].at = "store" /\ req'[r].sid = sid
          /\ req'[r].token = req[r].token
      BY <2>3, GotoFields
    <3>2. QED
      BY <2>1, <2>2, <2>3, <2>4, <3>1, IdentityAssumption
      DEF RequestConsistent, BeforeInsert
  <2>7. ASSUME NEW p \in Requests \ {r} PROVE RequestConsistent(p)'
    <3>1. RequestConsistent(p) /\ req'[p] = req[p] /\ req'[r].sid = sid
      BY <2>3, GotoFields DEF Consistent
    <3>2. \A o \in Requests : req'[o].sid = req[o].sid
      BY <2>3, GotoFields
    <3>3. QED
      BY <2>1, <2>2, <2>3, <2>4, <3>1, <3>2 DEF RequestConsistent, BeforeInsert
  <2>8. \A d \in delivered' : sess'[d[1]].user # None
    <3>1. ASSUME NEW d \in delivered PROVE sess'[d[1]].user # None
      <4>1. d[1] \in Sessions /\ sess[d[1]].user # None
        BY DEF TypeOK, Consistent
      <4>2. QED  BY <2>1, <2>4, <4>1
    <3>2. QED  BY <2>3, <3>1
  <2>9. QED  BY <2>5, <2>6, <2>7, <2>8 DEF Consistent
<1>8. ASSUME StoreToken(r), Goto(r, "respond"), req[r].at \in {"store", "rotate"},
             UNCHANGED <<minted, delivered>>
      PROVE  Consistent'
  <2>1. req[r].sid \in Sessions
    BY <1>0, <1>8 DEF RequestConsistent
  <2>2. /\ \A s \in Sessions : s # req[r].sid => sess'[s] = sess[s]
        /\ sess'[req[r].sid].user = sess[req[r].sid].user
        /\ sess'[req[r].sid].is_active = sess[req[r].sid].is_active
        /\ sess'[req[r].sid].revoked = sess[req[r].sid].revoked
    BY <1>8, <2>1 DEF StoreToken, TypeOK, Row
  <2>3. QED  BY <1>8, <2>2, TokenStep DEF BeforeInsert
<1>9. CASE LoginStoreToken(r)
  BY <1>9, <1>8 DEF LoginStoreToken
<1>10. CASE Respond(r)
  <2>1. req[r].sid \in Sessions /\ sess[req[r].sid].user # None
    BY <1>0, <1>10 DEF Respond, RequestConsistent, BeforeInsert
  <2>2. \A p \in Requests : RequestConsistent(p)'
    <3>1. Finish(r) /\ UNCHANGED <<sess, minted>>
      BY <1>10 DEF Respond
    <3>2. "respond" \in Steps
      OBVIOUS
    <3>3. \A p \in Requests \ {r} : RequestConsistent(p)'
      BY <3>1, <3>2, MoveKeepsOthers
    <3>4. RequestConsistent(r)'
      BY <3>1, FinishFields
    <3>5. QED  BY <3>3, <3>4
  <2>3. \A d \in delivered' : sess'[d[1]].user # None
    BY <1>10, <2>1 DEF Respond, Consistent
  <2>4. QED  BY <1>10, <2>2, <2>3 DEF Respond, Consistent, RowConsistent
<1>11. CASE RefreshConcurrent(r)
  BY <1>11, <1>1, "decide" \in Steps DEF RefreshConcurrent, BeforeInsert
<1>12. CASE RefreshReplay(r)
  BY <1>12, <1>1, "replayRevoke" \in Steps, "replayLogout" \in Steps
  DEF RefreshReplay, BeforeInsert
<1>13. CASE RefreshRejected(r)
  BY <1>13, <1>1, "decide" \in Steps DEF RefreshRejected, BeforeInsert
<1>14. CASE RefreshAccepted(r)
  BY <1>14, <1>1 DEF RefreshAccepted, BeforeInsert
<1>15. CASE ReplayRevoke(r)
  <2>1. {req[r].sid} \in SUBSET Created
    BY <1>0, <1>15 DEF ReplayRevoke, RequestConsistent, BeforeInsert, Created
  <2>2. QED
    BY <1>15, <2>1, RevokingStep, "replayLogout" \in Steps
    DEF ReplayRevoke, BeforeInsert
<1>16. CASE ReplayLogout(r)
  <2>1. {s \in SessionsOf(req[r].user) : sess[s].is_active} \in SUBSET Created
    BY DEF SessionsOf, Created, Consistent, RowConsistent, NoRow
  <2>2. QED
    BY <1>16, <2>1, RevokingStep, "replayLogout" \in Steps
    DEF ReplayLogout, BeforeInsert
<1>17. ASSUME sess' = [sess EXCEPT ![req[r].sid].hash_revoked_at = now],
              req[r].at \in {"revokeOld", "logoutToken"},
              Goto(r, "rotate") \/ Finish(r),
              Goto(r, "rotate") => req[r].at # "logoutToken",
              UNCHANGED <<minted, delivered>>
       PROVE  Consistent'
  <2>1. req[r].sid \in Sessions
    BY <1>0, <1>17 DEF RequestConsistent
  <2>2. /\ \A s \in Sessions : s # req[r].sid => sess'[s] = sess[s]
        /\ sess'[req[r].sid].user = sess[req[r].sid].user
        /\ sess'[req[r].sid].is_active = sess[req[r].sid].is_active
        /\ sess'[req[r].sid].revoked = sess[req[r].sid].revoked
    BY <1>17, <2>1 DEF TypeOK, Row
  <2>3. QED  BY <1>17, <2>2, TokenStep DEF BeforeInsert
<1>18. CASE RefreshRevokeOld(r)
  BY <1>18, <1>17 DEF RefreshRevokeOld
<1>19. CASE RefreshRotate(r)
  BY <1>19, <1>8 DEF RefreshRotate
<1>20. CASE LogoutRevokeToken(r)
  <2>1. ~Goto(r, "rotate")
    BY <1>20, GotoFields, FinishFields DEF LogoutRevokeToken
  <2>2. QED  BY <1>20, <2>1, <1>17 DEF LogoutRevokeToken
<1>21. QED
  BY <1>2, <1>3, <1>4, <1>5, <1>6, <1>7, <1>9, <1>10, <1>11, <1>12, <1>13,
     <1>14, <1>15, <1>16, <1>18, <1>19, <1>20 DEF Advance


LEMMA ConsistentArrive ==
    ASSUME IInv, NEW r \in Requests, Arrive(r) PROVE Consistent'
<1> USE DEF IInv
<1>1. ASSUME NEW u \in Users, NEW confirm \in BOOLEAN, LoginStart(r, u, confirm)
      PROVE  Consistent'
  <2>1. PICK s \in FreshSessions, t \in FreshTokens :
           /\ req' = [req EXCEPT ![r] = [Idle EXCEPT !.at = "count", !.user = u,
                         !.confirm = confirm, !.sid = s, !.token = t]]
           /\ minted' = minted \cup {t}
    BY <1>1 DEF LoginStart
  <2> DEFINE q == [Idle EXCEPT !.at = "count", !.user = u,
                      !.confirm = confirm, !.sid = s, !.token = t]
  <2>2. q.at = "count" /\ q.user = u /\ q.sid = s /\ q.token = t
    BY DEF Idle
  <2>3. req' = [req EXCEPT ![r] = q] /\ UNCHANGED <<sess, delivered>>
    BY <1>1, <2>1 DEF LoginStart
  <2> HIDE DEF q
  <2>4. /\ s \in Sessions /\ sess[s].user = None
        /\ \A p \in Requests : req[p].sid # s
    BY DEF FreshSessions
  <2>5. req'[r] = q /\ \A p \in Requests \ {r} : req'[p] = req[p]
    BY <2>3 DEF TypeOK
  <2>6. RequestConsistent(r)'
    BY <2>1, <2>2, <2>3, <2>4, <2>5 DEF RequestConsistent, BeforeInsert
  <2>7. \A p \in Requests \ {r} : req[p].at \in BeforeInsert =>
           q.sid # req[p].sid /\ sess'[req[p].sid].user = None
    BY <2>2, <2>3, <2>4 DEF Consistent, RequestConsistent
  <2>8. \A p \in Requests \ {r} : RequestConsistent(p)'
    BY <2>1, <2>3, <2>7, OthersStayConsistent
  <2>9. QED  BY <2>3, <2>6, <2>8, QuietStep
<1>2. ASSUME NEW s \in Sessions, RefreshRead(r, s) PROVE Consistent'
  <2>1. PICK t \in FreshTokens :
           /\ req' = [req EXCEPT ![r] = [Idle EXCEPT !.at = "decide",
                         !.user = sess[s].user, !.sid = s, !.token = t,
                         !.snap = sess[s]]]
           /\ minted' = minted \cup {t}
    BY <1>2 DEF RefreshRead
  <2> DEFINE q == [Idle EXCEPT !.at = "decide", !.user = sess[s].user,
                      !.sid = s, !.token = t, !.snap = sess[s]]
  <2>2. q.at = "decide" /\ q.sid = s /\ q.token = t
    BY DEF Idle
  <2>3. req' = [req EXCEPT ![r] = q] /\ UNCHANGED <<sess, delivered>>
    BY <1>2, <2>1 DEF RefreshRead
  <2> HIDE DEF q
  <2>4. sess[s].user # None
    BY <1>2 DEF RefreshRead, Consistent, RowConsistent, NoRow
  <2>5. req'[r] = q
    BY <2>3 DEF TypeOK
  <2>6. RequestConsistent(r)'
    BY <2>1, <2>2, <2>3, <2>4, <2>5 DEF RequestConsistent, BeforeInsert
  <2>7. \A p \in Requests \ {r} : req[p].at \in BeforeInsert =>
           q.sid # req[p].sid /\ sess'[req[p].sid].user = None
    BY <2>2, <2>3, <2>4 DEF Consistent, RequestConsistent
  <2>8. \A p \in Requests \ {r} : RequestConsistent(p)'
    BY <2>1, <2>3, <2>7, OthersStayConsistent
  <2>9. QED  BY <2>3, <2>6, <2>8, QuietStep
<1>3. ASSUME NEW s \in Sessions, Logout(r, s) PROVE Consistent'
  <2> DEFINE q == [Idle EXCEPT !.at = "logoutToken", !.sid = s]
  <2>1. q.at = "logoutToken" /\ q.sid = s
    BY DEF Idle
  <2>2. req' = [req EXCEPT ![r] = q] /\ UNCHANGED <<minted, delivered>>
    BY <1>3 DEF Logout
  <2> HIDE DEF q
  <2>3. sess[s].user # None
    BY <1>3 DEF Logout, Consistent
  <2>4. \A x \in Sessions : RowConsistent(x)' /\ sess'[x].user = sess[x].user
    <3>1. {s} \in SUBSET Created
      BY <2>3 DEF Created
    <3>2. sess' = RevokeRows({s})
      BY <1>3 DEF Logout
    <3>3. QED  BY <3>1, <3>2, RevokeKeepsRows
  <2>5. req'[r] = q
    BY <2>2 DEF TypeOK
  <2>6. RequestConsistent(r)'
    BY <2>1, <2>2, <2>3, <2>4, <2>5 DEF RequestConsistent, BeforeInsert
  <2>7. \A p \in Requests \ {r} : req[p].at \in BeforeInsert =>
           q.sid # req[p].sid /\ sess'[req[p].sid].user = None
    BY <2>1, <2>3, <2>4 DEF Consistent, RequestConsistent, BeforeInsert
  <2>8. \A p \in Requests \ {r} : RequestConsistent(p)'
    BY <2>2, <2>4, <2>7, OthersStayConsistent
  <2>9. \A d \in delivered' : sess'[d[1]].user # None
    BY <2>2, <2>4 DEF TypeOK, Consistent
  <2>10. QED  BY <2>4, <2>6, <2>8, <2>9 DEF Consistent
<1>4. QED  BY <1>1, <1>2, <1>3 DEF Arrive

\* Every administrative step rewrites sess as one revocation of created rows.
LEMMA AdministerRevokes ==
    ASSUME IInv, Administer
    PROVE  /\ UNCHANGED Others
           /\ \/ UNCHANGED sess
              \/ \E S \in SUBSET Created :
                    sess' = RevokeRows(S) \/ sess' = RevokeRowsKeepToken(S)
<1>1. \A s \in Sessions : sess[s].user = None => ~sess[s].is_active
  BY DEF IInv, Consistent, RowConsistent, NoRow
<1>2. UNCHANGED Others
  BY DEF Administer, RevokeOne, RevokeAllOthers, RevokeAllForUser, ResetPassword,
         Deactivate, Activate, RevokeSystemWide, Others
<1>3. ASSUME NEW s \in Sessions, RevokeOne(s)
      PROVE  \E S \in SUBSET Created : sess' = RevokeRows(S)
  <2>1. {s} \in SUBSET Created /\ sess' = RevokeRows({s})
    BY <1>3 DEF RevokeOne
  <2>2. QED  BY <2>1
<1>4. ASSUME NEW s \in Sessions, RevokeAllOthers(s)
      PROVE  \E S \in SUBSET Created : sess' = RevokeRows(S)
  <2> DEFINE S == {x \in SessionsOf(sess[s].user) \ {s} : sess[x].is_active}
  <2>1. S \in SUBSET Created
    BY <1>1 DEF SessionsOf, Created
  <2>2. sess' = RevokeRows(S)
    BY <1>4 DEF RevokeAllOthers
  <2>3. QED  BY <2>1, <2>2
<1>5. ASSUME NEW u \in Users, RevokeAllForUser(u)
      PROVE  \E S \in SUBSET Created : sess' = RevokeRows(S)
  <2> DEFINE S == {x \in SessionsOf(u) : sess[x].is_active \/ ~sess[x].revoked}
  <2>1. S \in SUBSET Created
    BY IdentityAssumption DEF SessionsOf, Created
  <2>2. sess' = RevokeRows(S)
    BY <1>5 DEF RevokeAllForUser
  <2>3. QED  BY <2>1, <2>2
<1>6. ASSUME NEW u \in Users, ResetPassword(u) \/ Deactivate(u)
      PROVE  \E S \in SUBSET Created : sess' = RevokeRowsKeepToken(S)
  <2>1. UserSessionsStillOpen(u) \in SUBSET Created
    BY IdentityAssumption DEF UserSessionsStillOpen, SessionsOf, Created
  <2>2. sess' = RevokeRowsKeepToken(UserSessionsStillOpen(u))
    BY <1>6 DEF ResetPassword, Deactivate
  <2>3. QED  BY <2>1, <2>2
<1>7. ASSUME RevokeSystemWide
      PROVE  \E S \in SUBSET Created : sess' = RevokeRows(S)
  <2> DEFINE S == {x \in Created : sess[x].is_active}
  <2>1. S \in SUBSET Created /\ sess' = RevokeRows(S)
    BY <1>7 DEF RevokeSystemWide
  <2>2. QED  BY <2>1
<1>8. ASSUME NEW u \in Users, Activate(u) PROVE UNCHANGED sess
  BY <1>8 DEF Activate
<1>9. QED
  BY <1>2, <1>3, <1>4, <1>5, <1>6, <1>7, <1>8 DEF Administer

LEMMA ConsistentAdminister ==
    ASSUME IInv, Administer PROVE Consistent'
<1>1. \A s \in Sessions : RowConsistent(s)' /\ sess'[s].user = sess[s].user
  <2>1. CASE UNCHANGED sess
    BY <2>1 DEF IInv, Consistent, RowConsistent
  <2>2. ASSUME NEW S \in SUBSET Created,
               sess' = RevokeRows(S) \/ sess' = RevokeRowsKeepToken(S)
        PROVE  \A s \in Sessions : RowConsistent(s)' /\ sess'[s].user = sess[s].user
    BY <2>2, RevokeKeepsRows
  <2>3. QED  BY <2>1, <2>2, AdministerRevokes
<1>2. UNCHANGED <<req, minted, delivered>>
  BY AdministerRevokes DEF Others
<1>3. \A r \in Requests : RequestConsistent(r)'
  <2>1. TAKE r \in Requests
  <2>2. RequestConsistent(r)
    BY DEF IInv, Consistent
  <2>3. QED  BY <1>1, <1>2, <2>2 DEF RequestConsistent, BeforeInsert
<1>4. \A d \in delivered' : sess'[d[1]].user # None
  BY <1>1, <1>2 DEF IInv, TypeOK, Consistent
<1>5. QED  BY <1>1, <1>3, <1>4 DEF Consistent

LEMMA ConsistentStep == IInv /\ [Next]_vars => Consistent'
<1> SUFFICES ASSUME IInv, [Next]_vars PROVE Consistent'
  OBVIOUS
<1>1. ASSUME NEW r \in Requests, RequestFails(r) PROVE Consistent'
  <2>1. Finish(r) /\ UNCHANGED <<sess, minted, delivered>>
    BY <1>1 DEF RequestFails
  <2>2. "idle" \in Steps
    OBVIOUS
  <2>3. \A p \in Requests \ {r} : RequestConsistent(p)'
    BY <2>1, <2>2, MoveKeepsOthers
  <2>4. RequestConsistent(r)'
    BY <2>1, FinishFields DEF IInv
  <2>5. QED  BY <2>1, <2>3, <2>4, QuietStep
<1>2. ASSUME UNCHANGED <<sess, req, minted, delivered>> PROVE Consistent'
  BY <1>2 DEF IInv, Consistent, RequestConsistent, RowConsistent, BeforeInsert
<1>3. CASE Tick
  BY <1>2, <1>3 DEF Tick
<1>4. CASE UNCHANGED vars
  BY <1>2, <1>4 DEF vars
<1>5. QED
  BY <1>1, <1>3, <1>4, ConsistentAdvance, ConsistentArrive, ConsistentAdminister
  DEF Next

LEMMA InitIInv == Init => IInv
<1> SUFFICES ASSUME Init PROVE IInv
  OBVIOUS
<1>1. TypeOK
  BY IdleTyped DEF Init, TypeOK
<1>2. Consistent
  BY IdentityAssumption
  DEF Init, Consistent, RequestConsistent, RowConsistent, Idle, NoRow, BeforeInsert
<1>3. QED  BY <1>1, <1>2 DEF IInv

LEMMA IInvStep == IInv /\ [Next]_vars => IInv'
BY TypeStep, ConsistentStep DEF IInv

\* The inductive invariant holds in every reachable state.
THEOREM Invariance == Spec => []IInv
BY InitIInv, IInvStep, PTL DEF Spec

\* Rows, requests and tokens keep their types, for every number of users,
\* requests, sessions and tokens.
THEOREM TypeCorrect == Spec => []TypeOK
<1>1. IInv => TypeOK  BY DEF IInv
<1>2. QED  BY <1>1, Invariance, PTL

\* Session ids are used by one login each, every request past its insert works
\* on a row that exists, and is_active and revoked_at always agree: the
\* statements that test one column and those that test the other see the same
\* sessions.
THEOREM RequestsAndRowsConsistent == Spec => []Consistent
<1>1. IInv => Consistent  BY DEF IInv
<1>2. QED  BY <1>1, Invariance, PTL

-----------------------------------------------------------------------------
(* What revocation, deactivation and tokens guarantee.                     *)

-----------------------------------------------------------------------------
(* What one step may do to the rows, to the requests, to delivered.          *)

RowStep ==
    \/ UNCHANGED sess
    \/ \E S \in SUBSET Created :
          sess' = RevokeRows(S) \/ sess' = RevokeRowsKeepToken(S)
    \/ \E r \in Requests : LoginCreate(r)
    \/ \E r \in Requests : LoginStoreToken(r) \/ RefreshRotate(r)
    \/ \E r \in Requests : RefreshRevokeOld(r) \/ LogoutRevokeToken(r)

LEMMA RowSteps == IInv /\ [Next]_vars => RowStep
<1> SUFFICES ASSUME IInv, [Next]_vars PROVE RowStep
  OBVIOUS
<1>1. ASSUME NEW r \in Requests, Advance(r) PROVE RowStep
  <2>0. RequestConsistent(r)
    BY DEF IInv, Consistent
  <2>1. CASE LoginEvict(r)
    <3>1. {req[r].victim} \in SUBSET Created /\ sess' = RevokeRows({req[r].victim})
      BY <2>0, <2>1 DEF LoginEvict, RequestConsistent, Created
    <3>2. QED  BY <3>1 DEF RowStep
  <2>2. CASE ReplayRevoke(r)
    <3>1. {req[r].sid} \in SUBSET Created /\ sess' = RevokeRows({req[r].sid})
      BY <2>0, <2>2 DEF ReplayRevoke, RequestConsistent, BeforeInsert, Created
    <3>2. QED  BY <3>1 DEF RowStep
  <2>3. CASE ReplayLogout(r)
    <3> DEFINE S == {s \in SessionsOf(req[r].user) : sess[s].is_active}
    <3>1. S \in SUBSET Created
      BY DEF IInv, SessionsOf, Created, Consistent, RowConsistent, NoRow
    <3>2. sess' = RevokeRows(S)
      BY <2>3 DEF ReplayLogout
    <3>3. QED  BY <3>1, <3>2 DEF RowStep
  <2>4. CASE \/ LoginCreate(r) \/ LoginStoreToken(r) \/ RefreshRotate(r)
             \/ RefreshRevokeOld(r) \/ LogoutRevokeToken(r)
    BY <2>4 DEF RowStep
  <2>5. CASE \/ LoginBelowLimit(r) \/ LoginRefused(r) \/ LoginMustEvict(r)
             \/ LoginFindOldest(r) \/ Respond(r) \/ RefreshConcurrent(r)
             \/ RefreshReplay(r) \/ RefreshRejected(r) \/ RefreshAccepted(r)
    <3>1. UNCHANGED sess
      BY <2>5 DEF LoginBelowLimit, LoginRefused, LoginMustEvict, LoginFindOldest,
                  Respond, RefreshConcurrent, RefreshReplay, RefreshRejected,
                  RefreshAccepted
    <3>2. QED  BY <3>1 DEF RowStep
  <2>6. QED  BY <1>1, <2>1, <2>2, <2>3, <2>4, <2>5 DEF Advance
<1>2. ASSUME NEW r \in Requests, Arrive(r) PROVE RowStep
  <2>1. ASSUME NEW s \in Sessions, Logout(r, s) PROVE RowStep
    <3>1. {s} \in SUBSET Created /\ sess' = RevokeRows({s})
      BY <2>1 DEF Logout, IInv, Consistent, Created
    <3>2. QED  BY <3>1 DEF RowStep
  <2>2. ASSUME NEW s \in Sessions, RefreshRead(r, s) PROVE RowStep
    BY <2>2 DEF RefreshRead, RowStep
  <2>3. ASSUME NEW u \in Users, NEW c \in BOOLEAN, LoginStart(r, u, c)
        PROVE  RowStep
    BY <2>3 DEF LoginStart, RowStep
  <2>4. QED  BY <1>2, <2>1, <2>2, <2>3 DEF Arrive
<1>3. ASSUME NEW r \in Requests, RequestFails(r) PROVE RowStep
  BY <1>3 DEF RequestFails, RowStep
<1>4. CASE Administer
  BY <1>4, AdministerRevokes DEF RowStep
<1>5. CASE Tick \/ UNCHANGED vars
  BY <1>5 DEF Tick, vars, RowStep
<1>6. QED  BY <1>1, <1>2, <1>3, <1>4, <1>5 DEF Next

LEMMA RequestSteps ==
    ASSUME IInv, [Next]_vars, NEW r \in Requests
    PROVE  req'[r] = req[r] \/ Advance(r) \/ Arrive(r) \/ RequestFails(r)
<1>1. CASE \E p \in Requests : Advance(p) \/ Arrive(p) \/ RequestFails(p)
  <2>1. PICK p \in Requests : Advance(p) \/ Arrive(p) \/ RequestFails(p)
    BY <1>1
  <2>2. CASE p = r
    BY <2>1, <2>2
  <2>3. CASE p # r
    <3>1. \E q : req' = [req EXCEPT ![p] = q]
      <4>1. ASSUME NEW step, Goto(p, step) PROVE \E q : req' = [req EXCEPT ![p] = q]
        BY <4>1 DEF Goto
      <4>2. ASSUME Finish(p) PROVE \E q : req' = [req EXCEPT ![p] = q]
        BY <4>2 DEF Finish
      <4>3. CASE Advance(p)
        BY <4>1, <4>2, <4>3
        DEF Advance, LoginBelowLimit, LoginRefused, LoginMustEvict,
            LoginFindOldest, LoginEvict, LoginCreate, LoginStoreToken, Respond,
            RefreshConcurrent, RefreshReplay, RefreshRejected, RefreshAccepted,
            ReplayRevoke, ReplayLogout, RefreshRevokeOld, RefreshRotate,
            LogoutRevokeToken
      <4>4. CASE Arrive(p)
        BY <4>4 DEF Arrive, LoginStart, RefreshRead, Logout
      <4>5. CASE RequestFails(p)
        BY <4>2, <4>5 DEF RequestFails
      <4>6. QED  BY <2>1, <4>3, <4>4, <4>5
    <3>2. QED  BY <2>3, <3>1 DEF IInv, TypeOK
  <2>4. QED  BY <2>2, <2>3
<1>2. CASE Administer
  BY <1>2, AdministerRevokes DEF Others
<1>3. CASE Tick \/ UNCHANGED vars
  BY <1>3 DEF Tick, vars
<1>4. QED  BY <1>1, <1>2, <1>3 DEF Next

LEMMA DeliveredSteps ==
    ASSUME IInv, [Next]_vars
    PROVE  UNCHANGED delivered \/ \E r \in Requests : Respond(r)
<1>1. ASSUME NEW r \in Requests, Advance(r), ~Respond(r) PROVE UNCHANGED delivered
  BY <1>1
  DEF Advance, LoginBelowLimit, LoginRefused, LoginMustEvict,
      LoginFindOldest, LoginEvict, LoginCreate, LoginStoreToken,
      RefreshConcurrent, RefreshReplay, RefreshRejected, RefreshAccepted,
      ReplayRevoke, ReplayLogout, RefreshRevokeOld, RefreshRotate,
      LogoutRevokeToken
<1>2. ASSUME NEW r \in Requests, Arrive(r) \/ RequestFails(r)
      PROVE  UNCHANGED delivered
  BY <1>2 DEF Arrive, LoginStart, RefreshRead, Logout, RequestFails
<1>3. CASE Administer \/ Tick \/ UNCHANGED vars
  BY <1>3, AdministerRevokes DEF Others, Tick, vars
<1>4. QED  BY <1>1, <1>2, <1>3 DEF Next

\* No step makes an existing row active or gives it to another user, and a
\* row gets a new hash from a request that stores its token there.
LEMMA RowsEvolve ==
    ASSUME IInv, [Next]_vars, NEW s \in Created
    PROVE  /\ sess'[s].user = sess[s].user
           /\ sess'[s].is_active => sess[s].is_active
           /\ sess'[s].expires_at = sess[s].expires_at
           /\ \/ sess'[s].hash = sess[s].hash
              \/ \E r \in Requests : /\ req[r].at \in {"store", "rotate"}
                                     /\ req[r].sid = s
                                     /\ sess'[s].hash = req[r].token
                                     /\ req'[r].at = "respond"
<1>0. s \in Sessions /\ sess[s].user # None /\ TypeOK /\ sess[s] \in Row
  BY DEF Created, IInv, TypeOK
<1>1. CASE UNCHANGED sess
  BY <1>1
<1>2. ASSUME NEW S \in SUBSET Created,
             sess' = RevokeRows(S) \/ sess' = RevokeRowsKeepToken(S)
      PROVE  /\ sess'[s].user = sess[s].user
             /\ sess'[s].is_active => sess[s].is_active
             /\ sess'[s].expires_at = sess[s].expires_at
             /\ sess'[s].hash = sess[s].hash
  BY <1>0, <1>2, RevokeKeepsRows
<1>3. ASSUME NEW r \in Requests, LoginCreate(r) PROVE sess'[s] = sess[s]
  <2>1. req[r].sid # s
    BY <1>0, <1>3 DEF LoginCreate, IInv, Consistent, RequestConsistent, BeforeInsert
  <2>2. QED  BY <1>0, <1>3, <2>1 DEF LoginCreate, TypeOK
<1>4. ASSUME NEW r \in Requests, LoginStoreToken(r) \/ RefreshRotate(r)
      PROVE  /\ sess'[s].user = sess[s].user
             /\ sess'[s].is_active = sess[s].is_active
             /\ sess'[s].expires_at = sess[s].expires_at
             /\ \/ sess'[s].hash = sess[s].hash
                \/ /\ req[r].at \in {"store", "rotate"}
                   /\ req[r].sid = s
                   /\ sess'[s].hash = req[r].token
                   /\ req'[r].at = "respond"
  BY <1>0, <1>4, GotoFields DEF LoginStoreToken, RefreshRotate, StoreToken, TypeOK, Row
<1>5. ASSUME NEW r \in Requests, RefreshRevokeOld(r) \/ LogoutRevokeToken(r)
      PROVE  /\ sess'[s].user = sess[s].user
             /\ sess'[s].is_active = sess[s].is_active
             /\ sess'[s].expires_at = sess[s].expires_at
             /\ sess'[s].hash = sess[s].hash
  BY <1>0, <1>5 DEF RefreshRevokeOld, LogoutRevokeToken, TypeOK, Row
<1>6. QED
  BY <1>1, <1>2, <1>3, <1>4, <1>5, RowSteps DEF RowStep

\* A row that appears was inserted by a login about to create it.
LEMMA RowsAppear ==
    ASSUME IInv, [Next]_vars, NEW s \in Sessions \ Created
    PROVE  sess'[s] = sess[s] \/ \E r \in Requests : LoginCreate(r) /\ req[r].sid = s
<1>0. sess[s].user = None /\ TypeOK
  BY DEF Created, IInv
<1>1. ASSUME NEW S \in SUBSET Created,
             sess' = RevokeRows(S) \/ sess' = RevokeRowsKeepToken(S)
      PROVE  sess'[s] = sess[s]
  BY <1>1 DEF RevokeRows, RevokeRowsKeepToken
<1>2. ASSUME NEW r \in Requests, LoginCreate(r), req[r].sid # s
      PROVE  sess'[s] = sess[s]
  BY <1>0, <1>2 DEF LoginCreate, TypeOK
<1>3. ASSUME NEW r \in Requests,
             \/ LoginStoreToken(r) \/ RefreshRotate(r)
             \/ RefreshRevokeOld(r) \/ LogoutRevokeToken(r)
      PROVE  sess'[s] = sess[s]
  <2>1. req[r].sid # s
    BY <1>0, <1>3
    DEF LoginStoreToken, RefreshRotate, RefreshRevokeOld, LogoutRevokeToken,
        IInv, Consistent, RequestConsistent, BeforeInsert
  <2>2. QED
    BY <1>0, <1>3, <2>1
    DEF LoginStoreToken, RefreshRotate, RefreshRevokeOld, LogoutRevokeToken,
        StoreToken, TypeOK
<1>4. QED  BY <1>1, <1>2, <1>3, RowSteps DEF RowStep

-----------------------------------------------------------------------------
(* Revocation and deactivation are final.                                    *)

\* A request comes to hold a session only by reading it as active.
LEMMA HoldsOnlyFromActive ==
    ASSUME IInv, [Next]_vars, NEW s \in Created, NEW r \in Requests, Holds(r, s)'
    PROVE  Holds(r, s) \/ sess[s].is_active
<1>0. /\ TypeOK /\ RequestConsistent(r)
      /\ s \in Sessions /\ sess[s].user # None /\ s # None
  BY IdentityAssumption DEF Created, IInv, Consistent
<1>1. ~Finish(r)
  BY <1>0, FinishFields DEF Holds
<1>2. ASSUME NEW step \in {"create", "oldest", "replayRevoke", "replayLogout"}
      PROVE  ~Goto(r, step)
  BY <1>0, GotoFields DEF Holds
<1>3. CASE Advance(r)
  <2>1. CASE LoginCreate(r)
    BY <1>0, <2>1, GotoFields
    DEF LoginCreate, Holds, RequestConsistent, BeforeInsert
  <2>2. CASE LoginStoreToken(r) \/ RefreshRevokeOld(r) \/ RefreshRotate(r)
    BY <1>0, <2>2, GotoFields
    DEF LoginStoreToken, RefreshRevokeOld, RefreshRotate, Holds
  <2>3. CASE RefreshAccepted(r)
    BY <1>0, <2>3, GotoFields DEF RefreshAccepted, Refreshable, Holds
  <2>4. CASE LoginFindOldest(r)
    <3>1. req'[r].at \in {"create", "evict"}
      BY <1>0, <2>4 DEF LoginFindOldest, Goto, TypeOK, Request
    <3>2. QED  BY <3>1 DEF Holds
  <2>5. CASE \/ LoginBelowLimit(r) \/ LoginRefused(r) \/ LoginMustEvict(r)
             \/ LoginEvict(r) \/ Respond(r)
    BY <1>1, <1>2, <2>5
    DEF LoginBelowLimit, LoginRefused, LoginMustEvict, LoginEvict, Respond
  <2>6. CASE \/ RefreshConcurrent(r) \/ RefreshReplay(r) \/ RefreshRejected(r)
             \/ ReplayRevoke(r) \/ ReplayLogout(r) \/ LogoutRevokeToken(r)
    BY <1>1, <1>2, <2>6
    DEF RefreshConcurrent, RefreshReplay, RefreshRejected, ReplayRevoke,
        ReplayLogout, LogoutRevokeToken
  <2>7. QED  BY <1>3, <2>1, <2>2, <2>3, <2>4, <2>5, <2>6 DEF Advance
<1>4. CASE \E x \in Sessions : Logout(r, x)
  BY <1>0, <1>4 DEF Logout, TypeOK, Idle, Holds
<1>5. CASE \E u \in Users, c \in BOOLEAN : LoginStart(r, u, c)
  BY <1>0, <1>5 DEF LoginStart, TypeOK, Idle, Holds
<1>6. ASSUME NEW x \in Sessions, RefreshRead(r, x) PROVE sess[s].is_active
  BY <1>0, <1>6 DEF RefreshRead, TypeOK, Idle, Holds
<1>7. CASE req'[r] = req[r]
  BY <1>7 DEF Holds
<1>8. QED
  BY <1>1, <1>3, <1>4, <1>5, <1>6, <1>7, RequestSteps DEF Arrive, RequestFails

LEMMA RevocationFinalStep ==
    ASSUME IInv, [Next]_vars, NEW s \in Sessions, Drained(s)
    PROVE  /\ Drained(s)'
           /\ sess'[s].hash = sess[s].hash
           /\ \A t \in Tokens : <<s, t>> \in delivered' => <<s, t>> \in delivered
<1>0. s \in Created /\ ~sess[s].is_active /\ \A r \in Requests : ~Holds(r, s)
  BY DEF Drained
<1>1. sess'[s].hash = sess[s].hash
  BY <1>0, RowsEvolve DEF Holds
<1>2. s \in Created'
  BY <1>0, RowsEvolve DEF Created
<1>3. ~sess'[s].is_active
  BY <1>0, RowsEvolve
<1>4. \A r \in Requests : ~Holds(r, s)'
  BY <1>0, HoldsOnlyFromActive
<1>5. ASSUME NEW t \in Tokens, <<s, t>> \in delivered' PROVE <<s, t>> \in delivered
  <2>1. ASSUME NEW r \in Requests, Respond(r) PROVE req[r].sid # s
    BY <1>0, <2>1 DEF Respond, Holds
  <2>2. QED  BY <1>5, <2>1, DeliveredSteps DEF Respond
<1>6. QED  BY <1>1, <1>2, <1>3, <1>4, <1>5 DEF Drained

\* A session that was revoked, and that no request read as alive before, stays
\* revoked for ever: no interleaving of logins, refreshes and logouts revives
\* it, gives it another token or sends a client a token for it.
THEOREM RevocationIsFinal == Spec => RevocationFinal
<1>1. IInv /\ [Next]_vars =>
         [\A s \in Sessions :
             Drained(s) => /\ Drained(s)'
                           /\ sess'[s].hash = sess[s].hash
                           /\ \A t \in Tokens :
                                 <<s, t>> \in delivered' => <<s, t>> \in delivered]_vars
  BY RevocationFinalStep
<1>2. QED  BY <1>1, Invariance, PTL DEF Spec, RevocationFinal

\* A deactivated user without open sessions and without logins under way gets
\* neither before being activated again.
LEMMA DeactivationFinalStep ==
    ASSUME IInv, [Next]_vars, NEW u \in Users, ShutOut(u)
    PROVE  (ShutOut(u) \/ active[u])'
<1>0. /\ ~active[u]
      /\ \A s \in SessionsOf(u) : ~sess[s].is_active
      /\ \A r \in Requests : ~(req[r].at \in BeforeInsert /\ req[r].user = u)
      /\ TypeOK
  BY DEF ShutOut, BeforeInsert, IInv
<1>1. ASSUME NEW s \in SessionsOf(u)' PROVE ~sess'[s].is_active
  <2>0. s \in Sessions /\ sess'[s].user = u /\ u # None
    BY IdentityAssumption DEF SessionsOf
  <2>1. CASE s \in Created
    BY <1>0, <2>0, <2>1, RowsEvolve DEF SessionsOf
  <2>2. CASE s \notin Created
    <3>1. sess'[s] # sess[s]
      BY <2>0, <2>2 DEF Created
    <3>2. PICK r \in Requests : LoginCreate(r) /\ req[r].sid = s
      BY <2>0, <2>2, <3>1, RowsAppear
    <3>3. sess'[s].user = req[r].user
      BY <1>0, <2>0, <3>2 DEF LoginCreate, TypeOK, NoRow
    <3>4. QED  BY <1>0, <2>0, <3>2, <3>3 DEF LoginCreate, BeforeInsert
  <2>3. QED  BY <2>1, <2>2
<1>2. ASSUME NEW r \in Requests, req'[r].at \in BeforeInsert, req'[r].user = u
      PROVE  FALSE
  <2>1. req'[r] # req[r] /\ ~Finish(r)
    BY <1>0, <1>2, FinishFields DEF BeforeInsert
  <2>2. \A step \in Steps : Goto(r, step) =>
           req'[r].at = step /\ req'[r].user = req[r].user
    BY <1>0, GotoFields
  <2>3. CASE Advance(r)
    <3>1. CASE LoginFindOldest(r)
      <4>1. req'[r].user = req[r].user
        BY <1>0, <3>1 DEF LoginFindOldest, Goto, TypeOK, Request
      <4>2. QED  BY <1>0, <1>2, <3>1, <4>1 DEF LoginFindOldest, BeforeInsert
    <3>2. CASE \/ LoginBelowLimit(r) \/ LoginRefused(r) \/ LoginMustEvict(r)
               \/ LoginEvict(r) \/ LoginCreate(r)
      BY <1>0, <1>2, <2>1, <2>2, <3>2
      DEF LoginBelowLimit, LoginRefused, LoginMustEvict, LoginEvict, LoginCreate,
          BeforeInsert
    <3>3. CASE \/ LoginStoreToken(r) \/ Respond(r)
               \/ RefreshConcurrent(r) \/ RefreshReplay(r) \/ RefreshRejected(r)
               \/ RefreshAccepted(r) \/ ReplayRevoke(r) \/ ReplayLogout(r)
               \/ RefreshRevokeOld(r) \/ RefreshRotate(r) \/ LogoutRevokeToken(r)
      BY <1>2, <2>1, <2>2, <3>3
      DEF LoginStoreToken, Respond, RefreshConcurrent, RefreshReplay,
          RefreshRejected, RefreshAccepted, ReplayRevoke, ReplayLogout,
          RefreshRevokeOld, RefreshRotate, LogoutRevokeToken, BeforeInsert
    <3>4. QED  BY <2>3, <3>1, <3>2, <3>3 DEF Advance
  <2>4. ASSUME NEW v \in Users, NEW c \in BOOLEAN, LoginStart(r, v, c)
        PROVE  FALSE
    <3>1. req'[r].user = v /\ active[v]
      BY <1>0, <2>4 DEF LoginStart, TypeOK, Idle
    <3>2. QED  BY <1>0, <1>2, <3>1
  <2>5. ASSUME NEW s \in Sessions, RefreshRead(r, s) \/ Logout(r, s)
        PROVE  FALSE
    BY <1>0, <1>2, <2>5 DEF RefreshRead, Logout, TypeOK, Idle, BeforeInsert
  <2>6. QED
    BY <2>1, <2>3, <2>4, <2>5, RequestSteps DEF Arrive, RequestFails
<1>3. QED  BY <1>1, <1>2 DEF ShutOut, BeforeInsert

\* Deactivation is final until somebody activates the user again.
THEOREM DeactivationIsFinal == Spec => DeactivationFinal
<1>1. IInv /\ [Next]_vars =>
         [\A u \in Users : ShutOut(u) => (ShutOut(u) \/ active[u])']_vars
  BY DeactivationFinalStep
<1>2. QED  BY <1>1, Invariance, PTL DEF Spec, DeactivationFinal

-----------------------------------------------------------------------------
(* Why a live session may carry a revoked token.                             *)

\* A logout reaches its second statement with the session already revoked.
LogoutClosed ==
    \A r \in Requests : req[r].at = "logoutToken" => ~sess[req[r].sid].is_active

ReplayInv == RevokedTokenExplained /\ LogoutClosed

\* A request comes to "rotate" or to "logoutToken" by the step before it.
LEMMA EntersLogoutToken ==
    ASSUME IInv, [Next]_vars, NEW r \in Requests, req'[r].at = "logoutToken"
    PROVE  req'[r] = req[r] \/ \E s \in Sessions : Logout(r, s)
<1>0. TypeOK
  BY DEF IInv
<1>1. ~Finish(r)
  BY <1>0, FinishFields
<1>2. \A step \in Steps : Goto(r, step) => step = "logoutToken"
  BY <1>0, GotoFields
<1>3. ~Advance(r)
  <2>1. ~LoginFindOldest(r)
    BY <1>0 DEF LoginFindOldest, Goto, TypeOK, Request
  <2>2. QED
    BY <1>1, <1>2, <2>1
    DEF Advance, LoginBelowLimit, LoginRefused, LoginMustEvict,
        LoginEvict, LoginCreate, LoginStoreToken, Respond,
        RefreshConcurrent, RefreshReplay, RefreshRejected, RefreshAccepted,
        ReplayRevoke, ReplayLogout, RefreshRevokeOld, RefreshRotate,
        LogoutRevokeToken
<1>4. ASSUME NEW u \in Users, NEW c \in BOOLEAN, LoginStart(r, u, c)
      PROVE  FALSE
  <2>1. req'[r].at = "count"
    BY <1>0, <1>4 DEF LoginStart, TypeOK, Idle
  <2>2. QED  BY <2>1
<1>5. \A s \in Sessions : ~RefreshRead(r, s)
  BY <1>0 DEF RefreshRead, TypeOK, Idle
<1>6. QED
  BY <1>1, <1>3, <1>4, <1>5, RequestSteps DEF Arrive, RequestFails

LEMMA LogoutClosedStep ==
    ASSUME IInv, LogoutClosed, [Next]_vars PROVE LogoutClosed'
<1> SUFFICES ASSUME NEW r \in Requests, req'[r].at = "logoutToken"
             PROVE  ~sess'[req'[r].sid].is_active
  BY DEF LogoutClosed
<1>1. CASE req'[r] = req[r]
  <2>1. req[r].sid \in Created /\ ~sess[req[r].sid].is_active
    BY <1>1 DEF LogoutClosed, IInv, Consistent, RequestConsistent, BeforeInsert, Created
  <2>2. QED  BY <1>1, <2>1, RowsEvolve
<1>2. ASSUME NEW s \in Sessions, Logout(r, s)
      PROVE  ~sess'[req'[r].sid].is_active
  <2>1. req'[r].sid = s
    BY <1>2 DEF Logout, IInv, TypeOK, Idle
  <2>2. sess'[s].is_active = FALSE
    BY <1>2 DEF Logout, RevokeRows, IInv, TypeOK, Row
  <2>3. QED  BY <2>1, <2>2
<1>3. QED  BY <1>1, <1>2, EntersLogoutToken

\* A request leaves "rotate" by storing its token or by failing.
LEMMA LeavesRotate ==
    ASSUME IInv, [Next]_vars, NEW r \in Requests, req[r].at = "rotate"
    PROVE  req'[r] = req[r] \/ RefreshRotate(r) \/ RequestFails(r)
BY RequestSteps
DEF Advance, Arrive, LoginStart, RefreshRead, Logout,
    LoginBelowLimit, LoginRefused, LoginMustEvict, LoginFindOldest,
    LoginEvict, LoginCreate, LoginStoreToken, Respond,
    RefreshConcurrent, RefreshReplay, RefreshRejected, RefreshAccepted,
    ReplayRevoke, ReplayLogout, RefreshRevokeOld, LogoutRevokeToken

LEMMA InterruptedGrows ==
    ASSUME IInv, [Next]_vars PROVE interrupted \subseteq interrupted'
<1>1. ASSUME NEW r \in Requests, Advance(r) \/ Arrive(r)
      PROVE  interrupted \subseteq interrupted'
  BY <1>1
  DEF Advance, Arrive, LoginStart, RefreshRead, Logout,
      LoginBelowLimit, LoginRefused, LoginMustEvict, LoginFindOldest,
      LoginEvict, LoginCreate, LoginStoreToken, Respond,
      RefreshConcurrent, RefreshReplay, RefreshRejected, RefreshAccepted,
      ReplayRevoke, ReplayLogout, RefreshRevokeOld, RefreshRotate,
      LogoutRevokeToken
<1>2. ASSUME NEW r \in Requests, RequestFails(r)
      PROVE  interrupted \subseteq interrupted'
  BY <1>2 DEF RequestFails
<1>3. CASE Administer \/ Tick \/ UNCHANGED vars
  BY <1>3, AdministerRevokes DEF Others, Tick, vars
<1>4. QED  BY <1>1, <1>2, <1>3 DEF Next

\* Where a live session carries a revoked token after a step, it did before,
\* or the step is the first half of a rotation.
LEMMA RevokedTokenOrigin ==
    ASSUME IInv, LogoutClosed, [Next]_vars, NEW s \in Sessions,
           sess'[s].is_active, sess'[s].hash_revoked_at # None
    PROVE  \/ /\ sess[s].is_active /\ sess[s].hash_revoked_at # None
              /\ \A r \in Requests : RefreshRotate(r) => req[r].sid # s
           \/ \E r \in Requests : RefreshRevokeOld(r) /\ req[r].sid = s
<1>0. TypeOK /\ sess[s] \in Row
  BY DEF IInv, TypeOK
<1>1. ASSUME NEW r \in Requests, LoginStoreToken(r) \/ RefreshRotate(r)
      PROVE  /\ sess[s].is_active /\ sess[s].hash_revoked_at # None
             /\ req[r].sid # s
  BY <1>0, <1>1 DEF LoginStoreToken, RefreshRotate, StoreToken, TypeOK, Row
<1>2. ASSUME NEW r \in Requests, RefreshRotate(r) PROVE req[r].sid # s
  BY <1>1, <1>2
<1>3. CASE UNCHANGED sess
  BY <1>2, <1>3
<1>4. ASSUME NEW S \in SUBSET Created,
             sess' = RevokeRows(S) \/ sess' = RevokeRowsKeepToken(S)
      PROVE  sess[s].is_active /\ sess[s].hash_revoked_at # None
  <2>1. s \notin S
    BY <1>0, <1>4 DEF RevokeRows, RevokeRowsKeepToken, Row
  <2>2. QED  BY <1>4, <2>1 DEF RevokeRows, RevokeRowsKeepToken
<1>5. ASSUME NEW r \in Requests, LoginCreate(r)
      PROVE  sess[s].is_active /\ sess[s].hash_revoked_at # None
  BY <1>0, <1>5 DEF LoginCreate, TypeOK, NoRow
<1>6. ASSUME NEW r \in Requests, LogoutRevokeToken(r)
      PROVE  sess[s].is_active /\ sess[s].hash_revoked_at # None
  <2>1. req[r].sid # s
    BY <1>0, <1>6 DEF LogoutRevokeToken, LogoutClosed, TypeOK, Row
  <2>2. QED  BY <1>0, <1>6, <2>1 DEF LogoutRevokeToken, TypeOK
<1>7. ASSUME NEW r \in Requests, RefreshRevokeOld(r), req[r].sid # s
      PROVE  sess[s].is_active /\ sess[s].hash_revoked_at # None
  BY <1>0, <1>7 DEF RefreshRevokeOld, TypeOK
<1>8. QED
  BY <1>1, <1>2, <1>3, <1>4, <1>5, <1>6, <1>7, RowSteps DEF RowStep

LEMMA RevokedTokenStep ==
    ASSUME IInv, ReplayInv, [Next]_vars PROVE RevokedTokenExplained'
<1> SUFFICES ASSUME NEW s \in Sessions,
                    sess'[s].is_active, sess'[s].hash_revoked_at # None
             PROVE  \/ s \in interrupted'
                    \/ \E r \in Requests : req'[r].at = "rotate" /\ req'[r].sid = s
  BY DEF RevokedTokenExplained
<1>1. ASSUME NEW r \in Requests, RefreshRevokeOld(r), req[r].sid = s
      PROVE  req'[r].at = "rotate" /\ req'[r].sid = s
  BY <1>1, GotoFields DEF IInv, RefreshRevokeOld
<1>2. CASE /\ sess[s].is_active /\ sess[s].hash_revoked_at # None
           /\ \A r \in Requests : RefreshRotate(r) => req[r].sid # s
  <2>1. CASE s \in interrupted
    BY <2>1, InterruptedGrows
  <2>2. ASSUME NEW r \in Requests, req[r].at = "rotate", req[r].sid = s
        PROVE  s \in interrupted' \/ (req'[r].at = "rotate" /\ req'[r].sid = s)
    <3>1. CASE req'[r] = req[r]
      BY <2>2, <3>1
    <3>2. CASE RequestFails(r)
      BY <2>2, <3>2 DEF RequestFails
    <3>3. QED  BY <1>2, <2>2, <3>1, <3>2, LeavesRotate
  <2>3. QED  BY <1>2, <2>1, <2>2 DEF ReplayInv, RevokedTokenExplained
<1>3. QED  BY <1>1, <1>2, RevokedTokenOrigin DEF ReplayInv

\* The replay branch of refresh() takes any revoked token for a stolen one. A
\* session in use carries a revoked token only between the statements of a
\* rotation, or after one that failed there. (Nothing is said of sessions that
\* were logged out, evicted or revoked: their tokens take the branch as well.)
THEOREM RevokedTokensExplained == Spec => []RevokedTokenExplained
<1>1. Init => ReplayInv
  BY DEF Init, ReplayInv, RevokedTokenExplained, LogoutClosed, NoRow, Idle
<1>2. IInv /\ ReplayInv /\ [Next]_vars => ReplayInv'
  BY RevokedTokenStep, LogoutClosedStep DEF ReplayInv
<1>3. ReplayInv => RevokedTokenExplained
  BY DEF ReplayInv
<1>4. QED  BY <1>1, <1>2, <1>3, Invariance, PTL DEF Spec

-----------------------------------------------------------------------------
(* Tokens: one hash per row, and a superseded token stays dead.              *)

\* r has generated a token, and has not stored it yet.
Carries(r)  == req[r].at \notin {"idle", "logoutToken"}
Unstored(r) == req[r].at \notin {"idle", "logoutToken", "respond"}

\* A token is generated once, is in the hands of one request, and until that
\* request stores it, it is in no row and with no client.
TokenInv ==
    /\ \A s \in Sessions : sess[s].hash # None => sess[s].hash \in minted
    /\ \A d \in delivered : d[2] \in minted
    /\ \A r \in Requests : Unstored(r) =>
          /\ \A s \in Sessions : sess[s].hash # req[r].token
          /\ \A d \in delivered : d[2] # req[r].token
    /\ \A r, q \in Requests :
          (r # q /\ Carries(r) /\ Carries(q)) => req[r].token # req[q].token
    /\ HashIdentifiesSession

\* What a step does with the tokens requests carry.
KeepsToken(r) ==
    Carries(r)' => /\ Carries(r)
                   /\ req'[r].token = req[r].token
                   /\ Unstored(r)' => Unstored(r)

GeneratesToken(r) ==
    /\ Carries(r)'
    /\ req'[r].token \in FreshTokens
    /\ minted' = minted \cup {req'[r].token}
    /\ UNCHANGED <<sess, delivered>>
    /\ \A q \in Requests \ {r} : req'[q] = req[q]

LEMMA TokensOfRequests ==
    ASSUME IInv, [Next]_vars
    PROVE  \/ minted' = minted /\ \A r \in Requests : KeepsToken(r)
           \/ \E r \in Requests : GeneratesToken(r)
<1>0. TypeOK
  BY DEF IInv
<1>1. ASSUME NEW r \in Requests, Finish(r)
      PROVE  \A q \in Requests : KeepsToken(q)
  BY <1>0, <1>1, FinishFields DEF KeepsToken, Carries, Unstored
<1>2. ASSUME NEW r \in Requests, NEW step \in Steps, Goto(r, step),
             Unstored(r) \/ (Carries(r) /\ step = "respond")
      PROVE  \A q \in Requests : KeepsToken(q)
  BY <1>0, <1>2, GotoFields DEF KeepsToken, Carries, Unstored
<1>3. ASSUME NEW r \in Requests, Advance(r)
      PROVE  minted' = minted /\ \A q \in Requests : KeepsToken(q)
  <2>1. CASE LoginFindOldest(r)
    <3>1. CASE Goto(r, "create")
      BY <1>2, <2>1, <3>1 DEF LoginFindOldest, Unstored
    <3>2. CASE ~Goto(r, "create")
      <4>1. /\ req[r].at = "oldest" /\ req'[r].at = "evict"
            /\ req'[r].token = req[r].token
            /\ \A q \in Requests \ {r} : req'[q] = req[q]
        BY <1>0, <2>1, <3>2 DEF LoginFindOldest, TypeOK, Request
      <4>2. QED  BY <2>1, <4>1 DEF LoginFindOldest, KeepsToken, Carries, Unstored
    <3>3. QED  BY <3>1, <3>2
  <2>2. CASE \/ LoginBelowLimit(r) \/ LoginRefused(r) \/ LoginMustEvict(r)
             \/ LoginEvict(r) \/ LoginCreate(r) \/ LoginStoreToken(r)
    BY <1>1, <1>2, <2>2
    DEF LoginBelowLimit, LoginRefused, LoginMustEvict, LoginEvict, LoginCreate,
        LoginStoreToken, Unstored
  <2>3. CASE \/ Respond(r) \/ RefreshConcurrent(r) \/ RefreshReplay(r)
             \/ RefreshRejected(r) \/ RefreshAccepted(r) \/ ReplayRevoke(r)
    BY <1>1, <1>2, <2>3
    DEF Respond, RefreshConcurrent, RefreshReplay, RefreshRejected,
        RefreshAccepted, ReplayRevoke, Unstored
  <2>4. CASE \/ ReplayLogout(r) \/ RefreshRevokeOld(r) \/ RefreshRotate(r)
             \/ LogoutRevokeToken(r)
    BY <1>1, <1>2, <2>4
    DEF ReplayLogout, RefreshRevokeOld, RefreshRotate, LogoutRevokeToken, Unstored
  <2>5. QED  BY <1>3, <2>1, <2>2, <2>3, <2>4 DEF Advance
<1>4. ASSUME NEW r \in Requests, NEW s \in Sessions, Logout(r, s)
      PROVE  minted' = minted /\ \A q \in Requests : KeepsToken(q)
  <2>1. req'[r].at = "logoutToken" /\ \A q \in Requests \ {r} : req'[q] = req[q]
    BY <1>0, <1>4 DEF Logout, TypeOK, Idle
  <2>2. QED  BY <1>4, <2>1 DEF Logout, KeepsToken, Carries, Unstored
<1>5. ASSUME NEW r \in Requests, NEW s \in Sessions, RefreshRead(r, s)
      PROVE  GeneratesToken(r)
  <2>1. PICK t \in FreshTokens :
           /\ req' = [req EXCEPT ![r] = [Idle EXCEPT !.at = "decide",
                         !.user = sess[s].user, !.sid = s, !.token = t,
                         !.snap = sess[s]]]
           /\ minted' = minted \cup {t}
    BY <1>5 DEF RefreshRead
  <2>2. req'[r].at = "decide" /\ req'[r].token = t
        /\ \A q \in Requests \ {r} : req'[q] = req[q]
    BY <1>0, <2>1 DEF TypeOK, Idle
  <2>3. QED  BY <1>5, <2>1, <2>2 DEF RefreshRead, GeneratesToken, Carries
<1>6. ASSUME NEW r \in Requests, NEW u \in Users, NEW c \in BOOLEAN,
             LoginStart(r, u, c)
      PROVE  GeneratesToken(r)
  <2>1. PICK s \in FreshSessions, t \in FreshTokens :
           /\ req' = [req EXCEPT ![r] = [Idle EXCEPT !.at = "count", !.user = u,
                         !.confirm = c, !.sid = s, !.token = t]]
           /\ minted' = minted \cup {t}
    BY <1>6 DEF LoginStart
  <2>2. req'[r].at = "count" /\ req'[r].token = t
        /\ \A q \in Requests \ {r} : req'[q] = req[q]
    BY <1>0, <2>1 DEF TypeOK, Idle
  <2>3. QED  BY <1>6, <2>1, <2>2 DEF LoginStart, GeneratesToken, Carries
<1>7. ASSUME NEW r \in Requests, RequestFails(r)
      PROVE  minted' = minted /\ \A q \in Requests : KeepsToken(q)
  BY <1>1, <1>7 DEF RequestFails
<1>8. CASE Administer \/ Tick \/ UNCHANGED vars
  <2>1. UNCHANGED <<req, minted>>
    BY <1>8, AdministerRevokes DEF Others, Tick, vars
  <2>2. QED  BY <2>1 DEF KeepsToken, Carries, Unstored
<1>9. QED
  BY <1>3, <1>4, <1>5, <1>6, <1>7, <1>8 DEF Next, Arrive

\* Where a row changes its hash, to another one or from none, it becomes the
\* token of a request that had not stored it and now has.
LEMMA HashChange ==
    ASSUME IInv, [Next]_vars, NEW s \in Sessions, sess'[s].hash # sess[s].hash
    PROVE  \E r \in Requests : /\ Unstored(r) /\ ~Unstored(r)'
                               /\ req[r].sid = s
                               /\ req[r].token \in minted
                               /\ sess'[s].hash = req[r].token
<1>1. CASE s \in Created
  <2>1. PICK r \in Requests : /\ req[r].at \in {"store", "rotate"}
                              /\ req[r].sid = s
                              /\ sess'[s].hash = req[r].token
                              /\ req'[r].at = "respond"
    BY <1>1, RowsEvolve
  <2>2. req[r].token \in minted
    BY <2>1 DEF IInv, Consistent, RequestConsistent
  <2>3. QED  BY <2>1, <2>2 DEF Unstored
<1>2. CASE s \notin Created
  <2>1. sess[s].hash = None
    BY <1>2 DEF Created, IInv, Consistent, RowConsistent, NoRow
  <2>2. PICK r \in Requests : LoginCreate(r) /\ req[r].sid = s
    BY <1>2, RowsAppear
  <2>3. sess'[s].hash = None
    BY <2>2 DEF LoginCreate, IInv, TypeOK, NoRow
  <2>4. QED  BY <2>1, <2>3
<1>3. QED  BY <1>1, <1>2

LEMMA TokenInvStep ==
    ASSUME IInv, TokenInv, [Next]_vars PROVE TokenInv'
<1>1. CASE \E r \in Requests : GeneratesToken(r)
  <2>1. PICK r \in Requests : GeneratesToken(r)
    BY <1>1
  <2> DEFINE t == req'[r].token
  <2>2. /\ t \notin minted /\ minted' = minted \cup {t}
        /\ UNCHANGED <<sess, delivered>>
        /\ \A q \in Requests \ {r} : req'[q] = req[q]
    BY <2>1 DEF GeneratesToken, FreshTokens
  <2> HIDE DEF t
  <2>3. t # None
    BY <2>1, IdentityAssumption DEF GeneratesToken, FreshTokens, t
  <2>4. ASSUME NEW q \in Requests, Unstored(q)'
        PROVE  /\ \A s \in Sessions : sess'[s].hash # req'[q].token
               /\ \A d \in delivered' : d[2] # req'[q].token
    <3>1. CASE q = r
      BY <2>2, <2>3, <3>1 DEF TokenInv, t
    <3>2. CASE q # r
      BY <2>2, <2>4, <3>2 DEF TokenInv, Unstored
    <3>3. QED  BY <3>1, <3>2
  <2>5. ASSUME NEW p \in Requests, NEW q \in Requests, p # q, Carries(p)', Carries(q)'
        PROVE  req'[p].token # req'[q].token
    <3>1. ASSUME NEW o \in Requests \ {r}, Carries(o)'
          PROVE  req'[o] = req[o] /\ Carries(o) /\ req'[o].token # t
      <4>1. req'[o] = req[o] /\ Carries(o)
        BY <2>2, <3>1 DEF Carries
      <4>2. req[o].token \in minted
        BY <4>1 DEF IInv, Consistent, RequestConsistent, Carries
      <4>3. QED  BY <2>2, <4>1, <4>2
    <3>2. CASE p = r
      BY <2>5, <3>1, <3>2 DEF t
    <3>3. CASE q = r
      BY <2>5, <3>1, <3>3 DEF t
    <3>4. CASE p # r /\ q # r
      BY <2>5, <3>1, <3>4 DEF TokenInv
    <3>5. QED  BY <3>2, <3>3, <3>4
  <2>6. HashIdentifiesSession'
    BY <2>2 DEF TokenInv, HashIdentifiesSession
  <2>7. QED  BY <2>2, <2>4, <2>5, <2>6 DEF TokenInv
<1>2. CASE minted' = minted /\ \A r \in Requests : KeepsToken(r)
  <2>1. ASSUME NEW s \in Sessions, sess'[s].hash # None
        PROVE  sess'[s].hash \in minted'
    BY <1>2, <2>1, HashChange DEF TokenInv
  <2>2. ASSUME NEW d \in delivered' \ delivered
        PROVE  \E r \in Requests : /\ Carries(r) /\ ~Carries(r)'
                                   /\ d[2] = req[r].token /\ d[2] \in minted
    <3>1. PICK r \in Requests : Respond(r)
      BY <2>2, DeliveredSteps
    <3>2. d[2] = req[r].token
      BY <2>2, <3>1 DEF Respond
    <3>3. req[r].token \in minted
      BY <3>1 DEF Respond, IInv, Consistent, RequestConsistent
    <3>4. Carries(r) /\ ~Carries(r)'
      BY <3>1, FinishFields DEF Respond, Carries, IInv
    <3>5. QED  BY <3>2, <3>3, <3>4
  <2>3. \A d \in delivered' : d[2] \in minted'
    BY <1>2, <2>2 DEF TokenInv
  <2>4. ASSUME NEW q \in Requests, Unstored(q)'
        PROVE  /\ \A s \in Sessions : sess'[s].hash # req'[q].token
               /\ \A d \in delivered' : d[2] # req'[q].token
    <3>1. Unstored(q) /\ Carries(q) /\ req'[q].token = req[q].token /\ Carries(q)'
      BY <1>2, <2>4 DEF KeepsToken, Carries, Unstored
    <3>2. ASSUME NEW s \in Sessions PROVE sess'[s].hash # req[q].token
      <4>1. CASE sess'[s].hash = sess[s].hash
        BY <3>1, <4>1 DEF TokenInv
      <4>2. CASE sess'[s].hash # sess[s].hash
        <5>1. PICK r \in Requests : /\ Unstored(r) /\ ~Unstored(r)'
                                    /\ sess'[s].hash = req[r].token
          BY <4>2, HashChange
        <5>2. Carries(r) /\ r # q
          BY <2>4, <5>1 DEF Carries, Unstored
        <5>3. QED  BY <3>1, <5>1, <5>2 DEF TokenInv
      <4>3. QED  BY <4>1, <4>2
    <3>3. ASSUME NEW d \in delivered' PROVE d[2] # req[q].token
      BY <2>2, <3>1 DEF TokenInv
    <3>4. QED  BY <3>1, <3>2, <3>3
  <2>5. \A p, q \in Requests :
           (p # q /\ Carries(p)' /\ Carries(q)') => req'[p].token # req'[q].token
    BY <1>2 DEF TokenInv, KeepsToken
  <2>6. ASSUME NEW s1 \in Sessions, NEW s2 \in Sessions, s1 # s2,
               sess'[s1].hash # None, sess'[s1].hash = sess'[s2].hash
        PROVE  FALSE
    <3>1. CASE sess'[s1].hash # sess[s1].hash /\ sess'[s2].hash # sess[s2].hash
      <4>1. PICK r \in Requests : /\ Unstored(r) /\ req[r].sid = s1
                                  /\ sess'[s1].hash = req[r].token
        BY <3>1, HashChange
      <4>2. PICK q \in Requests : /\ Unstored(q) /\ req[q].sid = s2
                                  /\ sess'[s2].hash = req[q].token
        BY <3>1, HashChange
      <4>3. r # q
        BY <2>6, <4>1, <4>2
      <4>4. Carries(r) /\ Carries(q)
        BY <4>1, <4>2 DEF Carries, Unstored
      <4>5. req[r].token # req[q].token
        BY <4>3, <4>4 DEF TokenInv
      <4>6. QED  BY <2>6, <4>1, <4>2, <4>5
    <3>2. CASE sess'[s1].hash # sess[s1].hash /\ sess'[s2].hash = sess[s2].hash
      <4>1. PICK r \in Requests : Unstored(r) /\ sess'[s1].hash = req[r].token
        BY <3>2, HashChange
      <4>2. sess[s2].hash # req[r].token
        BY <4>1 DEF TokenInv
      <4>3. QED  BY <2>6, <3>2, <4>1, <4>2
    <3>3. CASE sess'[s1].hash = sess[s1].hash /\ sess'[s2].hash # sess[s2].hash
      <4>1. PICK r \in Requests : Unstored(r) /\ sess'[s2].hash = req[r].token
        BY <3>3, HashChange
      <4>2. sess[s1].hash # req[r].token
        BY <4>1 DEF TokenInv
      <4>3. QED  BY <2>6, <3>3, <4>1, <4>2
    <3>4. CASE sess'[s1].hash = sess[s1].hash /\ sess'[s2].hash = sess[s2].hash
      BY <2>6, <3>4 DEF TokenInv, HashIdentifiesSession
    <3>5. QED  BY <3>1, <3>2, <3>3, <3>4
  <2>7. HashIdentifiesSession'
    BY <2>6 DEF HashIdentifiesSession
  <2>8. QED  BY <2>1, <2>3, <2>4, <2>5, <2>7 DEF TokenInv
<1>3. QED  BY <1>1, <1>2, TokensOfRequests

\* What is stored, delivered and carried of tokens is minted, and no two requests carry
\* the same: the invariant of the theorems about tokens.
THEOREM TokenInvariance == Spec => [](IInv /\ TokenInv)
<1>1. Init => TokenInv
  BY DEF Init, TokenInv, HashIdentifiesSession, Unstored, Carries, NoRow, Idle
<1>2. IInv /\ TokenInv /\ [Next]_vars => TokenInv'
  BY TokenInvStep
<1>3. QED  BY <1>1, <1>2, Invariance, PTL DEF Spec

\* findSessionByRefreshTokenHash can never have two rows to choose from.
THEOREM HashesIdentifySessions == Spec => []HashIdentifiesSession
<1>1. TokenInv => HashIdentifiesSession
  BY DEF TokenInv
<1>2. QED  BY <1>1, TokenInvariance, PTL

\* However refreshes of a session overlap, a token that was sent and replaced
\* never becomes the session's token again.
THEOREM SupersededTokensStayDead == Spec => SupersededStaysDead
<1>1. IInv /\ TokenInv /\ [Next]_vars =>
         [\A s \in Sessions, t \in Tokens :
             (<<s, t>> \in delivered /\ sess[s].hash # t) => sess'[s].hash # t]_vars
  <2> SUFFICES ASSUME IInv, TokenInv, [Next]_vars,
                      NEW s \in Sessions, NEW t \in Tokens,
                      <<s, t>> \in delivered, sess[s].hash # t, sess'[s].hash = t
               PROVE  FALSE
    OBVIOUS
  <2>1. PICK r \in Requests : Unstored(r) /\ sess'[s].hash = req[r].token
    BY HashChange
  <2>2. <<s, t>>[2] # req[r].token
    BY <2>1 DEF TokenInv
  <2>3. QED  BY <2>1, <2>2
<1>2. QED  BY <1>1, TokenInvariance, PTL DEF Spec, SupersededStaysDead

-----------------------------------------------------------------------------
(* The overshoot of the session limit is bounded.                            *)

LEMMA TimeAdvances == ASSUME IInv, [Next]_vars PROVE now' >= now
<1>0. now \in Nat
  BY DEF IInv, TypeOK
<1>1. ASSUME NEW r \in Requests, Advance(r) \/ Arrive(r) \/ RequestFails(r)
      PROVE  now' = now
  BY <1>1
  DEF Advance, Arrive, LoginStart, RefreshRead, Logout, RequestFails,
      LoginBelowLimit, LoginRefused, LoginMustEvict, LoginFindOldest,
      LoginEvict, LoginCreate, LoginStoreToken, Respond,
      RefreshConcurrent, RefreshReplay, RefreshRejected, RefreshAccepted,
      ReplayRevoke, ReplayLogout, RefreshRevokeOld, RefreshRotate,
      LogoutRevokeToken
<1>2. CASE Administer
  BY <1>0, <1>2, AdministerRevokes DEF Others
<1>3. CASE Tick \/ UNCHANGED vars
  BY <1>0, <1>3 DEF Tick, vars
<1>4. QED  BY <1>0, <1>1, <1>2, <1>3 DEF Next

\* A session becomes live only by the insert of a login for its user.
LEMMA LiveSteps ==
    ASSUME IInv, [Next]_vars, NEW u \in Users, NEW s \in LiveSessions(u)'
    PROVE  \/ s \in LiveSessions(u)
           \/ \E r \in Requests : LoginCreate(r) /\ req[r].sid = s /\ req[r].user = u
<1>0. /\ s \in Sessions /\ sess'[s].user = u /\ sess'[s].is_active
      /\ sess'[s].expires_at > now'
      /\ TypeOK /\ sess[s] \in Row /\ TypeOK' /\ sess'[s] \in Row
  BY TypeStep DEF LiveSessions, SessionsOf, IInv, TypeOK
<1>1. CASE s \in Created
  <2>1. /\ sess[s].user = u /\ sess[s].is_active
        /\ sess[s].expires_at = sess'[s].expires_at
    BY <1>0, <1>1, RowsEvolve
  <2>2. ~sess[s].revoked
    BY <1>0, <1>1, <2>1 DEF IInv, Consistent, RowConsistent, Created
  <2>3. sess[s].expires_at > now
    BY <1>0, <2>1, TimeAdvances DEF TypeOK, Row
  <2>4. QED  BY <1>0, <2>1, <2>2, <2>3 DEF LiveSessions, SessionsOf
<1>2. CASE s \notin Created
  <2>1. sess'[s] # sess[s]
    BY <1>0, <1>2, IdentityAssumption DEF Created
  <2>2. PICK r \in Requests : LoginCreate(r) /\ req[r].sid = s
    BY <1>0, <1>2, <2>1, RowsAppear
  <2>3. sess'[s].user = req[r].user
    BY <1>0, <2>2 DEF LoginCreate, TypeOK, NoRow
  <2>4. QED  BY <1>0, <2>2, <2>3
<1>3. QED  BY <1>1, <1>2

\* Without auto-revocation a login is admitted only below the limit.
LEMMA AdmittedSteps ==
    ASSUME IInv, ~AutoRevokeOldestSession, [Next]_vars,
           NEW u \in Users, NEW r \in Admitted(u)'
    PROVE  r \in Admitted(u) \/ (LoginBelowLimit(r) /\ req[r].user = u)
<1>0. /\ TypeOK /\ RequestConsistent(r) /\ r \in Requests
      /\ req'[r].at = "create" /\ req'[r].user = u
  BY DEF Admitted, IInv, Consistent
<1>1. ~Finish(r)
  BY <1>0, FinishFields
<1>2. \A step \in Steps : Goto(r, step) => step = "create" /\ req[r].user = u
  BY <1>0, GotoFields
<1>3. CASE Advance(r)
  <2>1. ~LoginFindOldest(r) /\ ~LoginEvict(r)
    BY <1>0 DEF LoginFindOldest, LoginEvict, RequestConsistent
  <2>2. LoginBelowLimit(r)
    BY <1>1, <1>2, <1>3, <2>1
    DEF Advance, LoginRefused, LoginMustEvict, LoginCreate, LoginStoreToken,
        Respond, RefreshConcurrent, RefreshReplay, RefreshRejected,
        RefreshAccepted, ReplayRevoke, ReplayLogout, RefreshRevokeOld,
        RefreshRotate, LogoutRevokeToken
  <2>3. QED  BY <1>2, <2>2 DEF LoginBelowLimit
<1>4. \A v \in Users, c \in BOOLEAN : ~LoginStart(r, v, c)
  <2> SUFFICES ASSUME NEW v \in Users, NEW c \in BOOLEAN, LoginStart(r, v, c)
               PROVE  FALSE
    OBVIOUS
  <2>1. req'[r].at = "count"
    BY <1>0 DEF LoginStart, TypeOK, Idle
  <2>2. QED  BY <1>0, <2>1
<1>5. \A s \in Sessions : ~RefreshRead(r, s) /\ ~Logout(r, s)
  BY <1>0 DEF RefreshRead, Logout, TypeOK, Idle
<1>6. CASE req'[r] = req[r]
  BY <1>0, <1>6 DEF Admitted
<1>7. QED
  BY <1>0, <1>1, <1>3, <1>4, <1>5, <1>6, RequestSteps DEF Arrive, RequestFails

Sized(u) ==
    Cardinality(LiveSessions(u)) + Cardinality(Admitted(u))
        <= SessionLimit - 1 + Cardinality(Requests)

LEMMA CountedSetsFinite ==
    ASSUME NEW u
    PROVE  /\ IsFiniteSet(LiveSessions(u)) /\ IsFiniteSet(Admitted(u))
           /\ Cardinality(LiveSessions(u)) \in Nat
           /\ Cardinality(Admitted(u)) \in Nat
           /\ Cardinality(Admitted(u)) <= Cardinality(Requests)
           /\ Cardinality(Requests) \in Nat
           /\ SessionLimit \in Nat \ {0}
<1>1. LiveSessions(u) \subseteq Sessions /\ Admitted(u) \subseteq Requests
  BY DEF LiveSessions, SessionsOf, Admitted
<1>2. IsFiniteSet(Sessions) /\ IsFiniteSet(Requests)
  BY IdentityAssumption
<1>3. SessionLimit \in Nat \ {0}
  BY SettingsAssumption DEF SessionLimit
<1>4. QED  BY <1>1, <1>2, <1>3, FS_Subset, FS_CardinalityType

LEMMA SizedStep ==
    ASSUME IInv, ~AutoRevokeOldestSession, [Next]_vars, NEW u \in Users, Sized(u)
    PROVE  Sized(u)'
<1> DEFINE L == LiveSessions(u)
           A == Admitted(u)
<1>0. /\ IsFiniteSet(L) /\ IsFiniteSet(A) /\ IsFiniteSet(L') /\ IsFiniteSet(A')
      /\ Cardinality(L) \in Nat /\ Cardinality(A) \in Nat
      /\ Cardinality(L') \in Nat /\ Cardinality(A') \in Nat
      /\ Cardinality(Requests) \in Nat /\ Cardinality(A') <= Cardinality(Requests)
      /\ SessionLimit \in Nat \ {0}
  <2>1. /\ IsFiniteSet(L') /\ IsFiniteSet(A')
        /\ Cardinality(L') \in Nat /\ Cardinality(A') \in Nat
        /\ Cardinality(A') <= Cardinality(Requests)
    <3>1. L' \subseteq Sessions /\ A' \subseteq Requests
      BY DEF LiveSessions, SessionsOf, Admitted
    <3>2. QED  BY <3>1, IdentityAssumption, FS_Subset, FS_CardinalityType
  <2>2. QED  BY <2>1, CountedSetsFinite
<1>1. Cardinality(L) + Cardinality(A) <= SessionLimit - 1 + Cardinality(Requests)
  BY DEF Sized
<1>2. Sized(u)' <=> Cardinality(L') + Cardinality(A')
                       <= SessionLimit - 1 + Cardinality(Requests)
  BY DEF Sized, SessionLimit
<1>3. CASE L' \subseteq L /\ A' \subseteq A
  <2>1. Cardinality(L') <= Cardinality(L) /\ Cardinality(A') <= Cardinality(A)
    BY <1>0, <1>3, FS_Subset
  <2> HIDE DEF L, A
  <2>2. QED  BY <1>0, <1>1, <1>2, <2>1
<1>4. ASSUME NEW r \in Requests, LoginBelowLimit(r), req[r].user = u
      PROVE  Sized(u)'
  <2>1. Cardinality(L) < SessionLimit
    BY <1>0, <1>4 DEF LoginBelowLimit, LimitReached
  <2>2. L' = L
    BY <1>4 DEF LoginBelowLimit, LiveSessions, SessionsOf
  <2> HIDE DEF L, A
  <2>3. QED  BY <1>0, <1>2, <2>1, <2>2
<1>5. ASSUME NEW r \in Requests, LoginCreate(r), req[r].user = u
      PROVE  Sized(u)'
  <2>1. L' \subseteq L \cup {req[r].sid}
    <3>1. ASSUME NEW s \in L' PROVE s \in L \cup {req[r].sid}
      <4>1. s = req[r].sid \/ sess'[s] = sess[s]
        BY <1>5 DEF LoginCreate, IInv, TypeOK, LiveSessions, SessionsOf
      <4>2. UNCHANGED now
        BY <1>5 DEF LoginCreate
      <4>3. QED  BY <3>1, <4>1, <4>2 DEF LiveSessions, SessionsOf
    <3>2. QED  BY <3>1
  <2>2. r \in A /\ A' \subseteq A \ {r}
    <3>1. r \in A
      BY <1>5 DEF LoginCreate, Admitted
    <3>2. ASSUME NEW q \in A' PROVE q \in A \ {r}
      <4>1. q \in A \/ LoginBelowLimit(q)
        BY AdmittedSteps
      <4>2. q \in Requests /\ req'[q].at = "create"
        BY DEF Admitted
      <4>3. q # r
        BY <1>5, <4>2, GotoFields DEF LoginCreate, IInv
      <4>4. req'[q] = req[q]
        BY <1>5, <4>2, <4>3, GotoFields DEF LoginCreate, IInv
      <4>5. QED  BY <4>1, <4>2, <4>3, <4>4 DEF LoginBelowLimit
    <3>3. QED  BY <3>1, <3>2
  <2> HIDE DEF L, A
  <2>3. Cardinality(L') <= Cardinality(L) + 1
    <3>1. /\ IsFiniteSet(L \cup {req[r].sid})
          /\ Cardinality(L \cup {req[r].sid}) <= Cardinality(L) + 1
          /\ Cardinality(L \cup {req[r].sid}) \in Nat
      <4>1. IsFiniteSet(L \cup {req[r].sid})
        BY <1>0, FS_AddElement
      <4>2. \/ Cardinality(L \cup {req[r].sid}) = Cardinality(L)
            \/ Cardinality(L \cup {req[r].sid}) = Cardinality(L) + 1
        BY <1>0, FS_AddElement
      <4>3. QED  BY <1>0, <4>1, <4>2
    <3>2. Cardinality(L') <= Cardinality(L \cup {req[r].sid})
      BY <2>1, <3>1, FS_Subset
    <3>3. QED  BY <1>0, <3>1, <3>2
  <2>4. Cardinality(A') <= Cardinality(A) - 1
    <3>1. IsFiniteSet(A \ {r}) /\ Cardinality(A \ {r}) = Cardinality(A) - 1
      BY <1>0, <2>2, FS_RemoveElement
    <3>2. QED  BY <2>2, <3>1, FS_Subset
  <2>5. QED  BY <1>0, <1>1, <1>2, <2>3, <2>4
<1>6. CASE /\ \A r \in Requests : ~(LoginCreate(r) /\ req[r].user = u)
           /\ \A r \in Requests : ~(LoginBelowLimit(r) /\ req[r].user = u)
  <2>1. L' \subseteq L
    BY <1>6, LiveSteps
  <2>2. A' \subseteq A
    <3>1. \A r \in A' : r \in Requests
      BY DEF Admitted
    <3>2. QED  BY <1>6, <3>1, AdmittedSteps
  <2>3. QED  BY <1>3, <2>1, <2>2
<1>7. QED  BY <1>4, <1>5, <1>6

\* With auto-revocation off, concurrent logins overshoot the session limit by
\* fewer sessions than there are requests in execution, for every limit and
\* every number of requests.
THEOREM OvershootIsBounded == Spec => []OvershootBound
<1>1. Init => OvershootBound
  <2> SUFFICES ASSUME Init, NEW u \in Users PROVE Sized(u)
    BY DEF OvershootBound, Sized
  <2>1. LiveSessions(u) = {} /\ Admitted(u) = {}
    BY IdentityAssumption DEF Init, LiveSessions, SessionsOf, NoRow, Idle, Admitted
  <2>2. QED  BY <2>1, FS_EmptySet, CountedSetsFinite DEF Sized
<1>2. IInv /\ OvershootBound /\ [Next]_vars => OvershootBound'
  BY SizedStep DEF OvershootBound, Sized
<1>3. QED  BY <1>1, <1>2, Invariance, PTL DEF Spec

-----------------------------------------------------------------------------
(* One request at a time: what the overlap of requests is to blame for.      *)

Serial == \A r, q \in Requests : r = q

LEMMA LeastNumber ==
    ASSUME NEW S \in SUBSET Nat, S # {}
    PROVE  \E n \in S : \A m \in S : n <= m
<1> DEFINE Upto(n) == 0..n
           Family == {Upto(n) : n \in S}
<1>1. Family \subseteq FiniteSubsetsOf(Nat) /\ Family # {}
  <2>1. ASSUME NEW n \in S PROVE Upto(n) \in SUBSET Nat /\ IsFiniteSet(Upto(n))
    BY FS_Interval
  <2> HIDE DEF Upto
  <2> QED BY <2>1 DEF FiniteSubsetsOf
<1>2. PICK M \in Family : \A N \in Family : <<N, M>> \notin StrictSubsetOrdering(Nat)
  <2> HIDE DEF Family
  <2> QED BY <1>1, FS_StrictSubsetOrderingWellFounded, WFMin, Zenon
<1>3. PICK n \in S : M = Upto(n)
  OBVIOUS
<1>4. ASSUME NEW m \in S, m < n PROVE FALSE
  <2>1. Upto(m) \subseteq Upto(n) /\ n \in Upto(n) /\ n \notin Upto(m)
    BY <1>4
  <2>2. Upto(m) \in FiniteSubsetsOf(Nat) /\ Upto(n) \in FiniteSubsetsOf(Nat)
    BY <1>1
  <2> HIDE DEF Upto
  <2>3. <<Upto(m), Upto(n)>> \in StrictSubsetOrdering(Nat)
    BY <2>1, <2>2 DEF StrictSubsetOrdering, FiniteSubsetsOf
  <2> QED BY <1>2, <1>3, <2>3
<1> QED BY <1>4

\* getOldestActiveSession finds a row where getActiveSessionCount counted one.
LEMMA SomeSessionIsOldest ==
    ASSUME IInv, NEW u, LiveSessions(u) # {} PROVE OldestLive(u) # {}
<1> DEFINE times == {sess[s].login_at : s \in LiveSessions(u)}
<1>1. times \in SUBSET Nat /\ times # {}
  BY DEF IInv, TypeOK, Row, LiveSessions, SessionsOf
<1>2. PICK n \in times : \A m \in times : n <= m
  BY <1>1, LeastNumber
<1>3. PICK s \in LiveSessions(u) : n = sess[s].login_at
  BY <1>2
<1>4. s \in OldestLive(u)
  BY <1>2, <1>3 DEF OldestLive
<1> QED BY <1>4

\* The room a login has found, or made by its eviction, for the row it inserts.
HasRoom(r) ==
    /\ req[r].at = "evict" =>
          Cardinality(LiveSessions(req[r].user) \ {req[r].victim}) < SessionLimit
    /\ req[r].at = "create" => Cardinality(LiveSessions(req[r].user)) < SessionLimit

CapInv == SessionCap /\ \A r \in Requests : HasRoom(r)

\* A login comes to its eviction and to its insert by the count, by the search for
\* the oldest session or by the eviction.
LEMMA ComesToInsert ==
    ASSUME IInv, [Next]_vars, NEW r \in Requests, req'[r].at \in {"evict", "create"}
    PROVE  req'[r] = req[r] \/ LoginBelowLimit(r) \/ LoginFindOldest(r) \/ LoginEvict(r)
<1>0. TypeOK
  BY DEF IInv
<1>1. ~Finish(r)
  BY <1>0, FinishFields
<1>2. \A step \in Steps : Goto(r, step) => step \in {"evict", "create"}
  BY <1>0, GotoFields
<1>3. ASSUME Advance(r) PROVE LoginBelowLimit(r) \/ LoginFindOldest(r) \/ LoginEvict(r)
  BY <1>1, <1>2, <1>3
  DEF Advance, LoginRefused, LoginMustEvict, LoginCreate, LoginStoreToken,
      Respond, RefreshConcurrent, RefreshReplay, RefreshRejected,
      RefreshAccepted, ReplayRevoke, ReplayLogout, RefreshRevokeOld,
      RefreshRotate, LogoutRevokeToken
<1>4. ASSUME NEW u \in Users, NEW c \in BOOLEAN, LoginStart(r, u, c) PROVE FALSE
  <2>1. req'[r].at = "count"
    BY <1>0, <1>4 DEF LoginStart, TypeOK, Idle
  <2> QED BY <2>1
<1>5. \A s \in Sessions : ~RefreshRead(r, s) /\ ~Logout(r, s)
  BY <1>0 DEF RefreshRead, Logout, TypeOK, Idle
<1> QED BY <1>1, <1>3, <1>4, <1>5, RequestSteps DEF Arrive, RequestFails

\* Where the live sessions of a user become fewer, a request for the user keeps its
\* room.
LEMMA FewerLive ==
    ASSUME NEW S, IsFiniteSet(S), NEW T, T \subseteq S
    PROVE  /\ IsFiniteSet(T) /\ Cardinality(T) \in Nat /\ Cardinality(S) \in Nat
           /\ Cardinality(T) <= Cardinality(S)
BY FS_Subset, FS_CardinalityType

LEMMA RoomStep ==
    ASSUME IInv, CapInv, [Next]_vars, NEW r \in Requests,
           \A q \in Requests : ~LoginCreate(q)
    PROVE  HasRoom(r)'
<1> SUFFICES ASSUME req'[r].at \in {"evict", "create"} PROVE HasRoom(r)'
  BY DEF HasRoom
<1>0. /\ TypeOK /\ RequestConsistent(r) /\ RequestConsistent(r)' /\ HasRoom(r)
  BY IInvStep DEF IInv, Consistent, CapInv
<1>1. ASSUME NEW u \in Users
      PROVE  /\ LiveSessions(u)' \subseteq LiveSessions(u)
             /\ IsFiniteSet(LiveSessions(u))
             /\ Cardinality(LiveSessions(u)) \in Nat
             /\ Cardinality(LiveSessions(u)) <= SessionLimit
             /\ SessionLimit \in Nat \ {0} /\ SessionLimit' = SessionLimit
  BY LiveSteps, CountedSetsFinite DEF CapInv, SessionCap, SessionLimit
<1>2. PICK u \in Users : u = req'[r].user
  BY <1>0 DEF RequestConsistent, BeforeInsert
<1>3. CASE req'[r] = req[r]
  <2>1. u = req[r].user /\ req'[r].victim = req[r].victim /\ req'[r].at = req[r].at
    BY <1>2, <1>3
  <2>2. CASE req[r].at = "evict"
    <3>1. Cardinality(LiveSessions(u) \ {req[r].victim}) < SessionLimit
      BY <1>0, <2>1, <2>2 DEF HasRoom
    <3>2. /\ Cardinality(LiveSessions(u)' \ {req[r].victim})
               <= Cardinality(LiveSessions(u) \ {req[r].victim})
          /\ Cardinality(LiveSessions(u)' \ {req[r].victim}) \in Nat
          /\ Cardinality(LiveSessions(u) \ {req[r].victim}) \in Nat
      <4>1. /\ LiveSessions(u)' \ {req[r].victim} \subseteq LiveSessions(u) \ {req[r].victim}
            /\ IsFiniteSet(LiveSessions(u) \ {req[r].victim})
        BY <1>1, <1>2, FS_Subset
      <4> QED BY <4>1, FewerLive
    <3>3. Cardinality(LiveSessions(u)' \ {req[r].victim}) < SessionLimit
      BY <1>1, <1>2, <3>1, <3>2
    <3> QED BY <1>1, <1>2, <2>1, <2>2, <3>3 DEF HasRoom
  <2>3. CASE req[r].at = "create"
    <3>1. Cardinality(LiveSessions(u)) < SessionLimit
      BY <1>0, <2>1, <2>3 DEF HasRoom
    <3>2. /\ Cardinality(LiveSessions(u)') <= Cardinality(LiveSessions(u))
          /\ Cardinality(LiveSessions(u)') \in Nat
      BY <1>1, <1>2, FewerLive
    <3>3. Cardinality(LiveSessions(u)') < SessionLimit
      BY <1>1, <1>2, <3>1, <3>2
    <3> QED BY <1>1, <1>2, <2>1, <2>3, <3>3 DEF HasRoom
  <2> QED BY <2>1, <2>2, <2>3
<1>4. CASE LoginBelowLimit(r)
  <2>1. req'[r].at = "create" /\ u = req[r].user
    BY <1>0, <1>2, <1>4, GotoFields DEF LoginBelowLimit
  <2>2. LiveSessions(u)' = LiveSessions(u) /\ ~LimitReached(u)
    BY <1>4, <2>1 DEF LoginBelowLimit, LiveSessions, SessionsOf
  <2>3. Cardinality(LiveSessions(u)') < SessionLimit
    BY <1>1, <1>2, <2>2 DEF LimitReached
  <2> QED BY <1>1, <1>2, <2>1, <2>3 DEF HasRoom
<1>5. CASE LoginFindOldest(r)
  <2>0. LiveSessions(u)' = LiveSessions(u)
    BY <1>5 DEF LoginFindOldest, LiveSessions, SessionsOf
  <2>1. CASE OldestLive(req[r].user) = {} /\ Goto(r, "create")
    <3>1. req'[r].at = "create" /\ u = req[r].user
      BY <1>0, <1>2, <2>1, GotoFields
    <3>2. LiveSessions(u)' = {}
      BY <2>0, <2>1, <3>1, SomeSessionIsOldest
    <3>3. Cardinality(LiveSessions(u)') = 0
      BY <3>2, FS_EmptySet, Zenon
    <3> QED BY <1>1, <1>2, <3>1, <3>3 DEF HasRoom
  <2>2. ASSUME NEW s \in OldestLive(req[r].user),
               req' = [req EXCEPT ![r] = [@ EXCEPT !.at = "evict", !.victim = s]]
        PROVE  HasRoom(r)'
    <3>1. req'[r].at = "evict" /\ u = req[r].user /\ req'[r].victim = s
      BY <1>0, <1>2, <2>2 DEF TypeOK, Request
    <3>2. s \in LiveSessions(u)
      BY <3>1 DEF OldestLive
    <3>3. /\ Cardinality(LiveSessions(u) \ {s}) = Cardinality(LiveSessions(u)) - 1
      BY <1>1, <1>2, <3>2, FS_RemoveElement
    <3>4. Cardinality(LiveSessions(u)' \ {s}) < SessionLimit
      BY <1>1, <1>2, <2>0, <3>1, <3>3
    <3> QED BY <1>1, <1>2, <3>1, <3>4 DEF HasRoom
  <2> QED BY <1>5, <2>1, <2>2 DEF LoginFindOldest
<1>6. CASE LoginEvict(r)
  <2>1. /\ req'[r].at = "create" /\ u = req[r].user /\ req[r].at = "evict"
        /\ sess' = RevokeRows({req[r].victim})
    BY <1>0, <1>2, <1>6, GotoFields DEF LoginEvict
  <2>2. Cardinality(LiveSessions(u) \ {req[r].victim}) < SessionLimit
    BY <1>0, <2>1 DEF HasRoom
  <2>3. req[r].victim \notin LiveSessions(u)'
    BY <1>0, <2>1 DEF RevokeRows, LiveSessions, SessionsOf, TypeOK, Row
  <2>4. /\ LiveSessions(u)' \subseteq LiveSessions(u) \ {req[r].victim}
        /\ IsFiniteSet(LiveSessions(u) \ {req[r].victim})
    BY <1>1, <1>2, <2>3, FS_Subset
  <2>5. /\ Cardinality(LiveSessions(u)') <= Cardinality(LiveSessions(u) \ {req[r].victim})
        /\ Cardinality(LiveSessions(u)') \in Nat
        /\ Cardinality(LiveSessions(u) \ {req[r].victim}) \in Nat
    BY <2>4, FewerLive
  <2>6. Cardinality(LiveSessions(u)') < SessionLimit
    BY <1>1, <1>2, <2>2, <2>5
  <2> QED BY <1>1, <1>2, <2>1, <2>6 DEF HasRoom
<1> QED BY <1>3, <1>4, <1>5, <1>6, ComesToInsert

\* Without overlap nothing takes the room between the count and the insert.
LEMMA CapStep ==
    ASSUME Serial, IInv, CapInv, [Next]_vars PROVE CapInv'
<1>0. \A u \in Users : /\ IsFiniteSet(LiveSessions(u))
                       /\ Cardinality(LiveSessions(u)) \in Nat
                       /\ Cardinality(LiveSessions(u)) <= SessionLimit
                       /\ SessionLimit \in Nat \ {0} /\ SessionLimit' = SessionLimit
  BY CountedSetsFinite DEF CapInv, SessionCap, SessionLimit
<1>1. CASE \A q \in Requests : ~LoginCreate(q)
  <2>1. ASSUME NEW u \in Users PROVE Cardinality(LiveSessions(u))' <= SessionLimit'
    <3>1. LiveSessions(u)' \subseteq LiveSessions(u)
      BY <1>1, LiveSteps
    <3>2. /\ Cardinality(LiveSessions(u)') <= Cardinality(LiveSessions(u))
          /\ Cardinality(LiveSessions(u)') \in Nat
      BY <1>0, <3>1, FewerLive
    <3> QED BY <1>0, <3>2
  <2> QED BY <1>1, <2>1, RoomStep DEF CapInv, SessionCap
<1>2. ASSUME NEW r \in Requests, LoginCreate(r) PROVE CapInv'
  <2>0. TypeOK /\ RequestConsistent(r) /\ HasRoom(r) /\ \A q \in Requests : q = r
    BY DEF Serial, IInv, Consistent, CapInv
  <2>1. req'[r].at = "store" /\ req[r].at = "create"
    BY <1>2, <2>0, GotoFields DEF LoginCreate
  <2>2. ASSUME NEW u \in Users PROVE Cardinality(LiveSessions(u))' <= SessionLimit'
    <3>1. CASE u # req[r].user
      <4>1. LiveSessions(u)' \subseteq LiveSessions(u)
        BY <2>0, <3>1, LiveSteps
      <4>2. /\ Cardinality(LiveSessions(u)') <= Cardinality(LiveSessions(u))
            /\ Cardinality(LiveSessions(u)') \in Nat
        BY <1>0, <4>1, FewerLive
      <4> QED BY <1>0, <4>2
    <3>2. CASE u = req[r].user
      <4> DEFINE more == LiveSessions(u) \cup {req[r].sid}
      <4>1. LiveSessions(u)' \subseteq more
        BY <2>0, <3>2, LiveSteps
      <4>2. Cardinality(LiveSessions(u)) < SessionLimit
        BY <2>0, <2>1, <3>2 DEF HasRoom
      <4>3. /\ IsFiniteSet(more)
            /\ \/ Cardinality(more) = Cardinality(LiveSessions(u))
               \/ Cardinality(more) = Cardinality(LiveSessions(u)) + 1
        BY <1>0, FS_AddElement
      <4> HIDE DEF more
      <4>4. /\ Cardinality(LiveSessions(u)') <= Cardinality(more)
            /\ Cardinality(LiveSessions(u)') \in Nat
        BY <4>1, <4>3, FewerLive
      <4> QED BY <1>0, <4>2, <4>3, <4>4
    <3> QED BY <3>1, <3>2
  <2>3. \A q \in Requests : HasRoom(q)'
    BY <2>0, <2>1 DEF HasRoom
  <2> QED BY <2>2, <2>3 DEF CapInv, SessionCap
<1> QED BY <1>1, <1>2

LEMMA InitCap == Init => CapInv
<1> SUFFICES ASSUME Init PROVE CapInv
  OBVIOUS
<1>1. ASSUME NEW u \in Users PROVE Cardinality(LiveSessions(u)) <= SessionLimit
  <2>1. LiveSessions(u) = {}
    BY <1>1, IdentityAssumption DEF Init, LiveSessions, SessionsOf, NoRow
  <2>2. Cardinality(LiveSessions(u)) = 0
    BY <2>1, FS_EmptySet, Zenon
  <2> QED BY <2>2, CountedSetsFinite
<1>2. \A r \in Requests : HasRoom(r)
  BY DEF Init, Idle, HasRoom
<1> QED BY <1>1, <1>2 DEF CapInv, SessionCap

LEMMA CapInvariance == Serial => (Spec => []CapInv)
<1> SUFFICES ASSUME Serial PROVE Spec => []CapInv
  OBVIOUS
<1>1. IInv /\ CapInv /\ [Next]_vars => CapInv'
  BY CapStep
<1> QED BY <1>1, InitCap, Invariance, PTL DEF Spec

\* Logins that do not overlap keep every user at or below the limit of the settings,
\* with and without auto-revocation, for every limit.
THEOREM SerialLoginsKeepTheCap ==
    ASSUME Serial
    PROVE  Spec => []SessionCap
<1>1. CapInv => SessionCap
  BY DEF CapInv
<1> QED BY <1>1, CapInvariance, PTL

\* The token a request is about to send is the one it stored.
ReplyCurrent ==
    \A r \in Requests : req[r].at = "respond" => sess[req[r].sid].hash = req[r].token

LEMMA ComesToRespond ==
    ASSUME IInv, [Next]_vars, NEW r \in Requests, req'[r].at = "respond"
    PROVE  req'[r] = req[r] \/ LoginStoreToken(r) \/ RefreshRotate(r)
<1>0. TypeOK
  BY DEF IInv
<1>1. ~Finish(r)
  BY <1>0, FinishFields
<1>2. \A step \in Steps : Goto(r, step) => step = "respond"
  BY <1>0, GotoFields
<1>3. ~LoginFindOldest(r)
  BY <1>0 DEF LoginFindOldest, Goto, TypeOK, Request
<1>4. ASSUME Advance(r) PROVE LoginStoreToken(r) \/ RefreshRotate(r)
  BY <1>1, <1>2, <1>3, <1>4
  DEF Advance, LoginBelowLimit, LoginRefused, LoginMustEvict, LoginEvict, LoginCreate,
      Respond, RefreshConcurrent, RefreshReplay, RefreshRejected,
      RefreshAccepted, ReplayRevoke, ReplayLogout, RefreshRevokeOld,
      LogoutRevokeToken
<1>5. ASSUME NEW u \in Users, NEW c \in BOOLEAN, LoginStart(r, u, c) PROVE FALSE
  <2>1. req'[r].at = "count"
    BY <1>0, <1>5 DEF LoginStart, TypeOK, Idle
  <2> QED BY <2>1
<1>6. \A s \in Sessions : ~RefreshRead(r, s) /\ ~Logout(r, s)
  BY <1>0 DEF RefreshRead, Logout, TypeOK, Idle
<1> QED BY <1>1, <1>4, <1>5, <1>6, RequestSteps DEF Arrive, RequestFails

LEMMA ReplyStep ==
    ASSUME Serial, IInv, ReplyCurrent, [Next]_vars PROVE ReplyCurrent'
<1> SUFFICES ASSUME NEW r \in Requests, req'[r].at = "respond"
             PROVE  sess'[req'[r].sid].hash = req'[r].token
  BY DEF ReplyCurrent
<1>0. TypeOK /\ RequestConsistent(r)
  BY DEF IInv, Consistent
<1>1. CASE req'[r] = req[r]
  <2>1. req[r].sid \in Created /\ sess[req[r].sid].hash = req[r].token
    BY <1>0, <1>1 DEF RequestConsistent, BeforeInsert, Created, ReplyCurrent
  <2>2. sess'[req[r].sid].hash = sess[req[r].sid].hash
    BY <1>1, <2>1, RowsEvolve DEF Serial
  <2> QED BY <1>1, <2>1, <2>2
<1>2. CASE LoginStoreToken(r) \/ RefreshRotate(r)
  <2>1. /\ req'[r].sid = req[r].sid /\ req'[r].token = req[r].token
        /\ req[r].sid \in Sessions /\ StoreToken(r)
    BY <1>0, <1>2, GotoFields DEF LoginStoreToken, RefreshRotate, RequestConsistent
  <2>2. sess'[req[r].sid].hash = req[r].token
    BY <1>0, <2>1 DEF StoreToken, TypeOK, Row
  <2> QED BY <2>1, <2>2
<1> QED BY <1>1, <1>2, ComesToRespond

LEMMA DeliveredStep ==
    ASSUME IInv, ReplyCurrent, [Next]_vars,
           NEW s \in Sessions, NEW t \in Tokens, <<s, t>> \in delivered' \ delivered
    PROVE  sess[s].hash = t
<1>1. PICK r \in Requests : Respond(r)
  BY DeliveredSteps
<1>2. s = req[r].sid /\ t = req[r].token /\ req[r].at = "respond"
  BY <1>1 DEF Respond
<1> QED BY <1>2 DEF ReplyCurrent

LEMMA ReplyInvariance == Serial => (Spec => [](IInv /\ ReplyCurrent))
<1> SUFFICES ASSUME Serial PROVE Spec => [](IInv /\ ReplyCurrent)
  OBVIOUS
<1>1. Init => ReplyCurrent
  BY DEF Init, Idle, ReplyCurrent
<1>2. IInv /\ ReplyCurrent /\ [Next]_vars => ReplyCurrent'
  BY ReplyStep
<1> QED BY <1>1, <1>2, Invariance, PTL DEF Spec

\* Where refreshes do not overlap, what a client is sent is what the row stores: its
\* next refresh is not taken for a replay.
THEOREM SerialRepliesAreCurrent ==
    ASSUME Serial
    PROVE  Spec => DeliveredIsCurrent
<1>1. ASSUME IInv, ReplyCurrent, [Next]_vars
      PROVE  [\A s \in Sessions, t \in Tokens :
                 (<<s, t>> \in delivered' \ delivered) => sess[s].hash = t]_vars
  BY <1>1, DeliveredStep
<1> QED BY <1>1, ReplyInvariance, PTL DEF Spec, DeliveredIsCurrent

-----------------------------------------------------------------------------
(* AuthSessions implements SessionLifecycle. The mapping is at its end.    *)

Abstract == <<States, TokensNow, Spent>>

-----------------------------------------------------------------------------
(* What a step does to the tokens that are spent.                            *)

\* A request that lets go of its token spends it, and nothing else is spent:
\* nobody else carries the token.
LEMMA SpentOf ==
    ASSUME IInv, TokenInv, NEW r \in Requests,
           \A q \in Requests \ {r} : req'[q] = req[q],
           minted' = minted,
           WillStore(r)' => WillStore(r) /\ req'[r].token = req[r].token
    PROVE  /\ (WillStore(r) => WillStore(r)') => Spent' = Spent
           /\ WillStore(r) /\ ~WillStore(r)' =>
                 /\ Spent' = Spent \cup {req[r].token}
                 /\ req[r].token \in Tokens \ Spent
<1> DEFINE Kept == {req[x].token : x \in {y \in Requests : WillStore(y)}}
           KeptNext == {req'[x].token : x \in {y \in Requests : WillStore(y)'}}
<1>1. Spent = minted \ Kept /\ Spent' = minted \ KeptNext
  BY DEF Spent
<1>2. \A q \in Requests \ {r} : WillStore(q)' <=> WillStore(q)
  BY DEF WillStore
<1>3. CASE WillStore(r) => WillStore(r)'
  <2>1. \A q \in Requests : WillStore(q)' <=> WillStore(q)
    BY <1>2, <1>3
  <2>2. \A q \in Requests : WillStore(q) => req'[q].token = req[q].token
    BY <1>3
  <2>3. KeptNext = Kept
    BY <2>1, <2>2
  <2>4. QED  BY <1>1, <1>3, <2>3
<1>4. CASE WillStore(r) /\ ~WillStore(r)'
  <2>1. req[r].token \in minted /\ minted \subseteq Tokens
    BY <1>4 DEF IInv, TypeOK, Consistent, RequestConsistent, WillStore
  <2>2. \A q \in Requests \ {r} : WillStore(q) => req[q].token # req[r].token
    BY <1>4 DEF TokenInv, Carries, WillStore
  <2>3. Kept = KeptNext \cup {req[r].token}
    BY <1>2, <1>4
  <2>4. req[r].token \notin KeptNext
    BY <1>2, <1>4, <2>2
  <2> HIDE DEF Kept, KeptNext
  <2>5. QED  BY <1>1, <1>4, <2>1, <2>3, <2>4
<1>5. QED  BY <1>3, <1>4

\* A step that shows nothing of the sessions is one of Void or none.
LEMMA QuietOrVoid ==
    ASSUME IInv, TokenInv, NEW r \in Requests,
           \A q \in Requests \ {r} : req'[q] = req[q],
           minted' = minted,
           WillStore(r)' => WillStore(r) /\ req'[r].token = req[r].token,
           UNCHANGED <<States, TokensNow>>
    PROVE  [Lifecycle!Next]_Abstract
<1>1. CASE WillStore(r) => WillStore(r)'
  BY <1>1, SpentOf DEF Abstract
<1>2. CASE WillStore(r) /\ ~WillStore(r)'
  <2>1. Lifecycle!Void(req[r].token) /\ req[r].token \in Tokens
    BY <1>2, SpentOf DEF Lifecycle!Void
  <2>2. QED  BY <2>1 DEF Lifecycle!Next
<1>3. QED  BY <1>1, <1>2

\* The same for the handlers that only move on, or end.
LEMMA MovesOn ==
    ASSUME IInv, TokenInv, NEW r \in Requests, NEW step \in Steps,
           Goto(r, step) \/ Finish(r), minted' = minted,
           step \in LoginSteps \cup {"decide", "revokeOld", "rotate"} => WillStore(r)
    PROVE  /\ \A q \in Requests \ {r} : req'[q] = req[q]
           /\ WillStore(r)' => WillStore(r) /\ req'[r].token = req[r].token
           /\ Goto(r, step) /\ WillStore(r) /\
                 step \in LoginSteps \cup {"decide", "revokeOld", "rotate"} => WillStore(r)'
<1>1. TypeOK
  BY DEF IInv
<1>2. CASE Goto(r, step)
  BY <1>1, <1>2, GotoFields DEF WillStore
<1>3. CASE Finish(r)
  BY <1>1, <1>3, FinishFields DEF WillStore, Goto, TypeOK, Request
<1>4. QED  BY <1>2, <1>3

-----------------------------------------------------------------------------
(* What a step does to the sessions.                                         *)

\* Whatever rows a statement revokes, it closes those that were open.
LEMMA Closes ==
    ASSUME IInv, Spent' = Spent, NEW S \in SUBSET Created,
           sess' = RevokeRows(S) \/ sess' = RevokeRowsKeepToken(S)
    PROVE  Lifecycle!Next
<1> DEFINE Open == {s \in S : sess[s].is_active}
<1>1. \A s \in Sessions : sess[s] \in Row
  BY DEF IInv, TypeOK
<1>2. ASSUME NEW s \in Sessions
      PROVE  /\ sess'[s].user = sess[s].user
             /\ sess'[s].hash = sess[s].hash
             /\ sess'[s].is_active = (sess[s].is_active /\ s \notin S)
  BY <1>1, <1>2 DEF RevokeRows, RevokeRowsKeepToken, Row
<1>3. \A s \in Open : s \in Sessions /\ States[s] = "open"
  BY DEF Created, States, StateOf
<1>4. States' = [s \in Sessions |-> IF s \in Open THEN "closed" ELSE States[s]]
  BY <1>2 DEF States, StateOf, Created
<1>5. TokensNow' = [s \in Sessions |-> IF s \in Open THEN None ELSE TokensNow[s]]
  BY <1>2 DEF TokensNow, TokenOf
<1> HIDE DEF Open
<1>6. Lifecycle!Close(Open) /\ Open \in SUBSET Sessions
  BY <1>3, <1>4, <1>5 DEF Lifecycle!Close
<1>7. QED  BY <1>6 DEF Lifecycle!Next

\* createLoginSession opens a session.
LEMMA Opens ==
    ASSUME IInv, TokenInv, NEW r \in Requests, LoginCreate(r)
    PROVE  Lifecycle!Next
<1> DEFINE s == req[r].sid
<1>0. TypeOK /\ req[r].at = "create" /\ Goto(r, "store") /\ minted' = minted
  BY DEF LoginCreate, IInv
<1>1. s \in Sessions /\ sess[s] = NoRow /\ req[r].user \in Users
  BY <1>0 DEF IInv, Consistent, RequestConsistent, RowConsistent, BeforeInsert
<1>2. Spent' = Spent
  BY <1>0, MovesOn, SpentOf DEF WillStore
<1>3. /\ sess'[s].user # None /\ sess'[s].is_active /\ sess'[s].hash = None
      /\ \A x \in Sessions \ {s} : sess'[x] = sess[x]
  BY <1>0, <1>1, IdentityAssumption DEF LoginCreate, TypeOK, NoRow
<1> HIDE DEF s
<1>4. States[s] = "unopened" /\ States' = [States EXCEPT ![s] = "open"]
  <2>1. sess[s].user = None
    BY <1>1 DEF s, NoRow
  <2>2. \A x \in Sessions : StateOf(x)' = IF x = s THEN "open" ELSE StateOf(x)
    BY <1>3 DEF StateOf
  <2>3. StateOf(s) = "unopened" /\ s \in Sessions
    BY <1>1, <2>1 DEF StateOf
  <2>4. QED  BY <2>2, <2>3 DEF States
<1>5. TokensNow' = TokensNow
  BY <1>1, <1>3 DEF TokensNow, TokenOf, NoRow
<1>6. Lifecycle!Open(s)
  BY <1>2, <1>4, <1>5 DEF Lifecycle!Open
<1>7. QED  BY <1>1, <1>6 DEF Lifecycle!Next

\* A token stored in an open session is issued; in a closed one it is void.
LEMMA Issues ==
    ASSUME IInv, TokenInv, NEW r \in Requests, LoginStoreToken(r) \/ RefreshRotate(r)
    PROVE  Lifecycle!Next
<1> DEFINE s == req[r].sid
           t == req[r].token
<1>0. /\ TypeOK /\ WillStore(r) /\ StoreToken(r)
      /\ Goto(r, "respond") /\ minted' = minted
  BY DEF LoginStoreToken, RefreshRotate, IInv, WillStore
<1>1. s \in Sessions /\ sess[s] \in Row /\ sess[s].user # None
  BY DEF IInv, TypeOK, Consistent, RequestConsistent, LoginStoreToken, RefreshRotate,
         BeforeInsert
<1>2. ~WillStore(r)'
  BY <1>0, GotoFields DEF WillStore
<1>3. Spent' = Spent \cup {t} /\ t \in Tokens \ Spent
  BY <1>0, <1>2, MovesOn, SpentOf
<1>4. /\ sess'[s].user = sess[s].user /\ sess'[s].is_active = sess[s].is_active
      /\ sess'[s].hash = t
      /\ \A x \in Sessions \ {s} : sess'[x] = sess[x]
  BY <1>0, <1>1 DEF StoreToken, TypeOK, Row
<1> HIDE DEF s, t
<1>5. States' = States
  BY <1>4 DEF States, StateOf
<1>6. CASE sess[s].is_active
  <2>1. States[s] = "open"
    BY <1>1, <1>6 DEF States, StateOf
  <2>2. TokensNow' = [TokensNow EXCEPT ![s] = t]
    BY <1>1, <1>4, <1>6 DEF TokensNow, TokenOf
  <2>3. Lifecycle!Issue(s, t)
    BY <1>3, <1>5, <2>1, <2>2 DEF Lifecycle!Issue
  <2>4. QED  BY <1>1, <1>3, <2>3 DEF Lifecycle!Next
<1>7. CASE ~sess[s].is_active
  <2>1. TokensNow' = TokensNow
    BY <1>4, <1>7 DEF TokensNow, TokenOf
  <2>2. Lifecycle!Void(t)
    BY <1>3, <1>5, <2>1 DEF Lifecycle!Void
  <2>3. QED  BY <1>3, <2>2 DEF Lifecycle!Next
<1>8. QED  BY <1>6, <1>7

\* Revoking the token column of a row shows nothing.
LEMMA TokenRevocationHidden ==
    ASSUME IInv, NEW s \in Sessions,
           sess' = [sess EXCEPT ![s].hash_revoked_at = now]
    PROVE  UNCHANGED <<States, TokensNow>>
<1>1. \A x \in Sessions : sess[x] \in Row
  BY DEF IInv, TypeOK
<1>2. \A x \in Sessions : /\ sess'[x].user = sess[x].user
                          /\ sess'[x].is_active = sess[x].is_active
                          /\ sess'[x].hash = sess[x].hash
  BY <1>1 DEF IInv, TypeOK, Row
<1>3. QED  BY <1>2 DEF States, StateOf, TokensNow, TokenOf

-----------------------------------------------------------------------------
(* The steps.                                                                *)

LEMMA AdvanceMaps ==
    ASSUME IInv, TokenInv, NEW r \in Requests, Advance(r)
    PROVE  [Lifecycle!Next]_Abstract
<1>0. TypeOK /\ RequestConsistent(r)
  BY DEF IInv, Consistent
<1>1. ASSUME UNCHANGED sess PROVE UNCHANGED <<States, TokensNow>>
  BY <1>1 DEF States, StateOf, TokensNow, TokenOf
<1>2. CASE LoginBelowLimit(r) \/ LoginMustEvict(r) \/ RefreshAccepted(r)
  <2>1. PICK step \in {"create", "oldest", "revokeOld"} :
           Goto(r, step) /\ WillStore(r) /\ minted' = minted /\ UNCHANGED sess
    BY <1>2 DEF LoginBelowLimit, LoginMustEvict, RefreshAccepted, WillStore
  <2>2. QED  BY <1>1, <2>1, MovesOn, QuietOrVoid
<1>3. CASE \/ LoginRefused(r) \/ Respond(r) \/ RefreshConcurrent(r)
           \/ RefreshRejected(r)
  <2>1. Finish(r) /\ minted' = minted /\ UNCHANGED sess /\ "idle" \in Steps
    BY <1>3 DEF LoginRefused, Respond, RefreshConcurrent, RefreshRejected
  <2>2. QED  BY <1>1, <2>1, MovesOn, QuietOrVoid
<1>4. CASE RefreshReplay(r)
  <2>1. PICK step \in {"replayRevoke", "replayLogout"} :
           (Goto(r, step) \/ Finish(r)) /\ minted' = minted /\ UNCHANGED sess
    BY <1>4 DEF RefreshReplay
  <2>2. QED  BY <1>1, <2>1, MovesOn, QuietOrVoid
<1>5. CASE LoginFindOldest(r)
  <2>1. /\ \A q \in Requests \ {r} : req'[q] = req[q]
        /\ minted' = minted /\ UNCHANGED sess
        /\ WillStore(r) /\ req'[r].token = req[r].token
    BY <1>0, <1>5, GotoFields DEF LoginFindOldest, WillStore, TypeOK, Request
  <2>2. QED  BY <1>1, <2>1, QuietOrVoid
<1>6. CASE LoginEvict(r)
  <2>1. /\ Goto(r, "create") /\ WillStore(r) /\ minted' = minted
        /\ sess' = RevokeRows({req[r].victim}) /\ {req[r].victim} \in SUBSET Created
    BY <1>0, <1>6 DEF LoginEvict, WillStore, RequestConsistent, Created
  <2>2. Spent' = Spent
    BY <2>1, MovesOn, SpentOf
  <2>3. QED  BY <2>1, <2>2, Closes
<1>7. CASE ReplayRevoke(r) \/ ReplayLogout(r)
  <2>1. /\ ~WillStore(r) /\ minted' = minted
        /\ Goto(r, "replayLogout") \/ Finish(r)
    BY <1>7 DEF ReplayRevoke, ReplayLogout, WillStore
  <2>2. Spent' = Spent
    BY <2>1, MovesOn, SpentOf
  <2>3. PICK S \in SUBSET Created : sess' = RevokeRows(S)
    <3>1. CASE ReplayRevoke(r)
      <4>1. {req[r].sid} \in SUBSET Created
        BY <1>0, <3>1 DEF ReplayRevoke, RequestConsistent, BeforeInsert, Created
      <4>2. QED  BY <3>1, <4>1 DEF ReplayRevoke
    <3>2. CASE ReplayLogout(r)
      <4>1. {s \in SessionsOf(req[r].user) : sess[s].is_active} \in SUBSET Created
        BY DEF IInv, Consistent, RowConsistent, SessionsOf, Created, NoRow
      <4>2. QED  BY <3>2, <4>1 DEF ReplayLogout
    <3>3. QED  BY <1>7, <3>1, <3>2
  <2>4. QED  BY <2>2, <2>3, Closes
<1>8. CASE LoginCreate(r)
  BY <1>8, Opens
<1>9. CASE LoginStoreToken(r) \/ RefreshRotate(r)
  BY <1>9, Issues
<1>10. CASE RefreshRevokeOld(r)
  <2>1. /\ Goto(r, "rotate") /\ WillStore(r) /\ minted' = minted
        /\ sess' = [sess EXCEPT ![req[r].sid].hash_revoked_at = now]
        /\ req[r].sid \in Sessions
    BY <1>0, <1>10 DEF RefreshRevokeOld, RequestConsistent, WillStore
  <2>2. QED  BY <2>1, MovesOn, TokenRevocationHidden, QuietOrVoid
<1>11. CASE LogoutRevokeToken(r)
  <2>1. /\ Finish(r) /\ minted' = minted /\ "idle" \in Steps
        /\ sess' = [sess EXCEPT ![req[r].sid].hash_revoked_at = now]
        /\ req[r].sid \in Sessions
    BY <1>0, <1>11 DEF LogoutRevokeToken, RequestConsistent
  <2>2. QED  BY <2>1, MovesOn, TokenRevocationHidden, QuietOrVoid
<1>12. QED
  BY <1>2, <1>3, <1>4, <1>5, <1>6, <1>7, <1>8, <1>9, <1>10, <1>11 DEF Advance

LEMMA ArriveMaps ==
    ASSUME IInv, TokenInv, NEW r \in Requests, Arrive(r)
    PROVE  [Lifecycle!Next]_Abstract
<1>0. TypeOK
  BY DEF IInv
<1>1. ASSUME NEW t \in FreshTokens, NEW new, req' = [req EXCEPT ![r] = new],
             new.at \in {"count", "decide"}, new.token = t, req[r].at = "idle",
             minted' = minted \cup {t}, UNCHANGED sess
      PROVE  UNCHANGED Abstract
  <2>1. \A q \in Requests \ {r} : req'[q] = req[q] /\ (WillStore(q)' <=> WillStore(q))
    BY <1>0, <1>1 DEF TypeOK, WillStore
  <2>2. req'[r].token = t /\ WillStore(r)' /\ ~WillStore(r) /\ t \notin minted
    BY <1>0, <1>1 DEF TypeOK, WillStore, FreshTokens
  <2> DEFINE Kept == {req[x].token : x \in {y \in Requests : WillStore(y)}}
             KeptNext == {req'[x].token : x \in {y \in Requests : WillStore(y)'}}
  <2>3. KeptNext = Kept \cup {t}
    BY <2>1, <2>2
  <2>4. Spent = minted \ Kept /\ Spent' = minted' \ KeptNext
    BY DEF Spent
  <2> HIDE DEF Kept, KeptNext
  <2>5. Spent' = Spent
    BY <1>1, <2>2, <2>3, <2>4
  <2>6. QED  BY <1>1, <2>5 DEF Abstract, States, StateOf, TokensNow, TokenOf
<1>2. ASSUME NEW u \in Users, NEW confirm \in BOOLEAN, LoginStart(r, u, confirm)
      PROVE  UNCHANGED Abstract
  <2>1. PICK s \in FreshSessions, t \in FreshTokens :
           /\ req' = [req EXCEPT ![r] = [Idle EXCEPT !.at = "count", !.user = u,
                         !.confirm = confirm, !.sid = s, !.token = t]]
           /\ minted' = minted \cup {t}
    BY <1>2 DEF LoginStart
  <2>2. req[r].at = "idle" /\ UNCHANGED sess
    BY <1>2 DEF LoginStart
  <2> DEFINE new == [Idle EXCEPT !.at = "count", !.user = u,
                         !.confirm = confirm, !.sid = s, !.token = t]
  <2>3. new.at = "count" /\ new.token = t
    BY DEF Idle
  <2>4. req' = [req EXCEPT ![r] = new] /\ minted' = minted \cup {t}
    BY <2>1
  <2> HIDE DEF new
  <2>5. QED  BY <1>1, <2>2, <2>3, <2>4
<1>3. ASSUME NEW s \in Sessions, RefreshRead(r, s)
      PROVE  UNCHANGED Abstract
  <2>1. PICK t \in FreshTokens :
           /\ req' = [req EXCEPT ![r] = [Idle EXCEPT !.at = "decide",
                         !.user = sess[s].user, !.sid = s, !.token = t,
                         !.snap = sess[s]]]
           /\ minted' = minted \cup {t}
    BY <1>3 DEF RefreshRead
  <2>2. req[r].at = "idle" /\ UNCHANGED sess
    BY <1>3 DEF RefreshRead
  <2> DEFINE new == [Idle EXCEPT !.at = "decide", !.user = sess[s].user,
                         !.sid = s, !.token = t, !.snap = sess[s]]
  <2>3. new.at = "decide" /\ new.token = t
    BY DEF Idle
  <2>4. req' = [req EXCEPT ![r] = new] /\ minted' = minted \cup {t}
    BY <2>1
  <2> HIDE DEF new
  <2>5. QED  BY <1>1, <2>2, <2>3, <2>4
<1>4. ASSUME NEW s \in Sessions, Logout(r, s)
      PROVE  Lifecycle!Next
  <2>1. /\ \A q \in Requests \ {r} : req'[q] = req[q]
        /\ ~WillStore(r) /\ ~WillStore(r)' /\ minted' = minted
    BY <1>0, <1>4 DEF Logout, TypeOK, WillStore, Idle
  <2>2. Spent' = Spent
    BY <2>1, SpentOf
  <2>3. {s} \in SUBSET Created /\ sess' = RevokeRows({s})
    BY <1>4 DEF Logout, IInv, Consistent, Created
  <2>4. QED  BY <2>2, <2>3, Closes
<1>5. QED  BY <1>2, <1>3, <1>4 DEF Arrive

\* Every step maps to a step of SessionLifecycle, or to none.
LEMMA StepMaps ==
    ASSUME IInv, TokenInv, [Next]_vars PROVE [Lifecycle!Next]_Abstract
<1>1. ASSUME NEW r \in Requests, RequestFails(r) PROVE [Lifecycle!Next]_Abstract
  <2>1. Finish(r) /\ minted' = minted /\ UNCHANGED sess /\ "idle" \in Steps
    BY <1>1 DEF RequestFails
  <2>2. UNCHANGED <<States, TokensNow>>
    BY <2>1 DEF States, StateOf, TokensNow, TokenOf
  <2>3. QED  BY <2>1, <2>2, MovesOn, QuietOrVoid
<1>2. ASSUME UNCHANGED <<req, minted>> PROVE Spent' = Spent
  BY <1>2 DEF Spent, WillStore
<1>3. ASSUME UNCHANGED <<sess, req, minted>> PROVE UNCHANGED Abstract
  BY <1>2, <1>3 DEF Abstract, States, StateOf, TokensNow, TokenOf
<1>4. CASE Administer
  <2>1. UNCHANGED <<req, minted>>
    BY <1>4, AdministerRevokes DEF Others
  <2>2. CASE UNCHANGED sess
    BY <1>3, <2>1, <2>2
  <2>3. CASE \E S \in SUBSET Created :
                sess' = RevokeRows(S) \/ sess' = RevokeRowsKeepToken(S)
    BY <1>2, <2>1, <2>3, Closes
  <2>4. QED  BY <1>4, <2>2, <2>3, AdministerRevokes
<1>5. CASE Tick \/ UNCHANGED vars
  BY <1>3, <1>5 DEF Tick, vars
<1>6. QED  BY <1>1, <1>4, <1>5, AdvanceMaps, ArriveMaps DEF Next

LEMMA InitMaps == Init => Lifecycle!Init
BY DEF Init, Lifecycle!Init, States, StateOf, TokensNow, TokenOf, Spent, NoRow

\* For any number of requests, sessions and tokens, and whatever overlaps, fails
\* or comes late, the sessions behave as the abstract specification promises.
THEOREM AuthSessionsImplementsLifecycle == Spec => ImplementsLifecycle
<1>1. IInv /\ TokenInv /\ [Next]_vars => [Lifecycle!Next]_Abstract
  BY StepMaps
<1>2. QED
  BY <1>1, InitMaps, TokenInvariance, PTL
  DEF Spec, ImplementsLifecycle, Lifecycle!Spec, Abstract
==============================================================================
