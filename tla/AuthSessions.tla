---------------------------- MODULE AuthSessions ----------------------------
(***************************************************************************)
(* Login sessions and refresh tokens: auth-core.service.ts (login, refresh,*)
(* logout) over auth.tbl_Login_Sessions, together with every other         *)
(* statement of the program that revokes a session.                        *)
(*                                                                         *)
(* Each SQL statement of a handler autocommits and each await between two  *)
(* statements lets other requests run, so a request is a small state       *)
(* machine (req) and a step is one statement, with the plain code up to the*)
(* next statement. Handlers whose state change is one statement or one     *)
(* transaction are single actions.                                         *)
(***************************************************************************)
EXTENDS Integers, FiniteSets

CONSTANTS
    Users,
    Requests,                \* requests the server executes at the same time
    Sessions,                \* login_session_id values (crypto.randomUUID)
    Tokens,                  \* refresh token values (crypto.randomBytes(64))
    None,                    \* SQL NULL
    AllowMultipleSessions,   \* the security settings (getSettings)
    MaxConcurrentSessions,
    AutoRevokeOldestSession,
    EnableReplayDetection,
    ReplayActionRevoke,
    ReplayActionLogout,
    RefreshTokenLifetime,
    GracePeriod,             \* the 30 seconds of refresh()
    MaxTime                  \* bound of the model: the last clock reading

ASSUME SettingsAssumption ==
    /\ AllowMultipleSessions \in BOOLEAN
    /\ AutoRevokeOldestSession \in BOOLEAN
    /\ EnableReplayDetection \in BOOLEAN
    /\ ReplayActionRevoke \in BOOLEAN
    /\ ReplayActionLogout \in BOOLEAN
    /\ MaxConcurrentSessions \in Nat \ {0}
    /\ RefreshTokenLifetime \in Nat \ {0}
    /\ GracePeriod \in Nat
    /\ MaxTime \in Nat

ASSUME IdentityAssumption ==
    /\ IsFiniteSet(Sessions)
    /\ IsFiniteSet(Requests)
    /\ None \notin Users
    /\ None \notin Sessions
    /\ None \notin Tokens
    /\ None \notin Nat

VARIABLES
    now,          \* SYSUTCDATETIME() and Date.now()
    active,       \* tbl_Users.is_active
    sess,         \* tbl_Login_Sessions, user = None where there is no row
    inserts,      \* rows inserted so far, the order of login_at
    req,          \* the requests in execution
    minted,       \* token values generated so far
    delivered,    \* <<session, token>> pairs sent in a response
    interrupted   \* sessions a rotation of which failed half-way

vars == <<now, active, sess, inserts, req, minted, delivered, interrupted>>

-----------------------------------------------------------------------------
\* A row of tbl_Login_Sessions. revoked is "revoked_at IS NOT NULL".
Row == [user : Users \cup {None}, is_active : BOOLEAN, revoked : BOOLEAN,
        login_at : Nat, expires_at : Nat, hash : Tokens \cup {None},
        hash_expires : Nat, hash_revoked_at : Nat \cup {None}]

NoRow == [user |-> None, is_active |-> FALSE, revoked |-> FALSE,
          login_at |-> 0, expires_at |-> 0, hash |-> None,
          hash_expires |-> 0, hash_revoked_at |-> None]

\* Where a request stands: the statement it executes next.
LoginSteps   == {"count", "oldest", "evict", "create", "store"}
RefreshSteps == {"decide", "replayRevoke", "replayLogout", "revokeOld", "rotate"}
Steps == {"idle", "respond", "logoutToken"} \cup LoginSteps \cup RefreshSteps

\* The local variables of a handler; snap is the row refresh() read.
Request == [at : Steps, user : Users \cup {None}, confirm : BOOLEAN,
            sid : Sessions \cup {None}, token : Tokens \cup {None},
            victim : Sessions \cup {None}, snap : Row]

Idle == [at |-> "idle", user |-> None, confirm |-> FALSE, sid |-> None,
         token |-> None, victim |-> None, snap |-> NoRow]

-----------------------------------------------------------------------------
Created == {s \in Sessions : sess[s].user # None}

SessionsOf(u) == {s \in Sessions : sess[s].user = u}

\* The rows getActiveSessionCount counts and getOldestActiveSession orders.
LiveSessions(u) ==
    {s \in SessionsOf(u) : /\ sess[s].is_active
                           /\ ~sess[s].revoked
                           /\ sess[s].expires_at > now}

OldestLive(u) ==
    {s \in LiveSessions(u) :
        \A x \in LiveSessions(u) : sess[s].login_at <= sess[x].login_at}

\* The number of sessions login() lets a user reach.
SessionLimit == IF AllowMultipleSessions THEN MaxConcurrentSessions ELSE 1

\* Mutant: the limit compared with > instead of >=.
LimitReachedLate(u) == Cardinality(LiveSessions(u)) > SessionLimit

LimitReached(u) == Cardinality(LiveSessions(u)) >= SessionLimit

FreshSessions ==
    {s \in Sessions : /\ sess[s].user = None
                      /\ \A r \in Requests : req[r].sid # s}

\* Mutant: a token generator that repeats itself.
AnyTokens == Tokens

FreshTokens == Tokens \ minted

\* revokeSession and revokeAllSessionsForUser: all three columns at once.
RevokeRows(S) ==
    [s \in Sessions |->
        IF s \in S
        THEN [sess[s] EXCEPT !.is_active = FALSE, !.revoked = TRUE,
                             !.hash_revoked_at = now]
        ELSE sess[s]]

\* revokeAllUserSessions of the users repository leaves the token column alone.
RevokeRowsKeepToken(S) ==
    [s \in Sessions |->
        IF s \in S
        THEN [sess[s] EXCEPT !.is_active = FALSE, !.revoked = TRUE]
        ELSE sess[s]]

Goto(r, step) == req' = [req EXCEPT ![r].at = step]

Finish(r) == req' = [req EXCEPT ![r] = Idle]

-----------------------------------------------------------------------------
Init ==
    /\ now = 0
    /\ active = [u \in Users |-> TRUE]
    /\ sess = [s \in Sessions |-> NoRow]
    /\ inserts = 0
    /\ req = [r \in Requests |-> Idle]
    /\ minted = {}
    /\ delivered = {}
    /\ interrupted = {}

-----------------------------------------------------------------------------
(* login(). The user row is read with is_active = 1; the credential phase  *)
(* either refuses or goes on (LoginLockout models it).                     *)

\* Mutant: the user row is read without is_active = 1.
LoginStartAnyUser(r, u, confirm) ==
    /\ req[r].at = "idle"
    /\ \E s \in FreshSessions, t \in FreshTokens :
          /\ req' = [req EXCEPT ![r] = [Idle EXCEPT !.at = "count", !.user = u,
                        !.confirm = confirm, !.sid = s, !.token = t]]
          /\ minted' = minted \cup {t}
    /\ UNCHANGED <<now, active, sess, inserts, delivered, interrupted>>

LoginStart(r, u, confirm) ==
    /\ req[r].at = "idle"
    /\ active[u]
    /\ \E s \in FreshSessions, t \in FreshTokens :
          /\ req' = [req EXCEPT ![r] = [Idle EXCEPT !.at = "count", !.user = u,
                        !.confirm = confirm, !.sid = s, !.token = t]]
          /\ minted' = minted \cup {t}
    /\ UNCHANGED <<now, active, sess, inserts, delivered, interrupted>>

\* getActiveSessionCount and the branches on it.
LoginBelowLimit(r) ==
    /\ req[r].at = "count"
    /\ ~LimitReached(req[r].user)
    /\ Goto(r, "create")
    /\ UNCHANGED <<now, active, sess, inserts, minted, delivered, interrupted>>

LoginRefused(r) ==      \* 403 MAX_SESSIONS_REACHED or 409 CONFIRM_REVOKE_OLDEST
    /\ req[r].at = "count"
    /\ LimitReached(req[r].user)
    /\ ~(AutoRevokeOldestSession /\ req[r].confirm)
    /\ Finish(r)
    /\ UNCHANGED <<now, active, sess, inserts, minted, delivered, interrupted>>

LoginMustEvict(r) ==
    /\ req[r].at = "count"
    /\ LimitReached(req[r].user)
    /\ AutoRevokeOldestSession
    /\ req[r].confirm
    /\ Goto(r, "oldest")
    /\ UNCHANGED <<now, active, sess, inserts, minted, delivered, interrupted>>

LoginFindOldest(r) ==
    /\ req[r].at = "oldest"
    /\ \/ /\ OldestLive(req[r].user) = {}
          /\ Goto(r, "create")
       \/ \E s \in OldestLive(req[r].user) :
             req' = [req EXCEPT ![r] = [@ EXCEPT !.at = "evict", !.victim = s]]
    /\ UNCHANGED <<now, active, sess, inserts, minted, delivered, interrupted>>

LoginEvict(r) ==
    /\ req[r].at = "evict"
    /\ sess' = RevokeRows({req[r].victim})
    /\ Goto(r, "create")
    /\ UNCHANGED <<now, active, inserts, minted, delivered, interrupted>>

LoginCreate(r) ==
    /\ req[r].at = "create"
    /\ sess' = [sess EXCEPT ![req[r].sid] =
                   [NoRow EXCEPT !.user = req[r].user, !.is_active = TRUE,
                                 !.login_at = inserts,
                                 !.expires_at = now + RefreshTokenLifetime]]
    /\ inserts' = inserts + 1
    /\ Goto(r, "store")
    /\ UNCHANGED <<now, active, minted, delivered, interrupted>>

\* Mutant: the old token's revocation is not cleared.
StoreTokenStaysRevoked(r) ==
    sess' = [sess EXCEPT ![req[r].sid].hash = req[r].token,
                         ![req[r].sid].hash_expires = now + RefreshTokenLifetime]

\* Mutant: the hash is not replaced once there is one.
StoreTokenOnce(r) ==
    sess' = [sess EXCEPT ![req[r].sid].hash = IF @ = None THEN req[r].token ELSE @,
                         ![req[r].sid].hash_expires = now + RefreshTokenLifetime,
                         ![req[r].sid].hash_revoked_at = None]

\* Mutant: a rotation opens the session again.
StoreTokenReopens(r) ==
    sess' = [sess EXCEPT ![req[r].sid].is_active = TRUE,
                         ![req[r].sid].hash = req[r].token,
                         ![req[r].sid].hash_expires = now + RefreshTokenLifetime,
                         ![req[r].sid].hash_revoked_at = None]

\* updateRefreshToken and rotateRefreshToken write the same three columns.
StoreToken(r) ==
    sess' = [sess EXCEPT ![req[r].sid].hash = req[r].token,
                         ![req[r].sid].hash_expires = now + RefreshTokenLifetime,
                         ![req[r].sid].hash_revoked_at = None]

LoginStoreToken(r) ==
    /\ req[r].at = "store"
    /\ StoreToken(r)
    /\ Goto(r, "respond")
    /\ UNCHANGED <<now, active, inserts, minted, delivered, interrupted>>

\* The tail of login() and of refresh(): claims are read, the JWT is signed,
\* history is written, and the client receives the refresh token.
Respond(r) ==
    /\ req[r].at = "respond"
    /\ delivered' = delivered \cup {<<req[r].sid, req[r].token>>}
    /\ Finish(r)
    /\ UNCHANGED <<now, active, sess, inserts, minted, interrupted>>

-----------------------------------------------------------------------------
(* refresh(). A client presents a token it was once sent.                  *)

RefreshRead(r, s) ==
    /\ req[r].at = "idle"
    /\ sess[s].hash # None
    /\ <<s, sess[s].hash>> \in delivered
    /\ \E t \in FreshTokens :
          /\ req' = [req EXCEPT ![r] = [Idle EXCEPT !.at = "decide",
                        !.user = sess[s].user, !.sid = s, !.token = t,
                        !.snap = sess[s]]]
          /\ minted' = minted \cup {t}
    /\ UNCHANGED <<now, active, sess, inserts, delivered, interrupted>>

ReplaySuspected(r) ==
    /\ EnableReplayDetection
    /\ req[r].snap.hash_revoked_at # None

RefreshConcurrent(r) ==                           \* 409 CONCURRENT_REFRESH
    /\ req[r].at = "decide"
    /\ ReplaySuspected(r)
    /\ now - req[r].snap.hash_revoked_at < GracePeriod
    /\ Finish(r)
    /\ UNCHANGED <<now, active, sess, inserts, minted, delivered, interrupted>>

RefreshReplay(r) ==                               \* 403 REFRESH_TOKEN_REPLAY
    /\ req[r].at = "decide"
    /\ ReplaySuspected(r)
    /\ now - req[r].snap.hash_revoked_at >= GracePeriod
    /\ \/ ReplayActionRevoke /\ Goto(r, "replayRevoke")
       \/ ~ReplayActionRevoke /\ ReplayActionLogout /\ Goto(r, "replayLogout")
       \/ ~ReplayActionRevoke /\ ~ReplayActionLogout /\ Finish(r)
    /\ UNCHANGED <<now, active, sess, inserts, minted, delivered, interrupted>>

ReplayRevoke(r) ==
    /\ req[r].at = "replayRevoke"
    /\ sess' = RevokeRows({req[r].sid})
    /\ IF ReplayActionLogout THEN Goto(r, "replayLogout") ELSE Finish(r)
    /\ UNCHANGED <<now, active, inserts, minted, delivered, interrupted>>

ReplayLogout(r) ==
    /\ req[r].at = "replayLogout"
    /\ sess' = RevokeRows({s \in SessionsOf(req[r].user) : sess[s].is_active})
    /\ Finish(r)
    /\ UNCHANGED <<now, active, inserts, minted, delivered, interrupted>>

\* The four tests of refresh() on the row it read, at the time it decides.
Refreshable(r) ==
    /\ req[r].snap.is_active
    /\ ~req[r].snap.revoked
    /\ req[r].snap.expires_at > now
    /\ req[r].snap.hash_expires > now

RefreshRejected(r) ==                             \* 401
    /\ req[r].at = "decide"
    /\ ~ReplaySuspected(r)
    /\ ~Refreshable(r)
    /\ Finish(r)
    /\ UNCHANGED <<now, active, sess, inserts, minted, delivered, interrupted>>

RefreshAccepted(r) ==
    /\ req[r].at = "decide"
    /\ ~ReplaySuspected(r)
    /\ Refreshable(r)
    /\ Goto(r, "revokeOld")
    /\ UNCHANGED <<now, active, sess, inserts, minted, delivered, interrupted>>

RefreshRevokeOld(r) ==
    /\ req[r].at = "revokeOld"
    /\ sess' = [sess EXCEPT ![req[r].sid].hash_revoked_at = now]
    /\ Goto(r, "rotate")
    /\ UNCHANGED <<now, active, inserts, minted, delivered, interrupted>>

RefreshRotate(r) ==
    /\ req[r].at = "rotate"
    /\ StoreToken(r)
    /\ Goto(r, "respond")
    /\ UNCHANGED <<now, active, inserts, minted, delivered, interrupted>>

-----------------------------------------------------------------------------
(* logout(): two statements, for a session whose access token was sent.    *)

Logout(r, s) ==
    /\ req[r].at = "idle"
    /\ \E t \in minted : <<s, t>> \in delivered
    /\ sess' = RevokeRows({s})
    /\ req' = [req EXCEPT ![r] = [Idle EXCEPT !.at = "logoutToken", !.sid = s]]
    /\ UNCHANGED <<now, active, inserts, minted, delivered, interrupted>>

LogoutRevokeToken(r) ==
    /\ req[r].at = "logoutToken"
    /\ sess' = [sess EXCEPT ![req[r].sid].hash_revoked_at = now]
    /\ Finish(r)
    /\ UNCHANGED <<now, active, inserts, minted, delivered, interrupted>>

\* A statement of a handler fails, or the process dies: the rest never runs.
RequestFails(r) ==
    /\ req[r].at # "idle"
    /\ Finish(r)
    /\ interrupted' = IF req[r].at = "rotate"
                      THEN interrupted \cup {req[r].sid}
                      ELSE interrupted
    /\ UNCHANGED <<now, active, sess, inserts, minted, delivered>>

-----------------------------------------------------------------------------
(* The other handlers that revoke sessions.                                *)

Others == <<now, inserts, req, minted, delivered, interrupted>>

\* DELETE /auth/sessions/:id and the administrator's revokeSession. The
\* first refuses the caller's own session and another user's; the caller may
\* hold any other session, so what is left is: some created row.
RevokeOne(s) ==
    /\ s \in Created
    /\ sess[s].is_active \/ ~sess[s].revoked
    /\ sess' = RevokeRows({s})
    /\ UNCHANGED <<active, Others>>

\* POST /auth/sessions/revoke-all from session cur.
RevokeAllOthers(cur) ==
    /\ \E t \in minted : <<cur, t>> \in delivered
    /\ sess' = RevokeRows({s \in SessionsOf(sess[cur].user) \ {cur} :
                              sess[s].is_active})
    /\ UNCHANGED <<active, Others>>

RevokeAllForUser(u) ==
    /\ sess' = RevokeRows({s \in SessionsOf(u) :
                              sess[s].is_active \/ ~sess[s].revoked})
    /\ UNCHANGED <<active, Others>>

RevokeSystemWide ==
    /\ sess' = RevokeRows({s \in Created : sess[s].is_active})
    /\ UNCHANGED <<active, Others>>

UserSessionsStillOpen(u) ==
    {s \in SessionsOf(u) : sess[s].is_active /\ ~sess[s].revoked}

\* resetPassword() as far as sessions go.
ResetPassword(u) ==
    /\ sess' = RevokeRowsKeepToken(UserSessionsStillOpen(u))
    /\ UNCHANGED <<active, Others>>

\* deactivate() and softDelete(): one transaction; a second call returns early.
Deactivate(u) ==
    /\ active[u]
    /\ active' = [active EXCEPT ![u] = FALSE]
    /\ sess' = RevokeRowsKeepToken(UserSessionsStillOpen(u))
    /\ UNCHANGED Others

Activate(u) ==
    /\ ~active[u]
    /\ active' = [active EXCEPT ![u] = TRUE]
    /\ UNCHANGED <<sess, Others>>

Tick ==
    /\ now < MaxTime
    /\ now' = now + 1
    /\ UNCHANGED <<active, sess, inserts, req, minted, delivered, interrupted>>

-----------------------------------------------------------------------------
\* What the server does on its own once a request has started.
Advance(r) ==
    \/ LoginBelowLimit(r) \/ LoginRefused(r) \/ LoginMustEvict(r)
    \/ LoginFindOldest(r) \/ LoginEvict(r) \/ LoginCreate(r)
    \/ LoginStoreToken(r) \/ Respond(r)
    \/ RefreshConcurrent(r) \/ RefreshReplay(r) \/ RefreshRejected(r)
    \/ RefreshAccepted(r) \/ ReplayRevoke(r) \/ ReplayLogout(r)
    \/ RefreshRevokeOld(r) \/ RefreshRotate(r) \/ LogoutRevokeToken(r)

\* What clients, administrators, time and failures do.
Arrive(r) ==
    \/ \E u \in Users, confirm \in BOOLEAN : LoginStart(r, u, confirm)
    \/ \E s \in Sessions : RefreshRead(r, s) \/ Logout(r, s)

Administer ==
    \/ \E s \in Sessions : RevokeOne(s) \/ RevokeAllOthers(s)
    \/ \E u \in Users : \/ RevokeAllForUser(u) \/ ResetPassword(u)
                        \/ Deactivate(u) \/ Activate(u)
    \/ RevokeSystemWide

Next ==
    \/ \E r \in Requests : Advance(r) \/ Arrive(r) \/ RequestFails(r)
    \/ Administer
    \/ Tick

Spec == Init /\ [][Next]_vars

-----------------------------------------------------------------------------
(* What must hold of it.                                                   *)

\* Every variable keeps its type: rows, requests and tokens are well formed.
TypeOK ==
    /\ now \in Nat
    /\ active \in [Users -> BOOLEAN]
    /\ sess \in [Sessions -> Row]
    /\ inserts \in Nat
    /\ req \in [Requests -> Request]
    /\ minted \subseteq Tokens
    /\ delivered \subseteq Sessions \X Tokens
    /\ interrupted \subseteq Sessions

\* A login owns a session id nobody else uses until it inserts the row; every
\* other request works on a row that exists; the eviction steps are reached
\* under auto-revocation only.
BeforeInsert == {"count", "oldest", "evict", "create"}

RequestConsistent(r) ==
    /\ req[r].at # "idle" => req[r].sid \in Sessions
    /\ req[r].at \notin {"idle", "logoutToken"} => req[r].token \in minted
    /\ req[r].at \in BeforeInsert =>
          /\ req[r].user \in Users
          /\ sess[req[r].sid].user = None
          /\ \A q \in Requests \ {r} : req[q].sid # req[r].sid
    /\ req[r].at \notin BeforeInsert \cup {"idle"} => sess[req[r].sid].user # None
    /\ req[r].at \in {"oldest", "evict"} => AutoRevokeOldestSession
    /\ req[r].at = "evict" =>
          req[r].victim \in Sessions /\ sess[req[r].victim].user # None

\* Without a user there is no row; a row is active exactly while revoked_at is
\* NULL, although some statements test one column and some the other.
RowConsistent(s) ==
    /\ sess[s].user = None => sess[s] = NoRow
    /\ sess[s].user # None => sess[s].is_active = ~sess[s].revoked

Consistent ==
    /\ \A r \in Requests : RequestConsistent(r)
    /\ \A s \in Sessions : RowConsistent(s)
    /\ \A p \in delivered : sess[p[1]].user # None

\* Logins that counted the sessions and were let through, row not yet there.
Admitted(u) == {r \in Requests : req[r].at = "create" /\ req[r].user = u}

\* Without auto-revocation the count-then-insert of login() can be overtaken,
\* but only by as many sessions as there were other logins between the count
\* and the insert: the overshoot never accumulates.
OvershootBound ==
    ~AutoRevokeOldestSession =>
        \A u \in Users :
            Cardinality(LiveSessions(u)) + Cardinality(Admitted(u))
                <= SessionLimit - 1 + Cardinality(Requests)

\* The settings promise at most SessionLimit concurrent sessions per user.
SessionCap ==
    \A u \in Users : Cardinality(LiveSessions(u)) <= SessionLimit

\* findSessionByRefreshTokenHash takes TOP 1: no hash is ever in two rows.
HashIdentifiesSession ==
    \A s1, s2 \in Sessions :
        (s1 # s2 /\ sess[s1].hash # None) => sess[s1].hash # sess[s2].hash

\* A session in use carries a revoked token only while a rotation of it is
\* between its two statements or after one failed there, so the owner of a live
\* session is taken for a replay for no other reason. (The token of a session that
\* was logged out, evicted or revoked is a revoked token too: presented after
\* GracePeriod it takes the same branch, RefreshReplay, and ReplayLogout ends the
\* sessions of its user. Such a session is not active, and not what is claimed.)
RevokedTokenExplained ==
    \A s \in Sessions :
        (sess[s].is_active /\ sess[s].hash_revoked_at # None) =>
            \/ s \in interrupted
            \/ \E r \in Requests : req[r].at = "rotate" /\ req[r].sid = s

\* r read session s as active, or created it, and will still write or send
\* something for it.
Holds(r, s) ==
    /\ req[r].sid = s
    /\ \/ req[r].at \in {"store", "respond", "revokeOld", "rotate"}
       \/ req[r].at = "decide" /\ req[r].snap.is_active

Drained(s) ==
    /\ s \in Created
    /\ ~sess[s].is_active
    /\ \A r \in Requests : ~Holds(r, s)

\* Revocation is final once the requests that had seen the session alive are
\* over: it is never active again, its token never changes, and no client is
\* sent another token for it.
RevocationFinal ==
    [][\A s \in Sessions :
          Drained(s) => /\ Drained(s)'
                        /\ sess'[s].hash = sess[s].hash
                        /\ \A t \in Tokens :
                              <<s, t>> \in delivered' => <<s, t>> \in delivered]_vars

ShutOut(u) ==
    /\ ~active[u]
    /\ \A s \in SessionsOf(u) : ~sess[s].is_active
    /\ \A r \in Requests :
          ~(req[r].at \in {"count", "oldest", "evict", "create"} /\ req[r].user = u)

\* Deactivation is final once the logins that had read the user as active are
\* over: without a reactivation the user gets no session again.
DeactivationFinal ==
    [][\A u \in Users : ShutOut(u) => (ShutOut(u) \/ active[u])']_vars

\* A token a client was sent and that is no longer its session's token never
\* becomes it again, whatever refreshes overlap.
SupersededStaysDead ==
    [][\A s \in Sessions, t \in Tokens :
          (<<s, t>> \in delivered /\ sess[s].hash # t) => sess'[s].hash # t]_vars

\* A client is sent the token that is its session's token at that moment, so
\* its next refresh is recognised.
DeliveredIsCurrent ==
    [][\A s \in Sessions, t \in Tokens :
          (<<s, t>> \in delivered' \ delivered) => sess[s].hash = t]_vars

-----------------------------------------------------------------------------
(* The sessions as SessionLifecycle has them.                              *)

StateOf(s) ==
    IF sess[s].user = None THEN "unopened"
    ELSE IF sess[s].is_active THEN "open" ELSE "closed"

TokenOf(s) == IF sess[s].is_active THEN sess[s].hash ELSE None

\* A request that may still store the token it generated.
WillStore(r) ==
    req[r].at \in LoginSteps \cup {"decide", "revokeOld", "rotate"}

States == [s \in Sessions |-> StateOf(s)]

TokensNow == [s \in Sessions |-> TokenOf(s)]

Spent == minted \ {req[r].token : r \in {x \in Requests : WillStore(x)}}

Lifecycle == INSTANCE SessionLifecycle
    WITH state <- States, token <- TokensNow, spent <- Spent

\* Whatever requests overlap, fail or come late, a session is opened once, is
\* given tokens only while open and each token once, and is closed for good: a
\* rotation that comes after the revocation changes nothing that counts.
ImplementsLifecycle == Lifecycle!Spec
=============================================================================
