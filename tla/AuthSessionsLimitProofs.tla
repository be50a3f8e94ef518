------------------------ MODULE AuthSessionsLimitProofs ------------------------
(* The second instance of MCAuthSessionsLimit, in which requests do not       *)
(* overlap: the theorems about requests one at a time of AuthSessionsProofs,  *)
(* of that instance.                                                          *)
EXTENDS MCAuthSessionsLimit, FiniteSetTheorems, TLAPS

Lone == INSTANCE AuthSessionsProofs
    WITH Requests <- {loneRequest}, MaxConcurrentSessions <- 2,
         AutoRevokeOldestSession <- TRUE, ReplayActionRevoke <- FALSE,
         now <- nowS, active <- activeS, sess <- sessS, inserts <- insertsS,
         req <- reqS, minted <- mintedS, delivered <- deliveredS,
         interrupted <- interruptedS

\* The constants of the instance satisfy what AuthSessions assumes of them.
LEMMA LoneSettingsHold ==
    /\ AllowMultipleSessions \in BOOLEAN
    /\ TRUE \in BOOLEAN
    /\ EnableReplayDetection \in BOOLEAN
    /\ FALSE \in BOOLEAN
    /\ ReplayActionLogout \in BOOLEAN
    /\ 2 \in Nat \ {0}
    /\ RefreshTokenLifetime \in Nat \ {0}
    /\ GracePeriod \in Nat
    /\ MaxTime \in Nat
BY SettingsAssumption

LEMMA LoneIdentitiesHold ==
    /\ Lone!IsFiniteSet(Sessions)
    /\ Lone!IsFiniteSet({loneRequest})
    /\ None \notin Users
    /\ None \notin Sessions
    /\ None \notin Tokens
    /\ None \notin Nat
<1>1. IsFiniteSet(Sessions) /\ IsFiniteSet({loneRequest})
  BY IdentityAssumption, FS_Singleton
<1>2. Lone!IsFiniteSet(Sessions) /\ Lone!IsFiniteSet({loneRequest})
  BY <1>1 DEF IsFiniteSet, Lone!IsFiniteSet
<1> QED BY <1>2, IdentityAssumption

LEMMA OneRequest == Lone!Serial
BY DEF Lone!Serial

\* The run's instance and the one the theorems are about are the same specification.
LEMMA SameInit == Serial!Init => Lone!Init
BY DEF Serial!Init, Lone!Init, Serial!NoRow, Lone!NoRow, Serial!Idle, Lone!Idle

LEMMA SameLive ==
    ASSUME NEW u
    PROVE  /\ Serial!LiveSessions(u) = Lone!LiveSessions(u)
           /\ Serial!OldestLive(u) = Lone!OldestLive(u)
           /\ Serial!LimitReached(u) <=> Lone!LimitReached(u)
BY DEF Serial!LiveSessions, Lone!LiveSessions, Serial!SessionsOf, Lone!SessionsOf,
   Serial!OldestLive, Lone!OldestLive, Serial!LimitReached, Lone!LimitReached,
   Serial!SessionLimit, Lone!SessionLimit, Serial!Cardinality, Lone!Cardinality

LEMMA SameLogin ==
    ASSUME NEW r, NEW u, NEW confirm
    PROVE  /\ Serial!LoginStart(r, u, confirm) => Lone!LoginStart(r, u, confirm)
           /\ Serial!LoginBelowLimit(r) => Lone!LoginBelowLimit(r)
           /\ Serial!LoginRefused(r) => Lone!LoginRefused(r)
           /\ Serial!LoginMustEvict(r) => Lone!LoginMustEvict(r)
           /\ Serial!LoginFindOldest(r) => Lone!LoginFindOldest(r)
           /\ Serial!LoginEvict(r) => Lone!LoginEvict(r)
           /\ Serial!LoginCreate(r) => Lone!LoginCreate(r)
           /\ Serial!LoginStoreToken(r) => Lone!LoginStoreToken(r)
           /\ Serial!Respond(r) => Lone!Respond(r)
BY DEF Serial!LoginStart, Lone!LoginStart, Serial!LoginBelowLimit, Lone!LoginBelowLimit,
   Serial!LoginRefused, Lone!LoginRefused, Serial!LoginMustEvict, Lone!LoginMustEvict,
   Serial!LoginFindOldest, Lone!LoginFindOldest, Serial!LoginEvict, Lone!LoginEvict,
   Serial!LoginCreate, Lone!LoginCreate, Serial!LoginStoreToken, Lone!LoginStoreToken,
   Serial!Respond, Lone!Respond, Serial!StoreToken, Lone!StoreToken,
   Serial!LiveSessions, Lone!LiveSessions, Serial!SessionsOf, Lone!SessionsOf,
   Serial!OldestLive, Lone!OldestLive, Serial!LimitReached, Lone!LimitReached,
   Serial!SessionLimit, Lone!SessionLimit, Serial!Cardinality, Lone!Cardinality,
   Serial!FreshSessions, Lone!FreshSessions, Serial!FreshTokens, Lone!FreshTokens,
   Serial!RevokeRows, Lone!RevokeRows, Serial!Goto, Lone!Goto, Serial!Finish, Lone!Finish,
   Serial!Idle, Lone!Idle, Serial!NoRow, Lone!NoRow

LEMMA SameRefresh ==
    ASSUME NEW r, NEW s
    PROVE  /\ Serial!RefreshRead(r, s) => Lone!RefreshRead(r, s)
           /\ Serial!RefreshConcurrent(r) => Lone!RefreshConcurrent(r)
           /\ Serial!RefreshReplay(r) => Lone!RefreshReplay(r)
           /\ Serial!ReplayRevoke(r) => Lone!ReplayRevoke(r)
           /\ Serial!ReplayLogout(r) => Lone!ReplayLogout(r)
           /\ Serial!RefreshRejected(r) => Lone!RefreshRejected(r)
           /\ Serial!RefreshAccepted(r) => Lone!RefreshAccepted(r)
           /\ Serial!RefreshRevokeOld(r) => Lone!RefreshRevokeOld(r)
           /\ Serial!RefreshRotate(r) => Lone!RefreshRotate(r)
           /\ Serial!Logout(r, s) => Lone!Logout(r, s)
           /\ Serial!LogoutRevokeToken(r) => Lone!LogoutRevokeToken(r)
           /\ Serial!RequestFails(r) => Lone!RequestFails(r)
BY DEF Serial!RefreshRead, Lone!RefreshRead, Serial!RefreshConcurrent,
   Lone!RefreshConcurrent, Serial!RefreshReplay, Lone!RefreshReplay,
   Serial!ReplayRevoke, Lone!ReplayRevoke, Serial!ReplayLogout, Lone!ReplayLogout,
   Serial!RefreshRejected, Lone!RefreshRejected, Serial!RefreshAccepted,
   Lone!RefreshAccepted, Serial!RefreshRevokeOld, Lone!RefreshRevokeOld,
   Serial!RefreshRotate, Lone!RefreshRotate, Serial!Logout, Lone!Logout,
   Serial!LogoutRevokeToken, Lone!LogoutRevokeToken, Serial!RequestFails,
   Lone!RequestFails, Serial!ReplaySuspected, Lone!ReplaySuspected,
   Serial!Refreshable, Lone!Refreshable, Serial!StoreToken, Lone!StoreToken,
   Serial!SessionsOf, Lone!SessionsOf, Serial!FreshTokens, Lone!FreshTokens,
   Serial!RevokeRows, Lone!RevokeRows, Serial!Goto, Lone!Goto, Serial!Finish, Lone!Finish,
   Serial!Idle, Lone!Idle, Serial!NoRow, Lone!NoRow

LEMMA SameAdminister == Serial!Administer => Lone!Administer
BY DEF Serial!Administer, Lone!Administer, Serial!RevokeOne, Lone!RevokeOne,
   Serial!RevokeAllOthers, Lone!RevokeAllOthers, Serial!RevokeAllForUser,
   Lone!RevokeAllForUser, Serial!RevokeSystemWide, Lone!RevokeSystemWide,
   Serial!ResetPassword, Lone!ResetPassword, Serial!Deactivate, Lone!Deactivate,
   Serial!Activate, Lone!Activate, Serial!UserSessionsStillOpen,
   Lone!UserSessionsStillOpen, Serial!RevokeRows, Lone!RevokeRows,
   Serial!RevokeRowsKeepToken, Lone!RevokeRowsKeepToken, Serial!SessionsOf,
   Lone!SessionsOf, Serial!Created, Lone!Created, Serial!Others, Lone!Others

LEMMA SameNext == Serial!Next => Lone!Next
<1>1. ASSUME NEW r \in {loneRequest}, Serial!Advance(r) PROVE Lone!Advance(r)
  BY <1>1, SameLogin, SameRefresh DEF Serial!Advance, Lone!Advance
<1>2. ASSUME NEW r \in {loneRequest}, Serial!Arrive(r) PROVE Lone!Arrive(r)
  BY <1>2, SameLogin, SameRefresh DEF Serial!Arrive, Lone!Arrive
<1>3. ASSUME NEW r \in {loneRequest}, Serial!RequestFails(r) PROVE Lone!RequestFails(r)
  BY <1>3, SameRefresh
<1>4. Serial!Tick => Lone!Tick
  BY DEF Serial!Tick, Lone!Tick
<1> QED BY <1>1, <1>2, <1>3, <1>4, SameAdminister DEF Serial!Next, Lone!Next

limitVars == <<vars, varsS, serial>>

LEMMA LoneSteps == [MCNext]_limitVars => [Lone!Next]_Lone!vars
<1>1. UNCHANGED varsS => UNCHANGED Lone!vars
  BY DEF varsS, Lone!vars
<1> QED BY <1>1, SameNext DEF MCNext, limitVars

LEMMA LoneBehaviour == MCSpec => Lone!Spec
<1>1. MCInit => Lone!Init
  BY SameInit DEF MCInit
<1> QED BY <1>1, LoneSteps, PTL DEF MCSpec, Lone!Spec, limitVars

\* Logins one at a time never exceed the limit, and evict down to it.
THEOREM LoneLoginsKeepTheCap == MCSpec => []SessionCapSerial
<1>1. Lone!Spec => []Lone!SessionCap
  BY Lone!SerialLoginsKeepTheCap, LoneSettingsHold, LoneIdentitiesHold, OneRequest
<1>2. Lone!SessionCap => SessionCapSerial
  BY SameLive
  DEF Lone!SessionCap, SessionCapSerial, Serial!SessionCap, Serial!SessionLimit,
      Lone!SessionLimit, Serial!Cardinality, Lone!Cardinality
<1> QED BY <1>1, <1>2, LoneBehaviour, PTL

\* One refresh at a time sends the token that it stored.
THEOREM LoneRepliesAreCurrent == MCSpec => DeliveredIsCurrentSerial
<1>1. Lone!Spec => Lone!DeliveredIsCurrent
  BY Lone!SerialRepliesAreCurrent, LoneSettingsHold, LoneIdentitiesHold, OneRequest
<1>2. Lone!DeliveredIsCurrent => DeliveredIsCurrentSerial
  BY PTL DEF Lone!DeliveredIsCurrent, DeliveredIsCurrentSerial, Serial!DeliveredIsCurrent,
             Lone!vars, Serial!vars
<1> QED BY <1>1, <1>2, LoneBehaviour, PTL
=============================================================================
