# Verification of the OMS backend

TLA+ models of the NestJS backend in this repository, the TLC configurations
that check them, and TLAPS proofs about them. Source paths below are relative
to `src/src/modules/` unless they start with `src/`.

- [The system](#the-system): components, state, operations, hazards
- [The models](#the-models): how state and actions correspond to the code
- [The runs](#the-runs): what each checks, with which bounds
- [The proofs](#the-proofs): theorems, assumptions, arguments
- [Where code and documents disagree](#where-code-and-documents-disagree)
- [What is not modelled](#what-is-not-modelled)
- [The plan](#the-plan)

## The system

One Node process (or several) answers HTTP requests over a SQL Server database.
A handler is an `async` method: plain code runs without interruption, every
`await` lets other requests run. Almost all state is in the database. Unless a
service opens a `QueryRunner` transaction, each SQL statement commits by itself,
and the transactions run under READ COMMITTED (the default of the driver; no
service asks for another level). So the question everywhere is what happens
between two statements of one handler, and what is left if the second never
runs. State in memory is confined to the import cache, the rate limiter and the
per-request permission cache.

| Component | State | Operations | Interacts with | What is hard |
|---|---|---|---|---|
| Login sessions (`auth/services/auth-core.service.ts`, `user-sessions.service.ts`) | `tbl_Login_Sessions`: is_active, revoked_at, refresh token hash, expiry, refresh_token_revoked_at | login, refresh with replay detection, logout, revoke one / others / all | lockout, user lifecycle, security settings (all revoke sessions); the JWT strategy does not read the session, so an access token works until it expires | count then insert; read, revoke, rotate; a revocation between two statements; a rotation that stops half-way |
| Login lockout (same service) | `tbl_Users`: failed_login_count, locked_until | failed and successful login, unlockUser | credentials | lock decided on the row read before the password was compared |
| Credentials and invitations (`authorization/users/services/user-credentials.service.ts`, `user-lifecycle.service.ts`) | `tbl_User_Invitations`, `tbl_Local_Credentials`, `tbl_Password_History`, must_change_password, is_active | invite, validate, accept, resetPassword, activate, deactivate, softDelete | sessions, import, vendor users (issue invitations) | single use decided outside the transaction; several statements to issue; tokens outliving the user |
| Organisation tree (`organization/org-units`) | `tbl_Org_Unit`: type, parent, code, is_active; the type registry | create, PATCH, move, activate, deactivate, delete, tree queries | scope, managers, users (references) | rules C1-C10, M1-M7, D1-D5 each read by a statement, no transaction |
| Unit managers (`organization/org-managers`) | `tbl_Org_Unit_Manager`: role, primary, effective_from/to | assign, update, remove | tree | one primary head per day, dates, promotion and extension |
| Users, roles and overrides (`authorization/users`, `authorization/user-assignments`) | `tbl_Users`, `tbl_User_Roles`, overrides | CRUD, assign and revoke roles, overrides, temporal roles | sessions, tree (leadership roles) | the last system administrator, counted outside the write |
| Delegations (`authorization/delegations`) | `tbl_Delegations`, their permissions | create, update, cancel | permission resolution | no overlap, no chains: tests of today, dates of tomorrow |
| Permission resolution (`authorization/permission-resolution`) | per-request cache | getEffectivePermissions, hasPermission | roles, overrides, delegations | revoke beats grant over four reads of different moments |
| User import (`authorization/user-import`) | a `Map` from token to validated batch, 30 minutes | validate, commit | users, invitations | two commits of one token, stale validation |
| Vendor users (`authorization/vendor-users`) | `tbl_Users`, vendor links | CRUD, invitation | credentials | same as credentials |
| Masters (`organization/fiscal-years`, `budget-categories`, `salary-grade/*`) | a code and is_delete per row | create (or reactivate), update, softDelete | | a deleted code used again |
| Candidate tokens (`onboarding/candidate-tokens`) | token hash, expiry, revoked_at, consumed_count | issue, validate, revoke | onboarding cases | revocation racing validation |
| Security settings (`security`) | `tbl_Security_Settings` | get, update, revoke all sessions | login, refresh, lockout, retention | written one by one, read whole |
| Retention (`retention`) | five log tables | nightly and manual purge | settings, sessions | five statements without a transaction |
| Rate limiting (`src/src/common/rate-limit`) | timestamps per client and tier | canActivate, cleanup timer | request context | sliding window |
| Audit, security events | append-only tables | log | every service | a log entry without its change, or a change without its entry |
| Request pipeline (guards, interceptors, filters) | AsyncLocalStorage context | JWT validation, permission test, audit of requests | everything | claims of the access token outlive what they were read from |

What makes each component correct:

- **Sessions**: no more live sessions than the limit; revoked is final; a
  deactivated user gets no session; a replaced token never works again; the
  token a client was sent last is the one stored; the three revocation columns
  agree whatever writes them.
- **Lockout**: no failure is lost, the account locks in time, and only who came before
  a lock changes it.
- **Credentials**: a token is used once, at most one is outstanding, a password
  is compared with the last five really set, a deleted user stays out.
- **Tree**: it is a tree whose edges obey the registry; an inactive unit gains
  no children; siblings differ in code; one active root.
- **Managers**: at most one primary head per unit on any day.
- **Roles**: at least one active system administrator.
- **Delegations**: no two overlap, none is delegated on.
- **Permissions**: the result is the set algebra of the documents for some state.
- **Import**: a batch is committed at most once, all or nothing.
- **Masters**: one live row per code.

## The models

Conventions shared by all modules. A request in execution is a record in `req`
whose field `at` names the statement it executes next; a step is that statement
with the plain code up to the next one. A handler with one state-changing
statement, or one transaction whose statements lock what others need, is a
single action. A request may fail or the process may die at any statement
(`RequestFails`). Reads before the first statement that matters, which have no
effect, are merged with it. Histories, logs, wording and formatting are left
out. Ids, tokens and passwords are opaque values; a hash is represented by what
it is the hash of. JavaScript compares ids as strings, the models take each id
to have one spelling. The migrations and queries spell columns in several ways
(`IsActive`, `is_active`); the models take each to be one column.

Operators marked `Mutant:` are variants of the operator that follows them, with
a plausible bug. They are used by no specification; for each checked property
`PROJECT.json` names one under which the property fails.

### AuthSessions

`auth.tbl_Login_Sessions` is `sess`, a function from session id to row;
`tbl_Users.is_active` is `active`; `inserts` gives login_at its order;
`refresh_token_revoked_at` is kept as the time of revocation, because `refresh`
distinguishes a concurrent retry (younger than `GracePeriod`, 30 s in the code)
from a replay. The auxiliary variables `minted`, `delivered` and `interrupted`
record generated tokens, the tokens clients were sent, and rotations that
failed between revoking the old token and storing the new one.

| Code | Actions |
|---|---|
| `login()` from the session count on | `LoginStart`; then `LoginBelowLimit`, `LoginRefused` or `LoginMustEvict`; `LoginFindOldest`, `LoginEvict`; `LoginCreate`, `LoginStoreToken`, `Respond` |
| `refresh()` | `RefreshRead`; `RefreshConcurrent`, `RefreshReplay`, `RefreshRejected` or `RefreshAccepted`; `ReplayRevoke`, `ReplayLogout`; `RefreshRevokeOld`, `RefreshRotate`, `Respond` |
| `logout()` | `Logout`, `LogoutRevokeToken` |
| user-sessions.service, user lifecycle, reset of a password, security settings | one action per statement that revokes sessions |
| the clock | `Tick`, up to `MaxTime` |

The security settings are CONSTANTS: a run fixes them, the proofs hold for all.

A token counts as revoked in three ways: a rotation replaces it, a rotation stops
after revoking it, or its session was logged out, evicted or revoked. `refresh()`
does not tell them apart: its replay branch comes before the test of is_active, so
a token of any of the three, presented after `GracePeriod`, revokes and logs out
every session of the user (`RefreshReplay`). `RevokedTokenExplained` is about sessions
in use only: their owner is taken for a thief after a broken rotation and in no
other case.

### SessionLifecycle and the refinement

`SessionLifecycle` is what the sessions promise, without requests, clocks or
columns: a session is opened once, gets tokens that no session had before, and
once closed stays closed and has no token. AuthSessions implements it
(`ImplementsLifecycle`, checked in AuthSessionsRefresh and proved in
AuthSessionsProofs) under this mapping:

| Abstract | In AuthSessions |
|---|---|
| `state` | unopened: no row yet; open: is_active; closed: a row that is not |
| `token` | the hash of an active row, None otherwise: what is left in a revoked row is worth nothing |
| `spent` | the tokens generated, less those a request in execution may still store |

`Open` is `LoginCreate`, `Issue` is `LoginStoreToken` or `RefreshRotate` into an
active row, `Close` every revocation, `Void` a token whose request failed, or
that was written into a row revoked meanwhile. Everything else stutters,
the revocation of the token column included.

### LoginLockout

The part of `login()` before the session limit, for one account:
`failed_login_count` and `locked_until`. A request keeps the count it read
(`req.count`), because the lock is decided on it after `bcrypt.compare` and
`recordFailedLogin`. `guesses` counts wrong passwords since the last lock, reset or
unlock, `lost` those whose request failed before locking, and `slow` holds the attempts
that were under way when the last lock was written; the three exist for the
properties only.

### UserCredentials

One account: `is_active`, `must_change_password`, the password, the history and its
invitations (`inv`); its sessions are in AuthSessions. An invitation carries purpose,
expiry and consumed; revoking one sets consumed_at as in the code. Issuing is
two steps (`revoke`, `create`) though the code wraps it in a transaction: where
no token is outstanding the UPDATE locks no row, so another transaction can
insert before this one does. Accepting is the read of the token, the comparison
with the history and the transaction. `upsertLocalCredentials` is taken to
leave one row per user; the table's constraints are not in the repository.
`log`, `used` and `deleted` are auxiliary. The constants of the code are
CheckCount 5, KeepCount 24, InviteExpiry 7 days, ResetExpiry 1 hour.

### UserAdministration

`tbl_Users` (name, type, active) is `user`, `tbl_User_Roles` is `grant` (a row that
has not begun, is in force, or is free). Two services write users (UsersService,
VendorUsersService) and a third assigns roles; each rule (U1, U2, U15, V3) is a
SELECT before the write it guards, so a request is a record in `job`. Roles begin and end
without a rule being asked (`BeginGrant`, `EndGrant`). A name stands for user name
and email address. The look-ups trim it (`Trimmed`); UsersService stores what the body
gives, VendorUsersService the trimmed name. An empty user name in an update is
bound as NULL and leaves the column (`users.repository.ts:631`), so it is an absent one.
Rules on tables that nothing here writes may refuse (`JobFails`). `UsersService` never creates a vendor: its rule U5 calls `trim()` on
a number and fails (`BodyTypes`).

### Delegations

Rows of `tbl_Delegations` with an inclusive period and a flag. `Create` makes the tests
D1-D3, `CheckChain` the test D5 of each of the two users, `InsertDelegation` writes;
`Update` and `WriteDelegation` are `update()`, which looks at a new end only;
`Cancel`, `EndAllForUser` (a user deletion) and `Tick` move the rest.

### EffectivePermissions

One user whose roles, overrides, delegations and account change (`ChangeRoles`,
`CreateOverride`, `SwitchUser`, ...), and requests that ask any number of times for the
effective list, one permission, or the preview. Each source is one step
(`ReadRoles`, `ReadOverrides`, `ReadDelegations`); the list is kept in the request
context. The recursive query of the role hierarchy is `RolesFrom`, cut at
MaxDepth; the properties use `Reachable`, the least closed set, instead, so they
check one against the other. `seen` records the instants since the request
began. `DelegationsConfer` says whether delegated permissions count: the code looks for a table
`auth.DelegationPermissions` and treats its absence as no permission, while the
program writes `tbl_Delegation_Permissions`. The run sets it TRUE, where the resolution has
more to get wrong.

### OrgUnitTree

`masters.tbl_Org_Unit` is `unit`; the type registry is `Types`, `Level` and
`Rules`, which holds one parent type per type, as the table has one column for it
(`parent_unit_type_id`). No code writes the registry; the seeds create ORGANIZATION (level 1),
BUSINESS_UNIT under it and DEPARTMENT under that. Each rule of
`org-unit-validation.service.ts` that reads the tree is a step (`CheckRoot` C4,
`CheckParent` C5/C6 and M1/M4, `CheckAncestors` M3, `CheckSibling` C7/M5,
`CheckChildren` D1/D2), each write is one (`Insert`, `UpdateAttributes`,
`Reparent`, `SetInactive`, `Activate`). Rules on other tables (scope,
references, assigned users) are the nondeterministic refusal `RequestFails`.
PATCH may set is_active, as `UpdateOrgUnitDto` allows. `overtaken` (auxiliary) are
the requests during which another one wrote; the properties ask what a write does
that is in it, and what one does that is not.

### OrgManagers

The heads of one unit over days: a row of `tbl_Org_Unit_Manager` has a first day, a
last one or none, and the primary flag. `AssignHead` ends the heads from a day on,
`InsertHead` inserts and commits; `ReadManager`, then `UpdateManager` or
`PromoteManager` and `WritePromotion`, are `updateManager`, which reads its row outside
the transaction. `ended` are the rows the open transaction has locked.

### OrgMasters and SalaryGrade

The master tables. **OrgMasters** has fiscal years and budget categories, whose create
takes over a soft-deleted row of the same code and whose update writes any stored row.
**SalaryGrade** has grades, categories, designations, tiers and benefits, and the
records that combine them: every service tests code, salary range, references or
duplicates first and writes in a transaction of one statement. The five services
have one shape, so `StartCreate`, `StartUpdate`, `CheckCode`, `Insert`, `Update`
and `Remove` are parameterised by the table, with an action for each service.
`overtaken` (auxiliary) marks a request whose table another one wrote since its
first read.

What a body gives is tested and written by different rules, and the models keep both. An
update of a record tests `dto.x ?? existing.x` (`Tested`) and writes whatever is not
undefined (`Merge`): a null is tested as the old value and stored as NULL, and the record is
then found by no query that joins its masters (`FoundRecords`). An update of
OrgMasters looks a code up only if it is truthy (`Falsy`) and writes it unless it is undefined:
the empty code (`Blank`) and null are never looked up.

### UserImport, CandidateTokens, RateLimit

**UserImport**: the two requests of a bulk import, the batches in the memory of the
process (`batch`), row-by-row inserts of which nothing is visible before the commit, the
events that are logged on other connections, expiry and restart (`RestartProcess`). A
failed INSERT of an event is caught by its repository and the import goes on (`LogRow`
counts it in `swallowed`). COMMIT is inside the `try`: one that is applied and not answered
counts as a failure and keeps the token (`CommitUnanswered`). A
token is dropped only after the commit, so two commits may run. **CandidateTokens**:
`issueToken` (revoke, create), `validateToken` (read, judge the copy, count)
and `revokeTokensForOnboarding`. **RateLimit**: `canActivate` of one tier over the
timestamps of each key, the sweep and restarts. No `await` lies between read and write,
so it is one step. The timestamps of a key are a set of entries (an instant and a number,
for requests of one instant), since no statement depends on their order.

## The runs

Every run explores its instance completely.

| Run | Question | Bounds and why they are enough |
|---|---|---|
| AuthSessionsLimit | How far can overlapping logins exceed the limit, is a deactivated user shut out; are limit and delivered token exact when requests do not overlap | an initial state per scenario: limit 1, two requests, three sessions, no auto-revocation (one session over the limit already needs both requests, the third id allows a login after a revocation); or limit 2 and one request at a time with auto-revocation, the control that attributes the excess to overlap |
| AuthSessionsRefresh | Does a superseded token stay dead, is a revoked token in a session in use always explained, is SessionLifecycle implemented | two sessions, two requests, four tokens: two rotations of one session and one of another, or three of one; limit 1 with auto-revocation, so that logins also evict |
| LoginLockout | Is every failure counted, how late can the lock be, who can change it | three requests, threshold 2: the bound is reached; a slow success lifts a lock, a slow failure renews it |
| UserCredentials | Does the history decide as the log of all passwords would, how often can a token be used, how many be outstanding | two requests, CheckCount 1 and KeepCount 2 as the smallest with the order of the code's 5 and 24 |
| UserCredentialsSingleUse | Is a token single-use | violation, see below |
| OrgUnitTree | Does the tree stay a tree under overlapping operations; what can only an overtaken request, activate() or a PATCH do to codes, roots and flags | the seeded registry, three units, two codes, two requests: two moves in opposite directions, a parent deactivated between test and write, two siblings with one code; a PATCH carries a code or switches its unit off, since activate() switches on |
| Masters | Which rules only an overlap, a null or an empty code can break, what deletion guarantees | scenarios: the codes of one of the five tables; the salary range of one grade with two salaries; two records over two grades and two variants, or a null grade; two rows of one of the OrgMasters tables. Two requests, two ids, two codes (of OrgMasters one and the empty one) |
| OrgManagers | The only ways to two heads on a day, and to a day that loses its head | three days: before, at and after a change of head; two overlapping requests |
| UserAdministration | When does the last administrator disappear, when do two accounts get one name, can a vendor hold an internal role | two users, two grants, two requests: two administrators who deactivate each other; the names `bob` and ` bob`, which a look-up takes for one |
| Authority | Do D3 and D5 hold but for overlaps, revivals and time; is a torn answer faithful | two delegations over three instants, two callers; one request, three changes between its reads, two overrides that may contradict each other, a role hierarchy with a cycle |
| Platform | Can an import be doubled, halved or lost, and where do its events go; is a use of a link lost or late; is the rate window exact | two names, two rows, one token, two importers, three events of a name, one restart; two validations, three links, two uses; limit 2 in a window of 2 over five instants, sweeps older than 3 |

Masters, Authority, Platform and AuthSessionsLimit hold components or
instances that share no state: the initial state chooses the one that moves.

`MaxTime`, `MaxDay`, `MaxInstant`, `MaxFailures`, `MaxPasswords`, `MaxChanges`, `MaxAccounts`,
`MaxEvents`, `MaxUses` and `MaxBoots` bound clocks and counters in guards. Symmetry is
used for ids, names, tokens, codes and requests, which no definition orders; no run
checks liveness, where it would not be sound.

The type invariants that are theorems are in no run, except where a run's mutant shows that
types catch a bug (`TypesOK`). `Consistent`, `HashIdentifiesSession`, `RevocationFinal`
and `EdgesObeyRules` likewise are theorems that no run repeats.

Fairness: none is assumed, and no liveness is claimed. Each handler is a fixed sequence
of statements without a loop or a wait for another request, except the row locks of a
transaction, which ends by itself; so under the fairness Node provides (a handler
whose statement returned is resumed) a request ends by the shape of its code, and to say so
would say nothing. What has to happen in the end (a lock, an eviction, the drop of a token)
depends on no other request being fair either: it happens or its request failed, and the
properties say what is left then.

## The proofs

TLC checks the instances above; these hold for every value of the constants that
satisfies the ASSUMEs: settings in their range, ids distinct from NULL, finite sets where
something is counted or an oldest row is looked for. Every proof of a property has the
shape *invariant of what requests remember, one lemma per action, PTL*.

### Sessions, lockout, credentials

| Module | Theorem | Argument |
|---|---|---|
| AuthSessionsProofs | `TypeCorrect`, `RequestsAndRowsConsistent` | `Consistent` is inductive together with the types: is_active and revoked_at change in the same statements, and the session id a login is about to insert is held by that login alone |
| | `HashesIdentifySessions` | tokens are minted once, and a stored token was minted by the request that stored it |
| | `RevocationIsFinal`, `DeactivationIsFinal` | no action sets is_active of an existing row, and a login inserts only for a user it read as active; "no request holds it" is closed because only a row that is active is read |
| | `RevokedTokensExplained` | each revocation of a token revokes the session with it, except in a rotation, whose request is in `rotate` until it stores or fails; of sessions not in use nothing is claimed |
| | `SupersededTokensStayDead` | the token a rotation stores is fresh, so it differs from all delivered before |
| | `OvershootIsBounded` | live sessions plus requests past the count are at most the limit plus the other requests; each login past the count pays for the row it inserts |
| | `SerialLoginsKeepTheCap` | requests that do not overlap: `HasRoom` says that a login about to insert still has the room it counted, or makes it by the eviction it is about to do; an oldest session exists because the sessions of a full user are a finite nonempty set ordered by login_at (`LeastNumber`) |
| | `SerialRepliesAreCurrent` | `ReplyCurrent`: what a request is about to send is what it stored, since nobody writes between its last statement and the response |
| | `AuthSessionsImplementsLifecycle` | each action maps to `Open`, `Issue`, `Close`, `Void` or a stutter; a token that will be stored is not spent, because the request that minted it is the only one that carries it |
| AuthSessionsLimitProofs | `LoneLoginsKeepTheCap`, `LoneRepliesAreCurrent` | the two serial theorems of the instance with one request that the run AuthSessionsLimit checks; that the instance meets their assumptions is proved (`LoneSettingsHold`, `LoneIdentitiesHold`) |
| PlatformProofs | `TypeCorrect`, `NoFailureIsLost`, `GuessesAreBounded` | the bound counts, besides the guesses, the requests that read the row and have not written yet; it is a linear inequality over cardinalities of sets of requests |
| | `LockChangesExplained` | whoever passed the test of the lock before it was written is in `slow` until it ends, and whoever reads the row while it is locked is refused |
| UsersProofs | `TypeCorrect` (of UserCredentials) | `IInv`: a request that issues owns a token that is in no row, one that accepts carries an issued one, and a used token is consumed |
| | `UsesBounded` | uses plus requests that validated the token never exceed the requests: a use moves one from the second to the first, and nobody validates a consumed token |
| | `OutstandingBounded` | outstanding tokens plus issues that found none are at most the requests: an issue that finds one replaces them all |
| | `ConsumedTokensFinal` | only a request that validated a token, or an issue that finds it outstanding, writes its row |
| | `HistoryRemembersAll` | pruning at each step leaves what pruning once would (`PruningKeepsLatest`), and the newest of the newest are the newest (`LatestOfLatest`), for every sequence |

### Users and authority

| Module | Theorem | Argument |
|---|---|---|
| UsersProofs | `AccountsTypeCorrect`, `VendorsHoldVendorRoles` (of UserAdministration) | a role about to be inserted is allowed by the type its user still has, because types only change away from VENDOR |
| | `LastAdminNeedsOvertaking` | a deactivation nothing overtook leaves an administrator besides its target, since it counted two or its target is none; a vendor is no administrator by `VendorRolesOnly`, and no other statement on users takes one away |
| | `SharedNameNeedsCause` | the name in a request nothing overtook is nobody else's still, if trimming leaves it as it is: then what was looked up is what is written |
| AuthorityProofs | `DelegationTypeCorrect`, `DelegationRules` | `CallOK`: of the rules a request looked at, none is broken until it is overtaken; so an insert that nothing overtook starts neither an overlap (D3) nor a chain (D5), and the other ways to one are the disjuncts of `RulesExplained` |
| | `PermissionsTypeCorrect`, `NoPermissionInvented` | `ScratchOK`: each scratch copy is the truth of an instant since the request began, and so is the cached list; needs nothing of the hierarchy, since the query reaches only reachable roles |
| | `AnswersAreFaithful` | with the hierarchy within the depth of the query the copy misses nothing either, so what was justified at every read is in the answer |
| | `SmallHierarchyWithinDepth` | that hypothesis holds for up to MaxDepth + 1 roles (the code's MAX_ROLE_HIERARCHY_DEPTH is 10), cycles or not: each round of the query adds a role or is the last |
| | `AuthorityTypesCorrect` | the composition of both |

### Organisation

| Module | Theorem | Argument |
|---|---|---|
| OrgUnitTreeProofs | `TypeCorrect`, `EdgesAlwaysObeyRules` | a request carries its tested edge in `req`; types never change, so the tested edge obeys the rules whenever it is written |
| | `NoCycles` | any registry, any overlap. The chain of parent types above every unit's type reaches a root type (`Grounded`): each unit was created below such a unit, and types do not change. The types of units on a cycle would be a set the registry closes, because a type has one parent type; so one of them is a root type, and a unit of it has no parent (`TreeIsAcyclic`) |
| | `InactiveUnitsGetNoChildren` | no request past its parent test names a closed unit, and the test refuses it |
| | `SharedCodesNeedOvertaking` | `CodeTested`: what C7 and M5 established holds until another request writes |
| | `SecondRootNeedsCause`, `OrphansNeedCause` | `FlagTested`: so does what C4, C6, M1 and D1 established; the steps that test nothing (activate() and a PATCH of isActive) are named in the properties, so these and overtaken writes are the only gaps |
| OrganisationProofs | `TypeCorrect` (of OrgManagers) | `IInv`: unless another write overtook it, a request has ended exactly the heads from its day on, and the row it read is still there with the flag it had |
| | `SecondHeadNeedsCause` | ending all heads from a day on leaves no other head of any later day and changes no earlier one (`EndedAreNoHeads`, `EndedStayHeads`) |
| | `GapNeedsCause` | the day before the successor is still reached by the ended head, and a promotion that nothing overtook makes its row a head |
| MastersProofs | `SalaryTypeCorrect`, `DeletionHolds` | every UPDATE names rows that are not deleted, and a master that each request on records has seen deleted is in no request's references |
| | `CodesBounded` | rows with a code, or about to get it by an update, plus creates about to insert it, are at most the requests: a request joins only when the code is free. Hypotheses: the tables start with each code once (`SeededOnce`), and there is a request |
| | `LossesOnlyExplained` | `MasterFresh`, `RecordFresh`: what a request that nothing overtook has read still holds when it writes; a body without a null writes the combination that was tested, and one with a null writes none that counts |
| | `OrgMastersTypeCorrect`, `DuplicatesOnlyExplained` | the same for fiscal years and budget categories: a code a create found in no row is in none at its insert, unless overtaken; a reactivation or an update makes a second live row only where two stored rows had the code, or with the code that is not looked up |
| | `MastersTypesCorrect` | the composition of both, from each of the starts of its run |

### Import, links, rate limit

| Module | Theorem | Argument |
|---|---|---|
| PlatformProofs | `LinkUses` | the count in a row is the successful validations, and late ones plus requests that judged the link usable before its revocation (`Holders`) are within the bound |
| | `OneLinkPerCase` | two issues of one case know of each other (`IssuesOverlap`), and an issue that knows of none has seen all outstanding links and revoked them (`LoneIssueSeesAll`) |
| | `ImportsDoubleOnlyInRaces` | a commit that is answered drops the token before it ends, so another commit of it was already in execution, or an earlier one was not answered; a clash needs accounts added since the names were looked up |
| | `ImportsAreWhole` | what is imported of a name, plus the rows past their event in transactions that are still open (`Pending`), is at most what is logged or swallowed; a failure gives all of it back but the events |
| | `WindowIsExact` | `KeyOK`: the stored entries were accepted, and all accepted ones younger than Window are stored, because neither the filter nor the sweep (whose age is at least Window) drops one |
| | `PlatformTypesCorrect` | the composition of the three, from their type theorems (`LinksTypeCorrect`, `ImportTypeCorrect`, `RateTypeCorrect`) |

`NoCycles` shows something not evident in the code: the descendant test M3 is made on a
tree that other moves change before the write, so it does not prevent cycles. That a type
has one parent type does, whatever M3 says.

Modules with an instance or a composition to prove about extend its MC module, so that
the theorem names the definition the run checks. The theorems do not depend on what
such a module binds for TLC (scenarios, symmetry): the sets stay CONSTANTS. One of
these modules adds an assumption, `MCMastersAssumption`: the codes its scenarios name
exist. What an instance must satisfy of the assumptions of
its module is proved (`LoneSettingsHold`).

Only model-checked: the violation of UserCredentialsSingleUse. Every other property of a
run is the statement of a theorem. Induction over data is in no proof, and no theorem
speaks of liveness or ENABLED.

## Where code and documents disagree

*Single-use tokens* are a run (UserCredentialsSingleUse) whose counterexample TLC
finds: two acceptances validate the token before either consumes it, and both
set a password. `UsesBounded` says how often a token can be used at most.

The others are visible in the properties, which state what the code keeps
instead of what a document says.

Sessions and credentials:

- *Session limit*: logins count before they insert. `OvershootBound` limits the
  excess to the other requests in execution, without auto-revocation. With it
  each login evicts one session however many there are, so an excess stays.
- *Concurrent refresh*: of two refreshes that read the row before either revokes
  the token both succeed, and the first client's token is already overwritten.
- *Replay*: the token of a session that was logged out, evicted or revoked is treated as a
  stolen one too: presented 30 s later, it ends all sessions of its user.
- *Lockout threshold*: the lock is decided on a count read earlier. `GuessBound`
  gives the most a set of overlapping attempts gains. An attempt with the right password
  that read the row before the lock was written lifts it (`LockChangeExplained`).
- *One outstanding token*: two issues with nothing to revoke both insert
  (`OutstandingBound`; `src/docs/DOMAIN-3-USER-ADMINISTRATION.md:172`).
- *Deleted users*: deletion leaves invitations alone and validation looks at the
  invitation only, so accepting an old token activates the account again.
- *Forced change*: `src/docs/DOMAIN-3-USER-ADMINISTRATION.md:447` says that
  must_change_password forces a change at next login; no login reads it.

Organisation:

- *Tree*: `activate()` tests nothing but existence and PATCH isActive skips D1 and D5, so there
  can be two active roots and active units under an inactive one; overlapping requests
  lead there as well, and to two siblings of one code
  (`SecondRootExplained`, `OrphanExplained`, `SharedCodeExplained`).
- *Heads*: `updateManager` moves effectiveTo without an overlap test; a promotion makes
  two heads of days before it; two overlapping assignments with no previous head
  both insert; a second promotion of a row ends the tenure the first one made primary;
  promoting a row that was just removed ends the head and puts nobody in the place; a head
  that had not begun ends before it begins. G3's overlap test reads
  `org.OrgUnitManagers`, while assignments go to `masters.tbl_Org_Unit_Manager`.
- *Masters*: a rename may take the code of a soft-deleted row, which a later create
  may bring back, so that two live rows have it; two updates may leave min above max. An
  empty code in a PUT is not looked up, so any number of live rows has it
  (`DuplicateExplained`). A null in the body of a record is tested as the old value and
  written: the record is then found no more, nor is a second one of its combination
  refused (`LossesExplained`).

Users and authority:

- *U15* counts outside the write, and neither the revocation nor the end of a role asks it.
- *U1, U2* look a name up trimmed, and UsersService stores it as sent: a name that begins or
  ends with a blank is found by no look-up and may be given twice (`NameExplained`).
- *U5*, for a vendor in a body of UsersService, always fails; *U7* binds the whole body as an id.
- `deactivateAllByVendorId` gives its query no parameter and fails.
- *Delegations* confer nothing while the resolution looks for another table; an update
  revives a cancelled delegation without D3 and D5, and D5 looks at the present only.
- *Preview* does not ask whether its target is active. The revocation of all overrides of
  a deleted user has no caller.
- *Import*: employee ids are looked up in one table and written to another; the events of a
  rolled-back import stay; an event that cannot be written is missing, and the account is
  there; after a COMMIT that was applied and not answered a retry inserts the batch again; a
  batch may be committed by another operator than the one who
  validated it, and unused batches are never removed.
- *Rate limit*: the guard is registered before the one that recognises the user, so
  its key is the address.

## What is not modelled

- JWT signing and verification, bcrypt, hashing: a token or password is its value.
- The text of logs, histories and audit records, and Swagger, DTO validation,
  pagination and read-only queries (dashboards, health, users list).
- The database's own constraints where the repository does not contain them.
  `UX_OrgUnits_Parent_Code` of the migrations is on `org.OrgUnits`, which the
  code no longer writes, so the models do not rely on it.
- *Retention*: five independent DELETEs by age; nothing reads what they relate.
- *Audit and security events*: append-only logs no modelled code reads back. The events of
  an import are counted in UserImport. Elsewhere a failure between a write and its log
  entry leaves a change without an entry.
- `revokeExisting = false` of the candidate tokens' `issueToken`: no caller passes it.
- *Request pipeline*: guards decide on the claims of the access token, without
  reading or changing state.
- *Organisation scope*: a database function that is not in the repository; it is a
  nondeterministic refusal.
- *A change of the security settings* while requests run: they are constants.
- `syncLeadershipForUser`, which copies leadership roles into `org.OrgUnits` and
  `org.OrgUnitManagers`: no modelled statement reads them, except the test G3,
  which may refuse.

## The plan

Done: the models above, and proofs of every safety and action property that a passing
run checks. In this order next:

1. SecuritySettings as a variable of AuthSessions: settings written one by one while a
   login reads them.
2. Composition of UserCredentials with AuthSessions: the sessions a reset leaves, and an
   accepted token of a user who was deleted.
3. Abstract specifications of invitations (issued, used or revoked, once) and of the
   permission answer, and proofs that the modules implement them.
