-------------------------- MODULE EffectivePermissions --------------------------
(***************************************************************************)
(* What one user may do: the permissions of the roles held and of the      *)
(* roles below them, of granting overrides and of delegations received,    *)
(* less the ones a revoking override names. A request resolves them with   *)
(* one SELECT per source, outside any transaction, while roles, overrides, *)
(* delegations and the account change; it keeps the result until it ends.  *)
(***************************************************************************)
EXTENDS Integers

CONSTANTS
    Perms,
    Roles, AdminRoles,      \* AdminRoles: SYSTEM_ADMIN, SUPER_ADMIN
    Confers,                \* tbl_Role_Permissions, which nothing writes
    Below,                  \* tbl_Role_Hierarchy, the same
    MaxDepth,               \* MAX_ROLE_HIERARCHY_DEPTH
    DelegationsConfer,      \* whether a table auth.DelegationPermissions exists
    Overrides,              \* rows of tbl_User_Permission_Overrides
    Requests,
    MaxChanges,             \* bound on changes
    None

ASSUME EffectivePermissionsAssumption ==
    /\ AdminRoles \subseteq Roles /\ MaxDepth \in Nat /\ MaxChanges \in Nat
    /\ Confers \in [Roles -> SUBSET Perms] /\ Below \in [Roles -> SUBSET Roles]
    /\ DelegationsConfer \in BOOLEAN /\ None \notin Perms

VARIABLES
    on,          \* the account is active
    held,        \* active role assignments in force
    override,
    delegated,   \* permissions of the delegations in force
    request,
    changes

permissionVars == <<on, held, override, delegated, request, changes>>

-----------------------------------------------------------------------------
Override == [perm : Perms \cup {None}, granted : BOOLEAN,
             phase : {"none", "future", "inForce", "ended"}]

NoOverride == [perm |-> None, granted |-> FALSE, phase |-> "none"]

\* What an instant says of the user.
Snapshot == [on : BOOLEAN, held : SUBSET Roles, granted : SUBSET Perms,
             revoked : SUBSET Perms, delegated : SUBSET Perms]

\* getEffectivePermissions, hasPermission (for every permission at once) and
\* getEffectivePermissionsPreview.
Questions == {"effective", "has", "preview"}

RequestSteps == {"idle", "ready", "active", "admin", "lookup", "scope",
                 "roles", "overrides", "delegations"}

\* cache: what the request context keeps; seen: the instants since the request
\* began (auxiliary).
Request == [at : RequestSteps, asks : Questions \cup {None},
            byRole : SUBSET Perms, granted : SUBSET Perms, revoked : SUBSET Perms,
            kept : BOOLEAN, cache : SUBSET Perms,
            answered : BOOLEAN, answer : SUBSET Perms, seen : SUBSET Snapshot]

NoRequest == [at |-> "idle", asks |-> None, byRole |-> {}, granted |-> {},
              revoked |-> {}, kept |-> FALSE, cache |-> {},
              answered |-> FALSE, answer |-> {}, seen |-> {}]

\* The recursive query: the roles held, then MaxDepth times the ones below.
RolesFrom(roles) ==
    LET upTo[n \in 0..MaxDepth] ==
          IF n = 0 THEN roles
          ELSE upTo[n - 1] \cup UNION {Below[q] : q \in upTo[n - 1]}
    IN upTo[MaxDepth]

PermsOf(roles) == UNION {Confers[q] : q \in roles}

OverridesInForce(granted) ==
    {override[o].perm : o \in {o \in Overrides : /\ override[o].phase = "inForce"
                                                 /\ override[o].granted = granted}}

ThisInstant == [on |-> on, held |-> held, granted |-> OverridesInForce(TRUE),
                revoked |-> OverridesInForce(FALSE), delegated |-> delegated]

\* Mutant: the delegated permissions are not filtered.
CombinedDelegatedLast(r, conferred) ==
    ((request[r].byRole \cup request[r].granted) \ request[r].revoked) \cup conferred

\* Revoke beats every source.
Combined(r, conferred) ==
    (request[r].byRole \cup request[r].granted \cup conferred) \ request[r].revoked

PermissionsInit ==
    /\ on = TRUE /\ held \in SUBSET Roles
    /\ override = [o \in Overrides |-> NoOverride]
    /\ delegated = {}
    /\ request = [r \in Requests |-> NoRequest]
    /\ changes = 0

At(r, step) == request[r].at = step

Data == <<on, held, override, delegated, changes>>

-----------------------------------------------------------------------------
(* A request. It may ask several times.                                    *)

BeginRequest(r) ==
    /\ At(r, "idle")
    /\ request' = [request EXCEPT ![r] = [NoRequest EXCEPT !.at = "ready",
                                                          !.seen = {ThisInstant}]]
    /\ UNCHANGED Data

FirstStep == [effective |-> "lookup", has |-> "active", preview |-> "scope"]

Ask(r) ==
    /\ At(r, "ready")
    /\ \E question \in Questions :
          request' = [request EXCEPT ![r].at = FirstStep[question],
                                     ![r].asks = question,
                                     ![r].answered = FALSE, ![r].answer = {}]
    /\ UNCHANGED Data

GoTo(r, step) == request' = [request EXCEPT ![r].at = step] /\ UNCHANGED Data

\* The scratch copies are dropped.
Answered(r, answer) ==
    [request[r] EXCEPT !.at = "ready", !.answered = TRUE, !.answer = answer,
                       !.byRole = {}, !.granted = {}, !.revoked = {}]

Answer(r, answer) ==
    /\ request' = [request EXCEPT ![r] = Answered(r, answer)]
    /\ UNCHANGED Data

HasActive(r) ==
    /\ At(r, "active")
    /\ IF on THEN GoTo(r, "admin") ELSE Answer(r, {})

\* An administrator has every permission, and revocations do not matter.
HasAdmin(r) ==
    /\ At(r, "admin")
    /\ IF RolesFrom(held) \cap AdminRoles # {} THEN Answer(r, Perms)
       ELSE GoTo(r, "lookup")

\* An empty list counts as cached too.
Keep(r, result) ==
    /\ request' = [request EXCEPT ![r] = [Answered(r, result) EXCEPT
                                             !.kept = TRUE, !.cache = result]]
    /\ UNCHANGED Data

Lookup(r) ==
    /\ At(r, "lookup")
    /\ \/ request[r].kept /\ Answer(r, request[r].cache)
       \/ ~request[r].kept /\ on /\ GoTo(r, "roles")
       \/ ~request[r].kept /\ ~on /\ Keep(r, {})

\* isUserInScope asks for the requester and the target's unit: it may refuse. It
\* does not ask whether the target is active.
InScope(r) == At(r, "scope") /\ (GoTo(r, "roles") \/ GoTo(r, "ready"))

ReadRoles(r) ==
    /\ At(r, "roles")
    /\ request' = [request EXCEPT ![r].at = "overrides",
                                  ![r].byRole = PermsOf(RolesFrom(held))]
    /\ UNCHANGED Data

ReadOverrides(r) ==
    /\ At(r, "overrides")
    /\ request' = [request EXCEPT ![r].at = "delegations",
                                  ![r].granted = OverridesInForce(TRUE),
                                  ![r].revoked = OverridesInForce(FALSE)]
    /\ UNCHANGED Data

\* Without the table the rows carry no permission.
ReadDelegations(r) ==
    /\ At(r, "delegations")
    /\ LET result == Combined(r, IF DelegationsConfer THEN delegated ELSE {})
       IN IF request[r].asks = "preview" THEN Answer(r, result)
          ELSE Keep(r, result)

\* It answers, or a statement fails.
EndRequest(r) ==
    /\ ~At(r, "idle")
    /\ request' = [request EXCEPT ![r] = NoRequest]
    /\ UNCHANGED Data

-----------------------------------------------------------------------------
(* What changes meanwhile.                                                 *)

Change(newOn, newHeld, newOverride, newDelegated) ==
    /\ changes < MaxChanges
    /\ changes' = changes + 1
    /\ on' = newOn /\ held' = newHeld
    /\ override' = newOverride /\ delegated' = newDelegated
    /\ request' = [r \in Requests |->
          IF request[r].at = "idle" THEN request[r]
          ELSE [request[r] EXCEPT !.seen = @ \cup {ThisInstant'}]]

\* Assignments, revocations and their dates (UserAdministration).
ChangeRoles ==
    \E q \in Roles :
       Change(on, IF q \in held THEN held \ {q} ELSE held \cup {q}, override, delegated)

\* Delegations (Delegations) begin or end.
ChangeDelegations ==
    \E p \in Perms :
       Change(on, held, override,
              IF p \in delegated THEN delegated \ {p} ELSE delegated \cup {p})

\* Deactivation and deletion leave the overrides alone: revokeAllForUser of the
\* overrides has no caller.
SwitchUser == Change(~on, held, override, delegated)

OverrideBecomes(o, new) == Change(on, held, [override EXCEPT ![o] = new], delegated)

\* Any operator but the user (U14). Rows already there stay: an override in force
\* may contradict it. A body may date it into the future.
CreateOverride ==
    LET free == {o \in Overrides : override[o].phase = "none"} IN
    \E p \in Perms, granted \in BOOLEAN, phase \in {"future", "inForce"} :
       /\ free # {}
       /\ OverrideBecomes(CHOOSE o \in free : TRUE,
                          [perm |-> p, granted |-> granted, phase |-> phase])

\* revokeOverride ends any row, whatever its dates; time ends or begins one.
EndOverride ==
    \E o \in Overrides :
       /\ override[o].phase \in {"future", "inForce"}
       /\ OverrideBecomes(o, [override[o] EXCEPT !.phase = "ended"])

BeginOverride ==
    \E o \in Overrides :
       /\ override[o].phase = "future"
       /\ OverrideBecomes(o, [override[o] EXCEPT !.phase = "inForce"])

PermissionsNext ==
    \/ \E r \in Requests :
          \/ BeginRequest(r) \/ Ask(r) \/ HasActive(r) \/ HasAdmin(r) \/ Lookup(r)
          \/ InScope(r) \/ ReadRoles(r) \/ ReadOverrides(r) \/ ReadDelegations(r)
          \/ EndRequest(r)
    \/ ChangeRoles \/ ChangeDelegations \/ SwitchUser
    \/ CreateOverride \/ EndOverride \/ BeginOverride

PermissionsSpec == PermissionsInit /\ [][PermissionsNext]_permissionVars

-----------------------------------------------------------------------------
\* Every variable keeps its type.
PermissionsTypeOK ==
    /\ on \in BOOLEAN /\ held \subseteq Roles /\ delegated \subseteq Perms
    /\ override \in [Overrides -> Override]
    /\ request \in [Requests -> Request]
    /\ changes \in 0..MaxChanges

\* The roles reachable from roles, however deep: the least closed superset.
Reachable(roles) ==
    {q \in Roles : \A closed \in SUBSET Roles :
        /\ roles \subseteq closed
        /\ \A k \in closed : Below[k] \subseteq closed
        => q \in closed}

ByRole(s, p) == p \in PermsOf(Reachable(s.held))
ByDelegation(s, p) == DelegationsConfer /\ p \in s.delegated
IsAdmin(s) == Reachable(s.held) \cap AdminRoles # {}

Questioned(r) == At(r, "ready") /\ request[r].answered

\* No permission out of nothing, and immediate revocation: an answer names a
\* permission only if some source conferred it at an instant since the request
\* began, at an instant no revoking override was known throughout, and, but for a
\* preview, the account was active at one; or because hasPermission saw an
\* administrator.
NothingInvented ==
    \A r \in Requests : Questioned(r) =>
       LET seen == request[r].seen IN
       /\ request[r].answer # {} /\ request[r].asks # "preview" => \E s \in seen : s.on
       /\ \A p \in request[r].answer :
             \/ request[r].asks = "has" /\ \E s \in seen : IsAdmin(s)
             \/ /\ \E s \in seen : ByRole(s, p) \/ p \in s.granted \/ ByDelegation(s, p)
                /\ \E s \in seen : p \notin s.revoked

\* Nothing is withheld: a permission one source confers at every instant since the
\* request began, of a user active and not revoked at each, is in the answer; a torn
\* read of the sources costs only permissions that moved.
NothingWithheld ==
    \A r \in Requests : Questioned(r) =>
       LET seen == request[r].seen IN
       \A p \in Perms \ request[r].answer :
          \/ \E s \in seen : ~s.on \/ p \in s.revoked
          \/ /\ \E s \in seen : ~ByRole(s, p)
             /\ \E s \in seen : p \notin s.granted
             /\ \E s \in seen : ~ByDelegation(s, p)

\* What a request is told of its permissions although the sources change under it.
AnswersFaithful == NothingInvented /\ NothingWithheld
=============================================================================
