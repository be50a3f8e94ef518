--------------------------- MODULE UserAdministration ---------------------------
(***************************************************************************)
(* The accounts of tbl_Users and the dated roles of tbl_User_Roles: who is *)
(* created under which name, what a vendor user may hold, and whether an   *)
(* active system administrator remains (rule U15).                         *)
(*                                                                         *)
(* Every rule is a SELECT of its own outside the transaction of the write  *)
(* it guards. Rules on organisation units, scopes and heads (U7, U8, U16)  *)
(* read tables that nothing here writes and may refuse a request (U7 binds *)
(* the whole body where its query wants an id: what the driver makes of it *)
(* is not in the repository); U14 only says that an operator is not the    *)
(* target.                                                                 *)
(***************************************************************************)
EXTENDS Integers, FiniteSets

CONSTANTS
    Users,
    Names,        \* user names and email addresses
    Trimmed,      \* a name without the blanks around it
    Roles,
    VendorRoles,  \* roles whose code begins with VENDOR
    Admin,        \* the role SYSTEM_ADMIN
    Grants,       \* rows of tbl_User_Roles
    Handlers,
    Null

ASSUME UserAdministrationAssumption ==
    /\ Admin \in Roles /\ VendorRoles \subseteq Roles \ {Admin}
    /\ Trimmed \in [Names -> Names]
    /\ \A n \in Names : Trimmed[Trimmed[n]] = Trimmed[n]
    /\ Null \notin Users \cup Names \cup Roles \cup {"INTERNAL", "VENDOR"}

VARIABLES
    user,
    grant,
    job       \* requests in execution

accountVars == <<user, grant, job>>

-----------------------------------------------------------------------------
\* INTERNAL stands for SYSTEM and SERVICE_ACCOUNT too: no rule here tells them apart.
Types == {"INTERNAL", "VENDOR"}

User == [stored : BOOLEAN, active : BOOLEAN, type : Types, name : Names \cup {Null}]

NoUser == [stored |-> FALSE, active |-> FALSE, type |-> "INTERNAL", name |-> Null]

\* A row counts from effective_from until effective_to or IsActive = 0; nothing
\* brings an ended one back, so it is a free row again.
Phases == {"free", "future", "current"}

Grant == [phase : Phases, user : Users \cup {Null}, role : Roles \cup {Null}]

NoGrant == [phase |-> "free", user |-> Null, role |-> Null]

\* overtaken: what the rules of the request looked at has changed since
\* (auxiliary, for the properties).
Job == [at : {"idle", "insert", "write", "writeVendor", "assign", "count", "off"},
        user : Users \cup {Null}, name : Names \cup {Null}, type : Types \cup {Null},
        role : Roles \cup {Null}, deletes : BOOLEAN, overtaken : BOOLEAN]

NoJob == [at |-> "idle", user |-> Null, name |-> Null, type |-> Null,
          role |-> Null, deletes |-> FALSE, overtaken |-> FALSE]

Stored == {u \in Users : user[u].stored}

\* Mutant: accounts that are not active do not count.
TakenByActive(n, self) == \E u \in Stored \ {self} : user[u].active /\ user[u].name = n

\* U1, U2: anybody else, active or not.
Taken(n, self) == \E u \in Stored \ {self} : user[u].name = n

\* V3.
RoleAllowed(type, role) == type = "VENDOR" => role \in VendorRoles

Holders(role) ==
    {u \in Users : \E g \in Grants :
        grant[g].phase = "current" /\ grant[g].user = u /\ grant[g].role = role}

\* countActiveSystemAdmins.
Admins == {u \in Stored : user[u].active} \cap Holders(Admin)

\* Mutant: the target is not counted out.
EnoughAdminsWithTarget == Cardinality(Admins) >= 1

EnoughAdmins == Cardinality(Admins) > 1

Named == [u \in Users |-> user[u].name]

Untrimmed(n) == n # Null /\ Trimmed[n] # n

Start(r, new) == job[r].at = "idle" /\ job' = [job EXCEPT ![r] = new]

\* The other requests, after a statement that wrote.
Noticed(q) ==
    [job[q] EXCEPT !.overtaken =
        \/ @
        \/ job[q].at \in {"insert", "write", "writeVendor"} /\ Named' # Named
        \/ job[q].at \in {"count", "off"} /\ Admins' # Admins]

Notice == job' = [q \in Handlers |-> Noticed(q)]

Done(r) == job' = [q \in Handlers |-> IF q = r THEN NoJob ELSE Noticed(q)]

\* The administrator of the seeds.
AccountsInit ==
    \E u \in Users, n \in Names, g \in Grants :
       /\ user = [x \in Users |->
                    IF x = u THEN [stored |-> TRUE, active |-> TRUE,
                                   type |-> "INTERNAL", name |-> n]
                    ELSE NoUser]
       /\ grant = [h \in Grants |->
                     IF h = g THEN [phase |-> "current", user |-> u, role |-> Admin]
                     ELSE NoGrant]
       /\ job = [r \in Handlers |-> NoJob]

-----------------------------------------------------------------------------
(* UsersService and VendorUsersService: names and types.                   *)

\* Mutant: U5 lets a vendor number pass.
BodyTypesWithVendor == Types

\* U4 and U5: a body of UsersService with userType VENDOR is refused, for want of
\* a vendor or because the vendor's number has no trim().
BodyTypes == {"INTERNAL"}

\* The name is looked up trimmed and stored as the body gives it.
CreateUser(r) ==
    /\ \E n \in Names, t \in BodyTypes :
          /\ ~Taken(Trimmed[n], Null)
          /\ Start(r, [NoJob EXCEPT !.at = "insert", !.name = n, !.type = t])
    /\ UNCHANGED <<user, grant>>

\* Looked up and stored trimmed.
CreateVendorUser(r) ==
    /\ \E n \in Names :
          /\ ~Taken(Trimmed[n], Null)
          /\ Start(r, [NoJob EXCEPT !.at = "insert", !.name = Trimmed[n],
                                    !.type = "VENDOR"])
    /\ UNCHANGED <<user, grant>>

\* An internal user waits for the invitation, a vendor user is active at once.
InsertUser(r) ==
    /\ job[r].at = "insert"
    /\ \E u \in Users \ Stored :
          user' = [user EXCEPT ![u] =
                      [stored |-> TRUE, active |-> job[r].type = "VENDOR",
                       type |-> job[r].type, name |-> job[r].name]]
    /\ UNCHANGED grant
    /\ Done(r)

\* An absent or empty name is neither looked up nor written.
UpdateUser(r) ==
    /\ \E u \in Stored, n \in Names \cup {Null}, t \in BodyTypes \cup {Null} :
          /\ n # Null => ~Taken(Trimmed[n], u)
          /\ Start(r, [NoJob EXCEPT !.at = "write", !.user = u, !.name = n, !.type = t])
    /\ UNCHANGED <<user, grant>>

\* Only the email address, trimmed; an unchanged one is not looked up.
UpdateVendorUser(r) ==
    /\ \E u \in Stored, n \in Names :
          /\ user[u].type = "VENDOR"
          /\ Trimmed[n] # user[u].name => ~Taken(Trimmed[n], u)
          /\ Start(r, [NoJob EXCEPT !.at = "writeVendor", !.user = u,
                                    !.name = Trimmed[n]])
    /\ UNCHANGED <<user, grant>>

Given(new, old) == IF new = Null THEN old ELSE new

\* COALESCE of what the body gives; the vendor statement tests the type again.
WriteUser(r) ==
    /\ job[r].at \in {"write", "writeVendor"}
    /\ LET row == user[job[r].user]
           new == [row EXCEPT !.name = Given(job[r].name, row.name),
                              !.type = Given(job[r].type, row.type)]
       IN  user' = [user EXCEPT ![job[r].user] =
                       IF job[r].at = "writeVendor" /\ row.type # "VENDOR" THEN row ELSE new]
    /\ UNCHANGED grant
    /\ Done(r)

-----------------------------------------------------------------------------
(* UserLifecycleService and VendorUsersService: on and off.                *)

\* The acceptance of an invitation activates by the same statement.
ActivateUser ==
    /\ \E u \in Stored : user' = [user EXCEPT ![u].active = TRUE]
    /\ UNCHANGED grant
    /\ Notice

\* findById and the first SELECT of U15: only a system administrator is counted.
DeactivateUser(r) ==
    /\ \E u \in Stored, deletes \in BOOLEAN :
          /\ deletes \/ user[u].active
          /\ Start(r, [NoJob EXCEPT !.at = IF u \in Holders(Admin) THEN "count" ELSE "off",
                                    !.user = u, !.deletes = deletes])
    /\ UNCHANGED <<user, grant>>

CountAdmins(r) ==
    /\ job[r].at = "count"
    /\ job' = [job EXCEPT ![r] = IF EnoughAdmins THEN [@ EXCEPT !.at = "off"] ELSE NoJob]
    /\ UNCHANGED <<user, grant>>

\* One transaction; a deletion also ends the roles, future ones included.
SwitchOff(r) ==
    /\ job[r].at = "off"
    /\ user' = [user EXCEPT ![job[r].user].active = FALSE]
    /\ grant' = [g \in Grants |->
                    IF job[r].deletes /\ grant[g].user = job[r].user THEN NoGrant
                    ELSE grant[g]]
    /\ Done(r)

\* Neither U14 nor U15.
DeactivateVendorUser ==
    /\ \E u \in Stored :
          /\ user[u].type = "VENDOR"
          /\ user' = [user EXCEPT ![u].active = FALSE]
    /\ UNCHANGED grant
    /\ Notice

-----------------------------------------------------------------------------
(* UserRolesService.                                                       *)

AssignRole(r) ==
    /\ \E u \in Stored, role \in Roles :
          /\ RoleAllowed(user[u].type, role)
          /\ Start(r, [NoJob EXCEPT !.at = "assign", !.user = u, !.role = role])
    /\ UNCHANGED <<user, grant>>

\* The same role may be assigned twice.
InsertGrant(r) ==
    /\ job[r].at = "assign"
    /\ \E g \in Grants, phase \in {"future", "current"} :
          /\ grant[g].phase = "free"
          /\ grant' = [grant EXCEPT ![g] =
                          [phase |-> phase, user |-> job[r].user, role |-> job[r].role]]
    /\ UNCHANGED user
    /\ Done(r)

\* effective_to = now, by an operator or because it was in the body: U15 is not
\* asked.
EndGrant ==
    /\ \E g \in Grants :
          /\ grant[g].phase # "free"
          /\ grant' = [grant EXCEPT ![g] = NoGrant]
    /\ UNCHANGED user
    /\ Notice

\* effective_from is reached.
BeginGrant ==
    /\ \E g \in Grants :
          /\ grant[g].phase = "future"
          /\ grant' = [grant EXCEPT ![g].phase = "current"]
    /\ UNCHANGED user
    /\ Notice

\* A rule refuses, a statement fails or the process dies.
JobFails(r) ==
    /\ job[r].at # "idle"
    /\ job' = [job EXCEPT ![r] = NoJob]
    /\ UNCHANGED <<user, grant>>

AccountsNext ==
    \/ \E r \in Handlers :
          \/ CreateUser(r) \/ CreateVendorUser(r) \/ InsertUser(r)
          \/ UpdateUser(r) \/ UpdateVendorUser(r) \/ WriteUser(r)
          \/ DeactivateUser(r) \/ CountAdmins(r) \/ SwitchOff(r)
          \/ AssignRole(r) \/ InsertGrant(r)
          \/ JobFails(r)
    \/ ActivateUser \/ DeactivateVendorUser \/ EndGrant \/ BeginGrant

AccountsSpec == AccountsInit /\ [][AccountsNext]_accountVars

-----------------------------------------------------------------------------
\* Every variable keeps its type.
AccountsTypeOK ==
    /\ user \in [Users -> User]
    /\ grant \in [Grants -> Grant]
    /\ job \in [Handlers -> Job]

\* Rules V1 and V3: a vendor user never holds an internal role, present or future,
\* whichever of the two services created it, changed its type or gave it the role.
VendorRolesOnly ==
    \A g \in Grants :
       grant[g].phase # "free" /\ user[grant[g].user].type = "VENDOR"
       => grant[g].role \in VendorRoles

\* Rule U15: the last active system administrator disappears only because a role
\* ends (no rule asks then) or in a deactivation or deletion that counted before the
\* administrators changed. The vendor deactivation, which does not count, never
\* does it.
LastAdminExplained ==
    [][Admins # {} /\ Admins' = {}
       => \/ UNCHANGED user
          \/ \E r \in Handlers : job[r].at = "off" /\ job'[r].at = "idle"
                                 /\ job[r].overtaken]_accountVars

\* Rules U1 and U2: two accounts get the same name only from a request that looked
\* it up before another one wrote a name, or from UsersService for a name with
\* blanks around it, which is looked up without them and stored with them.
NameExplained ==
    [][\A u, v \in Users :
          /\ u # v /\ user'[u].name = user'[v].name /\ user'[u].name # Null
          /\ user[u].name # user[v].name
          => \E r \in Handlers : /\ job[r].at \in {"insert", "write", "writeVendor"}
                                 /\ job'[r].at = "idle"
                                 /\ job[r].overtaken \/ Untrimmed(job[r].name)
      ]_accountVars
=============================================================================
