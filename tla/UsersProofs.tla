------------------------------ MODULE UsersProofs ------------------------------
(* Theorems about UserAdministration: which roles vendors hold, when the last *)
(* administrator disappears, and when two accounts get one name. And about    *)
(* UserCredentials: its types, what a token can do at most, how many can be   *)
(* outstanding, and what the password history remembers.                      *)
EXTENDS UserAdministration, UserCredentials, FiniteSetTheorems, SequenceTheorems, TLAPS

-----------------------------------------------------------------------------
\* The name that was looked up is the one to store, and no other was written since.
Decided(j) == ~j.overtaken /\ ~Untrimmed(j.name)

\* What the fields of a request in execution mean. Unless it was overtaken, what
\* its rules saw still holds.
Sound(j) ==
    /\ j.at = "insert" =>
          /\ j.type \in Types /\ j.name \in Names
          /\ Decided(j) => \A x \in Users : user[x].name # j.name
    /\ j.at \in {"write", "writeVendor"} =>
          /\ j.user \in Stored /\ j.type \in {"INTERNAL", Null}
          /\ Decided(j) /\ j.name # Null =>
                \/ user[j.user].name = j.name
                \/ \A x \in Users \ {j.user} : user[x].name # j.name
    /\ j.at = "assign" =>
          /\ j.user \in Stored /\ j.role \in Roles
          /\ RoleAllowed(user[j.user].type, j.role)
    /\ j.at \in {"count", "off"} => j.user \in Stored
    /\ j.at = "off" /\ ~j.overtaken => Admins # {j.user}

JobOK(r) == Sound(job[r])

GrantOK(g) ==
    grant[g].phase # "free" =>
       /\ grant[g].user \in Stored /\ grant[g].role \in Roles
       /\ RoleAllowed(user[grant[g].user].type, grant[g].role)

\* The inductive invariant.
AccountsInv ==
    /\ AccountsTypeOK
    /\ \A u \in Users : ~user[u].stored => user[u].name = Null
    /\ \A g \in Grants : GrantOK(g)
    /\ \A r \in Handlers : JobOK(r)

\* Users stay, and become at most less restricted.
Kept ==
    /\ Stored \subseteq Stored'
    /\ \A x \in Stored : user'[x].type = user[x].type \/ user'[x].type = "INTERNAL"

-----------------------------------------------------------------------------
LEMMA NoJobTyped == NoJob \in Job /\ NoJob.at = "idle"
BY DEF NoJob, Job

LEMMA NoJobSound == Sound(NoJob)
BY NoJobTyped DEF Sound

\* Noticing changes nothing but overtaken.
LEMMA NoticedFields ==
    ASSUME AccountsTypeOK, NEW q \in Handlers
    PROVE  /\ Noticed(q) \in Job
           /\ Noticed(q).at = job[q].at /\ Noticed(q).user = job[q].user
           /\ Noticed(q).name = job[q].name /\ Noticed(q).type = job[q].type
           /\ Noticed(q).role = job[q].role /\ Noticed(q).deletes = job[q].deletes
           /\ job[q].overtaken => Noticed(q).overtaken
           /\ job[q].at \in {"insert", "write", "writeVendor"} /\ Named' # Named
                 => Noticed(q).overtaken
           /\ job[q].at \in {"count", "off"} /\ Admins' # Admins
                 => Noticed(q).overtaken
<1> DEFINE flag == \/ job[q].overtaken
                   \/ job[q].at \in {"insert", "write", "writeVendor"} /\ Named' # Named
                   \/ job[q].at \in {"count", "off"} /\ Admins' # Admins
<1>1. job[q] \in Job
  BY DEF AccountsTypeOK
<1>2. flag \in BOOLEAN
  BY <1>1 DEF Job
<1>3. Noticed(q) = [job[q] EXCEPT !.overtaken = flag]
  BY DEF Noticed
<1>4. flag <=> \/ job[q].overtaken
               \/ job[q].at \in {"insert", "write", "writeVendor"} /\ Named' # Named
               \/ job[q].at \in {"count", "off"} /\ Admins' # Admins
  BY <1>2
<1> HIDE DEF flag
<1>5. QED  BY <1>1, <1>2, <1>3, <1>4 DEF Job

LEMMA NamedSays ==
    ASSUME Named' = Named, NEW x \in Users
    PROVE  user'[x].name = user[x].name
<1>1. Named[x] = user[x].name /\ Named'[x] = user'[x].name
  BY DEF Named
<1>2. QED  BY <1>1

\* A request that only notices a write stays sound.
LEMMA NoticeKeeps ==
    ASSUME AccountsInv, Kept, NEW q \in Handlers, job'[q] = Noticed(q)
    PROVE  JobOK(q)'
<1>0. AccountsTypeOK /\ Sound(job[q])
  BY DEF AccountsInv, JobOK
<1> DEFINE j == job[q]
           k == job'[q]
<1>1. /\ k.at = j.at /\ k.user = j.user /\ k.name = j.name /\ k.type = j.type
      /\ k.role = j.role
      /\ ~k.overtaken => ~j.overtaken
      /\ j.at \in {"insert", "write", "writeVendor"} /\ ~k.overtaken => Named' = Named
      /\ j.at \in {"count", "off"} /\ ~k.overtaken => Admins' = Admins
  BY <1>0, NoticedFields
<1>2. k.at = "insert" =>
         /\ k.type \in Types /\ k.name \in Names
         /\ Decided(k) => \A x \in Users : user'[x].name # k.name
  BY <1>0, <1>1, NamedSays DEF Sound, Decided
<1>3. k.at \in {"write", "writeVendor"} =>
         /\ k.user \in Stored' /\ k.type \in {"INTERNAL", Null}
         /\ Decided(k) /\ k.name # Null =>
               \/ user'[k.user].name = k.name
               \/ \A x \in Users \ {k.user} : user'[x].name # k.name
  <2> SUFFICES ASSUME k.at \in {"write", "writeVendor"}
               PROVE  /\ k.user \in Stored' /\ k.type \in {"INTERNAL", Null}
                      /\ Decided(k) /\ k.name # Null =>
                            \/ user'[k.user].name = k.name
                            \/ \A x \in Users \ {k.user} : user'[x].name # k.name
    OBVIOUS
  <2>1. /\ j.user \in Stored /\ j.user \in Users /\ j.type \in {"INTERNAL", Null}
        /\ Decided(j) /\ j.name # Null =>
              \/ user[j.user].name = j.name
              \/ \A x \in Users \ {j.user} : user[x].name # j.name
    BY <1>0, <1>1 DEF Sound, Stored
  <2>2. Decided(k) => Decided(j) /\ \A x \in Users : user'[x].name = user[x].name
    BY <1>1, NamedSays DEF Decided
  <2> HIDE DEF j, k
  <2>3. QED  BY <1>1, <2>1, <2>2 DEF Kept
<1>4. k.at = "assign" =>
         /\ k.user \in Stored' /\ k.role \in Roles
         /\ RoleAllowed(user'[k.user].type, k.role)
  BY <1>0, <1>1 DEF Sound, Kept, RoleAllowed
<1>5. k.at \in {"count", "off"} => k.user \in Stored'
  BY <1>0, <1>1 DEF Sound, Kept
<1>6. k.at = "off" /\ ~k.overtaken => Admins' # {k.user}
  BY <1>0, <1>1 DEF Sound
<1> HIDE DEF j, k
<1>7. Sound(job[q])'
  BY <1>2, <1>3, <1>4, <1>5, <1>6 DEF Sound, k
<1>8. QED  BY <1>7 DEF JobOK

\* Roles in force stay allowed.
LEMMA GrantsKept ==
    ASSUME AccountsInv, Kept, UNCHANGED grant
    PROVE  \A g \in Grants : GrantOK(g)'
BY DEF AccountsInv, GrantOK, Kept, RoleAllowed

\* Starting or moving a request.
LEMMA StartKeeps ==
    ASSUME AccountsInv, NEW r \in Handlers, NEW new \in Job, Sound(new),
           job' = [job EXCEPT ![r] = new], UNCHANGED <<user, grant>>
    PROVE  AccountsInv'
<1>1. AccountsTypeOK'
  BY DEF AccountsInv, AccountsTypeOK
<1>2. Stored' = Stored /\ Admins' = Admins
  BY DEF Stored, Admins, Holders
<1>3. ASSUME NEW q \in Handlers PROVE JobOK(q)'
  <2>1. job'[q] = IF q = r THEN new ELSE job[q]
    BY DEF AccountsInv, AccountsTypeOK
  <2>2. Sound(job'[q])
    BY <2>1 DEF AccountsInv, JobOK
  <2>3. QED  BY <1>2, <2>2 DEF Sound, JobOK
<1>4. \A g \in Grants : GrantOK(g)'
  BY <1>2 DEF AccountsInv, GrantOK
<1>5. QED  BY <1>1, <1>3, <1>4 DEF AccountsInv

LEMMA CreateKeeps ==
    ASSUME AccountsInv, NEW r \in Handlers, CreateUser(r) \/ CreateVendorUser(r)
    PROVE  AccountsInv'
<1>1. PICK n \in Names, t \in Types :
         /\ Untrimmed(n) \/ ~Taken(n, Null)
         /\ job' = [job EXCEPT ![r] = [NoJob EXCEPT !.at = "insert", !.name = n, !.type = t]]
  <2>1. CASE CreateUser(r)
    BY <2>1, UserAdministrationAssumption DEF CreateUser, Start, BodyTypes, Types, Untrimmed
  <2>2. CASE CreateVendorUser(r)
    BY <2>2, UserAdministrationAssumption DEF CreateVendorUser, Start, Types
  <2>3. QED  BY <2>1, <2>2
<1> DEFINE new == [NoJob EXCEPT !.at = "insert", !.name = n, !.type = t]
<1>2. /\ new \in Job /\ new.at = "insert" /\ new.name = n /\ new.type = t
  BY DEF NoJob, Job
<1>3. ~Untrimmed(n) => \A x \in Users : user[x].name # n
  <2>1. ~Untrimmed(n) => \A x \in Stored : user[x].name # n
    BY <1>1, UserAdministrationAssumption DEF Taken, Stored
  <2>2. QED  BY <2>1, UserAdministrationAssumption DEF AccountsInv, Stored
<1> HIDE DEF new
<1>4. Sound(new)
  BY <1>2, <1>3 DEF Sound, Decided
<1>5. job' = [job EXCEPT ![r] = new] /\ UNCHANGED <<user, grant>>
  BY <1>1 DEF new, CreateUser, CreateVendorUser
<1>6. QED  BY <1>2, <1>4, <1>5, StartKeeps

LEMMA UpdateKeeps ==
    ASSUME AccountsInv, NEW r \in Handlers, UpdateUser(r) \/ UpdateVendorUser(r)
    PROVE  AccountsInv'
<1>1. PICK u \in Stored, n \in Names \cup {Null}, new \in Job :
         /\ n # Null => user[u].name = n \/ Untrimmed(n) \/ ~Taken(n, u)
         /\ new.at \in {"write", "writeVendor"} /\ new.type \in {"INTERNAL", Null}
         /\ new.user = u /\ new.name = n
         /\ job' = [job EXCEPT ![r] = new]
  <2>1. CASE UpdateUser(r)
    <3>1. PICK u \in Stored, n \in Names \cup {Null}, t \in {"INTERNAL", Null} :
             /\ n # Null => Untrimmed(n) \/ ~Taken(n, u)
             /\ job' = [job EXCEPT ![r] = [NoJob EXCEPT !.at = "write", !.user = u,
                                                        !.name = n, !.type = t]]
      BY <2>1 DEF UpdateUser, Start, BodyTypes, Untrimmed
    <3> DEFINE j == [NoJob EXCEPT !.at = "write", !.user = u, !.name = n, !.type = t]
    <3>2. j \in Job /\ j.at = "write" /\ j.user = u /\ j.name = n /\ j.type = t
      BY DEF NoJob, Job, Types, Stored
    <3> HIDE DEF j
    <3>3. QED  BY <3>1, <3>2 DEF j
  <2>2. CASE UpdateVendorUser(r)
    <3>1. PICK u \in Stored, n \in Names :
             /\ n # user[u].name => ~Taken(n, u)
             /\ job' = [job EXCEPT ![r] = [NoJob EXCEPT !.at = "writeVendor", !.user = u,
                                                        !.name = n]]
      BY <2>2, UserAdministrationAssumption DEF UpdateVendorUser, Start
    <3> DEFINE j == [NoJob EXCEPT !.at = "writeVendor", !.user = u, !.name = n]
    <3>2. j \in Job /\ j.at = "writeVendor" /\ j.user = u /\ j.name = n /\ j.type = Null
      BY DEF NoJob, Job, Types, Stored
    <3> HIDE DEF j
    <3>3. QED  BY <3>1, <3>2 DEF j
  <2>3. QED  BY <2>1, <2>2
<1>2. n # Null /\ ~Untrimmed(n) => user[u].name = n \/ \A x \in Users \ {u} : user[x].name # n
  BY <1>1 DEF AccountsInv, Taken, Stored
<1>3. Sound(new)
  BY <1>1, <1>2 DEF Sound, Decided
<1>4. UNCHANGED <<user, grant>>
  BY DEF UpdateUser, UpdateVendorUser
<1>5. QED  BY <1>1, <1>3, <1>4, StartKeeps

LEMMA DeactivateKeeps ==
    ASSUME AccountsInv, NEW r \in Handlers, DeactivateUser(r)
    PROVE  AccountsInv'
<1>1. PICK u \in Stored, deletes \in BOOLEAN :
         job' = [job EXCEPT ![r] =
                   [NoJob EXCEPT !.at = IF u \in Holders(Admin) THEN "count" ELSE "off",
                                 !.user = u, !.deletes = deletes]]
  BY DEF DeactivateUser, Start
<1>2. PICK at \in {"count", "off"} : at = IF u \in Holders(Admin) THEN "count" ELSE "off"
  OBVIOUS
<1> DEFINE new == [NoJob EXCEPT !.at = at, !.user = u, !.deletes = deletes]
<1>3. /\ new \in Job /\ new.at = at /\ new.user = u
  BY DEF NoJob, Job, Stored
<1>4. at = "off" => Admins # {u}
  BY <1>2 DEF Admins
<1> HIDE DEF new
<1>5. Sound(new)
  BY <1>3, <1>4 DEF Sound
<1>6. job' = [job EXCEPT ![r] = new] /\ UNCHANGED <<user, grant>>
  BY <1>1, <1>2 DEF new, DeactivateUser
<1>7. QED  BY <1>3, <1>5, <1>6, StartKeeps

LEMMA CountKeeps ==
    ASSUME AccountsInv, NEW r \in Handlers, CountAdmins(r)
    PROVE  AccountsInv'
<1>0. job[r] \in Job /\ job[r].at = "count" /\ Sound(job[r])
  BY DEF AccountsInv, AccountsTypeOK, JobOK, CountAdmins
<1>1. CASE EnoughAdmins
  <2>1. PICK new \in Job : new = [job[r] EXCEPT !.at = "off"]
    BY <1>0 DEF Job
  <2>2. /\ new.at = "off" /\ new.user = job[r].user
    BY <1>0, <2>1 DEF Job
  <2>3. \A u : Admins # {u}
    <3> SUFFICES ASSUME NEW u, Admins = {u} PROVE FALSE
      OBVIOUS
    <3>1. Cardinality(Admins) = 1
      BY FS_Singleton
    <3>2. QED  BY <1>1, <3>1 DEF EnoughAdmins
  <2>4. Sound(new)
    BY <1>0, <2>2, <2>3 DEF Sound
  <2>5. job' = [job EXCEPT ![r] = new] /\ UNCHANGED <<user, grant>>
    BY <1>1, <2>1 DEF CountAdmins
  <2>6. QED  BY <2>4, <2>5, StartKeeps
<1>2. CASE ~EnoughAdmins
  <2>1. job' = [job EXCEPT ![r] = NoJob] /\ UNCHANGED <<user, grant>>
    BY <1>2 DEF CountAdmins
  <2>2. QED  BY <2>1, NoJobTyped, NoJobSound, StartKeeps
<1>3. QED  BY <1>1, <1>2

LEMMA AssignKeeps ==
    ASSUME AccountsInv, NEW r \in Handlers, AssignRole(r)
    PROVE  AccountsInv'
<1>1. PICK u \in Stored, role \in Roles :
         /\ RoleAllowed(user[u].type, role)
         /\ job' = [job EXCEPT ![r] = [NoJob EXCEPT !.at = "assign", !.user = u,
                                                    !.role = role]]
  BY DEF AssignRole, Start
<1> DEFINE new == [NoJob EXCEPT !.at = "assign", !.user = u, !.role = role]
<1>2. /\ new \in Job /\ new.at = "assign" /\ new.user = u /\ new.role = role
  BY DEF NoJob, Job, Stored
<1> HIDE DEF new
<1>3. Sound(new)
  BY <1>1, <1>2 DEF Sound
<1>4. job' = [job EXCEPT ![r] = new] /\ UNCHANGED <<user, grant>>
  BY <1>1 DEF new, AssignRole
<1>5. QED  BY <1>2, <1>3, <1>4, StartKeeps

-----------------------------------------------------------------------------
(* Statements that write.                                                    *)

\* A write that keeps the users and whose requests notice it.
LEMMA WriteKeeps ==
    ASSUME AccountsInv, Kept, user' \in [Users -> User], grant' \in [Grants -> Grant],
           \A u \in Users : ~user'[u].stored => user'[u].name = Null,
           \A g \in Grants : GrantOK(g)',
           Notice \/ \E r \in Handlers : Done(r)
    PROVE  AccountsInv'
<1>0. AccountsTypeOK
  BY DEF AccountsInv
<1>1. job' \in [Handlers -> Job]
  BY <1>0, NoticedFields, NoJobTyped DEF Notice, Done
<1>2. ASSUME NEW q \in Handlers PROVE JobOK(q)'
  <2>1. CASE job'[q] = Noticed(q)
    BY <2>1, NoticeKeeps
  <2>2. CASE job'[q] = NoJob
    BY <2>2, NoJobTyped DEF JobOK, Sound
  <2>3. job'[q] = Noticed(q) \/ job'[q] = NoJob
    BY DEF Notice, Done
  <2>4. QED  BY <2>1, <2>2, <2>3
<1>3. AccountsTypeOK'
  BY <1>1 DEF AccountsTypeOK
<1>4. QED  BY <1>2, <1>3 DEF AccountsInv

LEMMA InsertUserKeeps ==
    ASSUME AccountsInv, NEW r \in Handlers, InsertUser(r)
    PROVE  AccountsInv'
<1>0. user \in [Users -> User] /\ grant \in [Grants -> Grant]
  BY DEF AccountsInv, AccountsTypeOK
<1>1. job[r].type \in Types /\ job[r].name \in Names
  BY DEF AccountsInv, JobOK, Sound, InsertUser
<1>2. PICK u \in Users \ Stored :
         user' = [user EXCEPT ![u] = [stored |-> TRUE, active |-> job[r].type = "VENDOR",
                                      type |-> job[r].type, name |-> job[r].name]]
  BY DEF InsertUser
<1>3. /\ user' \in [Users -> User] /\ user'[u].stored
      /\ \A x \in Users \ {u} : user'[x] = user[x]
  BY <1>0, <1>1, <1>2 DEF User
<1>4. Kept
  BY <1>3 DEF Kept, Stored
<1>5. \A x \in Users : ~user'[x].stored => user'[x].name = Null
  BY <1>3 DEF AccountsInv
<1>6. UNCHANGED grant /\ Done(r)
  BY DEF InsertUser
<1>7. QED  BY <1>0, <1>3, <1>4, <1>5, <1>6, GrantsKept, WriteKeeps

\* What an update does to its row.
LEMMA WriteUserEffect ==
    ASSUME AccountsInv, NEW r \in Handlers, WriteUser(r)
    PROVE  /\ job[r].user \in Stored /\ user' \in [Users -> User]
           /\ \A x \in Users \ {job[r].user} : user'[x] = user[x]
           /\ user'[job[r].user].stored = user[job[r].user].stored
           /\ user'[job[r].user].active = user[job[r].user].active
           /\ \/ user'[job[r].user].type = user[job[r].user].type
              \/ user'[job[r].user].type = "INTERNAL"
           /\ \/ user'[job[r].user].name = user[job[r].user].name
              \/ job[r].name # Null /\ user'[job[r].user].name = job[r].name
<1>0. user \in [Users -> User] /\ job[r] \in Job
  BY DEF AccountsInv, AccountsTypeOK
<1>1. job[r].user \in Stored /\ job[r].user \in Users /\ job[r].type \in {"INTERNAL", Null}
  BY DEF AccountsInv, JobOK, Sound, WriteUser, Stored
<1> DEFINE w == job[r].user
           old == user[w]
           new == [old EXCEPT !.name = Given(job[r].name, old.name),
                              !.type = Given(job[r].type, old.type)]
<1>2. old \in User
  BY <1>0, <1>1
<1>3. /\ Given(job[r].name, old.name) \in Names \cup {Null}
      /\ Given(job[r].type, old.type) \in Types
      /\ Given(job[r].type, old.type) \in {old.type, "INTERNAL"}
      /\ \/ Given(job[r].name, old.name) = old.name
         \/ job[r].name # Null /\ Given(job[r].name, old.name) = job[r].name
  BY <1>0, <1>1, <1>2 DEF Given, User, Job, Types
<1>4. /\ new \in User /\ new.stored = old.stored /\ new.active = old.active
      /\ new.name = Given(job[r].name, old.name)
      /\ new.type = Given(job[r].type, old.type)
  BY <1>2, <1>3 DEF User
<1>5. user' = [user EXCEPT ![w] =
                  IF job[r].at = "writeVendor" /\ old.type # "VENDOR" THEN old ELSE new]
  BY DEF WriteUser
<1> HIDE DEF new
<1>6. QED  BY <1>0, <1>1, <1>2, <1>3, <1>4, <1>5

LEMMA WriteUserKeeps ==
    ASSUME AccountsInv, NEW r \in Handlers, WriteUser(r)
    PROVE  AccountsInv'
<1>0. grant \in [Grants -> Grant]
  BY DEF AccountsInv, AccountsTypeOK
<1>1. /\ job[r].user \in Stored /\ user' \in [Users -> User]
      /\ \A x \in Users \ {job[r].user} : user'[x] = user[x]
      /\ user'[job[r].user].stored = user[job[r].user].stored
      /\ \/ user'[job[r].user].type = user[job[r].user].type
         \/ user'[job[r].user].type = "INTERNAL"
  BY WriteUserEffect
<1>2. Kept
  BY <1>1 DEF Kept, Stored
<1>3. \A x \in Users : ~user'[x].stored => user'[x].name = Null
  BY <1>1 DEF AccountsInv, Stored
<1>4. UNCHANGED grant /\ Done(r)
  BY DEF WriteUser
<1>5. QED  BY <1>0, <1>1, <1>2, <1>3, <1>4, GrantsKept, WriteKeeps

\* A statement that switches an account on or off.
LEMMA SwitchEffect ==
    ASSUME AccountsInv, NEW u \in Users, NEW b \in BOOLEAN,
           user' = [user EXCEPT ![u].active = b]
    PROVE  /\ user' \in [Users -> User] /\ Kept /\ Stored' = Stored
           /\ \A x \in Users : /\ user'[x].stored = user[x].stored
                               /\ user'[x].name = user[x].name
                               /\ user'[x].type = user[x].type
                               /\ x # u => user'[x] = user[x]
           /\ user'[u].active = b
           /\ \A x \in Users : ~user'[x].stored => user'[x].name = Null
<1>0. user \in [Users -> User]
  BY DEF AccountsInv, AccountsTypeOK
<1>1. /\ user' \in [Users -> User] /\ user'[u].active = b
      /\ \A x \in Users : /\ user'[x].stored = user[x].stored
                          /\ user'[x].name = user[x].name
                          /\ user'[x].type = user[x].type
                          /\ x # u => user'[x] = user[x]
  BY <1>0 DEF User
<1>2. QED  BY <1>1 DEF Kept, Stored, AccountsInv

LEMMA SwitchOffKeeps ==
    ASSUME AccountsInv, NEW r \in Handlers, SwitchOff(r)
    PROVE  AccountsInv'
<1>0. grant \in [Grants -> Grant]
  BY DEF AccountsInv, AccountsTypeOK
<1>1. job[r].user \in Users /\ user' = [user EXCEPT ![job[r].user].active = FALSE]
  BY DEF AccountsInv, JobOK, Sound, SwitchOff, Stored
<1>2. /\ user' \in [Users -> User] /\ Kept
      /\ \A x \in Users : ~user'[x].stored => user'[x].name = Null
  BY <1>1, SwitchEffect
<1>3. \A g \in Grants : grant'[g] = NoGrant \/ grant'[g] = grant[g]
  BY DEF SwitchOff
<1>4. grant' \in [Grants -> Grant]
  BY <1>0 DEF SwitchOff, Grant, NoGrant, Phases
<1>5. ASSUME NEW g \in Grants PROVE GrantOK(g)'
  <2>1. CASE grant'[g] = NoGrant
    BY <2>1 DEF GrantOK, NoGrant
  <2>2. CASE grant'[g] = grant[g]
    BY <1>2, <2>2 DEF AccountsInv, GrantOK, Kept, RoleAllowed
  <2>3. QED  BY <1>3, <2>1, <2>2
<1>6. Done(r)
  BY DEF SwitchOff
<1>7. QED  BY <1>2, <1>4, <1>5, <1>6, WriteKeeps

LEMMA SwitchKeeps ==
    ASSUME AccountsInv, ActivateUser \/ DeactivateVendorUser
    PROVE  AccountsInv'
<1>0. grant \in [Grants -> Grant]
  BY DEF AccountsInv, AccountsTypeOK
<1>1. PICK u \in Users, b \in BOOLEAN : user' = [user EXCEPT ![u].active = b]
  BY DEF ActivateUser, DeactivateVendorUser, Stored
<1>2. /\ user' \in [Users -> User] /\ Kept
      /\ \A x \in Users : ~user'[x].stored => user'[x].name = Null
  BY <1>1, SwitchEffect
<1>3. UNCHANGED grant /\ Notice
  BY DEF ActivateUser, DeactivateVendorUser
<1>4. QED  BY <1>0, <1>2, <1>3, GrantsKept, WriteKeeps

LEMMA GrantKeeps ==
    ASSUME AccountsInv, (\E r \in Handlers : InsertGrant(r)) \/ EndGrant \/ BeginGrant
    PROVE  AccountsInv'
<1>0. user \in [Users -> User] /\ grant \in [Grants -> Grant]
  BY DEF AccountsInv, AccountsTypeOK
<1>1. UNCHANGED user /\ (Notice \/ \E r \in Handlers : Done(r))
  BY DEF InsertGrant, EndGrant, BeginGrant
<1>2. Kept /\ Stored' = Stored
  BY <1>1 DEF Kept, Stored
<1>3. grant' \in [Grants -> Grant] /\ \A g \in Grants : GrantOK(g)'
  <2>1. ASSUME NEW r \in Handlers, InsertGrant(r)
        PROVE  grant' \in [Grants -> Grant] /\ \A g \in Grants : GrantOK(g)'
    <3>1. PICK h \in Grants, phase \in {"future", "current"} :
             grant' = [grant EXCEPT ![h] = [phase |-> phase, user |-> job[r].user,
                                            role |-> job[r].role]]
      BY <2>1 DEF InsertGrant
    <3>2. /\ job[r].user \in Stored /\ job[r].user \in Users /\ job[r].role \in Roles
          /\ RoleAllowed(user[job[r].user].type, job[r].role)
      BY <2>1 DEF AccountsInv, JobOK, Sound, InsertGrant, Stored
    <3>3. /\ grant' \in [Grants -> Grant]
          /\ grant'[h].user = job[r].user /\ grant'[h].role = job[r].role
          /\ \A g \in Grants \ {h} : grant'[g] = grant[g]
      BY <1>0, <3>1, <3>2 DEF Grant, Phases
    <3>4. QED  BY <1>1, <1>2, <3>2, <3>3 DEF AccountsInv, GrantOK
  <2>2. CASE EndGrant
    <3>1. PICK h \in Grants : grant' = [grant EXCEPT ![h] = NoGrant]
      BY <2>2 DEF EndGrant
    <3>2. /\ grant' \in [Grants -> Grant] /\ grant'[h].phase = "free"
          /\ \A g \in Grants \ {h} : grant'[g] = grant[g]
      BY <1>0, <3>1 DEF Grant, Phases, NoGrant
    <3>3. QED  BY <1>1, <1>2, <3>2 DEF AccountsInv, GrantOK
  <2>3. CASE BeginGrant
    <3>1. PICK h \in Grants : /\ grant[h].phase = "future"
                              /\ grant' = [grant EXCEPT ![h].phase = "current"]
      BY <2>3 DEF BeginGrant
    <3>2. /\ grant' \in [Grants -> Grant]
          /\ grant'[h].user = grant[h].user /\ grant'[h].role = grant[h].role
          /\ \A g \in Grants \ {h} : grant'[g] = grant[g]
      BY <1>0, <3>1 DEF Grant, Phases
    <3>3. QED  BY <1>1, <1>2, <3>1, <3>2 DEF AccountsInv, GrantOK
  <2>4. QED  BY <2>1, <2>2, <2>3
<1>4. \A x \in Users : ~user'[x].stored => user'[x].name = Null
  BY <1>1 DEF AccountsInv
<1>5. QED  BY <1>0, <1>1, <1>2, <1>3, <1>4, WriteKeeps

-----------------------------------------------------------------------------
LEMMA InitAccountsInv == AccountsInit => AccountsInv
<1> SUFFICES ASSUME AccountsInit PROVE AccountsInv
  OBVIOUS
<1>1. PICK u \in Users, n \in Names, g \in Grants :
         /\ user = [x \in Users |->
                      IF x = u THEN [stored |-> TRUE, active |-> TRUE,
                                     type |-> "INTERNAL", name |-> n]
                      ELSE NoUser]
         /\ grant = [h \in Grants |->
                       IF h = g THEN [phase |-> "current", user |-> u, role |-> Admin]
                       ELSE NoGrant]
         /\ job = [r \in Handlers |-> NoJob]
  BY DEF AccountsInit
<1>2. AccountsTypeOK
  <2>1. user \in [Users -> User]
    BY <1>1 DEF User, NoUser, Types
  <2>2. grant \in [Grants -> Grant]
    BY <1>1, UserAdministrationAssumption DEF Grant, NoGrant, Phases
  <2>3. QED  BY <1>1, <2>1, <2>2, NoJobTyped DEF AccountsTypeOK
<1>3. \A x \in Users : ~user[x].stored => user[x].name = Null
  BY <1>1 DEF NoUser
<1>4. \A h \in Grants : GrantOK(h)
  BY <1>1, UserAdministrationAssumption DEF GrantOK, NoGrant, Stored, RoleAllowed
<1>5. \A r \in Handlers : JobOK(r)
  BY <1>1, NoJobSound DEF JobOK
<1>6. QED  BY <1>2, <1>3, <1>4, <1>5 DEF AccountsInv

LEMMA AccountsInvStep == AccountsInv /\ [AccountsNext]_accountVars => AccountsInv'
<1> SUFFICES ASSUME AccountsInv, [AccountsNext]_accountVars PROVE AccountsInv'
  OBVIOUS
<1>1. ASSUME NEW r \in Handlers, JobFails(r) PROVE AccountsInv'
  <2>1. job' = [job EXCEPT ![r] = NoJob] /\ UNCHANGED <<user, grant>>
    BY <1>1 DEF JobFails
  <2>2. QED  BY <2>1, NoJobTyped, NoJobSound, StartKeeps
<1>2. CASE UNCHANGED accountVars
  BY <1>2 DEF accountVars, AccountsInv, AccountsTypeOK, JobOK, Sound, GrantOK, Stored,
              Admins, Holders
<1>3. QED
  BY <1>1, <1>2, CreateKeeps, InsertUserKeeps, UpdateKeeps, WriteUserKeeps,
     DeactivateKeeps, CountKeeps, SwitchOffKeeps, AssignKeeps, GrantKeeps,
     SwitchKeeps DEF AccountsNext

\* The inductive invariant holds in every reachable state: grants respect the type of
\* their user, and what a request tested stands unless it was overtaken.
THEOREM AccountsInvariance == AccountsSpec => []AccountsInv
<1>1. AccountsInit => AccountsInv
  BY InitAccountsInv
<1>2. AccountsInv /\ [AccountsNext]_accountVars => AccountsInv'
  BY AccountsInvStep
<1>3. QED  BY <1>1, <1>2, PTL DEF AccountsSpec

\* The rows of tbl_Users and tbl_User_Roles and the locals of the services keep
\* their types.
THEOREM AccountsTypeCorrect == AccountsSpec => []AccountsTypeOK
<1>1. AccountsInv => AccountsTypeOK
  BY DEF AccountsInv
<1>2. QED  BY <1>1, AccountsInvariance, PTL

\* Rules V1 and V3 for any number of users, roles and requests: no path through
\* UsersService, VendorUsersService and UserRolesService gives a vendor user an
\* internal role.
THEOREM VendorsHoldVendorRoles == AccountsSpec => []VendorRolesOnly
<1>1. AccountsInv => VendorRolesOnly
  BY DEF AccountsInv, GrantOK, VendorRolesOnly, RoleAllowed
<1>2. QED  BY <1>1, AccountsInvariance, PTL

-----------------------------------------------------------------------------
(* Who is left to administer.                                                *)

\* A statement that leaves the roles and the rows of the administrators alone
\* keeps the administrators.
LEMMA AdminsStay ==
    ASSUME UNCHANGED grant,
           \A x \in Admins : x \in Stored' /\ user'[x].active
    PROVE  Admins \subseteq Admins'
BY DEF Admins, Holders

LEMMA AdminsStayUnlessOff ==
    ASSUME AccountsInv, AccountsNext, user' # user, ~ \E r \in Handlers : SwitchOff(r)
    PROVE  Admins \subseteq Admins'
<1>0. user \in [Users -> User] /\ Admins \subseteq Stored /\ Stored \subseteq Users
      /\ \A x \in Admins : user[x].active
  BY DEF AccountsInv, AccountsTypeOK, Admins, Stored
<1>1. ASSUME NEW r \in Handlers, InsertUser(r) PROVE Admins \subseteq Admins'
  <2>1. PICK u \in Users \ Stored : \A x \in Users \ {u} : user'[x] = user[x]
    BY <1>0, <1>1 DEF InsertUser
  <2>2. QED  BY <1>0, <1>1, <2>1, AdminsStay DEF InsertUser, Stored
<1>2. ASSUME NEW r \in Handlers, WriteUser(r) PROVE Admins \subseteq Admins'
  <2>1. \A x \in Users : user'[x].stored = user[x].stored /\ user'[x].active = user[x].active
    BY <1>2, WriteUserEffect
  <2>2. QED  BY <1>0, <1>2, <2>1, AdminsStay DEF WriteUser, Stored
<1>3. CASE ActivateUser
  <2>1. PICK u \in Users : user' = [user EXCEPT ![u].active = TRUE]
    BY <1>3 DEF ActivateUser, Stored
  <2>2. /\ \A x \in Users : user'[x].stored = user[x].stored
        /\ user'[u].active /\ \A x \in Users \ {u} : user'[x] = user[x]
    BY <2>1, SwitchEffect
  <2>3. QED  BY <1>0, <1>3, <2>2, AdminsStay DEF ActivateUser, Stored
<1>4. CASE DeactivateVendorUser
  <2>1. PICK u \in Stored : /\ user[u].type = "VENDOR"
                           /\ user' = [user EXCEPT ![u].active = FALSE]
    BY <1>4 DEF DeactivateVendorUser
  <2>2. u \notin Admins
    <3>1. VendorRolesOnly
      BY DEF AccountsInv, GrantOK, VendorRolesOnly, RoleAllowed
    <3>2. QED  BY <2>1, <3>1, UserAdministrationAssumption
               DEF VendorRolesOnly, Admins, Holders
  <2>3. /\ \A x \in Users : user'[x].stored = user[x].stored
        /\ \A x \in Users \ {u} : user'[x] = user[x]
    BY <1>0, <2>1, SwitchEffect
  <2>4. QED  BY <1>0, <1>4, <2>2, <2>3, AdminsStay DEF DeactivateVendorUser, Stored
<1>5. \/ \E r \in Handlers : InsertUser(r) \/ WriteUser(r)
      \/ ActivateUser \/ DeactivateVendorUser
  BY DEF AccountsNext, CreateUser, CreateVendorUser, UpdateUser, UpdateVendorUser,
         DeactivateUser,
         CountAdmins, AssignRole, InsertGrant, JobFails, EndGrant, BeginGrant
<1>6. QED  BY <1>1, <1>2, <1>3, <1>4, <1>5

\* Rule U15 for any number of administrators and requests: only a role that ends or
\* a count that was overtaken leaves the system without one.
THEOREM LastAdminNeedsOvertaking == AccountsSpec => LastAdminExplained
<1>1. ASSUME AccountsInv, [AccountsNext]_accountVars, Admins # {}, Admins' = {}
      PROVE  \/ UNCHANGED user
             \/ \E r \in Handlers : job[r].at = "off" /\ job'[r].at = "idle"
                                    /\ job[r].overtaken
  <2> SUFFICES ASSUME user' # user
               PROVE  \E r \in Handlers : job[r].at = "off" /\ job'[r].at = "idle"
                                          /\ job[r].overtaken
    OBVIOUS
  <2>1. PICK r \in Handlers : SwitchOff(r)
    BY <1>1, AdminsStayUnlessOff DEF accountVars
  <2>2. job[r].at = "off" /\ job'[r].at = "idle"
    BY <2>1, NoJobTyped DEF SwitchOff, Done
  <2>3. ASSUME ~job[r].overtaken PROVE FALSE
    <3>1. job[r].user \in Users /\ Admins # {job[r].user}
      BY <1>1, <2>2, <2>3 DEF AccountsInv, JobOK, Sound, Stored
    <3>2. PICK x \in Admins : x # job[r].user
      BY <1>1, <3>1
    <3>3. x \in Users /\ user'[x] = user[x]
      BY <1>1, <2>1, <3>2 DEF SwitchOff, AccountsInv, AccountsTypeOK, Admins, Stored
    <3>4. PICK g \in Grants : grant[g].phase = "current" /\ grant[g].user = x
                             /\ grant[g].role = Admin
      BY <3>2 DEF Admins, Holders
    <3>5. grant'[g] = grant[g]
      BY <2>1, <3>2, <3>4 DEF SwitchOff
    <3>6. x \in Admins'
      BY <3>2, <3>3, <3>4, <3>5 DEF Admins, Holders, Stored
    <3>7. QED  BY <1>1, <3>6
  <2>4. QED  BY <2>2, <2>3
<1>2. AccountsInv /\ [AccountsNext]_accountVars
      => [Admins # {} /\ Admins' = {}
          => \/ UNCHANGED user
             \/ \E r \in Handlers : job[r].at = "off" /\ job'[r].at = "idle"
                                    /\ job[r].overtaken]_accountVars
  BY <1>1
<1>3. QED  BY <1>2, AccountsInvariance, PTL DEF AccountsSpec, LastAdminExplained

-----------------------------------------------------------------------------
(* Names.                                                                    *)

\* Only an insertion or an update writes a name.
LEMMA NamesStay ==
    ASSUME AccountsInv, AccountsNext, ~ \E r \in Handlers : InsertUser(r) \/ WriteUser(r)
    PROVE  \A x \in Users : user'[x].name = user[x].name
<1>1. \/ UNCHANGED user
      \/ \E r \in Handlers : SwitchOff(r)
      \/ ActivateUser \/ DeactivateVendorUser
  BY DEF AccountsNext, CreateUser, CreateVendorUser, UpdateUser, UpdateVendorUser,
         DeactivateUser,
         CountAdmins, AssignRole, InsertGrant, JobFails, EndGrant, BeginGrant
<1>2. UNCHANGED user \/ \E u \in Users, b \in BOOLEAN : user' = [user EXCEPT ![u].active = b]
  <2>1. \A r \in Handlers : SwitchOff(r) => job[r].user \in Users
    BY DEF AccountsInv, JobOK, Sound, SwitchOff, Stored
  <2>2. QED  BY <1>1, <2>1 DEF SwitchOff, ActivateUser, DeactivateVendorUser, Stored
<1>3. QED  BY <1>2, SwitchEffect

LEMMA NameStep ==
    ASSUME AccountsInv, [AccountsNext]_accountVars, NEW u \in Users, NEW v \in Users, u # v,
           user'[u].name = user'[v].name, user'[u].name # Null,
           user[u].name # user[v].name
    PROVE  \E r \in Handlers : /\ job[r].at \in {"insert", "write", "writeVendor"}
                               /\ job'[r].at = "idle"
                               /\ job[r].overtaken \/ Untrimmed(job[r].name)
<1>1. PICK r \in Handlers : InsertUser(r) \/ WriteUser(r)
  BY NamesStay DEF accountVars
<1>2. job[r].at \in {"insert", "write", "writeVendor"} /\ job'[r].at = "idle"
  BY <1>1, NoJobTyped DEF InsertUser, WriteUser, Done
<1>3. ASSUME Decided(job[r]) PROVE FALSE
  <2>1. CASE InsertUser(r)
    <3>1. PICK w \in Users \ Stored :
             user' = [user EXCEPT ![w] = [stored |-> TRUE, active |-> job[r].type = "VENDOR",
                                          type |-> job[r].type, name |-> job[r].name]]
      BY <2>1 DEF InsertUser
    <3>2. user'[w].name = job[r].name /\ \A x \in Users \ {w} : user'[x] = user[x]
      BY <3>1 DEF AccountsInv, AccountsTypeOK
    <3>3. \A x \in Users : user[x].name # job[r].name
      BY <1>3, <2>1 DEF InsertUser, AccountsInv, JobOK, Sound
    <3>4. QED  BY <3>2, <3>3
  <2>2. CASE WriteUser(r)
    <3> DEFINE w == job[r].user
    <3>1. /\ w \in Users /\ \A x \in Users \ {w} : user'[x] = user[x]
          /\ \/ user'[w].name = user[w].name
             \/ job[r].name # Null /\ user'[w].name = job[r].name
      BY <2>2, WriteUserEffect DEF Stored
    <3>2. job[r].name # Null => \/ user[w].name = job[r].name
                               \/ \A x \in Users \ {w} : user[x].name # job[r].name
      BY <1>3, <2>2 DEF WriteUser, AccountsInv, JobOK, Sound
    <3> HIDE DEF w
    <3>3. user'[w].name # user[w].name
      BY <3>1
    <3>4. QED  BY <3>1, <3>2, <3>3
  <2>3. QED  BY <1>1, <2>1, <2>2
<1>4. QED  BY <1>2, <1>3 DEF Decided

\* Rules U1 and U2 for any number of accounts and requests: a name is taken twice
\* only by a request whose look-up another write has overtaken, or which looked up
\* the trimmed name and stores the untrimmed one.
THEOREM SharedNameNeedsCause == AccountsSpec => NameExplained
<1>1. AccountsInv /\ [AccountsNext]_accountVars
      => [\A u, v \in Users :
             /\ u # v /\ user'[u].name = user'[v].name /\ user'[u].name # Null
             /\ user[u].name # user[v].name
             => \E r \in Handlers : /\ job[r].at \in {"insert", "write", "writeVendor"}
                                    /\ job'[r].at = "idle"
                                    /\ job[r].overtaken \/ Untrimmed(job[r].name)
         ]_accountVars
  BY NameStep
<1>2. QED  BY <1>1, AccountsInvariance, PTL DEF AccountsSpec, NameExplained

-----------------------------------------------------------------------------
\* A request that issues has a token of its own that is in no row yet; one that
\* accepts has a token that was issued.
RequestConsistent(r) ==
    /\ req[r].at \in {"revoke", "create"} =>
          /\ req[r].purpose \in Purposes
          /\ req[r].token \in Tokens \ Issued
          /\ \A q \in Requests \ {r} : req[q].token # req[r].token
    /\ req[r].at \in {"history", "commit"} =>
          /\ req[r].token \in Issued
          /\ req[r].password \in Passwords
          /\ req[r].seen <= Len(log)

\* The inductive invariant; a token that was used is spent.
IInv ==
    /\ TypeOK
    /\ \A r \in Requests : RequestConsistent(r)
    /\ \A t \in Tokens : used[t] > 0 => t \in Issued /\ inv[t].consumed

-----------------------------------------------------------------------------
(* Sequences.                                                                *)

LEMMA LatestTyped ==
    ASSUME NEW S, NEW s \in Seq(S), NEW n \in Nat
    PROVE  /\ Latest(s, n) \in Seq(S)
           /\ Len(Latest(s, n)) = IF Len(s) > n THEN n ELSE Len(s)
           /\ \A i \in 1 .. Len(Latest(s, n)) :
                 Latest(s, n)[i] = IF Len(s) > n THEN s[Len(s) - n + i] ELSE s[i]
<1> DEFINE first == IF Len(s) > n THEN Len(s) - n + 1 ELSE 1
<1>1. Len(s) \in Nat
  OBVIOUS
<1>2. first \in 1 .. Len(s) + 1
  BY <1>1
<1>3. /\ SubSeq(s, first, Len(s)) \in Seq(S)
      /\ Len(SubSeq(s, first, Len(s))) = IF first <= Len(s) THEN Len(s) - first + 1 ELSE 0
      /\ \A i \in 1 .. Len(s) - first + 1 :
            SubSeq(s, first, Len(s))[i] = s[first + i - 1]
  BY <1>1, <1>2, SubSeqProperties
<1>4. CASE Len(s) > n
  <2>1. first = Len(s) - n + 1 /\ Len(s) - first + 1 = n
    BY <1>1, <1>4
  <2>2. \A i \in 1 .. n : first + i - 1 = Len(s) - n + i
    BY <1>1, <2>1
  <2>3. Latest(s, n) = SubSeq(s, first, Len(s))
    BY DEF Latest
  <2> HIDE DEF first
  <2>4. Len(Latest(s, n)) = n
    BY <1>1, <1>2, <1>3, <1>4, <2>1, <2>3
  <2>5. QED  BY <1>3, <1>4, <2>1, <2>2, <2>3, <2>4
<1>5. CASE ~(Len(s) > n)
  <2>1. first = 1 /\ Len(s) - first + 1 = Len(s)
    BY <1>1, <1>5
  <2>2. \A i \in 1 .. Len(s) : first + i - 1 = i
    BY <1>1, <2>1
  <2>3. Latest(s, n) = SubSeq(s, first, Len(s))
    BY DEF Latest
  <2> HIDE DEF first
  <2>4. Len(Latest(s, n)) = Len(s)
    BY <1>1, <1>3, <2>1, <2>3
  <2>5. QED  BY <1>3, <1>5, <2>1, <2>2, <2>3, <2>4
<1>6. QED  BY <1>4, <1>5

\* What a sequence is after an append.
LEMMA AppendTyped ==
    ASSUME NEW S, NEW s \in Seq(S), NEW x \in S
    PROVE  /\ Append(s, x) \in Seq(S) /\ Len(Append(s, x)) = Len(s) + 1
           /\ \A i \in 1 .. Len(s) + 1 :
                 Append(s, x)[i] = IF i <= Len(s) THEN s[i] ELSE x
<1>1. Len(s) \in Nat
  OBVIOUS
<1>2. ASSUME NEW i \in 1 .. Len(s) + 1
      PROVE  Append(s, x)[i] = IF i <= Len(s) THEN s[i] ELSE x
  <2>1. CASE i = Len(s) + 1
    BY <1>1, <2>1, AppendProperties
  <2>2. CASE i # Len(s) + 1
    <3>1. i \in 1 .. Len(s) /\ i <= Len(s)
      BY <1>1, <2>2
    <3>2. QED  BY <3>1, AppendProperties
  <2>3. QED  BY <2>1, <2>2
<1>3. QED  BY <1>2, AppendProperties

\* Pruning each time keeps what pruning once at the end would keep.
LEMMA PruningKeepsLatest ==
    ASSUME NEW S, NEW s \in Seq(S), NEW x \in S, NEW n \in Nat \ {0}
    PROVE  Latest(Append(Latest(s, n), x), n) = Latest(Append(s, x), n)
<1> DEFINE kept == Latest(s, n)
           c == Append(kept, x)
           d == Append(s, x)
           a == Latest(c, n)
           b == Latest(d, n)
<1>1. /\ kept \in Seq(S) /\ Len(s) \in Nat
      /\ Len(kept) = IF Len(s) > n THEN n ELSE Len(s)
      /\ \A i \in 1 .. Len(kept) :
            kept[i] = IF Len(s) > n THEN s[Len(s) - n + i] ELSE s[i]
  BY LatestTyped
<1> HIDE DEF kept
<1>2. /\ c \in Seq(S) /\ Len(c) = Len(kept) + 1
      /\ \A i \in 1 .. Len(kept) + 1 : c[i] = IF i <= Len(kept) THEN kept[i] ELSE x
  BY <1>1, AppendTyped
<1>3. /\ d \in Seq(S) /\ Len(d) = Len(s) + 1
      /\ \A i \in 1 .. Len(s) + 1 : d[i] = IF i <= Len(s) THEN s[i] ELSE x
  BY AppendTyped
<1> HIDE DEF c, d
<1>4. /\ a \in Seq(S)
      /\ Len(a) = IF Len(c) > n THEN n ELSE Len(c)
      /\ \A i \in 1 .. Len(a) : a[i] = IF Len(c) > n THEN c[Len(c) - n + i] ELSE c[i]
  BY <1>2, LatestTyped
<1>5. /\ b \in Seq(S)
      /\ Len(b) = IF Len(d) > n THEN n ELSE Len(d)
      /\ \A i \in 1 .. Len(b) : b[i] = IF Len(d) > n THEN d[Len(d) - n + i] ELSE d[i]
  BY <1>3, LatestTyped
<1> HIDE DEF a, b
<1>6. Len(a) = Len(b) /\ Len(a) \in Nat
  BY <1>1, <1>2, <1>3, <1>4, <1>5
<1>7. ASSUME NEW i \in 1 .. Len(a) PROVE a[i] = b[i]
  <2>1. CASE Len(s) < n
    <3>1. Len(c) = Len(s) + 1 /\ Len(d) = Len(s) + 1 /\ Len(a) = Len(s) + 1
      BY <1>1, <1>2, <1>3, <1>4, <2>1
    <3>2. a[i] = c[i] /\ b[i] = d[i]
      BY <1>1, <1>4, <1>5, <1>6, <2>1, <3>1
    <3>3. c[i] = d[i]
      BY <1>1, <1>2, <1>3, <2>1, <3>1
    <3>4. QED  BY <3>2, <3>3
  <2>2. CASE Len(s) >= n
    <3>1. Len(kept) = n /\ Len(c) = n + 1 /\ Len(a) = n
      BY <1>1, <1>2, <1>4, <2>2
    <3>2. a[i] = c[i + 1] /\ b[i] = d[Len(s) + 1 - n + i]
      BY <1>1, <1>3, <1>4, <1>5, <1>6, <2>2, <3>1
    <3>3. CASE i = n
      <4>1. c[i + 1] = x /\ d[Len(s) + 1 - n + i] = x
        BY <1>1, <1>2, <1>3, <3>1, <3>3
      <4>2. QED  BY <3>2, <4>1
    <3>4. CASE i < n
      <4>1. i + 1 \in 1 .. Len(kept)
        BY <3>1, <3>4, <1>6
      <4>2. c[i + 1] = kept[i + 1]
        BY <1>2, <3>1, <4>1
      <4>3. kept[i + 1] = s[Len(s) + 1 - n + i]
        BY <1>1, <2>2, <3>1, <4>1
      <4>4. d[Len(s) + 1 - n + i] = s[Len(s) + 1 - n + i]
        BY <1>1, <1>3, <2>2, <3>1, <3>4
      <4>5. QED  BY <3>2, <4>2, <4>3, <4>4
    <3>5. QED  BY <3>1, <3>3, <3>4, <1>6
  <2>3. QED  BY <1>1, <2>1, <2>2
<1>8. a = b
  BY <1>4, <1>5, <1>6, <1>7, SeqEqual
<1>9. QED  BY <1>8 DEF a, b, c, d, kept

\* The newest of the newest are the newest.
LEMMA LatestOfLatest ==
    ASSUME NEW S, NEW s \in Seq(S), NEW n \in Nat, NEW m \in Nat, m <= n
    PROVE  Latest(Latest(s, n), m) = Latest(s, m)
<1> DEFINE kept == Latest(s, n)
           a == Latest(kept, m)
           b == Latest(s, m)
<1>1. /\ kept \in Seq(S) /\ Len(s) \in Nat
      /\ Len(kept) = IF Len(s) > n THEN n ELSE Len(s)
      /\ \A i \in 1 .. Len(kept) :
            kept[i] = IF Len(s) > n THEN s[Len(s) - n + i] ELSE s[i]
  BY LatestTyped
<1> HIDE DEF kept
<1>2. /\ a \in Seq(S)
      /\ Len(a) = IF Len(kept) > m THEN m ELSE Len(kept)
      /\ \A i \in 1 .. Len(a) :
            a[i] = IF Len(kept) > m THEN kept[Len(kept) - m + i] ELSE kept[i]
  BY <1>1, LatestTyped
<1>3. /\ b \in Seq(S)
      /\ Len(b) = IF Len(s) > m THEN m ELSE Len(s)
      /\ \A i \in 1 .. Len(b) :
            b[i] = IF Len(s) > m THEN s[Len(s) - m + i] ELSE s[i]
  BY LatestTyped
<1> HIDE DEF a, b
<1>4. Len(a) = Len(b)
  BY <1>1, <1>2, <1>3
<1>5. ASSUME NEW i \in 1 .. Len(a) PROVE a[i] = b[i]
  <2>1. CASE Len(s) <= m
    <3>1. Len(kept) = Len(s) /\ Len(a) = Len(s)
      BY <1>1, <1>2, <2>1
    <3>2. a[i] = kept[i] /\ kept[i] = s[i] /\ b[i] = s[i]
      BY <1>1, <1>2, <1>3, <1>4, <2>1, <3>1
    <3>3. QED  BY <3>2
  <2>2. CASE Len(s) > m /\ Len(s) <= n
    <3>1. Len(kept) = Len(s) /\ Len(a) = m
      BY <1>1, <1>2, <2>2
    <3>2. a[i] = kept[Len(s) - m + i] /\ b[i] = s[Len(s) - m + i]
      BY <1>1, <1>2, <1>3, <1>4, <2>2, <3>1
    <3>3. Len(s) - m + i \in 1 .. Len(kept)
      BY <1>1, <2>2, <3>1
    <3>4. QED  BY <1>1, <2>2, <3>2, <3>3
  <2>3. CASE Len(s) > n
    <3>1. Len(kept) = n /\ Len(a) = m
      BY <1>1, <1>2, <2>3
    <3>2. b[i] = s[Len(s) - m + i]
      BY <1>1, <1>3, <1>4, <2>3, <3>1
    <3>3. a[i] = kept[n - m + i]
      BY <1>1, <1>2, <2>3, <3>1
    <3>4. n - m + i \in 1 .. Len(kept)
      BY <1>1, <3>1
    <3>5. kept[n - m + i] = s[Len(s) - n + (n - m + i)]
      BY <1>1, <2>3, <3>4
    <3>6. Len(s) - n + (n - m + i) = Len(s) - m + i
      BY <1>1
    <3>7. QED  BY <3>2, <3>3, <3>5, <3>6
  <2>4. QED  BY <1>1, <2>1, <2>2, <2>3
<1>6. a = b
  BY <1>2, <1>3, <1>4, <1>5, SeqEqual
<1>7. QED  BY <1>6 DEF a, b, kept

-----------------------------------------------------------------------------
(* The inductive invariant.                                                  *)

LEMMA IdleTyped == NoInvitation \in Invitation /\ Idle \in Request
BY CredentialsAssumption DEF NoInvitation, Invitation, Idle, Request, Steps, Purposes

LEMMA InitIInv == Init => IInv
<1> SUFFICES ASSUME Init PROVE IInv
  OBVIOUS
<1>0. /\ <<>> \in Seq(Passwords)
      /\ inv \in [Tokens -> Invitation] /\ req \in [Requests -> Request]
      /\ used \in [Tokens -> Nat]
  BY IdleTyped DEF Init
<1>1. TypeOK
  BY <1>0 DEF Init, TypeOK
<1>2. \A r \in Requests : RequestConsistent(r)
  BY DEF Init, RequestConsistent, Idle
<1>3. QED  BY <1>1, <1>2 DEF IInv, Init

\* What the start of an issue writes into its request.
LEMMA IssueStarts ==
    ASSUME IInv, NEW r \in Requests, NEW purpose \in Purposes, StartIssue(r, purpose)
    PROVE  /\ req' \in [Requests -> Request]
           /\ req'[r].at = "revoke" /\ req'[r].purpose = purpose
           /\ req'[r].token \in FreshTokens
           /\ \A q \in Requests \ {r} : req'[q] = req[q]
           /\ UNCHANGED <<now, row, inv, log, used, deleted>>
<1>0. req \in [Requests -> Request]
  BY DEF IInv, TypeOK
<1>1. PICK t \in FreshTokens :
         req' = [req EXCEPT ![r] = [Idle EXCEPT !.at = "revoke",
                                      !.purpose = purpose, !.token = t]]
  BY DEF StartIssue
<1> DEFINE new == [Idle EXCEPT !.at = "revoke", !.purpose = purpose, !.token = t]
<1>2. /\ new \in Request /\ new.at = "revoke" /\ new.purpose = purpose
      /\ new.token = t
  BY IdleTyped DEF Idle, Request, Steps, FreshTokens
<1> HIDE DEF new
<1>3. req' = [req EXCEPT ![r] = new]
  BY <1>1 DEF new
<1>4. QED  BY <1>0, <1>1, <1>2, <1>3 DEF StartIssue

\* What the start of an acceptance writes into its request.
LEMMA AcceptStarts ==
    ASSUME IInv, NEW r \in Requests, NEW t \in Tokens, NEW p \in Passwords,
           AcceptRead(r, t, p)
    PROVE  /\ req' \in [Requests -> Request]
           /\ req'[r].at = "history" /\ req'[r].token = t
           /\ req'[r].password = p /\ req'[r].seen = 0
           /\ \A q \in Requests \ {r} : req'[q] = req[q]
           /\ t \in Issued /\ ~inv[t].consumed /\ req[r].at = "idle"
           /\ UNCHANGED <<now, row, inv, log, used, deleted>>
<1>0. req \in [Requests -> Request]
  BY DEF IInv, TypeOK
<1> DEFINE new == [Idle EXCEPT !.at = "history", !.token = t, !.password = p]
<1>1. /\ new \in Request /\ new.at = "history" /\ new.token = t
      /\ new.password = p /\ new.seen = 0
  BY IdleTyped DEF Idle, Request, Steps
<1> HIDE DEF new
<1>2. req' = [req EXCEPT ![r] = new]
  BY DEF AcceptRead, new
<1>3. QED  BY <1>0, <1>1, <1>2 DEF AcceptRead, Valid

\* Ending a request, or moving it, leaves the others alone.
LEMMA Ends ==
    ASSUME IInv, NEW r \in Requests, Finish(r)
    PROVE  /\ req' \in [Requests -> Request]
           /\ req'[r].at = "idle" /\ req'[r].token = None
           /\ \A q \in Requests \ {r} : req'[q] = req[q]
BY IdleTyped DEF IInv, TypeOK, Finish, Idle

LEMMA Moves ==
    ASSUME IInv, NEW r \in Requests, Goto(r, "create")
    PROVE  /\ req' \in [Requests -> Request]
           /\ req'[r].at = "create" /\ req'[r].token = req[r].token
           /\ req'[r].purpose = req[r].purpose
           /\ \A q \in Requests \ {r} : req'[q] = req[q]
BY DEF IInv, TypeOK, Goto, Request, Steps

LEMMA Compares ==
    ASSUME IInv, NEW r \in Requests, AcceptCompare(r), ~Finish(r)
    PROVE  /\ req' \in [Requests -> Request]
           /\ req'[r].at = "commit" /\ req'[r].token = req[r].token
           /\ req'[r].password = req[r].password /\ req'[r].seen = Len(log)
           /\ \A q \in Requests \ {r} : req'[q] = req[q]
           /\ req[r].at = "history"
           /\ req[r].password \notin Values(Latest(history, CheckCount))
<1>1. Len(log) \in Nat /\ req \in [Requests -> Request] /\ req[r] \in Request
  BY DEF IInv, TypeOK
<1> DEFINE new == [req[r] EXCEPT !.at = "commit", !.seen = Len(log)]
<1>2. /\ new \in Request /\ new.at = "commit" /\ new.token = req[r].token
      /\ new.password = req[r].password /\ new.seen = Len(log)
  BY <1>1 DEF Request, Steps
<1>3. /\ req[r].at = "history"
      /\ req[r].password \notin Values(Latest(history, CheckCount))
      /\ req' = [req EXCEPT ![r] = new]
  BY DEF AcceptCompare
<1> HIDE DEF new
<1>4. QED  BY <1>1, <1>2, <1>3

\* Issuing changes the rows of one token nobody has seen, and of those it revokes.
LEMMA IssueWrites ==
    ASSUME IInv, NEW r \in Requests, NEW others \in SUBSET Issued,
           req[r].at \in {"revoke", "create"}, IssueToken(r, others)
    PROVE  /\ req[r].token \in Tokens \ Issued /\ req[r].purpose \in Purposes
           /\ inv' \in [Tokens -> Invitation]
           /\ inv'[req[r].token].purpose = req[r].purpose
           /\ ~inv'[req[r].token].consumed
           /\ \A t \in Tokens \ {req[r].token} :
                 /\ inv'[t].purpose = inv[t].purpose
                 /\ inv'[t].consumed = (inv[t].consumed \/ t \in others)
           /\ Issued' = Issued \cup {req[r].token}
           /\ UNCHANGED <<now, is_active, password, history, log, used, deleted>>
<1>0. inv \in [Tokens -> Invitation] /\ now \in Nat
  BY DEF IInv, TypeOK
<1>1. req[r].token \in Tokens \ Issued /\ req[r].purpose \in Purposes
  BY DEF IInv, RequestConsistent
<1>2. now + Expiry(req[r].purpose) \in Nat
  BY <1>0, CredentialsAssumption DEF Expiry
<1>3. /\ inv' \in [Tokens -> Invitation]
      /\ inv'[req[r].token].purpose = req[r].purpose
      /\ ~inv'[req[r].token].consumed
      /\ \A t \in Tokens \ {req[r].token} :
            /\ inv'[t].purpose = inv[t].purpose
            /\ inv'[t].consumed = (inv[t].consumed \/ t \in others)
  BY <1>0, <1>1, <1>2 DEF IssueToken, Invitation
<1>4. Issued' = Issued \cup {req[r].token}
  BY <1>1, <1>3, CredentialsAssumption DEF Issued, Purposes
<1>5. QED  BY <1>1, <1>3, <1>4 DEF IssueToken

\* The transaction of an acceptance.
LEMMA CommitWrites ==
    ASSUME IInv, NEW r \in Requests, AcceptCommit(r)
    PROVE  /\ req[r].at = "commit" /\ req[r].token \in Issued
           /\ req[r].password \in Passwords
           /\ inv' \in [Tokens -> Invitation] /\ Issued' = Issued
           /\ inv'[req[r].token].consumed
           /\ \A t \in Tokens : /\ inv'[t].purpose = inv[t].purpose
                                /\ inv[t].consumed => inv'[t].consumed
                                /\ t # req[r].token => inv'[t] = inv[t]
           /\ used' \in [Tokens -> Nat]
           /\ used'[req[r].token] = used[req[r].token] + 1
           /\ \A t \in Tokens \ {req[r].token} : used'[t] = used[t]
           /\ log' \in Seq(Passwords) /\ Len(log') = Len(log) + 1
<1>0. inv \in [Tokens -> Invitation] /\ used \in [Tokens -> Nat] /\ log \in Seq(Passwords)
  BY DEF IInv, TypeOK
<1>1. req[r].at = "commit" /\ req[r].token \in Issued /\ req[r].password \in Passwords
  BY DEF AcceptCommit, IInv, RequestConsistent
<1>2. req[r].token \in Tokens
  BY <1>1 DEF Issued
<1>3. /\ inv' \in [Tokens -> Invitation]
      /\ inv'[req[r].token].consumed
      /\ \A t \in Tokens : /\ inv'[t].purpose = inv[t].purpose
                           /\ inv[t].consumed => inv'[t].consumed
                           /\ t # req[r].token => inv'[t] = inv[t]
  BY <1>0, <1>2 DEF AcceptCommit, MarkConsumed, Invitation
<1>4. Issued' = Issued
  BY <1>3 DEF Issued
<1>5. /\ used' \in [Tokens -> Nat]
      /\ used'[req[r].token] = used[req[r].token] + 1
      /\ \A t \in Tokens \ {req[r].token} : used'[t] = used[t]
  BY <1>0, <1>2 DEF AcceptCommit
<1>6. log' \in Seq(Passwords) /\ Len(log') = Len(log) + 1
  BY <1>0, <1>1, AppendTyped DEF AcceptCommit
<1>7. QED  BY <1>1, <1>3, <1>4, <1>5, <1>6

\* A step of r leaves the other requests consistent.
LEMMA OthersConsistent ==
    ASSUME IInv, NEW r \in Requests, NEW q \in Requests \ {r},
           \A p \in Requests \ {r} : req'[p] = req[p],
           \/ req'[r].token = req[r].token
           \/ \A p \in Requests \ {r} :
                 req[p].at \in {"revoke", "create"} => req'[r].token # req[p].token,
           Issued \subseteq Issued',
           \A t \in Issued' \ Issued :
              t = req[r].token /\ req[r].at \in {"revoke", "create"},
           Len(log) \in Nat, Len(log') \in Nat, Len(log) <= Len(log')
    PROVE  RequestConsistent(q)'
<1>1. RequestConsistent(q) /\ RequestConsistent(r) /\ req'[q] = req[q]
  BY DEF IInv
<1>2. CASE req[q].at \in {"revoke", "create"}
  <2>1. req[q].token \notin Issued'
    BY <1>1, <1>2 DEF RequestConsistent
  <2>2. \A p \in Requests \ {q} : req'[p].token # req[q].token
    BY <1>1, <1>2 DEF RequestConsistent
  <2>3. QED  BY <1>1, <1>2, <2>1, <2>2 DEF RequestConsistent
<1>3. CASE req[q].at \in {"history", "commit"}
  <2>1. req[q].seen \in Nat
    BY DEF IInv, TypeOK, Request
  <2>2. QED  BY <1>1, <1>3, <2>1 DEF RequestConsistent
<1>4. CASE ~(req[q].at \in {"revoke", "create"}) /\ ~(req[q].at \in {"history", "commit"})
  BY <1>1, <1>4 DEF RequestConsistent
<1>5. QED  BY <1>2, <1>3, <1>4

\* What the start of an issue, and of an acceptance, keep.
LEMMA StartPreserves ==
    ASSUME IInv, NEW r \in Requests, Arrive(r)
    PROVE  IInv'
<1>0. TypeOK /\ Len(log) \in Nat
  BY DEF IInv, TypeOK
<1>1. ASSUME NEW purpose \in Purposes, StartIssue(r, purpose) PROVE IInv'
  <2>1. /\ req' \in [Requests -> Request]
        /\ req'[r].at = "revoke" /\ req'[r].purpose = purpose
        /\ req'[r].token \in FreshTokens
        /\ \A q \in Requests \ {r} : req'[q] = req[q]
        /\ UNCHANGED <<now, row, inv, log, used, deleted>>
    BY <1>1, IssueStarts
  <2>2. Issued' = Issued /\ TypeOK'
    BY <1>0, <2>1 DEF Issued, TypeOK, row
  <2>3. RequestConsistent(r)'
    BY <2>1, <2>2 DEF RequestConsistent, FreshTokens
  <2>4. \A q \in Requests \ {r} : RequestConsistent(q)'
    BY <1>0, <2>1, <2>2, OthersConsistent DEF FreshTokens
  <2>5. QED  BY <2>1, <2>2, <2>3, <2>4 DEF IInv
<1>2. ASSUME NEW t \in Tokens, NEW p \in Passwords, AcceptRead(r, t, p) PROVE IInv'
  <2>1. /\ req' \in [Requests -> Request]
        /\ req'[r].at = "history" /\ req'[r].token = t
        /\ req'[r].password = p /\ req'[r].seen = 0
        /\ \A q \in Requests \ {r} : req'[q] = req[q]
        /\ t \in Issued
        /\ UNCHANGED <<now, row, inv, log, used, deleted>>
    BY <1>2, AcceptStarts
  <2>2. Issued' = Issued /\ TypeOK'
    BY <1>0, <2>1 DEF Issued, TypeOK, row
  <2>3. RequestConsistent(r)'
    BY <1>0, <2>1, <2>2 DEF RequestConsistent
  <2>4. \A q \in Requests \ {r} :
           req[q].at \in {"revoke", "create"} => req'[r].token # req[q].token
    BY <2>1 DEF IInv, RequestConsistent
  <2>5. \A q \in Requests \ {r} : RequestConsistent(q)'
    BY <1>0, <2>1, <2>2, <2>4, OthersConsistent
  <2>6. QED  BY <2>1, <2>2, <2>3, <2>5 DEF IInv
<1>3. QED  BY <1>1, <1>2 DEF Arrive, Invite, ResetPassword, Purposes

\* The end of a request that writes nothing.
LEMMA EndPreserves ==
    ASSUME IInv, NEW r \in Requests, Finish(r),
           UNCHANGED <<now, row, inv, log, used, deleted>>
    PROVE  IInv'
<1>0. TypeOK /\ Len(log) \in Nat
  BY DEF IInv, TypeOK
<1>1. /\ req' \in [Requests -> Request]
      /\ req'[r].at = "idle" /\ req'[r].token = None
      /\ \A q \in Requests \ {r} : req'[q] = req[q]
  BY Ends
<1>2. Issued' = Issued /\ TypeOK'
  BY <1>0, <1>1 DEF Issued, TypeOK, row
<1>3. RequestConsistent(r)'
  BY <1>1 DEF RequestConsistent
<1>4. \A q \in Requests \ {r} :
         req[q].at \in {"revoke", "create"} => req'[r].token # req[q].token
  BY <1>1, CredentialsAssumption DEF IInv, RequestConsistent
<1>5. \A q \in Requests \ {r} : RequestConsistent(q)'
  BY <1>0, <1>1, <1>2, <1>4, OthersConsistent
<1>6. QED  BY <1>1, <1>2, <1>3, <1>5 DEF IInv

\* Issuing a token.
LEMMA IssuePreserves ==
    ASSUME IInv, NEW r \in Requests, NEW others \in SUBSET Issued,
           req[r].at \in {"revoke", "create"}, IssueToken(r, others)
    PROVE  IInv'
<1>0. TypeOK /\ Len(log) \in Nat
  BY DEF IInv, TypeOK
<1>1. /\ req[r].token \in Tokens \ Issued
      /\ inv' \in [Tokens -> Invitation]
      /\ \A t \in Tokens \ {req[r].token} :
            /\ inv'[t].purpose = inv[t].purpose
            /\ inv'[t].consumed = (inv[t].consumed \/ t \in others)
      /\ Issued' = Issued \cup {req[r].token}
      /\ UNCHANGED <<now, is_active, password, history, log, used, deleted>>
  BY IssueWrites
<1>2. /\ req' \in [Requests -> Request]
      /\ req'[r].at = "idle" /\ req'[r].token = None
      /\ \A q \in Requests \ {r} : req'[q] = req[q]
  BY Ends DEF IssueToken
<1>3. must_change_password' \in BOOLEAN
  BY <1>0 DEF TypeOK, IssueToken
<1>4. TypeOK'
  BY <1>0, <1>1, <1>2, <1>3 DEF TypeOK
<1>5. RequestConsistent(r)'
  BY <1>2 DEF RequestConsistent
<1>6. \A q \in Requests \ {r} :
         req[q].at \in {"revoke", "create"} => req'[r].token # req[q].token
  BY <1>2, CredentialsAssumption DEF IInv, RequestConsistent
<1>7. \A q \in Requests \ {r} : RequestConsistent(q)'
  BY <1>0, <1>1, <1>2, <1>6, OthersConsistent
<1>8. ASSUME NEW t \in Tokens, used'[t] > 0 PROVE t \in Issued' /\ inv'[t].consumed
  <2>1. t \in Issued /\ inv[t].consumed
    BY <1>1, <1>8 DEF IInv
  <2>2. QED  BY <1>1, <2>1
<1>9. QED  BY <1>4, <1>5, <1>7, <1>8 DEF IInv

\* The other steps of a request.
LEMMA AdvancePreserves ==
    ASSUME IInv, NEW r \in Requests, Advance(r)
    PROVE  IInv'
<1>0. TypeOK /\ Len(log) \in Nat
  BY DEF IInv, TypeOK
<1>1. CASE IssueReplacing(r)
  <2>1. Outstanding(req[r].purpose) \in SUBSET Issued
    BY DEF Outstanding
  <2>2. QED  BY <1>1, <2>1, IssuePreserves DEF IssueReplacing
<1>2. CASE IssueFindsNone(r)
  <2>1. /\ req' \in [Requests -> Request]
        /\ req'[r].at = "create" /\ req'[r].token = req[r].token
        /\ req'[r].purpose = req[r].purpose /\ req[r].at = "revoke"
        /\ \A q \in Requests \ {r} : req'[q] = req[q]
        /\ UNCHANGED <<now, row, inv, log, used, deleted>>
    BY <1>2, Moves DEF IssueFindsNone
  <2>2. Issued' = Issued /\ TypeOK'
    BY <1>0, <2>1 DEF Issued, TypeOK, row
  <2>3. RequestConsistent(r)'
    BY <2>1, <2>2 DEF RequestConsistent, IInv
  <2>4. \A q \in Requests \ {r} : RequestConsistent(q)'
    BY <1>0, <2>1, <2>2, OthersConsistent
  <2>5. QED  BY <2>1, <2>2, <2>3, <2>4 DEF IInv
<1>3. CASE IssueCreate(r)
  <2>1. {} \in SUBSET Issued
    OBVIOUS
  <2>2. QED  BY <1>3, <2>1, IssuePreserves DEF IssueCreate
<1>4. CASE AcceptCompare(r)
  <2>1. CASE Finish(r)
    BY <1>4, <2>1, EndPreserves DEF AcceptCompare
  <2>2. CASE ~Finish(r)
    <3>1. /\ req' \in [Requests -> Request]
          /\ req'[r].at = "commit" /\ req'[r].token = req[r].token
          /\ req'[r].password = req[r].password /\ req'[r].seen = Len(log)
          /\ \A q \in Requests \ {r} : req'[q] = req[q]
          /\ req[r].at = "history"
          /\ UNCHANGED <<now, row, inv, log, used, deleted>>
      BY <1>4, <2>2, Compares DEF AcceptCompare
    <3>2. Issued' = Issued /\ TypeOK'
      BY <1>0, <3>1 DEF Issued, TypeOK, row
    <3>3. RequestConsistent(r)'
      BY <1>0, <3>1, <3>2 DEF RequestConsistent, IInv
    <3>4. \A q \in Requests \ {r} : RequestConsistent(q)'
      BY <1>0, <3>1, <3>2, OthersConsistent
    <3>5. QED  BY <3>1, <3>2, <3>3, <3>4 DEF IInv
  <2>3. QED  BY <2>1, <2>2
<1>5. CASE AcceptCommit(r)
  <2>1. /\ req[r].token \in Issued /\ req[r].password \in Passwords
        /\ inv' \in [Tokens -> Invitation] /\ Issued' = Issued
        /\ inv'[req[r].token].consumed
        /\ \A t \in Tokens : inv[t].consumed => inv'[t].consumed
        /\ used' \in [Tokens -> Nat]
        /\ \A t \in Tokens \ {req[r].token} : used'[t] = used[t]
        /\ log' \in Seq(Passwords) /\ Len(log') = Len(log) + 1
    BY <1>5, CommitWrites
  <2>2. /\ req' \in [Requests -> Request]
        /\ req'[r].at = "idle" /\ req'[r].token = None
        /\ \A q \in Requests \ {r} : req'[q] = req[q]
    BY <1>5, Ends DEF AcceptCommit
  <2>3. history' \in Seq(Passwords)
    <3>1. Append(history, req[r].password) \in Seq(Passwords)
      BY <1>0, <2>1, AppendTyped DEF TypeOK
    <3>2. Latest(Append(history, req[r].password), KeepCount) \in Seq(Passwords)
      BY <3>1, LatestTyped, CredentialsAssumption
    <3>3. QED  BY <1>5, <3>2 DEF AcceptCommit, Prune
  <2>4. TypeOK'
    BY <1>0, <1>5, <2>1, <2>2, <2>3 DEF TypeOK, AcceptCommit, NewHash
  <2>5. RequestConsistent(r)'
    BY <2>2 DEF RequestConsistent
  <2>6. \A q \in Requests \ {r} :
           req[q].at \in {"revoke", "create"} => req'[r].token # req[q].token
    BY <2>2, CredentialsAssumption DEF IInv, RequestConsistent
  <2>7. \A q \in Requests \ {r} : RequestConsistent(q)'
    BY <1>0, <2>1, <2>2, <2>6, OthersConsistent
  <2>8. ASSUME NEW t \in Tokens, used'[t] > 0 PROVE t \in Issued' /\ inv'[t].consumed
    BY <2>1, <2>8 DEF IInv
  <2>9. QED  BY <2>4, <2>5, <2>7, <2>8 DEF IInv
<1>6. QED  BY <1>1, <1>2, <1>3, <1>4, <1>5 DEF Advance

\* Steps that leave the tokens, the requests and the passwords alone.
LEMMA AccountPreserves ==
    ASSUME IInv,
           \/ Activate \/ Deactivate \/ SoftDelete \/ Tick \/ UNCHANGED vars
    PROVE  IInv'
<1>1. UNCHANGED <<must_change_password, password, history, inv, req, log, used>>
  BY DEF Activate, Deactivate, SoftDelete, Tick, vars, row
<1>2. TypeOK'
  <2>1. now' \in Nat
    BY DEF IInv, TypeOK, Activate, Deactivate, SoftDelete, Tick, vars
  <2>2. is_active' \in BOOLEAN /\ deleted' \in BOOLEAN
    BY DEF IInv, TypeOK, Activate, Deactivate, SoftDelete, Tick, vars, row
  <2>3. QED  BY <1>1, <2>1, <2>2 DEF IInv, TypeOK
<1>3. Issued' = Issued
  BY <1>1 DEF Issued
<1>4. \A r \in Requests : RequestConsistent(r)'
  BY <1>1, <1>3 DEF IInv, RequestConsistent
<1>5. QED  BY <1>1, <1>2, <1>3, <1>4 DEF IInv

LEMMA InductiveStep == IInv /\ [Next]_vars => IInv'
<1> SUFFICES ASSUME IInv, [Next]_vars PROVE IInv'
  OBVIOUS
<1>1. ASSUME NEW r \in Requests, RequestFails(r) PROVE IInv'
  BY <1>1, EndPreserves DEF RequestFails
<1>2. QED
  BY <1>1, StartPreserves, AdvancePreserves, AccountPreserves DEF Next

\* The inductive invariant holds in every reachable state: a request that accepts carries
\* an issued token, and a used token is consumed.
THEOREM Invariance == Spec => []IInv
<1>1. Init => IInv
  BY InitIInv
<1>2. IInv /\ [Next]_vars => IInv'
  BY InductiveStep
<1>3. QED  BY <1>1, <1>2, PTL DEF Spec

\* The type invariant: rows, requests and the password history of
\* user-credentials.repository.ts have the shape the handlers rely on.
THEOREM TypeCorrect == Spec => []TypeOK
<1>1. IInv => TypeOK
  BY DEF IInv
<1>2. QED  BY <1>1, Invariance, PTL


-----------------------------------------------------------------------------
(* What a token can do.                                                      *)

\* A step that leaves inv, req and used alone leaves the sets they define alone.
LEMMA SetsUnchanged ==
    ASSUME UNCHANGED <<inv, req, used>>
    PROVE  /\ Issued' = Issued
           /\ \A t \in Tokens : Accepting(t)' = Accepting(t)
           /\ \A p \in Purposes : /\ Outstanding(p)' = Outstanding(p)
                                  /\ Creating(p)' = Creating(p)
BY DEF Issued, Accepting, Outstanding, Creating

\* The five things a step can do to the tokens.
LEMMA TokenSteps ==
    ASSUME IInv, [Next]_vars
    PROVE  \/ UNCHANGED <<inv, req, used>>
           \/ \E r \in Requests, purpose \in Purposes : StartIssue(r, purpose)
           \/ \E r \in Requests, t \in Tokens, p \in Passwords : AcceptRead(r, t, p)
           \/ \E r \in Requests : IssueReplacing(r) \/ IssueFindsNone(r) \/ IssueCreate(r)
           \/ \E r \in Requests : AcceptCompare(r) \/ AcceptCommit(r) \/ RequestFails(r)
BY DEF Next, Arrive, Advance, Invite, ResetPassword, Purposes, Activate,
       Deactivate, SoftDelete, Tick, vars

\* Which requests accept t after a step, and how often t was used.
LEMMA AcceptingSteps ==
    ASSUME IInv, [Next]_vars, NEW t \in Tokens
    PROVE  \/ Accepting(t)' \subseteq Accepting(t) /\ used'[t] = used[t]
           \/ /\ t \in Issued /\ ~inv[t].consumed /\ inv'[t] = inv[t]
              /\ used'[t] = used[t]
           \/ \E r \in Accepting(t) : /\ Accepting(t)' = Accepting(t) \ {r}
                                      /\ used'[t] = used[t] + 1
<1>1. CASE UNCHANGED <<inv, req, used>>
  BY <1>1, SetsUnchanged
<1>2. ASSUME NEW r \in Requests, NEW purpose \in Purposes, StartIssue(r, purpose)
      PROVE  Accepting(t)' \subseteq Accepting(t) /\ used'[t] = used[t]
  BY <1>2, IssueStarts DEF Accepting
<1>3. ASSUME NEW r \in Requests, NEW s \in Tokens, NEW p \in Passwords,
             AcceptRead(r, s, p)
      PROVE  \/ Accepting(t)' \subseteq Accepting(t) /\ used'[t] = used[t]
             \/ /\ t \in Issued /\ ~inv[t].consumed /\ inv'[t] = inv[t]
                /\ used'[t] = used[t]
  <2>1. CASE s = t
    BY <1>3, <2>1, AcceptStarts
  <2>2. CASE s # t
    BY <1>3, <2>2, AcceptStarts DEF Accepting
  <2>3. QED  BY <2>1, <2>2
<1>4. ASSUME NEW r \in Requests, IssueReplacing(r) \/ IssueFindsNone(r) \/ IssueCreate(r)
      PROVE  Accepting(t)' \subseteq Accepting(t) /\ used'[t] = used[t]
  <2>1. CASE IssueFindsNone(r)
    BY <2>1, Moves DEF IssueFindsNone, Accepting
  <2>2. CASE IssueReplacing(r) \/ IssueCreate(r)
    <3>1. Finish(r) /\ used' = used
      BY <2>2 DEF IssueReplacing, IssueCreate, IssueToken
    <3>2. QED  BY <3>1, Ends DEF Accepting
  <2>3. QED  BY <1>4, <2>1, <2>2
<1>5. ASSUME NEW r \in Requests, AcceptCompare(r)
      PROVE  Accepting(t)' \subseteq Accepting(t) /\ used'[t] = used[t]
  <2>1. CASE Finish(r)
    BY <1>5, <2>1, Ends DEF AcceptCompare, Accepting
  <2>2. CASE ~Finish(r)
    BY <1>5, <2>2, Compares DEF AcceptCompare, Accepting
  <2>3. QED  BY <2>1, <2>2
<1>6. ASSUME NEW r \in Requests, RequestFails(r)
      PROVE  Accepting(t)' \subseteq Accepting(t) /\ used'[t] = used[t]
  BY <1>6, Ends DEF RequestFails, Accepting
<1>7. ASSUME NEW r \in Requests, AcceptCommit(r)
      PROVE  \/ Accepting(t)' \subseteq Accepting(t) /\ used'[t] = used[t]
             \/ \E q \in Accepting(t) : /\ Accepting(t)' = Accepting(t) \ {q}
                                        /\ used'[t] = used[t] + 1
  <2>1. /\ req'[r].at = "idle" /\ req'[r].token = None
        /\ \A q \in Requests \ {r} : req'[q] = req[q]
    BY <1>7, Ends DEF AcceptCommit
  <2>2. /\ req[r].at = "commit"
        /\ used'[req[r].token] = used[req[r].token] + 1
        /\ \A u \in Tokens \ {req[r].token} : used'[u] = used[u]
    BY <1>7, CommitWrites
  <2>3. CASE req[r].token = t
    <3>1. r \in Accepting(t)
      BY <2>2, <2>3 DEF Accepting
    <3>2. Accepting(t)' = Accepting(t) \ {r}
      BY <2>1 DEF Accepting
    <3>3. QED  BY <2>2, <2>3, <3>1, <3>2
  <2>4. CASE req[r].token # t
    BY <2>1, <2>2, <2>4 DEF Accepting
  <2>5. QED  BY <2>3, <2>4
<1>8. QED  BY <1>1, <1>2, <1>3, <1>4, <1>5, <1>6, <1>7, TokenSteps

LEMMA AcceptingFinite ==
    \A t \in Tokens : /\ IsFiniteSet(Accepting(t)) /\ Cardinality(Accepting(t)) \in Nat
                      /\ Cardinality(Accepting(t)) <= Cardinality(Requests)
                      /\ Cardinality(Requests) \in Nat
<1> SUFFICES ASSUME NEW t \in Tokens
             PROVE  /\ IsFiniteSet(Accepting(t)) /\ Cardinality(Accepting(t)) \in Nat
                    /\ Cardinality(Accepting(t)) <= Cardinality(Requests)
                    /\ Cardinality(Requests) \in Nat
  OBVIOUS
<1>1. IsFiniteSet(Requests) /\ Accepting(t) \subseteq Requests
  BY CredentialsAssumption DEF Accepting
<1>2. QED  BY <1>1, FS_Subset, FS_CardinalityType

LEMMA UseBoundStep == IInv /\ UseBound /\ [Next]_vars => UseBound'
<1> SUFFICES ASSUME IInv, IInv', UseBound, [Next]_vars, NEW t \in Tokens
             PROVE  used'[t] + Cardinality(Accepting(t)') <= Cardinality(Requests)
  BY InductiveStep DEF UseBound
<1>1. /\ used[t] \in Nat
      /\ used[t] + Cardinality(Accepting(t)) <= Cardinality(Requests)
  BY DEF IInv, TypeOK, UseBound
<1>2. /\ IsFiniteSet(Accepting(t)) /\ Cardinality(Accepting(t)) \in Nat
      /\ Cardinality(Requests) \in Nat
  BY AcceptingFinite
<1>3. Accepting(t)' \subseteq Requests
  BY DEF Accepting
<1>4. Cardinality(Accepting(t)') \in Nat /\ Cardinality(Accepting(t)') <= Cardinality(Requests)
  BY <1>3, CredentialsAssumption, FS_Subset, FS_CardinalityType
<1>5. CASE Accepting(t)' \subseteq Accepting(t) /\ used'[t] = used[t]
  <2>1. Cardinality(Accepting(t)') <= Cardinality(Accepting(t))
    BY <1>2, <1>5, FS_Subset
  <2>2. QED  BY <1>1, <1>2, <1>4, <1>5, <2>1
<1>6. CASE t \in Issued /\ ~inv[t].consumed /\ used'[t] = used[t]
  <2>1. used[t] = 0
    BY <1>1, <1>6 DEF IInv
  <2>2. QED  BY <1>4, <1>6, <2>1
<1>7. ASSUME NEW r \in Accepting(t), Accepting(t)' = Accepting(t) \ {r},
             used'[t] = used[t] + 1
      PROVE  used'[t] + Cardinality(Accepting(t)') <= Cardinality(Requests)
  <2>1. Cardinality(Accepting(t)') = Cardinality(Accepting(t)) - 1
    BY <1>2, <1>7, FS_RemoveElement
  <2>2. QED  BY <1>1, <1>2, <1>4, <1>7, <2>1
<1>8. QED  BY <1>5, <1>6, <1>7, AcceptingSteps

\* However many requests validate one token before its first use, it sets a
\* password at most once for each of them: acceptInvitation reads the token
\* outside the transaction that consumes it.
THEOREM UsesBounded == Spec => []UseBound
<1>1. Init => UseBound
  <2> SUFFICES ASSUME Init, NEW t \in Tokens
               PROVE  used[t] + Cardinality(Accepting(t)) <= Cardinality(Requests)
    BY DEF UseBound
  <2>1. used[t] = 0
    BY DEF Init
  <2>2. QED  BY <2>1, AcceptingFinite
<1>2. IInv /\ UseBound /\ [Next]_vars => UseBound'
  BY UseBoundStep
<1>3. QED  BY <1>1, <1>2, Invariance, PTL DEF Spec


\* A row that is consumed and that no request has validated is not written.
LEMMA ConsumedKept ==
    ASSUME IInv, [Next]_vars, NEW t \in Issued, inv[t].consumed, Accepting(t) = {}
    PROVE  inv'[t] = inv[t]
<1>0. inv \in [Tokens -> Invitation] /\ t \in Tokens
  BY DEF IInv, TypeOK, Issued
<1>1. ASSUME NEW r \in Requests, NEW others \in SUBSET Issued, t \notin others,
             req[r].at \in {"revoke", "create"}, IssueToken(r, others)
      PROVE  inv'[t] = inv[t]
  <2>1. req[r].token # t
    BY <1>1 DEF IInv, RequestConsistent
  <2>2. QED  BY <1>0, <1>1, <2>1 DEF IssueToken
<1>2. ASSUME NEW r \in Requests, IssueReplacing(r) PROVE inv'[t] = inv[t]
  <2>1. Outstanding(req[r].purpose) \in SUBSET Issued
    BY DEF Outstanding
  <2>2. t \notin Outstanding(req[r].purpose)
    BY DEF Outstanding
  <2>3. QED  BY <1>1, <1>2, <2>1, <2>2 DEF IssueReplacing
<1>3. ASSUME NEW r \in Requests, IssueCreate(r) PROVE inv'[t] = inv[t]
  BY <1>1, <1>3 DEF IssueCreate
<1>4. ASSUME NEW r \in Requests, AcceptCommit(r) PROVE inv'[t] = inv[t]
  <2>1. req[r].token # t
    BY <1>4, CommitWrites DEF Accepting
  <2>2. QED  BY <1>0, <1>4, <2>1, CommitWrites
<1>5. QED
  BY <1>2, <1>3, <1>4, TokenSteps
     DEF StartIssue, AcceptRead, IssueFindsNone, AcceptCompare, RequestFails

\* A token that was used or revoked, and that no request has validated before,
\* never sets a password again: markConsumed and revokeOutstanding are final
\* once the requests that read the row before have ended.
THEOREM ConsumedTokensFinal == Spec => ConsumedIsFinal
<1>1. ASSUME IInv, [Next]_vars
      PROVE  [\A t \in Tokens :
                 (t \in Issued /\ inv[t].consumed /\ Accepting(t) = {}) =>
                     /\ inv'[t] = inv[t]
                     /\ used'[t] = used[t]
                     /\ Accepting(t)' = {}]_vars
  <2>1. ASSUME NEW t \in Tokens, t \in Issued, inv[t].consumed, Accepting(t) = {}
        PROVE  inv'[t] = inv[t] /\ used'[t] = used[t] /\ Accepting(t)' = {}
    <3>1. inv'[t] = inv[t]
      BY <1>1, <2>1, ConsumedKept
    <3>2. used'[t] = used[t] /\ Accepting(t)' = {}
      BY <1>1, <2>1, AcceptingSteps
    <3>3. QED  BY <3>1, <3>2
  <2>2. QED  BY <2>1
<1>2. QED  BY <1>1, Invariance, PTL DEF Spec, ConsumedIsFinal

-----------------------------------------------------------------------------
(* How many tokens can be outstanding.                                       *)

\* An issue that ends adds one token, of its purpose, to those it did not revoke.
LEMMA IssueOutstanding ==
    ASSUME IInv, NEW r \in Requests, NEW others \in SUBSET Issued,
           req[r].at \in {"revoke", "create"}, IssueToken(r, others),
           NEW p \in Purposes
    PROVE  /\ Creating(p)' = Creating(p) \ {r}
           /\ Outstanding(p)' =
                (Outstanding(p) \ others) \cup
                    (IF req[r].purpose = p THEN {req[r].token} ELSE {})
<1>1. /\ req'[r].at = "idle"
      /\ \A q \in Requests \ {r} : req'[q] = req[q]
  BY Ends DEF IssueToken
<1>2. Creating(p)' = Creating(p) \ {r}
  BY <1>1 DEF Creating
<1>3. /\ req[r].token \in Tokens \ Issued
      /\ inv'[req[r].token].purpose = req[r].purpose
      /\ ~inv'[req[r].token].consumed
      /\ \A t \in Tokens \ {req[r].token} :
            /\ inv'[t].purpose = inv[t].purpose
            /\ inv'[t].consumed = (inv[t].consumed \/ t \in others)
      /\ Issued' = Issued \cup {req[r].token}
  BY IssueWrites
<1>4. \A t \in Issued : t \in Tokens \ {req[r].token}
  BY <1>3 DEF Issued
<1>5. QED  BY <1>2, <1>3, <1>4 DEF Outstanding

\* Which tokens are outstanding after a step, and which requests are about to
\* create one.
LEMMA OutstandingSteps ==
    ASSUME IInv, [Next]_vars, NEW p \in Purposes
    PROVE  \/ /\ Outstanding(p)' \subseteq Outstanding(p)
              /\ Creating(p)' \subseteq Creating(p)
           \/ Outstanding(p)' = {}
           \/ \E r \in Requests \ Creating(p), t \in Tokens :
                 Outstanding(p)' = {t} /\ Creating(p)' = Creating(p)
           \/ \E r \in Creating(p), t \in Tokens :
                 /\ Outstanding(p)' = Outstanding(p) \cup {t}
                 /\ Creating(p)' = Creating(p) \ {r}
<1>1. CASE UNCHANGED <<inv, req, used>>
  BY <1>1, SetsUnchanged
<1>2. ASSUME NEW r \in Requests, NEW purpose \in Purposes, StartIssue(r, purpose)
      PROVE  /\ Outstanding(p)' \subseteq Outstanding(p)
             /\ Creating(p)' \subseteq Creating(p)
  BY <1>2, IssueStarts DEF Outstanding, Issued, Creating
<1>3. ASSUME NEW r \in Requests, NEW s \in Tokens, NEW q \in Passwords,
             AcceptRead(r, s, q)
      PROVE  /\ Outstanding(p)' \subseteq Outstanding(p)
             /\ Creating(p)' \subseteq Creating(p)
  BY <1>3, AcceptStarts DEF Outstanding, Issued, Creating
<1>4. ASSUME NEW r \in Requests, IssueReplacing(r)
      PROVE  \/ /\ Outstanding(p)' \subseteq Outstanding(p)
                /\ Creating(p)' \subseteq Creating(p)
             \/ \E q \in Requests \ Creating(p), t \in Tokens :
                   Outstanding(p)' = {t} /\ Creating(p)' = Creating(p)
  <2>1. Outstanding(req[r].purpose) \in SUBSET Issued
    BY DEF Outstanding
  <2>2. /\ Creating(p)' = Creating(p) \ {r}
        /\ Outstanding(p)' =
             (Outstanding(p) \ Outstanding(req[r].purpose)) \cup
                 (IF req[r].purpose = p THEN {req[r].token} ELSE {})
    BY <1>4, <2>1, IssueOutstanding DEF IssueReplacing
  <2>3. r \notin Creating(p) /\ req[r].token \in Tokens
    BY <1>4 DEF Creating, IssueReplacing, IInv, RequestConsistent
  <2>4. CASE req[r].purpose = p
    BY <2>2, <2>3, <2>4
  <2>5. CASE req[r].purpose # p
    BY <2>2, <2>5
  <2>6. QED  BY <2>4, <2>5
<1>5. ASSUME NEW r \in Requests, IssueFindsNone(r)
      PROVE  \/ /\ Outstanding(p)' \subseteq Outstanding(p)
                /\ Creating(p)' \subseteq Creating(p)
             \/ Outstanding(p)' = {}
  <2>1. /\ req'[r].purpose = req[r].purpose
        /\ \A q \in Requests \ {r} : req'[q] = req[q]
        /\ inv' = inv
    BY <1>5, Moves DEF IssueFindsNone
  <2>2. Outstanding(p)' = Outstanding(p)
    BY <2>1 DEF Outstanding, Issued
  <2>3. CASE req[r].purpose = p
    BY <1>5, <2>2, <2>3 DEF IssueFindsNone
  <2>4. CASE req[r].purpose # p
    BY <2>1, <2>2, <2>4 DEF Creating
  <2>5. QED  BY <2>3, <2>4
<1>6. ASSUME NEW r \in Requests, IssueCreate(r)
      PROVE  \/ /\ Outstanding(p)' \subseteq Outstanding(p)
                /\ Creating(p)' \subseteq Creating(p)
             \/ \E q \in Creating(p), t \in Tokens :
                   /\ Outstanding(p)' = Outstanding(p) \cup {t}
                   /\ Creating(p)' = Creating(p) \ {q}
  <2>1. {} \in SUBSET Issued
    OBVIOUS
  <2>2. /\ Creating(p)' = Creating(p) \ {r}
        /\ Outstanding(p)' = (Outstanding(p) \ {}) \cup
                               (IF req[r].purpose = p THEN {req[r].token} ELSE {})
    BY <1>6, <2>1, IssueOutstanding DEF IssueCreate
  <2>3. CASE req[r].purpose = p
    <3>1. r \in Creating(p) /\ req[r].token \in Tokens
      BY <1>6, <2>3 DEF Creating, IssueCreate, IInv, RequestConsistent
    <3>2. QED  BY <2>2, <2>3, <3>1
  <2>4. CASE req[r].purpose # p
    BY <2>2, <2>4
  <2>5. QED  BY <2>3, <2>4
<1>7. ASSUME NEW r \in Requests, AcceptCompare(r) \/ RequestFails(r)
      PROVE  /\ Outstanding(p)' \subseteq Outstanding(p)
             /\ Creating(p)' \subseteq Creating(p)
  <2>1. inv' = inv
    BY <1>7 DEF AcceptCompare, RequestFails
  <2>2. CASE Finish(r)
    BY <2>1, <2>2, Ends DEF Outstanding, Issued, Creating
  <2>3. CASE ~Finish(r)
    <3>1. AcceptCompare(r)
      BY <1>7, <2>3 DEF RequestFails
    <3>2. QED  BY <2>1, <2>3, <3>1, Compares DEF Outstanding, Issued, Creating
  <2>4. QED  BY <2>2, <2>3
<1>8. ASSUME NEW r \in Requests, AcceptCommit(r)
      PROVE  /\ Outstanding(p)' \subseteq Outstanding(p)
             /\ Creating(p)' \subseteq Creating(p)
  <2>1. /\ req'[r].at = "idle"
        /\ \A q \in Requests \ {r} : req'[q] = req[q]
    BY <1>8, Ends DEF AcceptCommit
  <2>2. /\ Issued' = Issued
        /\ \A t \in Tokens : /\ inv'[t].purpose = inv[t].purpose
                             /\ inv[t].consumed => inv'[t].consumed
    BY <1>8, CommitWrites
  <2>3. QED  BY <2>1, <2>2 DEF Outstanding, Issued, Creating
<1>9. QED  BY <1>1, <1>2, <1>3, <1>4, <1>5, <1>6, <1>7, <1>8, TokenSteps

LEMMA OutstandingFinite ==
    \A p \in Purposes : /\ IsFiniteSet(Outstanding(p)) /\ IsFiniteSet(Creating(p))
                        /\ Cardinality(Outstanding(p)) \in Nat
                        /\ Cardinality(Creating(p)) \in Nat
                        /\ Cardinality(Requests) \in Nat
                        /\ Cardinality(Creating(p)) <= Cardinality(Requests)
<1> SUFFICES ASSUME NEW p \in Purposes
             PROVE  /\ IsFiniteSet(Outstanding(p)) /\ IsFiniteSet(Creating(p))
                    /\ Cardinality(Outstanding(p)) \in Nat
                    /\ Cardinality(Creating(p)) \in Nat
                    /\ Cardinality(Requests) \in Nat
                    /\ Cardinality(Creating(p)) <= Cardinality(Requests)
  OBVIOUS
<1>1. Outstanding(p) \subseteq Tokens /\ Creating(p) \subseteq Requests
  BY DEF Outstanding, Issued, Creating
<1>2. QED  BY <1>1, CredentialsAssumption, FS_Subset, FS_CardinalityType

LEMMA OutstandingBoundStep ==
    IInv /\ OutstandingBound /\ [Next]_vars => OutstandingBound'
<1> SUFFICES ASSUME IInv, OutstandingBound, [Next]_vars, NEW p \in Purposes
             PROVE  Cardinality(Outstanding(p)') + Cardinality(Creating(p)')
                        <= Cardinality(Requests)
  BY DEF OutstandingBound
<1> DEFINE out == Outstanding(p)
           making == Creating(p)
           out2 == Outstanding(p)'
           making2 == Creating(p)'
<1>1. /\ IsFiniteSet(out) /\ IsFiniteSet(making) /\ IsFiniteSet(Requests)
      /\ Cardinality(out) \in Nat /\ Cardinality(making) \in Nat
      /\ Cardinality(Requests) \in Nat
      /\ Cardinality(out) + Cardinality(making) <= Cardinality(Requests)
      /\ making \subseteq Requests /\ making2 \subseteq Requests
  BY OutstandingFinite, CredentialsAssumption DEF OutstandingBound, Creating
<1>2. \/ out2 \subseteq out /\ making2 \subseteq making
      \/ out2 = {}
      \/ \E r \in Requests \ making, t \in Tokens : out2 = {t} /\ making2 = making
      \/ \E r \in making, t \in Tokens : out2 = out \cup {t} /\ making2 = making \ {r}
  BY OutstandingSteps
<1> HIDE DEF out, making, out2, making2
<1>3. CASE out2 \subseteq out /\ making2 \subseteq making
  <2>1. /\ Cardinality(out2) <= Cardinality(out) /\ Cardinality(out2) \in Nat
        /\ Cardinality(making2) <= Cardinality(making) /\ Cardinality(making2) \in Nat
    BY <1>1, <1>3, FS_Subset, FS_CardinalityType
  <2>2. Cardinality(out2) + Cardinality(making2) <= Cardinality(Requests)
    BY <1>1, <2>1
  <2>3. QED  BY <2>2 DEF out2, making2
<1>4. CASE out2 = {}
  <2>1. Cardinality(out2) = 0
    BY <1>4, FS_EmptySet
  <2>2. Cardinality(making2) <= Cardinality(Requests) /\ Cardinality(making2) \in Nat
    BY <1>1, FS_Subset, FS_CardinalityType
  <2>3. Cardinality(out2) + Cardinality(making2) <= Cardinality(Requests)
    BY <1>1, <2>1, <2>2
  <2>4. QED  BY <2>3 DEF out2, making2
<1>5. ASSUME NEW r \in Requests \ making, NEW t \in Tokens, out2 = {t}, making2 = making
      PROVE  Cardinality(out2) + Cardinality(making2) <= Cardinality(Requests)
  <2>1. Cardinality(out2) = 1
    BY <1>5, FS_Singleton
  <2>2. Cardinality(making \cup {r}) = Cardinality(making) + 1
    BY <1>1, <1>5, FS_AddElement
  <2>3. Cardinality(making \cup {r}) <= Cardinality(Requests)
    BY <1>1, <1>5, FS_Subset
  <2>4. QED  BY <1>1, <1>5, <2>1, <2>2, <2>3
<1>6. ASSUME NEW r \in making, NEW t \in Tokens, out2 = out \cup {t},
             making2 = making \ {r}
      PROVE  Cardinality(out2) + Cardinality(making2) <= Cardinality(Requests)
  <2>1. Cardinality(making2) = Cardinality(making) - 1
    BY <1>1, <1>6, FS_RemoveElement
  <2>2. Cardinality(out2) = Cardinality(out) \/ Cardinality(out2) = Cardinality(out) + 1
    BY <1>1, <1>6, FS_AddElement
  <2>3. QED  BY <1>1, <2>1, <2>2
<1>7. QED  BY <1>2, <1>3, <1>4, <1>5, <1>6 DEF out2, making2

\* However inviteUser and resetPassword interleave, no more tokens of a purpose
\* are outstanding than there are requests in execution.
THEOREM OutstandingBounded == Spec => []OutstandingBound
<1>1. Init => OutstandingBound
  <2> SUFFICES ASSUME Init, NEW p \in Purposes
               PROVE  Cardinality(Outstanding(p)) + Cardinality(Creating(p))
                          <= Cardinality(Requests)
    BY DEF OutstandingBound
  <2>1. Outstanding(p) = {}
    BY CredentialsAssumption DEF Init, Outstanding, Issued, NoInvitation
  <2>2. Cardinality(Outstanding(p)) = 0
    BY <2>1, FS_EmptySet
  <2>3. QED  BY <2>2, OutstandingFinite
<1>2. IInv /\ OutstandingBound /\ [Next]_vars => OutstandingBound'
  BY OutstandingBoundStep
<1>3. QED  BY <1>1, <1>2, Invariance, PTL DEF Spec


-----------------------------------------------------------------------------
(* What the history remembers.                                               *)

\* The part of a sequence that an append does not touch.
LEMMA SubSeqOfAppend ==
    ASSUME NEW S, NEW s \in Seq(S), NEW x \in S, NEW n \in 0 .. Len(s)
    PROVE  SubSeq(Append(s, x), 1, n) = SubSeq(s, 1, n)
<1> DEFINE d == Append(s, x)
<1>1. /\ d \in Seq(S) /\ Len(d) = Len(s) + 1 /\ Len(s) \in Nat
      /\ \A i \in 1 .. Len(s) : d[i] = s[i]
  BY AppendTyped
<1> HIDE DEF d
<1>2. /\ SubSeq(s, 1, n) \in Seq(S) /\ Len(SubSeq(s, 1, n)) = n
      /\ \A i \in 1 .. n : SubSeq(s, 1, n)[i] = s[i]
  BY <1>1, SubSeqProperties
<1>3. /\ SubSeq(d, 1, n) \in Seq(S) /\ Len(SubSeq(d, 1, n)) = n
      /\ \A i \in 1 .. n : SubSeq(d, 1, n)[i] = d[i]
  BY <1>1, SubSeqProperties
<1>4. \A i \in 1 .. n : SubSeq(d, 1, n)[i] = SubSeq(s, 1, n)[i]
  BY <1>1, <1>2, <1>3
<1>5. SubSeq(d, 1, n) = SubSeq(s, 1, n)
  BY <1>2, <1>3, <1>4, SeqEqual
<1>6. QED  BY <1>5 DEF d

\* The steps that set no password and compare none.
LEMMA OtherHistorySteps ==
    ASSUME IInv, [Next]_vars
    PROVE  \/ \E r \in Requests : AcceptCommit(r)
           \/ \E r \in Requests : AcceptCompare(r) /\ ~Finish(r)
           \/ /\ UNCHANGED <<password, history, log>>
              /\ \A r \in Requests :
                    req'[r].at = "commit" => req'[r] = req[r]
<1>1. CASE UNCHANGED req /\ UNCHANGED <<password, history, log>>
  BY <1>1
<1>2. ASSUME NEW r \in Requests, NEW purpose \in Purposes, StartIssue(r, purpose)
      PROVE  /\ UNCHANGED <<password, history, log>>
             /\ \A q \in Requests : req'[q].at = "commit" => req'[q] = req[q]
  BY <1>2, IssueStarts DEF row
<1>3. ASSUME NEW r \in Requests, NEW s \in Tokens, NEW p \in Passwords,
             AcceptRead(r, s, p)
      PROVE  /\ UNCHANGED <<password, history, log>>
             /\ \A q \in Requests : req'[q].at = "commit" => req'[q] = req[q]
  BY <1>3, AcceptStarts DEF row
<1>4. ASSUME NEW r \in Requests, Finish(r), UNCHANGED <<password, history, log>>
      PROVE  \A q \in Requests : req'[q].at = "commit" => req'[q] = req[q]
  BY <1>4, Ends
<1>5. ASSUME NEW r \in Requests, IssueReplacing(r) \/ IssueCreate(r) \/ RequestFails(r)
      PROVE  /\ UNCHANGED <<password, history, log>>
             /\ \A q \in Requests : req'[q].at = "commit" => req'[q] = req[q]
  BY <1>4, <1>5 DEF IssueReplacing, IssueCreate, IssueToken, RequestFails, row
<1>6. ASSUME NEW r \in Requests, IssueFindsNone(r)
      PROVE  /\ UNCHANGED <<password, history, log>>
             /\ \A q \in Requests : req'[q].at = "commit" => req'[q] = req[q]
  BY <1>6, Moves DEF IssueFindsNone, row
<1>7. ASSUME NEW r \in Requests, AcceptCompare(r), Finish(r)
      PROVE  /\ UNCHANGED <<password, history, log>>
             /\ \A q \in Requests : req'[q].at = "commit" => req'[q] = req[q]
  BY <1>4, <1>7 DEF AcceptCompare, row
<1>8. CASE Activate \/ Deactivate \/ SoftDelete \/ Tick \/ UNCHANGED vars
  BY <1>1, <1>8 DEF Activate, Deactivate, SoftDelete, Tick, vars, row
<1>9. QED
  BY <1>2, <1>3, <1>5, <1>6, <1>7, <1>8
     DEF Next, Arrive, Advance, Invite, ResetPassword, Purposes

LEMMA HistoryStep == IInv /\ HistoryRemembers /\ [Next]_vars => HistoryRemembers'
<1> SUFFICES ASSUME IInv, HistoryRemembers, [Next]_vars PROVE HistoryRemembers'
  OBVIOUS
<1>0. /\ log \in Seq(Passwords) /\ history \in Seq(Passwords) /\ Len(log) \in Nat
      /\ KeepCount \in Nat \ {0} /\ CheckCount \in Nat /\ CheckCount <= KeepCount
      /\ history = Latest(log, KeepCount)
  BY CredentialsAssumption DEF IInv, TypeOK, HistoryRemembers, HistoryIsLog
<1>1. ASSUME NEW r \in Requests, AcceptCommit(r) PROVE HistoryRemembers'
  <2> DEFINE p == req[r].password
  <2>1. /\ p \in Passwords /\ log' = Append(log, p) /\ password' = p
        /\ history' = Latest(Append(history, p), KeepCount)
    BY <1>1, CommitWrites DEF AcceptCommit, NewHash, Prune
  <2>2. history' = Latest(log', KeepCount)
    BY <1>0, <2>1, PruningKeepsLatest
  <2>3. /\ Len(log') = Len(log) + 1 /\ log'[Len(log) + 1] = p /\ log' # <<>>
    <3>1. /\ Append(log, p) \in Seq(Passwords)
          /\ Len(Append(log, p)) = Len(log) + 1
          /\ \A i \in 1 .. Len(log) + 1 :
                Append(log, p)[i] = IF i <= Len(log) THEN log[i] ELSE p
      BY <1>0, <2>1, AppendTyped
    <3>2. Len(log) + 1 \in 1 .. Len(log) + 1 /\ ~(Len(log) + 1 <= Len(log))
      BY <1>0
    <3>3. Append(log, p)[Len(log) + 1] = p
      BY <3>1, <3>2
    <3>4. Append(log, p) # <<>>
      BY <1>0, <3>1
    <3>5. QED  BY <2>1, <3>1, <3>3, <3>4
  <2>4. HistoryIsLog'
    BY <2>1, <2>2, <2>3 DEF HistoryIsLog
  <2>5. ASSUME NEW q \in Requests, req'[q].at = "commit"
        PROVE  req'[q].password \notin
                   Values(Latest(SubSeq(log', 1, req'[q].seen), CheckCount))
    <3>1. q # r /\ req'[q] = req[q]
      BY <1>1, <2>5, Ends DEF AcceptCommit
    <3>2. /\ req[q].seen \in 0 .. Len(log)
          /\ req[q].password \notin
                 Values(Latest(SubSeq(log, 1, req[q].seen), CheckCount))
      <4>1. req[q].seen \in Nat /\ RequestConsistent(q)
        BY DEF IInv, TypeOK, Request
      <4>2. QED
        BY <1>0, <2>5, <3>1, <4>1
           DEF RequestConsistent, HistoryRemembers, ComparedWithLog
    <3>3. SubSeq(log', 1, req[q].seen) = SubSeq(log, 1, req[q].seen)
      BY <1>0, <2>1, <3>2, SubSeqOfAppend
    <3>4. QED  BY <3>1, <3>2, <3>3
  <2>6. QED  BY <2>4, <2>5 DEF HistoryRemembers, ComparedWithLog
<1>2. ASSUME NEW r \in Requests, AcceptCompare(r), ~Finish(r) PROVE HistoryRemembers'
  <2>1. /\ req'[r].password = req[r].password /\ req'[r].seen = Len(log)
        /\ \A q \in Requests \ {r} : req'[q] = req[q]
        /\ req[r].password \notin Values(Latest(history, CheckCount))
        /\ UNCHANGED <<password, history, log>>
    BY <1>2, Compares DEF AcceptCompare, row
  <2>2. HistoryIsLog'
    BY <2>1 DEF HistoryRemembers, HistoryIsLog
  <2>3. Latest(history, CheckCount) = Latest(SubSeq(log, 1, Len(log)), CheckCount)
    <3>1. SubSeq(log, 1, Len(log)) = log
      BY <1>0, SubSeqFull
    <3>2. KeepCount \in Nat
      BY <1>0
    <3>3. Latest(Latest(log, KeepCount), CheckCount) = Latest(log, CheckCount)
      BY <1>0, <3>2, LatestOfLatest
    <3>4. QED  BY <1>0, <3>1, <3>3
  <2>4. ASSUME NEW q \in Requests, req'[q].at = "commit"
        PROVE  req'[q].password \notin
                   Values(Latest(SubSeq(log', 1, req'[q].seen), CheckCount))
    <3>1. CASE q = r
      BY <2>1, <2>3, <3>1
    <3>2. CASE q # r
      BY <2>1, <2>4, <3>2 DEF HistoryRemembers, ComparedWithLog
    <3>3. QED  BY <3>1, <3>2
  <2>5. QED  BY <2>2, <2>4 DEF HistoryRemembers, ComparedWithLog
<1>3. CASE /\ UNCHANGED <<password, history, log>>
           /\ \A r \in Requests : req'[r].at = "commit" => req'[r] = req[r]
  <2>1. HistoryIsLog'
    BY <1>3 DEF HistoryRemembers, HistoryIsLog
  <2>2. ComparedWithLog'
    BY <1>3 DEF HistoryRemembers, ComparedWithLog
  <2>3. QED  BY <2>1, <2>2 DEF HistoryRemembers
<1>4. QED  BY <1>1, <1>2, <1>3, OtherHistorySteps

\* For every CheckCount and KeepCount with CheckCount <= KeepCount, the pruned
\* history decides as the whole log would: a password about to be set differs
\* from the CheckCount ones set before it was compared.
THEOREM HistoryRemembersAll == Spec => []HistoryRemembers
<1>1. Init => HistoryRemembers
  <2> SUFFICES ASSUME Init PROVE HistoryRemembers
    OBVIOUS
  <2>1. /\ log = <<>> /\ history = <<>> /\ password = None
        /\ \A r \in Requests : req[r].at = "idle"
    BY DEF Init, Idle
  <2>2. Latest(<<>>, KeepCount) = <<>>
    <3>1. <<>> \in Seq(Passwords) /\ Len(<<>>) = 0
      OBVIOUS
    <3>2. KeepCount \in Nat /\ ~(Len(<<>>) > KeepCount)
      BY <3>1, CredentialsAssumption
    <3>3. /\ Latest(<<>>, KeepCount) \in Seq(Passwords)
          /\ Len(Latest(<<>>, KeepCount)) =
               IF Len(<<>>) > KeepCount THEN KeepCount ELSE Len(<<>>)
      BY <3>1, <3>2, LatestTyped
    <3>4. Len(Latest(<<>>, KeepCount)) = 0
      BY <3>1, <3>2, <3>3
    <3>5. QED  BY <3>3, <3>4, EmptySeq
  <2>3. QED  BY <2>1, <2>2 DEF HistoryRemembers, HistoryIsLog, ComparedWithLog
<1>2. IInv /\ HistoryRemembers /\ [Next]_vars => HistoryRemembers'
  BY HistoryStep
<1>3. QED  BY <1>1, <1>2, Invariance, PTL DEF Spec

=============================================================================
