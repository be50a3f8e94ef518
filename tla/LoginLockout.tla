----------------------------- MODULE LoginLockout -----------------------------
(***************************************************************************)
(* The credential phase of login() and the lockout columns of one row of   *)
(* auth.tbl_Users. Every statement has WHERE user_id = @0, so accounts do  *)
(* not influence each other and one account stands for all.                *)
(*                                                                         *)
(* login() reads the row once and decides on that copy; what it writes are *)
(* three separate statements. A request is therefore a state machine (req) *)
(* whose steps are the statements, and attempts on one account overlap.    *)
(***************************************************************************)
EXTENDS Integers, FiniteSets

CONSTANTS
    Requests,                  \* login attempts the server executes at once
    None,                      \* SQL NULL
    MaxFailedLoginAttempts,    \* security settings
    LockoutDuration,
    MaxTime,                   \* bounds of the model: the last clock reading,
    MaxFailures                \* and the failures counted

ASSUME LockoutAssumption ==
    /\ IsFiniteSet(Requests)
    /\ Requests # {}
    /\ None \notin Nat
    /\ MaxFailedLoginAttempts \in Nat \ {0}
    /\ LockoutDuration \in Nat \ {0}
    /\ MaxTime \in Nat
    /\ MaxFailures \in Nat

VARIABLES
    now,
    failed_login_count,
    locked_until,
    req,        \* the attempts in execution
    guesses,    \* wrong passwords recorded since the last lock, reset or unlock
    lost,       \* attempts that failed between recording and locking, likewise
    slow        \* the attempts that were under way when the last lock was written

vars == <<now, failed_login_count, locked_until, req, guesses, lost, slow>>

-----------------------------------------------------------------------------
\* The statement an attempt executes next, and the failed_login_count of the
\* row it read.
Steps == {"idle", "verify", "record", "lock", "reset"}

Request == [at : Steps, count : Nat]

Idle == [at |-> "idle", count |-> 0]

Locked == locked_until # None /\ locked_until > now

\* Mutant: the failure that is being recorded is not counted.
LocksLate(r) == req[r].count >= MaxFailedLoginAttempts

\* The decision on the copy: this failure is the one that locks.
Locks(r) == req[r].count + 1 >= MaxFailedLoginAttempts

Goto(r, step) == req' = [req EXCEPT ![r].at = step] /\ UNCHANGED slow

Finish(r) == req' = [req EXCEPT ![r] = Idle] /\ slow' = slow \ {r}

Init ==
    /\ now = 0
    /\ failed_login_count = 0
    /\ locked_until = None
    /\ req = [r \in Requests |-> Idle]
    /\ guesses = 0
    /\ lost = 0
    /\ slow = {}

-----------------------------------------------------------------------------
\* Mutant: an attempt on a locked account is recorded as a failure.
ReadUserRecords(r) ==
    /\ req[r].at = "idle"
    /\ req' = [req EXCEPT ![r] = [at |-> IF Locked THEN "record" ELSE "verify",
                                 count |-> failed_login_count]]
    /\ UNCHANGED <<now, failed_login_count, locked_until, guesses, lost, slow>>

\* getUserByUsername, and the lock test on what it read.
ReadUser(r) ==
    /\ req[r].at = "idle"
    /\ ~Locked
    /\ req' = [req EXCEPT ![r] = [at |-> "verify", count |-> failed_login_count]]
    /\ UNCHANGED <<now, failed_login_count, locked_until, guesses, lost, slow>>

\* bcrypt.compare: the password is right, or it is not (or there is none).
VerifyPassword(r) ==
    /\ req[r].at = "verify"
    /\ \/ Goto(r, "reset")
       \/ failed_login_count < MaxFailures /\ Goto(r, "record")
    /\ UNCHANGED <<now, failed_login_count, locked_until, guesses, lost>>

\* Mutant: the count is written from the copy instead of incremented in place.
RecordFailedLoginOnCopy(r) ==
    /\ req[r].at = "record"
    /\ failed_login_count' = req[r].count + 1
    /\ guesses' = guesses + 1
    /\ IF Locks(r) THEN Goto(r, "lock") ELSE Finish(r)
    /\ UNCHANGED <<now, locked_until, lost>>

\* recordFailedLogin, then the test against the settings.
RecordFailedLogin(r) ==
    /\ req[r].at = "record"
    /\ failed_login_count' = failed_login_count + 1
    /\ guesses' = guesses + 1
    /\ IF Locks(r) THEN Goto(r, "lock") ELSE Finish(r)
    /\ UNCHANGED <<now, locked_until, lost>>

LockUser(r) ==
    /\ req[r].at = "lock"
    /\ locked_until' = now + LockoutDuration
    /\ guesses' = 0
    /\ lost' = 0
    /\ req' = [req EXCEPT ![r] = Idle]
    /\ slow' = {q \in Requests \ {r} : req[q].at # "idle"}
    /\ UNCHANGED <<now, failed_login_count>>

\* The count and the lock are cleared whatever they are by now; the login goes
\* on to its session (AuthSessions).
ResetFailedLogin(r) ==
    /\ req[r].at = "reset"
    /\ failed_login_count' = 0
    /\ locked_until' = None
    /\ guesses' = 0
    /\ lost' = 0
    /\ Finish(r)
    /\ UNCHANGED now

\* A statement fails, or the process dies.
RequestFails(r) ==
    /\ req[r].at # "idle"
    /\ Finish(r)
    /\ lost' = IF req[r].at = "lock" THEN lost + 1 ELSE lost
    /\ UNCHANGED <<now, failed_login_count, locked_until, guesses>>

\* unlockUser() of the user administration.
UnlockUser ==
    /\ failed_login_count' = 0
    /\ locked_until' = None
    /\ guesses' = 0
    /\ lost' = 0
    /\ UNCHANGED <<now, req, slow>>

Tick ==
    /\ now < MaxTime
    /\ now' = now + 1
    /\ UNCHANGED <<failed_login_count, locked_until, req, guesses, lost, slow>>

Attempt(r) ==
    \/ VerifyPassword(r) \/ RecordFailedLogin(r) \/ LockUser(r)
    \/ ResetFailedLogin(r)

Next ==
    \/ \E r \in Requests : ReadUser(r) \/ Attempt(r) \/ RequestFails(r)
    \/ UnlockUser
    \/ Tick

Spec == Init /\ [][Next]_vars

-----------------------------------------------------------------------------
(* What must hold of it.                                                   *)

\* Every variable keeps its type.
TypeOK ==
    /\ now \in Nat
    /\ failed_login_count \in Nat
    /\ locked_until \in Nat \cup {None}
    /\ req \in [Requests -> Request]
    /\ guesses \in Nat
    /\ lost \in Nat
    /\ slow \subseteq Requests

\* recordFailedLogin increments in the database: no failure is lost, however
\* attempts overlap, so the count is at least the failures since the last lock.
NoFailureLost == guesses <= failed_login_count

\* The setting says how many failures precede a lockout. Decided on a copy of
\* the count, the lockout comes late, but by less than twice the attempts in
\* execution, plus one for each that failed before its lock was written.
GuessBound ==
    guesses <= MaxFailedLoginAttempts - 2 + 2 * Cardinality(Requests) + lost

\* While a lock is in force only an administrator, or an attempt that had read the
\* row before that very lock was written, changes the count or the lock. Such an
\* attempt may lift it (its password was right), begin it anew or raise the count;
\* nobody who came after the lock does, whatever was lifted, expired or locked again
\* in between.
LockChangeExplained ==
    [][Locked /\ <<failed_login_count, locked_until>>' # <<failed_login_count, locked_until>>
       => \/ UnlockUser
          \/ \E r \in slow : req[r].at \in {"record", "lock", "reset"} /\ req'[r] # req[r]
      ]_vars
=============================================================================
