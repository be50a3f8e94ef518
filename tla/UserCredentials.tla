---------------------------- MODULE UserCredentials ----------------------------
(***************************************************************************)
(* Invitations, password resets and passwords of one user account:         *)
(* user-credentials.service.ts and user-lifecycle.service.ts over the rows *)
(* of tbl_Users, tbl_Local_Credentials, tbl_Password_History and           *)
(* tbl_User_Invitations that carry the account's user_id.                  *)
(*                                                                         *)
(* A handler reads and checks outside its transaction, so a request is a   *)
(* state machine (req). A transaction is one step where its statements lock*)
(* what the others need. The one that issues a token is not: where there is*)
(* no row to revoke its UPDATE locks nothing, and another transaction may  *)
(* insert before it does (READ COMMITTED, the driver's default).           *)
(***************************************************************************)
EXTENDS Integers, Sequences, FiniteSets

CONSTANTS
    Requests,
    Tokens,        \* invitations, identified by their token
    Passwords,
    None,          \* SQL NULL
    CheckCount,    \* PASSWORD_HISTORY_CHECK_COUNT
    KeepCount,     \* PASSWORD_HISTORY_MAX_COUNT
    InviteExpiry,  \* INVITATION_EXPIRY_DAYS
    ResetExpiry,   \* PASSWORD_RESET_EXPIRY_HOURS
    MaxTime,       \* bounds of the model: the last clock reading,
    MaxPasswords   \* and how often a password is set

ASSUME CredentialsAssumption ==
    /\ IsFiniteSet(Requests) /\ IsFiniteSet(Tokens)
    /\ None \notin Tokens /\ None \notin Passwords
    /\ None \notin {"INVITE", "PASSWORD_RESET"}
    /\ CheckCount \in Nat \ {0}
    /\ KeepCount \in Nat /\ CheckCount <= KeepCount
    /\ InviteExpiry \in Nat \ {0} /\ ResetExpiry \in Nat \ {0}
    /\ MaxTime \in Nat /\ MaxPasswords \in Nat

VARIABLES
    now,
    is_active,             \* tbl_Users.is_active
    must_change_password,
    password,              \* what password_hash is the hash of, None: no row
    history,               \* tbl_Password_History, by created_at
    inv,                   \* tbl_User_Invitations
    req,
    log,                   \* every password ever set
    used,                  \* how often each token set a password
    deleted                \* soft-deleted, and not activated by hand since

row  == <<is_active, must_change_password, password, history>>
vars == <<now, row, inv, req, log, used, deleted>>

-----------------------------------------------------------------------------
Purposes == {"INVITE", "PASSWORD_RESET"}

Invitation == [purpose : Purposes \cup {None}, expires_at : Nat,
               consumed : BOOLEAN]

NoInvitation == [purpose |-> None, expires_at |-> 0, consumed |-> FALSE]

Steps == {"idle", "revoke", "create", "history", "commit"}

\* The locals of a handler. seen, of no influence, is the length of log when
\* the history was read.
Request == [at : Steps, purpose : Purposes \cup {None},
            token : Tokens \cup {None}, password : Passwords \cup {None},
            seen : Nat]

Idle == [at |-> "idle", purpose |-> None, token |-> None, password |-> None,
         seen |-> 0]

\* The n latest entries.
Latest(s, n) == SubSeq(s, IF Len(s) > n THEN Len(s) - n + 1 ELSE 1, Len(s))

Values(s) == {s[i] : i \in 1 .. Len(s)}

Issued == {t \in Tokens : inv[t].purpose # None}

Outstanding(purpose) ==
    {t \in Issued : inv[t].purpose = purpose /\ ~inv[t].consumed}

\* Mutant: consumed_at is not looked at.
ValidUnexpired(t) == t \in Issued /\ inv[t].expires_at > now

\* The test validateInvitationToken and acceptInvitation share.
Valid(t) == t \in Issued /\ ~inv[t].consumed /\ inv[t].expires_at > now

FreshTokens == {t \in Tokens \ Issued : \A r \in Requests : req[r].token # t}

Expiry(purpose) == IF purpose = "INVITE" THEN InviteExpiry ELSE ResetExpiry

Goto(r, step) == req' = [req EXCEPT ![r].at = step]

Finish(r) == req' = [req EXCEPT ![r] = Idle]

\* users.service create() leaves an account inactive and without a password; it
\* issues the first invitation of a local one in its transaction, as Invite
\* does from here.
Init ==
    /\ now = 0
    /\ is_active = FALSE
    /\ must_change_password = FALSE
    /\ password = None
    /\ history = <<>>
    /\ inv = [t \in Tokens |-> NoInvitation]
    /\ req = [r \in Requests |-> Idle]
    /\ log = <<>>
    /\ used = [t \in Tokens |-> 0]
    /\ deleted = FALSE

-----------------------------------------------------------------------------
(* inviteUser and resetPassword: read the user, then one transaction.      *)

StartIssue(r, purpose) ==
    /\ req[r].at = "idle"
    /\ \E t \in FreshTokens :
          req' = [req EXCEPT ![r] = [Idle EXCEPT !.at = "revoke",
                                        !.purpose = purpose, !.token = t]]
    /\ UNCHANGED <<now, row, inv, log, used, deleted>>

Invite(r, resend) ==
    /\ ~is_active \/ resend
    /\ StartIssue(r, "INVITE")

ResetPassword(r) == StartIssue(r, "PASSWORD_RESET")

\* create() and what follows it in the transaction; others are the outstanding
\* tokens that it revoked, with consumed_at as with revoked_at.
IssueToken(r, others) ==
    /\ inv' = [t \in Tokens |->
                  IF t = req[r].token
                  THEN [purpose |-> req[r].purpose, consumed |-> FALSE,
                        expires_at |-> now + Expiry(req[r].purpose)]
                  ELSE IF t \in others
                       THEN [inv[t] EXCEPT !.consumed = TRUE]
                       ELSE inv[t]]
    /\ must_change_password' = IF req[r].purpose = "PASSWORD_RESET"
                               THEN password # None
                               ELSE must_change_password
    /\ Finish(r)
    /\ UNCHANGED <<now, is_active, password, history, log, used, deleted>>

\* Mutant: the outstanding tokens stay.
IssueReplacingNone(r) ==
    /\ req[r].at = "revoke"
    /\ Outstanding(req[r].purpose) # {}
    /\ IssueToken(r, {})

\* revokeOutstanding locks the rows it finds until the transaction commits.
IssueReplacing(r) ==
    /\ req[r].at = "revoke"
    /\ Outstanding(req[r].purpose) # {}
    /\ IssueToken(r, Outstanding(req[r].purpose))

IssueFindsNone(r) ==
    /\ req[r].at = "revoke"
    /\ Outstanding(req[r].purpose) = {}
    /\ Goto(r, "create")
    /\ UNCHANGED <<now, row, inv, log, used, deleted>>

IssueCreate(r) ==
    /\ req[r].at = "create"
    /\ IssueToken(r, {})

-----------------------------------------------------------------------------
(* acceptInvitation: validate, compare with the history, one transaction.  *)

AcceptRead(r, t, p) ==
    /\ req[r].at = "idle"
    /\ Valid(t)
    /\ Len(log) < MaxPasswords
    /\ req' = [req EXCEPT ![r] = [Idle EXCEPT !.at = "history", !.token = t,
                                              !.password = p]]
    /\ UNCHANGED <<now, row, inv, log, used, deleted>>

AcceptCompare(r) ==
    /\ req[r].at = "history"
    /\ IF req[r].password \in Values(Latest(history, CheckCount))
       THEN Finish(r)                           \* 400 PASSWORD_HISTORY_VIOLATION
       ELSE req' = [req EXCEPT ![r] = [@ EXCEPT !.at = "commit",
                                                !.seen = Len(log)]]
    /\ UNCHANGED <<now, row, inv, log, used, deleted>>

NewHash(r) == req[r].password

\* Mutant: the history is not pruned.
PruneNone(passwords) == passwords

Prune(passwords) == Latest(passwords, KeepCount)

\* Mutant: the token is not consumed.
MarkConsumedNone(t) == inv

MarkConsumed(t) == [inv EXCEPT ![t].consumed = TRUE]

AcceptCommit(r) ==
    /\ req[r].at = "commit"
    /\ password' = NewHash(r)
    /\ history' = Prune(Append(history, req[r].password))
    /\ inv' = MarkConsumed(req[r].token)
    /\ is_active' = TRUE
    /\ must_change_password' = FALSE
    /\ log' = Append(log, req[r].password)
    /\ used' = [used EXCEPT ![req[r].token] = @ + 1]
    /\ Finish(r)
    /\ UNCHANGED <<now, deleted>>

\* An error or a crash: an open transaction is rolled back.
RequestFails(r) ==
    /\ req[r].at # "idle"
    /\ Finish(r)
    /\ UNCHANGED <<now, row, inv, log, used, deleted>>

-----------------------------------------------------------------------------
(* The lifecycle of the account; its sessions are in AuthSessions.          *)

Activate ==
    /\ ~is_active
    /\ is_active' = TRUE
    /\ deleted' = FALSE
    /\ UNCHANGED <<now, must_change_password, password, history, inv, req, log,
                   used>>

Deactivate ==
    /\ is_active
    /\ is_active' = FALSE
    /\ UNCHANGED <<now, must_change_password, password, history, inv, req, log,
                   used, deleted>>

SoftDelete ==
    /\ is_active' = FALSE
    /\ deleted' = TRUE
    /\ UNCHANGED <<now, must_change_password, password, history, inv, req, log,
                   used>>

Tick ==
    /\ now < MaxTime
    /\ now' = now + 1
    /\ UNCHANGED <<row, inv, req, log, used, deleted>>

Arrive(r) ==
    \/ \E resend \in BOOLEAN : Invite(r, resend)
    \/ ResetPassword(r)
    \/ \E t \in Tokens, p \in Passwords : AcceptRead(r, t, p)

Advance(r) ==
    \/ IssueReplacing(r) \/ IssueFindsNone(r) \/ IssueCreate(r)
    \/ AcceptCompare(r) \/ AcceptCommit(r)

Next ==
    \/ \E r \in Requests : Arrive(r) \/ Advance(r) \/ RequestFails(r)
    \/ Activate \/ Deactivate \/ SoftDelete
    \/ Tick

Spec == Init /\ [][Next]_vars

-----------------------------------------------------------------------------
(* What must hold of it.                                                   *)

\* Every variable keeps its type.
TypeOK ==
    /\ now \in Nat
    /\ is_active \in BOOLEAN
    /\ must_change_password \in BOOLEAN
    /\ password \in Passwords \cup {None}
    /\ history \in Seq(Passwords)
    /\ inv \in [Tokens -> Invitation]
    /\ req \in [Requests -> Request]
    /\ log \in Seq(Passwords)
    /\ used \in [Tokens -> Nat]
    /\ deleted \in BOOLEAN

\* Pruning keeps the end of the log of all passwords, and the credential is
\* the newest entry: what is compared and what opens the account never part.
HistoryIsLog ==
    /\ history = Latest(log, KeepCount)
    /\ password = IF log = <<>> THEN None ELSE log[Len(log)]

\* A password about to be set differs from the CheckCount ones set before the
\* comparison: reading the pruned history is as good as reading all of it.
ComparedWithLog ==
    \A r \in Requests : req[r].at = "commit" =>
        req[r].password \notin
            Values(Latest(SubSeq(log, 1, req[r].seen), CheckCount))

\* What the program remembers of passwords suffices to refuse the recent ones.
HistoryRemembers == HistoryIsLog /\ ComparedWithLog

\* The requests that validated t and have not set a password with it.
Accepting(t) ==
    {r \in Requests : req[r].at \in {"history", "commit"} /\ req[r].token = t}

\* A token is validated in one step and consumed in a later one, so it can be
\* used more than once, but only by requests that validated it before its
\* first use: never more often than there are requests in execution.
UseBound ==
    \A t \in Tokens : used[t] + Cardinality(Accepting(t)) <= Cardinality(Requests)

\* "Consume token (single-use)".
TokenSingleUse == \A t \in Tokens : used[t] <= 1

\* A token that was used, or revoked by a newer one, and that no request has
\* validated before, never sets a password again.
ConsumedIsFinal ==
    [][\A t \in Tokens :
          (t \in Issued /\ inv[t].consumed /\ Accepting(t) = {}) =>
              /\ inv'[t] = inv[t]
              /\ used'[t] = used[t]
              /\ Accepting(t)' = {}]_vars

Creating(purpose) ==
    {r \in Requests : req[r].at = "create" /\ req[r].purpose = purpose}

\* Concurrent issues can leave several tokens of a purpose outstanding, but
\* not more than there were requests in execution.
OutstandingBound ==
    \A purpose \in Purposes :
        Cardinality(Outstanding(purpose)) + Cardinality(Creating(purpose))
            <= Cardinality(Requests)

=============================================================================
