------------------------------- MODULE Delegations -------------------------------
(***************************************************************************)
(* Delegations of authority: rows of tbl_Delegations with a beginning, an  *)
(* end and an active flag, of which a resolution takes those in force at   *)
(* the moment it asks. The rules D3 (no two overlapping delegations of one *)
(* user) and D5 (a delegate does not re-delegate) are SELECTs of their own *)
(* before the write; no statement runs in a transaction, except the ones   *)
(* of a user deletion. Permissions, reasons and operators (D6) are left    *)
(* out: no rule here reads them.                                           *)
(***************************************************************************)
EXTENDS Integers

CONSTANTS
    People,
    Delegated,     \* rows of tbl_Delegations
    Callers,       \* requests executed at the same time
    MaxTime,       \* instants are 1..MaxTime (bound)
    MaxDuration,   \* 90 days
    Nobody

ASSUME DelegationsAssumption ==
    /\ MaxTime \in Nat \ {0} /\ MaxDuration \in Nat \ {0}
    /\ Nobody \notin People \cup Delegated \cup 1..MaxTime /\ Nobody \notin BOOLEAN

VARIABLES
    delegation,
    call,         \* requests in execution
    now

delegationVars == <<delegation, call, now>>

-----------------------------------------------------------------------------
Instants == 1..MaxTime

Delegation == [stored : BOOLEAN, from : People \cup {Nobody}, to : People \cup {Nobody},
               start : 0..MaxTime, end : 0..MaxTime, active : BOOLEAN]

NoDelegation == [stored |-> FALSE, from |-> Nobody, to |-> Nobody,
                 start |-> 0, end |-> 0, active |-> FALSE]

\* create() looks for overlaps, then for acting delegates, then inserts; update()
\* writes after one look. end and active are Nobody when a body of update() does
\* not give them. overtaken: another request wrote a delegation since the first
\* look, or the time went on (auxiliary).
CallSteps == {"idle", "chain", "chainTo", "insert", "write"}

Call == [at : CallSteps, row : Delegated \cup {Nobody},
         from : People \cup {Nobody}, to : People \cup {Nobody},
         start : 0..MaxTime, end : Instants \cup {Nobody},
         active : BOOLEAN \cup {Nobody}, overtaken : BOOLEAN]

NoCall == [at |-> "idle", row |-> Nobody, from |-> Nobody, to |-> Nobody,
           start |-> 0, end |-> Nobody, active |-> Nobody, overtaken |-> FALSE]

ValidDates(start, end) == start < end /\ end - start <= MaxDuration

\* What resolveDelegations and isCurrentlyActingDelegate select.
InForce(d) == delegation[d].active /\ delegation[d].start <= now /\ now < delegation[d].end

Acting(p) == \E d \in Delegated : InForce(d) /\ delegation[d].to = p

\* Both ends of the period count.
Meets(d, start, end) == delegation[d].start <= end /\ delegation[d].end >= start

\* Mutant: only a period that begins inside another one overlaps it.
OverlapsAtStart(p, start, end, self) ==
    \E d \in Delegated \ {self} :
       /\ delegation[d].active /\ delegation[d].from = p
       /\ delegation[d].start <= start /\ delegation[d].end >= start

\* hasActiveOverlappingDelegation.
Overlaps(p, start, end, self) ==
    \E d \in Delegated \ {self} :
       /\ delegation[d].active /\ delegation[d].from = p
       /\ Meets(d, start, end)

DelegationInit ==
    /\ delegation = [d \in Delegated |-> NoDelegation]
    /\ call = [c \in Callers |-> NoCall]
    /\ now = 1

Open(c, new) == call[c].at = "idle" /\ call' = [call EXCEPT ![c] = new]

\* Delegations or the time have changed; c, if any, is done.
Changed(c) ==
    call' = [k \in Callers |->
                IF k = c THEN NoCall
                ELSE [call[k] EXCEPT !.overtaken = call[k].at # "idle"]]

-----------------------------------------------------------------------------
(* DelegationsService.                                                     *)

\* D1, D2 and D3. Nothing forbids a period in the past.
Create(c) ==
    /\ \E p, q \in People, start, end \in Instants :
          /\ p # q
          /\ ValidDates(start, end)
          /\ ~Overlaps(p, start, end, Nobody)
          /\ Open(c, [NoCall EXCEPT !.at = "chain", !.from = p, !.to = q,
                                   !.start = start, !.end = end])
    /\ UNCHANGED <<delegation, now>>

\* D4 may refuse (CallFails), then D5, of the two users one after the other, at the
\* moment of each.
CheckNotActing(c, step, person, next) ==
    /\ call[c].at = step
    /\ call' = [call EXCEPT ![c] =
                  IF Acting(person) THEN NoCall ELSE [@ EXCEPT !.at = next]]
    /\ UNCHANGED <<delegation, now>>

CheckChain(c) ==
    \/ CheckNotActing(c, "chain", call[c].from, "chainTo")
    \/ CheckNotActing(c, "chainTo", call[c].to, "insert")

InsertDelegation(c) ==
    /\ call[c].at = "insert"
    /\ \E d \in Delegated :
          /\ ~delegation[d].stored
          /\ delegation' = [delegation EXCEPT ![d] =
                [stored |-> TRUE, from |-> call[c].from, to |-> call[c].to,
                 start |-> call[c].start, end |-> call[c].end, active |-> TRUE]]
    /\ Changed(c)
    /\ UNCHANGED now

\* Only a new end is looked at; the flag is not, nor are the delegates.
Update(c) ==
    /\ \E d \in Delegated, end \in Instants \cup {Nobody},
          active \in BOOLEAN \cup {Nobody} :
          /\ delegation[d].stored
          /\ end # Nobody =>
                /\ ValidDates(delegation[d].start, end)
                /\ ~Overlaps(delegation[d].from, delegation[d].start, end, d)
          /\ Open(c, [NoCall EXCEPT !.at = "write", !.row = d, !.end = end,
                                   !.active = active])
    /\ UNCHANGED <<delegation, now>>

\* Mutant: a field the body does not give is written as NULL.
OrStoredRaw(new, old) == new

\* COALESCE.
OrStored(new, old) == IF new = Nobody THEN old ELSE new

WriteDelegation(c) ==
    /\ call[c].at = "write"
    /\ delegation' = [delegation EXCEPT
                         ![call[c].row].end = OrStored(call[c].end, @),
                         ![call[c].row].active = OrStored(call[c].active, @)]
    /\ Changed(c)
    /\ UNCHANGED now

\* Any stored row, an ended one too.
Cancel ==
    /\ \E d \in Delegated :
          /\ delegation[d].stored
          /\ delegation' = [delegation EXCEPT ![d].active = FALSE, ![d].end = now]
    /\ Changed(Nobody)
    /\ UNCHANGED now

\* The deletion of a user.
EndAllForUser ==
    /\ \E p \in People :
          delegation' = [d \in Delegated |->
             IF /\ p \in {delegation[d].from, delegation[d].to}
                /\ delegation[d].active /\ delegation[d].end > now
             THEN [delegation[d] EXCEPT !.active = FALSE, !.end = now]
             ELSE delegation[d]]
    /\ Changed(Nobody)
    /\ UNCHANGED now

\* A rule refuses, a statement fails or the process dies.
CallFails(c) ==
    /\ call[c].at # "idle"
    /\ call' = [call EXCEPT ![c] = NoCall]
    /\ UNCHANGED <<delegation, now>>

Tick ==
    /\ now < MaxTime
    /\ now' = now + 1
    /\ Changed(Nobody)
    /\ UNCHANGED delegation

DelegationNext ==
    \/ \E c \in Callers :
          \/ Create(c) \/ CheckChain(c) \/ InsertDelegation(c)
          \/ Update(c) \/ WriteDelegation(c)
          \/ CallFails(c)
    \/ Cancel \/ EndAllForUser \/ Tick

DelegationSpec == DelegationInit /\ [][DelegationNext]_delegationVars

-----------------------------------------------------------------------------
\* Every variable keeps its type.
DelegationTypeOK ==
    /\ delegation \in [Delegated -> Delegation]
    /\ call \in [Callers -> Call]
    /\ now \in Instants

Ends(c, step) == call[c].at = step /\ call'[c].at = "idle"

\* c writes a row back into force without a look at others: the body sets the flag,
\* or keeps it set while the row was cancelled after it was read.
Revives(c) == Ends(c, "write") /\ call[c].active = TRUE

\* Active delegations of one user whose periods meet.
Clash(d, e) ==
    /\ d # e /\ delegation[d].active /\ delegation[e].active
    /\ delegation[d].from = delegation[e].from
    /\ Meets(d, delegation[e].start, delegation[e].end)

\* Rule D3, "no overlapping active delegations from the same user": two begin to
\* clash only when a body revives one, or in a request that was overtaken after it
\* had looked for overlaps.
ClashExplained ==
    [][\A d, e \in Delegated :
          ~Clash(d, e) /\ Clash(d, e)'
          => \E c \in Callers :
                \/ Revives(c)
                \/ call[c].at \in {"insert", "write"} /\ Ends(c, call[c].at)
                   /\ call[c].overtaken]_delegationVars

\* e re-delegates, or adds a second delegator to, what d made its user act for.
Chained(d, e) ==
    /\ InForce(d) /\ InForce(e) /\ d # e
    /\ delegation[e].from = delegation[d].to \/ delegation[e].to = delegation[d].to

\* Rule D5, "a delegate cannot re-delegate": a delegate begins to re-delegate or to
\* act for two only when a future delegation begins or an update revives or prolongs
\* one (D5 knows the present only, and update() does not ask it), in a creation that
\* was overtaken, or because its delegator is given authority of another user
\* afterwards.
ChainExplained ==
    [][\A d, e \in Delegated :
          ~Chained(d, e) /\ Chained(d, e)'
          => \/ now' # now
             \/ \E c \in Callers :
                   \/ Ends(c, "write")
                   \/ Ends(c, "insert") /\ call[c].overtaken
                   \/ Ends(c, "insert") /\ ~InForce(d) /\ InForce(e)]_delegationVars

\* The two rules an overlap, a revival or the passing of time can break.
RulesExplained == ClashExplained /\ ChainExplained
=============================================================================
