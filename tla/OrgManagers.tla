------------------------------ MODULE OrgManagers ------------------------------
(***************************************************************************)
(* The heads of one organisation unit: dated tenures, of which the primary *)
(* ones in force make the approval chain. Every statement is about one     *)
(* unit, so units do not influence each other; deputies, acting managers   *)
(* and the change log are read by no statement about heads.                *)
(*                                                                         *)
(* An assignment ends the previous heads and inserts in one transaction    *)
(* whose locks cover the rows it ended and no row that is not there yet.   *)
(* updateManager reads its row before the transaction.                     *)
(***************************************************************************)
EXTENDS Integers

CONSTANTS
    Rows,       \* rows of tbl_Org_Unit_Manager
    Handlers,
    MaxDay,     \* days are 1..MaxDay (bound)
    Open,       \* effective_to IS NULL
    Null

ASSUME OrgManagersAssumption ==
    /\ MaxDay \in Nat \ {0}
    /\ Open \notin 0..MaxDay
    /\ Null \notin Rows \cup 1..MaxDay

VARIABLES
    tenure,
    job,       \* requests in execution
    today

headVars == <<tenure, job, today>>

-----------------------------------------------------------------------------
Days == 1..MaxDay

\* 0 is the day before the first one.
EndDates == (0..MaxDay) \cup {Open}

\* Nothing reads a row with is_active = 0, so a removed one is NoTenure again.
Tenure == [stored : BOOLEAN, from : 0..MaxDay, to : EndDates, primary : BOOLEAN]

NoTenure == [stored |-> FALSE, from |-> 0, to |-> 0, primary |-> FALSE]

\* ended: the rows the open transaction ended and has locked; they take the new
\* date when it commits. from is the day they are ended for, end the effectiveTo of
\* a body that promotes. overtaken: another request wrote a tenure meanwhile
\* (auxiliary, for the properties).
Job == [at : {"idle", "insert", "update", "promote"}, row : Rows \cup {Null},
        wasPrimary : BOOLEAN, from : 0..MaxDay, end : Days \cup {Null},
        ended : SUBSET Rows, overtaken : BOOLEAN]

NoJob == [at |-> "idle", row |-> Null, wasPrimary |-> FALSE, from |-> 0,
          end |-> Null, ended |-> {}, overtaken |-> FALSE]

EndsAfter(end, day) == end = Open \/ end >= day

IsHead(x) == tenure[x].stored /\ tenure[x].primary

\* findCurrentHead and getApprovalChain: the heads of a day.
HeadsOf(day) ==
    {x \in Rows : IsHead(x) /\ tenure[x].from <= day /\ EndsAfter(tenure[x].to, day)}

\* Mutant: a head that has not begun is not ended.
HeadsFromBegun(day) == HeadsOf(day)

\* The rows endPreviousPrimaryHead selects, future heads among them.
HeadsFrom(day) == {x \in Rows : IsHead(x) /\ EndsAfter(tenure[x].to, day)}

\* DATEADD(DAY, -1, newEffectiveFrom).
LastDayBefore(day) == day - 1

WithEnded(rows, day) ==
    [x \in Rows |-> IF x \in rows
                    THEN [tenure[x] EXCEPT !.to = LastDayBefore(day)] ELSE tenure[x]]

\* The UPDATE of r waits for the transactions that have changed rows of the unit.
NotBlocked(r) == \A q \in Handlers \ {r} : job[q].ended = {}

Locked(x) == \E q \in Handlers : x \in job[q].ended

\* Rows that no request still remembers.
FreeRows == {x \in Rows : ~tenure[x].stored /\ \A r \in Handlers : job[r].row # x}

\* A request of one statement has committed.
Overtake ==
    job' = [q \in Handlers |-> [job[q] EXCEPT !.overtaken = job[q].at # "idle"]]

\* r has committed.
Commit(r) ==
    job' = [q \in Handlers |->
               IF q = r THEN NoJob
               ELSE [job[q] EXCEPT !.overtaken = job[q].at # "idle"]]

HeadsInit ==
    /\ tenure = [x \in Rows |-> NoTenure]
    /\ job = [r \in Handlers |-> NoJob]
    /\ today = 1

-----------------------------------------------------------------------------
(* assignManager. Its rules G3-G5 may refuse; G3 reads org.OrgUnitManagers,  *)
(* not the table written here, so it guards nothing. The dates are not      *)
(* compared with each other.                                               *)

AssignHead(r) ==
    /\ job[r].at = "idle"
    /\ NotBlocked(r)
    /\ \E day \in Days :
          job' = [job EXCEPT ![r] = [NoJob EXCEPT !.at = "insert", !.from = day,
                                                  !.ended = HeadsFrom(day)]]
    /\ UNCHANGED <<tenure, today>>

\* INSERT and commit.
InsertHead(r) ==
    /\ job[r].at = "insert"
    /\ \E x \in FreeRows, end \in EndDates \ {0} :
          tenure' = [WithEnded(job[r].ended, job[r].from) EXCEPT ![x] =
                        [stored |-> TRUE, from |-> job[r].from, to |-> end,
                         primary |-> TRUE]]
    /\ Commit(r)
    /\ UNCHANGED today

AssignOther ==
    /\ \E x \in FreeRows, day \in Days, end \in EndDates \ {0} :
          tenure' = [tenure EXCEPT ![x] = [stored |-> TRUE, from |-> day,
                                           to |-> end, primary |-> FALSE]]
    /\ UNCHANGED <<job, today>>

-----------------------------------------------------------------------------
(* updateManager.                                                          *)

ReadManager(r) ==
    /\ job[r].at = "idle"
    /\ \E x \in Rows :
          /\ tenure[x].stored
          /\ job' = [job EXCEPT ![r] =
                [NoJob EXCEPT !.at = "update", !.row = x,
                              !.wasPrimary = tenure[x].primary]]
    /\ UNCHANGED <<tenure, today>>

\* UPDATE ... WHERE is_active = 1 of the columns that are given.
Written(row, end, primary) ==
    IF row.stored
    THEN [row EXCEPT !.to = IF end = Null THEN @ ELSE end, !.primary = primary]
    ELSE row

\* No previous head is ended: the row was primary when it was read, or the
\* body does not make it primary.
UpdateManager(r) ==
    /\ job[r].at = "update"
    /\ ~Locked(job[r].row)
    /\ \E end \in Days \cup {Null},
          primary \in {FALSE, tenure[job[r].row].primary} \cup {job[r].wasPrimary} :
          tenure' = [tenure EXCEPT ![job[r].row] = Written(@, end, primary)]
    /\ Commit(r)
    /\ UNCHANGED today

\* Mutant: the row is not asked whether it is primary already.
PromoteManagerAgain(r) ==
    /\ job[r].at = "update"
    /\ NotBlocked(r)
    /\ \E end \in Days \cup {Null} :
          job' = [job EXCEPT ![r].at = "promote", ![r].from = today,
                             ![r].end = end, ![r].ended = HeadsFrom(today)]
    /\ UNCHANGED <<tenure, today>>

PromoteManager(r) ==
    /\ job[r].at = "update" /\ ~job[r].wasPrimary
    /\ NotBlocked(r)
    /\ \E end \in Days \cup {Null} :
          job' = [job EXCEPT ![r].at = "promote", ![r].from = today,
                             ![r].end = end, ![r].ended = HeadsFrom(today)]
    /\ UNCHANGED <<tenure, today>>

\* The row itself is among the ended ones when another request promoted it, and
\* the previous heads are ended even if the row has been removed.
WritePromotion(r) ==
    /\ job[r].at = "promote"
    /\ tenure' = [WithEnded(job[r].ended, job[r].from) EXCEPT
                     ![job[r].row] = Written(@, job[r].end, TRUE)]
    /\ Commit(r)
    /\ UNCHANGED today

RemoveManager ==
    /\ \E x \in Rows :
          /\ tenure[x].stored /\ ~Locked(x)
          /\ tenure' = [tenure EXCEPT ![x] = NoTenure]
    /\ Overtake
    /\ UNCHANGED today

\* A rule refuses, a statement fails or the process dies: rolled back.
AssignmentFails(r) ==
    /\ job[r].at # "idle"
    /\ job' = [job EXCEPT ![r] = NoJob]
    /\ UNCHANGED <<tenure, today>>

NextDay ==
    /\ today < MaxDay
    /\ today' = today + 1
    /\ UNCHANGED <<tenure, job>>

HeadsNext ==
    \/ \E r \in Handlers :
          \/ AssignHead(r) \/ InsertHead(r)
          \/ ReadManager(r) \/ UpdateManager(r)
          \/ PromoteManager(r) \/ WritePromotion(r)
          \/ AssignmentFails(r)
    \/ AssignOther \/ RemoveManager \/ NextDay

HeadsSpec == HeadsInit /\ [][HeadsNext]_headVars

-----------------------------------------------------------------------------
\* Every variable keeps its type.
HeadsTypeOK ==
    /\ tenure \in [Rows -> Tenure]
    /\ job \in [Handlers -> Job]
    /\ today \in Days

Finishes(r, step) == job[r].at = step /\ job'[r].at = "idle"

\* r writes the row it read without ending anybody and moves its end.
Extends(r) ==
    /\ Finishes(r, "update")
    /\ \/ tenure'[job[r].row].to # tenure[job[r].row].to
       \/ tenure'[job[r].row].primary /\ ~tenure[job[r].row].primary

\* Rule G1, "at most one active HEAD with IsPrimary=1 per unit per date": a day
\* gets a second head only from an update that moves the end of a tenure or
\* rewrites a stale flag, from a promotion of a tenure that began earlier or was
\* replaced meanwhile, or from an assignment that overlapped another one.
SecondHeadExplained ==
    [][\A day \in Days :
          (\A x, y \in HeadsOf(day) : x = y) /\ ~(\A x, y \in HeadsOf(day)' : x = y)
          => \E r \in Handlers :
                \/ Extends(r)
                \/ Finishes(r, "promote") /\ (day < job[r].from \/ job[r].overtaken)
                \/ Finishes(r, "insert") /\ job[r].overtaken]_headVars

\* What r promotes is in force on the day, by its own dates and those of the body.
Reaches(r, day) ==
    LET row == tenure[job[r].row]
    IN  row.from <= day /\ EndsAfter(IF job[r].end = Null THEN row.to ELSE job[r].end, day)

\* Ending the previous head leaves no gap: a day that had a head loses it only if a
\* manager is removed or loses the flag or gets an end, if the new head does not
\* reach that day, or if another request overtook a promotion (it promoted the same
\* row, which this one then ends, or removed it, so that nobody succeeds).
NoGap ==
    [][\A day \in Days :
          HeadsOf(day) # {} /\ HeadsOf(day)' = {}
          => \/ \E x \in HeadsOf(day) : ~tenure'[x].stored \/ ~tenure'[x].primary
             \/ \E r \in Handlers :
                   \/ Finishes(r, "update")
                   \/ Finishes(r, "insert") /\ day >= job[r].from
                   \/ Finishes(r, "promote") /\ (job[r].overtaken \/ ~Reaches(r, day))]_headVars
=============================================================================
