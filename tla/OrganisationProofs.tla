-------------------------- MODULE OrganisationProofs --------------------------
(* Theorems about OrgManagers: when a day gets a second head, and when it     *)
(* loses its last one.                                                        *)
EXTENDS OrgManagers, TLAPS

-----------------------------------------------------------------------------
\* The days of a request are days, and unless it was overtaken it has ended all
\* heads from its day on and knows the row it read.
Sound(j) ==
    /\ j.at \in {"insert", "promote"} =>
          /\ j.from \in Days
          /\ ~j.overtaken => j.ended = HeadsFrom(j.from)
    /\ j.at \in {"update", "promote"} =>
          /\ j.row \in Rows
          /\ ~j.overtaken => tenure[j.row].stored /\ tenure[j.row].primary = j.wasPrimary
    /\ j.at = "promote" => ~j.wasPrimary

JobOK(r) == Sound(job[r])

\* The inductive invariant.
IInv ==
    /\ HeadsTypeOK
    /\ \A r \in Handlers : JobOK(r)

Overtaken(j) == [j EXCEPT !.overtaken = j.at # "idle"]

-----------------------------------------------------------------------------
LEMMA NoJobTyped == NoJob \in Job /\ NoJob.at = "idle"
BY OrgManagersAssumption DEF NoJob, Job

LEMMA OvertakenFields ==
    ASSUME NEW j \in Job
    PROVE  /\ Overtaken(j) \in Job
           /\ Overtaken(j).at = j.at /\ Overtaken(j).row = j.row
           /\ Overtaken(j).from = j.from /\ Overtaken(j).wasPrimary = j.wasPrimary
           /\ Overtaken(j).overtaken <=> j.at # "idle"
BY DEF Overtaken, Job

LEMMA EndDatesTyped ==
    ASSUME NEW day \in Days
    PROVE  /\ day \in EndDates /\ day \in 0..MaxDay
           /\ LastDayBefore(day) \in EndDates /\ LastDayBefore(day) # Open
           /\ LastDayBefore(day) \in 0..MaxDay /\ LastDayBefore(day) = day - 1
BY OrgManagersAssumption DEF Days, EndDates, LastDayBefore

\* An end before the first day of a successor reaches no day of the successor, and
\* every day before it that was reached.
LEMMA EndedReach ==
    ASSUME NEW from \in Days, NEW day \in Days
    PROVE  EndsAfter(LastDayBefore(from), day) <=> day < from
BY EndDatesTyped, OrgManagersAssumption DEF EndsAfter, Days

LEMMA EndsAfterEarlier ==
    ASSUME NEW end \in EndDates, NEW day \in Days, NEW early \in Days, early <= day,
           EndsAfter(end, day)
    PROVE  EndsAfter(end, early)
BY OrgManagersAssumption DEF EndsAfter, EndDates, Days

LEMMA WithEndedEffect ==
    ASSUME HeadsTypeOK, NEW rows, NEW day \in Days
    PROVE  /\ WithEnded(rows, day) \in [Rows -> Tenure]
           /\ \A x \in Rows :
                 /\ WithEnded(rows, day)[x].stored = tenure[x].stored
                 /\ WithEnded(rows, day)[x].from = tenure[x].from
                 /\ WithEnded(rows, day)[x].primary = tenure[x].primary
                 /\ x \in rows => WithEnded(rows, day)[x].to = LastDayBefore(day)
                 /\ x \notin rows => WithEnded(rows, day)[x] = tenure[x]
<1>1. ASSUME NEW x \in Rows
      PROVE  LET new == IF x \in rows
                        THEN [tenure[x] EXCEPT !.to = LastDayBefore(day)] ELSE tenure[x]
             IN  /\ new \in Tenure /\ new.stored = tenure[x].stored
                 /\ new.from = tenure[x].from /\ new.primary = tenure[x].primary
                 /\ x \in rows => new.to = LastDayBefore(day)
                 /\ x \notin rows => new = tenure[x]
  BY EndDatesTyped DEF HeadsTypeOK, Tenure
<1>2. QED  BY <1>1 DEF WithEnded

LEMMA WrittenEffect ==
    ASSUME NEW row \in Tenure, NEW end \in Days \cup {Null}, NEW primary \in BOOLEAN
    PROVE  /\ Written(row, end, primary) \in Tenure
           /\ Written(row, end, primary).stored = row.stored
           /\ Written(row, end, primary).from = row.from
           /\ row.stored => /\ Written(row, end, primary).primary = primary
                            /\ Written(row, end, primary).to =
                                  IF end = Null THEN row.to ELSE end
           /\ ~row.stored => Written(row, end, primary) = row
<1>1. end # Null => end \in EndDates
  BY EndDatesTyped
<1>2. QED  BY <1>1 DEF Written, Tenure

-----------------------------------------------------------------------------
(* What each write does to the tenures.                                      *)

LEMMA InsertHeadEffect ==
    ASSUME IInv, NEW r \in Handlers, InsertHead(r)
    PROVE  /\ job[r].at = "insert" /\ job[r].from \in Days /\ tenure' \in [Rows -> Tenure]
           /\ \E x \in FreeRows :
                 /\ tenure'[x].stored /\ tenure'[x].primary /\ tenure'[x].from = job[r].from
                 /\ \A y \in Rows \ {x} :
                       tenure'[y] = WithEnded(job[r].ended, job[r].from)[y]
<1>1. HeadsTypeOK /\ job[r].at = "insert" /\ job[r].from \in Days
  BY DEF IInv, JobOK, Sound, InsertHead
<1>2. PICK x \in FreeRows, end \in EndDates \ {0} :
         tenure' = [WithEnded(job[r].ended, job[r].from) EXCEPT ![x] =
                       [stored |-> TRUE, from |-> job[r].from, to |-> end,
                        primary |-> TRUE]]
  BY DEF InsertHead
<1>3. WithEnded(job[r].ended, job[r].from) \in [Rows -> Tenure]
  BY <1>1, WithEndedEffect
<1>4. x \in Rows /\ job[r].from \in 0..MaxDay
  BY <1>1, EndDatesTyped DEF FreeRows
<1> DEFINE w == WithEnded(job[r].ended, job[r].from)
           new == [stored |-> TRUE, from |-> job[r].from, to |-> end, primary |-> TRUE]
<1>5. new \in Tenure /\ new.stored /\ new.primary /\ new.from = job[r].from
  BY <1>4 DEF Tenure
<1>6. tenure' = [w EXCEPT ![x] = new]
  BY <1>2
<1> HIDE DEF w, new
<1>7. w \in [Rows -> Tenure]
  BY <1>3 DEF w
<1>8. /\ tenure' \in [Rows -> Tenure] /\ tenure'[x] = new
      /\ \A y \in Rows \ {x} : tenure'[y] = w[y]
  BY <1>4, <1>5, <1>6, <1>7
<1>9. QED  BY <1>1, <1>5, <1>8 DEF w

LEMMA WritePromotionEffect ==
    ASSUME IInv, NEW r \in Handlers, WritePromotion(r)
    PROVE  LET w == WithEnded(job[r].ended, job[r].from) IN
           /\ job[r].at = "promote" /\ job[r].from \in Days /\ job[r].row \in Rows
           /\ tenure' \in [Rows -> Tenure]
           /\ tenure'[job[r].row] = Written(w[job[r].row], job[r].end, TRUE)
           /\ \A y \in Rows \ {job[r].row} : tenure'[y] = w[y]
<1>1. /\ HeadsTypeOK /\ job[r].at = "promote" /\ job[r].from \in Days /\ job[r].row \in Rows
      /\ job[r].end \in Days \cup {Null}
  BY DEF IInv, HeadsTypeOK, Job, JobOK, Sound, WritePromotion
<1> DEFINE w == WithEnded(job[r].ended, job[r].from)
<1>2. tenure' = [w EXCEPT ![job[r].row] = Written(w[job[r].row], job[r].end, TRUE)]
  BY DEF WritePromotion
<1>3. w \in [Rows -> Tenure]
  BY <1>1, WithEndedEffect
<1> HIDE DEF w
<1>4. w[job[r].row] \in Tenure
  BY <1>1, <1>3
<1>5. Written(w[job[r].row], job[r].end, TRUE) \in Tenure
  BY <1>1, <1>4, WrittenEffect
<1>6. QED  BY <1>1, <1>2, <1>3, <1>5 DEF w

LEMMA UpdateManagerEffect ==
    ASSUME IInv, NEW r \in Handlers, UpdateManager(r)
    PROVE  /\ job[r].at = "update" /\ job[r].row \in Rows
           /\ tenure' \in [Rows -> Tenure]
           /\ tenure'[job[r].row].stored = tenure[job[r].row].stored
           /\ tenure'[job[r].row].from = tenure[job[r].row].from
           /\ \A y \in Rows \ {job[r].row} : tenure'[y] = tenure[y]
<1>1. /\ HeadsTypeOK /\ job[r] \in Job /\ job[r].at = "update" /\ job[r].row \in Rows
      /\ tenure[job[r].row] \in Tenure
  BY DEF IInv, HeadsTypeOK, JobOK, Sound, UpdateManager
<1>2. PICK end \in Days \cup {Null}, primary \in BOOLEAN :
         tenure' = [tenure EXCEPT ![job[r].row] =
                       Written(tenure[job[r].row], end, primary)]
  <2>1. {FALSE, tenure[job[r].row].primary} \cup {job[r].wasPrimary} \subseteq BOOLEAN
    BY <1>1 DEF Tenure, Job
  <2>2. QED  BY <2>1 DEF UpdateManager
<1> DEFINE new == Written(tenure[job[r].row], end, primary)
<1>3. /\ new \in Tenure /\ new.stored = tenure[job[r].row].stored
      /\ new.from = tenure[job[r].row].from
  BY <1>1, WrittenEffect
<1> HIDE DEF new
<1>4. tenure' = [tenure EXCEPT ![job[r].row] = new]
  BY <1>2 DEF new
<1>5. QED  BY <1>1, <1>3, <1>4 DEF HeadsTypeOK

LEMMA RemoveManagerEffect ==
    ASSUME IInv, RemoveManager
    PROVE  /\ tenure' \in [Rows -> Tenure]
           /\ \E x \in Rows : /\ ~tenure'[x].stored
                              /\ \A y \in Rows \ {x} : tenure'[y] = tenure[y]
<1>1. PICK x \in Rows : tenure' = [tenure EXCEPT ![x] = NoTenure]
  BY DEF RemoveManager
<1>2. NoTenure \in Tenure /\ ~NoTenure.stored
  BY OrgManagersAssumption DEF NoTenure, Tenure, EndDates
<1>3. QED  BY <1>1, <1>2 DEF IInv, HeadsTypeOK

\* A row no request remembers gets a tenure that is no head's.
LEMMA AssignOtherEffect ==
    ASSUME IInv, AssignOther
    PROVE  /\ tenure' \in [Rows -> Tenure]
           /\ \E x \in FreeRows : /\ ~tenure'[x].primary
                                  /\ \A y \in Rows \ {x} : tenure'[y] = tenure[y]
<1>1. PICK x \in FreeRows, day \in Days, end \in EndDates \ {0} :
         tenure' = [tenure EXCEPT ![x] = [stored |-> TRUE, from |-> day,
                                          to |-> end, primary |-> FALSE]]
  BY DEF AssignOther
<1> DEFINE new == [stored |-> TRUE, from |-> day, to |-> end, primary |-> FALSE]
<1>2. new \in Tenure /\ ~new.primary
  BY EndDatesTyped DEF Tenure
<1> HIDE DEF new
<1>3. tenure' = [tenure EXCEPT ![x] = new] /\ x \in Rows
  BY <1>1 DEF new, FreeRows
<1>4. QED  BY <1>2, <1>3 DEF IInv, HeadsTypeOK

LEMMA AssignOtherHeads ==
    ASSUME IInv, AssignOther, NEW day
    PROVE  HeadsOf(day)' = HeadsOf(day) /\ HeadsFrom(day)' = HeadsFrom(day)
<1>1. PICK x \in FreeRows : /\ ~tenure'[x].primary
                            /\ \A y \in Rows \ {x} : tenure'[y] = tenure[y]
  BY AssignOtherEffect
<1>2. ~tenure[x].stored
  BY DEF FreeRows
<1>3. ~IsHead(x) /\ ~IsHead(x)' /\ \A y \in Rows \ {x} : IsHead(y)' <=> IsHead(y)
  BY <1>1, <1>2 DEF IsHead
<1>4. QED  BY <1>1, <1>3 DEF HeadsOf, HeadsFrom

-----------------------------------------------------------------------------
(* The invariant is inductive.                                               *)

\* Starting or moving a request.
LEMMA StartKeeps ==
    ASSUME IInv, NEW r \in Handlers, NEW new \in Job, Sound(new),
           job' = [job EXCEPT ![r] = new], UNCHANGED <<tenure, today>>
    PROVE  IInv'
<1>1. HeadsTypeOK'
  BY DEF IInv, HeadsTypeOK
<1>2. ASSUME NEW q \in Handlers PROVE JobOK(q)'
  <2>1. job'[q] = IF q = r THEN new ELSE job[q]
    BY DEF IInv, HeadsTypeOK
  <2>2. Sound(job'[q])
    BY <2>1 DEF IInv, JobOK
  <2>3. \A day : HeadsFrom(day)' = HeadsFrom(day)
    BY DEF HeadsFrom, IsHead
  <2>4. QED  BY <2>2, <2>3 DEF Sound, JobOK
<1>3. QED  BY <1>1, <1>2 DEF IInv

\* A write that overtakes every other request.
LEMMA WriteKeeps ==
    ASSUME IInv, tenure' \in [Rows -> Tenure], UNCHANGED today,
           Overtake \/ \E r \in Handlers : Commit(r)
    PROVE  IInv'
<1>1. \A q \in Handlers : job'[q] = NoJob \/ job'[q] = Overtaken(job[q])
  BY DEF Overtake, Commit, Overtaken
<1>2. job' \in [Handlers -> Job]
  <2>1. \A q \in Handlers : job'[q] \in Job
    BY <1>1, NoJobTyped, OvertakenFields DEF IInv, HeadsTypeOK
  <2>2. job' = [q \in Handlers |-> job'[q]]
    BY DEF Overtake, Commit
  <2>3. QED  BY <2>1, <2>2
<1>3. ASSUME NEW q \in Handlers PROVE JobOK(q)'
  <2>1. CASE job'[q] = NoJob
    BY <2>1, NoJobTyped DEF JobOK, Sound
  <2>2. CASE job'[q] = Overtaken(job[q])
    <3>1. job[q] \in Job /\ Sound(job[q])
      BY DEF IInv, HeadsTypeOK, JobOK
    <3>2. /\ job'[q].at = job[q].at /\ job'[q].row = job[q].row
          /\ job'[q].from = job[q].from /\ job'[q].wasPrimary = job[q].wasPrimary
          /\ job'[q].overtaken <=> job[q].at # "idle"
      BY <2>2, <3>1, OvertakenFields
    <3>3. QED  BY <3>1, <3>2 DEF JobOK, Sound
  <2>3. QED  BY <1>1, <2>1, <2>2
<1>4. QED  BY <1>2, <1>3 DEF IInv, HeadsTypeOK

LEMMA AssignHeadKeeps ==
    ASSUME IInv, NEW r \in Handlers, AssignHead(r)
    PROVE  IInv'
<1>1. PICK day \in Days :
         job' = [job EXCEPT ![r] = [NoJob EXCEPT !.at = "insert", !.from = day,
                                                 !.ended = HeadsFrom(day)]]
  BY DEF AssignHead
<1> DEFINE new == [NoJob EXCEPT !.at = "insert", !.from = day, !.ended = HeadsFrom(day)]
<1>2. new \in Job /\ new.at = "insert" /\ new.from = day /\ new.ended = HeadsFrom(day)
  BY EndDatesTyped DEF NoJob, Job, HeadsFrom
<1> HIDE DEF new
<1>3. Sound(new)
  BY <1>2 DEF Sound
<1>4. job' = [job EXCEPT ![r] = new] /\ UNCHANGED <<tenure, today>>
  BY <1>1 DEF new, AssignHead
<1>5. QED  BY <1>2, <1>3, <1>4, StartKeeps

LEMMA ReadManagerKeeps ==
    ASSUME IInv, NEW r \in Handlers, ReadManager(r)
    PROVE  IInv'
<1>1. PICK x \in Rows :
         /\ tenure[x].stored
         /\ job' = [job EXCEPT ![r] = [NoJob EXCEPT !.at = "update", !.row = x,
                                                    !.wasPrimary = tenure[x].primary]]
  BY DEF ReadManager
<1> DEFINE new == [NoJob EXCEPT !.at = "update", !.row = x,
                                !.wasPrimary = tenure[x].primary]
<1>2. new \in Job /\ new.at = "update" /\ new.row = x /\ new.wasPrimary = tenure[x].primary
  <2>1. tenure[x].primary \in BOOLEAN /\ 0 \in 0..MaxDay
    BY OrgManagersAssumption DEF IInv, HeadsTypeOK, Tenure
  <2>2. QED  BY <2>1 DEF NoJob, Job
<1> HIDE DEF new
<1>3. Sound(new)
  BY <1>1, <1>2 DEF Sound
<1>4. job' = [job EXCEPT ![r] = new] /\ UNCHANGED <<tenure, today>>
  BY <1>1 DEF new, ReadManager
<1>5. QED  BY <1>2, <1>3, <1>4, StartKeeps

LEMMA PromoteManagerKeeps ==
    ASSUME IInv, NEW r \in Handlers, PromoteManager(r)
    PROVE  IInv'
<1>0. /\ job[r] \in Job /\ Sound(job[r]) /\ today \in Days
      /\ job[r].at = "update" /\ ~job[r].wasPrimary
  BY DEF IInv, HeadsTypeOK, JobOK, PromoteManager
<1>1. PICK end \in Days \cup {Null} :
         job' = [job EXCEPT ![r] = [job[r] EXCEPT !.at = "promote", !.from = today,
                                                  !.end = end, !.ended = HeadsFrom(today)]]
  BY <1>0 DEF PromoteManager, IInv, HeadsTypeOK, Job
<1> DEFINE new == [job[r] EXCEPT !.at = "promote", !.from = today,
                                 !.end = end, !.ended = HeadsFrom(today)]
<1>2. /\ new \in Job /\ new.at = "promote" /\ new.from = today
      /\ new.ended = HeadsFrom(today) /\ new.row = job[r].row
      /\ new.wasPrimary = job[r].wasPrimary /\ new.overtaken = job[r].overtaken
  BY <1>0, EndDatesTyped DEF Job, HeadsFrom
<1> HIDE DEF new
<1>3. Sound(new)
  BY <1>0, <1>2 DEF Sound
<1>4. job' = [job EXCEPT ![r] = new] /\ UNCHANGED <<tenure, today>>
  BY <1>1 DEF new, PromoteManager
<1>5. QED  BY <1>2, <1>3, <1>4, StartKeeps

LEMMA AssignOtherKeeps ==
    ASSUME IInv, AssignOther
    PROVE  IInv'
<1>1. tenure' \in [Rows -> Tenure]
  BY AssignOtherEffect
<1>2. PICK x \in FreeRows : \A y \in Rows \ {x} : tenure'[y] = tenure[y]
  BY AssignOtherEffect
<1>3. UNCHANGED <<job, today>>
  BY DEF AssignOther
<1>4. ASSUME NEW r \in Handlers PROVE JobOK(r)'
  <2>1. Sound(job[r])
    BY DEF IInv, JobOK
  <2>2. job[r].row # x
    BY DEF FreeRows
  <2>3. \A day : HeadsFrom(day)' = HeadsFrom(day)
    BY AssignOtherHeads
  <2>4. job[r].row \in Rows => tenure'[job[r].row] = tenure[job[r].row]
    BY <1>2, <2>2
  <2>5. QED  BY <1>3, <2>1, <2>3, <2>4 DEF JobOK, Sound
<1>5. QED  BY <1>1, <1>3, <1>4 DEF IInv, HeadsTypeOK

LEMMA InitIInv == HeadsInit => IInv
<1> SUFFICES ASSUME HeadsInit PROVE IInv
  OBVIOUS
<1>1. NoTenure \in Tenure /\ 1 \in Days
  BY OrgManagersAssumption DEF NoTenure, Tenure, EndDates, Days
<1>2. HeadsTypeOK
  BY <1>1, NoJobTyped DEF HeadsInit, HeadsTypeOK
<1>3. \A r \in Handlers : JobOK(r)
  BY NoJobTyped DEF HeadsInit, JobOK, Sound
<1>4. QED  BY <1>2, <1>3 DEF IInv

LEMMA InductiveStep == IInv /\ [HeadsNext]_headVars => IInv'
<1> SUFFICES ASSUME IInv, [HeadsNext]_headVars PROVE IInv'
  OBVIOUS
<1>1. ASSUME NEW r \in Handlers, InsertHead(r) \/ UpdateManager(r) \/ WritePromotion(r)
      PROVE  IInv'
  <2>1. tenure' \in [Rows -> Tenure]
    BY <1>1, InsertHeadEffect, UpdateManagerEffect, WritePromotionEffect
  <2>2. Commit(r) /\ UNCHANGED today
    BY <1>1 DEF InsertHead, UpdateManager, WritePromotion
  <2>3. QED  BY <2>1, <2>2, WriteKeeps
<1>2. ASSUME NEW r \in Handlers, AssignmentFails(r) PROVE IInv'
  <2>1. job' = [job EXCEPT ![r] = NoJob] /\ UNCHANGED <<tenure, today>>
    BY <1>2 DEF AssignmentFails
  <2>2. Sound(NoJob)
    BY NoJobTyped DEF Sound
  <2>3. QED  BY <2>1, <2>2, NoJobTyped, StartKeeps
<1>3. CASE RemoveManager
  BY <1>3, RemoveManagerEffect, WriteKeeps DEF RemoveManager
<1>4. CASE NextDay
  <2>1. HeadsTypeOK'
    BY <1>4, OrgManagersAssumption DEF NextDay, IInv, HeadsTypeOK, Days
  <2>2. ASSUME NEW r \in Handlers PROVE JobOK(r)'
    BY <1>4 DEF NextDay, IInv, JobOK, Sound, HeadsFrom, IsHead
  <2>3. QED  BY <2>1, <2>2 DEF IInv
<1>5. CASE UNCHANGED headVars
  BY <1>5 DEF headVars, IInv, HeadsTypeOK, JobOK, Sound, HeadsFrom, IsHead
<1>6. QED
  BY <1>1, <1>2, <1>3, <1>4, <1>5, AssignHeadKeeps, ReadManagerKeeps,
     PromoteManagerKeeps, AssignOtherKeeps DEF HeadsNext

\* The inductive invariant holds in every reachable state: what a request read of the
\* heads stands, unless it was overtaken.
THEOREM Invariance == HeadsSpec => []IInv
<1>1. QED  BY InitIInv, InductiveStep, PTL DEF HeadsSpec

\* The rows of tbl_Org_Unit_Manager and the locals of the service keep their types.
THEOREM TypeCorrect == HeadsSpec => []HeadsTypeOK
<1>1. IInv => HeadsTypeOK
  BY DEF IInv
<1>2. QED  BY <1>1, Invariance, PTL
-----------------------------------------------------------------------------
(* How many heads a day has.                                                 *)

\* After the heads from a day on have ended, no other row is a head of that day or
\* a later one.
LEMMA EndedAreNoHeads ==
    ASSUME HeadsTypeOK, NEW from \in Days, NEW day \in Days, day >= from, NEW y \in Rows,
           tenure'[y] = WithEnded(HeadsFrom(from), from)[y]
    PROVE  y \notin HeadsOf(day)'
<1> SUFFICES ASSUME y \in HeadsOf(day)' PROVE FALSE
  OBVIOUS
<1>1. tenure'[y].stored /\ tenure'[y].primary /\ EndsAfter(tenure'[y].to, day)
  BY DEF HeadsOf, IsHead
<1>2. CASE y \in HeadsFrom(from)
  <2>1. tenure'[y].to = LastDayBefore(from)
    BY <1>2, WithEndedEffect
  <2>2. ~EndsAfter(LastDayBefore(from), day)
    BY EndedReach DEF Days
  <2>3. QED  BY <1>1, <2>1, <2>2
<1>3. CASE y \notin HeadsFrom(from)
  <2>1. tenure'[y] = tenure[y]
    BY <1>3, WithEndedEffect
  <2>2. tenure[y].to \in EndDates
    BY DEF HeadsTypeOK, Tenure
  <2>3. EndsAfter(tenure[y].to, from)
    BY <1>1, <2>1, <2>2, EndsAfterEarlier
  <2>4. QED  BY <1>1, <1>3, <2>1, <2>3 DEF HeadsFrom, IsHead
<1>4. QED  BY <1>2, <1>3

\* Days before that keep the heads they had.
LEMMA EndedStayHeads ==
    ASSUME HeadsTypeOK, NEW from \in Days, NEW day \in Days, day < from, NEW y \in Rows,
           NEW rows, rows = HeadsFrom(from), tenure'[y] = WithEnded(rows, from)[y]
    PROVE  y \in HeadsOf(day)' <=> y \in HeadsOf(day)
<1>1. /\ tenure'[y].stored = tenure[y].stored /\ tenure'[y].from = tenure[y].from
      /\ tenure'[y].primary = tenure[y].primary
      /\ y \in rows => tenure'[y].to = LastDayBefore(from)
      /\ y \notin rows => tenure'[y] = tenure[y]
  BY WithEndedEffect
<1>2. EndsAfter(LastDayBefore(from), day)
  BY EndedReach
<1>3. y \in rows => EndsAfter(tenure[y].to, day)
  <2>1. tenure[y].to \in EndDates
    BY DEF HeadsTypeOK, Tenure
  <2>2. day <= from
    BY DEF Days
  <2>3. QED  BY <2>1, <2>2, EndsAfterEarlier DEF HeadsFrom
<1>4. QED  BY <1>1, <1>2, <1>3 DEF HeadsOf, IsHead

\* An assignment that nothing overtook leaves the heads of earlier days, and only
\* its own row from its day on.
LEMMA InsertHeadHeads ==
    ASSUME IInv, NEW r \in Handlers, InsertHead(r), ~job[r].overtaken, NEW day \in Days
    PROVE  /\ day < job[r].from => HeadsOf(day)' = HeadsOf(day)
           /\ day >= job[r].from => \A y, z \in HeadsOf(day)' : y = z
<1>1. HeadsTypeOK /\ job[r].from \in Days /\ job[r].ended = HeadsFrom(job[r].from)
  BY DEF IInv, JobOK, Sound, InsertHead
<1>2. PICK x \in FreeRows :
         /\ tenure'[x].stored /\ tenure'[x].from = job[r].from
         /\ \A y \in Rows \ {x} :
               tenure'[y] = WithEnded(HeadsFrom(job[r].from), job[r].from)[y]
  BY <1>1, InsertHeadEffect
<1>3. ASSUME day < job[r].from PROVE HeadsOf(day)' = HeadsOf(day)
  <2>1. x \notin HeadsOf(day) /\ x \notin HeadsOf(day)'
    BY <1>1, <1>2, <1>3 DEF HeadsOf, IsHead, FreeRows, Days
  <2>2. \A y \in Rows \ {x} : y \in HeadsOf(day)' <=> y \in HeadsOf(day)
    BY <1>1, <1>2, <1>3, EndedStayHeads
  <2>3. HeadsOf(day) \subseteq Rows /\ HeadsOf(day)' \subseteq Rows
    BY DEF HeadsOf
  <2>4. QED  BY <2>1, <2>2, <2>3
<1>4. ASSUME day >= job[r].from PROVE HeadsOf(day)' \subseteq {x}
  <2>1. HeadsOf(day)' \subseteq Rows
    BY DEF HeadsOf
  <2>2. QED  BY <1>1, <1>2, <1>4, <2>1, EndedAreNoHeads
<1>5. QED  BY <1>3, <1>4

\* The same of a promotion, but for days before it.
LEMMA WritePromotionHeads ==
    ASSUME IInv, NEW r \in Handlers, WritePromotion(r), ~job[r].overtaken,
           NEW day \in Days, day >= job[r].from
    PROVE  HeadsOf(day)' \subseteq {job[r].row}
<1>1. /\ HeadsTypeOK /\ job[r].from \in Days /\ job[r].ended = HeadsFrom(job[r].from)
  BY DEF IInv, JobOK, Sound, WritePromotion
<1>2. \A y \in Rows \ {job[r].row} :
         tenure'[y] = WithEnded(HeadsFrom(job[r].from), job[r].from)[y]
  BY <1>1, WritePromotionEffect
<1>3. HeadsOf(day)' \subseteq Rows
  BY DEF HeadsOf
<1>4. QED  BY <1>1, <1>2, <1>3, EndedAreNoHeads

\* What an update writes if it moves no end and raises no flag makes no new head.
LEMMA UpdateManagerHeads ==
    ASSUME IInv, NEW r \in Handlers, UpdateManager(r), NEW day \in Days,
           tenure'[job[r].row].to = tenure[job[r].row].to,
           ~(tenure'[job[r].row].primary /\ ~tenure[job[r].row].primary)
    PROVE  HeadsOf(day)' \subseteq HeadsOf(day)
<1>1. /\ tenure'[job[r].row].stored = tenure[job[r].row].stored
      /\ tenure'[job[r].row].from = tenure[job[r].row].from
      /\ \A y \in Rows \ {job[r].row} : tenure'[y] = tenure[y]
  BY UpdateManagerEffect
<1>2. QED  BY <1>1 DEF HeadsOf, IsHead

LEMMA RemoveManagerHeads ==
    ASSUME IInv, RemoveManager, NEW day \in Days
    PROVE  /\ HeadsOf(day)' \subseteq HeadsOf(day)
           /\ \A x \in HeadsOf(day) : tenure'[x].stored => x \in HeadsOf(day)'
<1>1. PICK x \in Rows : ~tenure'[x].stored /\ \A y \in Rows \ {x} : tenure'[y] = tenure[y]
  BY RemoveManagerEffect
<1>2. QED  BY <1>1 DEF HeadsOf, IsHead

\* Every other step leaves the tenures alone, but for an assignment of another role.
LEMMA TenuresKept ==
    ASSUME IInv, [HeadsNext]_headVars, NEW day \in Days
    PROVE  \/ HeadsOf(day)' = HeadsOf(day)
           \/ \E r \in Handlers : InsertHead(r) \/ UpdateManager(r) \/ WritePromotion(r)
           \/ RemoveManager
<1>1. UNCHANGED tenure => HeadsOf(day)' = HeadsOf(day)
  BY DEF HeadsOf, IsHead
<1>2. AssignOther => HeadsOf(day)' = HeadsOf(day)
  BY AssignOtherHeads
<1>3. QED  BY <1>1, <1>2
           DEF HeadsNext, headVars, AssignHead, ReadManager, PromoteManager, AssignmentFails, NextDay

LEMMA Finished ==
    ASSUME NEW r \in Handlers
    PROVE  /\ InsertHead(r) => Finishes(r, "insert")
           /\ UpdateManager(r) => Finishes(r, "update")
           /\ WritePromotion(r) => Finishes(r, "promote")
BY NoJobTyped DEF InsertHead, UpdateManager, WritePromotion, Finishes, Commit

-----------------------------------------------------------------------------
LEMMA SecondHeadStep ==
    ASSUME IInv, [HeadsNext]_headVars, NEW day \in Days,
           \A x, y \in HeadsOf(day) : x = y, ~(\A x, y \in HeadsOf(day)' : x = y)
    PROVE  \E r \in Handlers :
              \/ Extends(r)
              \/ Finishes(r, "promote") /\ (day < job[r].from \/ job[r].overtaken)
              \/ Finishes(r, "insert") /\ job[r].overtaken
<1>1. ~(HeadsOf(day)' \subseteq HeadsOf(day))
  OBVIOUS
<1>2. ASSUME NEW r \in Handlers, InsertHead(r)
      PROVE  Finishes(r, "insert") /\ job[r].overtaken
  <2>1. job[r].from \in Days
    BY <1>2, InsertHeadEffect
  <2>2. ASSUME ~job[r].overtaken PROVE FALSE
    <3>1. day < job[r].from \/ day >= job[r].from
      BY <2>1 DEF Days
    <3>2. QED  BY <1>1, <1>2, <2>2, <3>1, InsertHeadHeads
  <2>3. QED  BY <1>2, <2>2, Finished
<1>3. ASSUME NEW r \in Handlers, UpdateManager(r)
      PROVE  Extends(r)
  BY <1>1, <1>3, UpdateManagerHeads, Finished DEF Extends
<1>4. ASSUME NEW r \in Handlers, WritePromotion(r)
      PROVE  Finishes(r, "promote") /\ (day < job[r].from \/ job[r].overtaken)
  <2>1. job[r].from \in Days
    BY <1>4, WritePromotionEffect
  <2>2. ASSUME ~job[r].overtaken, day >= job[r].from PROVE FALSE
    BY <1>4, <2>2, WritePromotionHeads
  <2>3. QED  BY <1>4, <2>1, <2>2, Finished DEF Days
<1>5. ~RemoveManager
  BY <1>1, RemoveManagerHeads
<1>6. QED  BY <1>1, <1>2, <1>3, <1>4, <1>5, TenuresKept

\* Rule G1 for any number of tenures and requests: what a second primary head of a
\* day takes.
THEOREM SecondHeadNeedsCause == HeadsSpec => SecondHeadExplained
<1>1. IInv /\ [HeadsNext]_headVars
      => [\A day \in Days :
             (\A x, y \in HeadsOf(day) : x = y) /\ ~(\A x, y \in HeadsOf(day)' : x = y)
             => \E r \in Handlers :
                   \/ Extends(r)
                   \/ Finishes(r, "promote") /\ (day < job[r].from \/ job[r].overtaken)
                   \/ Finishes(r, "insert") /\ job[r].overtaken]_headVars
  BY SecondHeadStep
<1>2. QED  BY <1>1, Invariance, PTL DEF HeadsSpec, SecondHeadExplained

-----------------------------------------------------------------------------
LEMMA PromotedIsHead ==
    ASSUME IInv, NEW r \in Handlers, WritePromotion(r), ~job[r].overtaken,
           NEW day \in Days, Reaches(r, day)
    PROVE  job[r].row \in HeadsOf(day)'
<1> DEFINE x == job[r].row
           w == WithEnded(job[r].ended, job[r].from)
<1>1. /\ HeadsTypeOK /\ job[r].from \in Days /\ job[r].ended = HeadsFrom(job[r].from)
      /\ x \in Rows /\ tenure[x].stored /\ ~tenure[x].primary
      /\ job[r].end \in Days \cup {Null}
  BY DEF IInv, HeadsTypeOK, Job, JobOK, Sound, WritePromotion
<1>2. tenure'[x] = Written(w[x], job[r].end, TRUE)
  BY WritePromotionEffect
<1>3. x \notin job[r].ended
  BY <1>1 DEF HeadsFrom, IsHead
<1>4. w[x] = tenure[x] /\ tenure[x] \in Tenure
  BY <1>1, <1>3, WithEndedEffect DEF HeadsTypeOK
<1>5. /\ tenure'[x].stored /\ tenure'[x].primary
      /\ tenure'[x].from = tenure[x].from
      /\ tenure'[x].to = IF job[r].end = Null THEN tenure[x].to ELSE job[r].end
  <2>1. tenure'[x] = Written(tenure[x], job[r].end, TRUE)
    BY <1>2, <1>4
  <2> DEFINE end == IF job[r].end = Null THEN tenure[x].to ELSE job[r].end
  <2>2. Written(tenure[x], job[r].end, TRUE) = [tenure[x] EXCEPT !.to = end, !.primary = TRUE]
    BY <1>1 DEF Written
  <2> HIDE DEF x, w, end
  <2>3. /\ tenure'[x].stored = tenure[x].stored /\ tenure'[x].primary
        /\ tenure'[x].from = tenure[x].from /\ tenure'[x].to = end
    BY <1>4, <2>1, <2>2 DEF Tenure
  <2>4. QED  BY <1>1, <2>3 DEF end
<1>6. QED  BY <1>1, <1>5 DEF Reaches, HeadsOf, IsHead

LEMMA NoGapStep ==
    ASSUME IInv, [HeadsNext]_headVars, NEW day \in Days, HeadsOf(day) # {}, HeadsOf(day)' = {}
    PROVE  \/ \E x \in HeadsOf(day) : ~tenure'[x].stored \/ ~tenure'[x].primary
           \/ \E r \in Handlers :
                 \/ Finishes(r, "update")
                 \/ Finishes(r, "insert") /\ day >= job[r].from
                 \/ Finishes(r, "promote") /\ (job[r].overtaken \/ ~Reaches(r, day))
<1>1. ASSUME NEW r \in Handlers, InsertHead(r)
      PROVE  \/ \E x \in HeadsOf(day) : ~tenure'[x].stored \/ ~tenure'[x].primary
             \/ Finishes(r, "insert") /\ day >= job[r].from
  <2> SUFFICES ASSUME day < job[r].from
               PROVE  \E x \in HeadsOf(day) : ~tenure'[x].stored \/ ~tenure'[x].primary
    BY <1>1, Finished, InsertHeadEffect DEF Days
  <2>1. HeadsTypeOK /\ job[r].from \in Days
    BY <1>1, InsertHeadEffect DEF IInv
  <2>2. PICK x \in FreeRows : \A y \in Rows \ {x} :
           tenure'[y] = WithEnded(job[r].ended, job[r].from)[y]
    BY <1>1, InsertHeadEffect
  <2>3. PICK h \in HeadsOf(day) : TRUE
    OBVIOUS
  <2>4. h \in Rows \ {x} /\ IsHead(h) /\ tenure[h].from <= day /\ EndsAfter(tenure[h].to, day)
    BY <2>3 DEF HeadsOf, FreeRows, IsHead
  <2>5. /\ tenure'[h].stored = tenure[h].stored /\ tenure'[h].from = tenure[h].from
        /\ tenure'[h].primary = tenure[h].primary
        /\ h \in job[r].ended => tenure'[h].to = LastDayBefore(job[r].from)
        /\ h \notin job[r].ended => tenure'[h] = tenure[h]
    BY <2>1, <2>2, <2>4, WithEndedEffect
  <2>6. EndsAfter(tenure'[h].to, day)
    BY <2>1, <2>4, <2>5, EndedReach
  <2>7. h \in HeadsOf(day)'
    BY <2>4, <2>5, <2>6 DEF HeadsOf, IsHead
  <2>8. QED  BY <2>7
<1>2. ASSUME NEW r \in Handlers, WritePromotion(r)
      PROVE  Finishes(r, "promote") /\ (job[r].overtaken \/ ~Reaches(r, day))
  BY <1>2, Finished, PromotedIsHead
<1>3. CASE RemoveManager
  BY <1>3, RemoveManagerHeads
<1>4. QED  BY <1>1, <1>2, <1>3, TenuresKept, Finished

\* Ending the previous head leaves no gap, for any number of tenures and requests.
THEOREM GapNeedsCause == HeadsSpec => NoGap
<1>1. IInv /\ [HeadsNext]_headVars
      => [\A day \in Days :
             HeadsOf(day) # {} /\ HeadsOf(day)' = {}
             => \/ \E x \in HeadsOf(day) : ~tenure'[x].stored \/ ~tenure'[x].primary
                \/ \E r \in Handlers :
                      \/ Finishes(r, "update")
                      \/ Finishes(r, "insert") /\ day >= job[r].from
                      \/ Finishes(r, "promote") /\ (job[r].overtaken \/ ~Reaches(r, day))]_headVars
  BY NoGapStep
<1>2. QED  BY <1>1, Invariance, PTL DEF HeadsSpec, NoGap
=============================================================================
