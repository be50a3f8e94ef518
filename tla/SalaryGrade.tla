------------------------------ MODULE SalaryGrade ------------------------------
(***************************************************************************)
(* The salary-grade masters (grades, grade categories, designations,       *)
(* dependency tiers, benefits) and the grade-benefit records that combine  *)
(* them.                                                                   *)
(*                                                                         *)
(* Every service tests first and writes in a transaction of one statement  *)
(* afterwards: a request holds what it tested (req) while others write.    *)
(* The repository has no unique index or foreign key for these tables.     *)
(***************************************************************************)
EXTENDS Integers, FiniteSets

CONSTANTS
    Ids,         \* ids of the rows of a master table
    Records,     \* salary_grade_id values
    Requests,    \* requests the server executes at the same time
    Codes,       \* codes (names of benefits) as LOWER and trim leave them
    Salaries,
    Variants,    \* deployment and office_setup; no service writes deployments
    Combos,      \* combinations clients create
    Changes,     \* what bodies of updates of records give
    Seeded,      \* the code of the masters there are at the start
    None,        \* SQL NULL
    Absent       \* a field the body of a request does not have

Kinds == {"grade", "category", "designation", "tier", "benefit"}

ASSUME SalaryGradeAssumption ==
    /\ IsFiniteSet(Requests) /\ IsFiniteSet(Ids)
    /\ Salaries \subseteq Nat
    /\ Seeded \in [Kinds -> [Ids -> Codes \cup {None}]]
    /\ None \notin Ids \cup Codes \cup Salaries \cup Variants \cup Records
    /\ Combos \subseteq [ref : [Kinds -> Ids], variant : Variants]
    /\ Changes \subseteq [ref : [Kinds -> Ids \cup {None, Absent}],
                          variant : Variants \cup {None, Absent}]
    /\ Absent \notin Ids \cup Codes \cup Salaries \cup Variants \cup {None}

VARIABLES
    master,   \* the five master tables
    record,   \* grade.tbl_Grade_Benifit
    req

vars == <<master, record, req>>

-----------------------------------------------------------------------------
States == {"none", "live", "deleted"}

\* min and max are columns of tbl_Grades only.
MasterRow == [state : States, code : Codes \cup {None},
              min : Salaries \cup {None}, max : Salaries \cup {None}]

NoMaster == [state |-> "none", code |-> None, min |-> None, max |-> None]

\* The columns of a record; a body can make each of them NULL. As a variant None is
\* office_setup; a NULL deployment is like a NULL in ref.
Combination == [ref : [Kinds -> Ids \cup {None}], variant : Variants \cup {None}]

NoCombination == [ref |-> [k \in Kinds |-> None], variant |-> None]

Joins(combo) == \A k \in Kinds : combo.ref[k] # None

Whole(combo) == Joins(combo) /\ combo.variant # None

RecordRow == [state : States, combo : Combination]

NoRecord == [state |-> "none", combo |-> NoCombination]

\* What the body of a request may give.
CodeInput == Codes \cup {None, Absent}
SalaryInput == Salaries \cup {None, Absent}
ComboInput == [ref : [Kinds -> Ids \cup {None, Absent}],
               variant : Variants \cup {None, Absent}]

Steps == {"idle", "code", "write", "refs", "duplicate", "writeRecord"}

\* target is the id to update, None to create. effective is the combination that
\* is tested; overtaken says that another request wrote the table since the first
\* read of this one (auxiliary, for the properties).
Request == [at : Steps, kind : Kinds \cup {None}, target : Ids \cup Records \cup {None},
            code : CodeInput, min : SalaryInput, max : SalaryInput,
            input : ComboInput, effective : Combination,
            overtaken : BOOLEAN]

Idle == [at |-> "idle", kind |-> None, target |-> None, code |-> None,
         min |-> None, max |-> None, input |-> NoCombination,
         effective |-> NoCombination, overtaken |-> FALSE]

Live(k) == {i \in Ids : master[k][i].state = "live"}

\* findByCode and findByName: deleted rows do not count.
FindByCode(k, c) == {i \in Live(k) : master[k][i].code = c}

LiveRecords == {x \in Records : record[x].state = "live"}

\* findById joins the masters, deleted or not: a record with a NULL is not found.
FoundRecords == {x \in LiveRecords : Joins(record[x].combo)}

\* The SET clauses of the UPDATE statements: a null is written.
Given(input, old) == IF input = Absent THEN old ELSE input

Merge(input, old) ==
    [ref |-> [k \in Kinds |-> Given(input.ref[k], old.ref[k])],
     variant |-> Given(input.variant, old.variant)]

\* dto.field ?? existing: a null counts as absent.
OrOld(input, old) == IF input \in {None, Absent} THEN old ELSE input

Tested(input, old) ==
    [ref |-> [k \in Kinds |-> OrOld(input.ref[k], old.ref[k])],
     variant |-> OrOld(input.variant, old.variant)]

\* validateSalaryRange.
ValidSalaryRange(min, max) == None \notin {min, max} => min <= max

\* findDuplicate with excludeId; a NULL equals nothing.
FindDuplicate(combo, except) ==
    {x \in LiveRecords \ {except} : Whole(combo) /\ record[x].combo = combo}

\* The tables hold rows with these codes.
StartWith(codes) ==
    /\ master = [k \in Kinds |-> [i \in Ids |->
          IF codes[k][i] = None THEN NoMaster
          ELSE [NoMaster EXCEPT !.state = "live", !.code = codes[k][i]]]]
    /\ record = [x \in Records |-> NoRecord]
    /\ req = [r \in Requests |-> Idle]

Init == StartWith(Seeded)

Goto(r, step) == req' = [req EXCEPT ![r].at = step]

\* r is done and wrote the table of the requests in R.
Finish(r, R) ==
    req' = [q \in Requests |->
               IF q = r THEN Idle
               ELSE IF q \in R THEN [req[q] EXCEPT !.overtaken = TRUE] ELSE req[q]]

OnMaster(k) == {q \in Requests : req[q].kind = k}
OnRecords == {q \in Requests : req[q].at \in {"refs", "duplicate", "writeRecord"}}

-----------------------------------------------------------------------------
(* One master table.                                                       *)

StartCreate(r, k, c, min, max) ==
    /\ req[r].at = "idle"
    /\ FindByCode(k, c) = {}
    /\ ValidSalaryRange(min, max)
    /\ req' = [req EXCEPT ![r] = [Idle EXCEPT !.at = "write", !.kind = k,
                                      !.code = c, !.min = min, !.max = max]]
    /\ UNCHANGED <<master, record>>

\* Mutant: only the salaries in the body are compared.
TestedSalaryOfBody(input, old) == IF input = Absent THEN None ELSE input

\* effectiveMinSalary and effectiveMaxSalary.
TestedSalary(input, old) == Given(input, old)

\* The row read here decides whether the code has to be looked up, and gives
\* the other end of the salary range.
StartUpdate(r, k, i, c, min, max) ==
    /\ req[r].at = "idle"
    /\ i \in Live(k)
    /\ ValidSalaryRange(TestedSalary(min, master[k][i].min),
                        TestedSalary(max, master[k][i].max))
    /\ req' = [req EXCEPT ![r] =
          [Idle EXCEPT !.at = IF c \in {Absent, master[k][i].code}
                              THEN "write" ELSE "code",
                       !.kind = k, !.target = i, !.code = c,
                       !.min = min, !.max = max]]
    /\ UNCHANGED <<master, record>>

\* Mutant: a duplicate is looked for by create only.
CheckCodeNone(r) ==
    /\ req[r].at = "code"
    /\ Goto(r, "write")
    /\ UNCHANGED <<master, record>>

\* findByCode returns some row and the service accepts the row itself.
CheckCode(r) ==
    /\ req[r].at = "code"
    /\ LET found == FindByCode(req[r].kind, req[r].code)
       IN  found = {} \/ req[r].target \in found
    /\ Goto(r, "write")
    /\ UNCHANGED <<master, record>>

\* Mutant: two parameters of the INSERT swapped.
NewMasterSwapped(q) ==
    [state |-> "live", code |-> q.min, min |-> q.code, max |-> q.max]

NewMaster(q) == [state |-> "live", code |-> q.code, min |-> q.min, max |-> q.max]

Insert(r, k) ==
    /\ req[r].at = "write" /\ req[r].kind = k
    /\ req[r].target = None
    /\ \E i \in Ids :
          /\ master[k][i].state = "none"
          /\ master' = [master EXCEPT ![k][i] = NewMaster(req[r])]
    /\ Finish(r, OnMaster(k))
    /\ UNCHANGED record

\* The SET clauses.
Updated(row, input) ==
    [row EXCEPT !.code = Given(input.code, row.code),
                !.min = Given(input.min, row.min),
                !.max = Given(input.max, row.max)]

\* WHERE ... AND is_delete = 0: no row if it was deleted meanwhile.
Update(r, k) ==
    /\ req[r].at = "write" /\ req[r].kind = k
    /\ req[r].target # None
    /\ master' = [master EXCEPT ![k][req[r].target] =
          IF @.state = "live" THEN Updated(@, req[r]) ELSE @]
    /\ Finish(r, OnMaster(k))
    /\ UNCHANGED record

\* No service asks whether records refer to the row. The UPDATE tests the
\* state again, so reading first makes no difference.
Remove(k, i) ==
    /\ i \in Live(k)
    /\ master' = [master EXCEPT ![k][i].state = "deleted"]
    /\ req' = [q \in Requests |->
                  IF q \in OnMaster(k) THEN [req[q] EXCEPT !.overtaken = TRUE]
                  ELSE req[q]]
    /\ UNCHANGED record

-----------------------------------------------------------------------------
(* The five masters: what their services and repositories do of it. Only   *)
(* grades have a salary range; the name of a benefit is its code.          *)

CreateGrade(r) ==
    \E c \in Codes, min, max \in Salaries \cup {None} :
        StartCreate(r, "grade", c, min, max)

UpdateGrade(r) ==
    \E i \in Ids, c \in Codes \cup {Absent}, min, max \in SalaryInput :
        StartUpdate(r, "grade", i, c, min, max)

InsertGrade(r) == Insert(r, "grade")
WriteGrade(r) == Update(r, "grade")
RemoveGrade == \E i \in Ids : Remove("grade", i)

CreateCategory(r) == \E c \in Codes : StartCreate(r, "category", c, None, None)
UpdateCategory(r) ==
    \E i \in Ids, c \in Codes \cup {Absent} :
        StartUpdate(r, "category", i, c, Absent, Absent)
InsertCategory(r) == Insert(r, "category")
WriteCategory(r) == Update(r, "category")
RemoveCategory == \E i \in Ids : Remove("category", i)

CreateDesignation(r) ==
    \E c \in Codes : StartCreate(r, "designation", c, None, None)
UpdateDesignation(r) ==
    \E i \in Ids, c \in Codes \cup {Absent} :
        StartUpdate(r, "designation", i, c, Absent, Absent)
InsertDesignation(r) == Insert(r, "designation")
WriteDesignation(r) == Update(r, "designation")
RemoveDesignation == \E i \in Ids : Remove("designation", i)

CreateTier(r) == \E c \in Codes : StartCreate(r, "tier", c, None, None)
UpdateTier(r) ==
    \E i \in Ids, c \in Codes \cup {Absent} :
        StartUpdate(r, "tier", i, c, Absent, Absent)
InsertTier(r) == Insert(r, "tier")
WriteTier(r) == Update(r, "tier")
RemoveTier == \E i \in Ids : Remove("tier", i)

CreateBenefit(r) == \E c \in Codes : StartCreate(r, "benefit", c, None, None)
UpdateBenefit(r) ==
    \E i \in Ids, c \in Codes \cup {Absent} :
        StartUpdate(r, "benefit", i, c, Absent, Absent)
InsertBenefit(r) == Insert(r, "benefit")
WriteBenefit(r) == Update(r, "benefit")
RemoveBenefit == \E i \in Ids : Remove("benefit", i)

-----------------------------------------------------------------------------
(* Grade-benefit records.                                                  *)

CreateRecord(r) ==
    /\ req[r].at = "idle"
    /\ \E combo \in Combos :
          req' = [req EXCEPT ![r] = [Idle EXCEPT !.at = "refs", !.input = combo,
                                                 !.effective = combo]]
    /\ UNCHANGED <<master, record>>

UpdateRecord(r) ==
    /\ req[r].at = "idle"
    /\ \E x \in FoundRecords, input \in Changes :
          req' = [req EXCEPT ![r] =
             [Idle EXCEPT !.at = "refs", !.target = x, !.input = input,
                          !.effective = Tested(input, record[x].combo)]]
    /\ UNCHANGED <<master, record>>

\* Mutant: a deleted master counts as existing.
CheckReferencesAnyState(r) ==
    /\ req[r].at = "refs"
    /\ Goto(r, "duplicate")
    /\ UNCHANGED <<master, record>>

\* validateReferences: one SELECT of six EXISTS; an inactive master is accepted.
CheckReferences(r) ==
    /\ req[r].at = "refs"
    /\ \A k \in Kinds : req[r].effective.ref[k] \in Live(k)
    /\ Goto(r, "duplicate")
    /\ UNCHANGED <<master, record>>

CheckDuplicate(r) ==
    /\ req[r].at = "duplicate"
    /\ FindDuplicate(req[r].effective, req[r].target) = {}
    /\ req' = [req EXCEPT ![r].at = "writeRecord", ![r].effective = NoCombination]
    /\ UNCHANGED <<master, record>>

InsertRecord(r) ==
    /\ req[r].at = "writeRecord"
    /\ req[r].target = None
    /\ \E x \in Records :
          /\ record[x].state = "none"
          /\ record' = [record EXCEPT ![x] = [state |-> "live",
                                              combo |-> req[r].input]]
    /\ Finish(r, OnRecords)
    /\ UNCHANGED master

\* Sets the columns of the body, not the combination that was tested.
WriteRecord(r) ==
    /\ req[r].at = "writeRecord"
    /\ req[r].target # None
    /\ LET row == record[req[r].target] IN
       record' = [record EXCEPT ![req[r].target] =
          IF row.state = "live"
          THEN [row EXCEPT !.combo = Merge(req[r].input, row.combo)] ELSE row]
    /\ Finish(r, OnRecords)
    /\ UNCHANGED master

RemoveRecord ==
    \E x \in FoundRecords :
        /\ record' = [record EXCEPT ![x].state = "deleted"]
        /\ req' = [q \in Requests |->
                      IF q \in OnRecords THEN [req[q] EXCEPT !.overtaken = TRUE]
                      ELSE req[q]]
        /\ UNCHANGED master

\* A test refuses, a statement fails or the process dies: nothing is written,
\* and a transaction of one statement leaves nothing half-way.
RequestFails(r) ==
    /\ req[r].at # "idle"
    /\ req' = [req EXCEPT ![r] = Idle]
    /\ UNCHANGED <<master, record>>

MasterStep(r) ==
    \/ CreateGrade(r) \/ UpdateGrade(r) \/ InsertGrade(r) \/ WriteGrade(r)
    \/ CreateCategory(r) \/ UpdateCategory(r) \/ InsertCategory(r) \/ WriteCategory(r)
    \/ CreateDesignation(r) \/ UpdateDesignation(r)
    \/ InsertDesignation(r) \/ WriteDesignation(r)
    \/ CreateTier(r) \/ UpdateTier(r) \/ InsertTier(r) \/ WriteTier(r)
    \/ CreateBenefit(r) \/ UpdateBenefit(r) \/ InsertBenefit(r) \/ WriteBenefit(r)
    \/ CheckCode(r)

RecordStep(r) ==
    \/ CreateRecord(r) \/ UpdateRecord(r) \/ CheckReferences(r)
    \/ CheckDuplicate(r) \/ InsertRecord(r) \/ WriteRecord(r)

Next ==
    \/ \E r \in Requests : MasterStep(r) \/ RecordStep(r) \/ RequestFails(r)
    \/ RemoveGrade \/ RemoveCategory \/ RemoveDesignation \/ RemoveTier
    \/ RemoveBenefit \/ RemoveRecord

Spec == Init /\ [][Next]_vars

-----------------------------------------------------------------------------
(* What must hold of it.                                                   *)

\* Every variable keeps its type; a live master has a code.
TypeOK ==
    /\ master \in [Kinds -> [Ids -> MasterRow]]
    /\ record \in [Records -> RecordRow]
    /\ req \in [Requests -> Request]
    /\ \A k \in Kinds : \A i \in Live(k) : master[k][i].code # None

\* Requests that have tested code c of table k and will write it.
PendingUpdates(k, c) ==
    {r \in Requests : /\ req[r].at = "write" /\ req[r].kind = k
                      /\ req[r].code = c /\ req[r].target # None}
PendingCreates(k, c) ==
    {r \in Requests : /\ req[r].at = "write" /\ req[r].kind = k
                      /\ req[r].code = c /\ req[r].target = None}

\* "A grade with code [c] already exists": create and update test the code and
\* write later, so a code can be live more than once, but never more often than
\* requests overlap, however many races follow each other.
CodeBound ==
    \A k \in Kinds, c \in Codes :
        Cardinality(FindByCode(k, c) \cup {req[r].target : r \in PendingUpdates(k, c)})
        + Cardinality(PendingCreates(k, c)) <= Cardinality(Requests)

\* Every combination and every code of a table is live once, and every salary
\* range is ordered. (What has a NULL is no combination.)
Integrity ==
    /\ \A k \in Kinds : \A i, j \in Live(k) :
          master[k][i].code = master[k][j].code => i = j
    /\ \A i \in Live("grade") :
          ValidSalaryRange(master["grade"][i].min, master["grade"][i].max)
    /\ \A x, y \in LiveRecords :
          Whole(record[x].combo) /\ record[x].combo = record[y].combo => x = y

\* The tests of the services are complete: what they promise can be lost only by
\* a request that another one overtook between its first read and its write
\* (two salaries of one grade, two columns of one record, one code twice).
OnlyOvertakenBreak ==
    [][Integrity /\ (\A r \in Requests : req[r].overtaken => req'[r].at # "idle")
          => Integrity']_vars

GivesNull(input) == input.variant = None \/ \E k \in Kinds : input.ref[k] = None

BrokenRecords == {x \in LiveRecords : ~Whole(record[x].combo)}

\* A live record is without a master or without office_setup only since an update
\* whose body had a null there, which was tested as the old value and written.
NullsExplained ==
    [][\A x \in BrokenRecords' \ BrokenRecords :
          \E r \in Requests : /\ req[r].at = "writeRecord" /\ req[r].target = x
                               /\ GivesNull(req[r].input) /\ req'[r].at = "idle"]_vars

\* What the tests of the services promise is lost in these two ways only.
LossesExplained == OnlyOvertakenBreak /\ NullsExplained

\* i is deleted and no record that is being written has been tested with it.
Retired(k, i) ==
    /\ master[k][i].state = "deleted"
    /\ \A r \in OnRecords : req[r].at # "refs" => req[r].input.ref[k] # i

Referrers(k, i) == {x \in LiveRecords : record[x].combo.ref[k] = i}

\* Once a master is deleted and the requests that saw it are done, no record
\* begins to refer to it: an UPDATE that keeps the column is tested as well.
RetiredGainsNoRecords ==
    [][\A k \in Kinds, i \in Ids : Retired(k, i) =>
          Retired(k, i)' /\ Referrers(k, i)' \subseteq Referrers(k, i)]_vars

\* No request changes a row after its deletion, even one that read it before:
\* an answer that a row was deleted stays true.
DeletedIsFinal ==
    [][/\ \A k \in Kinds, i \in Ids :
             master[k][i].state = "deleted" => master'[k][i] = master[k][i]
       /\ \A x \in Records :
             record[x].state = "deleted" => record'[x] = record[x]]_vars

\* Deletion holds against whatever is in execution.
RetirementHolds == DeletedIsFinal /\ RetiredGainsNoRecords
=============================================================================
