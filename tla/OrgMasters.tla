------------------------------- MODULE OrgMasters -------------------------------
(***************************************************************************)
(* Fiscal years and budget categories. Unlike the salary-grade masters,    *)
(* findByCode and findById see soft-deleted rows, a create with the code of*)
(* one brings it back, and an update may write the flag itself. Nothing    *)
(* runs in a transaction and no UPDATE tests the row again.                *)
(***************************************************************************)
EXTENDS Integers, FiniteSets

CONSTANTS
    Rows,       \* ids of the rows of a table
    Clients,    \* requests executed at the same time
    RowCodes,   \* codes as LOWER leaves them
    Blank,      \* the empty one among them
    Null,
    NotGiven    \* a field the body of a request does not have

VARIABLES
    table,    \* the two tables
    job       \* requests in execution

orgVars == <<table, job>>

-----------------------------------------------------------------------------
Tables == {"fiscalYear", "budgetCategory"}

ASSUME OrgMastersAssumption ==
    /\ IsFiniteSet(Rows)
    /\ Blank \in RowCodes
    /\ Null \notin Rows \cup RowCodes \cup Tables
    /\ NotGiven \notin RowCodes \cup {Null}

\* is_delete = 0, is_active = 1.
RowStates == {"none", "live", "deleted"}

\* An update may write a NULL code.
TableRow == [state : RowStates, code : RowCodes \cup {Null}]

\* The flag of a body: isDelete or isActive, or neither.
Flags == {"live", "deleted", "absent"}

JobSteps == {"idle", "insert", "reactivate", "lookup", "write"}

\* overtaken: another request wrote the table since the first read (auxiliary).
Job == [at : JobSteps, table : Tables \cup {Null}, target : Rows \cup {Null},
        code : RowCodes \cup {Null, NotGiven}, flag : Flags, overtaken : BOOLEAN]

NoJob == [at |-> "idle", table |-> Null, target |-> Null, code |-> Null,
          flag |-> "absent", overtaken |-> FALSE]

Stored(t) == {x \in Rows : table[t][x].state # "none"}

\* findByCode: the rows it may return, deleted ones too.
WithCode(t, c) == {x \in Stored(t) : table[t][x].code = c}

LiveWithCode(t, c) == {x \in WithCode(t, c) : table[t][x].state = "live"}

OrgInit ==
    /\ table = [t \in Tables |-> [x \in Rows |-> [state |-> "none", code |-> Null]]]
    /\ job = [j \in Clients |-> NoJob]

\* j wrote t and is done.
Done(j, t) ==
    job' = [k \in Clients |->
               IF k = j THEN NoJob
               ELSE IF job[k].table = t THEN [job[k] EXCEPT !.overtaken = TRUE]
               ELSE job[k]]

Begin(j, t, step, target, c, flag) ==
    /\ job[j].at = "idle"
    /\ job' = [job EXCEPT ![j] = [at |-> step, table |-> t, target |-> target,
                                  code |-> c, flag |-> flag, overtaken |-> FALSE]]
    /\ UNCHANGED table

-----------------------------------------------------------------------------
(* POST. A live row with the code refuses it, a deleted one is taken over.  *)

\* The DTOs of POST refuse an empty code (IsNotEmpty).
NewCodes == RowCodes \ {Blank}

BeginInsert(j, t, c, flag) ==
    /\ WithCode(t, c) = {}
    /\ Begin(j, t, "insert", Null, c, flag)

BeginReactivate(j, t, c) ==
    \E x \in WithCode(t, c) :
        /\ table[t][x].state = "deleted"
        /\ Begin(j, t, "reactivate", x, c, "live")

CreateFiscalYear(j) ==
    \E c \in NewCodes : \/ BeginInsert(j, "fiscalYear", c, "live")
                        \/ BeginReactivate(j, "fiscalYear", c)

\* A new category may be created inactive; one taken over becomes active.
CreateBudgetCategory(j) ==
    \E c \in NewCodes :
        \/ \E flag \in {"live", "deleted"} : BeginInsert(j, "budgetCategory", c, flag)
        \/ BeginReactivate(j, "budgetCategory", c)

InsertRow(j, t) ==
    /\ job[j].at = "insert" /\ job[j].table = t
    /\ \E x \in Rows \ Stored(t) :
          table' = [table EXCEPT ![t][x] = [state |-> job[j].flag, code |-> job[j].code]]
    /\ Done(j, t)

\* The SET clauses for what the body or the reactivation gives; an empty or a null
\* code is written as well.
NewValues(row, q) ==
    [state |-> IF q.flag = "absent" THEN row.state ELSE q.flag,
     code |-> IF q.code = NotGiven THEN row.code ELSE q.code]

WriteRow(j, t) ==
    /\ job[j].at \in {"reactivate", "write"} /\ job[j].table = t
    /\ table' = [table EXCEPT ![t][job[j].target] = NewValues(@, job[j])]
    /\ Done(j, t)

InsertFiscalYear(j) == InsertRow(j, "fiscalYear")
WriteFiscalYear(j) == WriteRow(j, "fiscalYear")
InsertBudgetCategory(j) == InsertRow(j, "budgetCategory")
WriteBudgetCategory(j) == WriteRow(j, "budgetCategory")

-----------------------------------------------------------------------------
(* PUT and DELETE of any stored row, deleted ones included.                 *)

\* Codes that are false for dto.code && ...: the update DTOs let all three through.
Falsy == {NotGiven, Null, Blank}

\* A code that is not falsy is compared with the row's, which throws on a NULL.
BeginUpdate(j, t) ==
    \E x \in Stored(t), c \in RowCodes \cup {Null, NotGiven}, flag \in Flags :
        /\ table[t][x].code = Null => c \in Falsy
        /\ Begin(j, t, IF c \in Falsy \cup {table[t][x].code} THEN "write" ELSE "lookup",
                 x, c, flag)

UpdateFiscalYear(j) == BeginUpdate(j, "fiscalYear")
UpdateBudgetCategory(j) == BeginUpdate(j, "budgetCategory")

\* Mutant: the code is compared with nothing.
FreeAlways(t, c, x) == TRUE

\* The row findByCode returns is none, the row itself or a deleted one.
Free(t, c, x) ==
    \/ WithCode(t, c) = {}
    \/ \E y \in WithCode(t, c) : y = x \/ table[t][y].state = "deleted"

Lookup(j) ==
    /\ job[j].at = "lookup"
    /\ Free(job[j].table, job[j].code, job[j].target)
    /\ job' = [job EXCEPT ![j].at = "write"]
    /\ UNCHANGED table

SoftDelete(t, x) ==
    /\ x \in Stored(t)
    /\ table' = [table EXCEPT ![t][x].state = "deleted"]
    /\ job' = [k \in Clients |->
                  IF job[k].table = t THEN [job[k] EXCEPT !.overtaken = TRUE] ELSE job[k]]

DeleteFiscalYear == \E x \in Rows : SoftDelete("fiscalYear", x)
DeleteBudgetCategory == \E x \in Rows : SoftDelete("budgetCategory", x)

\* A test refuses, a statement fails or the process dies before the write.
JobFails(j) ==
    /\ job[j].at # "idle"
    /\ job' = [job EXCEPT ![j] = NoJob]
    /\ UNCHANGED table

OrgNext ==
    \/ \E j \in Clients :
          \/ CreateFiscalYear(j) \/ InsertFiscalYear(j)
          \/ UpdateFiscalYear(j) \/ WriteFiscalYear(j)
          \/ CreateBudgetCategory(j) \/ InsertBudgetCategory(j)
          \/ UpdateBudgetCategory(j) \/ WriteBudgetCategory(j)
          \/ Lookup(j) \/ JobFails(j)
    \/ DeleteFiscalYear \/ DeleteBudgetCategory

OrgSpec == OrgInit /\ [][OrgNext]_orgVars

-----------------------------------------------------------------------------
\* Every variable keeps its type.
OrgTypeOK ==
    /\ table \in [Tables -> [Rows -> TableRow]]
    /\ job \in [Clients -> Job]

\* An update that will write the empty code, which is never looked up.
BlankWrite(j, c) == c = Blank /\ job[j].at = "write" /\ job[j].code = Blank

\* "Fiscal year with code c already exists": a code comes to be live twice only
\* where a request overtook the writer, where a body gave the empty code, or where a
\* rename had already given the code of a deleted row to another one (update looks
\* at live rows only), so that findByCode has two rows to choose from.
DuplicateExplained ==
    [][\A t \in Tables, c \in RowCodes :
          (/\ Cardinality(LiveWithCode(t, c)) <= 1
           /\ Cardinality(WithCode(t, c)) <= 1
           /\ \A j \in Clients :
                 job[j].overtaken \/ BlankWrite(j, c) => job'[j].at # "idle")
          => Cardinality(LiveWithCode(t, c)') <= 1]_orgVars
=============================================================================
