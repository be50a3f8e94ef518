------------------------------- MODULE MCMasters -------------------------------
(* Instances of SalaryGrade and OrgMasters for TLC, whose tables have nothing *)
(* in common. A behaviour has one scenario:                                   *)
(*   codes    requests create, rename and remove rows of one master table     *)
(*   ranges   requests change the salary range of one grade                   *)
(*   records  requests work on records while grades come and go               *)
(*   rows     requests work on one of the two tables of OrgMasters            *)
(* The other tables keep the row they start with. All columns of a record are *)
(* treated alike, so grades stand for the other masters in the last one.      *)
EXTENDS SalaryGrade, OrgMasters, TLC

CONSTANTS Id1, Id2, Code1, Code2, Variant1, Variant2

VARIABLE scenario

Symmetry == Permutations(Records) \cup Permutations(Requests)
            \cup Permutations(Rows) \cup Permutations(Clients)

SeedOne == [k \in Kinds |-> [i \in Ids |-> IF i = Id1 THEN Code1 ELSE None]]
SeedTwo == [SeedOne EXCEPT !["grade"] = [i \in Ids |-> IF i = Id1 THEN Code1 ELSE Code2]]

ASSUME MCMastersAssumption == {Code1, Code2} \subseteq Codes

\* Two columns of a record vary; a request changes one of them, the variant only
\* to the second, or makes the grade NULL.
GradeAnd(grade, others, variant) ==
    [ref |-> [k \in Kinds |-> IF k = "grade" THEN grade ELSE others],
     variant |-> variant]
GradeCombos == {GradeAnd(Id1, Id1, Variant1), GradeAnd(Id2, Id1, Variant2)}
GradeChanges == {GradeAnd(i, Absent, Absent) : i \in Ids \cup {None}}
                \cup {GradeAnd(Absent, Absent, Variant2)}

Scenarios == ({"codes"} \X Kinds) \cup {<<"ranges", "grade">>, <<"records", "grade">>}
             \cup ({"rows"} \X Tables)

MCInit ==
    /\ scenario \in Scenarios
    /\ IF scenario[1] = "records" THEN StartWith(SeedTwo) ELSE Init
    /\ OrgInit

\* The requests of the scenario.
Allowed(q) ==
    \/ q = Idle
    \/ /\ scenario[1] = "codes"
       /\ q.kind = scenario[2]
       /\ {q.min, q.max} = {IF q.target = None THEN None ELSE Absent}
    \/ /\ scenario[1] = "ranges"
       /\ q.kind = "grade" /\ q.target # None /\ q.code = Absent
    \/ scenario[1] = "records" /\ q.kind = None

SalaryStep ==
    /\ scenario[1] # "rows"
    /\ Next
    /\ \A k \in Kinds \ {scenario[2]} : master'[k] = master[k]
    /\ scenario[1] = "ranges" => Live("grade")' = Live("grade")
    /\ \A r \in Requests : Allowed(req'[r])
    /\ UNCHANGED orgVars

OrgStep ==
    /\ scenario[1] = "rows"
    /\ OrgNext
    /\ \A t \in Tables \ {scenario[2]} : table'[t] = table[t]
    /\ \A j \in Clients : job'[j].table \in {Null, scenario[2]}
    /\ UNCHANGED vars

MCNext == (SalaryStep \/ OrgStep) /\ UNCHANGED scenario

\* Every variable of both components keeps its type.
TypesOK == TypeOK /\ OrgTypeOK

MCSpec == MCInit /\ [][MCNext]_<<vars, orgVars, scenario>>
=============================================================================
