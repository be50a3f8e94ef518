---------------------------- MODULE MCOrgUnitTree ----------------------------
(***************************************************************************)
(* OrgUnitTree under the type registry as it is seeded. A PATCH carries a  *)
(* code or switches the unit off: activate() does what a PATCH that        *)
(* switches it on does.                                                    *)
(***************************************************************************)
EXTENDS OrgUnitTree, TLC

\* Ids, handlers and codes are interchangeable.
Symmetry == Permutations(Units) \cup Permutations(Requests)
                                \cup Permutations(Codes)

\* The levels of the type registry.
TypeLevel == [ORGANIZATION |-> 1, BUSINESS_UNIT |-> 2, DEPARTMENT |-> 3]

\* A business unit under the organisation, a department under a business unit.
SeededRules == {<<"BUSINESS_UNIT", "ORGANIZATION">>,
                <<"DEPARTMENT", "BUSINESS_UNIT">>}

MCNext ==
    /\ Next
    /\ \A r \in Requests :
          req'[r].op = "update" =>
             req'[r].isActive = IF req'[r].code = None THEN "false" ELSE "absent"

MCSpec == Init /\ [][MCNext]_vars
=============================================================================
