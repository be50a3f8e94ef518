------------------------------- MODULE MCAuthority -------------------------------
(***************************************************************************)
(* Where authority comes from: delegations, and the resolution of          *)
(* permissions. They share no variable (the resolution takes delegations   *)
(* as beginning and ending at any time), so the initial state chooses the  *)
(* one that moves and the other keeps its initial state.                   *)
(***************************************************************************)
EXTENDS Delegations, EffectivePermissions, TLC

CONSTANTS p1, admin, top, leaf

VARIABLE scenario

vars == <<delegationVars, permissionVars, scenario>>

\* A hierarchy with a cycle, of which one role confers something.
MCConfers == [q \in Roles |-> IF q = leaf THEN {p1} ELSE {}]
MCBelow == [q \in Roles |-> IF q = top THEN {leaf} ELSE IF q = leaf THEN {top} ELSE {}]

Symmetry ==
    Permutations(People) \cup Permutations(Delegated) \cup Permutations(Callers)

Init ==
    /\ scenario \in {"delegations", "permissions"}
    /\ DelegationInit /\ PermissionsInit
    /\ scenario # "permissions" => held = {}

Next ==
    /\ UNCHANGED scenario
    /\ \/ scenario = "delegations" /\ DelegationNext /\ UNCHANGED permissionVars
       \/ scenario = "permissions" /\ PermissionsNext /\ UNCHANGED delegationVars

\* Every variable of both components keeps its type.
TypesOK == DelegationTypeOK /\ PermissionsTypeOK

Spec == Init /\ [][Next]_vars
=============================================================================
