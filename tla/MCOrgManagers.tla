----------------------------- MODULE MCOrgManagers -----------------------------
(* An instance of OrgManagers for TLC.                                       *)
EXTENDS OrgManagers, TLC

Symmetry == Permutations(Rows) \cup Permutations(Handlers)
=============================================================================
