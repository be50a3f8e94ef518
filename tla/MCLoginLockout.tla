---------------------------- MODULE MCLoginLockout ----------------------------
(* Instances of LoginLockout for TLC.                                        *)
EXTENDS LoginLockout, TLC

\* Attempts are interchangeable.
Symmetry == Permutations(Requests)
=============================================================================
