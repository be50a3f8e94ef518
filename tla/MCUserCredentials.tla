--------------------------- MODULE MCUserCredentials ---------------------------
(* Instances of UserCredentials for TLC.                                     *)
EXTENDS UserCredentials, TLC

\* Requests, tokens and passwords are interchangeable.
Symmetry == Permutations(Requests) \cup Permutations(Tokens)
                                   \cup Permutations(Passwords)
=============================================================================
