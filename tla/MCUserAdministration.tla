------------------------- MODULE MCUserAdministration -------------------------
EXTENDS UserAdministration, TLC

\* A name and the same name after a blank.
TrimmedNames == [n \in Names |-> "bob"]

\* Users, role rows and requests are interchangeable.
Symmetry == Permutations(Users) \cup Permutations(Grants) \cup Permutations(Handlers)
=============================================================================
