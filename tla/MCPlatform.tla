------------------------------- MODULE MCPlatform -------------------------------
(***************************************************************************)
(* Three components that share no state, one run: the initial state        *)
(* chooses the one that moves, and the others keep their initial state.    *)
(***************************************************************************)
EXTENDS UserImport, CandidateTokens, RateLimit

VARIABLE scenario

platformVars == <<importVars, linkVars, rateVars, scenario>>

PlatformInit ==
    /\ scenario \in {"import", "links", "rate"}
    /\ ImportInit /\ LinksInit /\ RateInit

PlatformNext ==
    /\ UNCHANGED scenario
    /\ \/ scenario = "import" /\ ImportNext /\ UNCHANGED <<linkVars, rateVars>>
       \/ scenario = "links" /\ LinksNext /\ UNCHANGED <<importVars, rateVars>>
       \/ scenario = "rate" /\ RateNext /\ UNCHANGED <<importVars, linkVars>>

\* Every variable of the three components keeps its type.
TypesOK == ImportTypeOK /\ LinksTypeOK /\ RateTypeOK

\* Names and import requests are interchangeable.
Symmetry == Permutations(Names) \cup Permutations(Importers)

PlatformSpec == PlatformInit /\ [][PlatformNext]_platformVars
=============================================================================
