SPECIFICATION MCSpec
CONSTANTS
    Units = {u1, u2, u3}
    Requests = {r1, r2}
    Types = {"ORGANIZATION", "BUSINESS_UNIT", "DEPARTMENT"}
    Level <- TypeLevel
    Rules <- SeededRules
    Codes = {c1, c2}
    None = None
SYMMETRY Symmetry
INVARIANTS
    Acyclic
PROPERTIES
    SharedCodeExplained
    SecondRootExplained
    OrphanExplained
    InactiveGetsNoChildren
