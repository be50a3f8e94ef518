SPECIFICATION MCSpec
CONSTANTS
    Id1 = i1
    Id2 = i2
    Code1 = c1
    Code2 = c2
    Variant1 = v1
    Variant2 = v2
    Combos <- GradeCombos
    Changes <- GradeChanges
    Ids = {i1, i2}
    Records = {x1, x2}
    Requests = {r1, r2}
    Codes = {c1, c2}
    Salaries = {1, 2}
    Variants = {v1, v2}
    Seeded <- SeedOne
    None = None
    Absent = Absent
    Rows = {t1, t2}
    Clients = {j1, j2}
    RowCodes = {d1, blank}
    Blank = blank
    NotGiven = NotGiven
    Null = Null
SYMMETRY Symmetry
INVARIANTS
    TypesOK
    CodeBound
PROPERTIES
    LossesExplained
    RetirementHolds
    DuplicateExplained
