SPECIFICATION HeadsSpec
CONSTANTS
    Rows = {x1, x2}
    Handlers = {r1, r2}
    MaxDay = 3
    Open = Open
    Null = Null
SYMMETRY Symmetry
PROPERTIES
    SecondHeadExplained
    NoGap
