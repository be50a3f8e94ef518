SPECIFICATION PlatformSpec
SYMMETRY Symmetry
CONSTANTS
    Names = {n1, n2}
    ImportTokens = {i1}
    Importers = {c1, c2}
    MaxRows = 2
    MaxAccounts = 2
    MaxEvents = 3
    MaxBoots = 1
    NoToken = NoToken
    Cases = {o1}
    Links = {k1, k2, k3}
    Visitors = {v1, v2}
    MaxUses = 2
    Absent = Absent
    Addresses = {a1, a2}
    Limit = 2
    Window = 2
    SweepAge = 3
    MaxInstant = 5
    NoAddress = NoAddress
INVARIANTS TypesOK UsesAccounted WindowExact
PROPERTIES ImportsExplained ImportsWhole SecondLinkExplained
