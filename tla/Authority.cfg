SPECIFICATION Spec
CONSTANTS
    People = {u1, u2}
    Delegated = {d1, d2}
    Callers = {c1, c2}
    MaxTime = 3
    MaxDuration = 2
    Nobody = Nobody
    p1 = p1
    admin = admin
    top = top
    leaf = leaf
    Perms = {p1}
    Roles = {admin, top, leaf}
    AdminRoles = {admin}
    Confers <- MCConfers
    Below <- MCBelow
    MaxDepth = 2
    DelegationsConfer = TRUE
    Overrides = {o1, o2}
    Requests = {r1}
    MaxChanges = 3
    None = None
SYMMETRY Symmetry
INVARIANTS TypesOK AnswersFaithful
PROPERTIES RulesExplained
