SPECIFICATION AccountsSpec
CONSTANTS
    Users = {u1, u2}
    Names = {"bob", " bob"}
    Trimmed <- TrimmedNames
    Roles = {admin, vendor}
    VendorRoles = {vendor}
    Admin = admin
    Grants = {g1, g2}
    Handlers = {r1, r2}
    Null = Null
SYMMETRY Symmetry
INVARIANTS VendorRolesOnly
PROPERTIES LastAdminExplained NameExplained
