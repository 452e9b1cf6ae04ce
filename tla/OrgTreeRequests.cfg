CONSTANTS
    root = root
    c1 = c1
    c2 = c2
    g1 = g1
    g2 = g2
    u1 = u1
    x1 = x1
    p1 = p1
    r1 = r1
    r2 = r2
    Org = {root, c1, c2, g1, g2, u1}
    Root = root
    NoOrg = NoOrg
    Policy = {p1}
    NoPolicy = NoPolicy
    Keep = Keep
    Request = {r1}
    OwnerOf <- MCOwner
    Kinds = {"create", "update", "remove", "hire", "archive", "transfer", "policy"}
    SeedParent <- MCSmallest
    SeedUnits = {u1}
    NullParent = FALSE
SPECIFICATION Spec
INVARIANTS NothingLeftBehind
PROPERTIES UnitKeepsCompany SelectionInChain
CHECK_DEADLOCK FALSE
