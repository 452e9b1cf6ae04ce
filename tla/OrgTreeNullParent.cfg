CONSTANTS
    root = root
    c1 = c1
    c2 = c2
    g1 = g1
    g2 = g2
    u1 = u1
    x1 = x1
    p1 = p1
    r1 = r1
    r2 = r2
    Org = {root, c1, c2, g1, g2, u1}
    Root = root
    NoOrg = NoOrg
    Policy = {}
    NoPolicy = NoPolicy
    Keep = Keep
    Request = {r1}
    OwnerOf <- MCNoOwner
    Kinds = {"update"}
    SeedParent <- MCParent
    SeedUnits = {u1}
    NullParent = TRUE
SPECIFICATION Spec
PROPERTY ClassStable
CHECK_DEADLOCK FALSE
