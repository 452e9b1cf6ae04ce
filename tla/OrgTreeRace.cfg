CONSTANTS
    root = root
    c1 = c1
    c2 = c2
    g1 = g1
    g2 = g2
    u1 = u1
    x1 = x1
    p1 = p1
    r1 = r1
    r2 = r2
    Org = {root, c1, c2, g1, x1}
    Root = root
    NoOrg = NoOrg
    Policy = {}
    NoPolicy = NoPolicy
    Keep = Keep
    Request = {r1, r2}
    OwnerOf <- MCNoOwner
    Kinds = {"create", "update", "remove"}
    SeedParent <- MCOneGroup
    SeedUnits = {}
    NullParent = FALSE
SYMMETRY AnyOrder
SPECIFICATION Spec
INVARIANTS TypeOK TreeInv Acyclic
PROPERTY ClassStable
CHECK_DEADLOCK FALSE
