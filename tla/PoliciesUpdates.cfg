CONSTANTS
    g1 = g1
    u1 = u1
    p1 = p1
    p2 = p2
    z1 = z1
    t1 = t1
    t2 = t2
    b1 = b1
    r1 = r1
    r2 = r2
    Org = {g1}
    Sources <- MCSources
    Policy = {p1}
    Condition = {z1, t1, t2}
    KindOf <- MCKind
    SeedHome <- MCHome
    Keep = Keep
    Request = {r1, r2}
    Kinds = {"create", "update"}
    CrossOrg = FALSE
SYMMETRY AnyOrder
SPECIFICATION Spec
INVARIANTS LockKeepsRules
CHECK_DEADLOCK FALSE
