CONSTANTS
    u1 = u1
    u2 = u2
    k1 = k1
    k2 = k2
    a = a
    b = b
    r1 = r1
    r2 = r2
    r3 = r3
    Users = {u1, u2}
    Keys = {k1, k2}
    Contents = {a, b}
    Requests = {r1, r2, r3}
    None = None
    Offered <- MCOffered
SPECIFICATION Spec
INVARIANTS
    TypeOK
    IdsDistinct
PROPERTY
    MapSpec
