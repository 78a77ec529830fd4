CONSTANTS
    Users = {u1}
    Sids = {s1, s2}
    Workers = {w1, w2}
    Cleaner = cleaner
    TTL = 1
    RenewDelta = 1
    MaxLifetime = 3
    MaxSessions = 1
    MaxTime = 4
SPECIFICATION Spec
SYMMETRY Symmetry
INVARIANT TypeOK
PROPERTIES
    KeptInTime
    AuthWithinLifetime
    EndedForGood
