CONSTANTS
    Users = {u1}
    Sids = {s1, s2}
    Workers = {w1, w2}
    Cleaner = cleaner
    TTL = 1
    RenewDelta = 1
    MaxLifetime = 2
    MaxSessions = 2
    MaxTime = 3
SPECIFICATION Spec
PROPERTY LogoutFinal
