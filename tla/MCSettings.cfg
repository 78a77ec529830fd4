CONSTANTS
    t1 = t1
    t2 = t2
    long = long
    middle = middle
    site = site
    Tabs = {t1, t2}
    Keys = {long, middle}
    Middle = {middle}
    Sites = {site}
    Env <- MCEnv
    StartLimits <- MCStartLimits
    LimitsAsked <- MCLimitsAsked
    MaxUpdates = 2
    None = None
SPECIFICATION Spec
INVARIANTS
    TypeOK
    OnlySavedUsed
    AnswerHolds
    MaskNeverStored
