CONSTANTS
    MaxLength = 5
    GuardRounds = 2
    SummarySizes = {1, 3}
    Histories <- MCHistories
    Configs <- MCConfigs
SPECIFICATION Spec
INVARIANTS
    TypeOK
    WantedKept
    PairsWhole
    DroppedForSpace
    FitsOrLastGroup
PROPERTY
    Returns
CHECK_DEADLOCK FALSE
