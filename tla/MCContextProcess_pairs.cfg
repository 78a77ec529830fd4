CONSTANTS
    MaxLength = 5
    GuardRounds = 2
    SummarySizes = {1, 3}
    Histories <- MCHistories
    Configs <- MCConfigs
SPECIFICATION Spec
INVARIANT SummaryKeepsPairs
CHECK_DEADLOCK FALSE
