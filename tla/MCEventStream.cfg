CONSTANTS
    Specialists = {s1, s2}
    Tools = {mail, calc}
    MaxCalls = 1
SPECIFICATION Spec
INVARIANTS
    TypeOK
    EndsOnce
    AnswersShown
    ResultsFollowCalls
PROPERTY
    StreamEnds
CHECK_DEADLOCK FALSE
