CONSTANTS
    Configs <- MCConfigs
    DefaultMaxRetries = 3
    DefaultInitialBackoff = 2
    DefaultMaxBackoff = 5
    RetryAfter <- MCRetryAfter
    LongestRetryAfter = 8
    Deadline = 7
SPECIFICATION Spec
INVARIANTS
    TypeOK
    RepeatsSafely
    WaitsAsAsked
    ReturnsSoonAfterDeadline
PROPERTY
    CallReturns
CHECK_DEADLOCK FALSE
