CONSTANTS
    u1 = u1
    c1 = c1
    c2 = c2
    s1 = s1
    Users = {u1}
    Requests = {c1, c2}
    Specialists = {s1, s2}
    Steps <- MCSteps
    Offered <- MCOffered
    MaxFaults = 1
SPECIFICATION Spec
INVARIANTS
    TypeOK
    StoredInOrder
    AnswerComplete
    NextChatSeesAll
    HistoryTells
PROPERTY
    RequestsEnd
CHECK_DEADLOCK FALSE
