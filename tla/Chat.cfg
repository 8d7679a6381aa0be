CONSTANTS
    b1 = b1
    b2 = b2
    Browsers = {b1, b2}
    Requests = {r1, r2}
    MaxTurns = 2
    CallCounts = {2}
    MaxSends = 3
    MaxEvents = 1
SPECIFICATION ReturningFairSpec
CHECK_DEADLOCK FALSE
INVARIANTS
    TypeOK
    LockIsHeldByOne
    PromptsWellFormed
    AnswersAreShown
    ClearedIsGone
    SessionsApart
PROPERTIES
    RequestsReturn
