CONSTANTS
    BRANDS = 2
    PARTS <- MCParts
    ALLOWANCE = 2
    ATTEMPTS = 3
    MaxRenewals = 3
    MARGIN = 1
    TRIES = 2
    TEMPLATES = TRUE
    GROQ_KEY = TRUE
    MaxUnread = 1
    Approvals = {a1, a2}
    HALF = 1
    HOUR = 1
    INTERVAL = 2
    DAY = 4
    Windows = {1, 2}
    BestDays = {0, 1}
    LOOKAHEAD = 2
    DAILY_LIMIT = 1
    MaxTime = 3
    MaxRows = 3
    Posts = {1, 2}
    MaxComments = 2
    Operations = {o1, o2}
    CHECKS = 3
    MaxCallbacks = 2
SPECIFICATION MCSpec
INVARIANT TypesOK
INVARIANT CallsBounded
INVARIANT GroqCallsBounded
INVARIANT BodyIsWritten
INVARIANT SpacedUnlessRaced
INVARIANT DeferralsBounded
INVARIANT CommentedOnce
PROPERTY ScanEnds
PROPERTY ShutdownEnds
CHECK_DEADLOCK FALSE
