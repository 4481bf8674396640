CONSTANTS
    Procs = {p1, p2}
    Calls <- MCCalls
    LIMIT <- MCLimit
    UNITS <- MCUnits
    MaxCount = 4
    MaxLost = 1
    FAILURE_THRESHOLD = 2
    TIMEOUT = 2
    MaxInFlight = 2
    Threads = {t1, t2, t3}
    JobTypes <- MCJobTypes
    MaxAssembly = 1
    MaxPolls = 1
    MaxSlots = 3
    None = None
SPECIFICATION MCSpec
INVARIANT OverrunBounded
INVARIANT ThroughBounded
INVARIANT BurstBounded
INVARIANT AssembliesBounded
INVARIANT PermitsAccounted
PROPERTY ThresholdBlocks
PROPERTY OpenIsTested
