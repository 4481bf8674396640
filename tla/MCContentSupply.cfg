CONSTANTS
    Procs = {p1, p2}
    Topics = {Focus}
    PER_RUN = 1
    ATTEMPTS = 2
    JOBS_FIT = TRUE
    EXPIRY = 2
    DELAY = 1
    MaxTrends = 2
    MaxScripts = 5
SPECIFICATION Spec
INVARIANT RepeatsBounded
INVARIANT UsedHasScript
INVARIANT RowsBounded
SYMMETRY MCSymmetry
