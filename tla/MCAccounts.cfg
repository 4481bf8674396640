CONSTANTS
    Procs = {p1, p2, p3}
    MaxRetries = 1
    MaxTokens = 3
SPECIFICATION Spec
INVARIANT StatusHolds
INVARIANT NewestIsKept
SYMMETRY MCSymmetry
