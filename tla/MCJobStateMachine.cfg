CONSTANTS
    Jobs = {j1}
    Types = {t1, t2}
    Drivers = {p1, p2}
    Cleaner = cleaner
    MaxCalls = 4
    None = None
SYMMETRY Symmetry
SPECIFICATION Spec
INVARIANT RecordedEdge
INVARIANT DuplicatesBounded
INVARIANT ReleasedWasReviewed
PROPERTY Lifecycle
