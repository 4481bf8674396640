CONSTANTS
    r1 = r1
    r2 = r2
    v1 = v1
    p1 = p1
    Reviews <- MCReviews
    Videos <- MCVideos
    VideoOf <- MCVideoOf
    AutoReviews <- MCAutoReviews
    Platforms <- MCPlatforms
    Handlers = {h1, h2}
    Consumers = {c1, c2}
    MaxRows = 2
    None = None
SPECIFICATION Spec
INVARIANT DecidedByReviewer
INVARIANT DecisionClosesToken
INVARIANT DecisionTakesEffect
PROPERTY SettledStaysOut
SYMMETRY MCSymmetry
CHECK_DEADLOCK FALSE
