CONSTANTS
    r1 = r1
    r2 = r2
    v1 = v1
    p1 = p1
    Reviews <- MCReviews
    Videos <- MCVideos
    VideoOf <- MCVideoOf
    AutoReviews <- MCAutoReviews
    Platforms <- MCPlatforms
    Handlers = {h1}
    Consumers = {c1}
    MaxRows = 2
    None = None
SPECIFICATION FairSpec
PROPERTY AutoApprovedIsQueued
CHECK_DEADLOCK FALSE
