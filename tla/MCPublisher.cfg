CONSTANTS
    good = good
    other = other
    v1 = v1
    Rows = {good, other}
    PlatformOf <- Platforms
    VideoOf <- Videos
    Runs = {r1, r2}
    MAX_RETRIES = 2
    MaxFaults = 1
    None = None
SPECIFICATION FairSpec
INVARIANT PublishedIsTrue
INVARIANT RetriesBounded
INVARIANT RepostsBounded
PROPERTY RetryingEnds
PROPERTY CancelledStaysOut
