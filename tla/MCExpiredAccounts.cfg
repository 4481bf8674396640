CONSTANTS
    Procs = {p1}
    MaxRetries = 1
    MaxTokens = 2
SPECIFICATION FairSpec
PROPERTY ExpiredIsRefreshed
