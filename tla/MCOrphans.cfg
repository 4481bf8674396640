CONSTANTS
    Jobs = {j1}
    Types = {t1}
    Drivers = {p1}
    Cleaner = cleaner
    MaxCalls = 2
    None = None
SPECIFICATION FairSpec
PROPERTY OrphansAreFlagged
