CONSTANTS
    Threads = {t1, t2}
    JobTypes <- MCJobTypes
    MaxAssembly = 1
    MaxPolls = 2
    MaxSlots = 3
    None = None
SPECIFICATION FairSpec
PROPERTY WaitReturns
