SPECIFICATION FairSpec
CONSTANTS
    Threads = {t1}
    Users = {andre, kari}
    NoThread = NoThread
    NoOne = NoOne
    MaxRecords = 3
INVARIANTS ShutdownIsClean
CHECK_DEADLOCK FALSE
