SPECIFICATION FairSpec
CONSTANTS
    Threads = {t1}
    Users = {andre, kari}
    NoThread = NoThread
    NoOne = NoOne
    MaxRecords = 3
PROPERTIES FailedIsDropped
CHECK_DEADLOCK FALSE
