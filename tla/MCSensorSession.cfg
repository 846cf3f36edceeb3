SPECIFICATION FairSpec
CONSTANTS
    Threads = {t1, t2}
    Users = {andre, kari}
    NoThread = NoThread
    NoOne = NoOne
    MaxRecords = 3
INVARIANTS TypeOK SessionIsClean
PROPERTIES MatchIsOfThisScan StoppedReturns
CHECK_DEADLOCK FALSE
