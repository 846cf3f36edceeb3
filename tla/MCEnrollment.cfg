SPECIFICATION FairSpec
CONSTANTS
    Sids = {andre, kari}
    Fingers = {thumb, index}
    RecordIds = {r1, r2, r3, r4, r5}
    NoRecord = NoRecord
    MaxStages = 2
INVARIANTS TypeOK OneRecordPerFinger OneRecordPerUser
PROPERTIES OkMeansDone OthersUntouched NothingStoredUnfinished StoppedEnds
