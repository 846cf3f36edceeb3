SPECIFICATION FairSpec
CONSTANTS
    Sids = {andre}
    Fingers = {thumb}
    RecordIds = {r1, r2}
    NoRecord = NoRecord
    MaxStages = 2
PROPERTIES ScansAreBounded
