SPECIFICATION Spec
CONSTANTS
    Keys = {k1, k2, k3}
    Hosts = {here, there}
    Files = {f1, f2}
    Chunks = 3
    NoKey = NoKey
    NoRecord = NoRecord
    Torn = Torn
    Unwritten = Unwritten
    Mixed = Mixed
INVARIANTS TypeOK PairedIsUsable RetryHeals
PROPERTIES OkIsPaired LostOnlyByReset
