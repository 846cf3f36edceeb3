SPECIFICATION Spec
CONSTANTS
    FlashRecords <- MCFlashRecords
    Paired <- MCPaired
    MaxAttempts = 3
    MaxLate = 2
INVARIANTS TypeOK FaultlessOpens SessionAgrees
CHECK_DEADLOCK FALSE
