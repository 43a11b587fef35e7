CONSTANTS
    Tests = {0, 1, 2, 3, 4}
    MaxRetry = 2
    MaxRounds = 3
    WareCounts = {1, 3}
SPECIFICATION Spec
INVARIANTS
    TypeOK
    RoundsCountedOnce
    AbortAfterAllRetries
    OtherThanHome
PROPERTY Returns
CHECK_DEADLOCK FALSE
