CONSTANTS
    Tests = {0, 1}
    MaxRetry = 0
    MaxRounds = 7
SPECIFICATION Spec
INVARIANT MixCheckHonest
CHECK_DEADLOCK FALSE
