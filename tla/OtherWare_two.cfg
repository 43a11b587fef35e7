CONSTANTS
    WareCounts = {2}
SPECIFICATION Spec
PROPERTY Returns
CHECK_DEADLOCK FALSE
