\* NOT (c0 cmp k): convert_binary looks through NOT.
CONSTANTS
    Inputs <- Negated
    Columns <- MCColumns
    ColumnValues <- MCColumnValues
    Target <- MCTarget
    Tuples <- MCTuples
SPECIFICATION Spec
INVARIANT RangeSound
\* Every behaviour stops once the chain is done or a call failed.
CHECK_DEADLOCK FALSE
