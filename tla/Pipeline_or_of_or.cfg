\* (a OR b) OR (a OR b): convert_binary joins two Or ranges into an And.
CONSTANTS
    Inputs <- OrOfOr
    Columns <- MCColumns
    ColumnValues <- MCColumnValues
    Target <- MCTarget
    Tuples <- MCTuples
SPECIFICATION Spec
INVARIANT RangeSound
\* Every behaviour stops once the chain is done or a call failed.
CHECK_DEADLOCK FALSE
