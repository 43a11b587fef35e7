\* c0 cmp k OR c1 cmp m: convert_binary keeps the c0 range and drops the other arm.
CONSTANTS
    Inputs <- OrOtherColumn
    Columns <- MCColumns
    ColumnValues <- MCColumnValues
    Target <- MCTarget
    Tuples <- MCTuples
SPECIFICATION Spec
INVARIANT RangeSound
\* Every behaviour stops once the chain is done or a call failed.
CHECK_DEADLOCK FALSE
