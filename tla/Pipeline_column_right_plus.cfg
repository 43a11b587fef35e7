\* k + c0 cmp m: fix_binary keeps Plus when the column is on the right.
CONSTANTS
    Inputs <- ColumnRightPlus
    Columns <- MCColumns
    ColumnValues <- MCColumnValues
    Target <- MCTarget
    Tuples <- MCTuples
SPECIFICATION Spec
INVARIANT SimplifyPreservesSemantics
\* Every behaviour stops once the chain is done or a call failed.
CHECK_DEADLOCK FALSE
