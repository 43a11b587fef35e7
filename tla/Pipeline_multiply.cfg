\* k * c0 cmp m and c0 * k cmp m: the comparison is flipped by position, not by sign.
CONSTANTS
    Inputs <- Multiplied
    Columns <- MCColumns
    ColumnValues <- MCColumnValues
    Target <- MCTarget
    Tuples <- MCTuples
SPECIFICATION Spec
INVARIANT SimplifyPreservesSemantics
\* Every behaviour stops once the chain is done or a call failed.
CHECK_DEADLOCK FALSE
