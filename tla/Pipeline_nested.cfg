\* (c0 + 1) + 1 cmp m: a Replace is applied at an arithmetic parent.
CONSTANTS
    Inputs <- NestedArith
    Columns <- MCColumns
    ColumnValues <- MCColumnValues
    Target <- MCTarget
    Tuples <- MCTuples
SPECIFICATION Spec
INVARIANT SimplifyPreservesSemantics
\* Every behaviour stops once the chain is done or a call failed.
CHECK_DEADLOCK FALSE
