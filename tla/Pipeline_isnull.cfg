\* NOT (c0 IS NULL): unpack_val folds IsNull of a column to a NULL constant.
CONSTANTS
    Inputs <- NullTests
    Columns <- MCColumns
    ColumnValues <- MCColumnValues
    Target <- MCTarget
    Tuples <- MCTuples
SPECIFICATION Spec
INVARIANT SimplifyPreservesSemantics
\* Every behaviour stops once the chain is done or a call failed.
CHECK_DEADLOCK FALSE
