\* c0 > k XOR c0 < m: a predicate that evaluates on every row, whose two
\* sides are ranges of the target column.
CONSTANTS
    Inputs <- Xored
    Columns <- MCColumns
    ColumnValues <- MCColumnValues
    Target <- MCTarget
    Tuples <- MCTuples
SPECIFICATION Spec
PROPERTY ImplementsRangeFilter
\* Every behaviour stops once the chain is done or a call failed.
CHECK_DEADLOCK FALSE
