\* Single-column comparisons simplify handles, their conjunctions and
\* disjunctions of ranges, through the whole lowering chain.
CONSTANTS
    Inputs <- SoundInputs
    Columns <- MCColumns
    ColumnValues <- MCColumnValues
    Target <- MCTarget
    Tuples <- MCTuples
SPECIFICATION Spec
INVARIANTS
    SimplifyPreservesSemantics
    SimplifyIdempotent
PROPERTY
    ImplementsRangeFilter
\* Every behaviour stops once the chain is done or a call failed.
CHECK_DEADLOCK FALSE
