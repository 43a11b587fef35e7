\* Range soundness of OR merging over disjunctions of points and scopes.
CONSTANTS
    Vals <- MCVals
    MaxLen <- MCMaxLen
    LeafKinds <- PointAndScopeKinds
SPECIFICATION Spec
INVARIANTS OrRangeSound
CHECK_DEADLOCK FALSE
