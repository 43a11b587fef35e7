\* Range soundness of OR merging on scenario O1 of spec.md, whose NotEq(8)
\* rearrange absorbs into Scope(6..=10).
CONSTANTS
    Vals <- O1Vals
    MaxLen <- MCMaxLen
    LeafKinds <- AllLeafKinds
    Inputs <- O1
SPECIFICATION Spec
INVARIANTS OrRangeSound
CHECK_DEADLOCK FALSE
