\* The sorted, pairwise-disjoint shape of the Scopes rearrange returns.
CONSTANTS
    Vals <- MCVals
    MaxLen <- MCMaxLen
    LeafKinds <- AllLeafKinds
SPECIFICATION Spec
INVARIANTS RearrangeSortedDisjoint
CHECK_DEADLOCK FALSE
