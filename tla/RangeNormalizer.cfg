\* Soundness of AND narrowing over every input convert_binary can return.
CONSTANTS
    Vals <- MCVals
    MaxLen <- MCMaxLen
    LeafKinds <- AllLeafKinds
SPECIFICATION Spec
INVARIANTS TypeOK AndRangeSound
\* A normalisation is a finite computation: it stops once rearrange returned.
CHECK_DEADLOCK FALSE
