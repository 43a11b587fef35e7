--------------------------- MODULE RangeNormalizer ---------------------------
(***************************************************************************)
(* A caller normalising the ConstantBinary that convert_binary produced    *)
(* for one column: it calls scope_aggregation (AND narrowing) and then     *)
(* rearrange (OR merging) and uses the resulting list of ranges.           *)
(* The inputs are exactly the shapes convert_binary can return: a leaf     *)
(* built by new_binary, or an And / Or of at least two such leaves (its    *)
(* combining arms only ever append leaves, never nest).                    *)
(***************************************************************************)
EXTENDS Integers, Sequences, FiniteSets, ConstantBinary

CONSTANTS
    Vals,       \* integer constants compared with the column
    MaxLen,     \* bound on the number of leaves under one And / Or
    LeafKinds   \* which new_binary results the inputs draw from

ASSUME MaxLen >= 2 /\ LeafKinds \subseteq {"Scope", "Eq", "NotEq"}

VARIABLES
    input,      \* the ConstantBinary returned by convert_binary
    binary,     \* the value scope_aggregation mutates in place
    out,        \* the Vec<ConstantBinary> returned by rearrange
    pc          \* which call the caller makes next

vars == << input, binary, out, pc >>

\* Every ConstantBinary that new_binary returns (simplify.rs 588-619).
NewBinaryLeaves ==
    ( IF "Scope" \in LeafKinds
      THEN UNION {{Scope(Excluded(v), Unbounded), Scope(Unbounded, Excluded(v)),
                   Scope(Included(v), Unbounded), Scope(Unbounded, Included(v))}
                  : v \in Vals}
      ELSE {} )
    \cup (IF "Eq" \in LeafKinds THEN {Eq(v) : v \in Vals} ELSE {})
    \cup (IF "NotEq" \in LeafKinds THEN {NotEq(v) : v \in Vals} ELSE {})

LeafLists == UNION {[1..n -> NewBinaryLeaves] : n \in 2..MaxLen}

Inputs == NewBinaryLeaves \cup {And(xs) : xs \in LeafLists}
                          \cup {Or(xs) : xs \in LeafLists}

\* Integers around the constants, so that open bounds have points on both sides.
Points == LET lo == CHOOSE m \in Vals : \A v \in Vals : ValCmp(m, v) <= 0
              hi == CHOOSE m \in Vals : \A v \in Vals : ValCmp(m, v) >= 0
          IN  {Num(i) : i \in (lo.n - 1)..(hi.n + 1)}

Bounds == {Unbounded} \cup {Included(v) : v \in Vals} \cup {Excluded(v) : v \in Vals}
Leaves == [tag : {"Scope"}, min : Bounds, max : Bounds]
            \cup {Eq(v) : v \in Vals} \cup {NotEq(v) : v \in Vals}

TypeOK ==
    /\ input.tag \in {"Scope", "Eq", "NotEq", "And", "Or"}
    /\ binary.tag = input.tag
    /\ pc \in {"aggregate", "rearrange", "done", "failed"}
    /\ \A i \in DOMAIN out : out[i] \in Leaves

Init ==
    /\ input \in Inputs
    /\ binary = input
    /\ out = << >>
    /\ pc = "aggregate"

\* binary.scope_aggregation()?
ScopeAggregationCall ==
    /\ pc = "aggregate"
    /\ LET r == ScopeAggregation(binary)
       IN  IF r = Err THEN pc' = "failed" /\ UNCHANGED binary
                      ELSE pc' = "rearrange" /\ binary' = r.val
    /\ UNCHANGED << input, out >>

\* binary.rearrange()?
RearrangeCall ==
    /\ pc = "rearrange"
    /\ LET r == Rearrange(binary)
       IN  IF r = Err THEN pc' = "failed" /\ UNCHANGED out
                      ELSE pc' = "done" /\ out' = r.val
    /\ UNCHANGED << input, binary >>

Next == ScopeAggregationCall \/ RearrangeCall

Spec == Init /\ [][Next]_vars /\ WF_vars(Next)

-----------------------------------------------------------------------------
(***************************************************************************)
(* Range soundness (spec section 8, property 3) for conjunctions: every    *)
(* value of the column that satisfies all conjuncts lies in a range of the *)
(* list scope_aggregation and rearrange produce.  This is what lets an     *)
(* index scan skip values: it is about the Eq-dominance and the NotEq      *)
(* removal in _scope_aggregation and the bound tightening of               *)
(* bound_compared.                                                          *)
(***************************************************************************)
AndRangeSound ==
    (pc = "done" /\ input.tag = "And")
        => \A x \in Points : Admits(input, x) => ListAdmits(out, x)

(***************************************************************************)
(* Range soundness for disjunctions: every value satisfying some arm of    *)
(* the Or lies in a range that rearrange returns.                          *)
(***************************************************************************)
OrRangeSound ==
    (pc = "done" /\ input.tag = "Or")
        => \A x \in Points : Admits(input, x) => ListAdmits(out, x)

(***************************************************************************)
(* Sorted-disjoint cover (spec section 8, property 4): the Scopes rearrange *)
(* returns are sorted by lower bound and no value lies in two of them.  It *)
(* is about rearrange merging each item only against the last merged Scope *)
(* and the max-versus-min comparison of bound_compared.                    *)
(***************************************************************************)
RearrangeSortedDisjoint ==
    (pc = "done" /\ input.tag = "Or") =>
        \A i, j \in DOMAIN out :
            (i < j /\ out[i].tag = "Scope" /\ out[j].tag = "Scope") =>
                /\ BoundCompared(out[i].min, out[j].min, TRUE) # 1
                /\ ~\E x \in Points : Admits(out[i], x) /\ Admits(out[j], x)

\* Every normalisation ends: both calls are made and neither fails.
Terminates == <>(pc = "done")
=============================================================================
