------------------------------ MODULE MC_Pipeline ------------------------------
(***************************************************************************)
(* Instances of Pipeline for TLC: two integer columns c0 (the target) and *)
(* c1, each holding -1..4 or NULL, and families of predicates built from   *)
(* the shapes simplify rewrites.                                           *)
(***************************************************************************)
EXTENDS Pipeline

c0 == ColRef(0)
c1 == ColRef(1)
K(i) == Const(Num(i))

MCColumns == {0, 1}
MCTarget == 0
MCColumnValues == {Num(i) : i \in -1..4} \cup {NullOf("Num")}
\* c1 only meets the constants 0 and 2, so three of its values tell all cases apart.
MCTuples == {t \in [MCColumns -> MCColumnValues] : t[1] \in {Num(0), Num(3), NullOf("Num")}}

RangeCmps == {"Gt", "GtEq", "Lt", "LtEq"}
Rhs == {0, 2}

\* c0 cmp k and k cmp c0.
Plain(cmps) == {Binary(op, c0, K(m)) : op \in cmps, m \in Rhs}
                 \cup {Binary(op, K(m), c0) : op \in cmps, m \in Rhs}

\* The shapes simplify rewrites correctly: c0 + 1, c0 - 1, 1 - c0, -c0 and
\* -(c0 + 1) on the left of a comparison, under an alias or not.
Shifted(cmps) ==
    LET lhs == {Binary("Plus", c0, K(1)), Binary("Minus", c0, K(1)),
                Binary("Minus", K(1), c0), Unary("Minus", c0),
                Unary("Minus", Binary("Plus", c0, K(1)))}
    IN  {Binary(op, l, K(m)) : op \in cmps, l \in lhs \cup {Alias(x) : x \in lhs}, m \in Rhs}

Atoms == Plain(CompareOps) \cup Shifted(CompareOps)
ScopeAtoms == Plain(RangeCmps) \cup Shifted(RangeCmps)
OtherColumn == {Binary(op, c1, K(m)) : op \in {"Lt", "Eq"}, m \in Rhs}

\* Single comparisons, conjunctions (also with the other column) and
\* disjunctions of two range comparisons.
SoundInputs ==
    Atoms
    \cup {Binary("And", a, b) : a \in Atoms, b \in ScopeAtoms \cup OtherColumn}
    \cup {Binary("Or", a, b) : a, b \in ScopeAtoms}

\* k + c0 cmp m: the column on the right of a Plus.
ColumnRightPlus == {Binary(op, Binary("Plus", K(1), c0), K(m)) : op \in CompareOps, m \in Rhs}

\* k * c0 cmp m and c0 * k cmp m for a positive and a negative factor.
Multiplied == {Binary(op, Binary("Multiply", K(k), c0), K(2)) : op \in RangeCmps, k \in {2, -1}}
                \cup {Binary(op, Binary("Multiply", c0, K(k)), K(2)) : op \in RangeCmps, k \in {2, -1}}

\* (c0 + 1) + 1 cmp m: an addition over an addition of the column.
NestedArith == {Binary(op, Binary("Plus", Binary("Plus", c0, K(1)), K(1)), K(m)) :
                   op \in RangeCmps, m \in Rhs}

\* NOT (c0 IS NULL) and the like.
NullTests == {Unary("Not", IsNull(x)) : x \in {c0, Binary("Plus", c0, K(1))}}
               \cup {IsNull(c0)}

\* Connectives convert_binary does not follow: OR with another column, NOT.
OrOtherColumn == {Binary("Or", a, b) : a \in Plain(RangeCmps), b \in OtherColumn}
Negated == {Unary("Not", a) : a \in Plain(CompareOps)}
OrOfOr == {Binary("Or", Binary("Or", a, b), Binary("Or", a, b)) :
             a, b \in Plain({"Gt", "Lt"})}

\* c0 > k XOR c0 < m: both sides are ranges and the connective is XOR.
Xored == {Binary("Xor", a, b) : a, b \in Plain({"Gt", "Lt"})}
=============================================================================
