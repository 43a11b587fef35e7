--------------------------- MODULE ConstantBinary ---------------------------
(***************************************************************************)
(* The range algebra of src/src/expression/simplify.rs: the enum           *)
(* ConstantBinary, bound_compared, scope_aggregation (AND narrowing) and   *)
(* rearrange (OR merging), as pure operators.  Range values are non-null   *)
(* numbers (NULL never reaches a range in the modelled inputs, see README), *)
(* so partial_cmp is total here and the sorts are well defined.            *)
(***************************************************************************)
EXTENDS Integers, Sequences, FiniteSets, Values
LOCAL INSTANCE SequencesExt

\* std::collections::Bound<ValueRef>
Unbounded   == [b |-> "Unbounded"]
Included(v) == [b |-> "Included", v |-> v]
Excluded(v) == [b |-> "Excluded", v |-> v]

\* The variants of ConstantBinary.
Scope(mn, mx) == [tag |-> "Scope", min |-> mn, max |-> mx]
Eq(v)         == [tag |-> "Eq", v |-> v]
NotEq(v)      == [tag |-> "NotEq", v |-> v]
And(xs)       == [tag |-> "And", items |-> xs]
Or(xs)        == [tag |-> "Or", items |-> xs]

(***************************************************************************)
(* bound_compared(left, right, is_min): Unbounded is the least bound when  *)
(* comparing minima and the greatest when comparing maxima; between an     *)
(* Included and an Excluded bound of equal value the tie is broken the     *)
(* same way (Ordering::then).                                              *)
(***************************************************************************)
BoundCompared(l, r, isMin) ==
    LET Orient(o) == IF isMin THEN o ELSE -o
        Tie == IF l.b = r.b THEN 0
               ELSE IF l.b = "Included" THEN Orient(-1) ELSE Orient(1)
    IN  CASE l.b = "Unbounded" /\ r.b = "Unbounded" -> 0
          [] l.b = "Unbounded" -> Orient(-1)
          [] r.b = "Unbounded" -> Orient(1)
          [] OTHER -> IF ValCmp(l.v, r.v) # 0 THEN ValCmp(l.v, r.v) ELSE Tie

(***************************************************************************)
(* A stable sort of xs, where before is the set of index pairs <<i, j>>    *)
(* such that xs[i] orders strictly before xs[j]: the position of x_i is    *)
(* one plus the number of elements strictly before it or tied with it and  *)
(* earlier in xs (Vec::sort_by and Itertools::sorted_by_key are stable).   *)
(***************************************************************************)
StableSort(xs, before) ==
    LET n == Len(xs)
        Pos(i) == 1 + Cardinality({j \in 1..n :
                        <<j, i>> \in before \/ (j < i /\ <<i, j>> \notin before)})
    IN  [p \in 1..n |-> xs[CHOOSE i \in 1..n : Pos(i) = p]]

-----------------------------------------------------------------------------
(***************************************************************************)
(* _scope_aggregation(binaries): visit the items ordered by kind (And/Or,  *)
(* Eq, NotEq, Scope); Eq inserts into eq_set, NotEq removes, a Scope is    *)
(* skipped once eq_set is non-empty and otherwise narrows scope_min and    *)
(* scope_max; a nested And/Or is an error.  The result replaces the list.  *)
(***************************************************************************)
KindKey(x) == CASE x.tag = "Scope" -> 3 [] x.tag = "NotEq" -> 2
                [] x.tag = "Eq" -> 1 [] OTHER -> 0

\* The pairs of positions of xs that sorted_by_key(sort_op) orders strictly.
KindBefore(xs) == {<<i, j>> \in (1..Len(xs)) \X (1..Len(xs)) : KindKey(xs[i]) < KindKey(xs[j])}

\* Variant of AggStep that also treats NotEq(v) as the upper bound Excluded(v).
AggStepNotEqAsUpper(acc, x) ==
    CASE acc = Err -> Err
      [] x.tag \in {"And", "Or"} -> Err
      [] x.tag = "Eq" -> [acc EXCEPT !.eqs = @ \cup {x.v}]
      [] x.tag = "NotEq" ->
           [acc EXCEPT !.eqs = @ \ {x.v},
              !.max = IF BoundCompared(@, Excluded(x.v), FALSE) = 1 THEN Excluded(x.v) ELSE @]
      [] acc.eqs # {} -> acc
      [] OTHER ->
           [acc EXCEPT
              !.min = IF BoundCompared(@, x.min, TRUE) = -1 THEN x.min ELSE @,
              !.max = IF BoundCompared(@, x.max, FALSE) = 1 THEN x.max ELSE @]

AggStep(acc, x) ==
    CASE acc = Err -> Err
      [] x.tag \in {"And", "Or"} -> Err
      [] x.tag = "Eq" -> [acc EXCEPT !.eqs = @ \cup {x.v}]
      [] x.tag = "NotEq" -> [acc EXCEPT !.eqs = @ \ {x.v}]
      [] acc.eqs # {} -> acc
      [] OTHER ->
           [acc EXCEPT
              !.min = IF BoundCompared(@, x.min, TRUE) = -1 THEN x.min ELSE @,
              !.max = IF BoundCompared(@, x.max, FALSE) = 1 THEN x.max ELSE @]

ScopeAggregationList(xs) ==
    LET sorted == StableSort(xs, KindBefore(xs))
        acc == FoldLeft(AggStep, [min |-> Unbounded, max |-> Unbounded,
                                  eqs |-> {}], sorted)
    IN  CASE acc = Err -> Err
          [] acc.eqs # {} ->
               Ok([i \in 1..Cardinality(acc.eqs) |->
                      Eq(SetToSortSeq(acc.eqs, ValLt)[i])])
          [] acc.min # Unbounded \/ acc.max # Unbounded ->
               Ok(<< Scope(acc.min, acc.max) >>)
          [] OTHER -> Ok(<< >>)

\* ConstantBinary::scope_aggregation: And is narrowed, every arm of an Or is
\* aggregated in turn (the first error aborts), any other variant is kept.
RECURSIVE ScopeAggregation(_)
ScopeAggregation(cb) ==
    CASE cb.tag = "And" ->
           LET r == ScopeAggregationList(cb.items)
           IN  IF r = Err THEN Err ELSE Ok(And(r.val))
      [] cb.tag = "Or" ->
           LET arms == [i \in DOMAIN cb.items |-> ScopeAggregation(cb.items[i])]
           IN  IF \E i \in DOMAIN arms : arms[i] = Err THEN Err
               ELSE Ok(Or([i \in DOMAIN arms |-> arms[i].val]))
      [] OTHER -> Ok(cb)

-----------------------------------------------------------------------------
(***************************************************************************)
(* rearrange: flatten the arms of an Or (splicing an And's items, dropping *)
(* the universal Scope, refusing a nested Or), sort by lower bound, then   *)
(* merge each item against the most recent Scope already merged.           *)
(***************************************************************************)
FlattenStep(acc, x) ==
    CASE acc = Err -> Err
      [] x.tag = "Or" -> Err
      [] x.tag = "And" -> Ok(acc.val \o x.items)
      [] x = Scope(Unbounded, Unbounded) -> acc
      [] OTHER -> Ok(Append(acc.val, x))

\* The bound an item is sorted by, and the (min, max) it is merged as.
SortBound(x) == CASE x.tag = "Scope" -> x.min
                  [] x.tag = "Eq" -> Included(x.v)
                  [] OTHER -> Excluded(x.v)
MergeSpan(x) == CASE x.tag = "Scope" -> << x.min, x.max >>
                  [] x.tag = "Eq" -> << Unbounded, Included(x.v) >>
                  [] OTHER -> << Unbounded, Excluded(x.v) >>

\* The pairs of positions of xs that sort_by orders strictly by lower bound.
MinBefore(xs) == {<<i, j>> \in (1..Len(xs)) \X (1..Len(xs)) :
                     BoundCompared(SortBound(xs[i]), SortBound(xs[j]), TRUE) = -1}

MergeStep(merged, c) ==
    LET scopes == {i \in DOMAIN merged : merged[i].tag = "Scope"}
        k == IF scopes = {} THEN 0 ELSE CHOOSE i \in scopes : \A j \in scopes : j <= i
        isLtMin == k > 0 /\ BoundCompared(merged[k].max, MergeSpan(c)[1], FALSE) = -1
        isLtMax == k > 0 /\ BoundCompared(merged[k].max, MergeSpan(c)[2], FALSE) = -1
    IN  CASE merged = << >> -> << c >>
          [] k = 0 -> merged
          [] ~isLtMin /\ isLtMax ->
               [merged EXCEPT ![k].max = MergeSpan(c)[2]]
          [] c.tag # "Scope" -> IF isLtMax THEN Append(merged, c) ELSE merged
          [] isLtMin /\ isLtMax -> Append(merged, c)
          [] OTHER -> merged

\* Variant of Rearrange without the And arm: an And is returned as one item.
RearrangeNoAnd(cb) ==
    CASE cb.tag = "Or" ->
           LET flat == FoldLeft(FlattenStep, Ok(<< >>), cb.items)
           IN  IF flat = Err THEN Err
               ELSE Ok(FoldLeft(MergeStep, << >>,
                         StableSort(flat.val, MinBefore(flat.val))))
      [] OTHER -> Ok(<< cb >>)

Rearrange(cb) ==
    CASE cb.tag = "Or" ->
           LET flat == FoldLeft(FlattenStep, Ok(<< >>), cb.items)
           IN  IF flat = Err THEN Err
               ELSE Ok(FoldLeft(MergeStep, << >>,
                         StableSort(flat.val, MinBefore(flat.val))))
      [] cb.tag = "And" -> Ok(cb.items)
      [] OTHER -> Ok(<< cb >>)

-----------------------------------------------------------------------------
(***************************************************************************)
(* Reference semantics (not code): the integers a range admits.  A         *)
(* rearranged list is a union of its items and an empty list places no     *)
(* constraint on the column; None from convert_binary likewise.            *)
(***************************************************************************)
AboveMin(x, mn) == CASE mn.b = "Unbounded" -> TRUE
                     [] mn.b = "Included" -> ValCmp(x, mn.v) >= 0
                     [] OTHER -> ValCmp(x, mn.v) = 1
BelowMax(x, mx) == CASE mx.b = "Unbounded" -> TRUE
                     [] mx.b = "Included" -> ValCmp(x, mx.v) <= 0
                     [] OTHER -> ValCmp(x, mx.v) = -1

RECURSIVE Admits(_, _)
Admits(cb, x) ==
    CASE cb.tag = "Scope" -> AboveMin(x, cb.min) /\ BelowMax(x, cb.max)
      [] cb.tag = "Eq" -> x = cb.v
      [] cb.tag = "NotEq" -> x # cb.v
      [] cb.tag = "And" -> \A i \in DOMAIN cb.items : Admits(cb.items[i], x)
      [] OTHER -> \E i \in DOMAIN cb.items : Admits(cb.items[i], x)

\* The points a rearranged list of ranges selects.
ListAdmits(list, x) == list = << >> \/ \E i \in DOMAIN list : Admits(list[i], x)
=============================================================================
