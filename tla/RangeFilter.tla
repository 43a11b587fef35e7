------------------------------ MODULE RangeFilter ------------------------------
(***************************************************************************)
(* What predicate lowering promises the index scan that reads its result  *)
(* (spec.md sections 7 and 8): in one step it either fails, and then only *)
(* on a predicate that is ill-typed (it fails to evaluate on some row), or *)
(* it returns a list of ranges of the target column that holds the value  *)
(* of every row on which the predicate is TRUE.  An empty list places no  *)
(* constraint.  Pipeline, which takes the chain call by call, implements   *)
(* this specification under a refinement mapping (Pipeline.tla).           *)
(***************************************************************************)
EXTENDS Expr

CONSTANTS
    Tuples,     \* the rows the predicate is evaluated on
    Target      \* the column the ranges constrain

VARIABLES
    pred,       \* the predicate as the caller built it (any predicate)
    ranges,     \* the ranges handed to the index scan
    state       \* "pending", "done" or "failed"

vars == << pred, ranges, state >>

\* Every non-NULL target value of a row selected by p lies in rs.
Covers(p, rs) ==
    \A t \in Tuples :
        (~t[Target].null /\ Eval(p, t) = Ok(Bool(TRUE))) => ListAdmits(rs, t[Target])

IllTyped(p) == \E t \in Tuples : Eval(p, t) = Err

Init ==
    /\ ranges = << >>
    /\ state = "pending"

Lower ==
    /\ state = "pending"
    /\ state' = "done"
    /\ Covers(pred, ranges')
    /\ UNCHANGED pred

Fail ==
    /\ state = "pending" /\ IllTyped(pred)
    /\ state' = "failed"
    /\ UNCHANGED << pred, ranges >>

Next == Lower \/ Fail

SafetySpec == Init /\ [][Next]_vars

Spec == SafetySpec /\ WF_vars(Next)

\* What the fairness of Spec brings about: the lowering is not pending for ever.
Ends == <>(state # "pending")
=============================================================================
