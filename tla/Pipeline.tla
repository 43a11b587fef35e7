------------------------------- MODULE Pipeline -------------------------------
(***************************************************************************)
(* Predicate lowering for one target column, in the order spec.md section  *)
(* 2 gives the data flow: simplify rewrites the predicate in place,        *)
(* convert_binary lowers it to a ConstantBinary (or None: no constraint),  *)
(* and the normaliser calls scope_aggregation then rearrange.  The two     *)
(* normaliser calls are the actions of RangeNormalizer, instantiated with  *)
(* this module's variables.                                                *)
(***************************************************************************)
EXTENDS Integers, Sequences, FiniteSets, Expr

CONSTANTS
    Inputs,         \* the predicates the caller may hand to simplify
    Columns,        \* the column ids a tuple carries
    ColumnValues,   \* the values a column of a tuple may hold
    Target          \* the col_id passed to convert_binary

ASSUME Target \in Columns

VARIABLES
    orig,       \* the predicate as the caller built it (never changes)
    expr,       \* the ScalarExpression that simplify rewrites in place
    range,      \* the ConstantBinary returned by convert_binary
    out,        \* the Vec<ConstantBinary> returned by rearrange
    phase       \* which call is made next

vars == << orig, expr, range, out, phase >>

Tuples == [Columns -> ColumnValues]

RN == INSTANCE RangeNormalizer
        WITH input <- orig, binary <- range, pc <- phase,
             Vals <- {}, MaxLen <- 2, LeafKinds <- {}

Init ==
    /\ orig \in Inputs
    /\ expr = orig
    /\ range = None
    /\ out = << >>
    /\ phase = "simplify"

\* expr.simplify()?
SimplifyCall ==
    /\ phase = "simplify"
    /\ LET r == Simplify(expr)
       IN  IF r = Err THEN phase' = "failed" /\ UNCHANGED expr
                      ELSE phase' = "convert" /\ expr' = r.val
    /\ UNCHANGED << orig, range, out >>

\* expr.convert_binary(&col_id)?: a range goes to the normaliser, None
\* leaves the column unconstrained.
ConvertBinaryCall ==
    /\ phase = "convert"
    /\ LET r == ConvertBinary(expr, Target)
       IN  CASE r = Err -> phase' = "failed" /\ UNCHANGED range
             [] r.val.has -> phase' = "aggregate" /\ range' = r.val.val
             [] OTHER -> phase' = "done" /\ UNCHANGED range
    /\ UNCHANGED << orig, expr, out >>

ScopeAggregationCall == RN!ScopeAggregationCall /\ UNCHANGED expr

RearrangeCall == RN!RearrangeCall /\ UNCHANGED expr

Next == SimplifyCall \/ ConvertBinaryCall \/ ScopeAggregationCall \/ RearrangeCall

Spec == Init /\ [][Next]_vars /\ WF_vars(Next)

-----------------------------------------------------------------------------
\* The state in which simplify has just returned (expr is never changed later).
Simplified == phase = "convert"

(***************************************************************************)
(* Semantic preservation (spec.md section 8, property 1): on every tuple   *)
(* the predicate simplify produced evaluates (eval_column) to what the     *)
(* original evaluated to, errors included.  It is about the operand moves  *)
(* of fix_binary and fix_unary, the operator they leave on the comparison *)
(* and the constant folding of unpack_val and _simplify.                  *)
(***************************************************************************)
SimplifyPreservesSemantics ==
    Simplified => \A t \in Tuples : Eval(expr, t) = Eval(orig, t)

(***************************************************************************)
(* Idempotence (spec.md section 8, property 2): simplifying the result of  *)
(* simplify again changes nothing, i.e. _simplify leaves no Replace that   *)
(* a second pass would still apply.                                        *)
(***************************************************************************)
SimplifyIdempotent ==
    Simplified => Simplify(expr) = Ok(expr)

(***************************************************************************)
(* The refinement mapping: until the chain is done or failed the abstract  *)
(* lowering is pending and has handed no ranges to the scan; the ranges   *)
(* it hands over are the list rearrange returned (or none, for "no        *)
(* constraint").                                                           *)
(***************************************************************************)
AbstractState == CASE phase = "done"   -> "done"
                   [] phase = "failed" -> "failed"
                   [] OTHER            -> "pending"

AbstractRanges == IF phase = "done" THEN out ELSE << >>

RF == INSTANCE RangeFilter
        WITH pred <- orig, ranges <- AbstractRanges, state <- AbstractState

(***************************************************************************)
(* The chain of simplify, convert_binary, scope_aggregation and rearrange *)
(* implements RangeFilter: it ends, it fails only with a TypeError on an  *)
(* ill-typed predicate (never on one that evaluates, as XOR's todo!() or  *)
(* a constant moved into a division by zero would), and the ranges it     *)
(* returns cover every row the predicate selects.                         *)
(***************************************************************************)
ImplementsRangeFilter == RF!SafetySpec

(***************************************************************************)
(* Range soundness (spec.md section 8, property 3): every tuple on which   *)
(* the original predicate is TRUE has its target value inside the ranges  *)
(* the whole chain returns, so an index scan over them misses no row.     *)
(* NULL column values are left out: they never satisfy a range.           *)
(***************************************************************************)
RangeSound ==
    phase = "done" =>
        \A t \in Tuples :
            (~t[Target].null /\ Eval(orig, t) = Ok(Bool(TRUE))) => ListAdmits(out, t[Target])
=============================================================================
