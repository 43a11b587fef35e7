# TLA+ models of KipSQL's predicate simplification and range extraction

This directory models the expression simplification and range-extraction core of the
repository (`src/src/expression/simplify.rs`, with `eval_column` from
`src/src/expression/evaluator.rs`). It checks the models with TLC. The core is what
`spec.md` describes: a predicate is simplified so that a column stands alone on one
side of a comparison. It is then lowered to a `ConstantBinary` range for one column,
and the range is normalised for an index scan. Two small modules also cover the
measuring loop of the TPC-C driver (`src/tpcc/src/main.rs`).

## 1. Inventory

### Parts of the system and how they interact

| Part | Source | State | Operations |
|---|---|---|---|
| Values | `value_compute` (not in this repository) | immutable `DataValue`s | `binary_op`, `unary_op`, `partial_cmp` |
| Expression tree | `ScalarExpression` (not in this repository) | a tree owned by its caller, rewritten in place | — |
| Simplifier | `simplify.rs` 236–494 | the tree plus the `Option<Replace>` slot passed down the recursion | `simplify`, `_simplify`, `fix_expr`, `fix_unary`, `fix_binary`, `unpack_val`, `unpack_col` |
| Range builder | `simplify.rs` 500–621 | none (it reads the tree; `unpack_val` folds constants in it) | `convert_binary`, `new_binary` |
| Range algebra | `simplify.rs` 14–233 | a `ConstantBinary`, mutated by `scope_aggregation` and consumed by `rearrange` | `bound_compared`, `scope_aggregation`, `_scope_aggregation`, `rearrange` |
| Evaluator | `evaluator.rs` 15–73 | none | `eval_column` |
| TPC-C driver | `src/tpcc/src/main.rs` 139–261, 294–305 | success, late and failure counters; retry index; `round_count`; the RNG | main loop with retries, the constraint checks of the report, `other_ware` |
| Implementation rules | `optimizer/rule/implementation/*/*.rs` | the physical options collected for a group expression (in the memo, not here) | one `Pattern` and one `PhysicalOption` per rule |
| Binder, executor builder, serdes, limit, index types | the remaining files | plain constructors and dispatch | plan building, encoding |

The parts interact as a chain (spec.md section 2). The caller hands a predicate to
`simplify`. The simplified tree goes to `convert_binary(col_id)`, which returns a
`ConstantBinary` or `None` ("no constraint"). The range goes to `scope_aggregation`
(AND narrowing) and then to `rearrange` (OR merging), and the resulting list of ranges
is what an index scan reads. Everything is synchronous and single-threaded.

The difficulty is not concurrency. It lies in long chains of rewrites:

- a `Replace` published deep in the tree is applied by an ancestor;
- a unary operator is moved across a comparison and the tree is simplified again;
- ranges from both sides of a connective are combined by their shapes;
- the merge in `rearrange` compares each item only with the last `Scope` already merged.

A unit test checks one tree. The model checker checks every tree of a family against
a reference semantics.

### Properties of each part (spec.md section 8)

- **Simplifier:**
  - semantic preservation: `eval(simplify(e), t) = eval(e, t)` on every tuple;
  - idempotence.
- **Range builder and normalisers:**
  - range soundness: every value that makes the predicate true lies in the returned ranges;
  - for AND, soundness of the narrowing;
  - for OR, the returned Scopes are sorted and pairwise disjoint.

## 2. Modules

| Module | Models | Kind |
|---|---|---|
| `Values` | `DataValue`, `binary_op`, `unary_op`: exact rationals, typed NULL, SQL three-valued AND and OR, XOR that is NULL when either side is, a `TypeError` for mismatched types and for division by zero | operators, modelled from spec.md (that code is not here) |
| `ConstantBinary` | the `ConstantBinary` enum, `bound_compared`, `scope_aggregation` / `_scope_aggregation`, `rearrange`, and the reference semantics `Admits` / `ListAdmits` | operators |
| `Expr` | `ScalarExpression`, `eval_column`, `unpack_val`, `unpack_col`, the `Replace` protocol (`_simplify`, `fix_expr`, `fix_unary`, `fix_binary`), `convert_binary`, `new_binary` | operators, `RECURSIVE` |
| `RangeNormalizer` | a caller that calls `scope_aggregation` and then `rearrange` on any range `convert_binary` can return | state machine |
| `Pipeline` | the whole chain for one target column; its two normaliser actions are those of `RangeNormalizer` taken by `INSTANCE ... WITH` | state machine, composition |
| `RangeFilter` | the abstract promise of the lowering chain: one step that fails only on an ill-typed predicate, or hands the scan ranges covering every selected row | abstract specification |
| `ImplementationRules` | the six single-mapping implementation rules of the optimizer (pattern predicate and `PhysicalOption`), tried one by one on a group expression | state machine |
| `TpccLoop` | the measuring loop of the TPC-C driver: transaction type, retries, counters, commit, the `MaxRetry` abort; the report's mix and response-time checks as operators of the counters | state machine |
| `OtherWare` | `other_ware`: draws until the warehouse differs from the home one | state machine with fairness |
| `MC_Tpcc` | `TpccLoop` and `OtherWare` side by side (`Loop == INSTANCE TpccLoop`, `Ware == INSTANCE OtherWare`); a step is a step of one with the other's variables unchanged, and each keeps its fairness | composition for one run |
| `MC_RangeNormalizer`, `MC_Pipeline` | constants and input families for TLC | model-checking instances |

### How the modules correspond to the code

- **A function that takes `&mut self` becomes an operator that returns the rewritten
  tree with the function's result.**
  - `UnpackVal(e)` returns `[val, node]`: the folded value and the tree after
    `mem::replace` turned folded `Binary` nodes into constants.
  - The left child of a `Binary` is folded before the right one. The `?` returns
    before the right child is touched, so a failed fold can still have rewritten the
    left child.
- **`SimplifyNode(e, fix)` returns `[node, fix]`.**
  - `fix` is the `Option<Replace>` slot after the call.
  - A `Binary` calls `FixExpr(fix, l, r, op)` and then `FixExpr` on the swapped pair,
    exactly as `_simplify` passes `(right_expr, left_expr)` to its second `fix_expr`.
  - An arithmetic `Binary` with exactly one column side (`unpack_col(true)`) publishes
    a `BinaryFix`.
  - A `Unary` that does not fold publishes a `UnaryFix`.
  - `FixExpr` applies the published fix to whatever `Binary` encloses it. After a
    `fix_unary` it simplifies again.
- **`Combine` is the match on `(left_binary, right_binary)` in `convert_binary`**, arm
  for arm. The arm order matters: `(And, Or)` comes before `(And, leaf)`.
- **`XOR`'s `todo!()` is modelled as an error result:** the panic ends the chain
  with no ranges, which `RangeFilter` sees as a failure.
- **Ranges:**
  - `StableSort` models `sort_by` and `sorted_by_key`; both are stable.
  - `AggStep` is one iteration of the loop in `_scope_aggregation`.
  - `MergeStep` is one iteration of the merge loop in `rearrange`, with `k` the last
    `Scope` the reverse scan finds.
- **State machines.** In `RangeNormalizer` and `Pipeline` each action is one call, and
  the early `?` error returns go to `phase = "failed"`. Each action takes its function
  whole: `ConvertBinaryCall` either hands a range on or ends with "no constraint".

- **TPC-C driver.** The transaction bodies, `SeqGen` and the clock are not in this
  repository. A transaction attempt, the type `seq_gen.get()` picks, whether a
  success is on time, and whether `new_transaction()?` or `commit()?` fails are
  nondeterministic choices. `TpccLoop`'s `status` is the program counter of `main`:
  `loop` at the `while`, `attempt` at the top of the `for`, `after` behind it.
  `MaxRounds` bounds `round_count`; the loop may end at any `loop` state (`TimeUp`).
  In `OtherWare` a draw equal to `home_ware` is a step that changes nothing, as the
  loop iteration does. The report after the loop is a function of the counters:
  `ReportRounds` is `j`, `MixPercent(t)` is `((done / j) * 100.0).round()` written
  over the integers (half away from zero, as Rust's `round`; equal to the f64
  computation for every `j` below 40), `MixOk` and `RtOk` are the `[Ok]` verdicts. An
  f64 NaN (`j = 0`, or a type never done) fails every `>=`, so those verdicts are
  FALSE there.

- **Refinement.** `Pipeline` defines `RF == INSTANCE RangeFilter WITH pred <- orig,
  ranges <- AbstractRanges, state <- AbstractState`. Until `phase` is `done` or
  `failed` the abstract lowering is pending and has handed over no ranges; at `done`
  the ranges are `out`. The steps of `simplify`, `convert_binary` and
  `scope_aggregation` are stuttering steps of `RangeFilter`, and the step that ends the
  chain is its `Lower` or `Fail`.
- **Implementation rules.** A rule is a record of the operators its pattern predicate
  accepts and its `PhysicalOption`. The rules' `PatternChildrenPredicate::None` means
  the children are never tested. The memo and the `single_mapping!` macro are not in
  this repository: `Implement(r)` adds the rule's option to the group expression when
  the pattern matches, `NoMatch(r)` tries a rule that does not, in any order.

`PROJECT.json`'s `map` names the source lines of every definition. `Values` and the
`ScalarExpression` constructors are marked `spec_modelled`.

### Reference semantics used by the properties

- `Eval` is `eval_column`. Column values are looked up by id.
- `Admits(cb, x)` gives the values a range admits. A list returned by `rearrange` is
  the union of its items. An empty list, and `None` from `convert_binary`, place no
  constraint, because that is how `_scope_aggregation` reports an AND whose Scopes are
  all unbounded.

## 3. Runs

### `and_narrowing` (`RangeNormalizer.cfg`, pass)

- **Checks:** `TypeOK` and `AndRangeSound`.
- **Inputs:** every leaf `new_binary` builds over values 0..2, and every `And`/`Or` of
  2 or 3 such leaves.
- **Bounds:** three values let a point lie below, between and above the others. Three
  leaves let an Eq, a NotEq and a Scope meet in one call.
- **Result:** 36,990 states.

### `or_merge_sound` (violation of `OrRangeSound`)

`Or([Eq(0), Eq(1)])` becomes `[Eq(0)]`. When the lowest-sorted item is not a Scope,
`rearrange` drops everything after it.

### `or_merge_disjoint` (violation of `RearrangeSortedDisjoint`)

`Or([Scope(..<0), Scope(..<1)])` keeps both Scopes. `bound_compared(max, Unbounded,
false)` is `Less`.

### Scenario O1 (`RangeNormalizer_o1.cfg`, not a run)

- **Input:** spec scenario O1, given literally; TLC finds `OrRangeSound` violated.
- **Result:** the output the spec expects loses the values above 10 that `NotEq(8)`
  admits. The configuration stays beside the runs; it gave its slot among the twelve
  to `range_xor`, and the NotEq absorption it shows is a hazard in `PROJECT.json`
  covered by `OrRangeSound`.

### `pipeline` (`Pipeline.cfg`, pass)

- **Checks:**
  - `SimplifyPreservesSemantics` (on 42 tuples);
  - `SimplifyIdempotent`;
  - `ImplementsRangeFilter`, a `PROPERTY`: the chain refines `RangeFilter!SafetySpec`.
    It fails only on a predicate that fails to evaluate on some row, and at the end the
    ranges cover every row the predicate selects. This replaces the invariant
    `RangeSound`, which it implies.
- **Inputs:**
  - every comparison of `c0` with 0 or 2, in either operand order;
  - every comparison whose left side is `c0+1`, `c0-1`, `1-c0`, `-c0` or `-(c0+1)`,
    with or without an alias;
  - their conjunctions with range comparisons of `c0` or with comparisons of `c1`;
  - disjunctions of two range comparisons.
- **Tuples:** `c0` takes -1..4 or NULL. `c1` takes 0, 3 or NULL, which tells its two
  constants apart.
- **Result:** 118,800 states, about 100 s.
- **Fairness in the refinement.** TLC cannot evaluate `ENABLED` of an abstract action
  whose variables are mapped to expressions. So the run checks the safety part
  `Init /\ [][Next]_vars`. The termination that `RangeFilter`'s fairness promises is
  structural here (see section 4).

### Simplifier violations (`SimplifyPreservesSemantics`)

- **`simplify_column_right_plus`:** `1 + c0 = 0` becomes `c0 = 1 + 0`; `c0 = -1` satisfies the first and not the second.
- **`simplify_nested_arith`:** `(c0 + 1) + 1 > 0` becomes `c0 > 0 - (1 - 1)`, losing an addition.
- **`simplify_not_is_null`:** `NOT (c0 IS NULL)` becomes the constant NULL.

### Range builder violations (`RangeSound`, the invariant form of the refinement)

- **`range_not`:** `NOT (c0 > k)` gets the range of `c0 > k`.
- **`range_xor`** (`Pipeline_xor.cfg`, violation of `ImplementsRangeFilter`):
  `0 > c0 XOR 2 > c0` evaluates to a boolean or NULL on every row, yet after
  simplify `convert_binary` reaches the XOR `todo!()` and the chain stops. In
  `RangeFilter` only an ill-typed predicate may fail, and spec section 9 says the
  lowering returns errors and never panics.

`MC_Pipeline` also keeps three families for disagreements that spec.md itself
acknowledges or places outside its promise. Each breaks its property when a
`Pipeline` configuration sets `Inputs <-` to it, as `Pipeline_multiply.cfg`,
`Pipeline_or_other.cfg` and `Pipeline_or_of_or.cfg` do. They are hazards in `PROJECT.json`
rather than runs:

- `Multiplied` (`SimplifyPreservesSemantics`): a positive factor on the left of the
  column flips the comparison, and a negative factor on its right does not (spec
  open question 2, a known limitation).
- `OrOtherColumn` (`RangeSound`): `c0 > k OR c1 < m` keeps only the `c0` range (spec
  property 3 covers single-column predicates only).
- `OrOfOr` (`RangeSound`): two `Or` ranges are joined into an `And` (spec sections
  4.G and 9).

### `tpcc` (`MC_Tpcc.cfg`, pass)

The two TPC-C models in one run; they share no variable.

- **Checks:**
  - `TypeOK`: among others, the retry index stays in `0..max_retry`;
  - `RoundsCountedOnce`: the on-time and late counters together equal
    `round_count`, plus the round just counted and not yet closed;
  - `AbortAfterAllRetries`: `MaxRetry` is returned only after `max_retry + 1`
    failures of that transaction type were counted;
  - `OtherThanHome`: `other_ware`'s result is a valid warehouse other than the home
    one, unless `num_ware = 1`;
  - `Returns`: `other_ware`'s loop ends.
- **Bounds:** five transaction types, `max_retry = 2`, at most 3 rounds. A round can
  then fail twice and succeed, fail three times, or stop at a database error, and
  rounds of the same type accumulate in one counter. `num_ware` is 1 (the early
  return) or 3 (a draw of the home warehouse, then of another), with every home
  warehouse. Larger `num_ware` behave as 3 (an earlier separate run checked 3..10);
  here they multiply the product state space past the time a run may take.
- **Result:** 625,230 states, about 25 s.
- **`num_ware = 2`:** `OtherWare_two.cfg` shows TLC's counterexample to `Returns`.
  With `home_ware = 1`, `gen_range(1..2)` only draws 1, and the loop never ends.
  `other_ware` has no caller in this repository, so the livelock is latent. It is a
  hazard in `PROJECT.json` rather than one of the twelve runs.

### `tpcc_report_mix` (`TpccLoop_mix.cfg`, violation of `MixCheckHonest`)

- **Property:** when the loop has finished, the transaction-mix check prints `[Ok]`
  for a type only if that type's share of the completed transactions meets the bound
  printed next to it (`>=43.0%` for Payment, `>=4.0%` for the other three).
- **Bounds:** types 0 (New-Order) and 1 (Payment), no retry, at most 7 rounds. Any
  sequence `seq_gen.get()` may pick from those two types is one the driver can run.
- **Result:** after 4 New-Order and 3 Payment transactions the share is 42.86%, which
  `.round()` makes 43, so the report prints `Payment: 43.0% (>=43.0%) [Ok]`. The
  report rounds before it compares, so every share from 42.5% passes. The same holds
  for the 4% bounds from 3.5%.

### `impl_rules_truncate` (violation of `ImplementsOwnOperator`)

- **Property:** once every rule was tried, a logical operator that has a rule is
  implemented by exactly the physical option of the same name.
- **Result:** a `DropTable` group expression collects `{DropTable, Truncate}`.
  `TRUNCATE_PATTERN` tests `Operator::DropTable`, the same predicate as
  `DROP_TABLE_PATTERN`, so a `DROP TABLE` may be executed as a truncate, and a
  `Truncate` operator matches no rule at all.

Each property of a passing run has a mutant in `PROJECT.json`. The mutant is a
plausible bug in the mapped definition, and TLC finds the property violated under the
run's own configuration:

- `RearrangeNoAnd`: the `And` arm of `rearrange` is forgotten.
- `AggStepNotEqAsUpper`: a NotEq also narrows the upper bound.
- `FixBinaryNoFlip`: the comparison is not mirrored for `k - col`.
- `FixExprNoRecurse`: no second simplify after `fix_unary`.
- `NewBinaryNoFlip`: `is_flip` is ignored (it breaks the refinement).
- (The TPC-C mutants are checked under `MC_Tpcc.cfg`.)
- `AttemptFailsPastBound` and `AttemptFailsOffByOne`: the retry bound one too high or
  one too low.
- `EndRoundNoCount`: `round_count += 1` is forgotten.
- `DrawUnchecked`: a draw is returned without the test against `home_ware`.
- `ReturnHomeMissing`: the `num_ware == 1` early return is missing. `gen_range(1..1)`
  has no value to draw.

## 4. Fairness, deadlock, liveness

Each behaviour is one finite call chain, and it stops once the chain is done or a call
failed. The configurations therefore say `CHECK_DEADLOCK FALSE`.

`Spec` carries `WF_vars(Next)`. The chain is straight-line code, so each enabled call
is eventually made. The termination property is not in a run: with tens of thousands
of initial states, TLC's liveness checking costs far more than it shows. Termination
of each call is structural (every recursion descends the tree).

The TPC-C models stop too: the driver returns the report, `MaxRetry` or a database
error, and `other_ware` returns. Their configurations also say `CHECK_DEADLOCK FALSE`.
`OtherWare.Spec` has weak fairness on every draw, and `MC_Tpcc.Spec` keeps it (with the loop's `WF` on its own steps). A uniform random number generator
keeps drawing every value of the range, so a draw that stays possible is eventually
made. That is why `Returns` holds whenever some value of `1..num_ware` differs from
`home_ware`. With `num_ware = 2` and `home_ware = 1`, fairness does not help: the only
draw changes nothing, and TLC shows the behaviour stuttering for ever.

## 5. What is not modelled, and why

- **TypeCast and AggCall nodes.** Cast rules and aggregates are not in this repository.
  Divide appears only when `fix_binary` or `fix_unary` creates it.
- **NULL inside a range.** In the modelled inputs no NULL constant reaches a range. Spec
  open question 3 treats NULL-bearing ranges as opaque. The `partial_cmp` fallback to
  `Equal` is listed as a hazard.
- **Integer width.** Values are exact rationals. Int32 overflow when a constant moves
  across a comparison, and division by zero, depend on `value_compute`, which is not
  here. Both are listed as hazards with notes.
- **`IsNull` evaluation.** `evaluator.rs` reads an `IsNull { negated }` field that the
  `ScalarExpression` seen by `simplify.rs` does not have. The model follows
  `simplify.rs` (no negation).
- **Executor builder** (`execution_tp/executor/mod.rs`). `build` is a structural
  recursion that hands each `PhysicalPlan` node to an executor. The executors, and the
  `execution_ap` code that produces the plans, are not in this repository. So neither
  what the stream yields nor which variants reach the `todo!()` arm can be modelled.
  The `todo!()` is a hazard.
- **Serialization of `TrimWhereField`, the limit operator, the binder steps, the scalar
  function wrapper, index types and the Int8 evaluator.** These are constructors, a
  three-entry byte table, `Display` formatting, trait declarations and a macro
  invocation, with no state and no control flow beyond one match. A model would
  restate the match. The `unreachable!()` of `TrimWhereField::decode` on a foreign
  byte is a hazard.
- **The rest of the TPC-C report** (`main.rs` 206–214, 262–270): raw counts, the
  histogram report and TpmC only print; the histogram (`rt_hist`) is not in this
  repository. The constraint checks (216–261) are modelled.
- **Runs left out for the limit of twelve.** The NULL ordering in
  `_scope_aggregation` (an `Eq` list with a NULL constant sorted by `partial_cmp`
  with `Equal` as fallback comes out unsorted), and Int32 overflow
  would each need a run of its own: a property they break cannot sit in a passing
  run. They are listed as hazards with notes.

## 6. Plan

The modules are ordered by importance. Items 1–10 are done:

1. `ConstantBinary` and `RangeNormalizer`: the range algebra that index scans rely on.
2. `Expr`: the simplifier, the range builder and the evaluator.
3. `Pipeline`: the composition, with semantic preservation, idempotence and range
   soundness.
4. Violation runs for every disagreement found while modelling.
5. Mutants for every passing property.

6. `RangeFilter` and the refinement `Pipeline` ⇒ `RangeFilter`.
7. `TpccLoop` and `OtherWare` for the TPC-C driver.
8. `ImplementationRules`, exposing `TRUNCATE_PATTERN`.
9. The report's constraint checks, with the rounding finding; `MC_Tpcc` checks both
   TPC-C models in one run.
10. XOR in `Values` and the `range_xor` run on the XOR `todo!()`.

Still planned:

11. Passing families for `NOT` over a boolean
   column, and for `unpack_val`'s partial folding.
