-------------------------------- MODULE Expr --------------------------------
(***************************************************************************)
(* ScalarExpression and the tree functions of src/src/expression:          *)
(* eval_column (evaluator.rs), unpack_val, unpack_col, simplify with its   *)
(* Replace protocol (_simplify, fix_expr, fix_unary, fix_binary) and       *)
(* convert_binary / new_binary (simplify.rs).  Each Rust function that     *)
(* takes &mut self is an operator returning the rewritten tree with its    *)
(* result.  The LogicalType fields are carried by the code but never read  *)
(* by these functions, so they are left out; TypeCast and AggCall are not  *)
(* in the modelled inputs (see README).                                    *)
(***************************************************************************)
EXTENDS Integers, Sequences, ConstantBinary

\* The variants of ScalarExpression.
Const(v)         == [k |-> "Const", v |-> v]
ColRef(id)       == [k |-> "Col", id |-> id]
Alias(e)         == [k |-> "Alias", e |-> e]
IsNull(e)        == [k |-> "IsNull", e |-> e]
Unary(op, e)     == [k |-> "Unary", op |-> op, e |-> e]
Binary(op, l, r) == [k |-> "Binary", op |-> op, l |-> l, r |-> r]

\* Option<ValueRef> / Option<ColumnRef>.
Some(x) == [has |-> TRUE, val |-> x]
None    == [has |-> FALSE]

(***************************************************************************)
(* eval_column(tuple): a tuple maps column ids to values.  The lookup of   *)
(* the expression's own output name in the tuple only ever hits for a     *)
(* ColumnRef here, since no tuple column is named after an alias or a     *)
(* compound expression.                                                    *)
(***************************************************************************)
RECURSIVE Eval(_, _)
Eval(e, t) ==
    CASE e.k = "Const" -> Ok(e.v)
      [] e.k = "Col" -> Ok(t[e.id])
      [] e.k = "Alias" -> Eval(e.e, t)
      [] e.k = "Binary" ->
           LET l == Eval(e.l, t)
               r == Eval(e.r, t)
           IN  IF l = Err THEN Err ELSE IF r = Err THEN Err
               ELSE BinaryOp(l.val, r.val, e.op)
      [] e.k = "IsNull" ->
           LET v == Eval(e.e, t)
           IN  IF v = Err THEN Err ELSE Ok(Bool(v.val.null))
      [] e.k = "Unary" ->
           LET v == Eval(e.e, t)
           IN  IF v = Err THEN Err ELSE UnaryOp(v.val, e.op)

-----------------------------------------------------------------------------
(***************************************************************************)
(* unpack_val: fold a ground subtree to a value.  A Binary that folds is   *)
(* replaced in place by Constant(result), so the tree comes back too; a   *)
(* failed fold of the left operand returns before the right is visited.   *)
(***************************************************************************)
RECURSIVE UnpackVal(_)
UnpackVal(e) ==
    CASE e.k = "Const" -> [val |-> Some(e.v), node |-> e]
      [] e.k = "Alias" ->
           LET u == UnpackVal(e.e) IN [val |-> u.val, node |-> Alias(u.node)]
      [] e.k = "IsNull" ->
           LET u == UnpackVal(e.e)
           IN  [val |-> Some(IF u.val.has THEN Bool(u.val.val.null)
                                          ELSE NullOf("Bool")),
                node |-> IsNull(u.node)]
      [] e.k = "Unary" ->
           LET u == UnpackVal(e.e)
               r == IF u.val.has THEN UnaryOp(u.val.val, e.op) ELSE Err
           IN  [val |-> IF r = Err THEN None ELSE Some(r.val),
                node |-> Unary(e.op, u.node)]
      [] e.k = "Binary" ->
           LET ul == UnpackVal(e.l)
               ur == UnpackVal(e.r)
               r  == IF ul.val.has /\ ur.val.has
                     THEN BinaryOp(ul.val.val, ur.val.val, e.op) ELSE Err
           IN  CASE ~ul.val.has -> [val |-> None, node |-> Binary(e.op, ul.node, e.r)]
                 [] r = Err -> [val |-> None, node |-> Binary(e.op, ul.node, ur.node)]
                 [] OTHER -> [val |-> Some(r.val), node |-> Const(r.val)]
      [] OTHER -> [val |-> None, node |-> e]

\* unpack_col(is_binary_then_return): the one column of a subtree.
RECURSIVE UnpackCol(_, _)
UnpackCol(e, strict) ==
    CASE e.k = "Col" -> Some(e.id)
      [] e.k \in {"Alias", "Unary"} -> UnpackCol(e.e, strict)
      [] e.k = "Binary" /\ ~strict ->
           LET l == UnpackCol(e.l, strict)
               r == UnpackCol(e.r, strict)
           IN  IF l.has # r.has THEN (IF l.has THEN l ELSE r) ELSE None
      [] OTHER -> None

-----------------------------------------------------------------------------
(***************************************************************************)
(* The Replace a child publishes for its parent: none, a Binary (column    *)
(* arithmetic to absorb) or a Unary (prefix operator to move across).      *)
(***************************************************************************)
NoFix == [kind |-> "None"]
BinaryFix(col, val, op, isColumnLeft) ==
    [kind |-> "Binary", col |-> col, val |-> val, op |-> op, left |-> isColumnLeft]
UnaryFix(child, op) == [kind |-> "Unary", child |-> child, op |-> op]

ComparisonFlip(op) ==
    CASE op = "Gt" -> "Lt" [] op = "Lt" -> "Gt"
      [] op = "GtEq" -> "LtEq" [] op = "LtEq" -> "GtEq"
      [] OTHER -> op
OpFlip(op) ==
    CASE op = "Plus" -> "Minus" [] op = "Minus" -> "Plus"
      [] op = "Multiply" -> "Divide" [] op = "Divide" -> "Multiply"

(***************************************************************************)
(* fix_unary: the column side becomes the operand of the prefix operator,  *)
(* the other side is wrapped in that operator, and the parent's operator  *)
(* is mirrored for Minus (arithmetic and order) and Not (order only).     *)
(***************************************************************************)
FixUnary(f, val, op) ==
    [l  |-> f.child,
     r  |-> Unary(f.op, val),
     op |-> CASE f.op = "Minus" /\ op \in ArithOps -> OpFlip(op)
              [] f.op \in {"Minus", "Not"} -> ComparisonFlip(op)
              [] OTHER -> op]

\* Variant of FixBinary that never mirrors the comparison (k - col cmp rhs).
FixBinaryNoFlip(f, val, op) ==
    [l  |-> f.col,
     r  |-> IF f.left THEN Binary(OpFlip(f.op), val, f.val)
                      ELSE Binary(f.op, f.val, val),
     op |-> op]

(***************************************************************************)
(* fix_binary: the column side becomes the bare column; for col (+) k the  *)
(* other side becomes rhs flip(+) k, for k (+) col it becomes k (+) rhs    *)
(* and the comparison is mirrored when (+) is - or *.                      *)
(***************************************************************************)
FixBinary(f, val, op) ==
    [l  |-> f.col,
     r  |-> IF f.left THEN Binary(OpFlip(f.op), val, f.val)
                      ELSE Binary(f.op, f.val, val),
     op |-> IF ~f.left /\ f.op \in {"Minus", "Multiply"}
            THEN ComparisonFlip(op) ELSE op]

(***************************************************************************)
(* _simplify(node, fix) and fix_expr(fix, left, right, op), mutually       *)
(* recursive.  fix_expr simplifies one side, takes the Replace it          *)
(* published and applies it to (side, other side, op) of the enclosing    *)
(* Binary, whatever that Binary's operator is; after a Unary it simplifies *)
(* the new side again.                                                     *)
(***************************************************************************)
RECURSIVE SimplifyNode(_, _), FixExpr(_, _, _, _), FixExprNoRecurse(_, _, _, _)
SimplifyNode(e, fix) ==
    CASE e.k = "Binary" ->
           LET a == FixExpr(fix, e.l, e.r, e.op)
               b == IF a = Err THEN Err ELSE FixExpr(a.fix, a.r, a.l, a.op)
           IN  IF b = Err THEN Err ELSE
               LET l == b.r
                   r == b.l
                   cl == UnpackCol(l, TRUE)
                   cr == UnpackCol(r, TRUE)
               IN  [node |-> Binary(b.op, l, r),
                    fix  |-> CASE b.op \in ArithOps /\ cl.has /\ ~cr.has ->
                                    BinaryFix(ColRef(cl.val), r, b.op, TRUE)
                               [] b.op \in ArithOps /\ ~cl.has /\ cr.has ->
                                    BinaryFix(ColRef(cr.val), l, b.op, FALSE)
                               [] OTHER -> b.fix]
      [] e.k = "Alias" ->
           LET s == SimplifyNode(e.e, fix)
           IN  IF s = Err THEN Err ELSE [node |-> Alias(s.node), fix |-> s.fix]
      [] e.k = "IsNull" ->
           LET u == UnpackVal(e.e)
           IN  [node |-> IF u.val.has THEN Const(Bool(u.val.val.null))
                         ELSE IsNull(u.node),
                fix  |-> fix]
      [] e.k = "Unary" ->
           LET u == UnpackVal(e.e)
               r == IF u.val.has THEN UnaryOp(u.val.val, e.op) ELSE Err
           IN  CASE ~u.val.has ->
                      [node |-> Unary(e.op, u.node), fix |-> UnaryFix(u.node, e.op)]
                 [] r = Err -> Err
                 [] OTHER -> [node |-> Const(r.val), fix |-> fix]
      [] OTHER -> [node |-> e, fix |-> fix]

\* Variant of FixExpr that does not simplify again after fix_unary.
FixExprNoRecurse(fix, l, r, op) ==
    LET s == SimplifyNode(l, fix)
    IN  CASE s = Err -> Err
          [] s.fix.kind = "None" -> [fix |-> NoFix, l |-> s.node, r |-> r, op |-> op]
          [] s.fix.kind = "Binary" ->
               LET f == FixBinary(s.fix, r, op)
               IN  [fix |-> NoFix, l |-> f.l, r |-> f.r, op |-> f.op]
          [] OTHER ->
               LET f == FixUnary(s.fix, r, op)
               IN  [fix |-> NoFix, l |-> f.l, r |-> f.r, op |-> f.op]

FixExpr(fix, l, r, op) ==
    LET s == SimplifyNode(l, fix)
    IN  CASE s = Err -> Err
          [] s.fix.kind = "None" -> [fix |-> NoFix, l |-> s.node, r |-> r, op |-> op]
          [] s.fix.kind = "Binary" ->
               LET f == FixBinary(s.fix, r, op)
               IN  [fix |-> NoFix, l |-> f.l, r |-> f.r, op |-> f.op]
          [] OTHER ->
               LET f == FixUnary(s.fix, r, op)
               IN  FixExpr(NoFix, f.l, f.r, f.op)

\* simplify(): Ok(rewritten tree) or Err; a Replace left at the root is dropped.
Simplify(e) == LET s == SimplifyNode(e, NoFix)
               IN  IF s = Err THEN Err ELSE Ok(s.node)

-----------------------------------------------------------------------------
\* Variant of NewBinary that ignores is_flip (k cmp col read as col cmp k).
NewBinaryNoFlip(colId, op, col, val, isFlip) ==
    CASE col # colId -> None
      [] op = "Gt"   -> Some(Scope(Excluded(val), Unbounded))
      [] op = "Lt"   -> Some(Scope(Unbounded, Excluded(val)))
      [] op = "GtEq" -> Some(Scope(Included(val), Unbounded))
      [] op = "LtEq" -> Some(Scope(Unbounded, Included(val)))
      [] op = "Eq"   -> Some(Eq(val))
      [] op = "NotEq" -> Some(NotEq(val))
      [] OTHER -> None

(***************************************************************************)
(* new_binary: the range of `col op val` for the target column (op already *)
(* mirrored when the column stood on the right); None for another column  *)
(* or an operator that is not a comparison.                                *)
(***************************************************************************)
NewBinary(colId, op, col, val, isFlip) ==
    LET o == IF isFlip THEN ComparisonFlip(op) ELSE op
    IN  CASE col # colId -> None
          [] o = "Gt"   -> Some(Scope(Excluded(val), Unbounded))
          [] o = "Lt"   -> Some(Scope(Unbounded, Excluded(val)))
          [] o = "GtEq" -> Some(Scope(Included(val), Unbounded))
          [] o = "LtEq" -> Some(Scope(Unbounded, Included(val)))
          [] o = "Eq"   -> Some(Eq(val))
          [] o = "NotEq" -> Some(NotEq(val))
          [] OTHER -> None

(***************************************************************************)
(* convert_binary(col_id): both sides are converted first; two ranges are *)
(* combined by their shapes (And/Or lists are concatenated) and only two  *)
(* leaves look at the operator; a side without a range is ignored; with   *)
(* no range on either side the Binary itself may be a leaf `col op val`.  *)
(* Alias, IsNull and Unary are transparent.  XOR of two leaves is todo!() *)
(* in the code, a panic, modelled as an error.                             *)
(***************************************************************************)
Combine(lb, rb, op) ==
    CASE lb.tag = rb.tag /\ lb.tag \in {"And", "Or"} -> Ok(Some(And(lb.items \o rb.items)))
      [] lb.tag = "And" /\ rb.tag = "Or" -> Ok(Some(Or(rb.items \o lb.items)))
      [] lb.tag = "Or" /\ rb.tag = "And" -> Ok(Some(Or(lb.items \o rb.items)))
      [] lb.tag = "And" -> Ok(Some(And(Append(lb.items, rb))))
      [] rb.tag = "And" -> Ok(Some(And(Append(rb.items, lb))))
      [] lb.tag = "Or" -> Ok(Some(Or(Append(lb.items, rb))))
      [] rb.tag = "Or" -> Ok(Some(Or(Append(rb.items, lb))))
      [] op = "And" -> Ok(Some(And(<< lb, rb >>)))
      [] op = "Or" -> Ok(Some(Or(<< lb, rb >>)))
      [] op = "Xor" -> Err
      [] OTHER -> Ok(None)

RECURSIVE ConvertBinary(_, _)
ConvertBinary(e, colId) ==
    CASE e.k = "Binary" ->
           LET lr == ConvertBinary(e.l, colId)
               rr == IF lr = Err THEN Err ELSE ConvertBinary(e.r, colId)
           IN  CASE rr = Err -> Err
                 [] lr.val.has /\ rr.val.has -> Combine(lr.val.val, rr.val.val, e.op)
                 [] lr.val.has -> lr
                 [] rr.val.has -> rr
                 [] OTHER ->
                      LET lc == UnpackCol(e.l, FALSE)
                          rv == UnpackVal(e.r)
                          lv == UnpackVal(e.l)
                          rc == UnpackCol(e.r, FALSE)
                      IN  CASE lc.has /\ rv.val.has ->
                                 Ok(NewBinary(colId, e.op, lc.val, rv.val.val, FALSE))
                            [] lv.val.has /\ rc.has ->
                                 Ok(NewBinary(colId, e.op, rc.val, lv.val.val, TRUE))
                            [] OTHER -> Ok(None)
      [] e.k \in {"Alias", "IsNull", "Unary"} -> ConvertBinary(e.e, colId)
      [] OTHER -> Ok(None)
=============================================================================
