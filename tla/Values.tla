------------------------------- MODULE Values -------------------------------
(***************************************************************************)
(* DataValue and the operators binary_op / unary_op of                     *)
(* crate::expression::value_compute.  That file is not in this snapshot of *)
(* the repository, so these definitions follow spec.md sections 3 and 4.A: *)
(* typed values with NULL, SQL three-valued logic, comparison with NULL is *)
(* NULL, and a TypeError for operands of incompatible types.  Numbers are  *)
(* exact rationals (the spec makes floating-point exactness a non-goal);   *)
(* every value is one record shape so that TLC can compare any two.        *)
(***************************************************************************)
EXTENDS Integers

LOCAL Abs(x) == IF x < 0 THEN -x ELSE x
RECURSIVE Gcd(_, _)
Gcd(a, b) == IF b = 0 THEN Abs(a) ELSE Gcd(b, a % b)

\* A non-null number n / d in lowest terms, d > 0.
Frac(n, d) ==
    LET s == IF d < 0 THEN -1 ELSE 1
        g == Gcd(Abs(n), Abs(d))
    IN  [ty |-> "Num", null |-> FALSE, n |-> (s * n) \div g, d |-> Abs(d) \div g]
Num(n)     == [ty |-> "Num", null |-> FALSE, n |-> n, d |-> 1]
Bool(b)    == [ty |-> "Bool", null |-> FALSE, n |-> IF b THEN 1 ELSE 0, d |-> 1]
NullOf(ty) == [ty |-> ty, null |-> TRUE, n |-> 0, d |-> 1]

IsTrue(v)  == v = Bool(TRUE)

\* partial_cmp of two non-null values of one type: -1, 0 or 1.
ValCmp(a, b) == LET x == a.n * b.d
                    y == b.n * a.d
                IN  IF x < y THEN -1 ELSE IF x = y THEN 0 ELSE 1
ValLt(a, b) == ValCmp(a, b) = -1

\* The result of a call that returns Result<_, TypeError>.
Ok(x) == [ok |-> TRUE, val |-> x]
Err   == [ok |-> FALSE, err |-> "TypeError"]

ArithOps   == {"Plus", "Minus", "Multiply", "Divide"}
CompareOps == {"Gt", "GtEq", "Lt", "LtEq", "Eq", "NotEq"}
LogicOps   == {"And", "Or"}

(***************************************************************************)
(* binary_op(left, right, op).  Division by zero is a TypeError here (the  *)
(* floating-point infinities are out of the model).                        *)
(***************************************************************************)
BinaryOp(l, r, op) ==
    CASE op \in ArithOps ->
           IF l.ty # "Num" \/ r.ty # "Num" THEN Err
           ELSE IF l.null \/ r.null THEN Ok(NullOf("Num"))
           ELSE CASE op = "Plus"     -> Ok(Frac(l.n * r.d + r.n * l.d, l.d * r.d))
                  [] op = "Minus"    -> Ok(Frac(l.n * r.d - r.n * l.d, l.d * r.d))
                  [] op = "Multiply" -> Ok(Frac(l.n * r.n, l.d * r.d))
                  [] r.n = 0         -> Err
                  [] OTHER           -> Ok(Frac(l.n * r.d, l.d * r.n))
      [] op \in CompareOps ->
           IF l.ty # r.ty THEN Err
           ELSE IF l.null \/ r.null THEN Ok(NullOf("Bool"))
           ELSE LET c == ValCmp(l, r)
                IN  Ok(Bool(CASE op = "Gt" -> c = 1 [] op = "GtEq" -> c >= 0
                              [] op = "Lt" -> c = -1 [] op = "LtEq" -> c <= 0
                              [] op = "Eq" -> c = 0 [] OTHER -> c # 0))
      [] op \in LogicOps ->
           IF l.ty # "Bool" \/ r.ty # "Bool" THEN Err
           ELSE LET dominant == Bool(op = "Or")  \* FALSE for AND, TRUE for OR
                IN  IF l = dominant \/ r = dominant THEN Ok(dominant)
                    ELSE IF l.null \/ r.null THEN Ok(NullOf("Bool"))
                    ELSE Ok(Bool(op = "And"))
      [] op = "Xor" ->
           IF l.ty # "Bool" \/ r.ty # "Bool" THEN Err
           ELSE IF l.null \/ r.null THEN Ok(NullOf("Bool"))
           ELSE Ok(Bool(l # r))
      [] OTHER -> Err

\* unary_op(value, op): + and - on numbers, NOT on booleans.
UnaryOp(v, op) ==
    CASE op = "Plus" /\ v.ty = "Num" -> Ok(v)
      [] op = "Minus" /\ v.ty = "Num" -> Ok(IF v.null THEN v ELSE Frac(-v.n, v.d))
      [] op = "Not" /\ v.ty = "Bool" -> Ok(IF v.null THEN v ELSE Bool(v.n = 0))
      [] OTHER -> Err
=============================================================================
