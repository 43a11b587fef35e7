------------------------- MODULE MC_RangeNormalizer -------------------------
(* Model-checking instance of RangeNormalizer: three constants, so that a  *)
(* value can lie below, between and above two others, and up to three      *)
(* leaves under one And / Or, enough for a merge, an absorption and a      *)
(* push to happen in one call.                                             *)
EXTENDS RangeNormalizer

MCVals == {Num(0), Num(1), Num(2)}
MCMaxLen == 3
AllLeafKinds == {"Scope", "Eq", "NotEq"}
PointAndScopeKinds == {"Scope", "Eq"}

\* Scenario O1 of spec.md section 8, literally, over the values 0..10.
O1Vals == {Num(0), Num(10)}
O1 == {Or(<< Scope(Excluded(Num(6)), Included(Num(10))),
             Scope(Excluded(Num(0)), Included(Num(3))),
             Scope(Included(Num(1)), Excluded(Num(2))),
             Scope(Excluded(Num(1)), Included(Num(2))),
             Scope(Included(Num(0)), Excluded(Num(3))),
             Scope(Included(Num(6)), Included(Num(7))),
             Scope(Unbounded, Unbounded),
             NotEq(Num(8)), Eq(Num(5)), Eq(Num(0)), Eq(Num(1)) >>)}
=============================================================================
