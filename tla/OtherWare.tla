------------------------------ MODULE OtherWare ------------------------------
(***************************************************************************)
(* other_ware (src/tpcc/src/main.rs): pick a warehouse other than the     *)
(* home one by drawing rng.gen_range(1..num_ware) until the draw differs  *)
(* from home_ware; with one warehouse it returns the home one.  A draw is *)
(* any value of the range; a draw equal to home_ware changes nothing.     *)
(***************************************************************************)
EXTENDS Naturals

CONSTANTS
    WareCounts      \* the values args.num_ware may take

VARIABLES
    numWare,        \* num_ware
    home,           \* home_ware, a warehouse id in 1..num_ware
    result          \* the returned warehouse, 0 while the loop runs

vars == << numWare, home, result >>

Draws == 1..(IF WareCounts = {} THEN 0 ELSE CHOOSE n \in WareCounts : \A m \in WareCounts : m <= n)

Init ==
    /\ numWare \in WareCounts
    /\ home \in 1..numWare
    /\ result = 0

\* A mutant: the num_ware == 1 early return is missing.
ReturnHomeMissing ==
    /\ result = 0 /\ numWare = 0
    /\ result' = home
    /\ UNCHANGED << numWare, home >>

\* if num_ware == 1 { return home_ware; }
ReturnHome ==
    /\ result = 0 /\ numWare = 1
    /\ result' = home
    /\ UNCHANGED << numWare, home >>

\* A mutant: the tmp != home_ware test is missing.
DrawUnchecked(tmp) ==
    /\ result = 0 /\ numWare # 1 /\ tmp \in 1..(numWare - 1)
    /\ result' = tmp
    /\ UNCHANGED << numWare, home >>

\* One iteration of the loop: tmp = rng.gen_range(1..num_ware), returned
\* when it differs from home_ware.
Draw(tmp) ==
    /\ result = 0 /\ numWare # 1 /\ tmp \in 1..(numWare - 1)
    /\ result' = IF tmp # home THEN tmp ELSE 0
    /\ UNCHANGED << numWare, home >>

Next == ReturnHome \/ \E tmp \in Draws : Draw(tmp)

\* A uniform random number generator draws every value of the range again
\* and again, so each draw that stays enabled is eventually taken.
Spec == Init /\ [][Next]_vars /\ WF_vars(ReturnHome)
                              /\ \A tmp \in Draws : WF_vars(Draw(tmp))

-----------------------------------------------------------------------------
(***************************************************************************)
(* other_ware returns: its loop ends with a warehouse for every num_ware  *)
(* and home_ware a caller can pass.  With num_ware = 2 and home_ware = 1  *)
(* gen_range(1..2) only ever draws 1, the home warehouse, and the loop    *)
(* never ends.                                                             *)
(***************************************************************************)
Returns == <>(result # 0)

(***************************************************************************)
(* other_ware returns another warehouse than home_ware, a valid one of    *)
(* 1..num_ware, unless num_ware = 1; the test of the draw against         *)
(* home_ware is what ensures it.                                           *)
(***************************************************************************)
OtherThanHome ==
    result # 0 => /\ result \in 1..numWare
                  /\ (result # home \/ numWare = 1)
=============================================================================
