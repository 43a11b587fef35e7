-------------------------------- MODULE MC_Tpcc --------------------------------
(***************************************************************************)
(* The two models of the TPC-C driver (src/tpcc/src/main.rs) checked in   *)
(* one run: the measuring loop of main (TpccLoop) and other_ware          *)
(* (OtherWare).  They share no variable; each step is a step of one of    *)
(* them with the other's variables unchanged, and each keeps its own      *)
(* fairness.                                                               *)
(***************************************************************************)
CONSTANTS Tests, MaxRetry, MaxRounds, WareCounts

VARIABLES status, i, j, isSucceed, success, late, failure, round,
          numWare, home, result

Loop == INSTANCE TpccLoop
Ware == INSTANCE OtherWare

loopVars == << status, i, j, isSucceed, success, late, failure, round >>
wareVars == << numWare, home, result >>
vars == << loopVars, wareVars >>

Init == Loop!Init /\ Ware!Init

LoopStep == Loop!Next /\ UNCHANGED wareVars

WareStep == Ware!Next /\ UNCHANGED loopVars

Next == LoopStep \/ WareStep

Spec ==
    /\ Init /\ [][Next]_vars
    /\ WF_vars(LoopStep)
    /\ WF_vars(Ware!ReturnHome /\ UNCHANGED loopVars)
    /\ \A tmp \in Ware!Draws : WF_vars(Ware!Draw(tmp) /\ UNCHANGED loopVars)

TypeOK == Loop!TypeOK

RoundsCountedOnce == Loop!RoundsCountedOnce

AbortAfterAllRetries == Loop!AbortAfterAllRetries

OtherThanHome == Ware!OtherThanHome

Returns == Ware!Returns
=============================================================================
