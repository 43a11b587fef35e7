------------------------------- MODULE TpccLoop -------------------------------
(***************************************************************************)
(* The measuring loop of the TPC-C driver (src/tpcc/src/main.rs, main):    *)
(* pick a transaction type, try it up to max_retry + 1 times on a fresh    *)
(* transaction, count each failed attempt, count a success as on time or  *)
(* late, commit, and abort the whole run with MaxRetry when no attempt    *)
(* succeeded.  The transaction bodies, SeqGen and the clock are not in     *)
(* this repository: their outcomes are nondeterministic choices.           *)
(***************************************************************************)
EXTENDS Naturals, FiniteSets
LOCAL INSTANCE Functions

CONSTANTS
    Tests,      \* indices of the five TpccTest implementations
    MaxRetry,   \* args.max_retry
    MaxRounds   \* bound on round_count, for model checking

VARIABLES
    status,     \* "loop", "attempt", "after", or an exit: "finished", "maxretry", "error"
    i,          \* the transaction type of the current round
    j,          \* the index of the current attempt
    isSucceed,  \* is_succeed
    success,    \* success[i]
    late,       \* late[i]
    failure,    \* failure[i]
    round       \* round_count

vars == << status, i, j, isSucceed, success, late, failure, round >>

Counters == [Tests -> 0..(MaxRounds * (MaxRetry + 1))]

TypeOK ==
    /\ status \in {"loop", "attempt", "after", "finished", "maxretry", "error"}
    /\ i \in Tests /\ j \in 0..MaxRetry /\ isSucceed \in BOOLEAN
    /\ success \in Counters /\ late \in Counters /\ failure \in Counters
    /\ round \in 0..MaxRounds

Init ==
    /\ status = "loop"
    /\ i \in Tests /\ j = 0 /\ isSucceed = FALSE
    /\ success = [t \in Tests |-> 0]
    /\ late = [t \in Tests |-> 0]
    /\ failure = [t \in Tests |-> 0]
    /\ round = 0

\* while tpcc_start.elapsed() < duration: seq_gen.get() picks the next type.
Pick ==
    /\ status = "loop" /\ round < MaxRounds
    /\ \E t \in Tests : i' = t
    /\ j' = 0 /\ isSucceed' = FALSE /\ status' = "attempt"
    /\ UNCHANGED << success, late, failure, round >>

\* The measuring time is over: the loop ends and the report (Report below),
\* a function of the counters, is printed.
TimeUp ==
    /\ status = "loop"
    /\ status' = "finished"
    /\ UNCHANGED << i, j, isSucceed, success, late, failure, round >>

\* database.new_transaction()? fails: main returns the error.
BeginFails ==
    /\ status = "attempt"
    /\ status' = "error"
    /\ UNCHANGED << i, j, isSucceed, success, late, failure, round >>

\* A retry bound one past the for loop's 0..max_retry + 1.
AttemptFailsPastBound ==
    /\ status = "attempt"
    /\ failure' = [failure EXCEPT ![i] = @ + 1]
    /\ IF j < MaxRetry + 1 THEN j' = j + 1 /\ status' = "attempt"
                           ELSE status' = "after" /\ UNCHANGED j
    /\ UNCHANGED << i, isSucceed, success, late, round >>

\* A retry bound one short of the for loop's 0..max_retry + 1.
AttemptFailsOffByOne ==
    /\ status = "attempt"
    /\ failure' = [failure EXCEPT ![i] = @ + 1]
    /\ IF j + 1 < MaxRetry THEN j' = j + 1 /\ status' = "attempt"
                           ELSE status' = "after" /\ UNCHANGED j
    /\ UNCHANGED << i, isSucceed, success, late, round >>

\* do_transaction returns Err: count it, then retry or leave the for loop.
AttemptFails ==
    /\ status = "attempt"
    /\ failure' = [failure EXCEPT ![i] = @ + 1]
    /\ IF j < MaxRetry THEN j' = j + 1 /\ status' = "attempt"
                       ELSE status' = "after" /\ UNCHANGED j
    /\ UNCHANGED << i, isSucceed, success, late, round >>

\* do_transaction returns Ok: count it on time or late, then tx.commit()?
\* and break; a failed commit ends main with the error.
AttemptSucceeds ==
    /\ status = "attempt"
    /\ isSucceed' = TRUE
    /\ \E onTime \in BOOLEAN :
         IF onTime THEN success' = [success EXCEPT ![i] = @ + 1] /\ UNCHANGED late
                   ELSE late' = [late EXCEPT ![i] = @ + 1] /\ UNCHANGED success
    /\ \E committed \in BOOLEAN : status' = IF committed THEN "after" ELSE "error"
    /\ UNCHANGED << i, j, failure, round >>

\* round_count += 1 forgotten at the end of a round.
EndRoundNoCount ==
    /\ status = "after"
    /\ IF isSucceed THEN status' = "loop" /\ UNCHANGED round
                    ELSE status' = "maxretry" /\ UNCHANGED round
    /\ UNCHANGED << i, j, isSucceed, success, late, failure >>

\* After the for loop: MaxRetry when nothing succeeded, else the next round.
EndRound ==
    /\ status = "after"
    /\ IF isSucceed THEN status' = "loop" /\ round' = round + 1
                    ELSE status' = "maxretry" /\ UNCHANGED round
    /\ UNCHANGED << i, j, isSucceed, success, late, failure >>

Next == Pick \/ TimeUp \/ BeginFails \/ AttemptFails \/ AttemptSucceeds \/ EndRound

Spec == Init /\ [][Next]_vars /\ WF_vars(Next)

-----------------------------------------------------------------------------
Total(f) == SumFunction(f)

(***************************************************************************)
(* The report printed after the loop.  j sums success[i] + late[i] over    *)
(* the five types; each share of the transaction mix is                    *)
(* ((done / j) * 100.0).round() against its bound, and each response-time *)
(* share is (success / (success + late)) * 100.0 against 90.  An f64 NaN  *)
(* (j = 0, or a type never done) fails every >= and prints [NG].  Rust's  *)
(* round() is half away from zero; the integer form below equals the f64  *)
(* computation for every j below 40.                                      *)
(***************************************************************************)
MixBound == [t \in 1..4 |-> IF t = 1 THEN 43 ELSE 4]

Done(t) == success[t] + late[t]

ReportRounds == Total(success) + Total(late)

MixPercent(t) == (200 * Done(t) + ReportRounds) \div (2 * ReportRounds)

MixOk(t) == ReportRounds > 0 /\ MixPercent(t) >= MixBound[t]

RtOk(t) == Done(t) > 0 /\ 100 * success[t] >= 90 * Done(t)

(***************************************************************************)
(* Every finished round was counted exactly once as on time or late: the  *)
(* success and late counters together equal round_count, plus the round   *)
(* whose success is counted but not yet closed.  It is about the break    *)
(* after a success and the place of the counters in the retry loop.       *)
(***************************************************************************)
RoundsCountedOnce ==
    status \in {"loop", "attempt", "after", "finished", "maxretry"} =>
        Total(success) + Total(late)
            = round + (IF status = "after" /\ isSucceed THEN 1 ELSE 0)

(***************************************************************************)
(* The run aborts with MaxRetry only after max_retry + 1 failed attempts  *)
(* of one transaction type, all counted in failure[i]: the bound of the   *)
(* for loop and the failure counter agree.                                 *)
(***************************************************************************)
AbortAfterAllRetries ==
    status = "maxretry" => failure[i] >= MaxRetry + 1

(***************************************************************************)
(* The transaction-mix check of the report prints [Ok] for a type only    *)
(* when that type's share of the completed transactions meets the bound   *)
(* the report prints next to it, (>=43.0%) for Payment and (>=4.0%) for   *)
(* the other three.  It is about the .round() before the comparison.     *)
(***************************************************************************)
MixCheckHonest ==
    status = "finished" =>
        \A t \in Tests \cap DOMAIN MixBound :
            MixOk(t) => 100 * Done(t) >= MixBound[t] * ReportRounds
=============================================================================
