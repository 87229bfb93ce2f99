---------------------------- MODULE TxFlowTotals ----------------------------
(***************************************************************************)
(* Properties of TxFlow that add up amounts over the executed transactions *)
(* or over the callers.                                                    *)
(***************************************************************************)
EXTENDS TxFlow, Functions, FiniteSetsExt

LargestDaily == Max({s.max_daily : s \in Limits})

LargestPerTx == Max({s.max_per_tx : s \in Limits})

(* What was counted, and what was executed, for the transactions S.        *)
Spent(S) == SumFunctionOnSet([i \in DOMAIN ledger |-> ledger[i].amount], S)

Paid(S) == SumFunctionOnSet([i \in DOMAIN ledger |-> ledger[i].asked], S)

Recorded == {i \in DOMAIN ledger : ledger[i].status = "recorded"}

(* total_all_time is the sum of the transactions recorded by this process, *)
(* modulo 2^64: none is counted twice, or counted and not executed.        *)
TotalCountsRecorded ==
    engine # None =>
        engine.total_all_time =
            Spent({i \in Recorded : ledger[i].epoch = restarts}) % WORD

(* What all callers together can be ahead of the daily limit fits a u64.   *)
TotalsFit == LargestDaily + Cardinality(Callers) * LargestPerTx < WORD

(* The pre-flight check and the record are two locked sections, so callers *)
(* that pass the check together overshoot the daily limit; the overshoot   *)
(* is at most one transaction for every other caller.                      *)
OvershootBounded ==
    engine # None =>
        engine.spending_today <=
            LargestDaily + (Cardinality(Callers) - 1) * LargestPerTx

(* Executed and recorded in the DAY that begins at `from`.                  *)
ExecutedIn(from) ==
    {i \in Recorded : ledger[i].at >= from /\ ledger[i].at < from + DAY}

(* Of those, the ones whose amount fits the u64 it was parsed to.          *)
FittingIn(from) == {i \in ExecutedIn(from) : ledger[i].asked \in u64}

(* Windows are at least a DAY long and do not roll, so any DAY overlaps at *)
(* most two of them: what one process with one caller executed and         *)
(* recorded in any 24 hours stays within twice max_daily, flows that       *)
(* straddle a reset included.  The counters die with the process, so every *)
(* restart opens two new windows: there is no bound over all processes.    *)
(* Nor is there one for amounts of 2^64 or more, which are counted modulo  *)
(* 2^64 (AskedWithinMaxPerTx).                                             *)
RollingWindowTwiceDaily ==
    \A t \in 0 .. MaxTime, p \in 0 .. restarts :
        Paid({i \in FittingIn(t) : ledger[i].epoch = p}) <= 2 * LargestDaily

(* types.rs:16, on max_daily: "Max USDC per 24h rolling window."           *)
RollingWindowDaily ==
    \A t \in 0 .. MaxTime : Paid(ExecutedIn(t)) <= LargestDaily

=============================================================================
