------------------------------ MODULE MCTxFlow ------------------------------
(* Instances of TxFlow for TLC.                                            *)
EXTENDS TxFlowTotals

CONSTANTS c1, c2, agent, alice, bob

Wide   == [max_per_tx |-> 2, max_daily |-> 3, expires_at |-> None]
Narrow == [max_per_tx |-> 1, max_daily |-> 1, expires_at |-> None]
Even   == [max_per_tx |-> 2, max_daily |-> 2, expires_at |-> None]
Brief  == [max_per_tx |-> 1, max_daily |-> 1, expires_at |-> 1]

OnlySpending(s) == [spending |-> s, secrets |-> EmptyMap]

OneCaller  == {c1}
TwoCallers == {c1, c2}

Agent        == {agent}
NoAddresses  == {}
OneAddress   == {alice}
TwoAddresses == {alice, bob}

NoPolicies     == {}
NarrowPolicy   == {OnlySpending(Narrow)}
ExpiringPolicy == {OnlySpending(Brief)}

WideMandate == {Wide}
EvenMandate == {Even}

Two               == {2}
OneOrTwo          == {1, 2}
TwoOrWrapped      == {2, WORD}
OneOrTwoOrWrapped == {1, 2, WORD}

(* The instances satisfy these hypotheses of the theorems DailyLimit,      *)
(* RollingTwiceDaily, NothingSpent and OvershootLimited.                   *)
ASSUME LimitsFit
ASSUME PoliciesDiffer
ASSUME TotalsFit
=============================================================================
