------------------------- MODULE TxFlowTotalsProofs -------------------------
(***************************************************************************)
(* Theorems about TxFlowTotals: how far any number of callers that spend   *)
(* at the same time can take the day's total over the daily limit; that    *)
(* the all-time total is what this process recorded; and that any 24 hours *)
(* see at most twice the daily limit.                                      *)
(***************************************************************************)
EXTENDS TxFlowTotals, TxFlowProofs, SumProofs

(* A set of u64 values has a maximum.                                      *)
LEMMA MaxIsLargest ==
  ASSUME NEW S \in SUBSET u64, S # {}
  PROVE  Max(S) \in S /\ \A x \in S : x <= Max(S)
<1> DEFINE T == {WORD - 1 - x : x \in S}
<1>1. T \subseteq Nat /\ T # {}
  <2>1. \A x \in u64 : WORD - 1 - x \in Nat
    BY WordAssumption DEF u64
  <2>2. \A x \in S : WORD - 1 - x \in Nat
    BY <2>1
  <2> QED
    BY <2>2, Zenon
<1> DEFINE R == OpToRel(<, Nat)
<1>2. \A i, j \in Nat : i < j => <<i, j>> \in R
  BY DEF OpToRel
<1>3. IsWellFoundedOn(R, Nat)
  BY NatLessThanWellFounded, Zenon
<1> HIDE DEF R
<1>4. PICK x \in T : \A y \in T : ~(<<y, x>> \in R)
  <2> HIDE DEF T
  <2> QED
    BY <1>1, <1>3, WFMin
<1>5. PICK m \in S : x = WORD - 1 - m
  BY <1>4
<1>6. \A n \in S : n <= m
  <2> SUFFICES ASSUME NEW n \in S, n > m PROVE FALSE
    BY DEF u64
  <2>1. WORD - 1 - n \in T /\ WORD - 1 - n < x
    BY <1>5, WordAssumption DEF u64
  <2> QED
    BY <1>1, <1>2, <1>4, <2>1
<1>7. \E y \in S : \A n \in S : y >= n
  BY <1>6 DEF u64
<1>8. Max(S) \in S /\ \A n \in S : Max(S) >= n
  BY <1>7 DEF Max
<1> QED
  BY <1>8 DEF u64

-----------------------------------------------------------------------------
(* The arithmetic.  With limits D per day and P per transaction, and k of  *)
(* the callers not in flight: the day's total t leaves room for the flows  *)
(* F, of amounts a, either for all of them at P each, or for the one whose *)
(* check came last and P for each of the others.                           *)
Fits(D, P, k, F, t, a) ==
    \/ t <= D + (k - 1) * P
    \/ \E c \in F : t + a[c] <= D + k * P

LEMMA Product ==
  ASSUME NEW k \in Int, NEW P \in Nat
  PROVE  /\ k * P \in Int
         /\ (k + 1) * P = k * P + P
         /\ k * P = (k - 1) * P + P
         /\ k >= 0 => k * P >= 0
         /\ \A j \in Int : j <= k => j * P <= k * P
OBVIOUS

(* The last check leaves room for its own flow.                            *)
LEMMA FitsEnter ==
  ASSUME NEW D \in Nat, NEW P \in Nat, NEW k \in Nat, NEW F, NEW t \in Nat,
         NEW a, NEW c \in F, a[c] \in Nat, t + a[c] <= D
  PROVE  Fits(D, P, k, F, t, a)
<1>1. k * P \in Int /\ k * P >= 0
  BY Product
<1>2. t + a[c] <= D + k * P
  BY <1>1
<1> QED
  BY <1>2 DEF Fits

(* A flow that ends gives its room back.                                   *)
LEMMA FitsLeave ==
  ASSUME NEW D \in Nat, NEW P \in Nat, NEW k \in Nat, NEW F, NEW t \in Nat,
         NEW a, \A d \in F : a[d] \in Nat, NEW c \in F, Fits(D, P, k, F, t, a)
  PROVE  Fits(D, P, k + 1, F \ {c}, t, a)
<1>1. /\ k * P \in Int /\ (k - 1) * P \in Int /\ (k + 1) * P = k * P + P
      /\ k * P = (k - 1) * P + P /\ (k + 1) - 1 = k
  BY Product
<1>2. CASE t <= D + (k - 1) * P
  <2>1. t <= D + k * P
    BY <1>1, <1>2
  <2> QED
    BY <1>1, <2>1 DEF Fits
<1>3. ASSUME NEW d \in F, t + a[d] <= D + k * P
      PROVE  Fits(D, P, k + 1, F \ {c}, t, a)
  <2>1. t <= D + k * P
    BY <1>1, <1>3
  <2> QED
    BY <1>1, <2>1 DEF Fits
<1> QED
  BY <1>2, <1>3 DEF Fits

(* A flow that is recorded uses it.                                        *)
LEMMA FitsRecord ==
  ASSUME NEW D \in Nat, NEW P \in Nat, NEW k \in Nat, NEW F, NEW t \in Nat,
         NEW a, \A d \in F : a[d] \in Nat /\ a[d] <= P, NEW c \in F,
         Fits(D, P, k, F, t, a)
  PROVE  Fits(D, P, k + 1, F \ {c}, t + a[c], a)
<1>1. /\ k * P \in Int /\ (k - 1) * P \in Int /\ (k + 1) * P = k * P + P
      /\ k * P = (k - 1) * P + P /\ (k + 1) - 1 = k
  BY Product
<1>2. CASE t <= D + (k - 1) * P
  <2>1. t + a[c] <= D + k * P
    BY <1>1, <1>2
  <2> QED
    BY <1>1, <2>1 DEF Fits
<1>3. ASSUME t + a[c] <= D + k * P
      PROVE  Fits(D, P, k + 1, F \ {c}, t + a[c], a)
  BY <1>1, <1>3 DEF Fits
<1>4. ASSUME NEW d \in F \ {c}, t + a[d] <= D + k * P
      PROVE  Fits(D, P, k + 1, F \ {c}, t + a[c], a)
  <2>1. t + a[c] + a[d] <= D + (k + 1) * P
    BY <1>1, <1>4
  <2> QED
    BY <1>4, <2>1 DEF Fits
<1> QED
  BY <1>2, <1>3, <1>4 DEF Fits

(* The total stays below the limit plus P for every caller but one.        *)
LEMMA FitsBound ==
  ASSUME NEW D \in Nat, NEW P \in Nat, NEW k \in Nat, NEW F, NEW t \in Nat,
         NEW a, \A d \in F : a[d] \in Nat, NEW N \in Nat, k <= N,
         F # {} => k < N, Fits(D, P, k, F, t, a)
  PROVE  t <= D + (N - 1) * P
<1>1. /\ k * P \in Int /\ (k - 1) * P \in Int /\ (N - 1) * P \in Int
      /\ (k - 1) * P <= (N - 1) * P
      /\ k <= N - 1 => k * P <= (N - 1) * P
  BY Product
<1>2. CASE t <= D + (k - 1) * P
  BY <1>1, <1>2
<1>3. ASSUME NEW d \in F, t + a[d] <= D + k * P PROVE t <= D + (N - 1) * P
  <2>1. k <= N - 1 /\ t <= D + k * P
    BY <1>1, <1>3
  <2> QED
    BY <1>1, <2>1
<1> QED
  BY <1>2, <1>3 DEF Fits

-----------------------------------------------------------------------------
(* The callers between a passed check and the record, the day's total, and *)
(* the amounts asked for.                                                  *)
Flying == {c \in Callers : InFlight(c)}

Today == IF engine = None THEN 0 ELSE engine.spending_today

Asked == [c \in Callers |-> loc[c].amount]

RoomBeside(F) == Cardinality(Callers) - Cardinality(F)

GivenPolicy == engine # None => engine.policy.spending \in Limits

Overshoot ==
    /\ \A c \in Flying : Asked[c] <= LargestPerTx
    /\ Fits(LargestDaily, LargestPerTx, RoomBeside(Flying), Flying, Today,
            Asked)

LEMMA LargestType ==
  /\ LargestDaily \in Nat /\ \A l \in Limits : l.max_daily <= LargestDaily
  /\ LargestPerTx \in Nat /\ \A l \in Limits : l.max_per_tx <= LargestPerTx
<1> DEFINE Daily == {l.max_daily : l \in Limits}
           PerTx == {l.max_per_tx : l \in Limits}
<1>1. DefaultPolicy.spending \in Limits
  BY DEF Limits
<1>2. Daily \in SUBSET u64 /\ PerTx \in SUBSET u64 /\ Daily # {} /\ PerTx # {}
  BY <1>1, LimitsType DEF SpendingPolicy
<1> HIDE DEF Daily, PerTx
<1>3. /\ Max(Daily) \in Daily /\ \A x \in Daily : x <= Max(Daily)
      /\ Max(PerTx) \in PerTx /\ \A x \in PerTx : x <= Max(PerTx)
  BY <1>2, MaxIsLargest
<1>4. Max(Daily) \in Nat /\ Max(PerTx) \in Nat
  <2>1. Max(Daily) \in u64 /\ Max(PerTx) \in u64
    BY <1>2, <1>3, Zenon
  <2>2. \A x \in u64 : x \in Nat
    BY DEF u64
  <2> QED
    BY <2>1, <2>2, Zenon
<1>5. LargestDaily = Max(Daily) /\ LargestPerTx = Max(PerTx)
  BY DEF LargestDaily, LargestPerTx, Daily, PerTx
<1> QED
  BY <1>3, <1>4, <1>5 DEF Daily, PerTx

(* The room is what the callers that are not in flight leave.              *)
LEMMA RoomType ==
  ASSUME IsFiniteSet(Callers), NEW F \in SUBSET Callers
  PROVE  /\ RoomBeside(F) \in Nat /\ Cardinality(Callers) \in Nat
         /\ RoomBeside(F) <= Cardinality(Callers)
         /\ F # {} => RoomBeside(F) < Cardinality(Callers)
         /\ F # Callers => RoomBeside(F) >= 1
         /\ \A c \in F : RoomBeside(F \ {c}) = RoomBeside(F) + 1
<1>1. /\ IsFiniteSet(F) /\ Cardinality(F) <= Cardinality(Callers)
      /\ Cardinality(Callers) = Cardinality(F) => Callers = F
  BY FS_Subset
<1>2. Cardinality(F) \in Nat /\ Cardinality(Callers) \in Nat
  BY <1>1, FS_CardinalityType
<1>3. F # {} => Cardinality(F) # 0
  BY <1>1, FS_EmptySet
<1>4. \A c \in F : Cardinality(F \ {c}) = Cardinality(F) - 1
  BY <1>1, FS_RemoveElement
<1> QED
  BY <1>1, <1>2, <1>3, <1>4 DEF RoomBeside

LEMMA AskedType ==
  ASSUME TypeOK
  PROVE  /\ \A c \in Callers : Asked[c] = loc[c].amount /\ Asked[c] \in Nat
                               /\ Asked[c] \in u64
         /\ Today \in Nat /\ Today \in u64
<1>1. \A c \in Callers : loc[c].amount \in u64
  BY DEF TypeOK, Locals
<1>2. Today \in u64
  BY WordAssumption DEF TypeOK, Today, Engine, u64
<1> QED
  BY <1>1, <1>2 DEF Asked, u64

(* The engine's policy is always one that it was given.                    *)
LEMMA GivenPolicyStep == TypeInv /\ GivenPolicy /\ [Next]_vars => GivenPolicy'
<1> SUFFICES ASSUME TypeOK, GivenPolicy, [Next]_vars, engine' # None
             PROVE  GivenPolicy'
  BY DEF TypeInv, GivenPolicy
<1>1. Locked \in Engine /\ Locked.policy.spending \in Limits
  <2>1. now \in Nat
    BY DEF TypeOK
  <2> QED
    BY <2>1, LockedType, DefaultUnderLimits DEF GivenPolicy, Locked
<1>2. ASSUME engine' \in {engine, Locked} PROVE GivenPolicy'
  BY <1>1, <1>2 DEF GivenPolicy
<1>3. ASSUME NEW p, p.spending \in Limits, engine' = set_policy(Locked, p)
      PROVE  GivenPolicy'
  <2>1. engine'.policy = p
    BY <1>1, <1>3 DEF set_policy, Engine
  <2> QED
    BY <1>3, <2>1 DEF GivenPolicy
<1>4. ASSUME NEW t \in Nat, engine' = reset_if_needed(Locked, t)
      PROVE  GivenPolicy'
  <2>1. engine'.policy = Locked.policy
    BY <1>1, <1>4, ResetWindow
  <2> QED
    BY <1>1, <2>1 DEF GivenPolicy
<1>5. ASSUME NEW c \in Callers, SetPolicy(c) PROVE GivenPolicy'
  <2>1. \A p \in Policies : p.spending \in Limits
    BY DEF Limits
  <2> QED
    BY <1>3, <1>5, <2>1 DEF SetPolicy
<1>6. ASSUME NEW c \in Callers, Hydrate(c) PROVE GivenPolicy'
  <2>1. PICK m \in Mandates :
          engine' = set_policy(Locked, [spending |-> m,
                                        secrets |-> Locked.policy.secrets])
    BY <1>6 DEF Hydrate
  <2>2. m \in Limits
    BY DEF Limits
  <2> QED
    BY <1>3, <2>1, <2>2
<1>7. ASSUME NEW c \in Callers, Preflight(c) \/ GetSpendingSummary(c)
      PROVE  GivenPolicy'
  BY <1>4, <1>7 DEF Preflight, GetSpendingSummary, TypeOK, Locals
<1>8. ASSUME NEW c \in Callers, Record(c) PROVE GivenPolicy'
  <2>1. engine'.policy = Locked.policy
    BY <1>1, <1>8 DEF Record, record_spending, Engine
  <2> QED
    BY <1>1, <2>1 DEF GivenPolicy
<1>9. ASSUME NEW c \in Callers, CheckPolicy(c) PROVE GivenPolicy'
  BY <1>2, <1>9 DEF CheckPolicy
<1>10. ASSUME UNCHANGED engine PROVE GivenPolicy'
  BY <1>2, <1>10
<1>11. ASSUME Restart PROVE FALSE
  BY <1>11 DEF Restart
<1>12. ASSUME NEW c \in Callers, Call(c) PROVE GivenPolicy'
  BY <1>5, <1>7, <1>9, <1>10, <1>12 DEF Call, GenerateKeys, MandateInit, Begin,
      statics
<1>13. ASSUME NEW c \in Callers, Continue(c) PROVE GivenPolicy'
  BY <1>6, <1>7, <1>8, <1>10, <1>13
  DEF Continue, StoreInfo, HydrateFails, CheckSpendAnswered, Prepare,
      SubmitAcknowledged, SubmitReplyLost, BackendRefuses, RecordSpendSent,
      statics
<1> QED
  BY <1>10, <1>11, <1>12, <1>13 DEF Next, Tick, vars, statics

-----------------------------------------------------------------------------
(* What a step may do to the flows in flight and to the day's total.       *)
Joins(c) ==
    /\ c \in Callers \ Flying
    /\ Flying' = Flying \cup {c}
    /\ engine' # None
    /\ check_spending(engine', Asked[c], loc[c].now)
    /\ Today' \in {Today, 0}

Clears(c) == c \in Callers \ Flying /\ Flying' = Flying /\ Today' \in {Today, 0}

Leaves(c) == c \in Flying /\ Flying' = Flying \ {c} /\ Today' = Today

Counts(c) ==
    /\ c \in Flying
    /\ Flying' = Flying \ {c}
    /\ Today' = WrappingAdd(Today, Asked[c])

FlowEffect ==
    \/ \E c \in Callers : Joins(c) \/ Clears(c) \/ Leaves(c) \/ Counts(c)
    \/ Flying' = Flying /\ Today' = Today
    \/ Flying' = {} /\ Today' = 0

LEMMA LockedToday ==
  ASSUME TypeOK PROVE Locked \in Engine /\ Locked.spending_today = Today
<1>1. engine = None => Locked.spending_today = 0
  BY DEF Locked, NewEngine
<1> QED
  BY <1>1, LockedType DEF Locked, Today

(* A reset keeps the day's total or clears it.                             *)
LEMMA ResetToday ==
  ASSUME TypeOK, NEW t \in Nat, engine' = reset_if_needed(Locked, t)
  PROVE  engine' # None /\ Today' \in {Today, 0}
<1>1. engine' \in Engine /\ engine'.spending_today \in {Today, 0}
  BY LockedToday, ResetType, ResetWindow
<1> QED
  BY <1>1, NoneAssumption DEF Today

(* A new policy keeps it.                                                  *)
LEMMA SetsToday ==
  ASSUME TypeOK, NEW p \in Policy, engine' = set_policy(Locked, p)
  PROVE  engine'.spending_today = Today /\ engine' # None
<1>1. engine' \in Engine
  BY LockedToday, SetPolicyType
<1>2. engine'.spending_today = Locked.spending_today
  BY LockedToday DEF set_policy, Engine
<1> QED
  BY <1>1, <1>2, LockedToday, NoneAssumption

(* Flying follows pc.                                                      *)
LEMMA FlyingMoves ==
  ASSUME TypeOK, NEW c \in Callers, NEW l, Goto(c, l)
  PROVE  Flying' = IF l \in FlowSteps THEN Flying \cup {c} ELSE Flying \ {c}
BY DEF TypeOK, Goto, Flying, InFlight

LEMMA FlyingReturns ==
  ASSUME TypeOK, NEW c \in Callers, Return(c)
  PROVE  Flying' = Flying \ {c}
<1>1. Goto(c, "idle") /\ "idle" \notin FlowSteps
  BY DEF Return, FlowSteps
<1> QED
  BY <1>1, FlyingMoves

LEMMA EffectOfCall ==
  ASSUME TypeOK, NEW c \in Callers, Call(c)
  PROVE  FlowEffect
<1>0. pc[c] = "idle" /\ c \notin Flying
  BY DEF Call, SetPolicy, CheckPolicy, GetSpendingSummary, GenerateKeys,
         MandateInit, Begin, Flying, InFlight, FlowSteps
<1>1. ASSUME UNCHANGED pc PROVE Flying' = Flying
  BY <1>1 DEF Flying, InFlight
<1>2. CASE SetPolicy(c)
  <2>1. PICK p \in Policy : engine' = set_policy(Locked, p)
    BY <1>2, InputAssumption DEF SetPolicy
  <2>2. engine'.spending_today = Today /\ engine' # None
    BY <2>1, SetsToday
  <2> QED
    BY <1>1, <1>2, <2>2 DEF SetPolicy, FlowEffect, Today
<1>3. CASE CheckPolicy(c)
  <2>1. Today' = Today
    BY <1>3, LockedToday, NoneAssumption DEF CheckPolicy, Today
  <2> QED
    BY <1>1, <1>3, <2>1 DEF CheckPolicy, FlowEffect
<1>4. CASE GetSpendingSummary(c)
  <2>1. now \in Nat
    BY DEF TypeOK
  <2>2. Today' \in {Today, 0}
    BY <1>4, <2>1, ResetToday DEF GetSpendingSummary
  <2> QED
    BY <1>0, <1>1, <1>4, <2>2 DEF GetSpendingSummary, FlowEffect, Clears
<1>5. CASE GenerateKeys(c) \/ MandateInit(c) \/ Begin(c)
  <2>1. Today' = Today
    BY <1>5 DEF GenerateKeys, MandateInit, Begin, Today, statics
  <2>2. UNCHANGED pc \/ \E l \in {"fetch_mandate", "preflight"} : Goto(c, l)
    BY <1>5 DEF GenerateKeys, MandateInit, Begin
  <2>3. ASSUME NEW l \in {"fetch_mandate", "preflight"}, Goto(c, l)
        PROVE  Flying' = Flying
    <3>1. l \notin FlowSteps
      BY DEF FlowSteps
    <3> QED
      BY <1>0, <2>3, <3>1, FlyingMoves
  <2> QED
    BY <1>1, <2>1, <2>2, <2>3 DEF FlowEffect
<1> QED
  BY <1>2, <1>3, <1>4, <1>5 DEF Call

LEMMA EffectOfContinue ==
  ASSUME TypeOK, NEW c \in Callers, Continue(c)
  PROVE  FlowEffect
<1>1. ASSUME NEW l \in FlowSteps, Goto(c, l), InFlight(c), UNCHANGED engine
      PROVE  FlowEffect
  <2>1. Flying' = Flying /\ Today' = Today
    BY <1>1, FlyingMoves DEF Flying, Today
  <2> QED
    BY <2>1 DEF FlowEffect
<1>2. ASSUME Return(c), UNCHANGED engine PROVE FlowEffect
  <2>1. Flying' = Flying \ {c} /\ Today' = Today
    BY <1>2, FlyingReturns DEF Today
  <2>2. CASE c \in Flying
    BY <2>1, <2>2 DEF FlowEffect, Leaves
  <2>3. CASE c \notin Flying
    BY <2>1, <2>3 DEF FlowEffect
  <2> QED
    BY <2>2, <2>3
<1>3. CASE Hydrate(c)
  <2>1. PICK p \in Policy : engine' = set_policy(Locked, p)
    <3>1. PICK m \in Mandates :
            engine' = set_policy(Locked, [spending |-> m,
                                          secrets |-> Locked.policy.secrets])
      BY <1>3 DEF Hydrate
    <3>2. [spending |-> m, secrets |-> Locked.policy.secrets] \in Policy
      BY LockedToday, InputAssumption DEF Engine, Policy
    <3> QED
      BY <3>1, <3>2
  <2>2. engine'.spending_today = Today /\ engine' # None
    BY <2>1, SetsToday
  <2>3. Goto(c, "store_info") /\ "store_info" \notin FlowSteps
        /\ c \notin Flying
    BY <1>3 DEF Hydrate, FlowSteps, Flying, InFlight
  <2>4. Flying' = Flying
    BY <2>3, FlyingMoves
  <2> QED
    BY <2>2, <2>4 DEF FlowEffect, Today
<1>4. CASE Preflight(c)
  <2>1. loc[c].now \in Nat /\ c \notin Flying /\ "check_spend" \in FlowSteps
    BY <1>4 DEF TypeOK, Locals, Preflight, Flying, InFlight, FlowSteps
  <2>2. engine' # None /\ Today' \in {Today, 0}
    BY <1>4, <2>1, ResetToday DEF Preflight
  <2>3. CASE Return(c)
    BY <2>1, <2>2, <2>3, FlyingReturns DEF FlowEffect, Clears
  <2>4. CASE Goto(c, "check_spend")
             /\ check_spending(engine', loc[c].amount, loc[c].now)
    BY <2>1, <2>2, <2>4, FlyingMoves DEF FlowEffect, Joins, Asked
  <2> QED
    BY <1>4, <2>3, <2>4 DEF Preflight
<1>5. CASE Record(c)
  <2>1. c \in Flying /\ Flying' = Flying \ {c}
    BY <1>5, FlyingReturns DEF Record, Flying, InFlight, FlowSteps
  <2>2. loc[c].amount \in u64
    BY DEF TypeOK, Locals
  <2>3. engine' \in Engine /\ engine'.spending_today = WrappingAdd(Today, Asked[c])
    BY <1>5, <2>2, LockedToday, RecordType
    DEF Record, record_spending, Engine, Asked
  <2>4. Today' = WrappingAdd(Today, Asked[c])
    BY <2>3, NoneAssumption DEF Today
  <2> QED
    BY <2>1, <2>4 DEF FlowEffect, Counts
<1>6. CASE CheckSpendAnswered(c)
  BY <1>1, <1>6 DEF CheckSpendAnswered, InFlight, FlowSteps, statics
<1>7. CASE Prepare(c)
  BY <1>1, <1>2, <1>7 DEF Prepare, InFlight, FlowSteps, statics
<1>8. CASE SubmitAcknowledged(c)
  BY <1>1, <1>8 DEF SubmitAcknowledged, InFlight, FlowSteps, statics
<1>9. CASE RecordSpendSent(c)
  BY <1>1, <1>9 DEF RecordSpendSent, InFlight, FlowSteps, statics
<1>10. CASE StoreInfo(c) \/ HydrateFails(c) \/ SubmitReplyLost(c)
              \/ BackendRefuses(c)
  BY <1>2, <1>10
  DEF StoreInfo, HydrateFails, SubmitReplyLost, BackendRefuses, statics
<1> QED
  BY <1>3, <1>4, <1>5, <1>6, <1>7, <1>8, <1>9, <1>10 DEF Continue

(* No sum of the day's total and one more amount wraps.                    *)
LEMMA NoWrap ==
  ASSUME IsFiniteSet(Callers), TotalsFit, TypeOK, Overshoot
  PROVE  /\ Today <= LargestDaily
                         + (Cardinality(Callers) - 1) * LargestPerTx
         /\ \A a \in Nat : a <= LargestPerTx => Today + a < WORD
<1> DEFINE N == Cardinality(Callers)
           k == RoomBeside(Flying)
<1>1. LargestDaily \in Nat /\ LargestPerTx \in Nat
  BY LargestType
<1>2. Flying \in SUBSET Callers
  BY DEF Flying
<1>3. k \in Nat /\ N \in Nat /\ k <= N /\ (Flying # {} => k < N)
  BY <1>2, RoomType
<1>4. Today \in Nat /\ \A d \in Flying : Asked[d] \in Nat
  BY <1>2, AskedType
<1>5. Fits(LargestDaily, LargestPerTx, k, Flying, Today, Asked)
  BY DEF Overshoot
<1> HIDE DEF N, k
<1>6. Today <= LargestDaily + (N - 1) * LargestPerTx
  BY <1>1, <1>3, <1>4, <1>5, FitsBound
<1>7. N * LargestPerTx = (N - 1) * LargestPerTx + LargestPerTx
      /\ (N - 1) * LargestPerTx \in Int
  BY <1>1, <1>3, Product
<1>8. LargestDaily + N * LargestPerTx < WORD
  BY DEF TotalsFit, N
<1>9. \A a \in Nat : a <= LargestPerTx => Today + a < WORD
  BY <1>1, <1>4, <1>6, <1>7, <1>8, WordAssumption
<1> QED
  BY <1>6, <1>9 DEF N

(* Amounts of flows that go on are what they were.                         *)
LEMMA FitsSame ==
  ASSUME NEW D, NEW P, NEW k, NEW F, NEW t, NEW a, NEW b,
         \A d \in F : b[d] = a[d], Fits(D, P, k, F, t, a)
  PROVE  Fits(D, P, k, F, t, b)
BY DEF Fits

(* A cleared total fits while somebody is not in flight.                   *)
LEMMA FitsCleared ==
  ASSUME NEW D \in Nat, NEW P \in Nat, NEW k \in Nat, k >= 1, NEW F, NEW a
  PROVE  Fits(D, P, k, F, 0, a)
<1>1. (k - 1) * P \in Int /\ (k - 1) * P >= 0
  BY Product
<1>2. 0 <= D + (k - 1) * P
  BY <1>1
<1> QED
  BY <1>2 DEF Fits

LEMMA OvershootStep ==
  ASSUME IsFiniteSet(Callers), Callers # {}, TotalsFit
  PROVE  TypeInv /\ GivenPolicy /\ Overshoot /\ [Next]_vars => Overshoot'
<1> SUFFICES ASSUME TypeInv, GivenPolicy, Overshoot, [Next]_vars
             PROVE  Overshoot'
  OBVIOUS
<1> DEFINE D == LargestDaily
           P == LargestPerTx
           k == RoomBeside(Flying)
           l == RoomBeside(Flying')
<1>1. TypeOK /\ GivenPolicy'
  BY GivenPolicyStep DEF TypeInv
<1>2. Flying \in SUBSET Callers /\ Flying' \in SUBSET Callers
  BY DEF Flying
<1>3. D \in Nat /\ P \in Nat /\ \A s \in Limits : s.max_daily <= D
                                              /\ s.max_per_tx <= P
  BY LargestType
<1>4. k \in Nat /\ l \in Nat /\ (Flying # Callers => k >= 1)
      /\ (Flying' # Callers => l >= 1)
  BY <1>2, RoomType
<1>5. \A d \in Flying' : Asked'[d] = Asked[d]
  BY <1>2, InFlightStep DEF Flying, Asked
<1>6. Today \in Nat /\ \A d \in Callers : Asked[d] \in Nat
  BY <1>1, AskedType
<1>7. Fits(D, P, k, Flying, Today, Asked) /\ \A d \in Flying : Asked[d] <= P
  BY DEF Overshoot
<1>8. \A a \in Nat : a <= P => Today + a < WORD
  BY <1>1, NoWrap
<1> SUFFICES /\ \A d \in Flying' : Asked[d] <= P
             /\ Fits(D, P, l, Flying', Today', Asked)
  <2> HIDE DEF D, P, l
  <2> SUFFICES ASSUME \A d \in Flying' : Asked[d] <= P,
                      Fits(D, P, l, Flying', Today', Asked)
               PROVE  Overshoot'
    OBVIOUS
  <2>1. Fits(D, P, l, Flying', Today', Asked')
    BY <1>5, FitsSame
  <2>2. \A d \in Flying' : Asked'[d] <= P
    BY <1>5
  <2> QED
    BY <2>1, <2>2 DEF Overshoot, D, P, l
<1> HIDE DEF D, P
<1>9. ASSUME NEW c \in Callers, Joins(c)
      PROVE  /\ \A d \in Flying' : Asked[d] <= P
             /\ Fits(D, P, l, Flying', Today', Asked)
  <2> HIDE DEF l
  <2>1. c \in Flying' /\ Flying' = Flying \cup {c} /\ Asked[c] \in Nat
    BY <1>6, <1>9 DEF Joins
  <2>2. engine'.policy.spending \in Limits /\ engine'.spending_today = Today'
    BY <1>1, <1>9 DEF Joins, GivenPolicy, Today
  <2> DEFINE s == engine'.policy.spending
  <2>3. Asked[c] <= s.max_per_tx /\ WrappingAdd(Today', Asked[c]) <= s.max_daily
    BY <1>9, <2>2 DEF Joins, check_spending
  <2>4. s.max_per_tx \in Nat /\ s.max_daily \in Nat
    BY <2>2, LimitsType DEF SpendingPolicy, u64
  <2> HIDE DEF s
  <2>5. s.max_per_tx <= P /\ s.max_daily <= D
    BY <1>3, <2>2 DEF s
  <2>6. Asked[c] <= P
    BY <1>3, <2>1, <2>3, <2>4, <2>5
  <2>7. Today' \in Nat /\ Today' + Asked[c] < WORD
    <3>1. Today + Asked[c] < WORD /\ 0 + Asked[c] < WORD
      BY <1>6, <1>8, <2>1, <2>6, WordAssumption
    <3> QED
      BY <1>6, <1>9, <3>1 DEF Joins
  <2>8. Today' + Asked[c] <= D
    BY <1>3, <2>1, <2>3, <2>4, <2>5, <2>7 DEF WrappingAdd
  <2>9. Fits(D, P, l, Flying', Today', Asked)
    BY <1>3, <1>4, <2>1, <2>7, <2>8, FitsEnter
  <2> QED
    BY <1>7, <2>1, <2>6, <2>9
<1>10. ASSUME NEW c \in Callers, Clears(c)
       PROVE  /\ \A d \in Flying' : Asked[d] <= P
              /\ Fits(D, P, l, Flying', Today', Asked)
  <2>1. Flying' = Flying /\ Flying # Callers /\ Today' \in {Today, 0}
    BY <1>10 DEF Clears
  <2>2. Fits(D, P, k, Flying, 0, Asked)
    <3>1. k >= 1 /\ k \in Nat
      BY <1>4, <2>1
    <3> HIDE DEF k
    <3> QED
      BY <1>3, <3>1, FitsCleared
  <2> QED
    BY <1>7, <2>1, <2>2
<1>11. ASSUME NEW c \in Callers, Leaves(c) \/ Counts(c)
       PROVE  /\ \A d \in Flying' : Asked[d] <= P
              /\ Fits(D, P, l, Flying', Today', Asked)
  <2>1. c \in Flying /\ Flying' = Flying \ {c}
    BY <1>11 DEF Leaves, Counts
  <2>2. l = k + 1
    BY <1>2, <2>1, RoomType
  <2> HIDE DEF k, l
  <2>3. \A d \in Flying : Asked[d] \in Nat /\ Asked[d] <= P
    BY <1>2, <1>6, <1>7
  <2>4. Fits(D, P, k + 1, Flying \ {c}, Today, Asked)
    BY <1>3, <1>4, <1>6, <1>7, <2>1, <2>3, FitsLeave
  <2>5. Fits(D, P, k + 1, Flying \ {c}, Today + Asked[c], Asked)
    BY <1>3, <1>4, <1>6, <1>7, <2>1, <2>3, FitsRecord
  <2>6. WrappingAdd(Today, Asked[c]) = Today + Asked[c]
    BY <1>8, <2>1, <2>3 DEF WrappingAdd
  <2>7. Today' \in {Today, Today + Asked[c]}
    BY <1>11, <2>6 DEF Leaves, Counts
  <2> QED
    BY <2>1, <2>2, <2>3, <2>4, <2>5, <2>7
<1>12. ASSUME Flying' = Flying, Today' = Today
       PROVE  /\ \A d \in Flying' : Asked[d] <= P
              /\ Fits(D, P, l, Flying', Today', Asked)
  BY <1>7, <1>12
<1>13. ASSUME Flying' = {}, Today' = 0
       PROVE  /\ \A d \in Flying' : Asked[d] <= P
              /\ Fits(D, P, l, Flying', Today', Asked)
  <2>1. l >= 1 /\ l \in Nat
    BY <1>4, <1>13
  <2> HIDE DEF l
  <2> QED
    BY <1>3, <1>13, <2>1, FitsCleared
<1>14. FlowEffect
  <2>1. CASE Restart
    BY <2>1 DEF Restart, FlowEffect, Flying, InFlight, FlowSteps, Today
  <2>2. CASE Tick \/ UNCHANGED vars
    BY <2>2 DEF Tick, vars, statics, FlowEffect, Flying, InFlight, Today
  <2> QED
    BY <1>1, <2>1, <2>2, EffectOfCall, EffectOfContinue DEF Next
<1> HIDE DEF l
<1> QED
  BY <1>9, <1>10, <1>11, <1>12, <1>13, <1>14 DEF FlowEffect

(* The overshoot, for any finite number of callers in one process and any  *)
(* schedule: however their checks and records interleave, the day's total  *)
(* exceeds the largest daily limit by at most one largest transaction for  *)
(* every caller but one.  The hypothesis says that this sum fits a u64.    *)
THEOREM OvershootLimited ==
  ASSUME IsFiniteSet(Callers), Callers # {}, TotalsFit
  PROVE  Spec => []OvershootBounded
<1>1. Init => GivenPolicy /\ Overshoot
  <2> SUFFICES ASSUME Init PROVE Overshoot
    BY DEF Init, GivenPolicy
  <2>1. Flying = {} /\ Today = 0
    BY DEF Init, Flying, InFlight, FlowSteps, Today
  <2>2. RoomBeside(Flying) \in Nat /\ RoomBeside(Flying) >= 1
    BY <2>1, RoomType
  <2>3. Fits(LargestDaily, LargestPerTx, RoomBeside(Flying), Flying, 0, Asked)
    BY <2>2, LargestType, FitsCleared
  <2> QED
    BY <2>1, <2>3 DEF Overshoot
<1>2. TypeInv /\ GivenPolicy /\ [Next]_vars => GivenPolicy'
  BY GivenPolicyStep
<1>3. TypeInv /\ GivenPolicy /\ Overshoot /\ [Next]_vars => Overshoot'
  BY OvershootStep
<1>4. TypeInv /\ Overshoot => OvershootBounded
  <2> SUFFICES ASSUME TypeOK, Overshoot, engine # None PROVE OvershootBounded
    BY DEF TypeInv, OvershootBounded
  <2>1. Today <= LargestDaily + (Cardinality(Callers) - 1) * LargestPerTx
    BY NoWrap
  <2> QED
    BY <2>1 DEF OvershootBounded, Today
<1> QED
  BY <1>1, <1>2, <1>3, <1>4, TypeInit, TypeStep, PTL DEF Spec

-----------------------------------------------------------------------------
(* Remainders modulo WORD.                                                 *)

(* Division with remainder.                                                *)
LEMMA Remainder ==
  ASSUME NEW a \in Nat
  PROVE  \E q \in Int, p \in Int, r \in Int :
            r = a % WORD /\ p = q * WORD /\ a = p + r /\ 0 <= r /\ r < WORD
<1>0. WORD \in Nat /\ WORD > 0
  BY WordAssumption
<1>1. PICK q \in Int : q = a \div WORD
  BY <1>0
<1>2. PICK r \in Int : r = a % WORD /\ 0 <= r /\ r < WORD
  BY <1>0
<1>3. PICK p \in Int : p = q * WORD
  BY <1>0
<1>4. a = p + r
  BY <1>0, <1>1, <1>2, <1>3
<1> QED
  BY <1>2, <1>3, <1>4, Zenon

(* A u64 is its own remainder.                                            *)
LEMMA Small == ASSUME NEW a \in u64 PROVE a % WORD = a
BY WordAssumption DEF u64

(* Multiples of WORD that are less than two of them apart.                 *)
LEMMA Multiples ==
  ASSUME NEW p \in Int, NEW q \in Int, NEW P \in Int, P = p * WORD,
         NEW Q \in Int, Q = q * WORD, 0 - WORD < P - Q, P - Q < WORD + WORD
  PROVE  P = Q \/ P = Q + WORD
<1>0. WORD \in Nat /\ WORD > 0
  BY WordAssumption
<1> DEFINE d == p - q
<1>1. P - Q = d * WORD /\ d \in Int
  BY <1>0
<1> HIDE DEF d
<1>2. d >= 2 => d * WORD >= WORD + WORD
  BY <1>0, <1>1
<1>3. d <= -1 => d * WORD <= 0 - WORD
  BY <1>0, <1>1
<1>4. d = 0 \/ d = 1
  BY <1>0, <1>1, <1>2, <1>3
<1>5. d = 0 => d * WORD = 0
  BY <1>0
<1>6. d = 1 => d * WORD = WORD
  BY <1>0
<1> QED
  BY <1>0, <1>1, <1>4, <1>5, <1>6

(* Adding to a remainder: what record_spending does to total_all_time.     *)
LEMMA ModAdd ==
  ASSUME NEW a \in Nat, NEW b \in u64
  PROVE  (a + b) % WORD = WrappingAdd(a % WORD, b)
<1>0. a + b \in Nat /\ b \in Nat /\ b < WORD /\ WORD \in Nat
  BY WordAssumption DEF u64
<1>1. PICK q \in Int, Q \in Int, r \in Int :
        r = a % WORD /\ Q = q * WORD /\ a = Q + r /\ 0 <= r /\ r < WORD
  BY Remainder, Zenon
<1>2. PICK p \in Int, P \in Int, s \in Int :
        /\ s = (a + b) % WORD /\ P = p * WORD
        /\ a + b = P + s /\ 0 <= s /\ s < WORD
  BY <1>0, Remainder, Zenon
<1>3. a = Q + r /\ 0 <= r /\ r < WORD /\ a + b = P + s /\ 0 <= s /\ s < WORD
  BY <1>1, <1>2, Zenon
<1>4. P = Q \/ P = Q + WORD
  <2>1. 0 - WORD < P - Q /\ P - Q < WORD + WORD
    BY <1>0, <1>3
  <2> QED
    BY <1>1, <1>2, <2>1, Multiples, Zenon
<1>5. s = WrappingAdd(r, b)
  BY <1>0, <1>3, <1>4 DEF WrappingAdd
<1> QED
  BY <1>1, <1>2, <1>5, Zenon

-----------------------------------------------------------------------------
(* Sums over the ledger *)

LEMMA LedgerDomain ==
  ASSUME TypeOK
  PROVE  /\ DOMAIN ledger = 1 .. Len(ledger) /\ Len(ledger) \in Nat
         /\ IsFiniteSet(DOMAIN ledger)
         /\ \A S \in SUBSET DOMAIN ledger : IsFiniteSet(S)
         /\ \A i \in DOMAIN ledger :
               /\ ledger[i] \in Entry /\ ledger[i].amount \in Nat
               /\ ledger[i].at \in Nat /\ ledger[i].epoch \in Nat
<1>1. ledger \in Seq(Entry)
  BY DEF TypeOK
<1>2. DOMAIN ledger = 1 .. Len(ledger) /\ Len(ledger) \in Nat
  BY <1>1
<1>3. IsFiniteSet(1 .. Len(ledger))
  BY <1>2, FS_Interval
<1>4. IsFiniteSet(DOMAIN ledger)
  BY <1>2, <1>3
<1>5. \A S \in SUBSET DOMAIN ledger : IsFiniteSet(S)
  BY <1>4, FS_Subset
<1>6. \A i \in DOMAIN ledger : ledger[i] \in Entry
  BY <1>1
<1>7. \A e \in Entry : e.amount \in Nat /\ e.at \in Nat /\ e.epoch \in Nat
  BY DEF Entry, u64
<1> QED
  BY <1>2, <1>4, <1>5, <1>6, <1>7

(* The amounts of a ledger l.                                              *)
Prices(l) == [i \in DOMAIN l |-> l[i].amount]

LEMMA SpentIs ==
  ASSUME NEW S
  PROVE  Spent(S) = SumFunctionOnSet(Prices(ledger), S)
BY DEF Spent, Prices

LEMMA PricesType ==
  ASSUME TypeOK
  PROVE  \A i \in DOMAIN ledger : Prices(ledger)[i] = ledger[i].amount
                                  /\ Prices(ledger)[i] \in Nat
BY LedgerDomain DEF Prices

(* What was spent is a number, less in a part, and the sum of two parts.   *)
LEMMA SpentType ==
  ASSUME TypeOK, NEW S \in SUBSET DOMAIN ledger
  PROVE  Spent(S) \in Nat
<1>1. IsFiniteSet(S) /\ \A i \in S : Prices(ledger)[i] \in Nat
  BY LedgerDomain, PricesType
<1> QED
  BY <1>1, SumType, SpentIs

LEMMA SpentPart ==
  ASSUME TypeOK, NEW S \in SUBSET DOMAIN ledger, NEW T \in SUBSET S
  PROVE  Spent(T) <= Spent(S)
<1>1. IsFiniteSet(S) /\ \A i \in S : Prices(ledger)[i] \in Nat
  BY LedgerDomain, PricesType
<1> QED
  BY <1>1, SumSubset, SpentIs

LEMMA SpentParts ==
  ASSUME TypeOK, NEW S \in SUBSET DOMAIN ledger, NEW T \in SUBSET DOMAIN ledger,
         S \cap T = {}
  PROVE  Spent(S \cup T) = Spent(S) + Spent(T)
<1>1. IsFiniteSet(S) /\ IsFiniteSet(T)
      /\ \A i \in S \cup T : Prices(ledger)[i] \in Nat
  BY LedgerDomain, PricesType
<1> QED
  BY <1>1, SumUnion, SpentIs

(* One more transaction.                                                   *)
LEMMA SpentMore ==
  ASSUME TypeOK, NEW S \in SUBSET DOMAIN ledger, NEW i \in DOMAIN ledger,
         i \notin S
  PROVE  Spent(S \cup {i}) = Spent(S) + ledger[i].amount
<1>1. IsFiniteSet(S) /\ (\A x \in S \cup {i} : Prices(ledger)[x] \in Nat)
      /\ Prices(ledger)[i] = ledger[i].amount
  BY LedgerDomain, PricesType
<1>2. Spent(S) \in Nat /\ ledger[i].amount \in Nat
  BY SpentType, LedgerDomain
<1>3. Spent(S \cup {i}) = ledger[i].amount + Spent(S)
  BY <1>1, SumAdd, SpentIs
<1> QED
  BY <1>2, <1>3

(* A step that keeps the amounts keeps the sum.                            *)
LEMMA SpentKept ==
  ASSUME TypeOK, NEW S \in SUBSET DOMAIN ledger, S \subseteq DOMAIN ledger',
         \A i \in S : ledger'[i].amount = ledger[i].amount
  PROVE  SumFunctionOnSet(Prices(ledger'), S) = Spent(S)
<1>1. IsFiniteSet(S) /\ \A i \in S : Prices(ledger)[i] \in Nat
  BY LedgerDomain, PricesType
<1>2. \A i \in S : Prices(ledger')[i] = Prices(ledger)[i]
  BY DEF Prices
<1> QED
  BY <1>1, <1>2, SumSame, SpentIs

-----------------------------------------------------------------------------
(* What a step may do to the ledger *)

(* Between an acknowledged submit and the local record.                    *)
Awaiting(c) == pc[c] \in {"record_spend", "record"}

Total == IF engine = None THEN 0 ELSE engine.total_all_time

(* No transaction is executed or recorded, no process restarts.            *)
Quiet ==
    /\ UNCHANGED <<ledger, restarts>>
    /\ \A d \in Callers : Awaiting(d)' => Awaiting(d) /\ loc'[d] = loc[d]
    /\ Total' = Total
    /\ engine' = None => engine = None

LEMMA LockedTotal ==
  ASSUME TypeOK PROVE Locked \in Engine /\ Locked.total_all_time = Total
<1>1. engine = None => Locked.total_all_time = 0
  BY DEF Locked, NewEngine
<1> QED
  BY <1>1, LockedType DEF Locked, Total

(* The engine's operations other than record_spending keep the total.      *)
LEMMA TotalKept ==
  ASSUME TypeOK,
         \/ engine' = engine
         \/ engine' = Locked
         \/ \E p \in Policy : engine' = set_policy(Locked, p)
         \/ \E t \in Nat : engine' = reset_if_needed(Locked, t)
  PROVE  Total' = Total /\ (engine' = None => engine = None)
<1>0. Locked \in Engine /\ Locked.total_all_time = Total /\ None \notin Engine
  BY LockedTotal, NoneAssumption
<1>1. CASE engine' = engine
  BY <1>1 DEF Total
<1>2. CASE engine' = Locked
  BY <1>0, <1>2 DEF Total
<1>3. ASSUME NEW p \in Policy, engine' = set_policy(Locked, p)
      PROVE  Total' = Total /\ engine' # None
  <2>1. engine' \in Engine /\ engine'.total_all_time = Locked.total_all_time
    BY <1>0, <1>3, SetPolicyType DEF set_policy, Engine
  <2> QED
    BY <1>0, <2>1 DEF Total
<1>4. ASSUME NEW t \in Nat, engine' = reset_if_needed(Locked, t)
      PROVE  Total' = Total /\ engine' # None
  <2>1. engine' \in Engine
    BY <1>0, <1>4, ResetType
  <2>2. engine'.total_all_time = Locked.total_all_time
    BY <1>0, <1>4 DEF reset_if_needed, Engine
  <2> QED
    BY <1>0, <2>1, <2>2 DEF Total
<1> QED
  BY <1>1, <1>2, <1>3, <1>4

(* Nobody starts to await a record without an acknowledged submit.         *)
LEMMA AwaitingMoves ==
  ASSUME TypeOK, NEW c \in Callers, NEW l, Goto(c, l),
         l \notin {"record_spend", "record"},
         \A d \in Callers : d # c => loc'[d] = loc[d]
  PROVE  \A d \in Callers : Awaiting(d)' => Awaiting(d) /\ loc'[d] = loc[d]
BY DEF TypeOK, Goto, Awaiting

LEMMA AwaitingReturns ==
  ASSUME TypeOK, NEW c \in Callers, Return(c)
  PROVE  \A d \in Callers : Awaiting(d)' => Awaiting(d) /\ loc'[d] = loc[d]
<1>1. Goto(c, "idle") /\ \A d \in Callers : d # c => loc'[d] = loc[d]
  BY DEF Return, TypeOK
<1> QED
  BY <1>1, AwaitingMoves

LEMMA QuietCall ==
  ASSUME TypeOK, NEW c \in Callers, Call(c)
  PROVE  Quiet
<1>1. ASSUME UNCHANGED <<pc, loc>>
      PROVE  \A d \in Callers : Awaiting(d)' => Awaiting(d) /\ loc'[d] = loc[d]
  BY <1>1 DEF Awaiting
<1>2. ASSUME SetPolicy(c) PROVE Quiet
  <2>1. Total' = Total /\ (engine' = None => engine = None)
    BY <1>2, TotalKept, InputAssumption DEF SetPolicy
  <2> QED
    BY <1>1, <1>2, <2>1 DEF SetPolicy, Quiet
<1>3. ASSUME CheckPolicy(c) PROVE Quiet
  <2>1. Total' = Total /\ (engine' = None => engine = None)
    BY <1>3, TotalKept DEF CheckPolicy
  <2> QED
    BY <1>1, <1>3, <2>1 DEF CheckPolicy, Quiet
<1>4. ASSUME GetSpendingSummary(c) PROVE Quiet
  <2>1. Total' = Total /\ (engine' = None => engine = None)
    BY <1>4, TotalKept DEF GetSpendingSummary, TypeOK
  <2> QED
    BY <1>1, <1>4, <2>1 DEF GetSpendingSummary, Quiet
<1>5. ASSUME GenerateKeys(c) PROVE Quiet
  BY <1>1, <1>5 DEF GenerateKeys, Quiet, Total
<1>6. ASSUME MandateInit(c) PROVE Quiet
  <2>1. Goto(c, "fetch_mandate") \/ UNCHANGED pc
    BY <1>6 DEF MandateInit
  <2>2. UNCHANGED <<loc, engine, ledger, restarts>>
    BY <1>6 DEF MandateInit
  <2>3. \A d \in Callers : Awaiting(d)' => Awaiting(d) /\ loc'[d] = loc[d]
    BY <1>1, <2>1, <2>2, AwaitingMoves
  <2> QED
    BY <2>2, <2>3 DEF Quiet, Total
<1>7. ASSUME Begin(c) PROVE Quiet
  <2>1. Goto(c, "preflight") /\ UNCHANGED <<engine, ledger, restarts>>
    BY <1>7 DEF Begin, statics
  <2>2. \A d \in Callers : d # c => loc'[d] = loc[d]
    BY <1>7 DEF Begin, TypeOK
  <2>3. \A d \in Callers : Awaiting(d)' => Awaiting(d) /\ loc'[d] = loc[d]
    BY <2>1, <2>2, AwaitingMoves
  <2> QED
    BY <2>1, <2>3 DEF Quiet, Total
<1> QED
  BY <1>2, <1>3, <1>4, <1>5, <1>6, <1>7 DEF Call

LEMMA QuietContinue ==
  ASSUME TypeOK, NEW c \in Callers, Continue(c)
  PROVE  Quiet \/ SubmitAcknowledged(c) \/ SubmitReplyLost(c) \/ Record(c)
<1>1. ASSUME Hydrate(c) PROVE Quiet
  <2>1. PICK m \in Mandates :
          /\ engine' = set_policy(Locked, [spending |-> m,
                                           secrets |-> Locked.policy.secrets])
          /\ loc' = [loc EXCEPT ![c].info = m]
    BY <1>1 DEF Hydrate
  <2>2. [spending |-> m, secrets |-> Locked.policy.secrets] \in Policy
    BY LockedType, InputAssumption DEF Engine, Policy
  <2>3. Total' = Total /\ (engine' = None => engine = None)
    BY <2>1, <2>2, TotalKept
  <2>4. Goto(c, "store_info") /\ \A d \in Callers : d # c => loc'[d] = loc[d]
    BY <1>1, <2>1 DEF Hydrate, TypeOK
  <2>5. \A d \in Callers : Awaiting(d)' => Awaiting(d) /\ loc'[d] = loc[d]
    BY <2>4, AwaitingMoves
  <2> QED
    BY <1>1, <2>3, <2>5 DEF Hydrate, Quiet
<1>2. ASSUME Return(c), UNCHANGED <<engine, ledger, restarts>> PROVE Quiet
  BY <1>2, AwaitingReturns DEF Quiet, Total
<1>3. ASSUME Preflight(c) PROVE Quiet
  <2>1. loc[c].now \in Nat
    BY DEF TypeOK, Locals
  <2>2. engine' = reset_if_needed(Locked, loc[c].now)
    BY <1>3 DEF Preflight
  <2>3. Total' = Total /\ (engine' = None => engine = None)
    BY <2>1, <2>2, TotalKept
  <2>4. Return(c) \/ (Goto(c, "check_spend") /\ UNCHANGED loc)
    BY <1>3 DEF Preflight
  <2>5. \A d \in Callers : Awaiting(d)' => Awaiting(d) /\ loc'[d] = loc[d]
    BY <2>4, AwaitingMoves, AwaitingReturns
  <2> QED
    BY <1>3, <2>3, <2>5 DEF Preflight, Quiet
<1>4. ASSUME CheckSpendAnswered(c) PROVE Quiet
  <2>1. Goto(c, "prepare") /\ UNCHANGED <<loc, engine, ledger, restarts>>
    BY <1>4 DEF CheckSpendAnswered, statics
  <2>2. \A d \in Callers : Awaiting(d)' => Awaiting(d) /\ loc'[d] = loc[d]
    BY <2>1, AwaitingMoves
  <2> QED
    BY <2>1, <2>2 DEF Quiet, Total
<1>5. ASSUME Prepare(c) PROVE Quiet
  <2>1. /\ UNCHANGED <<engine, ledger, restarts>>
        /\ \A d \in Callers : d # c => loc'[d] = loc[d]
        /\ Return(c) \/ Goto(c, "submit")
    BY <1>5 DEF Prepare, Return, statics, TypeOK
  <2>2. \A d \in Callers : Awaiting(d)' => Awaiting(d) /\ loc'[d] = loc[d]
    BY <2>1, AwaitingMoves, AwaitingReturns
  <2> QED
    BY <2>1, <2>2 DEF Quiet, Total
<1>6. ASSUME RecordSpendSent(c) PROVE Quiet
  BY <1>6 DEF RecordSpendSent, Goto, Awaiting, Quiet, Total, statics, TypeOK
<1> QED
  BY <1>1, <1>2, <1>3, <1>4, <1>5, <1>6
  DEF Continue, StoreInfo, HydrateFails, BackendRefuses, statics

LEMMA QuietStep ==
  ASSUME TypeOK, [Next]_vars
  PROVE  \/ Quiet
         \/ Restart
         \/ \E c \in Callers :
               SubmitAcknowledged(c) \/ SubmitReplyLost(c) \/ Record(c)
<1>1. ASSUME Tick \/ UNCHANGED vars PROVE Quiet
  BY <1>1 DEF Tick, vars, statics, Quiet, Awaiting, Total
<1> QED
  BY <1>1, QuietCall, QuietContinue DEF Next

(* The entries after a submit that was executed, after a record, and after *)
(* a restart.                                                              *)
SameEntry(i) ==
    /\ ledger'[i].amount = ledger[i].amount
    /\ ledger'[i].at = ledger[i].at
    /\ ledger'[i].epoch = ledger[i].epoch

LEMMA EntriesAfterSubmit ==
  ASSUME TypeOK, NEW e \in Entry, ledger' = Append(ledger, e)
  PROVE  /\ DOMAIN ledger' = DOMAIN ledger \cup {Len(ledger) + 1}
         /\ Len(ledger) + 1 \notin DOMAIN ledger
         /\ \A i \in DOMAIN ledger : ledger'[i] = ledger[i]
         /\ ledger'[Len(ledger) + 1] = e
<1>1. ledger \in Seq(Entry)
  BY DEF TypeOK
<1> QED
  BY <1>1

LEMMA EntriesAfterRecord ==
  ASSUME TypeOK, NEW c \in Callers, Record(c), loc[c].tx \in DOMAIN ledger
  PROVE  /\ DOMAIN ledger' = DOMAIN ledger
         /\ ledger'[loc[c].tx].status = "recorded"
         /\ \A i \in DOMAIN ledger :
               SameEntry(i) /\ (i # loc[c].tx => ledger'[i] = ledger[i])
<1>1. ledger' = [ledger EXCEPT ![loc[c].tx].status = "recorded"]
  BY DEF Record
<1>2. \A i \in DOMAIN ledger : ledger[i] \in Entry
  BY LedgerDomain
<1>3. \A e \in Entry : LET r == [e EXCEPT !.status = "recorded"]
                       IN  /\ r.status = "recorded" /\ r.amount = e.amount
                           /\ r.at = e.at /\ r.epoch = e.epoch
  BY DEF Entry
<1> QED
  BY <1>1, <1>2, <1>3 DEF SameEntry

LEMMA EntriesAfterRestart ==
  ASSUME TypeOK, Restart
  PROVE  /\ DOMAIN ledger' = DOMAIN ledger
         /\ \A i \in DOMAIN ledger :
               /\ SameEntry(i)
               /\ ledger'[i].status = "recorded" <=> ledger[i].status = "recorded"
<1>1. ledger' = [i \in DOMAIN ledger |->
                    [ledger[i] EXCEPT !.status =
                        IF @ = "pending" THEN "lost" ELSE @]]
  BY DEF Restart
<1>2. \A i \in DOMAIN ledger : ledger[i] \in Entry
  BY LedgerDomain
<1>3. \A e \in Entry : LET r == [e EXCEPT !.status =
                                    IF @ = "pending" THEN "lost" ELSE @]
                       IN  /\ r.amount = e.amount /\ r.at = e.at
                           /\ r.epoch = e.epoch
                           /\ r.status = "recorded" <=> e.status = "recorded"
  BY DEF Entry
<1> QED
  BY <1>1, <1>2, <1>3 DEF SameEntry

-----------------------------------------------------------------------------
(* The all-time total, for any number of callers.  The strengthening: a    *)
(* caller that is about to record has an entry of its own that waits for   *)
(* it, of its amount and of this process.                                  *)
Waiting(c) ==
    /\ loc[c].tx \in DOMAIN ledger
    /\ ledger[loc[c].tx].amount = loc[c].amount
    /\ ledger[loc[c].tx].status = "pending"
    /\ ledger[loc[c].tx].epoch = restarts

OwnEntry ==
    /\ \A c \in Callers : Awaiting(c) => Waiting(c)
    /\ \A c, d \in Callers :
          Awaiting(c) /\ Awaiting(d) /\ loc[c].tx = loc[d].tx => c = d

(* Nothing was executed by a process yet to start or by one without an     *)
(* engine, because a flow in flight has been through the pre-flight check. *)
EngineFirst ==
    /\ \A c \in Callers : InFlight(c) => engine # None
    /\ \A i \in DOMAIN ledger : ledger[i].epoch <= restarts
    /\ engine = None => \A i \in DOMAIN ledger : ledger[i].epoch < restarts

LEMMA EngineStays ==
  ASSUME TypeOK, [Next]_vars, ~Restart
  PROVE  engine' = None => engine = None
<1>1. ASSUME NEW c \in Callers, Record(c) PROVE engine' # None
  <2>1. loc[c].amount \in u64 /\ Locked \in Engine
    BY LockedType DEF TypeOK, Locals
  <2>2. engine' \in Engine
    BY <1>1, <2>1, RecordType DEF Record
  <2> QED
    BY <2>2, NoneAssumption
<1> QED
  BY <1>1, QuietStep DEF Quiet, SubmitAcknowledged, SubmitReplyLost, statics

LEMMA EngineFirstStep == TypeInv /\ EngineFirst /\ [Next]_vars => EngineFirst'
<1> SUFFICES ASSUME TypeInv, EngineFirst, [Next]_vars PROVE EngineFirst'
  OBVIOUS
<1>0. TypeOK /\ restarts \in Nat
  BY DEF TypeInv, TypeOK
<1>1. \A i \in DOMAIN ledger : ledger[i].epoch \in Nat
  BY <1>0, LedgerDomain
<1>2. CASE Restart
  <2>1. restarts' = restarts + 1 /\ \A c \in Callers : ~InFlight(c)'
    BY <1>2 DEF Restart, InFlight, FlowSteps
  <2>2. \A i \in DOMAIN ledger' : i \in DOMAIN ledger
                                  /\ ledger'[i].epoch = ledger[i].epoch
    BY <1>0, <1>2, EntriesAfterRestart DEF SameEntry
  <2>3. \A i \in DOMAIN ledger' : ledger'[i].epoch < restarts'
                                  /\ ledger'[i].epoch <= restarts'
    BY <1>0, <1>1, <2>1, <2>2 DEF EngineFirst
  <2> QED
    BY <2>1, <2>3 DEF EngineFirst
<1>3. CASE ~Restart
  <2>1. restarts' = restarts /\ (engine' = None => engine = None)
    BY <1>0, <1>3, EngineStays, RestartsStep
  <2>2. ASSUME NEW d \in Callers, InFlight(d)' PROVE engine' # None
    <3>1. CASE InFlight(d)
      BY <2>1, <3>1 DEF EngineFirst
    <3>2. CASE Preflight(d)
      <4>1. loc[d].now \in Nat /\ Locked \in Engine
        BY <1>0, LockedType DEF TypeOK, Locals
      <4>2. engine' \in Engine
        BY <3>2, <4>1, ResetType DEF Preflight
      <4> QED
        BY <4>2, NoneAssumption
    <3> QED
      BY <2>2, <3>1, <3>2, InFlightStep
  <2>3. ASSUME NEW i \in DOMAIN ledger'
        PROVE  /\ ledger'[i].epoch <= restarts'
               /\ engine' = None => ledger'[i].epoch < restarts'
    <3>1. ASSUME i \in DOMAIN ledger, ledger'[i].epoch = ledger[i].epoch
          PROVE  /\ ledger'[i].epoch <= restarts'
                 /\ engine' = None => ledger'[i].epoch < restarts'
      BY <2>1, <3>1 DEF EngineFirst
    <3>2. ASSUME NEW c \in Callers, NEW st, pc[c] = "submit",
                 ledger'[i] = Executed(c, st), UNCHANGED statics
          PROVE  /\ ledger'[i].epoch <= restarts'
                 /\ engine' = None => ledger'[i].epoch < restarts'
      <4>1. InFlight(c) /\ engine' = engine /\ ledger'[i].epoch = restarts
        BY <3>2 DEF InFlight, FlowSteps, statics, Executed
      <4> QED
        BY <1>0, <2>1, <4>1 DEF EngineFirst
    <3> QED
      BY <3>1, <3>2, LedgerStep
  <2> QED
    BY <2>2, <2>3 DEF EngineFirst
<1> QED
  BY <1>2, <1>3

LEMMA OwnEntryStep == TypeInv /\ OwnEntry /\ [Next]_vars => OwnEntry'
<1> SUFFICES ASSUME TypeInv, OwnEntry, [Next]_vars PROVE OwnEntry'
  OBVIOUS
<1>0. TypeOK /\ FlowHasRecipient
  BY DEF TypeInv
<1>1. CASE Quiet
  <2>1. ASSUME NEW c \in Callers, Awaiting(c)'
        PROVE  Awaiting(c) /\ loc'[c] = loc[c] /\ Waiting(c)'
    BY <1>1, <2>1 DEF Quiet, OwnEntry, Waiting
  <2> QED
    BY <2>1 DEF OwnEntry
<1>2. CASE Restart
  BY <1>2 DEF Restart, OwnEntry, Awaiting
<1>3. ASSUME NEW c \in Callers, NEW st \in {"pending", "lost"},
             ledger' = Append(ledger, Executed(c, st)), pc[c] = "submit"
      PROVE  /\ DOMAIN ledger' = DOMAIN ledger \cup {Len(ledger) + 1}
             /\ Len(ledger) + 1 \notin DOMAIN ledger
             /\ \A i \in DOMAIN ledger : ledger'[i] = ledger[i]
             /\ ledger'[Len(ledger) + 1] = Executed(c, st)
  <2>1. InFlight(c)
    BY <1>3 DEF InFlight, FlowSteps
  <2>2. Executed(c, st) \in Entry
    BY <1>0, <2>1, ExecutedType
  <2> QED
    BY <1>0, <1>3, <2>2, EntriesAfterSubmit
<1>4. ASSUME NEW c \in Callers, SubmitReplyLost(c) PROVE OwnEntry'
  <2>1. /\ restarts' = restarts /\ Return(c) /\ pc[c] = "submit"
        /\ ledger' = Append(ledger, Executed(c, "lost"))
    BY <1>4 DEF SubmitReplyLost
  <2>2. \A i \in DOMAIN ledger : i \in DOMAIN ledger' /\ ledger'[i] = ledger[i]
    BY <1>3, <2>1
  <2>3. ASSUME NEW d \in Callers, Awaiting(d)'
        PROVE  Awaiting(d) /\ loc'[d] = loc[d] /\ Waiting(d)'
    <3>1. Awaiting(d) /\ loc'[d] = loc[d]
      BY <1>0, <2>1, <2>3, AwaitingReturns
    <3> QED
      BY <2>1, <2>2, <3>1 DEF OwnEntry, Waiting
  <2> QED
    BY <2>3 DEF OwnEntry
<1>5. ASSUME NEW c \in Callers, SubmitAcknowledged(c) PROVE OwnEntry'
  <2>1. /\ restarts' = restarts /\ pc[c] = "submit"
        /\ ledger' = Append(ledger, Executed(c, "pending"))
        /\ loc' = [loc EXCEPT ![c].tx = Len(ledger) + 1]
        /\ Goto(c, "record_spend")
    BY <1>5 DEF SubmitAcknowledged
  <2>2. /\ \A i \in DOMAIN ledger : i \in DOMAIN ledger' /\ ledger'[i] = ledger[i]
        /\ Len(ledger) + 1 \in DOMAIN ledger' \ DOMAIN ledger
        /\ ledger'[Len(ledger) + 1] = Executed(c, "pending")
    BY <1>3, <2>1
  <2>3. loc'[c].tx = Len(ledger) + 1 /\ loc'[c].amount = loc[c].amount
    BY <1>0, <2>1 DEF TypeOK, Locals
  <2>4. Waiting(c)'
    BY <2>1, <2>2, <2>3 DEF Waiting, Executed
  <2>5. ASSUME NEW d \in Callers, d # c, Awaiting(d)'
        PROVE  Awaiting(d) /\ loc'[d] = loc[d] /\ loc[d].tx \in DOMAIN ledger
               /\ Waiting(d)'
    <3>1. Awaiting(d) /\ loc'[d] = loc[d]
      BY <1>0, <2>1, <2>5 DEF Awaiting, Goto, TypeOK
    <3> QED
      BY <2>1, <2>2, <3>1 DEF OwnEntry, Waiting
  <2> QED
    BY <2>2, <2>3, <2>4, <2>5 DEF OwnEntry
<1>6. ASSUME NEW c \in Callers, Record(c) PROVE OwnEntry'
  <2>1. Awaiting(c) /\ Waiting(c) /\ Return(c) /\ restarts' = restarts
    BY <1>6 DEF Record, OwnEntry, Awaiting
  <2>2. /\ DOMAIN ledger' = DOMAIN ledger
        /\ \A i \in DOMAIN ledger : i # loc[c].tx => ledger'[i] = ledger[i]
    BY <1>0, <1>6, <2>1, EntriesAfterRecord DEF Waiting
  <2>3. ASSUME NEW d \in Callers, Awaiting(d)'
        PROVE  Awaiting(d) /\ loc'[d] = loc[d] /\ Waiting(d)'
    <3>1. Awaiting(d) /\ loc'[d] = loc[d]
      BY <1>0, <2>1, <2>3, AwaitingReturns
    <3>2. d # c
      BY <1>0, <2>1, <2>3 DEF Return, Goto, Awaiting, TypeOK
    <3>3. loc[d].tx # loc[c].tx
      BY <2>1, <3>1, <3>2 DEF OwnEntry
    <3> QED
      BY <2>1, <2>2, <3>1, <3>3 DEF OwnEntry, Waiting
  <2> QED
    BY <2>3 DEF OwnEntry
<1> QED
  BY <1>0, <1>1, <1>2, <1>4, <1>5, <1>6, QuietStep

(* Only a record changes what is recorded; no step changes an entry's      *)
(* amount, time or process.                                                *)
LEMMA RecordedKept ==
  ASSUME TypeInv, [Next]_vars, \A c \in Callers : ~Record(c)
  PROVE  /\ Recorded' = Recorded
         /\ \A i \in DOMAIN ledger : i \in DOMAIN ledger' /\ SameEntry(i)
<1>0. TypeOK /\ FlowHasRecipient
  BY DEF TypeInv
<1>1. CASE Quiet
  BY <1>1 DEF Quiet, Recorded, SameEntry
<1>2. CASE Restart
  BY <1>0, <1>2, EntriesAfterRestart DEF Recorded
<1>3. ASSUME NEW c \in Callers, NEW st \in {"pending", "lost"},
             ledger' = Append(ledger, Executed(c, st)), pc[c] = "submit"
      PROVE  /\ Recorded' = Recorded
             /\ \A i \in DOMAIN ledger : i \in DOMAIN ledger' /\ SameEntry(i)
  <2>1. InFlight(c)
    BY <1>3 DEF InFlight, FlowSteps
  <2>2. Executed(c, st) \in Entry /\ Executed(c, st).status # "recorded"
    BY <1>0, <2>1, ExecutedType DEF Executed
  <2>3. /\ DOMAIN ledger' = DOMAIN ledger \cup {Len(ledger) + 1}
        /\ \A i \in DOMAIN ledger : ledger'[i] = ledger[i]
        /\ ledger'[Len(ledger) + 1] = Executed(c, st)
    BY <1>0, <1>3, <2>2, EntriesAfterSubmit
  <2> QED
    BY <2>2, <2>3 DEF Recorded, SameEntry
<1> QED
  BY <1>0, <1>1, <1>2, <1>3, QuietStep DEF SubmitAcknowledged, SubmitReplyLost

LEMMA RecordedGrows ==
  ASSUME TypeInv, OwnEntry, NEW c \in Callers, Record(c)
  PROVE  /\ Waiting(c)
         /\ loc[c].tx \notin Recorded
         /\ Recorded' = Recorded \cup {loc[c].tx}
         /\ \A i \in DOMAIN ledger : i \in DOMAIN ledger' /\ SameEntry(i)
<1>0. TypeOK
  BY DEF TypeInv
<1>1. Waiting(c)
  BY DEF Record, OwnEntry, Awaiting
<1>2. loc[c].tx \in DOMAIN ledger /\ loc[c].tx \notin Recorded
  BY <1>1 DEF Waiting, Recorded
<1>3. /\ DOMAIN ledger' = DOMAIN ledger
      /\ ledger'[loc[c].tx].status = "recorded"
      /\ \A i \in DOMAIN ledger :
            SameEntry(i) /\ (i # loc[c].tx => ledger'[i] = ledger[i])
  BY <1>0, <1>2, EntriesAfterRecord
<1>4. Recorded' = Recorded \cup {loc[c].tx}
  BY <1>2, <1>3 DEF Recorded
<1> QED
  BY <1>1, <1>2, <1>3, <1>4

(* What this process recorded.                                             *)
Mine == {i \in Recorded : ledger[i].epoch = restarts}

TotalIsSpent == Total = Spent(Mine) % WORD

LEMMA RecordedType == Recorded \in SUBSET DOMAIN ledger /\ Mine \in SUBSET Recorded
BY DEF Mine, Recorded

LEMMA TotalStep ==
  TypeInv /\ OwnEntry /\ EngineFirst /\ TotalIsSpent /\ [Next]_vars
    => TotalIsSpent'
<1> SUFFICES ASSUME TypeInv, OwnEntry, EngineFirst, TotalIsSpent, [Next]_vars
             PROVE  TotalIsSpent'
  OBVIOUS
<1>0. TypeOK /\ restarts \in Nat /\ Recorded \in SUBSET DOMAIN ledger
      /\ Mine \in SUBSET DOMAIN ledger
  BY RecordedType DEF TypeInv, TypeOK
<1>1. CASE Restart
  <2>1. restarts' = restarts + 1 /\ Total' = 0
    BY <1>1 DEF Restart, Total
  <2>2. \A i \in DOMAIN ledger' : i \in DOMAIN ledger
                                  /\ ledger'[i].epoch = ledger[i].epoch
    BY <1>0, <1>1, EntriesAfterRestart DEF SameEntry
  <2>3. \A i \in DOMAIN ledger : ledger[i].epoch <= restarts
                                 /\ ledger[i].epoch \in Nat
    BY <1>0, LedgerDomain DEF EngineFirst
  <2>4. \A i \in DOMAIN ledger' : ledger'[i].epoch # restarts'
    BY <1>0, <2>1, <2>2, <2>3
  <2>5. Mine' = {}
    BY <2>4 DEF Mine, Recorded
  <2>6. Spent(Mine)' = 0
    BY <2>5, SumEmpty DEF Spent
  <2>7. 0 % WORD = 0
    BY Small, WordAssumption DEF u64
  <2> QED
    BY <2>1, <2>6, <2>7 DEF TotalIsSpent
<1>2. CASE ~Restart /\ \A c \in Callers : ~Record(c)
  <2>1. /\ Recorded' = Recorded
        /\ \A i \in DOMAIN ledger : i \in DOMAIN ledger' /\ SameEntry(i)
    BY <1>2, RecordedKept
  <2>2. restarts' = restarts /\ Total' = Total
    BY <1>0, <1>2, QuietStep
    DEF Quiet, SubmitAcknowledged, SubmitReplyLost, statics, Total
  <2>3. Mine' = Mine
    BY <1>0, <2>1, <2>2 DEF Mine, SameEntry
  <2>4. Spent(Mine)' = SumFunctionOnSet(Prices(ledger'), Mine)
    BY <2>3 DEF Spent, Prices
  <2>5. Spent(Mine)' = Spent(Mine)
    BY <1>0, <2>1, <2>4, SpentKept DEF SameEntry
  <2> QED
    BY <2>2, <2>5 DEF TotalIsSpent
<1>3. ASSUME NEW c \in Callers, Record(c) PROVE TotalIsSpent'
  <2> DEFINE tx == loc[c].tx
             a == loc[c].amount
             All == Mine \cup {tx}
  <2>1. /\ Waiting(c) /\ tx \notin Recorded /\ Recorded' = Recorded \cup {tx}
        /\ \A i \in DOMAIN ledger : i \in DOMAIN ledger' /\ SameEntry(i)
    BY <1>3, RecordedGrows
  <2>2. tx \in DOMAIN ledger /\ tx \notin Mine /\ ledger[tx].amount = a
        /\ ledger[tx].epoch = restarts /\ restarts' = restarts
    BY <1>3, <2>1 DEF Waiting, Mine, Record
  <2>3. a \in u64 /\ a \in Nat
    BY <1>0 DEF TypeOK, Locals, u64
  <2>4. Total' = WrappingAdd(Total, a)
    <3>1. Locked \in Engine /\ Locked.total_all_time = Total
      BY <1>0, LockedTotal
    <3>2. engine' = record_spending(Locked, a)
      BY <1>3 DEF Record
    <3>3. engine' \in Engine
      BY <2>3, <3>1, <3>2, RecordType
    <3>4. engine'.total_all_time = WrappingAdd(Locked.total_all_time, a)
      BY <3>1, <3>2 DEF record_spending, Engine
    <3> QED
      BY <3>1, <3>3, <3>4, NoneAssumption DEF Total
  <2> HIDE DEF tx, a
  <2>5. Mine' = All
    BY <1>0, <2>1, <2>2 DEF Mine, SameEntry
  <2>6. Spent(All) = Spent(Mine) + a /\ Spent(Mine) \in Nat
    BY <1>0, <2>2, SpentMore, SpentType
  <2>7. All \in SUBSET DOMAIN ledger
    BY <1>0, <2>2
  <2> HIDE DEF All
  <2>8. Spent(Mine)' = Spent(All)
    <3>1. Spent(Mine)' = SumFunctionOnSet(Prices(ledger'), All)
      BY <2>5 DEF Spent, Prices
    <3> QED
      BY <1>0, <2>1, <2>7, <3>1, SpentKept DEF SameEntry
  <2>9. (Spent(Mine) + a) % WORD = WrappingAdd(Spent(Mine) % WORD, a)
    BY <2>3, <2>6, ModAdd
  <2> QED
    BY <2>4, <2>6, <2>8, <2>9, Zenon DEF TotalIsSpent
<1> QED
  BY <1>1, <1>2, <1>3

(* The engine's all-time total, for any number of callers and however      *)
(* their flows and restarts interleave: it is the sum, modulo 2^64, of the *)
(* executed transactions that this process recorded.  None is counted      *)
(* twice, and none counted that the backend did not execute.               *)
THEOREM TotalCounts == Spec => []TotalCountsRecorded
<1>1. Init => OwnEntry /\ EngineFirst /\ TotalIsSpent
  <2> SUFFICES ASSUME Init PROVE OwnEntry /\ EngineFirst /\ TotalIsSpent
    OBVIOUS
  <2>1. DOMAIN ledger = {} /\ Mine = {} /\ Total = 0
    BY DEF Init, Mine, Recorded, Total
  <2>2. Spent(Mine) = 0
    BY <2>1, SumEmpty DEF Spent
  <2>3. 0 % WORD = 0
    BY Small, WordAssumption DEF u64
  <2>4. \A c \in Callers : ~Awaiting(c) /\ ~InFlight(c)
    BY DEF Init, Awaiting, InFlight, FlowSteps
  <2> QED
    BY <2>1, <2>2, <2>3, <2>4 DEF OwnEntry, EngineFirst, TotalIsSpent
<1>2. TotalIsSpent => TotalCountsRecorded
  BY DEF TotalIsSpent, TotalCountsRecorded, Total, Mine
<1> QED
  BY <1>1, <1>2, TypeInit, TypeStep, OwnEntryStep, EngineFirstStep, TotalStep,
     PTL DEF Spec

-----------------------------------------------------------------------------
(* Any 24 hours, for one caller.  The times an entry, a flow and a window  *)
(* can have: no entry is ahead of the clock, or of a flow that is about to *)
(* hand reset_if_needed the time it read; and what is acknowledged was     *)
(* executed inside the window that is open.                                *)
Times ==
    /\ \A i \in DOMAIN ledger : ledger[i].at <= now
    /\ \A c \in Callers : pc[c] = "preflight" =>
          \A i \in DOMAIN ledger : ledger[i].at <= loc[c].now
    /\ engine # None =>
          /\ engine.last_day_reset <= now
          /\ \A c \in Callers : Awaiting(c) =>
                ledger[loc[c].tx].at >= engine.last_day_reset

(* The window of e is the one that is open, or a new one; the caller that  *)
(* opened it is in no flow that was acknowledged.                          *)
KeepsWindow ==
    /\ engine'.last_day_reset = Locked.last_day_reset
    /\ engine'.spending_today = Locked.spending_today

OpensWindow ==
    /\ engine'.last_day_reset >= Locked.last_day_reset + DAY
    /\ engine'.spending_today = 0
    /\ UNCHANGED <<now, ledger, restarts>>
    /\ \E c \in Callers :
          /\ ~Awaiting(c)'
          /\ pc'[c] # "preflight"
          /\ \/ engine'.last_day_reset = now
             \/ pc[c] = "preflight" /\ engine'.last_day_reset = loc[c].now

LEMMA WindowEffect ==
  ASSUME TypeOK, [Next]_vars, engine' # None
  PROVE  KeepsWindow \/ OpensWindow \/ \E c \in Callers : Record(c)
<1>0. Locked \in Engine /\ now \in Nat /\ None \notin Engine
  BY LockedType, NoneAssumption DEF TypeOK
<1>1. ASSUME engine' = engine PROVE KeepsWindow
  BY <1>1 DEF KeepsWindow, Locked
<1>2. ASSUME NEW p, engine' = set_policy(Locked, p) PROVE KeepsWindow
  BY <1>0, <1>2 DEF set_policy, KeepsWindow, Engine
<1>3. ASSUME NEW t \in Nat, engine' = reset_if_needed(Locked, t)
      PROVE  \/ KeepsWindow
             \/ /\ engine'.last_day_reset = t /\ engine'.spending_today = 0
                /\ engine'.last_day_reset >= Locked.last_day_reset + DAY
  BY <1>0, <1>3, ResetWindow DEF KeepsWindow
<1>4. ASSUME NEW c \in Callers, GetSpendingSummary(c)
      PROVE  KeepsWindow \/ OpensWindow
  <2>1. /\ engine' = reset_if_needed(Locked, now)
        /\ UNCHANGED <<now, ledger, restarts>>
        /\ ~Awaiting(c)' /\ pc'[c] # "preflight"
    BY <1>4 DEF GetSpendingSummary, Awaiting
  <2> QED
    BY <1>0, <1>3, <2>1 DEF OpensWindow
<1>5. ASSUME NEW c \in Callers, Preflight(c)
      PROVE  KeepsWindow \/ OpensWindow
  <2>1. /\ engine' = reset_if_needed(Locked, loc[c].now)
        /\ UNCHANGED <<now, ledger, restarts>> /\ pc[c] = "preflight"
        /\ Goto(c, "check_spend") \/ Goto(c, "idle")
    BY <1>5 DEF Preflight, Return
  <2>2. ~Awaiting(c)' /\ pc'[c] # "preflight"
    BY <2>1 DEF Goto, Awaiting, TypeOK
  <2>3. loc[c].now \in Nat
    BY DEF TypeOK, Locals
  <2> QED
    BY <1>3, <2>1, <2>2, <2>3 DEF OpensWindow
<1>6. ASSUME NEW c \in Callers, Call(c) PROVE KeepsWindow \/ OpensWindow
  <2>1. ASSUME CheckPolicy(c) PROVE KeepsWindow
    BY <2>1 DEF CheckPolicy, KeepsWindow
  <2> QED
    BY <1>1, <1>2, <1>4, <1>6, <2>1
    DEF Call, SetPolicy, GenerateKeys, MandateInit, Begin, statics
<1>7. ASSUME NEW c \in Callers, Continue(c)
      PROVE  KeepsWindow \/ OpensWindow \/ Record(c)
  BY <1>1, <1>2, <1>5, <1>7
  DEF Continue, Hydrate, StoreInfo, HydrateFails, CheckSpendAnswered, Prepare,
      SubmitAcknowledged, SubmitReplyLost, BackendRefuses, RecordSpendSent,
      statics
<1>8. ASSUME Restart PROVE FALSE
  BY <1>8 DEF Restart
<1> QED
  BY <1>1, <1>6, <1>7, <1>8 DEF Next, Tick, vars, statics

(* A record counts in the window that is open.                             *)
LEMMA RecordWindow ==
  ASSUME TypeOK, NEW c \in Callers, Record(c)
  PROVE  engine'.last_day_reset = Locked.last_day_reset
<1>1. engine' = record_spending(Locked, loc[c].amount) /\ Locked \in Engine
  BY LockedType DEF Record
<1> QED
  BY <1>1 DEF record_spending, Engine

(* A flow is at the pre-flight check because it began just now, or was.    *)
LEMMA PreflightMoves ==
  ASSUME TypeOK, [Next]_vars, NEW d \in Callers, pc'[d] = "preflight"
  PROVE  \/ pc[d] = "preflight" /\ loc'[d] = loc[d]
         \/ loc'[d].now = now /\ UNCHANGED <<now, ledger>>
<1>1. ASSUME NEW c \in Callers, Call(c) \/ Continue(c), c # d
      PROVE  pc'[d] = pc[d] /\ loc'[d] = loc[d]
  BY <1>1
  DEF TypeOK, Call, Continue, SetPolicy, CheckPolicy, GetSpendingSummary,
      GenerateKeys, MandateInit, Begin, Hydrate, StoreInfo, HydrateFails,
      Preflight, CheckSpendAnswered, Prepare, SubmitAcknowledged,
      SubmitReplyLost, BackendRefuses, RecordSpendSent, Record, Goto, Return
<1>2. ASSUME Continue(d) PROVE FALSE
  BY <1>2
  DEF TypeOK, Continue, Hydrate, StoreInfo, HydrateFails, Preflight,
      CheckSpendAnswered, Prepare, SubmitAcknowledged, SubmitReplyLost,
      BackendRefuses, RecordSpendSent, Record, Goto, Return
<1>3. ASSUME Call(d) PROVE loc'[d].now = now /\ UNCHANGED <<now, ledger>>
  <2>1. Begin(d)
    BY <1>3 DEF TypeOK, Call, SetPolicy, CheckPolicy, GetSpendingSummary,
      GenerateKeys, MandateInit, Goto
  <2>2. PICK a \in Amounts, to \in Recipients :
          loc' = [loc EXCEPT ![d] = [NoLocals EXCEPT !.now = now, !.asked = a,
                                                     !.amount = a % WORD,
                                                     !.to = to]]
    BY <2>1 DEF Begin
  <2> QED
    BY <2>1, <2>2 DEF Begin, TypeOK, NoLocals
<1>4. ASSUME Restart PROVE FALSE
  BY <1>4 DEF Restart
<1> QED
  BY <1>1, <1>2, <1>3, <1>4 DEF Next, Tick, vars

(* The ledger changes by an entry executed now, or keeps its times.        *)
LEMMA TimesOfEntries ==
  ASSUME TypeInv, OwnEntry, [Next]_vars
  PROVE  \/ /\ DOMAIN ledger' = DOMAIN ledger
            /\ \A i \in DOMAIN ledger : SameEntry(i)
         \/ /\ UNCHANGED <<now, engine, restarts>>
            /\ \E c \in Callers : pc[c] = "submit" /\ pc'[c] # "preflight"
            /\ \A i \in DOMAIN ledger' :
                  \/ i \in DOMAIN ledger /\ ledger'[i] = ledger[i]
                  \/ i = Len(ledger) + 1 /\ ledger'[i].at = now
<1>0. TypeOK /\ FlowHasRecipient
  BY DEF TypeInv
<1>1. CASE Quiet
  BY <1>1 DEF Quiet, SameEntry
<1>2. CASE Restart
  BY <1>0, <1>2, EntriesAfterRestart
<1>3. ASSUME NEW c \in Callers, Record(c)
      PROVE  /\ DOMAIN ledger' = DOMAIN ledger
             /\ \A i \in DOMAIN ledger : SameEntry(i)
  <2>1. loc[c].tx \in DOMAIN ledger
    BY <1>3 DEF Record, OwnEntry, Awaiting, Waiting
  <2> QED
    BY <1>0, <1>3, <2>1, EntriesAfterRecord
<1>4. ASSUME NEW c \in Callers, SubmitAcknowledged(c) \/ SubmitReplyLost(c)
      PROVE  /\ UNCHANGED <<now, engine, restarts>>
             /\ pc[c] = "submit" /\ pc'[c] # "preflight"
             /\ \A i \in DOMAIN ledger' :
                   \/ i \in DOMAIN ledger /\ ledger'[i] = ledger[i]
                   \/ i = Len(ledger) + 1 /\ ledger'[i].at = now
  <2>1. PICK st \in {"pending", "lost"} :
          ledger' = Append(ledger, Executed(c, st))
    BY <1>4 DEF SubmitAcknowledged, SubmitReplyLost
  <2>2. InFlight(c) /\ pc[c] = "submit" /\ UNCHANGED <<now, engine, restarts>>
    BY <1>4 DEF SubmitAcknowledged, SubmitReplyLost, InFlight, FlowSteps, statics
  <2>3. Executed(c, st) \in Entry /\ Executed(c, st).at = now
    BY <1>0, <2>2, ExecutedType DEF Executed
  <2>4. pc'[c] # "preflight"
    BY <1>0, <1>4 DEF SubmitAcknowledged, SubmitReplyLost, Return, Goto, TypeOK
  <2> QED
    BY <1>0, <2>1, <2>2, <2>3, <2>4, EntriesAfterSubmit
<1> QED
  BY <1>0, <1>1, <1>2, <1>3, <1>4, QuietStep

LEMMA LockedNotAhead ==
  ASSUME TypeOK, Times
  PROVE  Locked.last_day_reset \in Nat /\ Locked.last_day_reset <= now
<1>1. Locked \in Engine /\ now \in Nat
  BY LockedType DEF TypeOK
<1>2. Locked.last_day_reset \in Nat
  BY <1>1 DEF Engine
<1> QED
  BY <1>1, <1>2 DEF Times, Locked, NewEngine

LEMMA TimesStep ==
  ASSUME NEW w, Callers = {w}
  PROVE  /\ TypeInv /\ ClockRead /\ OwnEntry /\ EngineFirst /\ Times
         /\ [Next]_vars
         => Times'
<1> SUFFICES ASSUME TypeInv, ClockRead, OwnEntry, EngineFirst, Times,
                    [Next]_vars
             PROVE  Times'
  OBVIOUS
<1>0. /\ TypeOK /\ TypeOK' /\ w \in Callers /\ (\A x \in Callers : x = w)
      /\ now \in Nat /\ now' \in Nat
  BY TypeStep DEF TypeInv, TypeOK
<1>1. now <= now'
  <2>1. ASSUME NEW c \in Callers, Call(c) \/ Continue(c) PROVE now' = now
    BY <2>1
    DEF Call, Continue, SetPolicy, CheckPolicy, GetSpendingSummary,
        GenerateKeys, MandateInit, Begin, Hydrate, StoreInfo, HydrateFails,
        Preflight, CheckSpendAnswered, Prepare, SubmitAcknowledged,
        SubmitReplyLost, BackendRefuses, RecordSpendSent, Record
  <2>2. now' = now \/ now' = now + 1
    BY <2>1 DEF Next, Tick, Restart, vars
  <2> QED
    BY <1>0, <2>2
<1>2. \A i \in DOMAIN ledger : ledger[i].at \in Nat /\ ledger[i].at <= now
  BY <1>0, LedgerDomain DEF Times
<1>3. \A i \in DOMAIN ledger' : ledger'[i].at <= now'
  <2>1. CASE DOMAIN ledger' = DOMAIN ledger /\ \A i \in DOMAIN ledger : SameEntry(i)
    BY <1>0, <1>1, <1>2, <2>1 DEF SameEntry
  <2>2. CASE /\ UNCHANGED now
             /\ \A i \in DOMAIN ledger' :
                  \/ i \in DOMAIN ledger /\ ledger'[i] = ledger[i]
                  \/ i = Len(ledger) + 1 /\ ledger'[i].at = now
    BY <1>0, <1>2, <2>2
  <2> QED
    BY <2>1, <2>2, TimesOfEntries
<1>4. ASSUME pc'[w] = "preflight", NEW i \in DOMAIN ledger'
      PROVE  ledger'[i].at <= loc'[w].now
  <2>1. CASE loc'[w].now = now /\ UNCHANGED <<now, ledger>>
    BY <1>2, <2>1
  <2>2. CASE pc[w] = "preflight" /\ loc'[w] = loc[w]
    <3>1. i \in DOMAIN ledger /\ ledger'[i].at = ledger[i].at
      BY <1>0, <2>2, TimesOfEntries DEF SameEntry
    <3> QED
      BY <1>0, <2>2, <3>1 DEF Times
  <2> QED
    BY <1>0, <1>4, <2>1, <2>2, PreflightMoves
<1>5. ASSUME engine' # None
      PROVE  /\ engine'.last_day_reset <= now'
             /\ Awaiting(w)' =>
                   ledger'[loc'[w].tx].at >= engine'.last_day_reset
  <2>1. Locked.last_day_reset \in Nat /\ Locked.last_day_reset <= now
    BY <1>0, LockedNotAhead
  <2>2. CASE OpensWindow
    <3>1. loc[w].now \in Nat /\ loc[w].now <= now
      BY <1>0 DEF TypeOK, Locals, ClockRead
    <3> QED
      BY <1>0, <2>2, <3>1 DEF OpensWindow
  <2>3. ASSUME Record(w) PROVE /\ engine'.last_day_reset <= now'
                               /\ ~Awaiting(w)'
    <3>1. engine'.last_day_reset = Locked.last_day_reset
      BY <1>0, <2>3, RecordWindow
    <3>2. ~Awaiting(w)'
      BY <1>0, <2>3 DEF Record, Return, Goto, Awaiting, TypeOK
    <3> QED
      BY <1>0, <1>1, <2>1, <3>1, <3>2
  <2>4. CASE KeepsWindow
    <3>1. engine'.last_day_reset = Locked.last_day_reset
      BY <2>4 DEF KeepsWindow
    <3>2. engine'.last_day_reset <= now'
      BY <1>0, <1>1, <2>1, <3>1
    <3>3. ASSUME Awaiting(w)'
          PROVE  ledger'[loc'[w].tx].at >= engine'.last_day_reset
      <4>1. CASE Quiet
        <5>1. Awaiting(w) /\ loc'[w] = loc[w] /\ ledger' = ledger
          BY <1>0, <3>3, <4>1 DEF Quiet
        <5>2. engine # None
          BY <1>0, <5>1 DEF EngineFirst, InFlight, FlowSteps, Awaiting
        <5>3. ledger[loc[w].tx].at >= engine.last_day_reset /\ Locked = engine
          BY <1>0, <5>1, <5>2 DEF Times, Locked
        <5> QED
          BY <3>1, <5>1, <5>3
      <4>2. ASSUME SubmitAcknowledged(w)
            PROVE  ledger'[loc'[w].tx].at >= engine'.last_day_reset
        <5>1. loc'[w].tx = Len(ledger) + 1
          BY <1>0, <4>2 DEF SubmitAcknowledged, TypeOK, Locals
        <5>2. ledger' = Append(ledger, Executed(w, "pending"))
          BY <4>2 DEF SubmitAcknowledged
        <5>3. InFlight(w) /\ FlowHasRecipient
          BY <4>2 DEF SubmitAcknowledged, InFlight, FlowSteps, TypeInv
        <5>4. Executed(w, "pending") \in Entry
          BY <1>0, <5>3, ExecutedType
        <5>5. ledger'[Len(ledger) + 1] = Executed(w, "pending")
          BY <1>0, <5>2, <5>4, EntriesAfterSubmit
        <5>6. ledger'[loc'[w].tx].at = now
          BY <5>1, <5>5 DEF Executed
        <5> QED
          BY <1>0, <2>1, <3>1, <5>6
      <4>3. ASSUME SubmitReplyLost(w) \/ Record(w) \/ Restart PROVE FALSE
        BY <1>0, <3>3, <4>3 DEF SubmitReplyLost, Record, Restart, Return, Goto,
          Awaiting, TypeOK
      <4> QED
        BY <1>0, <4>1, <4>2, <4>3, QuietStep
    <3> QED
      BY <3>2, <3>3
  <2> QED
    BY <1>0, <1>5, <2>2, <2>3, <2>4, WindowEffect
<1> QED
  BY <1>0, <1>3, <1>4, <1>5 DEF Times

-----------------------------------------------------------------------------
(* What this process recorded splits in two: the entries counted by e in   *)
(* the window that is open, and the Old ones, executed no later than that  *)
(* window opened, of which the last DAY before it is within the limit.     *)
Splits(e, Old) ==
    /\ \A i \in Old : ledger[i].at <= e.last_day_reset
    /\ \A i \in Mine \ Old : ledger[i].at >= e.last_day_reset
    /\ Spent(Mine \ Old) = e.spending_today
    /\ Spent({i \in Old : ledger[i].at + DAY > e.last_day_reset})
          <= LargestDaily

TwoWindows == engine # None => \E Old \in SUBSET Mine : Splits(engine, Old)

(* A process without an engine has recorded nothing.                       *)
LEMMA LockedSplits ==
  ASSUME TypeOK, EngineFirst, TwoWindows
  PROVE  \E Old \in SUBSET Mine : Splits(Locked, Old)
<1>1. CASE engine # None
  BY <1>1 DEF TwoWindows, Locked
<1>2. CASE engine = None
  <2>1. \A i \in DOMAIN ledger : ledger[i].epoch # restarts
    <3>1. restarts \in Nat /\ \A i \in DOMAIN ledger : ledger[i].epoch \in Nat
      BY LedgerDomain DEF TypeOK
    <3> QED
      BY <1>2, <3>1 DEF EngineFirst
  <2>2. Mine = {}
    BY <2>1 DEF Mine, Recorded
  <2>3. Spent({}) = 0 /\ LargestDaily \in Nat
    BY SumEmpty, LargestType DEF Spent
  <2>4. Locked.spending_today = 0
    BY <1>2 DEF Locked, NewEngine
  <2>5. Splits(Locked, {})
    <3>1. {i \in {} : ledger[i].at + DAY > Locked.last_day_reset} = {}
      OBVIOUS
    <3>2. Spent({}) <= LargestDaily
      BY <2>3
    <3> QED
      BY <2>2, <2>3, <2>4, <3>1, <3>2 DEF Splits
  <2> QED
    BY <2>5
<1> QED
  BY <1>1, <1>2

LEMMA TodayWithinLargest ==
  ASSUME TypeOK, UnderLimits
  PROVE  Locked.spending_today \in Nat /\ Locked.spending_today <= LargestDaily
<1>1. Locked.spending_today \in u64 /\ now \in Nat
  BY LockedType DEF Engine, TypeOK
<1>2. PICK s \in Limits : Locked.spending_today <= s.max_daily
  BY <1>1, DefaultUnderLimits DEF UnderLimits, Locked
<1>3. s.max_daily \in Nat /\ s.max_daily <= LargestDaily /\ LargestDaily \in Nat
  BY LargestType, LimitsType DEF SpendingPolicy, u64
<1> QED
  BY <1>1, <1>2, <1>3 DEF u64

LEMMA SplitKept ==
  ASSUME TypeInv, EngineFirst, TwoWindows, [Next]_vars, ~Restart,
         \A c \in Callers : ~Record(c), KeepsWindow
  PROVE  \E Old \in SUBSET Mine' : Splits(engine, Old)'
<1>0. TypeOK /\ Recorded \in SUBSET DOMAIN ledger
  BY RecordedType DEF TypeInv
<1>1. PICK Old \in SUBSET Mine : Splits(Locked, Old)
  BY <1>0, LockedSplits
<1>2. /\ Recorded' = Recorded /\ restarts' = restarts
      /\ \A i \in DOMAIN ledger : i \in DOMAIN ledger' /\ SameEntry(i)
  BY RecordedKept, RestartsStep
<1>3. Mine' = Mine /\ Mine \in SUBSET DOMAIN ledger
  BY <1>0, <1>2 DEF Mine, SameEntry
<1>4. /\ engine'.last_day_reset = Locked.last_day_reset
      /\ engine'.spending_today = Locked.spending_today
  BY DEF KeepsWindow
<1> DEFINE Current == Mine \ Old
           Recent == {i \in Old : ledger[i].at + DAY > Locked.last_day_reset}
<1>5. /\ Current \in SUBSET DOMAIN ledger /\ Recent \in SUBSET DOMAIN ledger
      /\ Old \in SUBSET DOMAIN ledger
  BY <1>3
<1>6. /\ Spent(Current) = Locked.spending_today
      /\ Spent(Recent) <= LargestDaily
      /\ \A i \in Old : ledger[i].at <= Locked.last_day_reset
      /\ \A i \in Current : ledger[i].at >= Locked.last_day_reset
  BY <1>1 DEF Splits
<1>7. /\ Mine' \ Old = Current
      /\ {i \in Old : ledger'[i].at + DAY > engine'.last_day_reset} = Recent
  BY <1>2, <1>3, <1>4, <1>5 DEF SameEntry
<1> HIDE DEF Current, Recent
<1>8. /\ SumFunctionOnSet(Prices(ledger'), Current) = Spent(Current)
      /\ SumFunctionOnSet(Prices(ledger'), Recent) = Spent(Recent)
  BY <1>0, <1>2, <1>5, SpentKept DEF SameEntry
<1>9. Spent(Mine \ Old)' = engine'.spending_today
  BY <1>4, <1>6, <1>7, <1>8 DEF Spent, Prices
<1>10. Spent({i \in Old : ledger[i].at + DAY > engine.last_day_reset})'
         <= LargestDaily
  BY <1>6, <1>7, <1>8 DEF Spent, Prices
<1>11. /\ \A i \in Old : ledger'[i].at <= engine'.last_day_reset
       /\ \A i \in Mine' \ Old : ledger'[i].at >= engine'.last_day_reset
  BY <1>2, <1>4, <1>5, <1>6, <1>7 DEF SameEntry
<1>12. Splits(engine, Old)'
  BY <1>9, <1>10, <1>11 DEF Splits
<1> QED
  BY <1>3, <1>12

(* Opening a window makes everything old.  Of that, the last DAY is what   *)
(* the previous window counted, since it was open for a DAY at least.      *)
LEMMA SplitOpens ==
  ASSUME NEW w, Callers = {w}, TypeInv, EngineFirst, TwoWindows, Times,
         UnderLimits, OpensWindow, engine' \in Engine
  PROVE  \E Old \in SUBSET Mine' : Splits(engine, Old)'
<1>0. TypeOK /\ Recorded \in SUBSET DOMAIN ledger /\ DAY \in Nat
      /\ LargestDaily \in Nat
  BY RecordedType, LargestType, WindowAssumption DEF TypeInv
<1>1. PICK Old \in SUBSET Mine : Splits(Locked, Old)
  BY <1>0, LockedSplits
<1> DEFINE W == Locked.last_day_reset
           V == engine'.last_day_reset
           Current == Mine \ Old
           Recent == {i \in Mine : ledger[i].at + DAY > V}
<1>2. W \in Nat /\ V \in Nat /\ V >= W + DAY
  BY <1>0, LockedType DEF OpensWindow, Engine
<1>3. ledger' = ledger /\ Mine' = Mine
  BY DEF OpensWindow, Mine, Recorded
<1>4. /\ Mine \in SUBSET DOMAIN ledger /\ Current \in SUBSET DOMAIN ledger
      /\ Recent \in SUBSET Mine
  BY <1>0 DEF Mine
<1>5. \A i \in DOMAIN ledger : ledger[i].at \in Nat /\ ledger[i].at <= V
  BY <1>0, LedgerDomain DEF OpensWindow, Times
<1>6. /\ \A i \in Old : ledger[i].at <= W
      /\ Spent(Current) = Locked.spending_today
  BY <1>1 DEF Splits
<1>7. Recent \in SUBSET Current
  <2> SUFFICES ASSUME NEW i \in Mine, ledger[i].at + DAY > V, i \in Old
               PROVE  FALSE
    BY DEF Recent, Current
  <2>1. ledger[i].at \in Nat /\ ledger[i].at <= W
    BY <1>4, <1>5, <1>6
  <2> HIDE DEF W, V
  <2> QED
    BY <1>0, <1>2, <2>1
<1>8. Spent(Recent) <= Spent(Current)
  <2> HIDE DEF Recent, Current
  <2> QED
    BY <1>0, <1>4, <1>7, SpentPart
<1>9. Spent(Recent) \in Nat /\ Spent(Current) \in Nat
  <2>1. Recent \in SUBSET DOMAIN ledger
    BY <1>4
  <2> HIDE DEF Recent, Current
  <2> QED
    BY <1>0, <1>4, <2>1, SpentType
<1>10. Spent(Recent) <= LargestDaily
  <2>1. Locked.spending_today <= LargestDaily
    BY <1>0, TodayWithinLargest
  <2> HIDE DEF Recent, Current
  <2> QED
    BY <1>0, <1>6, <1>8, <1>9, <2>1
<1>11. Spent(Mine \ Mine)' = engine'.spending_today
  <2>1. Mine' \ Mine' = {} /\ engine'.spending_today = 0
    BY DEF OpensWindow
  <2> QED
    BY <2>1, SumEmpty DEF Spent
<1>12. Spent({i \in Mine : ledger[i].at + DAY > engine.last_day_reset})'
         <= LargestDaily
  BY <1>3, <1>10 DEF Spent
<1>13. /\ \A i \in Mine' : ledger'[i].at <= engine'.last_day_reset
       /\ \A i \in Mine' \ Mine' : ledger'[i].at >= engine'.last_day_reset
  BY <1>3, <1>4, <1>5
<1>14. Splits(engine, Mine)'
  BY <1>11, <1>12, <1>13 DEF Splits
<1> QED
  BY <1>3, <1>14

(* A record adds to the window that is open what its counter is raised by. *)
LEMMA SplitRecord ==
  ASSUME TypeInv, OwnEntry, EngineFirst, TwoWindows, Times,
         NEW c \in Callers, Record(c), RecordWithinLimits
  PROVE  \E Old \in SUBSET Mine' : Splits(engine, Old)'
<1>0. TypeOK /\ Recorded \in SUBSET DOMAIN ledger /\ Mine \in SUBSET DOMAIN ledger
  BY RecordedType DEF TypeInv
<1> DEFINE tx == loc[c].tx
<1>1. /\ Waiting(c) /\ tx \notin Recorded /\ Recorded' = Recorded \cup {tx}
      /\ \A i \in DOMAIN ledger : i \in DOMAIN ledger' /\ SameEntry(i)
  BY RecordedGrows
<1>2. tx \in DOMAIN ledger /\ tx \notin Mine /\ ledger[tx].amount = loc[c].amount
      /\ ledger[tx].epoch = restarts /\ restarts' = restarts
  BY <1>1 DEF Waiting, Mine, Record
<1>3. engine # None /\ Locked = engine
  BY DEF EngineFirst, Record, InFlight, FlowSteps, Locked
<1>4. PICK Old \in SUBSET Mine : Splits(engine, Old)
  BY <1>3 DEF TwoWindows
<1>5. /\ engine'.last_day_reset = engine.last_day_reset
      /\ engine'.spending_today = engine.spending_today + loc[c].amount
      /\ ledger[tx].at >= engine.last_day_reset
  BY <1>0, <1>3, RecordWindow DEF RecordWithinLimits, Times, Record, Awaiting
<1> DEFINE Current == Mine \ Old
           More == Current \cup {tx}
           Recent == {i \in Old : ledger[i].at + DAY > engine.last_day_reset}
<1>6. /\ Spent(Current) = engine.spending_today
      /\ Spent(Recent) <= LargestDaily
      /\ \A i \in Old : ledger[i].at <= engine.last_day_reset
      /\ \A i \in Current : ledger[i].at >= engine.last_day_reset
  BY <1>4 DEF Splits
<1> HIDE DEF tx
<1>7. /\ Current \in SUBSET DOMAIN ledger /\ Recent \in SUBSET DOMAIN ledger
      /\ Old \in SUBSET DOMAIN ledger /\ More \in SUBSET DOMAIN ledger
      /\ tx \notin Current
  BY <1>0, <1>2
<1>8. Mine' = Mine \cup {tx}
  BY <1>0, <1>1, <1>2 DEF Mine, SameEntry
<1>9. /\ Mine' \ Old = More
      /\ {i \in Old : ledger'[i].at + DAY > engine'.last_day_reset} = Recent
  BY <1>1, <1>2, <1>5, <1>7, <1>8 DEF SameEntry
<1>10. Spent(More) = Spent(Current) + ledger[tx].amount
  <2> HIDE DEF Current
  <2> QED
    BY <1>0, <1>2, <1>7, SpentMore
<1>11. /\ \A i \in Old : ledger'[i].at <= engine'.last_day_reset
       /\ \A i \in More : ledger'[i].at >= engine'.last_day_reset
  BY <1>1, <1>5, <1>6, <1>7 DEF SameEntry
<1> HIDE DEF Current, More, Recent
<1>12. /\ SumFunctionOnSet(Prices(ledger'), More) = Spent(More)
       /\ SumFunctionOnSet(Prices(ledger'), Recent) = Spent(Recent)
  BY <1>0, <1>1, <1>7, SpentKept DEF SameEntry
<1>13. Spent(More) = engine'.spending_today
  BY <1>2, <1>5, <1>6, <1>10
<1>14. Spent(Mine \ Old)' = engine'.spending_today
  BY <1>9, <1>12, <1>13 DEF Spent, Prices
<1>15. Spent({i \in Old : ledger[i].at + DAY > engine.last_day_reset})'
         <= LargestDaily
  BY <1>6, <1>9, <1>12 DEF Spent, Prices
<1>16. Splits(engine, Old)'
  BY <1>9, <1>11, <1>14, <1>15 DEF Splits
<1> QED
  BY <1>8, <1>16

LEMMA TwoWindowsStep ==
  ASSUME NEW w, Callers = {w}, LimitsFit
  PROVE  /\ TypeInv /\ PreflightStillHolds /\ UnderLimits /\ OwnEntry
         /\ EngineFirst /\ Times /\ TwoWindows /\ [Next]_vars
         => TwoWindows'
<1> SUFFICES ASSUME TypeInv, PreflightStillHolds, UnderLimits, OwnEntry,
                    EngineFirst, Times, TwoWindows, [Next]_vars, engine' # None
             PROVE  \E Old \in SUBSET Mine' : Splits(engine, Old)'
  BY DEF TwoWindows
<1>0. TypeOK /\ engine' \in Engine /\ ~Restart
  BY TypeStep DEF TypeInv, TypeOK, Restart
<1>1. ASSUME NEW c \in Callers, Record(c)
      PROVE  \E Old \in SUBSET Mine' : Splits(engine, Old)'
  <2>1. vars' # vars
    BY <1>0, <1>1 DEF Record, Return, Goto, vars, TypeOK
  <2>2. RecordWithinLimits
    BY <2>1, RecordStep
  <2> QED
    BY <1>1, <2>2, SplitRecord
<1>2. CASE OpensWindow
  BY <1>0, <1>2, SplitOpens
<1>3. CASE KeepsWindow /\ \A c \in Callers : ~Record(c)
  BY <1>0, <1>3, SplitKept
<1> QED
  BY <1>0, <1>1, <1>2, <1>3, WindowEffect

(* What process p recorded of the DAY from t on.                           *)
DayOf(t, p) == {i \in ExecutedIn(t) : ledger[i].epoch = p}

Rolling ==
    \A t \in Nat, p \in Nat : Spent(DayOf(t, p)) <= LargestDaily + LargestDaily

(* A DAY that reaches into the window that is open holds some of what that *)
(* window counts and, before it, some of the Old entries of its last DAY.  *)
LEMMA TwoParts ==
  ASSUME TypeOK, NEW Old \in SUBSET DOMAIN ledger,
         NEW Current \in SUBSET DOMAIN ledger, Spent(Current) <= LargestDaily,
         NEW Recent \in SUBSET Old, Spent(Recent) <= LargestDaily,
         NEW S \in SUBSET (Old \cup Current), S \cap Old \subseteq Recent
  PROVE  Spent(S) <= LargestDaily + LargestDaily
<1> DEFINE A == S \cap Old
           B == S \ Old
<1>1. /\ A \in SUBSET Recent /\ B \in SUBSET Current /\ A \cap B = {}
      /\ S = A \cup B /\ A \in SUBSET DOMAIN ledger /\ B \in SUBSET DOMAIN ledger
      /\ Recent \in SUBSET DOMAIN ledger
  OBVIOUS
<1> HIDE DEF A, B
<1>2. Spent(A) <= Spent(Recent) /\ Spent(B) <= Spent(Current)
  BY <1>1, SpentPart
<1>3. Spent(S) = Spent(A) + Spent(B)
  BY <1>1, SpentParts
<1>4. {Spent(A), Spent(B), Spent(Recent), Spent(Current), LargestDaily}
        \subseteq Nat
  BY <1>1, SpentType, LargestType
<1> QED
  BY <1>2, <1>3, <1>4

LEMMA RollingRecord ==
  ASSUME TypeInv, OwnEntry, EngineFirst, TwoWindows, Times, Rolling, UnderLimits',
         NEW c \in Callers, Record(c), RecordWithinLimits, engine' \in Engine,
         NEW t \in Nat, NEW p \in Nat
  PROVE  Spent(DayOf(t, p))' <= LargestDaily + LargestDaily
<1>0. /\ TypeOK /\ Recorded \in SUBSET DOMAIN ledger
      /\ Mine \in SUBSET DOMAIN ledger /\ DAY \in Nat /\ None \notin Engine
  BY RecordedType, WindowAssumption, NoneAssumption DEF TypeInv
<1> DEFINE tx == loc[c].tx
           S == DayOf(t, p)'
<1>1. /\ Waiting(c) /\ tx \notin Recorded /\ Recorded' = Recorded \cup {tx}
      /\ \A i \in DOMAIN ledger : i \in DOMAIN ledger' /\ SameEntry(i)
  BY RecordedGrows
<1>2. /\ tx \in DOMAIN ledger /\ tx \notin Mine
      /\ ledger[tx].amount = loc[c].amount /\ ledger[tx].epoch = restarts
  BY <1>1 DEF Waiting, Mine
<1>3. S = {i \in Recorded \cup {tx} : /\ ledger[i].at >= t /\ ledger[i].at < t + DAY
                                      /\ ledger[i].epoch = p}
  BY <1>0, <1>1, <1>2 DEF DayOf, ExecutedIn, SameEntry
<1>4. S \in SUBSET DOMAIN ledger
  BY <1>0, <1>2, <1>3
<1>5. Spent(DayOf(t, p))' = Spent(S)
  <2>1. Spent(DayOf(t, p))' = SumFunctionOnSet(Prices(ledger'), S)
    BY DEF Spent, Prices
  <2> HIDE DEF S
  <2> QED
    BY <1>0, <1>1, <1>4, <2>1, SpentKept DEF SameEntry
<1> HIDE DEF S, tx
<1> SUFFICES Spent(S) <= LargestDaily + LargestDaily
  BY <1>5
<1>6. CASE tx \notin S
  <2>1. S = DayOf(t, p)
    BY <1>3, <1>6 DEF DayOf, ExecutedIn
  <2> QED
    BY <2>1 DEF Rolling
<1>7. CASE tx \in S
  <2>1. engine # None /\ Locked = engine
    BY DEF EngineFirst, Record, InFlight, FlowSteps, Locked
  <2>2. PICK Old \in SUBSET Mine : Splits(engine, Old)
    BY <2>1 DEF TwoWindows
  <2> DEFINE W == engine.last_day_reset
             Current == Mine \ Old
             More == Current \cup {tx}
             Recent == {i \in Old : ledger[i].at + DAY > W}
  <2>3. Spent(Current) = engine.spending_today /\ Spent(Recent) <= LargestDaily
    BY <2>2 DEF Splits
  <2>4. /\ Current \in SUBSET DOMAIN ledger /\ More \in SUBSET DOMAIN ledger
        /\ Old \in SUBSET DOMAIN ledger /\ tx \notin Current
        /\ Recent \in SUBSET Old
    BY <1>0, <1>2
  <2>5. S \in SUBSET (Old \cup More)
    BY <1>2, <1>3, <1>7 DEF Mine
  <2>6. Spent(More) <= LargestDaily
    <3>1. Spent(More) = Spent(Current) + ledger[tx].amount
      <4> HIDE DEF Current
      <4> QED
        BY <1>0, <1>2, <2>4, SpentMore
    <3>2. engine'.spending_today = engine.spending_today + loc[c].amount
      BY DEF RecordWithinLimits
    <3> HIDE DEF More, Current
    <3>3. Spent(More) = engine'.spending_today
      BY <1>2, <2>3, <3>1, <3>2
    <3>4. PICK s \in Limits : engine'.spending_today <= s.max_daily
      BY <1>0 DEF UnderLimits
    <3>5. s.max_daily \in Nat /\ s.max_daily <= LargestDaily
          /\ LargestDaily \in Nat /\ engine'.spending_today \in Nat
      BY LargestType, LimitsType DEF SpendingPolicy, Engine, u64
    <3> QED
      BY <3>3, <3>4, <3>5
  <2>7. ledger[tx].at >= W /\ W \in Nat
    BY <1>0, <2>1, LockedType DEF Times, Record, Awaiting, Engine, tx
  <2>8. S \cap Old \subseteq Recent
    <3> SUFFICES ASSUME NEW i \in S, i \in Old PROVE ledger[i].at + DAY > W
      OBVIOUS
    <3>1. /\ ledger[i].at \in Nat /\ ledger[i].at >= t
          /\ ledger[tx].at \in Nat /\ ledger[tx].at < t + DAY
      BY <1>0, <1>2, <1>3, <1>4, <1>7, LedgerDomain
    <3> HIDE DEF W
    <3> QED
      BY <1>0, <2>7, <3>1
  <2> HIDE DEF W, Current, More, Recent
  <2> QED
    BY <1>0, <2>3, <2>4, <2>5, <2>6, <2>8, TwoParts
<1> QED
  BY <1>6, <1>7

LEMMA RollingStep ==
  ASSUME NEW w, Callers = {w}, LimitsFit
  PROVE  /\ TypeInv /\ PreflightStillHolds /\ UnderLimits /\ OwnEntry
         /\ EngineFirst /\ Times /\ TwoWindows /\ Rolling /\ [Next]_vars
         => Rolling'
<1> SUFFICES ASSUME TypeInv, PreflightStillHolds, UnderLimits, OwnEntry,
                    EngineFirst, Times, TwoWindows, Rolling, [Next]_vars,
                    NEW t \in Nat, NEW p \in Nat
             PROVE  Spent(DayOf(t, p))' <= LargestDaily + LargestDaily
  BY DEF Rolling
<1>0. TypeOK /\ Recorded \in SUBSET DOMAIN ledger
  BY RecordedType DEF TypeInv
<1>1. ASSUME NEW c \in Callers, Record(c)
      PROVE  Spent(DayOf(t, p))' <= LargestDaily + LargestDaily
  <2>1. vars' # vars
    BY <1>0, <1>1 DEF Record, Return, Goto, vars, TypeOK
  <2>2. RecordWithinLimits /\ UnderLimits'
    BY <2>1, RecordStep, UnderLimitsStep
  <2>3. engine' \in Engine
    <3>1. Locked \in Engine /\ loc[c].amount \in u64
      BY <1>0, LockedType DEF TypeOK, Locals
    <3> QED
      BY <1>1, <3>1, RecordType DEF Record
  <2> QED
    BY <1>1, <2>2, <2>3, RollingRecord
<1>2. CASE \A c \in Callers : ~Record(c)
  <2>1. /\ Recorded' = Recorded
        /\ \A i \in DOMAIN ledger : i \in DOMAIN ledger' /\ SameEntry(i)
    BY <1>2, RecordedKept
  <2>2. DayOf(t, p)' = DayOf(t, p) /\ DayOf(t, p) \in SUBSET DOMAIN ledger
    BY <1>0, <2>1 DEF DayOf, ExecutedIn, SameEntry
  <2>3. Spent(DayOf(t, p))' = SumFunctionOnSet(Prices(ledger'), DayOf(t, p))
    BY <2>2 DEF Spent, Prices
  <2>4. Spent(DayOf(t, p))' = Spent(DayOf(t, p))
    BY <1>0, <2>1, <2>2, <2>3, SpentKept DEF SameEntry
  <2> QED
    BY <2>4 DEF Rolling
<1> QED
  BY <1>1, <1>2

-----------------------------------------------------------------------------
(* Of amounts below 2^64, what is counted is what is executed.             *)
LEMMA PaidIsSpent ==
  ASSUME TypeOK, CountsModulo, NEW S \in SUBSET DOMAIN ledger,
         \A i \in S : ledger[i].asked \in u64
  PROVE  Paid(S) = Spent(S)
<1> DEFINE Sent == [i \in DOMAIN ledger |-> ledger[i].asked]
<1>1. \A n \in u64 : n % WORD = n
  BY WordAssumption DEF u64
<1>2. \A i \in S : ledger[i].asked = ledger[i].amount
  BY <1>1 DEF CountsModulo
<1>3. IsFiniteSet(S) /\ \A i \in S : Prices(ledger)[i] \in Nat
  BY LedgerDomain, PricesType
<1>4. \A i \in S : Sent[i] = Prices(ledger)[i]
  BY <1>2, PricesType
<1>5. Paid(S) = SumFunctionOnSet(Sent, S)
  BY DEF Paid
<1> HIDE DEF Sent
<1> QED
  BY <1>3, <1>4, <1>5, SumSame, SpentIs

(* Any 24 hours, in the WASM build: what was executed in them and recorded *)
(* by one process is at most twice the largest daily limit, whatever the   *)
(* schedule, the policies and the lengths of the calls.  The hypotheses    *)
(* say that one caller uses the module and that no day's sum wraps.        *)
THEOREM RollingTwiceDaily ==
  ASSUME NEW w, Callers = {w}, LimitsFit
  PROVE  Spec => []RollingWindowTwiceDaily
<1> DEFINE Inv == /\ TypeInv /\ ClockRead /\ PreflightStillHolds /\ UnderLimits
                  /\ OwnEntry /\ EngineFirst /\ Times /\ TwoWindows /\ Rolling
                  /\ CountsModulo
<1>1. Init => Inv
  <2> SUFFICES ASSUME Init PROVE Inv
    OBVIOUS
  <2>1. /\ DOMAIN ledger = {} /\ engine = None
        /\ \A c \in Callers : pc[c] = "idle" /\ ~Awaiting(c) /\ ~InFlight(c)
    BY DEF Init, Awaiting, InFlight, FlowSteps
  <2>2. Rolling
    <3> SUFFICES ASSUME NEW t \in Nat, NEW p \in Nat
                 PROVE  Spent(DayOf(t, p)) <= LargestDaily + LargestDaily
      BY DEF Rolling
    <3>1. DayOf(t, p) = {}
      BY <2>1 DEF DayOf, ExecutedIn, Recorded
    <3>2. Spent(DayOf(t, p)) = 0 /\ LargestDaily \in Nat
      BY <3>1, SumEmpty, LargestType DEF Spent
    <3> QED
      BY <3>2
  <2>3. OwnEntry /\ EngineFirst /\ TwoWindows /\ UnderLimits
    BY <2>1 DEF OwnEntry, EngineFirst, TwoWindows, UnderLimits
  <2>4. Times
    BY <2>1 DEF Times
  <2>5. ClockRead
    BY DEF Init, ClockRead, NoLocals
  <2> QED
    BY <2>2, <2>3, <2>4, <2>5, TypeInit, PreflightInit, CountsInit
<1>2. Inv /\ [Next]_vars => Inv'
  <2>1. Inv /\ [Next]_vars => TypeInv' /\ ClockRead' /\ OwnEntry' /\ EngineFirst'
    BY TypeStep, ClockStep, OwnEntryStep, EngineFirstStep
  <2>2. Inv /\ [Next]_vars => PreflightStillHolds' /\ UnderLimits'
    BY PreflightStep, UnderLimitsStep
  <2>3. Inv /\ [Next]_vars => Times'
    BY TimesStep
  <2>4. Inv /\ [Next]_vars => TwoWindows' /\ Rolling'
    BY TwoWindowsStep, RollingStep
  <2>5. Inv /\ [Next]_vars => CountsModulo'
    BY CountsStep
  <2> QED
    BY <2>1, <2>2, <2>3, <2>4, <2>5
<1>3. Inv => RollingWindowTwiceDaily
  <2> SUFFICES ASSUME TypeOK, Rolling, CountsModulo,
                      NEW t \in 0 .. MaxTime, NEW p \in 0 .. restarts
               PROVE  Paid({i \in FittingIn(t) : ledger[i].epoch = p})
                        <= 2 * LargestDaily
    BY DEF RollingWindowTwiceDaily, TypeInv
  <2> DEFINE S == {i \in FittingIn(t) : ledger[i].epoch = p}
             D == DayOf(t, p)
  <2>1. t \in Nat /\ p \in Nat /\ LargestDaily \in Nat
    BY LargestType
  <2>2. Spent(D) <= LargestDaily + LargestDaily
    BY <2>1 DEF Rolling
  <2>3. /\ S \in SUBSET D /\ D \in SUBSET DOMAIN ledger
        /\ S \in SUBSET DOMAIN ledger /\ \A i \in S : ledger[i].asked \in u64
    BY DEF DayOf, FittingIn, ExecutedIn, Recorded
  <2> HIDE DEF S, D
  <2>4. Paid(S) = Spent(S) /\ Spent(S) <= Spent(D)
    BY <2>3, PaidIsSpent, SpentPart
  <2>5. Spent(S) \in Nat /\ Spent(D) \in Nat
    BY <2>3, SpentType
  <2>6. Paid(S) <= 2 * LargestDaily
    BY <2>1, <2>2, <2>4, <2>5
  <2> QED
    BY <2>6 DEF S
<1> QED
  BY <1>1, <1>2, <1>3, PTL DEF Spec

=============================================================================
