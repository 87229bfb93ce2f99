------------------------- MODULE PolicyEngineProofs -------------------------
(***************************************************************************)
(* What the operations of the policy engine preserve and return, for every *)
(* engine, policy, amount and time.                                        *)
(***************************************************************************)
EXTENDS PolicyEngine, TLAPS

(* u64 addition stays in u64, and is addition when the sum fits.           *)
LEMMA WrappingAddType ==
  ASSUME NEW a \in u64, NEW b \in u64
  PROVE  /\ WrappingAdd(a, b) \in u64
         /\ a + b < WORD => WrappingAdd(a, b) = a + b
BY WordAssumption DEF WrappingAdd, u64

LEMMA EmptyMapType ==
  ASSUME NEW V
  PROVE  EmptyMap \in HashMap(V)
BY DEF EmptyMap, HashMap

(* The engine with_policy_engine creates is well formed.                   *)
LEMMA DefaultPolicyType == DefaultPolicy \in Policy
<1>1. EmptyMap \in HashMap(SecretPolicy)
  BY EmptyMapType
<1>2. [max_per_tx |-> 0, max_daily |-> 0, expires_at |-> None]
        \in SpendingPolicy
  BY WordAssumption DEF SpendingPolicy, u64
<1> QED
  BY <1>1, <1>2 DEF DefaultPolicy, Policy

LEMMA NewEngineType ==
  ASSUME NEW p \in Policy, NEW t \in Nat
  PROVE  NewEngine(p, t) \in Engine
<1>1. EmptyMap \in HashMap(SecretUsage)
  BY EmptyMapType
<1>2. 0 \in u64
  BY WordAssumption DEF u64
<1> QED
  BY <1>1, <1>2 DEF NewEngine, Engine

LEMMA SetPolicyType ==
  ASSUME NEW e \in Engine, NEW p \in Policy
  PROVE  set_policy(e, p) \in Engine
BY DEF set_policy, Engine

LEMMA ResetUsageType ==
  ASSUME NEW u \in SecretUsage \cup {None}, NEW t \in Nat
  PROVE  ResetUsage(u, t) \in SecretUsage \cup {None}
BY WindowAssumption, NoneAssumption DEF ResetUsage, SecretUsage

LEMMA ResetType ==
  ASSUME NEW e \in Engine, NEW t \in Nat
  PROVE  reset_if_needed(e, t) \in Engine
<1> DEFINE usage == [n \in SecretNames |->
                        ResetUsage(e.secret_usage[n], t)]
<1>1. \A n \in SecretNames : e.secret_usage[n] \in SecretUsage \cup {None}
  BY DEF Engine, HashMap
<1>3. usage \in HashMap(SecretUsage)
  BY <1>1, ResetUsageType DEF HashMap
<1>4. 0 \in u64
  BY WordAssumption DEF u64
<1> HIDE DEF usage
<1>5. reset_if_needed(e, t) =
        [e EXCEPT !.spending_today = IF DayOver(e, t) THEN 0 ELSE @,
                  !.last_day_reset = IF DayOver(e, t) THEN t ELSE @,
                  !.secret_usage = usage]
  BY DEF reset_if_needed, usage
<1> QED
  BY <1>3, <1>4, <1>5 DEF Engine

(* A reset leaves the policy alone and either keeps the day's window and   *)
(* total, or opens a new window at t, at least a DAY after the old one.    *)
LEMMA ResetWindow ==
  ASSUME NEW e \in Engine, NEW t \in Nat
  PROVE  LET r == reset_if_needed(e, t)
         IN  /\ r.policy = e.policy
             /\ \/ /\ r.last_day_reset = e.last_day_reset
                   /\ r.spending_today = e.spending_today
                \/ /\ r.last_day_reset = t
                   /\ t >= e.last_day_reset + DAY
                   /\ r.spending_today = 0
BY DEF reset_if_needed, DayOver, Engine

LEMMA RecordType ==
  ASSUME NEW e \in Engine, NEW a \in u64
  PROVE  record_spending(e, a) \in Engine
<1>1. /\ WrappingAdd(e.spending_today, a) \in u64
      /\ WrappingAdd(e.total_all_time, a) \in u64
  BY WrappingAddType DEF Engine
<1> QED
  BY <1>1 DEF record_spending, Engine

LEMMA UsageType ==
  ASSUME NEW e \in Engine, NEW n \in SecretNames
  PROVE  e.secret_usage[n] \in SecretUsage \cup {None}
BY DEF Engine, HashMap

LEMMA ResetUsageOf ==
  ASSUME NEW e \in Engine, NEW t \in Nat, NEW n \in SecretNames
  PROVE  reset_if_needed(e, t).secret_usage[n]
            = ResetUsage(e.secret_usage[n], t)
BY DEF reset_if_needed, Engine

(* A reset opens a window at t or keeps the old one, for each of the two   *)
(* counters by itself, and t is inside the window that is then open.       *)
LEMMA ResetUsageWindow ==
  ASSUME NEW u \in SecretUsage, NEW t \in Nat
  PROVE  LET r == ResetUsage(u, t)
         IN  /\ r \in SecretUsage /\ r # None
             /\ t < r.last_minute_reset + MINUTE
             /\ t < r.last_day_reset + DAY
             /\ \/ /\ r.last_minute_reset = u.last_minute_reset
                   /\ r.calls_this_minute = u.calls_this_minute
                \/ /\ r.last_minute_reset = t
                   /\ r.calls_this_minute = 0
                   /\ t >= u.last_minute_reset + MINUTE
             /\ \/ /\ r.last_day_reset = u.last_day_reset
                   /\ r.calls_today = u.calls_today
                \/ /\ r.last_day_reset = t
                   /\ r.calls_today = 0
                   /\ t >= u.last_day_reset + DAY
<1>1. u # None
  BY NoneAssumption
<1>2. ResetUsage(u, t) =
        [calls_this_minute |-> IF t >= u.last_minute_reset + MINUTE THEN 0
                               ELSE u.calls_this_minute,
         calls_today       |-> IF t >= u.last_day_reset + DAY THEN 0
                               ELSE u.calls_today,
         last_minute_reset |-> IF t >= u.last_minute_reset + MINUTE THEN t
                               ELSE u.last_minute_reset,
         last_day_reset    |-> IF t >= u.last_day_reset + DAY THEN t
                               ELSE u.last_day_reset]
  BY <1>1 DEF ResetUsage
<1>3. ResetUsage(u, t) \in SecretUsage
  BY <1>1, ResetUsageType, WindowAssumption DEF ResetUsage, SecretUsage
<1> QED
  BY <1>2, <1>3, WindowAssumption, NoneAssumption DEF SecretUsage

(* A reset refuses nothing that was allowed: counters only go down.        *)
LEMMA ResetKeepsCheck ==
  ASSUME NEW e \in Engine, NEW t \in Nat, NEW n \in SecretNames, NEW url,
         check_secret_usage(e, n, url)
  PROVE  check_secret_usage(reset_if_needed(e, t), n, url)
<1> DEFINE p == e.policy.secrets[n]
           u == e.secret_usage[n]
           r == reset_if_needed(e, t)
<1>1. p \in SecretPolicy \cup {None} /\ u \in SecretUsage \cup {None}
  BY UsageType DEF Engine, Policy, HashMap
<1>2. r.policy = e.policy /\ r.secret_usage[n] = ResetUsage(u, t)
  BY ResetWindow, ResetUsageOf
<1>3. CASE p = None
  BY <1>2, <1>3 DEF check_secret_usage
<1>4. CASE p # None /\ u = None
  BY <1>2, <1>4 DEF check_secret_usage, ResetUsage
<1>5. CASE p # None /\ u # None
  <2>1. /\ DomainAllowed(p, url)
        /\ u.calls_this_minute < p.rate_limit
        /\ u.calls_today < p.daily_limit
    BY <1>5 DEF check_secret_usage
  <2>2. /\ u \in SecretUsage /\ p \in SecretPolicy
        /\ {u.calls_this_minute, u.calls_today} \subseteq Nat
        /\ {p.rate_limit, p.daily_limit} \subseteq Nat
    BY <1>1, <1>5 DEF SecretUsage, SecretPolicy
  <2> DEFINE v == ResetUsage(u, t)
  <2>3. /\ v.calls_this_minute \in {u.calls_this_minute, 0}
        /\ v.calls_today \in {u.calls_today, 0}
    BY <2>2, ResetUsageWindow
  <2> HIDE DEF v
  <2>4. v.calls_this_minute < p.rate_limit /\ v.calls_today < p.daily_limit
    BY <2>1, <2>2, <2>3
  <2> QED
    BY <1>2, <2>1, <2>4 DEF check_secret_usage, v
<1> QED
  BY <1>1, <1>3, <1>4, <1>5

(* One use of a secret adds one to both counters.                          *)
LEMMA RecordUse ==
  ASSUME NEW e \in Engine, NEW t \in Nat, NEW n \in SecretNames
  PROVE  LET u == IF e.secret_usage[n] = None THEN NewUsage(t)
                  ELSE e.secret_usage[n]
             r == record_secret_usage(e, n, t).secret_usage[n]
         IN  /\ u \in SecretUsage
             /\ r \in SecretUsage
             /\ r.calls_this_minute = u.calls_this_minute + 1
             /\ r.calls_today = u.calls_today + 1
             /\ r.last_minute_reset = u.last_minute_reset
             /\ r.last_day_reset = u.last_day_reset
<1> DEFINE u == IF e.secret_usage[n] = None THEN NewUsage(t)
                ELSE e.secret_usage[n]
           r == [u EXCEPT !.calls_this_minute = @ + 1, !.calls_today = @ + 1]
<1>1. u \in SecretUsage
  BY UsageType DEF NewUsage, SecretUsage
<1> HIDE DEF u
<1>2. record_secret_usage(e, n, t).secret_usage[n] = r
  <2> DEFINE usage == [e.secret_usage EXCEPT ![n] = r]
  <2>1. record_secret_usage(e, n, t) = [e EXCEPT !.secret_usage = usage]
    BY DEF record_secret_usage, Engine, u
  <2>2. usage[n] = r
    BY DEF Engine, HashMap
  <2> HIDE DEF usage, r
  <2>3. record_secret_usage(e, n, t).secret_usage = usage
    BY <2>1 DEF Engine
  <2> QED
    BY <2>2, <2>3
<1>3. /\ r \in SecretUsage
      /\ r.calls_this_minute = u.calls_this_minute + 1
      /\ r.calls_today = u.calls_today + 1
      /\ r.last_minute_reset = u.last_minute_reset
      /\ r.last_day_reset = u.last_day_reset
  <2>1. {u.calls_this_minute, u.calls_today} \subseteq Nat
    BY <1>1 DEF SecretUsage
  <2>2. {u.calls_this_minute + 1, u.calls_today + 1} \subseteq Nat
    BY <2>1
  <2> QED
    BY <1>1, <2>2 DEF SecretUsage
<1> QED
  BY <1>1, <1>2, <1>3 DEF u

(* The query check_policy refuses nothing that the engine's own checks     *)
(* allow: it looks at fewer of the limits.                                 *)
LEMMA QueryAgrees ==
  ASSUME NEW e \in Engine
  PROVE  /\ \A n \in SecretNames : \A url :
               check_secret_usage(e, n, url)
                   => check_use_secret(e.policy, n, url)
         /\ \A a \in u64, t \in Nat :
               check_spending(e, a, t) => check_spend(e.policy, a)
<1>1. \A a \in u64 : a # None
  BY NoneAssumption DEF u64
<1> QED
  BY <1>1 DEF check_secret_usage, check_use_secret, check_spending, check_spend

=============================================================================
