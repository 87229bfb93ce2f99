---------------------------- MODULE PolicyEngine ----------------------------
(***************************************************************************)
(* mandate/src/policy.rs as operators on an engine record.  The engine has *)
(* no thread of its own: with_policy_engine (mandate/src/lib.rs) locks it, *)
(* runs one of these operations and unlocks it, so each operator here is   *)
(* one atomic piece of an action of the modules that use it.               *)
(*                                                                         *)
(* A HashMap is a function that is None at the keys it lacks.  A URL is    *)
(* the set of allow-list entries it contains as substrings, which is all   *)
(* that `target_url.contains(domain)` can see of it.                       *)
(***************************************************************************)
EXTENDS Integers

CONSTANTS
    DAY,        \* SECONDS_PER_DAY, scaled down for model checking
    MINUTE,     \* SECONDS_PER_MINUTE, scaled down likewise
    WORD,       \* 2^64: u64 arithmetic wraps in the release build
    None,       \* Rust's None
    SecretNames,    \* names a secret may have
    Domains         \* entries an allow-list may have

ASSUME WindowAssumption == DAY \in Nat \ {0} /\ MINUTE \in Nat \ {0}
ASSUME WordAssumption == WORD \in Nat \ {0}

u64 == 0 .. WORD - 1

(* Mutant: 128-bit arithmetic stored back into a u64.                      *)
Mut_UncheckedAdd(a, b) == a + b

(* a + b on u64 operands: (a + b) % WORD, written without the division.    *)
WrappingAdd(a, b) == IF a + b < WORD THEN a + b ELSE a + b - WORD

-----------------------------------------------------------------------------
(* Types *)

HashMap(V) == [SecretNames -> V \cup {None}]

EmptyMap == [n \in SecretNames |-> None]

SpendingPolicy ==
    [max_per_tx: u64, max_daily: u64, expires_at: Nat \cup {None}]

SecretPolicy ==
    [rate_limit: Nat, daily_limit: Nat, allowed_domains: SUBSET Domains]

Policy ==
    [spending: SpendingPolicy, secrets: HashMap(SecretPolicy)]

SecretUsage ==
    [calls_this_minute: Nat, calls_today: Nat,
     last_minute_reset: Nat, last_day_reset: Nat]

Engine ==
    [policy: Policy, spending_today: u64, total_all_time: u64,
     last_day_reset: Nat, secret_usage: HashMap(SecretUsage)]

ASSUME NoneAssumption ==
    /\ None \notin Nat
    /\ None \notin SecretPolicy
    /\ None \notin SecretUsage
    /\ None \notin Engine

-----------------------------------------------------------------------------
(* PolicyEngine::new and the policy with_policy_engine starts it with      *)

(* Mutant: generous limits until a policy is set.                          *)
Mut_OpenByDefault ==
    [spending |-> [max_per_tx |-> WORD \div 4, max_daily |-> WORD \div 4,
                   expires_at |-> None],
     secrets |-> EmptyMap]

DefaultPolicy ==
    [spending |-> [max_per_tx |-> 0, max_daily |-> 0, expires_at |-> None],
     secrets |-> EmptyMap]

NewUsage(now) ==
    [calls_this_minute |-> 0, calls_today |-> 0,
     last_minute_reset |-> now, last_day_reset |-> now]

NewEngine(policy, now) ==
    [policy |-> policy, spending_today |-> 0, total_all_time |-> 0,
     last_day_reset |-> now, secret_usage |-> EmptyMap]

(* Mutant: a new policy restarts the counters.                             *)
Mut_PolicyClearsCounters(e, policy) == NewEngine(policy, e.last_day_reset)

set_policy(e, policy) == [e EXCEPT !.policy = policy]

-----------------------------------------------------------------------------
(* Time windows *)

DayOver(e, now) == now >= e.last_day_reset + DAY

ResetUsage(u, now) ==
    LET minute == now >= u.last_minute_reset + MINUTE
        day    == now >= u.last_day_reset + DAY
    IN  IF u = None THEN None ELSE
        [calls_this_minute |-> IF minute THEN 0 ELSE u.calls_this_minute,
         calls_today       |-> IF day THEN 0 ELSE u.calls_today,
         last_minute_reset |-> IF minute THEN now ELSE u.last_minute_reset,
         last_day_reset    |-> IF day THEN now ELSE u.last_day_reset]

(* Mutant: the new window's start is not stored.                           *)
Mut_ResetKeepsWindow(e, now) ==
    [e EXCEPT !.spending_today = IF DayOver(e, now) THEN 0 ELSE @]

reset_if_needed(e, now) ==
    [e EXCEPT !.spending_today = IF DayOver(e, now) THEN 0 ELSE @,
              !.last_day_reset = IF DayOver(e, now) THEN now ELSE @,
              !.secret_usage = [n \in SecretNames |->
                                    ResetUsage(e.secret_usage[n], now)]]

-----------------------------------------------------------------------------
(* Spending *)

Expired(spending, now) ==
    spending.expires_at # None /\ now > spending.expires_at

(* Mutant: the daily check looks at this transaction alone.                *)
Mut_CheckIgnoresToday(e, amount, now) ==
    /\ ~Expired(e.policy.spending, now)
    /\ amount <= e.policy.spending.max_per_tx
    /\ amount <= e.policy.spending.max_daily

check_spending(e, amount, now) ==
    /\ ~Expired(e.policy.spending, now)
    /\ amount <= e.policy.spending.max_per_tx
    /\ WrappingAdd(e.spending_today, amount) <= e.policy.spending.max_daily

(* Mutant: the all-time total is taken from the day's.                     *)
Mut_TotalFromToday(e, amount) ==
    [e EXCEPT !.spending_today = WrappingAdd(@, amount),
              !.total_all_time = WrappingAdd(e.spending_today, amount)]

record_spending(e, amount) ==
    [e EXCEPT !.spending_today = WrappingAdd(@, amount),
              !.total_all_time = WrappingAdd(@, amount)]

-----------------------------------------------------------------------------
(* Secret usage *)

DomainAllowed(policy, url) ==
    policy.allowed_domains # {} => policy.allowed_domains \cap url # {}

(* Mutant: > for >= in the comparisons with the limits.                    *)
Mut_OneMoreUse(e, name, url) ==
    LET p == e.policy.secrets[name]
        u == e.secret_usage[name]
    IN  p # None =>
            /\ DomainAllowed(p, url)
            /\ u # None => /\ u.calls_this_minute <= p.rate_limit
                           /\ u.calls_today <= p.daily_limit

(* Rate limits are looked at only for a secret that has a usage entry.     *)
check_secret_usage(e, name, url) ==
    LET p == e.policy.secrets[name]
        u == e.secret_usage[name]
    IN  p # None =>
            /\ DomainAllowed(p, url)
            /\ u # None => /\ u.calls_this_minute < p.rate_limit
                           /\ u.calls_today < p.daily_limit

(* Mutant: and_modify(count).or_insert(new), which misses the first use.   *)
Mut_FirstUseUncounted(e, name, now) ==
    LET u == e.secret_usage[name]
    IN  [e EXCEPT !.secret_usage[name] =
            IF u = None THEN NewUsage(now)
            ELSE [u EXCEPT !.calls_this_minute = @ + 1, !.calls_today = @ + 1]]

record_secret_usage(e, name, now) ==
    LET u == IF e.secret_usage[name] = None THEN NewUsage(now)
             ELSE e.secret_usage[name]
    IN  [e EXCEPT !.secret_usage[name] =
            [u EXCEPT !.calls_this_minute = @ + 1, !.calls_today = @ + 1]]

-----------------------------------------------------------------------------
(* The free function check, for check_policy: it is given the policy and   *)
(* not the engine, so it knows neither counters nor clock.                 *)

(* "spend"; an amount that is missing or no u64 counts as 0.               *)
check_spend(policy, amount) ==
    (IF amount = None THEN 0 ELSE amount) <= policy.spending.max_per_tx

(* "use_secret"; a secret without a policy may be used anywhere.           *)
check_use_secret(policy, name, url) ==
    policy.secrets[name] # None => DomainAllowed(policy.secrets[name], url)

=============================================================================
