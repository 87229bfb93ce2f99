------------------------------- MODULE TxFlow -------------------------------
(***************************************************************************)
(* The spending path of the mandate crate (mandate/src/lib.rs): the module *)
(* statics, mandate_init, set_policy, the queries, and tx_flow, the        *)
(* pipeline behind transfer_usdc and create_deal_order.                    *)
(*                                                                         *)
(* A caller is a thread of the host program.  The WASM build has one; the  *)
(* rlib build has as many as the embedding program, because the statics    *)
(* are global and every lock is released between two steps.  Each action   *)
(* is what one caller does between two points where others may run: a lock *)
(* released, or an HTTP call out to the backend.  An entry point that      *)
(* returns an error before it changes anything is a stuttering step.       *)
(*                                                                         *)
(* The backend is outside the repository.  It answers anything, except     *)
(* that an acknowledged submit was executed and a refused one was not.     *)
(* What it executes is the amount in the text that it was sent, to the     *)
(* payee of the operation whose hash tx_flow signed.                       *)
(***************************************************************************)
EXTENDS PolicyEngine, Sequences, FiniteSets

CONSTANTS
    Callers,        \* threads that call the module's exports
    Amounts,        \* what the accepted amount texts mean, in micro-USDC
    Recipients,     \* values of `to`: addresses and agent ids
    HexAddresses,   \* those that pass the is_hex_address test
    Policies,       \* policies the host program passes to set_policy
    Mandates,       \* limits that GET /mandates/mine reports
    MaxTime,        \* bound on the clock
    MaxTx,          \* bound on executed transactions
    MaxRestarts     \* bound on process restarts

ASSUME InputAssumption ==
    /\ Amounts \subseteq Nat
    /\ HexAddresses \subseteq Recipients
    /\ None \notin Recipients
    /\ Policies \subseteq Policy
    /\ Mandates \subseteq SpendingPolicy
ASSUME BoundAssumption == {MaxTime, MaxTx, MaxRestarts} \subseteq Nat

VARIABLES
    now,            \* current_time()
    engine,         \* POLICY_ENGINE
    config,         \* BACKEND_CONFIG is Some
    keys,           \* which of WORKER_KEY, SESSION_KEY are Some
    mandate_info,   \* MANDATE_INFO, reduced to its limits
    pc,             \* where each caller is
    loc,            \* the locals of its call
    ledger,         \* history: what the backend executed, in order
    restarts        \* history: how often the process was restarted

statics == <<engine, config, keys, mandate_info>>
vars == <<now, statics, pc, loc, ledger, restarts>>

KeyNames == {"worker", "session"}

(* asked: what `amount` means, the text that goes to the backend; amount:  *)
(* amount_micro; hash: user_op_hash, as the payee of its operation.        *)
Locals == [now: Nat, asked: Nat, amount: u64, to: Recipients \cup {None},
           hash: Recipients \cup {None}, tx: Nat,
           info: SpendingPolicy \cup {None}]

NoLocals == [now |-> 0, asked |-> 0, amount |-> 0, to |-> None, hash |-> None,
             tx |-> 0, info |-> None]

(* Between a passed pre-flight check and the local record.                 *)
FlowSteps == {"check_spend", "prepare", "submit", "record_spend", "record"}

Pcs == {"idle", "fetch_mandate", "store_info", "preflight"} \cup FlowSteps

InFlight(c) == pc[c] \in FlowSteps

(* A transaction as it was executed, and the amount that tx_flow counts    *)
(* for it.  pending: acknowledged, not yet recorded; lost: never will be.  *)
Entry == [asked: Nat, amount: u64, to: Recipients, payee: Recipients \cup {None},
          at: Nat, epoch: Nat, status: {"pending", "recorded", "lost"}]

TypeOK ==
    /\ now \in Nat
    /\ engine \in Engine \cup {None}
    /\ config \in BOOLEAN
    /\ keys \subseteq KeyNames
    /\ mandate_info \in SpendingPolicy \cup {None}
    /\ pc \in [Callers -> Pcs]
    /\ loc \in [Callers -> Locals]
    /\ ledger \in Seq(Entry)
    /\ restarts \in Nat

Init ==
    /\ now = 0
    /\ engine = None
    /\ config = FALSE
    /\ keys = {}
    /\ mandate_info = None
    /\ pc = [c \in Callers |-> "idle"]
    /\ loc = [c \in Callers |-> NoLocals]
    /\ ledger = <<>>
    /\ restarts = 0

-----------------------------------------------------------------------------
(* with_policy_engine: the engine, created on first use.                   *)
Locked == IF engine = None THEN NewEngine(DefaultPolicy, now) ELSE engine

Goto(c, l) == pc' = [pc EXCEPT ![c] = l]

(* Ok or Err: the locals die with the call.                                *)
Return(c) == Goto(c, "idle") /\ loc' = [loc EXCEPT ![c] = NoLocals]

-----------------------------------------------------------------------------
(* Policy exports *)

SetPolicy(c) ==
    /\ pc[c] = "idle"
    /\ \E p \in Policies : engine' = set_policy(Locked, p)
    /\ UNCHANGED <<now, config, keys, mandate_info, pc, loc, ledger, restarts>>

CheckPolicy(c) ==
    /\ pc[c] = "idle"
    /\ engine' = Locked
    /\ UNCHANGED <<now, config, keys, mandate_info, pc, loc, ledger, restarts>>

GetSpendingSummary(c) ==
    /\ pc[c] = "idle"
    /\ engine' = reset_if_needed(Locked, now)
    /\ UNCHANGED <<now, config, keys, mandate_info, pc, loc, ledger, restarts>>

-----------------------------------------------------------------------------
(* Keys and mandate_init *)

GenerateKeys(c) ==
    /\ pc[c] = "idle"
    /\ keys' = KeyNames
    /\ UNCHANGED <<now, engine, config, mandate_info, pc, loc, ledger, restarts>>

(* mandate_init up to the request: `found` are the keys that the host      *)
(* store or the config holds.  A missing worker key returns before the     *)
(* session key is looked for; config is stored before the backend answers. *)
(* The code looks at each key, and stores it, under locks of its own with  *)
(* host calls in between: KeyLifecycle has those steps.  One step is       *)
(* enough here, where only the presence of the keys is kept.               *)
MandateInit(c) ==
    /\ pc[c] = "idle"
    /\ \E found \in SUBSET KeyNames :
        LET worker == keys \cup (found \cap {"worker"})
            loaded == IF "worker" \in worker THEN worker \cup found ELSE keys
        IN  /\ keys' = loaded
            /\ IF loaded = KeyNames
               THEN config' = TRUE /\ Goto(c, "fetch_mandate")
               ELSE UNCHANGED <<config, pc>>
    /\ UNCHANGED <<now, engine, mandate_info, loc, ledger, restarts>>

(* mandate_init from the reply on: the engine first, then MANDATE_INFO.    *)
Hydrate(c) ==
    /\ pc[c] = "fetch_mandate"
    /\ \E m \in Mandates :
        /\ engine' = set_policy(Locked, [spending |-> m,
                                         secrets |-> Locked.policy.secrets])
        /\ loc' = [loc EXCEPT ![c].info = m]
    /\ Goto(c, "store_info")
    /\ UNCHANGED <<now, config, keys, mandate_info, ledger, restarts>>

StoreInfo(c) ==
    /\ pc[c] = "store_info"
    /\ mandate_info' = loc[c].info
    /\ Return(c)
    /\ UNCHANGED <<now, engine, config, keys, ledger, restarts>>

(* An HTTP error, a refusal or an unreadable mandate: Err, but config and  *)
(* keys stay as MandateInit left them.                                     *)
HydrateFails(c) ==
    /\ pc[c] = "fetch_mandate"
    /\ Return(c)
    /\ UNCHANGED <<now, statics, ledger, restarts>>

-----------------------------------------------------------------------------
(* tx_flow *)

(* Lines before the first lock of the engine: the clock is read here, and  *)
(* the text is parsed into a u64 that wraps in the release build.          *)
Begin(c) ==
    /\ pc[c] = "idle"
    /\ config
    /\ keys = KeyNames
    /\ \E asked \in Amounts, to \in Recipients :
        loc' = [loc EXCEPT ![c] = [NoLocals EXCEPT !.now = now,
                                                   !.asked = asked,
                                                   !.amount = asked % WORD,
                                                   !.to = to]]
    /\ Goto(c, "preflight")
    /\ UNCHANGED <<now, statics, ledger, restarts>>

(* Mutant: the `?` after the pre-flight check is missing.                  *)
Mut_PreflightIgnored(c) ==
    /\ pc[c] = "preflight"
    /\ engine' = reset_if_needed(Locked, loc[c].now)
    /\ Goto(c, "check_spend")
    /\ UNCHANGED <<now, config, keys, mandate_info, loc, ledger, restarts>>

(* Mutant: a denied flow waits for the limit to allow it.                  *)
Mut_PreflightWaits(c) ==
    /\ pc[c] = "preflight"
    /\ engine' = reset_if_needed(Locked, loc[c].now)
    /\ check_spending(engine', loc[c].amount, loc[c].now)
    /\ Goto(c, "check_spend")
    /\ UNCHANGED <<now, config, keys, mandate_info, loc, ledger, restarts>>

Preflight(c) ==
    /\ pc[c] = "preflight"
    /\ LET e == reset_if_needed(Locked, loc[c].now)
       IN  /\ engine' = e
           /\ IF check_spending(e, loc[c].amount, loc[c].now)
              THEN Goto(c, "check_spend") /\ UNCHANGED loc
              ELSE Return(c)
    /\ UNCHANGED <<now, config, keys, mandate_info, ledger, restarts>>

(* Any status below 400 lets the flow go on: the body is not read.         *)
CheckSpendAnswered(c) ==
    /\ pc[c] = "check_spend"
    /\ Goto(c, "prepare")
    /\ UNCHANGED <<now, statics, loc, ledger, restarts>>

(* The calldata is decoded only when `to` is an address, which it must     *)
(* name.  None stands for calldata that is absent, not hex, or too short.  *)
(* The hash to sign comes with it; nothing ties the one to the other.  A   *)
(* reply without a hash, or with an unreadable one, is a BackendRefuses.   *)
Prepare(c) ==
    /\ pc[c] = "prepare"
    /\ \E calldata \in Recipients \cup {None}, hash \in Recipients :
        IF loc[c].to \in HexAddresses => calldata = loc[c].to
        THEN loc' = [loc EXCEPT ![c].hash = hash] /\ Goto(c, "submit")
        ELSE Return(c)
    /\ UNCHANGED <<now, statics, ledger, restarts>>

Executed(c, status) ==
    [asked |-> loc[c].asked, amount |-> loc[c].amount, to |-> loc[c].to,
     payee |-> loc[c].hash, at |-> now, epoch |-> restarts, status |-> status]

SubmitAcknowledged(c) ==
    /\ pc[c] = "submit"
    /\ Len(ledger) < MaxTx
    /\ ledger' = Append(ledger, Executed(c, "pending"))
    /\ loc' = [loc EXCEPT ![c].tx = Len(ledger) + 1]
    /\ Goto(c, "record_spend")
    /\ UNCHANGED <<now, statics, restarts>>

(* The backend executed the transaction but its reply never arrived, was   *)
(* too large for the host's buffer, or carried no tx_hash: tx_flow returns *)
(* Err and nothing is recorded.                                            *)
SubmitReplyLost(c) ==
    /\ pc[c] = "submit"
    /\ Len(ledger) < MaxTx
    /\ ledger' = Append(ledger, Executed(c, "lost"))
    /\ Return(c)
    /\ UNCHANGED <<now, statics, restarts>>

(* check-spend, prepare or submit answered with an error, and the backend  *)
(* executed nothing.                                                       *)
BackendRefuses(c) ==
    /\ pc[c] \in {"check_spend", "prepare", "submit"}
    /\ Return(c)
    /\ UNCHANGED <<now, statics, ledger, restarts>>

(* Mutant: a failed record-spend is returned as an error.                  *)
Mut_RecordSpendFails(c) ==
    /\ pc[c] = "record_spend"
    /\ (Goto(c, "record") /\ UNCHANGED loc) \/ Return(c)
    /\ UNCHANGED <<now, statics, ledger, restarts>>

(* POST /mandates/record-spend: the result is ignored.                     *)
RecordSpendSent(c) ==
    /\ pc[c] = "record_spend"
    /\ Goto(c, "record")
    /\ UNCHANGED <<now, statics, loc, ledger, restarts>>

Record(c) ==
    /\ pc[c] = "record"
    /\ engine' = record_spending(Locked, loc[c].amount)
    /\ ledger' = [ledger EXCEPT ![loc[c].tx].status = "recorded"]
    /\ Return(c)
    /\ UNCHANGED <<now, config, keys, mandate_info, restarts>>

-----------------------------------------------------------------------------
(* The environment *)

Tick ==
    /\ now < MaxTime
    /\ now' = now + 1
    /\ UNCHANGED <<statics, pc, loc, ledger, restarts>>

(* Nothing of this state is persisted: a new process starts from nothing.  *)
Restart ==
    /\ restarts < MaxRestarts
    /\ restarts' = restarts + 1
    /\ engine' = None
    /\ config' = FALSE
    /\ keys' = {}
    /\ mandate_info' = None
    /\ pc' = [c \in Callers |-> "idle"]
    /\ loc' = [c \in Callers |-> NoLocals]
    /\ ledger' = [i \in DOMAIN ledger |->
                     [ledger[i] EXCEPT !.status =
                         IF @ = "pending" THEN "lost" ELSE @]]
    /\ UNCHANGED now

-----------------------------------------------------------------------------
(* One step of a call that has begun; the host's imports always return.    *)
Continue(c) ==
    \/ Hydrate(c)
    \/ StoreInfo(c)
    \/ HydrateFails(c)
    \/ Preflight(c)
    \/ CheckSpendAnswered(c)
    \/ Prepare(c)
    \/ SubmitAcknowledged(c)
    \/ SubmitReplyLost(c)
    \/ BackendRefuses(c)
    \/ RecordSpendSent(c)
    \/ Record(c)

Call(c) ==
    \/ SetPolicy(c)
    \/ CheckPolicy(c)
    \/ GetSpendingSummary(c)
    \/ GenerateKeys(c)
    \/ MandateInit(c)
    \/ Begin(c)

Next ==
    \/ \E c \in Callers : Call(c) \/ Continue(c)
    \/ Tick
    \/ Restart

Spec == Init /\ [][Next]_vars

FairSpec == Spec /\ \A c \in Callers : WF_vars(Continue(c))

-----------------------------------------------------------------------------
(* Properties *)

(* Every spending policy the engine can ever hold.                         *)
Limits == {p.spending : p \in Policies} \cup Mandates
              \cup {DefaultPolicy.spending}

(* No day's total plus one more transaction can reach 2^64: where this     *)
(* fails, the sum in check_spending wraps and the daily check is void.     *)
LimitsFit == \A s, t \in Limits : s.max_daily + t.max_per_tx < WORD

(* No policy that is set is the one of limits 0 that an engine starts      *)
(* with, so that an engine that has that one was never given another.      *)
PoliciesDiffer ==
    DefaultPolicy \notin Policies /\ DefaultPolicy.spending \notin Mandates

(* What a passed pre-flight check promised is still true at every later    *)
(* step of the flow, up to the local record: within the expiry at the time *)
(* the flow read, within max_per_tx, and within max_daily when added to    *)
(* what the engine counts now.  tx_flow relies on this when it records     *)
(* without checking again (lib.rs:597 and 708).  It needs a single caller: *)
(* others may record, or change the policy, in between.                    *)
PreflightStillHolds ==
    \A c \in Callers : InFlight(c) =>
        /\ engine # None
        /\ check_spending(engine, loc[c].amount, loc[c].now)

RecordWithinLimits ==
    \A c \in Callers : Record(c) =>
        /\ loc[c].amount <= engine'.policy.spending.max_per_tx
        /\ engine'.spending_today <= engine'.policy.spending.max_daily
        /\ engine'.spending_today = engine.spending_today + loc[c].amount

(* No local record takes the day's total over the max_daily in force, or   *)
(* counts a transaction over the max_per_tx in force, or wraps the u64.    *)
DailyLimitRespected == [][RecordWithinLimits]_vars

SameWindow ==
    /\ engine'.last_day_reset = engine.last_day_reset
    /\ \/ engine'.spending_today = engine.spending_today
       \/ \E c \in Callers :
            /\ pc[c] = "record"
            /\ engine'.spending_today =
                   WrappingAdd(engine.spending_today, loc[c].amount)

NewWindow ==
    /\ engine'.last_day_reset >= engine.last_day_reset + DAY
    /\ engine'.last_day_reset <= now
    /\ engine'.spending_today = 0

WindowStep == engine # None /\ engine' # None => SameWindow \/ NewWindow

(* The daily counter is cleared only by opening a new window, at least a   *)
(* DAY after the previous one opened and never ahead of the clock; inside  *)
(* a window only a record changes it.  Neither set_policy nor a repeated   *)
(* mandate_init resets what was spent.  Holds for any number of callers,   *)
(* although reset_if_needed gets a clock value read before the lock.       *)
WindowsLastADay == [][WindowStep]_vars

(* Fail closed: mandate_init stores the config before the backend answers, *)
(* so a failed init leaves tx_flow callable.  Until some policy has been   *)
(* set in this process, nothing was executed but amounts that are 0 as a   *)
(* u64: 0 itself, and the multiples of 2^64 that the parser (lib.rs:502)   *)
(* takes for 0, which AskedWithinMaxPerTx is about.                        *)
NothingSpentWithoutPolicy ==
    engine = None \/ engine.policy = DefaultPolicy =>
        \A i \in DOMAIN ledger :
            ledger[i].epoch = restarts => ledger[i].asked % WORD = 0

(* types.rs:14, on max_per_tx: "Max USDC per transaction."  Of what is     *)
(* asked of the backend, not of what the parser makes of it.               *)
AskedWithinMaxPerTx ==
    \A c \in Callers :
        InFlight(c) => loc[c].asked <= engine.policy.spending.max_per_tx

(* lib.rs:637-639, on the check of the calldata: "This closes the gap      *)
(* where a compromised JS layer could redirect payments by tampering with  *)
(* the HTTP bridge response from /transactions/prepare."  An executed      *)
(* transfer that was asked for an address pays that address.               *)
PayeeIsRequested ==
    \A i \in DOMAIN ledger :
        ledger[i].to \in HexAddresses => ledger[i].payee = ledger[i].to

(* Every call that was begun returns.                                      *)
CallsReturn == \A c \in Callers : pc[c] # "idle" ~> pc[c] = "idle"

(* An acknowledged transaction is counted locally, whatever becomes of the *)
(* record-spend request: only a restart can prevent it.                    *)
AcknowledgedIsRecorded ==
    \A i \in 1 .. MaxTx :
        (i \in DOMAIN ledger /\ ledger[i].status = "pending")
            ~> (/\ i \in DOMAIN ledger
                /\ ledger[i].status = "recorded" \/ ledger[i].epoch < restarts)

=============================================================================
