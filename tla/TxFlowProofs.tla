---------------------------- MODULE TxFlowProofs ----------------------------
(***************************************************************************)
(* Theorems about TxFlow.  For any number of callers: types, the daily     *)
(* windows, that amounts are counted modulo 2^64 and no worse, and that    *)
(* nothing is spent before a policy is set.  For the single caller of the  *)
(* WASM build: that the pre-flight verdict is never stale, hence that the  *)
(* daily limit is respected by everything that is recorded.                *)
(***************************************************************************)
EXTENDS TxFlow, PolicyEngineProofs, SequenceTheorems

USE DEF statics

(* The engine that with_policy_engine hands out is an engine.              *)
LEMMA LockedType ==
  ASSUME TypeOK
  PROVE  Locked \in Engine
BY DefaultPolicyType, NewEngineType DEF TypeOK, Locked

LEMMA NoLocalsType == NoLocals \in Locals
BY WordAssumption DEF NoLocals, Locals, u64

(* Leaving a call keeps pc and loc well typed.                             *)
LEMMA ReturnType ==
  ASSUME TypeOK, NEW c \in Callers, Return(c)
  PROVE  pc' \in [Callers -> Pcs] /\ loc' \in [Callers -> Locals]
BY NoLocalsType DEF TypeOK, Return, Goto, Pcs

(* Rewriting entries of the ledger one by one yields a ledger.             *)
LEMMA LedgerUpdateType ==
  ASSUME ledger \in Seq(Entry),
         NEW f, f = [i \in DOMAIN ledger |-> f[i]],
         \A i \in DOMAIN ledger : f[i] \in Entry
  PROVE  f \in Seq(Entry)
<1>1. DOMAIN ledger = 1 .. Len(ledger) /\ Len(ledger) \in Nat
  OBVIOUS
<1>2. f \in [1 .. Len(ledger) -> Entry]
  BY <1>1
<1> QED
  BY <1>1, <1>2, SeqDef

LEMMA EntryStatusType ==
  ASSUME NEW e \in Entry, NEW s \in {"pending", "recorded", "lost"}
  PROVE  [e EXCEPT !.status = s] \in Entry
BY DEF Entry

LEMMA LedgerEntry ==
  ASSUME ledger \in Seq(Entry), NEW i \in DOMAIN ledger
  PROVE  ledger[i] \in Entry
OBVIOUS

LEMMA LocalsTxType ==
  ASSUME NEW l \in Locals, NEW n \in Nat
  PROVE  [l EXCEPT !.tx = n] \in Locals /\ [l EXCEPT !.tx = n].to = l.to
BY DEF Locals

(* A transaction the backend executes is a well-formed ledger entry once   *)
(* the recipient of the flow is known.                                     *)
FlowHasRecipient == \A c \in Callers : pc[c] \in {"preflight"} \cup FlowSteps =>
                        loc[c].to \in Recipients

LEMMA ExecutedType ==
  ASSUME TypeOK, FlowHasRecipient, NEW c \in Callers, InFlight(c),
         NEW s \in {"pending", "recorded", "lost"}
  PROVE  Executed(c, s) \in Entry
<1>1. loc[c] \in Locals /\ loc[c].to \in Recipients
  BY DEF TypeOK, FlowHasRecipient, InFlight
<1> QED
  BY <1>1 DEF Executed, Entry, Locals, TypeOK

TypeInv == TypeOK /\ FlowHasRecipient

-----------------------------------------------------------------------------
LEMMA TypeInit == Init => TypeInv
<1> SUFFICES ASSUME Init PROVE TypeInv
  OBVIOUS
<1>1. <<>> \in Seq(Entry)
  OBVIOUS
<1> QED
  BY <1>1, NoLocalsType
  DEF Init, TypeInv, TypeOK, FlowHasRecipient, Pcs, FlowSteps, KeyNames

LEMMA TypeStep == TypeInv /\ [Next]_vars => TypeInv'
<1> SUFFICES ASSUME TypeInv, [Next]_vars PROVE TypeInv'
  OBVIOUS
<1>0. TypeOK /\ FlowHasRecipient /\ Locked \in Engine
  BY LockedType DEF TypeInv
<1>1. ASSUME NEW c \in Callers, SetPolicy(c) PROVE TypeInv'
  <2>1. engine' \in Engine
    BY <1>0, <1>1, SetPolicyType, InputAssumption DEF SetPolicy
  <2> QED
    BY <1>0, <1>1, <2>1 DEF SetPolicy, TypeInv, TypeOK, FlowHasRecipient
<1>2. ASSUME NEW c \in Callers, CheckPolicy(c) PROVE TypeInv'
  BY <1>0, <1>2 DEF CheckPolicy, TypeInv, TypeOK, FlowHasRecipient
<1>3. ASSUME NEW c \in Callers, GetSpendingSummary(c) PROVE TypeInv'
  <2>1. engine' \in Engine
    BY <1>0, <1>3, ResetType DEF GetSpendingSummary, TypeOK
  <2> QED
    BY <1>0, <1>3, <2>1
    DEF GetSpendingSummary, TypeInv, TypeOK, FlowHasRecipient
<1>4. ASSUME NEW c \in Callers, GenerateKeys(c) PROVE TypeInv'
  BY <1>0, <1>4 DEF GenerateKeys, TypeInv, TypeOK, FlowHasRecipient
<1>5. ASSUME NEW c \in Callers, MandateInit(c) PROVE TypeInv'
  <2>1. keys' \subseteq KeyNames /\ config' \in BOOLEAN
    BY <1>0, <1>5 DEF MandateInit, TypeOK, KeyNames
  <2>2. pc' = pc \/ pc' = [pc EXCEPT ![c] = "fetch_mandate"]
    BY <1>5 DEF MandateInit, Goto
  <2> QED
    BY <1>0, <1>5, <2>1, <2>2
    DEF MandateInit, TypeInv, TypeOK, FlowHasRecipient, Pcs, FlowSteps
<1>6. ASSUME NEW c \in Callers, Hydrate(c) PROVE TypeInv'
  <2>1. PICK m \in Mandates :
          /\ engine' = set_policy(Locked, [spending |-> m,
                                        secrets |-> Locked.policy.secrets])
          /\ loc' = [loc EXCEPT ![c].info = m]
    BY <1>6 DEF Hydrate
  <2>2. m \in SpendingPolicy
    BY InputAssumption
  <2>3. [spending |-> m, secrets |-> Locked.policy.secrets] \in Policy
    BY <1>0, <2>2 DEF Engine, Policy
  <2>4. engine' \in Engine
    BY <1>0, <2>1, <2>3, SetPolicyType
  <2>5. [loc[c] EXCEPT !.info = m] \in Locals
    BY <1>0, <2>2 DEF TypeOK, Locals
  <2>6. /\ loc' \in [Callers -> Locals]
        /\ \A x \in Callers : x # c => loc'[x] = loc[x]
    BY <1>0, <2>1, <2>5 DEF TypeOK
  <2>7. pc' = [pc EXCEPT ![c] = "store_info"] /\ pc \in [Callers -> Pcs]
    BY <1>0, <1>6 DEF Hydrate, Goto, TypeOK
  <2>8. FlowHasRecipient'
    BY <1>0, <2>6, <2>7 DEF FlowHasRecipient, FlowSteps
  <2>9. pc' \in [Callers -> Pcs]
    BY <2>7 DEF Pcs
  <2> QED
    BY <1>0, <1>6, <2>4, <2>6, <2>8, <2>9 DEF Hydrate, TypeInv, TypeOK
<1>6a. ASSUME NEW c \in Callers, StoreInfo(c) PROVE TypeInv'
  <2>1. mandate_info' \in SpendingPolicy \cup {None}
    BY <1>0, <1>6a DEF StoreInfo, TypeOK, Locals
  <2> QED
    BY <1>0, <1>6a, <2>1, ReturnType
    DEF StoreInfo, TypeInv, TypeOK, FlowHasRecipient, Return, Goto, FlowSteps
<1>7. ASSUME NEW c \in Callers, HydrateFails(c) PROVE TypeInv'
  BY <1>0, <1>7, ReturnType
  DEF HydrateFails, TypeInv, TypeOK, FlowHasRecipient, Return, Goto, FlowSteps
<1>8. ASSUME NEW c \in Callers, Begin(c) PROVE TypeInv'
  <2>1. PICK a \in Amounts, to \in Recipients :
          loc' = [loc EXCEPT ![c] = [NoLocals EXCEPT !.now = now,
                                                     !.asked = a,
                                                     !.amount = a % WORD,
                                                     !.to = to]]
    BY <1>8 DEF Begin
  <2> DEFINE m == a % WORD
             l == [NoLocals EXCEPT !.now = now, !.asked = a, !.amount = m,
                                   !.to = to]
  <2>2. l \in Locals /\ l.to \in Recipients
    <3>1. m \in u64 /\ a \in Nat
      BY InputAssumption, WordAssumption DEF u64
    <3> HIDE DEF m
    <3> QED
      BY <1>0, <3>1, NoLocalsType DEF TypeOK, Locals
  <2> HIDE DEF l
  <2>3. loc' \in [Callers -> Locals] /\ loc'[c].to \in Recipients
    BY <1>0, <2>1, <2>2 DEF TypeOK, l
  <2> QED
    BY <1>0, <1>8, <2>1, <2>3
    DEF Begin, Goto, TypeInv, TypeOK, FlowHasRecipient, Pcs, FlowSteps
<1>9. ASSUME NEW c \in Callers, Preflight(c) PROVE TypeInv'
  <2>1. engine' \in Engine
    BY <1>0, <1>9, ResetType DEF Preflight, TypeOK, Locals
  <2>2. CASE Return(c)
    BY <1>0, <1>9, <2>1, <2>2, ReturnType
    DEF Preflight, TypeInv, TypeOK, FlowHasRecipient, Return, Goto, FlowSteps
  <2>3. CASE Goto(c, "check_spend") /\ UNCHANGED loc
    BY <1>0, <1>9, <2>1, <2>3
    DEF Preflight, TypeInv, TypeOK, FlowHasRecipient, Goto, Pcs, FlowSteps
  <2> QED
    BY <1>9, <2>2, <2>3 DEF Preflight
<1>10. ASSUME NEW c \in Callers, CheckSpendAnswered(c) PROVE TypeInv'
  BY <1>0, <1>10
  DEF CheckSpendAnswered, Goto, TypeInv, TypeOK, FlowHasRecipient, Pcs,
      FlowSteps
<1>11. ASSUME NEW c \in Callers, Prepare(c) PROVE TypeInv'
  <2>1. CASE Return(c)
    BY <1>0, <1>11, <2>1, ReturnType
    DEF Prepare, TypeInv, TypeOK, FlowHasRecipient, Return, Goto, FlowSteps
  <2>2. ASSUME NEW d \in Recipients \cup {None},
               loc' = [loc EXCEPT ![c].hash = d], Goto(c, "submit")
        PROVE  TypeInv'
    <3>1. [loc[c] EXCEPT !.hash = d] \in Locals
      BY <1>0 DEF TypeOK, Locals
    <3>2. [loc[c] EXCEPT !.hash = d].to = loc[c].to
      BY <1>0 DEF TypeOK, Locals
    <3> DEFINE l == [loc[c] EXCEPT !.hash = d]
    <3>3. loc' = [loc EXCEPT ![c] = l]
      BY <2>2
    <3> HIDE DEF l
    <3>4. /\ loc' \in [Callers -> Locals]
          /\ \A x \in Callers : loc'[x].to = loc[x].to
      BY <1>0, <3>1, <3>2, <3>3 DEF TypeOK, l
    <3> QED
      BY <1>0, <1>11, <2>2, <3>4
      DEF Prepare, Goto, TypeInv, TypeOK, FlowHasRecipient, Pcs, FlowSteps
  <2> QED
    BY <1>11, <2>1, <2>2 DEF Prepare
<1>12. ASSUME NEW c \in Callers, SubmitAcknowledged(c) PROVE TypeInv'
  <2>1. Executed(c, "pending") \in Entry
    BY <1>0, <1>12, ExecutedType DEF SubmitAcknowledged, InFlight, FlowSteps
  <2>2. ledger' \in Seq(Entry) /\ Len(ledger) \in Nat
    BY <1>0, <1>12, <2>1, AppendProperties DEF SubmitAcknowledged, TypeOK
  <2> DEFINE l == [loc[c] EXCEPT !.tx = Len(ledger) + 1]
  <2>3. l \in Locals /\ l.to = loc[c].to
    <3>1. loc[c] \in Locals /\ Len(ledger) + 1 \in Nat
      BY <1>0, <2>2 DEF TypeOK
    <3> QED
      BY <3>1, LocalsTxType
  <2>4. loc' = [loc EXCEPT ![c] = l]
    BY <1>12 DEF SubmitAcknowledged
  <2> HIDE DEF l
  <2>5. /\ loc' \in [Callers -> Locals]
        /\ \A x \in Callers : loc'[x].to = loc[x].to
    BY <1>0, <2>3, <2>4 DEF TypeOK
  <2> QED
    BY <1>0, <1>12, <2>2, <2>5
    DEF SubmitAcknowledged, Goto, TypeInv, TypeOK, FlowHasRecipient, Pcs,
        FlowSteps
<1>13. ASSUME NEW c \in Callers, SubmitReplyLost(c) PROVE TypeInv'
  <2>1. Executed(c, "lost") \in Entry
    BY <1>0, <1>13, ExecutedType DEF SubmitReplyLost, InFlight, FlowSteps
  <2>2. ledger' \in Seq(Entry)
    BY <1>0, <1>13, <2>1, AppendProperties DEF SubmitReplyLost, TypeOK
  <2> QED
    BY <1>0, <1>13, <2>2, ReturnType
    DEF SubmitReplyLost, TypeInv, TypeOK, FlowHasRecipient, Return, Goto,
        FlowSteps
<1>14. ASSUME NEW c \in Callers, BackendRefuses(c) PROVE TypeInv'
  BY <1>0, <1>14, ReturnType
  DEF BackendRefuses, TypeInv, TypeOK, FlowHasRecipient, Return, Goto,
      FlowSteps
<1>15. ASSUME NEW c \in Callers, RecordSpendSent(c) PROVE TypeInv'
  BY <1>0, <1>15
  DEF RecordSpendSent, Goto, TypeInv, TypeOK, FlowHasRecipient, Pcs, FlowSteps
<1>16. ASSUME NEW c \in Callers, Record(c) PROVE TypeInv'
  <2>1. engine' \in Engine
    BY <1>0, <1>16, RecordType DEF Record, TypeOK, Locals
  <2>2. \A i \in DOMAIN ledger : ledger'[i] \in Entry
    <3> SUFFICES ASSUME NEW i \in DOMAIN ledger PROVE ledger'[i] \in Entry
      OBVIOUS
    <3>1. ledger[i] \in Entry
      BY <1>0, LedgerEntry DEF TypeOK
    <3>2. ledger'[i] \in {ledger[i], [ledger[i] EXCEPT !.status = "recorded"]}
      BY <1>16 DEF Record
    <3> QED
      BY <3>1, <3>2, EntryStatusType
  <2>3. ledger' = [i \in DOMAIN ledger |-> ledger'[i]]
    BY <1>0, <1>16 DEF Record, TypeOK
  <2>4. ledger' \in Seq(Entry)
    BY <1>0, <2>2, <2>3, LedgerUpdateType DEF TypeOK
  <2> QED
    BY <1>0, <1>16, <2>1, <2>4, ReturnType
    DEF Record, TypeInv, TypeOK, FlowHasRecipient, Return, Goto, FlowSteps
<1>17. CASE Tick
  BY <1>0, <1>17 DEF Tick, TypeInv, TypeOK, FlowHasRecipient
<1>18. CASE Restart
  <2>1. \A i \in DOMAIN ledger : ledger'[i] \in Entry
    <3> SUFFICES ASSUME NEW i \in DOMAIN ledger PROVE ledger'[i] \in Entry
      OBVIOUS
    <3>1. ledger[i] \in Entry
      BY <1>0, LedgerEntry DEF TypeOK
    <3>2. PICK s \in {"lost", ledger[i].status} :
            ledger'[i] = [ledger[i] EXCEPT !.status = s]
      BY <1>18 DEF Restart
    <3>3. ledger[i].status \in {"pending", "recorded", "lost"}
      BY <3>1 DEF Entry
    <3> QED
      BY <3>1, <3>2, <3>3, EntryStatusType
  <2>2. ledger' = [i \in DOMAIN ledger |-> ledger'[i]]
    BY <1>18 DEF Restart
  <2>3. ledger' \in Seq(Entry)
    BY <1>0, <2>1, <2>2, LedgerUpdateType DEF TypeOK
  <2>4. pc' \in [Callers -> Pcs] /\ loc' \in [Callers -> Locals]
    BY <1>18, NoLocalsType DEF Restart, Pcs
  <2>5. restarts' \in Nat /\ now' \in Nat
    BY <1>0, <1>18 DEF Restart, TypeOK
  <2>6. TypeOK'
    BY <1>18, <2>3, <2>4, <2>5 DEF Restart, TypeOK, KeyNames
  <2>7. FlowHasRecipient'
    BY <1>18 DEF Restart, FlowHasRecipient, FlowSteps
  <2> QED
    BY <2>6, <2>7 DEF TypeInv
<1>19. CASE UNCHANGED vars
  BY <1>0, <1>19 DEF vars, TypeInv, TypeOK, FlowHasRecipient
<1> QED
  BY <1>1, <1>2, <1>3, <1>4, <1>5, <1>6, <1>6a, <1>7, <1>8, <1>9, <1>10,
     <1>11, <1>12, <1>13, <1>14, <1>15, <1>16, <1>17, <1>18, <1>19
  DEF Next, Call, Continue

(* Type correctness, for any number of callers and every bound.            *)
THEOREM TypeCorrect == Spec => []TypeOK
<1>1. TypeInv => TypeOK
  BY DEF TypeInv
<1> QED
  BY TypeInit, TypeStep, <1>1, PTL DEF Spec

-----------------------------------------------------------------------------
(* The daily windows, for any number of callers.  A flow hands             *)
(* reset_if_needed the time it read before it took the lock, so the        *)
(* invariant needed is that no flow holds a time ahead of the clock.       *)

ClockRead == \A c \in Callers : loc[c].now <= now

LEMMA ClockStep == TypeInv /\ ClockRead /\ [Next]_vars => ClockRead'
<1> SUFFICES ASSUME TypeOK, ClockRead, [Next]_vars PROVE ClockRead'
  BY DEF TypeInv
<1>0. \A x \in Callers : loc[x] \in Locals /\ loc[x].now \in Nat /\ now \in Nat
  BY DEF TypeOK, Locals
<1>1. NoLocals.now = 0
  BY DEF NoLocals
<1>2. ASSUME NEW c \in Callers, Return(c), UNCHANGED now PROVE ClockRead'
  BY <1>0, <1>1, <1>2 DEF Return, ClockRead, TypeOK
<1>3. ASSUME UNCHANGED <<loc, now>> PROVE ClockRead'
  BY <1>3 DEF ClockRead
<1>4. ASSUME NEW c \in Callers, Begin(c) PROVE ClockRead'
  <2>1. PICK a \in Amounts, to \in Recipients :
          loc' = [loc EXCEPT ![c] = [NoLocals EXCEPT !.now = now,
                                                     !.asked = a,
                                                     !.amount = a % WORD,
                                                     !.to = to]]
    BY <1>4 DEF Begin
  <2>2. loc'[c].now = now
    BY <2>1 DEF TypeOK, NoLocals
  <2>3. \A x \in Callers \ {c} : loc'[x] = loc[x]
    BY <2>1 DEF TypeOK
  <2> QED
    BY <1>0, <1>4, <2>2, <2>3 DEF Begin, ClockRead
<1>5. ASSUME NEW c \in Callers, Prepare(c) PROVE ClockRead'
  <2>1. CASE Return(c)
    BY <1>2, <1>5, <2>1 DEF Prepare
  <2>2. ASSUME NEW d, loc' = [loc EXCEPT ![c].hash = d] PROVE ClockRead'
    <3>1. \A x \in Callers : loc'[x].now = loc[x].now
      BY <1>0, <2>2 DEF TypeOK, Locals
    <3> QED
      BY <1>5, <3>1 DEF Prepare, ClockRead
  <2> QED
    BY <1>5, <2>1, <2>2 DEF Prepare
<1>6. ASSUME NEW c \in Callers, SubmitAcknowledged(c) PROVE ClockRead'
  <2>1. \A x \in Callers : loc'[x].now = loc[x].now
    BY <1>0, <1>6 DEF SubmitAcknowledged, TypeOK, Locals
  <2> QED
    BY <1>6, <2>1 DEF SubmitAcknowledged, ClockRead
<1>6a. ASSUME NEW c \in Callers, Hydrate(c) PROVE ClockRead'
  <2>1. PICK m : loc' = [loc EXCEPT ![c].info = m]
    BY <1>6a DEF Hydrate
  <2>2. \A x \in Callers : loc'[x].now = loc[x].now
    BY <1>0, <2>1 DEF TypeOK, Locals
  <2> QED
    BY <1>6a, <2>2 DEF Hydrate, ClockRead
<1>7. CASE Tick
  BY <1>0, <1>7 DEF Tick, ClockRead
<1>8. CASE Restart
  BY <1>0, <1>1, <1>8 DEF Restart, ClockRead
<1>9. ASSUME NEW c \in Callers, Call(c) PROVE ClockRead'
  BY <1>3, <1>4, <1>9
  DEF Call, SetPolicy, CheckPolicy, GetSpendingSummary, GenerateKeys,
      MandateInit
<1>10. ASSUME NEW c \in Callers, Continue(c) PROVE ClockRead'
  BY <1>2, <1>3, <1>5, <1>6, <1>6a, <1>10
  DEF Continue, StoreInfo, HydrateFails, Preflight, CheckSpendAnswered,
      SubmitReplyLost, BackendRefuses, RecordSpendSent, Record
<1> QED
  BY <1>3, <1>7, <1>8, <1>9, <1>10 DEF Next, vars

(* Each operation on the engine, as a step of its window.                  *)
LEMMA WindowNext ==
  TypeInv /\ ClockRead /\ [Next]_vars => [WindowStep]_vars
<1> SUFFICES ASSUME TypeOK, ClockRead, Next, engine # None, engine' # None
             PROVE  SameWindow \/ NewWindow
  BY DEF TypeInv, WindowStep
<1>0. engine \in Engine /\ Locked = engine /\ now \in Nat
  BY DEF TypeOK, Locked
<1>1. ASSUME UNCHANGED engine PROVE SameWindow
  BY <1>1 DEF SameWindow
<1>2. ASSUME NEW p, engine' = set_policy(Locked, p) PROVE SameWindow
  BY <1>0, <1>2 DEF set_policy, SameWindow, Engine
<1>3. ASSUME NEW t \in Nat, t <= now, engine' = reset_if_needed(Locked, t)
      PROVE  SameWindow \/ NewWindow
  BY <1>0, <1>3, ResetWindow DEF SameWindow, NewWindow
<1>4. ASSUME NEW c \in Callers, Preflight(c) PROVE SameWindow \/ NewWindow
  <2>1. loc[c].now \in Nat /\ loc[c].now <= now
    BY DEF TypeOK, Locals, ClockRead
  <2> QED
    BY <1>3, <1>4, <2>1 DEF Preflight
<1>5. ASSUME NEW c \in Callers, Record(c) PROVE SameWindow
  <2>1. engine' = record_spending(engine, loc[c].amount) /\ pc[c] = "record"
    BY <1>0, <1>5 DEF Record
  <2>2. /\ engine'.last_day_reset = engine.last_day_reset
        /\ engine'.spending_today =
              WrappingAdd(engine.spending_today, loc[c].amount)
    BY <1>0, <2>1 DEF record_spending, Engine
  <2> QED
    BY <2>1, <2>2 DEF SameWindow
<1>6. ASSUME NEW c \in Callers, Call(c) PROVE SameWindow \/ NewWindow
  <2>1. CASE GetSpendingSummary(c)
    BY <1>0, <1>3, <2>1 DEF GetSpendingSummary
  <2>2. CASE SetPolicy(c)
    BY <1>2, <2>2 DEF SetPolicy
  <2>3. CASE ~GetSpendingSummary(c) /\ ~SetPolicy(c)
    BY <1>0, <1>1, <1>6, <2>3
    DEF Call, CheckPolicy, GenerateKeys, MandateInit, Begin
  <2> QED
    BY <2>1, <2>2, <2>3
<1>7. ASSUME NEW c \in Callers, Continue(c) PROVE SameWindow \/ NewWindow
  BY <1>1, <1>2, <1>4, <1>5, <1>7
  DEF Continue, Hydrate, StoreInfo, HydrateFails, CheckSpendAnswered, Prepare,
      SubmitAcknowledged, SubmitReplyLost, BackendRefuses, RecordSpendSent
<1>8. ASSUME Restart PROVE FALSE
  BY <1>8 DEF Restart
<1> QED
  BY <1>1, <1>6, <1>7, <1>8 DEF Next, Tick

(* What was spent is forgotten only when a new window opens, at least a    *)
(* DAY after the last: no policy update, repeated init or interleaving of  *)
(* callers clears the daily counter early.                                 *)
THEOREM DailyWindows == Spec => WindowsLastADay
<1>1. Init => ClockRead
  BY DEF Init, ClockRead, NoLocals
<1> QED
  BY TypeInit, TypeStep, ClockStep, WindowNext, <1>1, PTL
  DEF Spec, WindowsLastADay

-----------------------------------------------------------------------------
(* One caller.  The strengthening of the daily limit is that the verdict   *)
(* of the pre-flight check holds at every step up to the record; with it,  *)
(* the recorded total stays under the limits the engine has had.           *)

LEMMA PreflightStep ==
  ASSUME NEW w, Callers = {w}
  PROVE  TypeInv /\ PreflightStillHolds /\ [Next]_vars => PreflightStillHolds'
<1> SUFFICES ASSUME TypeOK, PreflightStillHolds, [Next]_vars
             PROVE  PreflightStillHolds'
  BY DEF TypeInv
<1>0. w \in Callers /\ \A x \in Callers : x = w
  OBVIOUS
<1> DEFINE Verdict == engine # None
                        /\ check_spending(engine, loc[w].amount, loc[w].now)
<1>1. (InFlight(w) => Verdict) /\ loc[w] \in Locals
  BY <1>0 DEF PreflightStillHolds, TypeOK
<1> SUFFICES ASSUME InFlight(w)' PROVE Verdict'
  BY <1>0 DEF PreflightStillHolds
<1>2. ASSUME InFlight(w), UNCHANGED engine, loc'[w].amount = loc[w].amount,
             loc'[w].now = loc[w].now
      PROVE  Verdict'
  BY <1>1, <1>2 DEF check_spending, Expired
<1>3. ASSUME Return(w) PROVE FALSE
  BY <1>0, <1>3 DEF Return, Goto, InFlight, FlowSteps, TypeOK
<1>4. ASSUME Call(w) PROVE FALSE
  <2>1. pc'[w] \in {"idle", "fetch_mandate", "preflight"}
    BY <1>0, <1>4
    DEF Call, SetPolicy, CheckPolicy, GetSpendingSummary, GenerateKeys,
        MandateInit, Begin, Goto, TypeOK
  <2> QED
    BY <2>1 DEF InFlight, FlowSteps
<1>5. CASE Preflight(w)
  <2>1. loc[w].now \in Nat /\ Locked \in Engine
    BY <1>1, LockedType DEF Locals
  <2>2. engine' = reset_if_needed(Locked, loc[w].now) /\ engine' \in Engine
    BY <1>5, <2>1, ResetType DEF Preflight
  <2>3. UNCHANGED loc /\ check_spending(engine', loc[w].amount, loc[w].now)
    BY <1>3, <1>5, <2>2 DEF Preflight
  <2>4. engine' # None
    BY <2>2, NoneAssumption
  <2> QED
    BY <2>3, <2>4 DEF check_spending, Expired
<1>6. CASE Prepare(w)
  <2>1. InFlight(w) /\ UNCHANGED engine
    BY <1>6 DEF Prepare, InFlight, FlowSteps
  <2>2. PICK d : loc' = [loc EXCEPT ![w].hash = d]
    BY <1>3, <1>6 DEF Prepare
  <2>3. loc'[w].amount = loc[w].amount /\ loc'[w].now = loc[w].now
    BY <1>0, <1>1, <2>2 DEF TypeOK, Locals
  <2> QED
    BY <1>2, <2>1, <2>3
<1>7. CASE SubmitAcknowledged(w)
  <2>1. InFlight(w) /\ UNCHANGED engine
    BY <1>7 DEF SubmitAcknowledged, InFlight, FlowSteps
  <2>2. loc'[w].amount = loc[w].amount /\ loc'[w].now = loc[w].now
    BY <1>0, <1>1, <1>7 DEF SubmitAcknowledged, TypeOK, Locals
  <2> QED
    BY <1>2, <2>1, <2>2
<1>8. CASE CheckSpendAnswered(w) \/ RecordSpendSent(w)
  BY <1>2, <1>8 DEF CheckSpendAnswered, RecordSpendSent, InFlight, FlowSteps
<1>8a. CASE Hydrate(w)
  BY <1>0, <1>8a DEF Hydrate, Goto, InFlight, FlowSteps, TypeOK
<1>9. CASE StoreInfo(w) \/ HydrateFails(w) \/ SubmitReplyLost(w)
             \/ BackendRefuses(w) \/ Record(w)
  BY <1>3, <1>9
  DEF StoreInfo, HydrateFails, SubmitReplyLost, BackendRefuses, Record
<1>10. CASE Tick
  BY <1>2, <1>10 DEF Tick, InFlight
<1>11. CASE Restart
  BY <1>0, <1>11 DEF Restart, InFlight, FlowSteps
<1>12. CASE UNCHANGED vars
  BY <1>2, <1>12 DEF vars, InFlight
<1> QED
  BY <1>0, <1>4, <1>5, <1>6, <1>7, <1>8, <1>8a, <1>9, <1>10, <1>11, <1>12
  DEF Next, Continue

LEMMA PreflightInit == Init => PreflightStillHolds
BY DEF Init, PreflightStillHolds, InFlight, FlowSteps

(* The verdict tx_flow acts on is never stale in the WASM build: between   *)
(* the pre-flight check and the record no other export runs.               *)
THEOREM PreflightNeverStale ==
  ASSUME NEW w, Callers = {w}
  PROVE  Spec => []PreflightStillHolds
<1>1. TypeInv /\ PreflightStillHolds /\ [Next]_vars => PreflightStillHolds'
  BY PreflightStep
<1> QED
  BY <1>1, TypeInit, TypeStep, PreflightInit, PTL DEF Spec

(* The engine's policy is one it was given, and the day's total is within  *)
(* the max_daily of one of them: not always the current one, since a       *)
(* policy may be tightened after the money was spent.                      *)
UnderLimits ==
    engine # None =>
        /\ engine.policy.spending \in Limits
        /\ \E s \in Limits : engine.spending_today <= s.max_daily

LEMMA LimitsType == Limits \subseteq SpendingPolicy
BY InputAssumption, DefaultPolicyType DEF Limits, Policy

LEMMA DefaultUnderLimits ==
  ASSUME NEW t \in Nat
  PROVE  LET e == NewEngine(DefaultPolicy, t)
         IN  /\ e.policy.spending \in Limits
             /\ \E s \in Limits : e.spending_today <= s.max_daily
<1>1. DefaultPolicy.spending \in Limits /\ DefaultPolicy.spending.max_daily = 0
  BY DEF Limits, DefaultPolicy
<1> QED
  BY <1>1 DEF NewEngine

LEMMA UnderLimitsStep ==
  ASSUME NEW w, Callers = {w}
  PROVE  TypeInv /\ PreflightStillHolds /\ UnderLimits /\ [Next]_vars
           => UnderLimits'
<1> SUFFICES ASSUME TypeOK, PreflightStillHolds, UnderLimits, [Next]_vars,
                    engine' # None
             PROVE  UnderLimits'
  BY DEF TypeInv, UnderLimits
<1>0. w \in Callers /\ (\A x \in Callers : x = w) /\ now \in Nat
  BY DEF TypeOK
<1>1. /\ Locked \in Engine
      /\ Locked.policy.spending \in Limits
      /\ \E s \in Limits : Locked.spending_today <= s.max_daily
  BY <1>0, LockedType, DefaultUnderLimits DEF UnderLimits, Locked
<1>2. ASSUME engine' \in {engine, Locked} PROVE UnderLimits'
  BY <1>1, <1>2 DEF UnderLimits
<1>3. ASSUME NEW p, p.spending \in Limits, engine' = set_policy(Locked, p)
      PROVE  UnderLimits'
  <2>1. engine'.policy = p /\ engine'.spending_today = Locked.spending_today
    BY <1>1, <1>3 DEF set_policy, Engine
  <2> QED
    BY <1>1, <1>3, <2>1 DEF UnderLimits
<1>4. ASSUME NEW t \in Nat, engine' = reset_if_needed(Locked, t)
      PROVE  UnderLimits'
  <2>1. /\ engine'.policy = Locked.policy
        /\ engine'.spending_today \in {0, Locked.spending_today}
    BY <1>1, <1>4, ResetWindow
  <2>2. \A s \in Limits : 0 <= s.max_daily
    BY LimitsType DEF SpendingPolicy, u64
  <2> QED
    BY <1>1, <2>1, <2>2 DEF UnderLimits
<1>5. CASE SetPolicy(w)
  <2>1. \A p \in Policies : p.spending \in Limits
    BY DEF Limits
  <2> QED
    BY <1>3, <1>5, <2>1 DEF SetPolicy
<1>6. CASE Hydrate(w)
  <2>1. PICK m \in Mandates :
          engine' = set_policy(Locked, [spending |-> m,
                                        secrets |-> Locked.policy.secrets])
    BY <1>6 DEF Hydrate
  <2>2. m \in Limits
    BY DEF Limits
  <2> QED
    BY <1>3, <2>1, <2>2
<1>7. CASE Preflight(w)
  BY <1>0, <1>4, <1>7 DEF Preflight, TypeOK, Locals
<1>8. CASE GetSpendingSummary(w)
  BY <1>0, <1>4, <1>8 DEF GetSpendingSummary
<1>9. CASE Record(w)
  <2>1. engine # None /\ check_spending(engine, loc[w].amount, loc[w].now)
    BY <1>0, <1>9 DEF Record, PreflightStillHolds, InFlight, FlowSteps
  <2>2. engine' = record_spending(engine, loc[w].amount) /\ engine \in Engine
    BY <1>1, <1>9, <2>1 DEF Record, Locked
  <2>3. /\ engine'.policy = engine.policy
        /\ engine'.spending_today =
              WrappingAdd(engine.spending_today, loc[w].amount)
    BY <2>2 DEF record_spending, Engine
  <2> QED
    BY <2>1, <2>3 DEF UnderLimits, check_spending
<1>10. CASE CheckPolicy(w)
  BY <1>2, <1>10 DEF CheckPolicy
<1>11. ASSUME UNCHANGED engine PROVE UnderLimits'
  BY <1>2, <1>11
<1>12. ASSUME Restart PROVE FALSE
  BY <1>12 DEF Restart
<1> QED
  BY <1>0, <1>5, <1>6, <1>7, <1>8, <1>9, <1>10, <1>11, <1>12
  DEF Next, Call, Continue, GenerateKeys, MandateInit, Begin, StoreInfo,
      HydrateFails, CheckSpendAnswered, Prepare, SubmitAcknowledged, SubmitReplyLost,
      BackendRefuses, RecordSpendSent, Tick, vars

LEMMA RecordStep ==
  ASSUME LimitsFit
  PROVE  TypeInv /\ PreflightStillHolds /\ UnderLimits /\ [Next]_vars
           => [RecordWithinLimits]_vars
<1> SUFFICES ASSUME TypeOK, PreflightStillHolds, UnderLimits,
                    NEW c \in Callers, Record(c)
             PROVE  /\ loc[c].amount <= engine'.policy.spending.max_per_tx
                    /\ engine'.spending_today
                          <= engine'.policy.spending.max_daily
                    /\ engine'.spending_today
                          = engine.spending_today + loc[c].amount
  BY DEF TypeInv, RecordWithinLimits
<1>1. engine # None /\ check_spending(engine, loc[c].amount, loc[c].now)
  BY DEF Record, PreflightStillHolds, InFlight, FlowSteps
<1>2. /\ engine \in Engine
      /\ engine' = record_spending(engine, loc[c].amount)
      /\ loc[c].amount \in u64
  BY <1>1 DEF Record, Locked, TypeOK, Locals
<1>3. /\ engine'.policy = engine.policy
      /\ engine'.spending_today =
            WrappingAdd(engine.spending_today, loc[c].amount)
  BY <1>2 DEF record_spending, Engine
<1>4. PICK s \in Limits : engine.spending_today <= s.max_daily
  BY <1>1 DEF UnderLimits
<1> DEFINE t == engine.policy.spending
<1>5. /\ t \in Limits
      /\ loc[c].amount <= t.max_per_tx
      /\ WrappingAdd(engine.spending_today, loc[c].amount) <= t.max_daily
  BY <1>1 DEF UnderLimits, check_spending
<1>6. s.max_daily + t.max_per_tx < WORD
  BY <1>4, <1>5 DEF LimitsFit
<1>7. /\ s.max_daily \in Nat /\ t.max_per_tx \in Nat
      /\ engine.spending_today \in Nat /\ loc[c].amount \in Nat /\ WORD \in Nat
  BY <1>2, <1>4, <1>5, LimitsType, WordAssumption
  DEF SpendingPolicy, Engine, u64
<1> HIDE DEF t
<1>8. engine.spending_today + loc[c].amount < WORD
  BY <1>4, <1>5, <1>6, <1>7
<1> USE DEF t
<1> QED
  BY <1>3, <1>5, <1>8 DEF WrappingAdd

(* With a single caller, and limits whose sums fit in a u64, nothing that  *)
(* tx_flow records takes the day over max_daily or a transaction over      *)
(* max_per_tx, whatever the backend answers and whenever it answers.       *)
THEOREM DailyLimit ==
  ASSUME NEW w, Callers = {w}, LimitsFit
  PROVE  Spec => DailyLimitRespected
<1>1. TypeInv /\ PreflightStillHolds /\ [Next]_vars => PreflightStillHolds'
  BY PreflightStep
<1>2. TypeInv /\ PreflightStillHolds /\ UnderLimits /\ [Next]_vars
        => UnderLimits'
  BY UnderLimitsStep
<1>3. Init => UnderLimits
  BY DEF Init, UnderLimits
<1>4. TypeInv /\ PreflightStillHolds /\ UnderLimits /\ [Next]_vars
        => [RecordWithinLimits]_vars
  BY RecordStep
<1> QED
  BY <1>1, <1>2, <1>3, <1>4, TypeInit, TypeStep, PreflightInit, PTL
  DEF Spec, DailyLimitRespected

-----------------------------------------------------------------------------
(* The ledger, for any number of callers.                                  *)

(* A step adds at most the transaction of a caller about to submit, and    *)
(* changes nothing but the status of the others.                           *)
LEMMA LedgerStep ==
  ASSUME TypeInv, [Next]_vars, NEW i \in DOMAIN ledger'
  PROVE  \/ /\ i \in DOMAIN ledger
            /\ ledger'[i].asked = ledger[i].asked
            /\ ledger'[i].amount = ledger[i].amount
            /\ ledger'[i].epoch = ledger[i].epoch
         \/ /\ UNCHANGED <<statics, restarts>>
            /\ \E c \in Callers, s \in {"pending", "lost"} :
                  pc[c] = "submit" /\ ledger'[i] = Executed(c, s)
<1>0. TypeOK /\ ledger \in Seq(Entry)
  BY DEF TypeInv, TypeOK
<1> DEFINE Same == /\ i \in DOMAIN ledger
                   /\ ledger'[i].asked = ledger[i].asked
                   /\ ledger'[i].amount = ledger[i].amount
                   /\ ledger'[i].epoch = ledger[i].epoch
<1>1. ASSUME UNCHANGED ledger PROVE Same
  BY <1>1
<1>2. ASSUME NEW c \in Callers, NEW s \in {"pending", "lost"},
             pc[c] = "submit", ledger' = Append(ledger, Executed(c, s))
      PROVE  Same \/ ledger'[i] = Executed(c, s)
  <2> DEFINE e == Executed(c, s)
  <2> HIDE DEF e
  <2>1. ledger' = Append(ledger, e) /\ i \in 1 .. Len(ledger) + 1
    BY <1>0, <1>2 DEF e
  <2> QED
    BY <1>0, <2>1 DEF e
<1>3. ASSUME NEW c \in Callers, SubmitAcknowledged(c) \/ SubmitReplyLost(c)
      PROVE  \/ Same
             \/ /\ UNCHANGED <<statics, restarts>>
                /\ \E s \in {"pending", "lost"} :
                      pc[c] = "submit" /\ ledger'[i] = Executed(c, s)
  BY <1>2, <1>3 DEF SubmitAcknowledged, SubmitReplyLost
<1>4. ASSUME NEW c \in Callers, Record(c) PROVE Same
  <2>1. ledger' = [ledger EXCEPT ![loc[c].tx].status = "recorded"]
    BY <1>4 DEF Record
  <2>2. i \in DOMAIN ledger /\ ledger[i] \in Entry
    BY <1>0, <2>1, LedgerEntry
  <2> QED
    BY <2>1, <2>2 DEF Entry
<1>5. CASE Restart
  <2>1. ledger' = [j \in DOMAIN ledger |->
                      [ledger[j] EXCEPT !.status =
                          IF @ = "pending" THEN "lost" ELSE @]]
    BY <1>5 DEF Restart
  <2>2. i \in DOMAIN ledger /\ ledger[i] \in Entry
    BY <1>0, <2>1, LedgerEntry
  <2> QED
    BY <2>1, <2>2 DEF Entry
<1> QED
  BY <1>1, <1>3, <1>4, <1>5
  DEF Next, Call, Continue, SetPolicy, CheckPolicy, GetSpendingSummary,
      GenerateKeys, MandateInit, Begin, Hydrate, StoreInfo, HydrateFails,
      Preflight, CheckSpendAnswered, Prepare, BackendRefuses,
      RecordSpendSent, Tick, vars

(* What is checked and counted is what was asked for, modulo 2^64.         *)
CountsModulo ==
    /\ \A c \in Callers : loc[c].amount = loc[c].asked % WORD
    /\ \A i \in DOMAIN ledger : ledger[i].amount = ledger[i].asked % WORD

LEMMA CountsInit == Init => CountsModulo
<1> SUFFICES ASSUME Init PROVE CountsModulo
  OBVIOUS
<1>1. 0 = 0 % WORD
  BY WordAssumption
<1> QED
  BY <1>1 DEF Init, CountsModulo, NoLocals

(* A call keeps what it was asked for, and what it counts for that.        *)
LEMMA AskedStep ==
  ASSUME TypeInv, [Next]_vars, NEW d \in Callers
  PROVE  \/ loc'[d].asked = loc[d].asked /\ loc'[d].amount = loc[d].amount
         \/ \E a \in Amounts \cup {0} :
               loc'[d].asked = a /\ loc'[d].amount = a % WORD
<1> DEFINE Kept == loc'[d].asked = loc[d].asked /\ loc'[d].amount = loc[d].amount
           Given(a) == loc'[d].asked = a /\ loc'[d].amount = a % WORD
<1>0. TypeOK /\ loc \in [Callers -> Locals] /\ DOMAIN loc = Callers
      /\ loc[d] \in Locals
  BY DEF TypeInv, TypeOK
<1>1. ASSUME loc'[d] = loc[d] PROVE Kept
  BY <1>1
<1>2. ASSUME loc'[d] = NoLocals PROVE Given(0)
  <2>1. 0 = 0 % WORD
    BY WordAssumption
  <2> QED
    BY <1>2, <2>1 DEF NoLocals
<1>3. ASSUME NEW c \in Callers, Return(c) PROVE Kept \/ Given(0)
  BY <1>0, <1>1, <1>2, <1>3 DEF Return
<1>4. ASSUME NEW c \in Callers, Begin(c)
      PROVE  Kept \/ \E a \in Amounts : Given(a)
  <2>1. PICK a \in Amounts, to \in Recipients :
          loc' = [loc EXCEPT ![c] = [NoLocals EXCEPT !.now = now,
                                                     !.asked = a,
                                                     !.amount = a % WORD,
                                                     !.to = to]]
    BY <1>4 DEF Begin
  <2> DEFINE m == a % WORD
             l == [NoLocals EXCEPT !.now = now, !.asked = a, !.amount = m,
                                   !.to = to]
  <2>2. l.amount = m /\ l.asked = a
    BY DEF NoLocals
  <2>3. loc'[d] = l \/ loc'[d] = loc[d]
    BY <1>0, <2>1
  <2> QED
    BY <1>1, <2>2, <2>3
<1>5. ASSUME NEW c \in Callers,
             \/ \E h : loc' = [loc EXCEPT ![c].hash = h]
             \/ \E m : loc' = [loc EXCEPT ![c].info = m]
             \/ \E n : loc' = [loc EXCEPT ![c].tx = n]
      PROVE  Kept
  <2>1. CASE \E h : loc' = [loc EXCEPT ![c].hash = h]
    BY <1>0, <2>1 DEF Locals
  <2>2. CASE \E m : loc' = [loc EXCEPT ![c].info = m]
    BY <1>0, <2>2 DEF Locals
  <2>3. CASE \E n : loc' = [loc EXCEPT ![c].tx = n]
    BY <1>0, <2>3 DEF Locals
  <2> QED
    BY <1>5, <2>1, <2>2, <2>3
<1>6. CASE Restart
  BY <1>2, <1>6 DEF Restart
<1> QED
  BY <1>1, <1>3, <1>4, <1>5, <1>6
  DEF Next, Call, Continue, SetPolicy, CheckPolicy, GetSpendingSummary,
      GenerateKeys, MandateInit, Hydrate, StoreInfo, HydrateFails,
      Preflight, CheckSpendAnswered, Prepare, SubmitAcknowledged,
      SubmitReplyLost, BackendRefuses, RecordSpendSent, Record, Tick, vars

LEMMA CountsStep == TypeInv /\ CountsModulo /\ [Next]_vars => CountsModulo'
<1> SUFFICES ASSUME TypeInv, CountsModulo, [Next]_vars PROVE CountsModulo'
  OBVIOUS
<1>1. ASSUME NEW i \in DOMAIN ledger'
      PROVE  ledger'[i].amount = ledger'[i].asked % WORD
  BY <1>1, LedgerStep DEF CountsModulo, Executed
<1>2. ASSUME NEW d \in Callers
      PROVE  loc'[d].amount = loc'[d].asked % WORD
  BY <1>2, AskedStep DEF CountsModulo
<1> QED
  BY <1>1, <1>2 DEF CountsModulo

-----------------------------------------------------------------------------
(* Fail closed, for any number of callers.                                 *)

Unset == engine = None \/ engine.policy = DefaultPolicy

(* Nothing was executed by a process that is yet to start; and as long as  *)
(* no policy is set, only amounts of 0 have passed the pre-flight check.   *)
FailClosed ==
    /\ \A i \in DOMAIN ledger : ledger[i].epoch <= restarts
    /\ Unset => \A c \in Callers : InFlight(c) => loc[c].amount = 0

(* A policy, once set, stays set while the process lives.                  *)
LEMMA UnsetStep ==
  ASSUME PoliciesDiffer, TypeInv, [Next]_vars, Unset', ~Restart
  PROVE  Unset
<1>0. TypeOK /\ Locked \in Engine /\ (Locked.policy = DefaultPolicy => Unset)
  BY LockedType DEF TypeInv, Locked, Unset
<1>1. ASSUME engine' = engine PROVE Unset
  BY <1>1 DEF Unset
<1>2. ASSUME engine' \in Engine, engine'.policy = Locked.policy PROVE Unset
  BY <1>0, <1>2, NoneAssumption DEF Unset
<1>3. ASSUME NEW p \in Policy, p # DefaultPolicy, engine' = set_policy(Locked, p)
      PROVE  FALSE
  <2>1. engine' \in Engine /\ engine'.policy = p
    BY <1>0, <1>3, SetPolicyType DEF set_policy, Engine
  <2> QED
    BY <1>3, <2>1, NoneAssumption DEF Unset
<1>4. ASSUME NEW t \in Nat, engine' = reset_if_needed(Locked, t) PROVE Unset
  BY <1>0, <1>2, <1>4, ResetType, ResetWindow
<1>5. ASSUME NEW c \in Callers, SetPolicy(c) PROVE Unset
  BY <1>3, <1>5, InputAssumption DEF SetPolicy, PoliciesDiffer
<1>6. ASSUME NEW c \in Callers, Hydrate(c) PROVE Unset
  <2>1. PICK m \in Mandates :
          engine' = set_policy(Locked, [spending |-> m,
                                        secrets |-> Locked.policy.secrets])
    BY <1>6 DEF Hydrate
  <2> DEFINE p == [spending |-> m, secrets |-> Locked.policy.secrets]
  <2>2. p \in Policy /\ p.spending = m
    BY <1>0, InputAssumption DEF Engine, Policy
  <2>3. p # DefaultPolicy
    BY <2>2 DEF PoliciesDiffer
  <2> QED
    BY <1>3, <2>1, <2>2, <2>3
<1>7. ASSUME NEW c \in Callers,
             CheckPolicy(c) \/ GetSpendingSummary(c) \/ Preflight(c)
      PROVE  Unset
  <2>1. now \in Nat /\ loc[c].now \in Nat
    BY <1>0 DEF TypeOK, Locals
  <2> QED
    BY <1>0, <1>2, <1>4, <1>7, <2>1
    DEF CheckPolicy, GetSpendingSummary, Preflight
<1>8. ASSUME NEW c \in Callers, Record(c) PROVE Unset
  <2>1. loc[c].amount \in u64
    BY <1>0 DEF TypeOK, Locals
  <2>2. engine' \in Engine /\ engine'.policy = Locked.policy
    BY <1>0, <1>8, <2>1, RecordType DEF Record, record_spending, Engine
  <2> QED
    BY <1>2, <2>2
<1> QED
  BY <1>1, <1>5, <1>6, <1>7, <1>8
  DEF Next, Call, Continue, GenerateKeys, MandateInit, Begin, StoreInfo,
      HydrateFails, CheckSpendAnswered, Prepare, SubmitAcknowledged,
      SubmitReplyLost, BackendRefuses, RecordSpendSent, Tick, vars

(* Nobody joins the flow but by a passed check, and amounts never change.  *)
LEMMA InFlightStep ==
  ASSUME TypeInv, [Next]_vars, NEW d \in Callers, InFlight(d)'
  PROVE  \/ InFlight(d) /\ loc'[d].amount = loc[d].amount
         \/ /\ Preflight(d)
            /\ UNCHANGED loc
            /\ check_spending(engine', loc[d].amount, loc[d].now)
<1>0. TypeOK /\ loc[d] \in Locals
  BY DEF TypeInv, TypeOK
<1>1. ASSUME pc'[d] = pc[d], loc'[d] = loc[d]
      PROVE  InFlight(d) /\ loc'[d].amount = loc[d].amount
  BY <1>1 DEF InFlight
<1>2. ASSUME NEW c \in Callers, Call(c) \/ Continue(c), c # d
      PROVE  pc'[d] = pc[d] /\ loc'[d] = loc[d]
  BY <1>0, <1>2
  DEF TypeOK, Call, Continue, SetPolicy, CheckPolicy, GetSpendingSummary,
      GenerateKeys, MandateInit, Begin, Hydrate, StoreInfo, HydrateFails,
      Preflight, CheckSpendAnswered, Prepare, SubmitAcknowledged,
      SubmitReplyLost, BackendRefuses, RecordSpendSent, Record, Return, Goto
<1>3. CASE Preflight(d)
  BY <1>0, <1>3 DEF Preflight, Return, Goto, InFlight, FlowSteps, TypeOK
<1>4. CASE Call(d) \/ Hydrate(d)
  BY <1>0, <1>1, <1>4
  DEF Call, SetPolicy, CheckPolicy, GetSpendingSummary, GenerateKeys,
      MandateInit, Begin, Hydrate, Goto, InFlight, FlowSteps, TypeOK
<1>5. CASE Return(d)
  BY <1>0, <1>5 DEF Return, Goto, InFlight, FlowSteps, TypeOK
<1>6. CASE Prepare(d) /\ ~Return(d)
  <2>1. PICK x : loc' = [loc EXCEPT ![d].hash = x]
    BY <1>6 DEF Prepare
  <2> QED
    BY <1>0, <1>6, <2>1 DEF Prepare, InFlight, FlowSteps, TypeOK, Locals
<1>7. CASE CheckSpendAnswered(d) \/ SubmitAcknowledged(d)
             \/ RecordSpendSent(d)
  BY <1>0, <1>7
  DEF CheckSpendAnswered, SubmitAcknowledged, RecordSpendSent, InFlight,
      FlowSteps, TypeOK, Locals
<1>8. CASE Restart
  BY <1>8 DEF Restart, InFlight, FlowSteps
<1>9. CASE Tick \/ UNCHANGED vars
  BY <1>1, <1>9 DEF Tick, vars
<1>10. CASE Call(d) \/ Continue(d)
  BY <1>3, <1>4, <1>5, <1>6, <1>7, <1>10
  DEF Continue, StoreInfo, HydrateFails, SubmitReplyLost, BackendRefuses,
      Record
<1> QED
  BY <1>1, <1>2, <1>8, <1>9, <1>10 DEF Next

LEMMA RestartsStep ==
  ASSUME [Next]_vars, ~Restart PROVE restarts' = restarts
BY DEF Next, Call, Continue, SetPolicy, CheckPolicy, GetSpendingSummary,
       GenerateKeys, MandateInit, Begin, Hydrate, StoreInfo, HydrateFails,
       Preflight, CheckSpendAnswered, Prepare, SubmitAcknowledged,
       SubmitReplyLost, BackendRefuses, RecordSpendSent, Record, Tick, vars

LEMMA FailClosedStep ==
  ASSUME PoliciesDiffer
  PROVE  TypeInv /\ FailClosed /\ [Next]_vars => FailClosed'
<1> SUFFICES ASSUME TypeInv, FailClosed, [Next]_vars PROVE FailClosed'
  OBVIOUS
<1>0. TypeOK /\ restarts \in Nat /\ Locked \in Engine
  BY LockedType DEF TypeInv, TypeOK
<1>1. restarts' \in Nat /\ restarts <= restarts'
  <2>1. CASE Restart
    BY <1>0, <2>1 DEF Restart
  <2>2. CASE ~Restart
    BY <1>0, <2>2, RestartsStep
  <2> QED
    BY <2>1, <2>2
<1>2. ASSUME NEW i \in DOMAIN ledger' PROVE ledger'[i].epoch <= restarts'
  <2>1. CASE i \in DOMAIN ledger /\ ledger'[i].epoch = ledger[i].epoch
    <3>1. ledger[i].epoch \in Nat
      BY <1>0, <2>1, LedgerEntry DEF TypeOK, Entry
    <3> QED
      BY <1>0, <1>1, <2>1, <3>1 DEF FailClosed
  <2>2. CASE ledger'[i].epoch = restarts
    BY <1>1, <2>2
  <2> QED
    BY <1>2, <2>1, <2>2, LedgerStep DEF Executed
<1>3. ASSUME Unset', NEW d \in Callers, InFlight(d)'
      PROVE  loc'[d].amount = 0
  <2>1. ~Restart
    BY <1>3 DEF Restart, InFlight, FlowSteps
  <2>2. Unset
    BY <1>3, <2>1, UnsetStep
  <2>3. CASE InFlight(d) /\ loc'[d].amount = loc[d].amount
    BY <2>2, <2>3 DEF FailClosed
  <2>4. CASE Preflight(d) /\ UNCHANGED loc
               /\ check_spending(engine', loc[d].amount, loc[d].now)
    <3>1. engine' # None
      BY <1>0, <2>4, ResetType, NoneAssumption DEF Preflight, TypeOK, Locals
    <3>2. engine'.policy.spending.max_per_tx = 0
      BY <1>3, <3>1 DEF Unset, DefaultPolicy
    <3>3. loc[d].amount \in Nat
      BY <1>0 DEF TypeOK, Locals, u64
    <3> QED
      BY <2>4, <3>2, <3>3 DEF check_spending
  <2> QED
    BY <1>3, <2>3, <2>4, InFlightStep
<1> QED
  BY <1>2, <1>3 DEF FailClosed

(* What NothingSpentWithoutPolicy says, of what was counted.               *)
NothingCounted ==
    Unset => \A i \in DOMAIN ledger :
                 ledger[i].epoch = restarts => ledger[i].amount = 0

LEMMA NothingCountedStep ==
  ASSUME PoliciesDiffer
  PROVE  TypeInv /\ FailClosed /\ NothingCounted /\ [Next]_vars
           => NothingCounted'
<1> SUFFICES ASSUME TypeInv, FailClosed, NothingCounted, [Next]_vars,
                    Unset', NEW i \in DOMAIN ledger',
                    ledger'[i].epoch = restarts'
             PROVE  ledger'[i].amount = 0
  BY DEF NothingCounted
<1>0. restarts \in Nat
  BY DEF TypeInv, TypeOK
<1>1. CASE Restart
  <2>1. restarts' = restarts + 1
    BY <1>1 DEF Restart
  <2>2. i \in DOMAIN ledger /\ ledger'[i].epoch = ledger[i].epoch
    BY <1>1, LedgerStep, <2>1, <1>0 DEF Restart
  <2> QED
    BY <1>0, <2>1, <2>2 DEF FailClosed
<1>2. CASE ~Restart
  <2>1. Unset
    BY <1>2, UnsetStep
  <2>2. restarts' = restarts
    BY <1>2, RestartsStep
  <2> QED
    BY <2>1, <2>2, LedgerStep
    DEF NothingCounted, FailClosed, Executed, InFlight,
        FlowSteps
<1> QED
  BY <1>1, <1>2

(* A failed mandate_init leaves tx_flow callable, but in a process that    *)
(* was never given a policy no caller gets anything executed but amounts   *)
(* that are 0 modulo 2^64.  The hypothesis says that the policies given    *)
(* can be told from the default one.                                       *)
THEOREM NothingSpent ==
  ASSUME PoliciesDiffer
  PROVE  Spec => []NothingSpentWithoutPolicy
<1>1. Init => FailClosed /\ NothingCounted
  BY DEF Init, FailClosed, InFlight, FlowSteps, NothingCounted
<1>2. TypeInv /\ FailClosed /\ [Next]_vars => FailClosed'
  BY FailClosedStep
<1>3. TypeInv /\ FailClosed /\ NothingCounted /\ [Next]_vars
        => NothingCounted'
  BY NothingCountedStep
<1>4. NothingCounted /\ CountsModulo => NothingSpentWithoutPolicy
  BY DEF NothingCounted, CountsModulo, Unset, NothingSpentWithoutPolicy
<1> QED
  BY <1>1, <1>2, <1>3, <1>4, TypeInit, TypeStep, CountsInit, CountsStep, PTL
  DEF Spec

=============================================================================
