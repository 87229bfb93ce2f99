------------------------ MODULE ExecuteRequestProofs ------------------------
(***************************************************************************)
(* Theorems about ExecuteRequest.  For any number of callers: types, and   *)
(* that every request is counted unless the scrubbing panics.  For the     *)
(* single caller of the WASM build: that the checks a request passed still *)
(* hold when it is counted, that no counted use exceeds a positive limit,  *)
(* and that the counters are the number of requests begun in their         *)
(* windows.                                                                *)
(***************************************************************************)
EXTENDS ExecuteRequest, PolicyEngineProofs, FiniteSetTheorems, SequenceTheorems

Names(c) == loc[c].template.placeholders

(* The loops are inside the placeholders, and the request that a caller    *)
(* has sent is in the history.                                             *)
CallOK ==
    \A c \in Callers :
        /\ pc[c] \in {"check", "retrieve"} => loc[c].i \in 1 .. Len(Names(c))
        /\ pc[c] = "record" => /\ loc[c].req \in DOMAIN sent
                               /\ sent[loc[c].req].torn = Tears(c)

TypeInv == TypeOK /\ CallOK

-----------------------------------------------------------------------------
LEMMA LockedType ==
  ASSUME TypeOK
  PROVE  Locked \in Engine /\ (engine # None => Locked = engine)
BY DefaultPolicyType, NewEngineType DEF TypeOK, Locked

LEMMA TemplateType ==
  ASSUME NEW t \in Template
  PROVE  /\ t.placeholders \in Seq(SecretNames)
         /\ Len(t.placeholders) \in Nat
         /\ DOMAIN t.placeholders = 1 .. Len(t.placeholders)
         /\ t.placeholders # <<>> => 1 \in 1 .. Len(t.placeholders)
         /\ \A i \in 1 .. Len(t.placeholders) :
               t.placeholders[i] \in SecretNames
         /\ \A i, j \in 1 .. Len(t.placeholders) :
               t.placeholders[i] = t.placeholders[j] => i = j
<1>1. t.placeholders \in Seq(SecretNames)
  BY DEF Template, Placeholders
<1>2. /\ Len(t.placeholders) \in Nat
      /\ DOMAIN t.placeholders = 1 .. Len(t.placeholders)
      /\ \A i \in 1 .. Len(t.placeholders) : t.placeholders[i] \in SecretNames
  BY <1>1
<1>3. t.placeholders # <<>> => Len(t.placeholders) # 0
  BY <1>1, EmptySeq
<1>4. \A i, j \in 1 .. Len(t.placeholders) :
         t.placeholders[i] = t.placeholders[j] => i = j
  BY <1>2 DEF Template, Placeholders
<1> QED
  BY <1>1, <1>2, <1>3, <1>4

LEMMA NoLocalsType == NoLocals \in Locals
<1>1. <<>> \in Placeholders
  BY DEF Placeholders
<1>2. [placeholders |-> <<>>, url |-> {}] \in Template
  BY <1>1 DEF Template
<1> QED
  BY <1>2, EmptyMapType DEF NoLocals, Locals

LEMMA NamesType ==
  ASSUME TypeOK, NEW c \in Callers
  PROVE  /\ loc[c] \in Locals /\ loc[c].template \in Template
         /\ Names(c) \in Seq(SecretNames) /\ Len(Names(c)) \in Nat
         /\ DOMAIN Names(c) = 1 .. Len(Names(c))
         /\ \A i \in 1 .. Len(Names(c)) : Names(c)[i] \in SecretNames
         /\ Used(c) \subseteq SecretNames
<1>1. loc[c] \in Locals /\ loc[c].template \in Template
  BY DEF TypeOK, Locals
<1>2. /\ Names(c) \in Seq(SecretNames) /\ Len(Names(c)) \in Nat
      /\ DOMAIN Names(c) = 1 .. Len(Names(c))
      /\ \A i \in 1 .. Len(Names(c)) : Names(c)[i] \in SecretNames
  BY <1>1, TemplateType DEF Names
<1> QED
  BY <1>1, <1>2 DEF Used, Names

(* Leaving the call.                                                       *)
LEMMA ReturnEffect ==
  ASSUME TypeOK, NEW c \in Callers, Return(c)
  PROVE  /\ pc' \in [Callers -> {"idle", "check", "retrieve", "send", "record"}]
         /\ loc' \in [Callers -> Locals]
         /\ pc'[c] = "idle" /\ loc'[c] = NoLocals
         /\ \A d \in Callers : d # c => pc'[d] = pc[d] /\ loc'[d] = loc[d]
BY NoLocalsType DEF TypeOK, Return, Goto

(* One turn of a loop over the placeholders.                               *)
LEMMA TurnEffect ==
  ASSUME TypeInv, NEW c \in Callers, pc[c] \in {"check", "retrieve"},
         NEW after \in {"retrieve", "send"},
         NEW l \in Locals, l.template = loc[c].template, l.i = loc[c].i,
         NextPlaceholder(c, after, l)
  PROVE  /\ pc' \in [Callers -> {"idle", "check", "retrieve", "send", "record"}]
         /\ loc' \in [Callers -> Locals]
         /\ loc'[c].template = loc[c].template
         /\ loc'[c].now = l.now /\ loc'[c].values = l.values
         /\ \/ /\ loc[c].i = Len(Names(c))
               /\ pc'[c] = after /\ loc'[c].i = 1
            \/ /\ loc[c].i < Len(Names(c))
               /\ pc'[c] = pc[c] /\ loc'[c].i = loc[c].i + 1
         /\ \A d \in Callers : d # c => pc'[d] = pc[d] /\ loc'[d] = loc[d]
<1>1. loc[c].i \in 1 .. Len(Names(c)) /\ Len(Names(c)) \in Nat
  BY NamesType DEF TypeInv, CallOK
<1> DEFINE next(j) == [l EXCEPT !.i = j]
<1>2. \A j \in Nat : /\ next(j) \in Locals /\ next(j).i = j
                     /\ next(j).template = l.template
                     /\ next(j).now = l.now /\ next(j).values = l.values
  BY DEF Locals
<1>3. CASE Last(c)
  <2>1. loc' = [loc EXCEPT ![c] = next(1)] /\ pc' = [pc EXCEPT ![c] = after]
    BY <1>3 DEF NextPlaceholder, Goto
  <2> HIDE DEF next
  <2> QED
    BY <1>2, <1>3, <2>1 DEF TypeInv, TypeOK, Last, Names
<1>4. CASE ~Last(c)
  <2>1. loc' = [loc EXCEPT ![c] = next(l.i + 1)] /\ pc' = pc
    BY <1>4 DEF NextPlaceholder
  <2>2. loc[c].i < Len(Names(c)) /\ loc[c].i + 1 \in Nat
    BY <1>1, <1>4 DEF Last, Names
  <2> HIDE DEF next
  <2> QED
    BY <1>2, <2>1, <2>2 DEF TypeInv, TypeOK
<1> QED
  BY <1>3, <1>4

LEMMA PlaceholderType ==
  ASSUME TypeInv, NEW c \in Callers, pc[c] \in {"check", "retrieve"}
  PROVE  placeholder(c) \in SecretNames /\ placeholder(c) \in Used(c)
BY NamesType DEF TypeInv, CallOK, placeholder, Names, Used

(* A retrieved secret joins the values.                                    *)
LEMMA WithValueEffect ==
  ASSUME TypeInv, NEW c \in Callers, pc[c] = "retrieve",
         secrets[placeholder(c)] \in Utf8
  PROVE  /\ WithValue(c) \in Locals
         /\ WithValue(c).template = loc[c].template
         /\ WithValue(c).i = loc[c].i /\ WithValue(c).now = loc[c].now
         /\ \A n \in SecretNames : WithValue(c).values[n] =
               IF n = placeholder(c) THEN secrets[n] ELSE loc[c].values[n]
<1> DEFINE v == [loc[c].values EXCEPT ![placeholder(c)] =
                    secrets[placeholder(c)]]
<1>0. loc[c] \in Locals /\ placeholder(c) \in SecretNames
  BY PlaceholderType, NamesType DEF TypeInv
<1>1. v \in HashMap(Utf8)
  BY <1>0 DEF Locals, HashMap
<1>2. \A n \in SecretNames : v[n] =
         IF n = placeholder(c) THEN secrets[n] ELSE loc[c].values[n]
  BY <1>0 DEF Locals, HashMap
<1>3. WithValue(c) = [loc[c] EXCEPT !.values = v]
  BY <1>0 DEF WithValue, Locals
<1> HIDE DEF v
<1> QED
  BY <1>0, <1>1, <1>2, <1>3 DEF Locals

(* What counting the uses does to the engine.                              *)
LEMMA RecordUsesEffect ==
  ASSUME NEW e \in Engine, NEW names \in SUBSET SecretNames, NEW t \in Nat
  PROVE  LET r == RecordUses(e, names, t)
         IN  /\ r \in Engine /\ r.policy = e.policy
             /\ \A n \in SecretNames : r.secret_usage[n] =
                   IF n \in names THEN record_secret_usage(e, n, t).secret_usage[n]
                   ELSE e.secret_usage[n]
<1> DEFINE usage == [n \in SecretNames |->
                IF n \in names THEN record_secret_usage(e, n, t).secret_usage[n]
                ELSE e.secret_usage[n]]
<1>1. \A n \in SecretNames : /\ e.secret_usage[n] \in SecretUsage \cup {None}
                             /\ record_secret_usage(e, n, t).secret_usage[n]
                                   \in SecretUsage
  BY UsageType, RecordUse
<1>2. usage \in HashMap(SecretUsage)
  BY <1>1 DEF HashMap
<1>3. RecordUses(e, names, t) = [e EXCEPT !.secret_usage = usage]
  BY DEF RecordUses
<1>4. \A n \in SecretNames : usage[n] =
         IF n \in names THEN record_secret_usage(e, n, t).secret_usage[n]
         ELSE e.secret_usage[n]
  OBVIOUS
<1> HIDE DEF usage
<1> QED
  BY <1>2, <1>3, <1>4 DEF Engine

LEMMA SendEffect ==
  ASSUME TypeInv, NEW c \in Callers, Send(c)
  PROVE  /\ sent' \in Seq(Request) /\ Len(sent') = Len(sent) + 1
         /\ DOMAIN sent' = DOMAIN sent \cup {Len(sent) + 1}
         /\ Len(sent) + 1 \notin DOMAIN sent
         /\ \A i \in DOMAIN sent : sent'[i] = sent[i]
         /\ sent'[Len(sent) + 1].names = Used(c)
         /\ sent'[Len(sent) + 1].now = loc[c].now
         /\ sent'[Len(sent) + 1].torn = Tears(c)
         /\ sent'[Len(sent) + 1].counted = FALSE
         /\ loc' \in [Callers -> Locals]
         /\ loc'[c].req = Len(sent) + 1
         /\ loc'[c].template = loc[c].template /\ loc'[c].now = loc[c].now
         /\ loc'[c].values = loc[c].values
         /\ pc' = [pc EXCEPT ![c] = "record"]
         /\ \A d \in Callers : d # c => loc'[d] = loc[d]
<1> DEFINE r == [names |-> Used(c), now |-> loc[c].now, torn |-> Tears(c),
                 counted |-> FALSE]
<1>0. loc[c] \in Locals /\ Used(c) \subseteq SecretNames
  BY NamesType DEF TypeInv
<1>1. r \in Request
  <2>1. Tears(c) \in BOOLEAN
    BY DEF Tears
  <2> QED
    BY <1>0, <2>1 DEF Request, Locals
<1>2. sent \in Seq(Request) /\ sent' = Append(sent, r) /\ Len(sent) \in Nat
  BY DEF TypeInv, TypeOK, Send
<1>2a. r.names = Used(c) /\ r.now = loc[c].now /\ r.torn = Tears(c)
       /\ r.counted = FALSE
  OBVIOUS
<1> HIDE DEF r
<1>3. /\ sent' \in Seq(Request) /\ Len(sent') = Len(sent) + 1
      /\ DOMAIN sent' = 1 .. Len(sent) + 1 /\ DOMAIN sent = 1 .. Len(sent)
      /\ \A i \in 1 .. Len(sent) : sent'[i] = sent[i]
      /\ sent'[Len(sent) + 1] = r
  BY <1>1, <1>2, AppendProperties
<1>4. /\ DOMAIN sent' = DOMAIN sent \cup {Len(sent) + 1}
      /\ Len(sent) + 1 \notin DOMAIN sent
  BY <1>2, <1>3
<1> DEFINE l == [loc[c] EXCEPT !.req = Len(sent) + 1]
<1>5. /\ l \in Locals /\ l.req = Len(sent) + 1
      /\ l.template = loc[c].template /\ l.now = loc[c].now
      /\ l.values = loc[c].values
  BY <1>0, <1>2 DEF Locals
<1>6. loc' = [loc EXCEPT ![c] = l] /\ pc' = [pc EXCEPT ![c] = "record"]
  BY DEF Send, Goto, TypeInv, TypeOK
<1> HIDE DEF l
<1>7. /\ loc' \in [Callers -> Locals] /\ loc'[c] = l
      /\ \A d \in Callers : d # c => loc'[d] = loc[d]
  BY <1>5, <1>6 DEF TypeInv, TypeOK
<1> QED
  BY <1>2a, <1>3, <1>4, <1>5, <1>6, <1>7

LEMMA RecordEffect ==
  ASSUME TypeInv, NEW c \in Callers, Record(c)
  PROVE  /\ sent' \in Seq(Request) /\ DOMAIN sent' = DOMAIN sent
         /\ loc[c].req \in DOMAIN sent
         /\ sent'[loc[c].req].counted = TRUE
         /\ \A i \in DOMAIN sent :
               /\ sent[i] \in Request
               /\ sent'[i].names = sent[i].names /\ sent'[i].now = sent[i].now
               /\ sent'[i].torn = sent[i].torn
               /\ i # loc[c].req => sent'[i] = sent[i]
         /\ engine' \in Engine
         /\ engine'.policy = Locked.policy
         /\ \A n \in SecretNames : engine'.secret_usage[n] =
               IF n \in Used(c)
               THEN record_secret_usage(Locked, n, loc[c].now).secret_usage[n]
               ELSE Locked.secret_usage[n]
<1>1. /\ loc[c].req \in DOMAIN sent /\ sent \in Seq(Request)
      /\ Used(c) \subseteq SecretNames /\ loc[c].now \in Nat
      /\ Locked \in Engine
  BY NamesType, LockedType DEF TypeInv, TypeOK, CallOK, Record, Locals
<1>2. /\ engine' \in Engine /\ engine'.policy = Locked.policy
      /\ \A n \in SecretNames : engine'.secret_usage[n] =
            IF n \in Used(c)
            THEN record_secret_usage(Locked, n, loc[c].now).secret_usage[n]
            ELSE Locked.secret_usage[n]
  <2>1. engine' = RecordUses(Locked, Used(c), loc[c].now)
    BY DEF Record
  <2>2. PICK e \in Engine, names \in SUBSET SecretNames, t \in Nat :
          e = Locked /\ names = Used(c) /\ t = loc[c].now
    BY <1>1
  <2>3. /\ RecordUses(e, names, t) \in Engine
        /\ RecordUses(e, names, t).policy = e.policy
        /\ \A n \in SecretNames : RecordUses(e, names, t).secret_usage[n] =
              IF n \in names THEN record_secret_usage(e, n, t).secret_usage[n]
              ELSE e.secret_usage[n]
    BY RecordUsesEffect
  <2> QED
    BY <2>1, <2>2, <2>3
<1> DEFINE r == [sent[loc[c].req] EXCEPT !.counted = TRUE]
<1>3. \A i \in DOMAIN sent : sent[i] \in Request
  BY <1>1
<1>4. /\ r \in Request /\ r.counted = TRUE
      /\ r.names = sent[loc[c].req].names /\ r.now = sent[loc[c].req].now
      /\ r.torn = sent[loc[c].req].torn
  BY <1>1, <1>3 DEF Request
<1>5. sent' = [sent EXCEPT ![loc[c].req] = r]
  BY DEF Record
<1> HIDE DEF r
<1>6. /\ sent' \in Seq(Request) /\ DOMAIN sent' = DOMAIN sent
      /\ sent'[loc[c].req] = r
      /\ \A i \in DOMAIN sent : i # loc[c].req => sent'[i] = sent[i]
  BY <1>1, <1>4, <1>5
<1> QED
  BY <1>1, <1>2, <1>3, <1>4, <1>6

LEMMA BeginEffect ==
  ASSUME TypeInv, NEW c \in Callers, Begin(c)
  PROVE  /\ pc[c] = "idle"
         /\ pc' \in [Callers -> {"idle", "check", "retrieve", "send", "record"}]
         /\ loc' \in [Callers -> Locals]
         /\ loc'[c].now = now /\ loc'[c].i = 1 /\ loc'[c].values = EmptyMap
         /\ \/ pc'[c] = "check" /\ 1 \in 1 .. Len(loc'[c].template.placeholders)
            \/ pc'[c] = "send" /\ loc'[c].template.placeholders = <<>>
         /\ \A d \in Callers : d # c => pc'[d] = pc[d] /\ loc'[d] = loc[d]
         /\ UNCHANGED <<now, engine, secrets, sent>>
<1>1. PICK t \in Templates :
        /\ loc' = [loc EXCEPT ![c] = [NoLocals EXCEPT !.template = t,
                                                      !.now = now]]
        /\ pc' = [pc EXCEPT ![c] =
                     IF t.placeholders = <<>> THEN "send" ELSE "check"]
  BY DEF Begin, Goto
<1> DEFINE l == [NoLocals EXCEPT !.template = t, !.now = now]
<1>2. t \in Template /\ now \in Nat
  BY RequestAssumption DEF TypeInv, TypeOK
<1>3. /\ l \in Locals /\ l.template = t /\ l.now = now
      /\ l.i = 1 /\ l.values = EmptyMap
  BY <1>2, EmptyMapType DEF NoLocals, Locals
<1> HIDE DEF l
<1>4. /\ loc' \in [Callers -> Locals] /\ loc'[c] = l
      /\ pc' \in [Callers -> {"idle", "check", "retrieve", "send", "record"}]
      /\ pc'[c] = IF t.placeholders = <<>> THEN "send" ELSE "check"
      /\ \A d \in Callers : d # c => pc'[d] = pc[d] /\ loc'[d] = loc[d]
  BY <1>1, <1>3 DEF TypeInv, TypeOK, l
<1>5. t.placeholders # <<>> => 1 \in 1 .. Len(t.placeholders)
  BY <1>2, TemplateType
<1> QED
  BY <1>3, <1>4, <1>5 DEF Begin

-----------------------------------------------------------------------------
LEMMA TypeInit == Init => TypeInv
<1> SUFFICES ASSUME Init PROVE TypeInv
  OBVIOUS
<1>1. <<>> \in Seq(Request)
  OBVIOUS
<1>2. DOMAIN secrets = {} /\ secrets \in [{} -> Values]
  BY DEF Init, Vault!Init
<1>3. TypeOK
  BY <1>1, <1>2, NoLocalsType DEF Init, TypeOK
<1>4. CallOK
  BY DEF Init, CallOK
<1> QED
  BY <1>3, <1>4 DEF TypeInv

LEMMA TypeStep == TypeInv /\ [Next]_vars => TypeInv'
<1> SUFFICES ASSUME TypeInv, [Next]_vars PROVE TypeInv'
  OBVIOUS
<1>0. TypeOK /\ CallOK /\ Locked \in Engine
  BY LockedType DEF TypeInv
<1>1. ASSUME UNCHANGED <<pc, loc, sent>> PROVE CallOK'
  BY <1>0, <1>1 DEF CallOK, Names, Tears
<1>2. ASSUME NEW c \in Callers, SetPolicy(c) \/ GetSpendingSummary(c)
      PROVE  TypeInv'
  <2>1. engine' \in Engine
    BY <1>0, <1>2, SetPolicyType, ResetType, RequestAssumption
    DEF SetPolicy, GetSpendingSummary, TypeOK
  <2> QED
    BY <1>0, <1>1, <1>2, <2>1
    DEF SetPolicy, GetSpendingSummary, TypeInv, TypeOK
<1>3. ASSUME NEW c \in Callers, DepositSecret(c) \/ RemoveSecret(c)
      PROVE  TypeInv'
  <2>1. DOMAIN secrets' \subseteq SecretNames /\ secrets' \in [DOMAIN secrets' -> Values]
    <3>1. CASE DepositSecret(c)
      <4>1. PICK n \in SecretNames, v \in Values : Vault!Deposit(n, v)
        BY <3>1 DEF DepositSecret
      <4> QED
        BY <1>0, <4>1 DEF TypeOK, Vault!Deposit
    <3>2. CASE RemoveSecret(c)
      <4>1. PICK n \in SecretNames : Vault!Remove(n)
        BY <3>2 DEF RemoveSecret
      <4> QED
        BY <1>0, <4>1 DEF TypeOK, Vault!Remove
    <3> QED
      BY <1>3, <3>1, <3>2
  <2>2. UNCHANGED <<now, engine, pc, loc, sent>>
    BY <1>3 DEF DepositSecret, RemoveSecret
  <2> QED
    BY <1>0, <1>1, <2>1, <2>2 DEF TypeInv, TypeOK
<1>4. ASSUME NEW c \in Callers, Begin(c) PROVE TypeInv'
  <2>1. TypeOK'
    BY <1>0, <1>4, BeginEffect DEF TypeOK
  <2>2. CallOK'
    BY <1>0, <1>4, BeginEffect DEF CallOK, Names, Tears
  <2> QED
    BY <2>1, <2>2 DEF TypeInv
<1>5. ASSUME NEW c \in Callers, Return(c), UNCHANGED sent PROVE CallOK'
  BY <1>0, <1>5, ReturnEffect DEF CallOK, Names, Tears
<1>6. ASSUME NEW c \in Callers, pc[c] \in {"check", "retrieve"},
             NEW after \in {"retrieve", "send"}, NEW l \in Locals,
             l.template = loc[c].template, l.i = loc[c].i,
             NextPlaceholder(c, after, l), UNCHANGED sent
      PROVE  CallOK'
  <2>1. /\ loc[c].i \in 1 .. Len(Names(c)) /\ Len(Names(c)) \in Nat
        /\ loc'[c].template = loc[c].template
        /\ \/ loc[c].i = Len(Names(c)) /\ pc'[c] = after /\ loc'[c].i = 1
           \/ /\ loc[c].i < Len(Names(c))
              /\ pc'[c] = pc[c] /\ loc'[c].i = loc[c].i + 1
        /\ \A d \in Callers : d # c => pc'[d] = pc[d] /\ loc'[d] = loc[d]
    BY <1>0, <1>6, TurnEffect, NamesType DEF CallOK
  <2>2. loc'[c].i \in 1 .. Len(Names(c)) /\ pc'[c] # "record"
    BY <1>6, <2>1
  <2> QED
    BY <1>0, <1>6, <2>1, <2>2 DEF CallOK, Names, Tears
<1>7. ASSUME NEW c \in Callers, CheckUsage(c) PROVE TypeInv'
  <2>1. loc[c] \in Locals /\ loc[c].now \in Nat /\ pc[c] = "check"
    BY <1>0, <1>7 DEF TypeOK, Locals, CheckUsage
  <2>2. engine' \in Engine /\ UNCHANGED <<now, secrets, sent>>
    BY <1>0, <1>7, <2>1, ResetType DEF CheckUsage
  <2>3. NextPlaceholder(c, "retrieve", loc[c]) \/ Return(c)
    BY <1>7 DEF CheckUsage
  <2>4. TypeOK'
    BY <1>0, <2>1, <2>2, <2>3, TurnEffect, ReturnEffect DEF TypeOK
  <2>5. CallOK'
    BY <1>5, <1>6, <2>1, <2>2, <2>3
  <2> QED
    BY <2>4, <2>5 DEF TypeInv
<1>8. ASSUME NEW c \in Callers, RetrieveSecret(c) PROVE TypeInv'
  <2>1. pc[c] = "retrieve" /\ UNCHANGED <<now, engine, secrets, sent>>
    BY <1>8 DEF RetrieveSecret
  <2>2. CASE Return(c)
    BY <1>0, <1>5, <2>1, <2>2, ReturnEffect DEF TypeInv, TypeOK
  <2>3. CASE /\ secrets[placeholder(c)] \in Utf8
             /\ NextPlaceholder(c, "send", WithValue(c))
    <3>1. /\ WithValue(c) \in Locals /\ WithValue(c).i = loc[c].i
          /\ WithValue(c).template = loc[c].template
      BY <2>1, <2>3, WithValueEffect
    <3>2. CallOK'
      BY <1>6, <2>1, <2>3, <3>1
    <3>3. TypeOK'
      BY <1>0, <2>1, <2>3, <3>1, TurnEffect DEF TypeOK
    <3> QED
      BY <3>2, <3>3 DEF TypeInv
  <2> QED
    BY <1>8, <2>2, <2>3 DEF RetrieveSecret
<1>9. ASSUME NEW c \in Callers, Send(c) PROVE TypeInv'
  <2>1. UNCHANGED <<now, engine, secrets>>
    BY <1>9 DEF Send
  <2>2. TypeOK'
    BY <1>0, <1>9, <2>1, SendEffect DEF TypeOK
  <2>3. Tears(c)' = Tears(c)
    BY <1>9, SendEffect DEF Tears
  <2>4. pc'[c] = "record" /\ \A d \in Callers : d # c => pc'[d] = pc[d]
    BY <1>0, <1>9, SendEffect DEF TypeOK
  <2>5. /\ loc'[c].req \in DOMAIN sent' /\ sent'[loc'[c].req].torn = Tears(c)'
        /\ DOMAIN sent \subseteq DOMAIN sent'
        /\ \A j \in DOMAIN sent : sent'[j] = sent[j]
        /\ \A d \in Callers : d # c => loc'[d] = loc[d]
    BY <1>9, <2>3, SendEffect
  <2>6. ASSUME NEW d \in Callers, d # c
        PROVE  /\ pc'[d] \in {"check", "retrieve"} =>
                      loc'[d].i \in 1 .. Len(Names(d)')
               /\ pc'[d] = "record" => /\ loc'[d].req \in DOMAIN sent'
                                       /\ sent'[loc'[d].req].torn = Tears(d)'
    <3>1. /\ pc[d] \in {"check", "retrieve"} => loc[d].i \in 1 .. Len(Names(d))
          /\ pc[d] = "record" => /\ loc[d].req \in DOMAIN sent
                                 /\ sent[loc[d].req].torn = Tears(d)
      BY <1>0, <2>6 DEF CallOK
    <3>2. pc'[d] = pc[d] /\ loc'[d] = loc[d]
      BY <2>4, <2>5, <2>6
    <3>3. Names(d)' = Names(d) /\ Tears(d)' = Tears(d)
      BY <3>2 DEF Names, Tears
    <3> QED
      BY <2>5, <3>1, <3>2, <3>3
  <2>7. CallOK'
    BY <2>4, <2>5, <2>6 DEF CallOK
  <2> QED
    BY <2>2, <2>7 DEF TypeInv
<1>10. ASSUME NEW c \in Callers, Record(c) PROVE TypeInv'
  <2>1. Return(c) /\ UNCHANGED <<now, secrets>>
    BY <1>10 DEF Record
  <2>2. TypeOK'
    BY <1>0, <1>10, <2>1, RecordEffect, ReturnEffect DEF TypeOK
  <2>3. CallOK'
    <3>1. /\ DOMAIN sent' = DOMAIN sent
          /\ \A j \in DOMAIN sent : sent'[j].torn = sent[j].torn
      BY <1>10, RecordEffect
    <3>2. /\ pc'[c] = "idle"
          /\ \A d \in Callers : d # c => pc'[d] = pc[d] /\ loc'[d] = loc[d]
      BY <1>0, <2>1, ReturnEffect
    <3> QED
      BY <1>0, <3>1, <3>2 DEF CallOK, Names, Tears
  <2> QED
    BY <2>2, <2>3 DEF TypeInv
<1>11. ASSUME NEW c \in Callers, ScrubPanics(c) PROVE TypeInv'
  BY <1>0, <1>5, <1>11, ReturnEffect DEF ScrubPanics, TypeInv, TypeOK
<1>12. CASE Tick
  BY <1>0, <1>1, <1>12 DEF Tick, TypeInv, TypeOK
<1>13. CASE UNCHANGED vars
  BY <1>0, <1>1, <1>13 DEF vars, TypeInv, TypeOK
<1> QED
  BY <1>2, <1>3, <1>4, <1>7, <1>8, <1>9, <1>10, <1>11, <1>12, <1>13
  DEF Next, Call, Continue

(* Types, for any number of callers.                                       *)
THEOREM TypeCorrect == Spec => []TypeOK
<1>1. TypeInv => TypeOK
  BY DEF TypeInv
<1> QED
  BY <1>1, TypeInit, TypeStep, PTL DEF Spec

LEMMA CountedStep ==
  TypeInv /\ RequestsAreCounted /\ [Next]_vars => RequestsAreCounted'
<1> SUFFICES ASSUME TypeInv, RequestsAreCounted, [Next]_vars,
                    NEW i \in DOMAIN sent'
             PROVE  \/ sent'[i].counted
                    \/ sent'[i].torn
                    \/ \E c \in Callers : pc'[c] = "record" /\ loc'[c].req = i
  BY DEF RequestsAreCounted
<1>0. TypeOK /\ CallOK
  BY DEF TypeInv
<1>1. ASSUME UNCHANGED sent,
             \A c \in Callers : pc[c] = "record" =>
                 pc'[c] = "record" /\ loc'[c] = loc[c]
      PROVE  \/ sent'[i].counted
             \/ sent'[i].torn
             \/ \E c \in Callers : pc'[c] = "record" /\ loc'[c].req = i
  BY <1>1 DEF RequestsAreCounted
<1>2. ASSUME NEW c \in Callers, Return(c), UNCHANGED sent, pc[c] # "record"
      PROVE  \A d \in Callers : pc[d] = "record" =>
                 pc'[d] = "record" /\ loc'[d] = loc[d]
  BY <1>0, <1>2, ReturnEffect
<1>3. CASE \E c \in Callers : Begin(c)
  BY <1>1, <1>3, BeginEffect
<1>4. CASE \E c \in Callers : CheckUsage(c)
  <2>1. PICK c \in Callers : CheckUsage(c)
    BY <1>4
  <2>2. pc[c] = "check" /\ UNCHANGED sent /\ loc[c] \in Locals
    BY <1>0, <2>1 DEF CheckUsage, TypeOK
  <2>3. NextPlaceholder(c, "retrieve", loc[c]) \/ Return(c)
    BY <2>1 DEF CheckUsage
  <2> QED
    BY <1>1, <1>2, <2>2, <2>3, TurnEffect
<1>5. CASE \E c \in Callers : RetrieveSecret(c)
  <2>1. PICK c \in Callers : RetrieveSecret(c)
    BY <1>5
  <2>2. pc[c] = "retrieve" /\ UNCHANGED sent
    BY <2>1 DEF RetrieveSecret
  <2>3. CASE Return(c)
    BY <1>1, <1>2, <2>2, <2>3
  <2>4. CASE /\ secrets[placeholder(c)] \in Utf8
             /\ NextPlaceholder(c, "send", WithValue(c))
    BY <1>1, <2>2, <2>4, WithValueEffect, TurnEffect
  <2> QED
    BY <2>1, <2>3, <2>4 DEF RetrieveSecret
<1>6. CASE \E c \in Callers : Send(c)
  <2>1. PICK c \in Callers : Send(c)
    BY <1>6
  <2>2. /\ DOMAIN sent' = DOMAIN sent \cup {Len(sent) + 1}
        /\ \A j \in DOMAIN sent : sent'[j] = sent[j]
        /\ loc'[c].req = Len(sent) + 1
        /\ pc' = [pc EXCEPT ![c] = "record"]
        /\ \A d \in Callers : d # c => loc'[d] = loc[d]
    BY <2>1, SendEffect
  <2>3. /\ pc[c] = "send" /\ pc'[c] = "record"
        /\ \A d \in Callers : d # c => pc'[d] = pc[d]
    BY <1>0, <2>1, <2>2 DEF TypeOK, Send
  <2>4. CASE i = Len(sent) + 1
    BY <2>2, <2>3, <2>4
  <2>5. CASE i \in DOMAIN sent
    BY <2>2, <2>3, <2>5 DEF RequestsAreCounted
  <2> QED
    BY <2>2, <2>4, <2>5
<1>7. CASE \E c \in Callers : Record(c)
  <2>1. PICK c \in Callers : Record(c)
    BY <1>7
  <2>2. \A d \in Callers : d # c => pc'[d] = pc[d] /\ loc'[d] = loc[d]
    BY <1>0, <2>1, ReturnEffect DEF Record
  <2>3. CASE i = loc[c].req
    BY <2>1, <2>3, RecordEffect
  <2>4. CASE i # loc[c].req
    <3>1. i \in DOMAIN sent /\ sent'[i] = sent[i]
      BY <2>1, <2>4, RecordEffect
    <3> QED
      BY <2>2, <2>4, <3>1 DEF RequestsAreCounted
  <2> QED
    BY <2>3, <2>4
<1>8. CASE \E c \in Callers : ScrubPanics(c)
  <2>1. PICK c \in Callers : ScrubPanics(c)
    BY <1>8
  <2>2. /\ UNCHANGED sent /\ sent[loc[c].req].torn
        /\ \A d \in Callers : d # c => pc'[d] = pc[d] /\ loc'[d] = loc[d]
    BY <1>0, <2>1, ReturnEffect DEF CallOK, ScrubPanics
  <2> QED
    BY <2>2 DEF RequestsAreCounted
<1>9. CASE UNCHANGED <<pc, loc, sent>>
  BY <1>1, <1>9
<1> QED
  BY <1>3, <1>4, <1>5, <1>6, <1>7, <1>8, <1>9
  DEF Next, Call, SetPolicy, GetSpendingSummary, DepositSecret, RemoveSecret,
      Continue, Tick, vars

(* However many threads call, and whatever the host answers, a request     *)
(* that went out is counted, or about to be, unless the response scrubbing *)
(* panicked on one of its secrets.                                         *)
THEOREM EveryRequestCounted == Spec => []RequestsAreCounted
<1>1. Init => RequestsAreCounted
  BY DEF Init, RequestsAreCounted
<1> QED
  BY <1>1, TypeInit, TypeStep, CountedStep, PTL DEF Spec

-----------------------------------------------------------------------------
(* The rest is for the single caller of the WASM build.                    *)

(* The placeholders that a loop has left behind.                           *)
Before(c) == {Names(c)[j] : j \in 1 .. loc[c].i - 1}

(* The secrets that have been retrieved, at each step of the call.         *)
ValuesOK(c) ==
    /\ pc[c] \in {"idle", "check"} => Injected(c) = {}
    /\ pc[c] = "retrieve" => Injected(c) = Before(c)
    /\ pc[c] \in {"send", "record"} => Injected(c) = Used(c)
    /\ \A n \in Injected(c) :
          n \in DOMAIN secrets /\ loc[c].values[n] = secrets[n]

ChecksOK(c) ==
    \A n \in Checked(c) :
        engine # None /\ check_secret_usage(engine, n, loc[c].template.url)

LEMMA CheckedSets ==
  ASSUME TypeOK, NEW c \in Callers
  PROVE  /\ pc[c] = "idle" => Checked(c) = {}
         /\ pc[c] = "check" => Checked(c) = Before(c)
         /\ pc[c] \in {"retrieve", "send", "record"} => Checked(c) = Used(c)
BY DEF TypeOK, Checked, Before, Names

(* A loop starts with nothing behind it, takes one more, and ends with all.*)
LEMMA BeforeTurn ==
  ASSUME TypeInv, NEW c \in Callers, pc[c] \in {"check", "retrieve"},
         loc'[c].template = loc[c].template
  PROVE  /\ loc'[c].i = loc[c].i + 1 =>
               Before(c)' = Before(c) \cup {placeholder(c)}
         /\ loc[c].i = Len(Names(c)) =>
               Used(c)' = Before(c) \cup {placeholder(c)}
         /\ loc'[c].i = 1 => Before(c)' = {}
         /\ Used(c)' = Used(c)
<1>1. /\ loc[c].i \in Nat /\ loc[c].i \in 1 .. Len(Names(c))
      /\ Len(Names(c)) \in Nat /\ DOMAIN Names(c) = 1 .. Len(Names(c))
  BY NamesType DEF TypeInv, CallOK
<1>2. Names(c)' = Names(c) /\ Used(c)' = Used(c)
  BY DEF Names, Used
<1>3. placeholder(c) = Names(c)[loc[c].i]
  BY DEF placeholder, Names
<1>4. ASSUME loc'[c].i = loc[c].i + 1
      PROVE  Before(c)' = Before(c) \cup {placeholder(c)}
  <2>1. 1 .. (loc[c].i + 1) - 1 = (1 .. loc[c].i - 1) \cup {loc[c].i}
    BY <1>1
  <2> QED
    BY <1>2, <1>3, <1>4, <2>1 DEF Before
<1>5. ASSUME loc[c].i = Len(Names(c))
      PROVE  Used(c)' = Before(c) \cup {placeholder(c)}
  <2>1. 1 .. Len(Names(c)) = (1 .. loc[c].i - 1) \cup {loc[c].i}
    BY <1>1, <1>5
  <2>2. Used(c) = {Names(c)[j] : j \in 1 .. Len(Names(c))}
    BY <1>1 DEF Used, Names
  <2> QED
    BY <1>2, <1>3, <2>1, <2>2 DEF Before
<1>6. ASSUME loc'[c].i = 1 PROVE Before(c)' = {}
  <2>1. 1 .. 1 - 1 = {}
    OBVIOUS
  <2> QED
    BY <1>6, <2>1 DEF Before
<1> QED
  BY <1>2, <1>4, <1>5, <1>6

LEMMA ValuesStep ==
  ASSUME NEW w, Callers = {w}
  PROVE  TypeInv /\ ValuesOK(w) /\ [Next]_vars => ValuesOK(w)'
<1> SUFFICES ASSUME TypeInv, ValuesOK(w), [Next]_vars PROVE ValuesOK(w)'
  OBVIOUS
<1>0. TypeOK /\ w \in Callers /\ \A c \in Callers : c = w
  BY DEF TypeInv
<1>1. CASE UNCHANGED <<pc, loc>> /\ (pc[w] = "idle" \/ UNCHANGED secrets)
  BY <1>1 DEF ValuesOK, Injected, Before, Used, Names
<1>2. CASE Return(w)
  <2>1. pc'[w] = "idle" /\ loc'[w].values = EmptyMap
    BY <1>0, <1>2, ReturnEffect DEF NoLocals
  <2>2. Injected(w)' = {}
    BY <2>1 DEF Injected, EmptyMap
  <2> QED
    BY <2>1, <2>2 DEF ValuesOK
<1>3. CASE Begin(w)
  <2>1. /\ loc'[w].values = EmptyMap
        /\ \/ pc'[w] = "check"
           \/ pc'[w] = "send" /\ loc'[w].template.placeholders = <<>>
    BY <1>0, <1>3, BeginEffect
  <2>2. Injected(w)' = {}
    BY <2>1 DEF Injected, EmptyMap
  <2>3. loc'[w].template.placeholders = <<>> => Used(w)' = {}
    BY DEF Used
  <2> QED
    BY <2>1, <2>2, <2>3 DEF ValuesOK
<1>4. CASE CheckUsage(w) /\ ~Return(w)
  <2>1. pc[w] = "check" /\ loc[w] \in Locals /\ UNCHANGED secrets
        /\ NextPlaceholder(w, "retrieve", loc[w])
    BY <1>0, <1>4 DEF CheckUsage, TypeOK
  <2>2. /\ loc'[w].values = loc[w].values
        /\ loc'[w].template = loc[w].template
        /\ pc'[w] = "check" \/ (pc'[w] = "retrieve" /\ loc'[w].i = 1)
    BY <1>0, <2>1, TurnEffect
  <2>3. Injected(w) = {} /\ Injected(w)' = Injected(w)
    BY <2>1, <2>2 DEF ValuesOK, Injected
  <2>4. loc'[w].i = 1 => Before(w)' = {}
    BY <1>0, <2>1, <2>2, BeforeTurn
  <2> QED
    BY <2>2, <2>3, <2>4 DEF ValuesOK
<1>5. CASE RetrieveSecret(w) /\ ~Return(w)
  <2>1. /\ pc[w] = "retrieve" /\ UNCHANGED secrets
        /\ placeholder(w) \in DOMAIN secrets
        /\ secrets[placeholder(w)] \in Utf8
        /\ NextPlaceholder(w, "send", WithValue(w))
    BY <1>5 DEF RetrieveSecret
  <2>2. /\ WithValue(w) \in Locals /\ WithValue(w).i = loc[w].i
        /\ WithValue(w).template = loc[w].template
        /\ \A n \in SecretNames : WithValue(w).values[n] =
              IF n = placeholder(w) THEN secrets[n] ELSE loc[w].values[n]
    BY <1>0, <2>1, WithValueEffect
  <2>3. /\ loc'[w].values = WithValue(w).values
        /\ loc'[w].template = loc[w].template
        /\ \/ /\ loc[w].i = Len(Names(w))
              /\ pc'[w] = "send" /\ loc'[w].i = 1
           \/ /\ pc'[w] = "retrieve" /\ loc'[w].i = loc[w].i + 1
    BY <1>0, <2>1, <2>2, TurnEffect
  <2>4. placeholder(w) \in SecretNames /\ secrets[placeholder(w)] # None
    BY <1>0, <2>1, PlaceholderType, RequestAssumption
  <2>5. Injected(w)' = Injected(w) \cup {placeholder(w)}
    BY <2>2, <2>3, <2>4 DEF Injected
  <2>6. \A n \in Injected(w)' :
           n \in DOMAIN secrets /\ loc'[w].values[n] = secrets[n]
    BY <2>1, <2>2, <2>3, <2>5 DEF ValuesOK, Injected
  <2>7. Injected(w)' = Before(w) \cup {placeholder(w)}
    BY <2>1, <2>5 DEF ValuesOK
  <2>8. /\ pc'[w] = "send" => Injected(w)' = Used(w)'
        /\ pc'[w] = "retrieve" => Injected(w)' = Before(w)'
    BY <1>0, <2>1, <2>3, <2>7, BeforeTurn
  <2> QED
    BY <2>1, <2>3, <2>6, <2>8 DEF ValuesOK
<1>6. CASE Send(w)
  <2>1. /\ pc[w] = "send" /\ pc'[w] = "record" /\ UNCHANGED secrets
        /\ loc'[w].values = loc[w].values
        /\ loc'[w].template = loc[w].template
    BY <1>0, <1>6, SendEffect DEF Send, TypeOK
  <2>2. Injected(w)' = Injected(w) /\ Used(w)' = Used(w)
    BY <2>1 DEF Injected, Used
  <2> QED
    BY <2>1, <2>2 DEF ValuesOK
<1> QED
  BY <1>0, <1>1, <1>2, <1>3, <1>4, <1>5, <1>6
  DEF Next, Call, Continue, SetPolicy, GetSpendingSummary, DepositSecret,
      RemoveSecret, Record, ScrubPanics, Tick, vars

LEMMA ChecksStep ==
  ASSUME NEW w, Callers = {w}
  PROVE  TypeInv /\ ChecksOK(w) /\ [Next]_vars => ChecksOK(w)'
<1> SUFFICES ASSUME TypeInv, ChecksOK(w), [Next]_vars PROVE ChecksOK(w)'
  OBVIOUS
<1>0. TypeOK /\ w \in Callers /\ TypeOK' /\ \A c \in Callers : c = w
  BY TypeStep DEF TypeInv
<1>1. CASE UNCHANGED <<pc, loc>> /\ (pc[w] = "idle" \/ UNCHANGED engine)
  <2>1. CASE pc[w] = "idle"
    BY <1>0, <1>1, <2>1, CheckedSets DEF ChecksOK, Checked
  <2>2. CASE UNCHANGED <<pc, loc, engine>>
    BY <2>2 DEF ChecksOK, Checked, Used
  <2> QED
    BY <1>1, <2>1, <2>2
<1>2. CASE Return(w)
  <2>1. pc'[w] = "idle"
    BY <1>0, <1>2, ReturnEffect
  <2>2. Checked(w)' = {}
    BY <2>1 DEF Checked
  <2> QED
    BY <2>2 DEF ChecksOK
<1>3. CASE Begin(w)
  <2>1. \/ pc'[w] = "check" /\ loc'[w].i = 1
        \/ pc'[w] = "send" /\ loc'[w].template.placeholders = <<>>
    BY <1>0, <1>3, BeginEffect
  <2>2. Checked(w)' = {}
    <3>1. 1 .. 1 - 1 = {}
      OBVIOUS
    <3> QED
      BY <2>1, <3>1 DEF Checked, Used
  <2> QED
    BY <2>2 DEF ChecksOK
<1>4. CASE CheckUsage(w) /\ ~Return(w)
  <2> DEFINE t == loc[w].now
             url == loc[w].template.url
  <2>1. /\ pc[w] = "check" /\ loc[w] \in Locals /\ t \in Nat
        /\ NextPlaceholder(w, "retrieve", loc[w])
        /\ engine' = reset_if_needed(Locked, t)
        /\ check_secret_usage(engine', placeholder(w), url)
    BY <1>0, <1>4 DEF CheckUsage, TypeOK, Locals
  <2>2. /\ loc'[w].template = loc[w].template
        /\ \/ /\ loc[w].i = Len(Names(w)) /\ pc'[w] = "retrieve"
           \/ pc'[w] = "check" /\ loc'[w].i = loc[w].i + 1
    BY <1>0, <2>1, TurnEffect
  <2>3. Checked(w)' = Before(w) \cup {placeholder(w)}
    <3>1. /\ pc'[w] = "check" => Checked(w)' = Before(w)'
          /\ pc'[w] = "retrieve" => Checked(w)' = Used(w)'
      BY DEF Checked, Before, Names
    <3> QED
      BY <1>0, <2>1, <2>2, <3>1, BeforeTurn
  <2>4. engine' \in Engine /\ engine' # None /\ Locked \in Engine
    BY <1>0, <2>1, LockedType, ResetType, NoneAssumption
  <2>5. ASSUME NEW n \in Before(w) PROVE check_secret_usage(engine', n, url)
    <3>1. engine # None /\ check_secret_usage(engine, n, url)
      BY <1>0, <2>1, <2>5, CheckedSets DEF ChecksOK
    <3>2. Locked = engine /\ n \in SecretNames
      BY <1>0, <3>1, LockedType, NamesType, CheckedSets, <2>1, <2>5
      DEF Before, TypeInv, CallOK
    <3> QED
      BY <2>1, <2>4, <3>1, <3>2, ResetKeepsCheck
  <2> QED
    BY <2>1, <2>2, <2>3, <2>4, <2>5 DEF ChecksOK
<1>5. CASE RetrieveSecret(w) /\ ~Return(w)
  <2>1. /\ pc[w] = "retrieve" /\ UNCHANGED engine
        /\ secrets[placeholder(w)] \in Utf8
        /\ NextPlaceholder(w, "send", WithValue(w))
    BY <1>5 DEF RetrieveSecret
  <2>2. /\ loc'[w].template = loc[w].template
        /\ pc'[w] \in {"retrieve", "send"}
    BY <1>0, <2>1, WithValueEffect, TurnEffect
  <2>3. Checked(w)' = Checked(w)
    BY <2>1, <2>2 DEF Checked, Used
  <2> QED
    BY <2>1, <2>2, <2>3 DEF ChecksOK
<1>6. CASE Send(w)
  <2>1. /\ pc[w] = "send" /\ pc'[w] = "record" /\ UNCHANGED engine
        /\ loc'[w].template = loc[w].template
    BY <1>0, <1>6, SendEffect DEF Send, TypeOK
  <2>2. Checked(w)' = Checked(w)
    BY <2>1 DEF Checked, Used
  <2> QED
    BY <2>1, <2>2 DEF ChecksOK
<1> QED
  BY <1>0, <1>1, <1>2, <1>3, <1>4, <1>5, <1>6
  DEF Next, Call, Continue, SetPolicy, GetSpendingSummary, DepositSecret,
      RemoveSecret, Record, ScrubPanics, Tick, vars

LEMMA CallStart ==
  ASSUME NEW w, Callers = {w}
  PROVE  Init => ValuesOK(w) /\ ChecksOK(w)
<1> SUFFICES ASSUME Init PROVE ValuesOK(w) /\ ChecksOK(w)
  OBVIOUS
<1>1. pc[w] = "idle" /\ loc[w].values = EmptyMap
  BY DEF Init, NoLocals
<1>2. Injected(w) = {} /\ Checked(w) = {}
  BY <1>1 DEF Injected, EmptyMap, Checked
<1> QED
  BY <1>1, <1>2 DEF ValuesOK, ChecksOK

(* With one caller, every check a request has passed would pass again      *)
(* until its uses are counted, check_policy agrees with it, and the values *)
(* it carries are the ones in the vault.                                   *)
THEOREM ChecksStillHold ==
  ASSUME NEW w, Callers = {w}
  PROVE  Spec => []CheckedStillHolds
<1>1. TypeInv /\ ValuesOK(w) /\ ChecksOK(w) => CheckedStillHolds
  <2> SUFFICES ASSUME TypeInv, ValuesOK(w), ChecksOK(w)
               PROVE  CheckedStillHolds
    OBVIOUS
  <2>1. TypeOK /\ w \in Callers /\ \A c \in Callers : c = w
    BY DEF TypeInv
  <2>2. Checked(w) \subseteq SecretNames
    <3>1. CASE pc[w] = "idle"
      BY <2>1, <3>1, CheckedSets
    <3>2. CASE pc[w] = "check"
      BY <2>1, <3>2, CheckedSets, NamesType DEF Before, TypeInv, CallOK
    <3>3. CASE pc[w] \in {"retrieve", "send", "record"}
      BY <2>1, <3>3, CheckedSets, NamesType
    <3> QED
      BY <2>1, <3>1, <3>2, <3>3 DEF TypeOK
  <2>3. ASSUME NEW n \in Checked(w)
        PROVE  /\ engine # None
               /\ check_secret_usage(engine, n, loc[w].template.url)
               /\ check_use_secret(engine.policy, n, loc[w].template.url)
    <3>1. /\ engine \in Engine /\ engine # None /\ n \in SecretNames
          /\ check_secret_usage(engine, n, loc[w].template.url)
      BY <2>1, <2>2, <2>3 DEF ChecksOK, TypeOK
    <3> QED
      BY <3>1, QueryAgrees
  <2> QED
    BY <2>1, <2>3 DEF CheckedStillHolds, ValuesOK
<1>2. TypeInv /\ ValuesOK(w) /\ [Next]_vars => ValuesOK(w)'
  BY ValuesStep
<1>3. TypeInv /\ ChecksOK(w) /\ [Next]_vars => ChecksOK(w)'
  BY ChecksStep
<1>4. Init => ValuesOK(w) /\ ChecksOK(w)
  BY CallStart
<1> QED
  BY <1>1, <1>2, <1>3, <1>4, TypeInit, TypeStep, PTL DEF Spec

-----------------------------------------------------------------------------
(* Counting a use that its check allows stays within positive limits.      *)
LEMMA UseWithin ==
  ASSUME NEW e \in Engine, NEW t \in Nat, NEW n \in SecretNames, NEW url,
         check_secret_usage(e, n, url),
         e.policy.secrets[n] # None,
         e.policy.secrets[n].rate_limit >= 1,
         e.policy.secrets[n].daily_limit >= 1
  PROVE  LET r == record_secret_usage(e, n, t).secret_usage[n]
         IN  /\ r.calls_this_minute <= e.policy.secrets[n].rate_limit
             /\ r.calls_today <= e.policy.secrets[n].daily_limit
<1> DEFINE p == e.policy.secrets[n]
           u == e.secret_usage[n]
           r == record_secret_usage(e, n, t).secret_usage[n]
<1>1. p \in SecretPolicy /\ u \in SecretUsage \cup {None}
  BY UsageType DEF Engine, Policy, HashMap
<1>2. CASE u = None
  <2>1. r.calls_this_minute = 0 + 1 /\ r.calls_today = 0 + 1
    BY <1>2, RecordUse DEF NewUsage
  <2> QED
    BY <1>1, <2>1 DEF SecretPolicy
<1>3. CASE u # None
  <2>1. /\ r.calls_this_minute = u.calls_this_minute + 1
        /\ r.calls_today = u.calls_today + 1
    BY <1>3, RecordUse
  <2>2. /\ u.calls_this_minute < p.rate_limit
        /\ u.calls_today < p.daily_limit
    BY <1>3 DEF check_secret_usage
  <2> QED
    BY <1>1, <1>3, <2>1, <2>2 DEF SecretPolicy, SecretUsage
<1> QED
  BY <1>2, <1>3

(* With one caller, no counted use takes a secret over its positive        *)
(* limits.                                                                 *)
THEOREM UsesStayWithin ==
  ASSUME NEW w, Callers = {w}
  PROVE  Spec => UseWithinLimits
<1>1. TypeInv /\ ChecksOK(w) /\ [Next]_vars
        => [\A c \in Callers : Record(c) => UsesWithin(c, 1)]_vars
  <2> SUFFICES ASSUME TypeInv, ChecksOK(w), Record(w)
               PROVE  UsesWithin(w, 1)
    OBVIOUS
  <2>1. /\ TypeOK /\ w \in Callers /\ pc[w] = "record"
        /\ Used(w) \subseteq SecretNames /\ loc[w].now \in Nat
    BY NamesType DEF TypeInv, Record, Locals
  <2>2. Checked(w) = Used(w)
    BY <2>1, CheckedSets
  <2> SUFFICES ASSUME NEW n \in Used(w),
                      engine'.policy.secrets[n] # None,
                      engine'.policy.secrets[n].rate_limit >= 1,
                      engine'.policy.secrets[n].daily_limit >= 1
               PROVE  /\ engine'.secret_usage[n].calls_this_minute
                            <= engine'.policy.secrets[n].rate_limit
                      /\ engine'.secret_usage[n].calls_today
                            <= engine'.policy.secrets[n].daily_limit
    BY DEF UsesWithin
  <2>3. /\ engine \in Engine /\ Locked = engine /\ n \in SecretNames
        /\ check_secret_usage(engine, n, loc[w].template.url)
    BY <2>1, <2>2, LockedType DEF ChecksOK, TypeOK
  <2>4. /\ engine'.policy = engine.policy
        /\ engine'.secret_usage[n] =
              record_secret_usage(engine, n, loc[w].now).secret_usage[n]
    BY <2>1, <2>3, RecordEffect
  <2>5. PICK e \in Engine, t \in Nat, url \in {loc[w].template.url} :
          e = engine /\ t = loc[w].now
    BY <2>1, <2>3
  <2>6. /\ check_secret_usage(e, n, url) /\ e.policy.secrets[n] # None
        /\ e.policy.secrets[n].rate_limit >= 1
        /\ e.policy.secrets[n].daily_limit >= 1
    BY <2>3, <2>4, <2>5
  <2>7. /\ record_secret_usage(e, n, t).secret_usage[n].calls_this_minute
              <= e.policy.secrets[n].rate_limit
        /\ record_secret_usage(e, n, t).secret_usage[n].calls_today
              <= e.policy.secrets[n].daily_limit
    BY <2>3, <2>6, UseWithin
  <2> QED
    BY <2>4, <2>5, <2>7
<1>2. TypeInv /\ ChecksOK(w) /\ [Next]_vars => ChecksOK(w)'
  BY ChecksStep
<1>3. Init => ChecksOK(w)
  BY CallStart
<1> QED
  BY <1>1, <1>2, <1>3, TypeInit, TypeStep, PTL DEF Spec, UseWithinLimits

-----------------------------------------------------------------------------
(* The counters and the history of requests.                               *)

(* The requests in history s counted for secret n, and those since t.      *)
Counted(s, n) == {i \in DOMAIN s : s[i].counted /\ n \in s[i].names}

Since(s, n, t) == {i \in Counted(s, n) : s[i].now >= t}

(* The usage entry u of secret n agrees with history s: it counts the      *)
(* requests since its windows opened, they opened no later than t, and no  *)
(* counted request is past their end.                                      *)
UsageOK(s, n, u, t) ==
    IF u = None THEN Counted(s, n) = {}
    ELSE /\ u.calls_this_minute = Cardinality(Since(s, n, u.last_minute_reset))
         /\ u.calls_today = Cardinality(Since(s, n, u.last_day_reset))
         /\ u.last_minute_reset <= t /\ u.last_day_reset <= t
         /\ \A i \in Counted(s, n) : /\ s[i].now < u.last_minute_reset + MINUTE
                                     /\ s[i].now < u.last_day_reset + DAY

LEMMA HistoryType ==
  ASSUME NEW s \in Seq(Request)
  PROVE  /\ \A i \in DOMAIN s : s[i] \in Request /\ s[i].now \in Nat
         /\ \A n, t : IsFiniteSet(Since(s, n, t))
<1>1. DOMAIN s = 1 .. Len(s) /\ Len(s) \in Nat
      /\ \A i \in DOMAIN s : s[i] \in Request
  OBVIOUS
<1>2. IsFiniteSet(1 .. Len(s))
  BY <1>1, FS_Interval
<1>3. \A n, t : Since(s, n, t) \subseteq 1 .. Len(s)
  BY <1>1 DEF Since, Counted
<1>4. \A n, t : IsFiniteSet(Since(s, n, t))
  BY <1>2, <1>3, FS_Subset
<1> QED
  BY <1>1, <1>4 DEF Request

LEMMA UsageLater ==
  ASSUME NEW s, NEW n, NEW u \in SecretUsage \cup {None},
         NEW t1 \in Nat, NEW t2 \in Nat, t1 <= t2, UsageOK(s, n, u, t1)
  PROVE  UsageOK(s, n, u, t2)
<1>1. CASE u = None
  BY <1>1 DEF UsageOK
<1>2. CASE u # None
  <2>1. /\ u.last_minute_reset \in Nat /\ u.last_day_reset \in Nat
        /\ u.last_minute_reset <= t1 /\ u.last_day_reset <= t1
    BY <1>2 DEF UsageOK, SecretUsage
  <2>2. u.last_minute_reset <= t2 /\ u.last_day_reset <= t2
    BY <2>1
  <2> QED
    BY <1>2, <2>2 DEF UsageOK
<1> QED
  BY <1>1, <1>2

(* A reset keeps the agreement: no counted request is in a window that it  *)
(* opens.                                                                  *)
LEMMA ResetKeepsCount ==
  ASSUME NEW s \in Seq(Request), NEW n, NEW u \in SecretUsage \cup {None},
         NEW t1 \in Nat, NEW t2 \in Nat, t1 <= t2, UsageOK(s, n, u, t1)
  PROVE  UsageOK(s, n, ResetUsage(u, t2), t2)
<1>1. CASE u = None
  BY <1>1 DEF UsageOK, ResetUsage
<1>2. CASE u # None
  <2>0. PICK r : r = ResetUsage(u, t2)
    OBVIOUS
  <2>1. /\ r \in SecretUsage /\ r # None
        /\ \/ /\ r.last_minute_reset = u.last_minute_reset
              /\ r.calls_this_minute = u.calls_this_minute
           \/ /\ r.last_minute_reset = t2
              /\ r.calls_this_minute = 0
              /\ t2 >= u.last_minute_reset + MINUTE
        /\ \/ /\ r.last_day_reset = u.last_day_reset
              /\ r.calls_today = u.calls_today
           \/ /\ r.last_day_reset = t2
              /\ r.calls_today = 0
              /\ t2 >= u.last_day_reset + DAY
    BY <1>2, <2>0, ResetUsageWindow
  <2>2. /\ u.last_minute_reset \in Nat /\ u.last_day_reset \in Nat
        /\ MINUTE \in Nat \ {0} /\ DAY \in Nat \ {0}
    BY <1>2, WindowAssumption DEF SecretUsage
  <2>3. \A i \in Counted(s, n) : s[i].now \in Nat
    BY HistoryType DEF Counted
  <2>4. /\ u.calls_this_minute = Cardinality(Since(s, n, u.last_minute_reset))
        /\ u.calls_today = Cardinality(Since(s, n, u.last_day_reset))
        /\ u.last_minute_reset <= t1 /\ u.last_day_reset <= t1
        /\ \A i \in Counted(s, n) : /\ s[i].now < u.last_minute_reset + MINUTE
                                    /\ s[i].now < u.last_day_reset + DAY
    BY <1>2 DEF UsageOK
  <2>5. /\ r.calls_this_minute = Cardinality(Since(s, n, r.last_minute_reset))
        /\ r.last_minute_reset <= t2
        /\ \A i \in Counted(s, n) : s[i].now < r.last_minute_reset + MINUTE
    <3>1. CASE /\ r.last_minute_reset = u.last_minute_reset
               /\ r.calls_this_minute = u.calls_this_minute
      BY <2>2, <2>4, <3>1
    <3>2. CASE /\ r.last_minute_reset = t2 /\ r.calls_this_minute = 0
               /\ t2 >= u.last_minute_reset + MINUTE
      <4>1. \A i \in Counted(s, n) : s[i].now < t2 /\ s[i].now < t2 + MINUTE
        BY <2>2, <2>3, <2>4, <3>2
      <4>2. Since(s, n, t2) = {}
        BY <2>3, <4>1 DEF Since
      <4>3. Cardinality(Since(s, n, t2)) = 0
        BY <4>2, FS_EmptySet
      <4> QED
        BY <3>2, <4>1, <4>3
    <3> QED
      BY <2>1, <3>1, <3>2
  <2>6. /\ r.calls_today = Cardinality(Since(s, n, r.last_day_reset))
        /\ r.last_day_reset <= t2
        /\ \A i \in Counted(s, n) : s[i].now < r.last_day_reset + DAY
    <3>1. CASE /\ r.last_day_reset = u.last_day_reset
               /\ r.calls_today = u.calls_today
      BY <2>2, <2>4, <3>1
    <3>2. CASE /\ r.last_day_reset = t2 /\ r.calls_today = 0
               /\ t2 >= u.last_day_reset + DAY
      <4>1. \A i \in Counted(s, n) : s[i].now < t2 /\ s[i].now < t2 + DAY
        BY <2>2, <2>3, <2>4, <3>2
      <4>2. Since(s, n, t2) = {}
        BY <2>3, <4>1 DEF Since
      <4>3. Cardinality(Since(s, n, t2)) = 0
        BY <4>2, FS_EmptySet
      <4> QED
        BY <3>2, <4>1, <4>3
    <3> QED
      BY <2>1, <3>1, <3>2
  <2> QED
    BY <2>0, <2>1, <2>5, <2>6 DEF UsageOK
<1> QED
  BY <1>1, <1>2

(* A request that is sent, and not counted yet, changes no count.          *)
LEMMA SentKeepsCount ==
  ASSUME NEW s, NEW s2, NEW k, NEW n, NEW u, NEW t,
         DOMAIN s2 = DOMAIN s \cup {k}, s2[k].counted = FALSE,
         k \notin DOMAIN s, \A i \in DOMAIN s : s2[i] = s[i],
         UsageOK(s, n, u, t)
  PROVE  UsageOK(s2, n, u, t)
<1>1. Counted(s2, n) = Counted(s, n)
  BY DEF Counted
<1>2. \A i \in Counted(s, n) : s2[i] = s[i]
  BY DEF Counted
<1>3. \A x : Since(s2, n, x) = Since(s, n, x)
  BY <1>1, <1>2 DEF Since
<1> QED
  BY <1>1, <1>2, <1>3 DEF UsageOK

(* History s2 differs from s in that request k is counted.                 *)
NowCounted(s, s2, k) ==
    /\ DOMAIN s2 = DOMAIN s
    /\ s[k].counted = FALSE /\ s2[k].counted = TRUE
    /\ \A i \in DOMAIN s : /\ s2[i].names = s[i].names
                           /\ s2[i].now = s[i].now
                           /\ i # k => s2[i] = s[i]

(* Counting request k leaves alone the secrets it did not use.             *)
LEMMA OtherUse ==
  ASSUME NEW s, NEW k, NEW s2, NEW n,
         NowCounted(s, s2, k), n \notin s[k].names
  PROVE  /\ Counted(s2, n) = Counted(s, n)
         /\ \A x : Since(s2, n, x) = Since(s, n, x)
<1>1. Counted(s2, n) = Counted(s, n)
  BY DEF Counted, NowCounted
<1>2. \A i \in Counted(s, n) : s2[i].now = s[i].now
  BY DEF Counted, NowCounted
<1> QED
  BY <1>1, <1>2 DEF Since

(* Counting request k adds one to the count of every secret it used, for   *)
(* each window that it is in.                                              *)
LEMMA CountedUse ==
  ASSUME NEW s \in Seq(Request), NEW k \in DOMAIN s, NEW s2, NEW n,
         NowCounted(s, s2, k), n \in s[k].names
  PROVE  /\ Counted(s2, n) = Counted(s, n) \cup {k}
         /\ \A x \in Nat : x <= s[k].now =>
               Cardinality(Since(s2, n, x)) = Cardinality(Since(s, n, x)) + 1
<1>1. Counted(s2, n) = Counted(s, n) \cup {k}
  BY DEF Counted, NowCounted
<1>2. ASSUME NEW x \in Nat, x <= s[k].now
      PROVE  Cardinality(Since(s2, n, x)) = Cardinality(Since(s, n, x)) + 1
  <2>1. s[k].now \in Nat /\ \A i \in DOMAIN s : s[i].now \in Nat
    BY HistoryType
  <2>2. \A i \in Counted(s2, n) : s2[i].now = s[i].now
    BY <1>1 DEF Counted, NowCounted
  <2>3. Since(s2, n, x) = Since(s, n, x) \cup {k}
    BY <1>1, <1>2, <2>1, <2>2 DEF Since
  <2>4. k \notin Since(s, n, x)
    BY DEF Since, Counted, NowCounted
  <2> QED
    BY <2>3, <2>4, HistoryType, FS_AddElement
<1> QED
  BY <1>1, <1>2

-----------------------------------------------------------------------------
(* The usage entry of a secret, and the time the last reset may have been  *)
(* made for: a call in progress works with the time it began at.           *)
Usage(n) == IF engine = None THEN None ELSE engine.secret_usage[n]

At(c) == IF pc[c] = "idle" THEN now ELSE loc[c].now

(* t is inside the windows of u.                                           *)
Open(u, t) ==
    u # None => t < u.last_minute_reset + MINUTE /\ t < u.last_day_reset + DAY

CountsOK(c) ==
    /\ \A n \in SecretNames : UsageOK(sent, n, Usage(n), At(c))
    /\ At(c) <= now
    /\ Checked(c) # {} => \A n \in SecretNames : Open(Usage(n), loc[c].now)
    /\ pc[c] = "record" => /\ sent[loc[c].req].counted = FALSE
                           /\ sent[loc[c].req].names = Used(c)
                           /\ sent[loc[c].req].now = loc[c].now

LEMMA LockedUsage ==
  ASSUME TypeOK, NEW n \in SecretNames
  PROVE  /\ Locked.secret_usage[n] = Usage(n)
         /\ Usage(n) \in SecretUsage \cup {None}
<1>1. CASE engine = None
  BY <1>1 DEF Locked, Usage, NewEngine, EmptyMap
<1>2. CASE engine # None
  <2>1. engine \in Engine /\ Locked = engine
    BY <1>2 DEF TypeOK, Locked
  <2> QED
    BY <1>2, <2>1, UsageType DEF Usage
<1> QED
  BY <1>1, <1>2

(* What the locked section of a step does to the usage entries.            *)
LEMMA UsageReset ==
  ASSUME TypeOK, NEW t \in Nat, engine' = reset_if_needed(Locked, t),
         NEW n \in SecretNames
  PROVE  Usage(n)' = ResetUsage(Usage(n), t)
<1>1. Locked \in Engine /\ Locked.secret_usage[n] = Usage(n)
  BY LockedType, LockedUsage
<1>2. PICK e \in Engine : e = Locked
  BY <1>1
<1>3. reset_if_needed(e, t) \in Engine /\ reset_if_needed(e, t) # None
  BY ResetType, NoneAssumption
<1>4. reset_if_needed(e, t).secret_usage[n] = ResetUsage(e.secret_usage[n], t)
  BY ResetUsageOf
<1>5. engine' = reset_if_needed(e, t)
  BY <1>2
<1>6. Usage(n)' = engine'.secret_usage[n]
  BY <1>3, <1>5 DEF Usage
<1> QED
  BY <1>1, <1>2, <1>4, <1>5, <1>6

(* A reset for the time of the call, or for now when no call is under way. *)
LEMMA ResetKeepsCounts ==
  ASSUME TypeOK, NEW c \in Callers, CountsOK(c), UNCHANGED sent,
         engine' = reset_if_needed(Locked, At(c))
  PROVE  \A n \in SecretNames : /\ UsageOK(sent, n, Usage(n)', At(c))
                                /\ Open(Usage(n)', At(c))
<1>0. At(c) \in Nat /\ sent \in Seq(Request)
  BY DEF TypeOK, At, Locals
<1> SUFFICES ASSUME NEW n \in SecretNames
             PROVE  /\ UsageOK(sent, n, Usage(n)', At(c))
                    /\ Open(Usage(n)', At(c))
  OBVIOUS
<1>1. PICK u \in SecretUsage \cup {None}, t \in Nat, s \in Seq(Request) :
        u = Usage(n) /\ t = At(c) /\ s = sent
  BY <1>0, LockedUsage
<1>2. Usage(n)' = ResetUsage(u, t)
  BY <1>1, UsageReset
<1>3. UsageOK(s, n, u, t) /\ t <= t
  BY <1>1 DEF CountsOK
<1>4. UsageOK(s, n, ResetUsage(u, t), t)
  BY <1>3, ResetKeepsCount
<1>5. Open(ResetUsage(u, t), t)
  <2>1. CASE u = None
    BY <2>1 DEF Open, ResetUsage
  <2>2. CASE u # None
    <3>1. u \in SecretUsage
      BY <2>2
    <3>2. /\ t < ResetUsage(u, t).last_minute_reset + MINUTE
          /\ t < ResetUsage(u, t).last_day_reset + DAY
      BY <3>1, ResetUsageWindow
    <3> QED
      BY <3>2 DEF Open
  <2> QED
    BY <2>1, <2>2
<1> QED
  BY <1>1, <1>2, <1>4, <1>5

(* The end of a call: the time of the last reset is not after now.         *)
LEMMA ReturnKeepsCounts ==
  ASSUME TypeOK, NEW c \in Callers, Return(c), UNCHANGED now,
         At(c) <= now,
         \A n \in SecretNames : /\ Usage(n)' \in SecretUsage \cup {None}
                                /\ UsageOK(sent', n, Usage(n)', At(c))
  PROVE  CountsOK(c)'
<1>1. pc'[c] = "idle" /\ now \in Nat /\ now' = now /\ At(c) \in Nat
  BY ReturnEffect DEF TypeOK, At, Locals
<1>2. At(c)' = now /\ Checked(c)' = {}
  BY <1>1 DEF At, Checked
<1>3. ASSUME NEW n \in SecretNames
      PROVE  UsageOK(sent', n, Usage(n)', now)
  <2>0. Usage(n)' \in SecretUsage \cup {None}
    OBVIOUS
  <2>1. PICK u \in SecretUsage \cup {None}, t1 \in Nat, t2 \in Nat,
             s \in {sent'} : u = Usage(n)' /\ t1 = At(c) /\ t2 = now
    BY <1>1, <2>0, Zenon
  <2>2. UsageOK(s, n, u, t1) /\ t1 <= t2
    BY <2>1
  <2>3. UsageOK(s, n, u, t2)
    BY <2>2, UsageLater
  <2> QED
    BY <2>1, <2>3
<1> QED
  BY <1>1, <1>2, <1>3 DEF CountsOK

(* Counting the uses of the request that the caller has sent.              *)
LEMMA RecordKeepsCounts ==
  ASSUME TypeInv, NEW c \in Callers, CountsOK(c), Record(c),
         NEW n \in SecretNames
  PROVE  UsageOK(sent', n, Usage(n)', loc[c].now)
<1>1. /\ TypeOK /\ pc[c] = "record" /\ Used(c) \subseteq SecretNames
      /\ Locked \in Engine /\ loc[c].now \in Nat
  BY NamesType, LockedType DEF TypeInv, Record, Locals
<1>2. /\ sent[loc[c].req].counted = FALSE
      /\ sent[loc[c].req].names = Used(c)
      /\ sent[loc[c].req].now = loc[c].now
  BY <1>1 DEF CountsOK
<1>3. PICK s \in Seq(Request), s2 \in Seq(Request), k \in DOMAIN sent,
           t \in Nat, e \in Engine, u \in SecretUsage \cup {None} :
        /\ s = sent /\ s2 = sent' /\ k = loc[c].req /\ t = loc[c].now
        /\ e = Locked /\ u = Usage(n)
  <2>1. sent \in Seq(Request) /\ sent' \in Seq(Request)
        /\ loc[c].req \in DOMAIN sent
    BY <1>1, RecordEffect DEF TypeOK
  <2>2. Usage(n) \in SecretUsage \cup {None}
    BY <1>1, LockedUsage
  <2> QED
    BY <1>1, <2>1, <2>2, Zenon
<1>4. /\ DOMAIN s2 = DOMAIN s /\ k \in DOMAIN s
      /\ s[k].counted = FALSE /\ s2[k].counted = TRUE
      /\ \A i \in DOMAIN s : /\ s2[i].names = s[i].names
                             /\ s2[i].now = s[i].now
                             /\ i # k => s2[i] = s[i]
  BY <1>2, <1>3, RecordEffect
<1>5. NowCounted(s, s2, k) /\ s \in Seq(Request) /\ k \in DOMAIN s
  BY <1>3, <1>4, Zenon DEF NowCounted
<1>6. /\ s[k].names = Used(c) /\ s[k].now = t /\ s2[k].now = t
      /\ \A i \in DOMAIN s : s[i].now \in Nat /\ s2[i].now = s[i].now
      /\ e.secret_usage[n] = u
      /\ UsageOK(s, n, u, t)
      /\ n \in Used(c) => Open(u, t)
  <2>1. UsageOK(sent, n, Usage(n), loc[c].now)
    BY <1>1 DEF CountsOK, At
  <2>2. n \in Used(c) => Open(Usage(n), loc[c].now)
    BY <1>1, CheckedSets DEF CountsOK
  <2> QED
    BY <1>1, <1>2, <1>3, <1>4, <2>1, <2>2, LockedUsage, HistoryType
<1>7. Usage(n)' = IF n \in Used(c)
                  THEN record_secret_usage(e, n, t).secret_usage[n] ELSE u
  <2>1. engine' \in Engine /\ engine' # None
    BY RecordEffect, NoneAssumption
  <2>2. Usage(n)' = engine'.secret_usage[n]
    BY <2>1 DEF Usage
  <2>3. engine'.secret_usage[n] =
               IF n \in Used(c)
               THEN record_secret_usage(Locked, n, loc[c].now).secret_usage[n]
               ELSE Locked.secret_usage[n]
    BY RecordEffect
  <2> QED
    BY <1>3, <1>6, <2>2, <2>3
<1>8. CASE n \notin Used(c)
  <2>1. \A i \in Counted(s, n) : s2[i].now = s[i].now
    BY <1>6 DEF Counted
  <2>2. n \notin s[k].names
    BY <1>6, <1>8
  <2>3. /\ Counted(s2, n) = Counted(s, n)
        /\ \A x : Since(s2, n, x) = Since(s, n, x)
    BY <1>5, <2>2, OtherUse
  <2>4. UsageOK(s2, n, u, t)
    BY <1>6, <2>1, <2>3 DEF UsageOK
  <2> QED
    BY <1>3, <1>7, <1>8, <2>4
<1>9. CASE n \in Used(c)
  <2>1. PICK v, r : /\ v = (IF u = None THEN NewUsage(t) ELSE u)
                    /\ r = record_secret_usage(e, n, t).secret_usage[n]
    OBVIOUS
  <2>2. /\ v \in SecretUsage /\ r \in SecretUsage
        /\ r.calls_this_minute = v.calls_this_minute + 1
        /\ r.calls_today = v.calls_today + 1
        /\ r.last_minute_reset = v.last_minute_reset
        /\ r.last_day_reset = v.last_day_reset
    BY <1>6, <2>1, RecordUse
  <2>3. /\ v.calls_this_minute = Cardinality(Since(s, n, v.last_minute_reset))
        /\ v.calls_today = Cardinality(Since(s, n, v.last_day_reset))
        /\ v.last_minute_reset <= t /\ v.last_day_reset <= t
        /\ t < v.last_minute_reset + MINUTE /\ t < v.last_day_reset + DAY
        /\ \A i \in Counted(s, n) : /\ s[i].now < v.last_minute_reset + MINUTE
                                    /\ s[i].now < v.last_day_reset + DAY
    <3>1. CASE u = None
      <4>1. v.calls_this_minute = 0 /\ v.calls_today = 0
            /\ v.last_minute_reset = t /\ v.last_day_reset = t
        BY <2>1, <3>1 DEF NewUsage
      <4>2. Counted(s, n) = {}
        BY <1>6, <3>1 DEF UsageOK
      <4>3. \A x : Since(s, n, x) = {}
        BY <4>2 DEF Since
      <4>4. \A x : Cardinality(Since(s, n, x)) = 0
        BY <4>3, FS_EmptySet
      <4> QED
        BY <4>1, <4>2, <4>4, WindowAssumption
    <3>2. CASE u # None
      BY <1>6, <1>9, <2>1, <3>2 DEF UsageOK, Open
    <3> QED
      BY <3>1, <3>2
  <2>4. /\ v.last_minute_reset \in Nat /\ v.last_day_reset \in Nat
    BY <2>2 DEF SecretUsage
  <2>5. n \in s[k].names
    BY <1>6, <1>9
  <2>6. /\ Counted(s2, n) = Counted(s, n) \cup {k}
        /\ \A x \in Nat : x <= s[k].now =>
               Cardinality(Since(s2, n, x)) = Cardinality(Since(s, n, x)) + 1
    BY <1>5, <2>5, CountedUse
  <2>7. /\ r.calls_this_minute = Cardinality(Since(s2, n, r.last_minute_reset))
        /\ r.calls_today = Cardinality(Since(s2, n, r.last_day_reset))
    BY <1>6, <2>2, <2>3, <2>4, <2>6
  <2>8. \A i \in Counted(s2, n) : /\ s2[i].now < r.last_minute_reset + MINUTE
                                  /\ s2[i].now < r.last_day_reset + DAY
    <3>1. ASSUME NEW i \in Counted(s2, n)
          PROVE  s2[i].now < v.last_minute_reset + MINUTE
                 /\ s2[i].now < v.last_day_reset + DAY
      <4>1. i = k \/ (i \in Counted(s, n) /\ s2[i].now = s[i].now)
        BY <1>6, <2>6, <3>1 DEF Counted
      <4> QED
        BY <1>6, <2>3, <4>1
    <3> QED
      BY <2>2, <3>1
  <2>9. r # None
    BY <2>2, NoneAssumption
  <2>10. UsageOK(s2, n, r, t)
    BY <2>2, <2>3, <2>7, <2>8, <2>9 DEF UsageOK
  <2> QED
    BY <1>3, <1>7, <1>9, <2>1, <2>10
<1> QED
  BY <1>8, <1>9

LEMMA CountsStep ==
  ASSUME NEW w, Callers = {w}
  PROVE  TypeInv /\ CountsOK(w) /\ [Next]_vars => CountsOK(w)'
<1> SUFFICES ASSUME TypeInv, CountsOK(w), [Next]_vars PROVE CountsOK(w)'
  OBVIOUS
<1>0. /\ TypeOK /\ w \in Callers /\ \A c \in Callers : c = w
      /\ TypeOK' /\ now \in Nat /\ loc[w].now \in Nat /\ At(w) \in Nat
  BY TypeStep DEF TypeInv, TypeOK, Locals, At
<1>1. \A n \in SecretNames : /\ Usage(n) \in SecretUsage \cup {None}
                             /\ Usage(n)' \in SecretUsage \cup {None}
  <2>1. \A n \in SecretNames : Usage(n) \in SecretUsage \cup {None}
    BY <1>0, LockedUsage
  <2>2. ASSUME NEW n \in SecretNames
        PROVE  Usage(n)' \in SecretUsage \cup {None}
    <3>1. engine' \in Engine \cup {None}
      BY <1>0 DEF TypeOK
    <3> QED
      BY <3>1 DEF Usage, Engine, HashMap
  <2> QED
    BY <2>1, <2>2
<1>2. ASSUME UNCHANGED <<pc, loc, sent>>, now' \in Nat, now <= now',
             \A n \in SecretNames : Usage(n)' = Usage(n)
      PROVE  CountsOK(w)'
  <2>1. At(w) <= At(w)' /\ At(w)' \in Nat /\ At(w)' <= now'
    BY <1>0, <1>2 DEF At, CountsOK
  <2>2. Checked(w)' = Checked(w) /\ Used(w)' = Used(w)
    BY <1>2 DEF Checked, Used
  <2>3. ASSUME NEW n \in SecretNames
        PROVE  UsageOK(sent', n, Usage(n)', At(w)')
    <3>1. PICK u \in SecretUsage \cup {None}, t1 \in Nat, t2 \in Nat,
               s \in {sent} : u = Usage(n) /\ t1 = At(w) /\ t2 = At(w)'
      BY <1>0, <1>1, <2>1, Zenon
    <3>2. UsageOK(s, n, u, t1) /\ t1 <= t2
      BY <2>1, <3>1 DEF CountsOK
    <3>3. UsageOK(s, n, u, t2)
      BY <3>2, UsageLater
    <3> QED
      BY <1>2, <3>1, <3>3
  <2> QED
    BY <1>2, <2>1, <2>2, <2>3 DEF CountsOK
<1>3. ASSUME Return(w), UNCHANGED <<now, engine, sent>> PROVE CountsOK(w)'
  <2>1. \A n \in SecretNames : Usage(n)' = Usage(n)
    BY <1>3 DEF Usage
  <2>2. \A n \in SecretNames : UsageOK(sent', n, Usage(n)', At(w))
    BY <1>3, <2>1 DEF CountsOK
  <2> QED
    BY <1>0, <1>1, <1>3, <2>2, ReturnKeepsCounts DEF CountsOK
<1>4. CASE SetPolicy(w)
  <2>1. PICK p \in Policies : engine' = set_policy(Locked, p)
    BY <1>4 DEF SetPolicy
  <2>2. Locked \in Engine /\ p \in Policy
    BY <1>0, LockedType, RequestAssumption
  <2>3. engine' # None /\ engine'.secret_usage = Locked.secret_usage
    <3>1. PICK e \in Engine : e = Locked
      BY <2>2
    <3>2. /\ set_policy(e, p) \in Engine
          /\ set_policy(e, p).secret_usage = e.secret_usage
      BY <2>2, SetPolicyType DEF set_policy, Engine
    <3> QED
      BY <2>1, <3>1, <3>2, NoneAssumption
  <2>4. \A n \in SecretNames : Usage(n)' = Usage(n)
    BY <1>0, <2>3, LockedUsage DEF Usage
  <2>5. UNCHANGED <<pc, loc, sent>> /\ now' = now
    BY <1>4 DEF SetPolicy
  <2> QED
    BY <1>0, <1>2, <2>4, <2>5
<1>5. CASE GetSpendingSummary(w)
  <2>1. /\ pc[w] = "idle" /\ pc' = pc /\ UNCHANGED <<sent, now>>
        /\ engine' = reset_if_needed(Locked, now)
    BY <1>5 DEF GetSpendingSummary
  <2>2. At(w) = now /\ At(w)' = now /\ Checked(w)' = {}
    BY <2>1 DEF At, Checked
  <2>3. \A n \in SecretNames : UsageOK(sent, n, Usage(n)', At(w))
    BY <1>0, <2>1, <2>2, ResetKeepsCounts
  <2>4. \A n \in SecretNames : UsageOK(sent', n, Usage(n)', At(w)')
    BY <2>1, <2>2, <2>3
  <2> QED
    BY <1>0, <2>1, <2>2, <2>4 DEF CountsOK
<1>6. CASE Begin(w)
  <2>1. /\ pc[w] = "idle" /\ loc'[w].now = now /\ loc'[w].i = 1
        /\ \/ pc'[w] = "check"
           \/ pc'[w] = "send" /\ loc'[w].template.placeholders = <<>>
        /\ UNCHANGED <<now, engine, sent>>
    BY <1>0, <1>6, BeginEffect
  <2>2. At(w)' = At(w) /\ At(w) = now
    BY <2>1 DEF At
  <2>3. Checked(w)' = {}
    <3>1. 1 .. 1 - 1 = {}
      OBVIOUS
    <3> QED
      BY <2>1, <3>1 DEF Checked, Used
  <2>4. \A n \in SecretNames : Usage(n)' = Usage(n)
    BY <2>1 DEF Usage
  <2>5. \A n \in SecretNames : UsageOK(sent', n, Usage(n)', At(w)')
    BY <2>1, <2>2, <2>4 DEF CountsOK
  <2> QED
    BY <1>0, <2>1, <2>2, <2>3, <2>5 DEF CountsOK
<1>7. CASE CheckUsage(w)
  <2>1. /\ pc[w] = "check" /\ loc[w] \in Locals /\ UNCHANGED <<sent, now>>
        /\ engine' = reset_if_needed(Locked, loc[w].now)
        /\ Return(w) \/ NextPlaceholder(w, "retrieve", loc[w])
    BY <1>0, <1>7 DEF CheckUsage, TypeOK
  <2>2. At(w) = loc[w].now
    BY <2>1 DEF At
  <2>3. \A n \in SecretNames : /\ UsageOK(sent, n, Usage(n)', At(w))
                               /\ Open(Usage(n)', At(w))
    BY <1>0, <2>1, <2>2, ResetKeepsCounts
  <2>4. \A n \in SecretNames : UsageOK(sent', n, Usage(n)', At(w))
    BY <2>1, <2>3
  <2>5. CASE Return(w)
    BY <1>0, <1>1, <2>1, <2>4, <2>5, ReturnKeepsCounts DEF CountsOK
  <2>6. CASE NextPlaceholder(w, "retrieve", loc[w])
    <3>1. loc'[w].now = loc[w].now /\ pc'[w] \in {"check", "retrieve"}
      BY <1>0, <2>1, <2>6, TurnEffect
    <3>2. At(w)' = At(w) /\ loc'[w].now = At(w)
      BY <2>2, <3>1 DEF At
    <3>3. At(w)' <= now'
      BY <2>1, <3>2 DEF CountsOK
    <3>4. \A n \in SecretNames : /\ UsageOK(sent', n, Usage(n)', At(w)')
                                 /\ Open(Usage(n)', loc'[w].now)
      BY <2>3, <2>4, <3>2
    <3> QED
      BY <3>1, <3>3, <3>4 DEF CountsOK
  <2> QED
    BY <2>1, <2>5, <2>6
<1>8. CASE RetrieveSecret(w) /\ ~Return(w)
  <2>1. /\ pc[w] = "retrieve" /\ UNCHANGED <<now, engine, sent>>
        /\ secrets[placeholder(w)] \in Utf8
        /\ NextPlaceholder(w, "send", WithValue(w))
    BY <1>8 DEF RetrieveSecret
  <2>2. /\ loc'[w].now = loc[w].now /\ loc'[w].template = loc[w].template
        /\ pc'[w] \in {"retrieve", "send"}
    BY <1>0, <2>1, WithValueEffect, TurnEffect
  <2>3. At(w)' = At(w) /\ Checked(w)' = Checked(w)
    BY <2>1, <2>2 DEF At, Checked, Used
  <2>4. \A n \in SecretNames : Usage(n)' = Usage(n)
    BY <2>1 DEF Usage
  <2>5. \A n \in SecretNames : UsageOK(sent', n, Usage(n)', At(w)')
    BY <2>1, <2>3, <2>4 DEF CountsOK
  <2> QED
    BY <2>1, <2>2, <2>3, <2>4, <2>5 DEF CountsOK
<1>9. CASE Send(w)
  <2>1. /\ pc[w] = "send" /\ pc'[w] = "record" /\ UNCHANGED <<now, engine>>
        /\ loc'[w].now = loc[w].now /\ loc'[w].template = loc[w].template
        /\ loc'[w].req = Len(sent) + 1
    BY <1>0, <1>9, SendEffect DEF Send, TypeOK
  <2>2. /\ DOMAIN sent' = DOMAIN sent \cup {Len(sent) + 1}
        /\ Len(sent) + 1 \notin DOMAIN sent
        /\ \A i \in DOMAIN sent : sent'[i] = sent[i]
        /\ sent'[Len(sent) + 1].names = Used(w)
        /\ sent'[Len(sent) + 1].now = loc[w].now
        /\ sent'[Len(sent) + 1].counted = FALSE
    BY <1>0, <1>9, SendEffect
  <2>3. At(w)' = At(w) /\ Checked(w)' = Checked(w) /\ Used(w)' = Used(w)
    BY <2>1 DEF At, Checked, Used
  <2>4. \A n \in SecretNames : Usage(n)' = Usage(n)
    BY <2>1 DEF Usage
  <2>5. ASSUME NEW n \in SecretNames
        PROVE  UsageOK(sent', n, Usage(n)', At(w)')
    <3>1. PICK s \in {sent}, s2 \in {sent'}, k \in {Len(sent) + 1},
               u \in {Usage(n)}, t \in {At(w)} : TRUE
      OBVIOUS
    <3>2. UsageOK(s, n, u, t)
      BY <3>1 DEF CountsOK
    <3>3. UsageOK(s2, n, u, t)
      BY <2>2, <3>1, <3>2, SentKeepsCount
    <3> QED
      BY <2>3, <2>4, <3>1, <3>3
  <2> QED
    BY <2>1, <2>2, <2>3, <2>4, <2>5 DEF CountsOK
<1>10. CASE Record(w)
  <2>1. \A n \in SecretNames : UsageOK(sent', n, Usage(n)', loc[w].now)
    BY <1>0, <1>10, RecordKeepsCounts
  <2>2. At(w) = loc[w].now /\ Return(w) /\ UNCHANGED now
    BY <1>10 DEF Record, At
  <2> QED
    BY <1>0, <1>1, <2>1, <2>2, ReturnKeepsCounts DEF CountsOK
<1>11. CASE UNCHANGED <<pc, loc, sent, engine>> /\ (Tick \/ UNCHANGED now)
  <2>1. now' \in Nat /\ now <= now'
    BY <1>0, <1>11 DEF Tick
  <2> QED
    BY <1>2, <1>11, <2>1 DEF Usage
<1> QED
  BY <1>0, <1>3, <1>4, <1>5, <1>6, <1>7, <1>8, <1>9, <1>10, <1>11
  DEF Next, Call, Continue, DepositSecret, RemoveSecret, RetrieveSecret,
      ScrubPanics, Tick, vars

(* With one caller, the counters of a secret are exactly the number of     *)
(* counted requests begun since their windows opened.                      *)
THEOREM CountersAgree ==
  ASSUME NEW w, Callers = {w}
  PROVE  Spec => []CountersMatchRequests
<1>1. TypeInv /\ CountsOK(w) => CountersMatchRequests
  <2> SUFFICES ASSUME TypeInv, CountsOK(w), engine # None,
                      NEW n \in SecretNames
               PROVE  LET u == engine.secret_usage[n]
                      IN  IF u = None
                          THEN CallsSince(n, 0) = 0
                          ELSE /\ u.calls_this_minute
                                     = CallsSince(n, u.last_minute_reset)
                               /\ u.calls_today
                                     = CallsSince(n, u.last_day_reset)
    BY DEF CountersMatchRequests
  <2>1. Usage(n) = engine.secret_usage[n]
    BY DEF Usage
  <2>2. \A t : CallsSince(n, t) = Cardinality(Since(sent, n, t))
    <3>1. \A t : Since(sent, n, t) = {i \in DOMAIN sent :
                    sent[i].counted /\ n \in sent[i].names /\ sent[i].now >= t}
      BY DEF Since, Counted
    <3> QED
      BY <3>1 DEF CallsSince
  <2>3. UsageOK(sent, n, Usage(n), At(w))
    BY DEF CountsOK
  <2>4. CASE Usage(n) = None
    <3>1. Since(sent, n, 0) = {}
      BY <2>3, <2>4 DEF UsageOK, Since
    <3> QED
      BY <2>1, <2>2, <2>4, <3>1, FS_EmptySet
  <2>5. CASE Usage(n) # None
    BY <2>1, <2>2, <2>3, <2>5 DEF UsageOK
  <2> QED
    BY <2>4, <2>5
<1>2. TypeInv /\ CountsOK(w) /\ [Next]_vars => CountsOK(w)'
  BY CountsStep
<1>3. Init => CountsOK(w)
  <2> SUFFICES ASSUME Init PROVE CountsOK(w)
    OBVIOUS
  <2>1. /\ pc[w] = "idle" /\ now = 0 /\ At(w) = 0 /\ Checked(w) = {}
        /\ sent = <<>> /\ \A n : Usage(n) = None
    BY DEF Init, At, Checked, Usage
  <2>2. \A n : Counted(sent, n) = {}
    BY <2>1 DEF Counted
  <2> QED
    BY <2>1, <2>2 DEF CountsOK, UsageOK
<1> QED
  BY <1>1, <1>2, <1>3, TypeInit, TypeStep, PTL DEF Spec

=============================================================================
