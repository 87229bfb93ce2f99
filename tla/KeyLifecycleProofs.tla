------------------------- MODULE KeyLifecycleProofs -------------------------
(***************************************************************************)
(* Theorems about KeyLifecycle, for any number of processes that share the *)
(* host key store, crash at any host call and meet failing reads and       *)
(* writes: types, that announced keys survive, that mandate_generate_keys  *)
(* is all or nothing, that mandate_init prefers keys as it should, and     *)
(* that the statics fill up as KeySlots says.                              *)
(***************************************************************************)
EXTENDS KeyLifecycle, TLAPS

USE DEF host, memory, history

(* What the export of a process has established at each of its host calls. *)
CallOK ==
    \A p \in Procs :
        /\ pc[p] # "idle" => call[p] # None /\ ret[p] = None
        /\ pc[p] = "master_write" => call[p].master \in MasterKeys
        /\ pc[p] \in {"persist", "load"} => cached[p] \in MasterKeys
        /\ pc[p] = "persist" => call[p].op = "generate"
        /\ pc[p] = "load" => call[p].op = "init"
        /\ call[p] # None /\ call[p].op = "generate" =>
               /\ call[p].new \in 1..MaxKeys
               /\ call[p].new < fresh
               /\ pc[p] \in {"master", "master_write"} =>
                      call[p].kind = "worker"
        /\ call[p] # None /\ call[p].op = "init" => call[p].cfg \in Configs

TypeInv == TypeOK /\ CallOK

-----------------------------------------------------------------------------
(* What the steps do to the process p that takes them.                     *)

LEMMA CallType ==
  ASSUME TypeInv, NEW p \in Procs, call[p] # None
  PROVE  call[p] \in Call
BY DEF TypeInv, TypeOK

LEMMA ConfigType ==
  ASSUME NEW c \in Configs
  PROVE  /\ c # None
         /\ c.id \in [Kinds -> 1..MaxKeys] /\ c.id # None
         /\ c.hex \in [Kinds -> Keys \cup {None}]
         /\ \A k \in Kinds : Named(c, k) \in Keys
BY KeyAssumption, CallAssumption DEF InitConfig, Named, Key, Keys

(* The steps of p leave every other process as it is.                      *)
Untouched(q) ==
    /\ cached'[q] = cached[q] /\ statics'[q] = statics[q]
    /\ config'[q] = config[q]
    /\ pc'[q] = pc[q] /\ call'[q] = call[q] /\ ret'[q] = ret[q]

LEMMA OthersUntouched ==
  ASSUME TypeOK, NEW p \in Procs, Export(p) \/ HostStep(p) \/ Crash(p),
         NEW q \in Procs, q # p
  PROVE  Untouched(q)
<1>1. CASE Export(p)
  BY <1>1 DEF TypeOK, Untouched, Export, GenerateKeys, MandateInit, Begin, Goto,
              Return
<1>2. CASE MasterCached(p) \/ ReadMaster(p) \/ GenerateMaster(p)
             \/ PersistMaster(p)
  BY <1>2 DEF TypeOK, Untouched, MasterCached, ReadMaster, GenerateMaster,
              PersistMaster, Goto
<1>3. CASE MasterWriteFails(p) \/ MasterMisread(p) \/ Load(p)
  BY <1>3 DEF TypeOK, Untouched, MasterWriteFails, MasterMisread, Load,
              TakeKey, Return, Goto
<1>4. CASE Persist(p) \/ PersistFails(p)
  BY <1>4 DEF TypeOK, Untouched, Persist, PersistFails, Return, Goto
<1>5. CASE Crash(p)
  BY <1>5 DEF TypeOK, Untouched, Crash, Goto
<1> QED
  BY <1>1, <1>2, <1>3, <1>4, <1>5 DEF HostStep

LEMMA BeginEffect ==
  ASSUME TypeInv, NEW p \in Procs, NEW op \in {"generate", "init"},
         NEW c \in Configs \cup {None}, NEW kind \in Kinds,
         NEW new \in 0..MaxKeys, Begin(p, op, c, kind, new)
  PROVE  /\ call' \in [Procs -> Call \cup {None}]
         /\ call'[p] \in Call /\ call'[p] # None
         /\ call'[p].op = op /\ call'[p].cfg = c /\ call'[p].kind = kind
         /\ call'[p].new = new /\ call'[p].pre = statics[p]
         /\ \A k \in call'[p].found :
               c # None /\ Decrypt(entries[Named(c, k)], master) # None
<1> DEFINE f == {k \in Kinds : /\ c # None
                               /\ Decrypt(entries[Named(c, k)], master) # None}
           r == [op |-> op, cfg |-> c, kind |-> kind, new |-> new,
                 master |-> None, pre |-> statics[p], found |-> f,
                 faulted |-> FALSE]
<1>1. call' = [call EXCEPT ![p] = r]
  BY DEF Begin
<1>2. f \in SUBSET Kinds
  OBVIOUS
<1>3. r \in Call
  <2>1. statics[p] \in Statics
    BY DEF TypeInv, TypeOK
  <2> HIDE DEF f
  <2> QED
    BY <1>2, <2>1 DEF Call
<1>4. /\ r.op = op /\ r.cfg = c /\ r.kind = kind /\ r.new = new
      /\ r.pre = statics[p] /\ r.found = f
  OBVIOUS
<1>5. \A k \in f : c # None /\ Decrypt(entries[Named(c, k)], master) # None
  OBVIOUS
<1> HIDE DEF f, r
<1>6. call' \in [Procs -> Call \cup {None}] /\ call'[p] = r
  BY <1>1, <1>3 DEF TypeInv, TypeOK
<1> QED
  BY <1>3, <1>4, <1>5, <1>6, CallAssumption

(* mandate_init once it knows the key: the worker's before the session's.  *)
More(p, key) ==
    key # None /\ call[p].kind = "worker" /\ "session" \in Missing(p)

LEMMA TakeKeyEffect ==
  ASSUME TypeInv, NEW p \in Procs, call[p] # None, call[p].op = "init",
         NEW key \in Keys \cup {None}, NEW fault \in BOOLEAN,
         TakeKey(p, key, fault)
  PROVE  /\ call' \in [Procs -> Call \cup {None}]
         /\ call'[p] \in Call /\ call'[p] # None
         /\ call'[p].op = "init" /\ call'[p].cfg = call[p].cfg
         /\ call'[p].pre = call[p].pre /\ call'[p].found = call[p].found
         /\ call'[p].faulted = (call[p].faulted \/ fault)
         /\ call'[p].kind = IF More(p, key) THEN "session" ELSE call[p].kind
         /\ statics' \in [Procs -> Statics]
         /\ \A k \in Kinds : statics'[p][k] =
                IF key # None /\ k = call[p].kind THEN key ELSE statics[p][k]
         /\ pc' = [pc EXCEPT ![p] = IF More(p, key) THEN "master" ELSE "idle"]
         /\ ret' = IF More(p, key) THEN ret
                   ELSE [ret EXCEPT ![p] = IF key = None THEN "err" ELSE "ok"]
         /\ config' = IF More(p, key) \/ key = None THEN config
                      ELSE [config EXCEPT ![p] = call[p].cfg.id]
<1> DEFINE kind == call[p].kind
           r == [call[p] EXCEPT !.kind = IF More(p, key) THEN "session" ELSE @,
                                !.faulted = @ \/ fault, !.master = None]
<1>1. call[p] \in Call /\ kind \in Kinds
  BY CallType DEF Call
<1>2. call' = [call EXCEPT ![p] = r]
  BY <1>1 DEF TypeInv, TypeOK, TakeKey, More, Call
<1>3. /\ r \in Call /\ r.op = "init" /\ r.cfg = call[p].cfg
      /\ r.pre = call[p].pre /\ r.found = call[p].found
      /\ r.faulted = (call[p].faulted \/ fault)
      /\ r.kind = IF More(p, key) THEN "session" ELSE call[p].kind
  BY <1>1 DEF Call, Kinds
<1>4. statics' = IF key = None THEN statics
                 ELSE [statics EXCEPT ![p][kind] = key]
  BY DEF TakeKey
<1>5. statics' \in [Procs -> Statics]
  BY <1>1, <1>4 DEF TypeInv, TypeOK, Statics
<1>6. \A k \in Kinds : statics'[p][k] =
          IF key # None /\ k = kind THEN key ELSE statics[p][k]
  BY <1>1, <1>4 DEF TypeInv, TypeOK, Statics
<1>7. /\ pc' = [pc EXCEPT ![p] = IF More(p, key) THEN "master" ELSE "idle"]
      /\ ret' = IF More(p, key) THEN ret
                ELSE [ret EXCEPT ![p] = IF key = None THEN "err" ELSE "ok"]
      /\ config' = IF More(p, key) \/ key = None THEN config
                   ELSE [config EXCEPT ![p] = call[p].cfg.id]
  BY DEF TakeKey, More, Return, Goto
<1> HIDE DEF r
<1>8. call' \in [Procs -> Call \cup {None}] /\ call'[p] = r
  BY <1>2, <1>3 DEF TypeInv, TypeOK
<1> QED
  BY <1>3, <1>5, <1>6, <1>7, <1>8, CallAssumption

(* The steps of init_master_key change no argument of the export.          *)
SameExport(p) ==
    /\ call' \in [Procs -> Call \cup {None}]
    /\ call'[p] \in Call /\ call'[p] # None
    /\ call'[p].op = call[p].op /\ call'[p].cfg = call[p].cfg
    /\ call'[p].new = call[p].new /\ call'[p].pre = call[p].pre
    /\ call'[p].found = call[p].found

LEMMA MasterFieldEffect ==
  ASSUME TypeInv, NEW p \in Procs, call[p] # None,
         NEW m \in MasterKeys \cup {None}, NEW f \in BOOLEAN,
         \/ call' = [call EXCEPT ![p].master = m]
         \/ call' = [call EXCEPT ![p].master = m, ![p].faulted = @ \/ f]
  PROVE  /\ SameExport(p)
         /\ call'[p].kind = call[p].kind /\ call'[p].master = m
         /\ call[p].faulted => call'[p].faulted
<1>1. call[p] \in Call
  BY CallType
<1>2. PICK g \in {FALSE, f} : 
        call' = [call EXCEPT ![p] = [call[p] EXCEPT !.master = m,
                                                    !.faulted = @ \/ g]]
  <2>1. call[p].faulted \in BOOLEAN
    BY <1>1 DEF Call
  <2>2. [call[p] EXCEPT !.master = m]
          = [call[p] EXCEPT !.master = m, !.faulted = @ \/ FALSE]
    BY <1>1, <2>1 DEF Call
  <2> QED
    BY <2>2 DEF TypeInv, TypeOK
<1> DEFINE r == [call[p] EXCEPT !.master = m, !.faulted = @ \/ g]
<1>3. /\ r \in Call /\ r.op = call[p].op /\ r.cfg = call[p].cfg
      /\ r.new = call[p].new /\ r.pre = call[p].pre
      /\ r.found = call[p].found /\ r.kind = call[p].kind
      /\ r.master = m /\ (call[p].faulted => r.faulted)
  BY <1>1 DEF Call
<1> HIDE DEF r
<1>4. call' \in [Procs -> Call \cup {None}] /\ call'[p] = r
  BY <1>2, <1>3 DEF TypeInv, TypeOK, r
<1> QED
  BY <1>3, <1>4, CallAssumption DEF SameExport

LEMMA SessionNext ==
  ASSUME TypeInv, NEW p \in Procs, call[p] # None,
         call' = [call EXCEPT ![p].kind = "session"]
  PROVE  SameExport(p) /\ call'[p].kind = "session"
<1> DEFINE r == [call[p] EXCEPT !.kind = "session"]
<1>1. call[p] \in Call
  BY CallType
<1>2. call' = [call EXCEPT ![p] = r]
  BY DEF TypeInv, TypeOK
<1>3. /\ r \in Call /\ r.op = call[p].op /\ r.cfg = call[p].cfg
      /\ r.new = call[p].new /\ r.pre = call[p].pre
      /\ r.found = call[p].found /\ r.kind = "session"
  BY <1>1 DEF Call, Kinds
<1> HIDE DEF r
<1>4. call' \in [Procs -> Call \cup {None}] /\ call'[p] = r
  BY <1>2, <1>3 DEF TypeInv, TypeOK
<1> QED
  BY <1>3, <1>4, CallAssumption DEF SameExport

(* The key that Load hands to TakeKey.                                     *)
LEMMA LoadEffect ==
  ASSUME TypeInv, NEW p \in Procs, Load(p)
  PROVE  \E b \in Read(entries[Named(call[p].cfg, call[p].kind)]) :
           LET key == Fallback(Decrypt(b, cached[p]),
                               call[p].cfg.hex[call[p].kind])
               fault == b # entries[Named(call[p].cfg, call[p].kind)]
           IN  /\ TakeKey(p, key, fault)
               /\ b \in Blob \cup {None}
               /\ key \in Keys \cup {None} /\ fault \in BOOLEAN
<1>1. call[p] \in Call /\ call[p].cfg \in Configs /\ call[p].kind \in Kinds
  BY CallType DEF Load, TypeInv, CallOK, Call
<1>2. call[p].cfg.hex[call[p].kind] \in Keys \cup {None}
  BY <1>1, ConfigType
<1>3. entries[Named(call[p].cfg, call[p].kind)] \in Blob \cup {None}
  BY <1>1, ConfigType DEF TypeInv, TypeOK
<1>4. \A b \in Read(entries[Named(call[p].cfg, call[p].kind)]) :
         b \in Blob \cup {None}
  BY <1>3 DEF Read
<1>5. \A b \in Blob \cup {None} : Decrypt(b, cached[p]) \in Keys \cup {None}
  BY DEF Decrypt, Blob
<1> QED
  BY <1>2, <1>4, <1>5 DEF Load, Fallback

(* MasterWriteFails in mandate_init goes on with the key of the config.    *)
LEMMA WriteFailsEffect ==
  ASSUME TypeInv, NEW p \in Procs, MasterWriteFails(p),
         call[p].op # "generate"
  PROVE  /\ call[p] # None /\ call[p].op = "init" /\ call[p].cfg \in Configs
         /\ call[p].cfg.hex[call[p].kind] \in Keys \cup {None}
         /\ TakeKey(p, call[p].cfg.hex[call[p].kind], FALSE)
<1>1. call[p] # None /\ call[p] \in Call
  BY CallType DEF MasterWriteFails, TypeInv, CallOK
<1>2. call[p].op = "init" /\ call[p].kind \in Kinds
  BY <1>1 DEF Call
<1>3. call[p].cfg \in Configs
  BY <1>1, <1>2 DEF TypeInv, CallOK
<1> QED
  BY <1>1, <1>2, <1>3, ConfigType DEF MasterWriteFails

(* And so does a master key that was misread; mandate_generate_keys fails. *)
LEMMA MisreadEffect ==
  ASSUME TypeInv, NEW p \in Procs, MasterMisread(p)
  PROVE  /\ call[p] # None /\ pc[p] = "master" /\ ret[p] = None
         /\ UNCHANGED <<master, entries, cached, fresh, announced, disturbed>>
         /\ \/ /\ call[p].op = "generate" /\ Return(p, "err")
               /\ UNCHANGED <<statics, config, call>>
            \/ /\ call[p].op = "init" /\ call[p].cfg \in Configs
               /\ call[p].cfg.hex[call[p].kind] \in Keys \cup {None}
               /\ TakeKey(p, call[p].cfg.hex[call[p].kind], TRUE)
<1>1. /\ call[p] # None /\ call[p] \in Call /\ pc[p] = "master"
      /\ ret[p] = None
  BY CallType DEF MasterMisread, TypeInv, CallOK
<1>2. CASE call[p].op = "generate"
  BY <1>1, <1>2 DEF MasterMisread
<1>3. CASE call[p].op # "generate"
  <2>1. call[p].op = "init" /\ call[p].kind \in Kinds
    BY <1>1, <1>3 DEF Call
  <2>2. call[p].cfg \in Configs
    BY <1>1, <2>1 DEF TypeInv, CallOK
  <2> QED
    BY <1>1, <1>3, <2>1, <2>2, ConfigType DEF MasterMisread
<1> QED
  BY <1>2, <1>3

-----------------------------------------------------------------------------
LEMMA TypeInit == Init => TypeInv
<1>1. 1 \in 1..MaxKeys + 1
  BY KeyAssumption
<1>2. Init => TypeOK
  <2>1. NoKeys \in Statics
    BY DEF NoKeys, Statics
  <2>2. ASSUME Init
        PROVE  /\ master \in MasterKeys \cup {None}
               /\ entries \in [Keys -> Blob \cup {None}]
               /\ cached \in [Procs -> MasterKeys \cup {None}]
               /\ statics \in [Procs -> Statics]
               /\ config \in [Procs -> [Kinds -> 1..MaxKeys] \cup {None}]
               /\ fresh \in 1..MaxKeys + 1
    BY <1>1, <2>1, <2>2 DEF Init
  <2>3. ASSUME Init
        PROVE  /\ pc \in [Procs -> Steps \cup {"idle"}]
               /\ call \in [Procs -> Call \cup {None}]
               /\ ret \in [Procs -> {"ok", "err", None}]
               /\ announced \subseteq 1..MaxKeys
               /\ disturbed \in BOOLEAN
    BY <2>3 DEF Init, Steps
  <2> QED
    BY <2>2, <2>3 DEF TypeOK
<1>3. Init => CallOK
  BY DEF Init, CallOK
<1> QED
  BY <1>2, <1>3 DEF TypeInv

LEMMA TypeInvStep == TypeInv /\ [Next]_vars => TypeInv'
<1> SUFFICES ASSUME TypeInv, [Next]_vars PROVE TypeInv'
  OBVIOUS
<1>0. TypeOK /\ CallOK /\ MaxKeys \in Nat /\ fresh \in Nat
  BY KeyAssumption DEF TypeInv, TypeOK
<1>1. ASSUME NEW p \in Procs, GenerateKeys(p) PROVE TypeInv'
  <2>1. fresh \in 1..MaxKeys /\ fresh' = fresh + 1
    BY <1>0, <1>1 DEF TypeOK, GenerateKeys
  <2>2. Begin(p, "generate", None, "worker", fresh)
    BY <1>1 DEF GenerateKeys
  <2>3. /\ call' \in [Procs -> Call \cup {None}] /\ call'[p] # None
        /\ call'[p].op = "generate" /\ call'[p].new = fresh
        /\ call'[p].kind = "worker"
    BY <1>0, <2>1, <2>2, BeginEffect DEF Kinds
  <2>4. TypeOK'
    <3>1. fresh' \in 1..MaxKeys + 1
      BY <1>0, <2>1
    <3> QED
      BY <1>0, <1>1, <2>3, <3>1 DEF TypeOK, GenerateKeys, Goto, Steps
  <2>5. \A q \in Procs : call'[q] # None /\ call'[q].op = "generate" =>
              call'[q].new \in 1..MaxKeys /\ call'[q].new < fresh'
    BY <1>0, <1>1, <2>1, <2>3, OthersUntouched DEF CallOK, Untouched, Export
  <2>6. CallOK'
    <3>1. \A q \in Procs : q # p => Untouched(q)
      BY <1>0, <1>1, OthersUntouched DEF Export
    <3>2. pc'[p] = "master" /\ ret'[p] = None
      BY <1>0, <1>1 DEF TypeOK, GenerateKeys, Goto
    <3> QED
      BY <1>0, <2>3, <2>5, <3>1, <3>2 DEF CallOK, Untouched
  <2> QED
    BY <2>4, <2>6 DEF TypeInv
<1>2. ASSUME NEW p \in Procs, NEW c \in Configs, MandateInit(p, c)
      PROVE  TypeInv'
  <2> DEFINE first == IF statics[p]["worker"] = None THEN "worker" ELSE "session"
  <2>1. first \in Kinds /\ Begin(p, "init", c, first, 0) /\ 0 \in 0..MaxKeys
    BY <1>0, <1>2 DEF MandateInit, Kinds
  <2>2. /\ call' \in [Procs -> Call \cup {None}] /\ call'[p] # None
        /\ call'[p].op = "init" /\ call'[p].cfg = c
    BY <2>1, BeginEffect
  <2>3. config' \in [Procs -> [Kinds -> 1..MaxKeys] \cup {None}]
    BY <1>0, <1>2, ConfigType DEF TypeOK, MandateInit
  <2>4. TypeOK'
    BY <1>0, <1>2, <2>2, <2>3 DEF TypeOK, MandateInit, Goto, Return, Steps
  <2>5. CallOK'
    BY <1>0, <1>2, <2>2, OthersUntouched
    DEF TypeOK, CallOK, MandateInit, Goto, Return, Untouched, Export
  <2> QED
    BY <2>4, <2>5 DEF TypeInv
<1>4. ASSUME NEW p \in Procs, MasterCached(p) \/ ReadMaster(p) PROVE TypeInv'
  <2>1. /\ pc[p] = "master" /\ pc' = [pc EXCEPT ![p] = AfterMaster(p)]
        /\ call[p] # None /\ call[p] \in Call
        /\ cached' \in [Procs -> MasterKeys \cup {None}]
        /\ cached'[p] \in MasterKeys
    BY <1>0, <1>4, CallType DEF TypeOK, CallOK, MasterCached, ReadMaster, Goto
  <2>2. \/ AfterMaster(p) = "persist" /\ call[p].op = "generate"
        \/ AfterMaster(p) = "load" /\ call[p].op = "init"
    BY <2>1 DEF AfterMaster, Call
  <2>3. TypeOK'
    BY <1>0, <1>4, <2>1, <2>2 DEF TypeOK, MasterCached, ReadMaster, Steps
  <2>4. CallOK'
    BY <1>0, <1>4, <2>1, <2>2, OthersUntouched
    DEF TypeOK, CallOK, MasterCached, ReadMaster, Untouched, HostStep
  <2> QED
    BY <2>3, <2>4 DEF TypeInv
<1>5. ASSUME NEW p \in Procs, GenerateMaster(p) PROVE TypeInv'
  <2>1. pc[p] = "master" /\ call[p] # None /\ pc' = [pc EXCEPT ![p] = "master_write"]
    BY <1>0, <1>5 DEF CallOK, GenerateMaster, Goto
  <2>2. PICK m \in MasterKeys :
          call' = [call EXCEPT ![p].master = m, ![p].faulted = @ \/ master # None]
    BY <1>5 DEF GenerateMaster
  <2>3. SameExport(p) /\ call'[p].kind = call[p].kind /\ call'[p].master = m
    BY <2>1, <2>2, MasterFieldEffect
  <2>4. TypeOK'
    BY <1>0, <1>5, <2>1, <2>3 DEF TypeOK, GenerateMaster, SameExport, Steps
  <2>5. CallOK'
    <3>1. \A q \in Procs : q # p => Untouched(q)
      BY <1>0, <1>5, OthersUntouched DEF HostStep
    <3>2. pc'[p] = "master_write" /\ ret'[p] = ret[p] /\ fresh' = fresh
      BY <1>0, <1>5, <2>1 DEF TypeOK, GenerateMaster
    <3> QED
      BY <1>0, <2>1, <2>3, <3>1, <3>2 DEF CallOK, SameExport, Untouched
  <2> QED
    BY <2>4, <2>5 DEF TypeInv
<1>6. ASSUME NEW p \in Procs, PersistMaster(p) PROVE TypeInv'
  <2>1. /\ pc[p] = "master_write" /\ call[p] # None /\ call[p] \in Call
        /\ pc' = [pc EXCEPT ![p] = AfterMaster(p)]
        /\ call[p].master \in MasterKeys
    BY <1>0, <1>6, CallType DEF CallOK, PersistMaster, Goto
  <2>2. SameExport(p) /\ call'[p].kind = call[p].kind
    BY <1>6, <2>1, MasterFieldEffect DEF PersistMaster
  <2>3. \/ AfterMaster(p) = "persist" /\ call[p].op = "generate"
        \/ AfterMaster(p) = "load" /\ call[p].op = "init"
    BY <2>1 DEF AfterMaster, Call
  <2>4. TypeOK'
    BY <1>0, <1>6, <2>1, <2>2, <2>3 DEF TypeOK, PersistMaster, SameExport, Steps
  <2>5. CallOK'
    BY <1>0, <1>6, <2>1, <2>2, <2>3, OthersUntouched
    DEF TypeOK, CallOK, PersistMaster, SameExport, Untouched, HostStep
  <2> QED
    BY <2>4, <2>5 DEF TypeInv
<1>7. ASSUME NEW p \in Procs, NEW key \in Keys \cup {None},
             NEW fault \in BOOLEAN, TakeKey(p, key, fault),
             call[p] # None, call[p].op = "init", pc[p] # "idle",
             UNCHANGED <<master, entries, cached, fresh, announced, disturbed>>,
             \A q \in Procs : q # p => Untouched(q)
      PROVE  TypeInv'
  <2>1. call[p].cfg \in Configs /\ ret[p] = None
    BY <1>0, <1>7 DEF CallOK
  <2>2. /\ call' \in [Procs -> Call \cup {None}]
        /\ call'[p] # None /\ call'[p].op = "init"
        /\ call'[p].cfg = call[p].cfg /\ statics' \in [Procs -> Statics]
        /\ pc' = [pc EXCEPT ![p] = IF More(p, key) THEN "master" ELSE "idle"]
        /\ ret' = IF More(p, key) THEN ret
                  ELSE [ret EXCEPT ![p] = IF key = None THEN "err" ELSE "ok"]
        /\ config' = IF More(p, key) \/ key = None THEN config
                     ELSE [config EXCEPT ![p] = call[p].cfg.id]
    BY <1>7, TakeKeyEffect
  <2>3. config' \in [Procs -> [Kinds -> 1..MaxKeys] \cup {None}]
    BY <1>0, <2>1, <2>2, ConfigType DEF TypeOK
  <2>4. TypeOK'
    BY <1>0, <1>7, <2>2, <2>3 DEF TypeOK, Steps
  <2>5. CallOK'
    BY <1>0, <1>7, <2>1, <2>2 DEF TypeOK, CallOK, Untouched
  <2> QED
    BY <2>4, <2>5 DEF TypeInv
<1>8. ASSUME NEW p \in Procs, MasterWriteFails(p) PROVE TypeInv'
  <2>1. CASE call[p].op = "generate"
    <3>1. call[p] # None
      BY <1>0, <1>8 DEF CallOK, MasterWriteFails
    <3>2. SameExport(p) /\ call'[p].kind = call[p].kind
      BY <1>8, <2>1, <3>1, MasterFieldEffect DEF MasterWriteFails
    <3>3. TypeOK'
      BY <1>0, <1>8, <2>1, <3>2
      DEF TypeOK, MasterWriteFails, SameExport, Return, Goto, Steps
    <3>4. CallOK'
      BY <1>0, <1>8, <2>1, <3>1, <3>2, OthersUntouched
      DEF TypeOK, CallOK, MasterWriteFails, SameExport, Return, Goto,
          Untouched, HostStep
    <3> QED
      BY <3>3, <3>4 DEF TypeInv
  <2>2. CASE call[p].op # "generate"
    BY <1>0, <1>7, <1>8, <2>2, WriteFailsEffect, OthersUntouched
    DEF MasterWriteFails, HostStep
  <2> QED
    BY <2>1, <2>2
<1>8a. ASSUME NEW p \in Procs, MasterMisread(p) PROVE TypeInv'
  <2>1. \A q \in Procs : q # p => Untouched(q)
    BY <1>0, <1>8a, OthersUntouched DEF HostStep
  <2>2. CASE call[p].op = "generate"
    <3>1. Return(p, "err")
          /\ UNCHANGED <<host, memory, call, fresh, announced, disturbed>>
      BY <1>8a, <2>2, MisreadEffect
    <3> QED
      BY <1>0, <3>1 DEF TypeInv, TypeOK, CallOK, Return, Goto, Steps
  <2>3. CASE call[p].op # "generate"
    BY <1>7, <1>8a, <2>1, <2>3, MisreadEffect
  <2> QED
    BY <2>2, <2>3
<1>9. ASSUME NEW p \in Procs, Load(p) PROVE TypeInv'
  <2>1. call[p] # None /\ call[p].op = "init" /\ pc[p] # "idle"
    BY <1>0, <1>9 DEF CallOK, Load
  <2>2. \A q \in Procs : q # p => Untouched(q)
    BY <1>0, <1>9, OthersUntouched DEF HostStep
  <2>3. \E key \in Keys \cup {None}, fault \in BOOLEAN : TakeKey(p, key, fault)
    BY <1>9, LoadEffect
  <2> QED
    BY <1>7, <1>9, <2>1, <2>2, <2>3 DEF Load
<1>10. ASSUME NEW p \in Procs, Persist(p) PROVE TypeInv'
  <2> DEFINE key == Key(call[p].kind, call[p].new)
             blob == [master |-> cached[p], key |-> key]
  <2>1. /\ call[p] # None /\ call[p] \in Call /\ call[p].op = "generate"
        /\ call[p].new \in 1..MaxKeys /\ cached[p] \in MasterKeys
        /\ call[p].kind \in Kinds /\ pc[p] = "persist"
    BY <1>0, <1>10, CallType DEF CallOK, Persist, Call
  <2>2. key \in Keys /\ blob \in Blob
    BY <2>1 DEF Key, Keys, Blob
  <2>3. entries' = [entries EXCEPT ![key] = blob]
    BY <1>10 DEF Persist, Persisted
  <2> HIDE DEF key, blob
  <2>4. entries' \in [Keys -> Blob \cup {None}]
    BY <1>0, <2>2, <2>3 DEF TypeOK
  <2>5. Pair(call[p].new) \in Statics
    BY <2>1 DEF Pair, Key, Statics, Keys
  <2>6. CASE call[p].kind = "worker"
    <3>1. SameExport(p)
      BY <1>10, <2>1, <2>6, SessionNext DEF Persist
    <3>2. TypeOK'
      BY <1>0, <1>10, <2>4, <2>6, <3>1 DEF TypeOK, Persist, SameExport
    <3>3. CallOK'
      BY <1>0, <1>10, <2>1, <2>6, <3>1, OthersUntouched
      DEF TypeOK, CallOK, Persist, SameExport, Untouched, HostStep
    <3> QED
      BY <3>2, <3>3 DEF TypeInv
  <2>7. CASE call[p].kind # "worker"
    <3>1. TypeOK'
      BY <1>0, <1>10, <2>1, <2>4, <2>5, <2>7
      DEF TypeOK, Persist, Return, Goto, Steps
    <3>2. CallOK'
      BY <1>0, <1>10, <2>7 DEF TypeOK, CallOK, Persist, Return, Goto
    <3> QED
      BY <3>1, <3>2 DEF TypeInv
  <2> QED
    BY <2>6, <2>7
<1>11. ASSUME NEW p \in Procs, PersistFails(p) PROVE TypeInv'
  BY <1>0, <1>11
  DEF TypeInv, TypeOK, CallOK, PersistFails, Return, Goto, Steps
<1>12. ASSUME NEW p \in Procs, Crash(p) PROVE TypeInv'
  <2>1. TypeOK'
    BY <1>0, <1>12 DEF TypeOK, Crash, Goto, NoKeys, Statics, Steps
  <2>2. CallOK'
    BY <1>0, <1>12 DEF TypeOK, CallOK, Crash, Goto
  <2> QED
    BY <2>1, <2>2 DEF TypeInv
<1>13. CASE UNCHANGED vars
  BY <1>0, <1>13 DEF TypeInv, TypeOK, CallOK, vars
<1> QED
  BY <1>1, <1>2, <1>4, <1>5, <1>6, <1>8, <1>8a, <1>9, <1>10, <1>11, <1>12, <1>13
  DEF Next, Export, HostStep

(* Types: keys, blobs and exports keep their shapes, whatever fails.       *)
THEOREM TypeCorrect == Spec => []TypeOK
<1>1. TypeInv => TypeOK
  BY DEF TypeInv
<1> QED
  BY <1>1, TypeInit, TypeInvStep, PTL DEF Spec

-----------------------------------------------------------------------------
(* The key store.                                                          *)

Generating(p) == call[p] # None /\ call[p].op = "generate"

Encrypted(m, key) == [master |-> m, key |-> key]

LEMMA EncryptedFields ==
  ASSUME NEW m \in MasterKeys, NEW key \in Keys
  PROVE  /\ Encrypted(m, key) \in Blob /\ Encrypted(m, key) # None
         /\ Encrypted(m, key).master = m /\ Encrypted(m, key).key = key
         /\ Decrypt(Encrypted(m, key), m) = key
BY CallAssumption DEF Encrypted, Blob, Decrypt

LEMMA KeyFields ==
  ASSUME NEW k \in Kinds, NEW n
  PROVE  /\ Key(k, n).kind = k /\ Key(k, n).n = n
         /\ n \in 1..MaxKeys => Key(k, n) \in Keys
BY DEF Key, Keys

(* What a successful persist_key does.                                     *)
LEMMA PersistEffect ==
  ASSUME TypeInv, NEW p \in Procs, Persist(p)
  PROVE  /\ pc[p] = "persist" /\ Generating(p) /\ ret[p] = None
         /\ call[p].new \in 1..MaxKeys /\ call[p].kind \in Kinds
         /\ cached[p] \in MasterKeys
         /\ Key(call[p].kind, call[p].new) \in Keys
         /\ entries'[Key(call[p].kind, call[p].new)]
                = Encrypted(cached[p], Key(call[p].kind, call[p].new))
         /\ \A j \in Keys : j # Key(call[p].kind, call[p].new) =>
                entries'[j] = entries[j]
         /\ UNCHANGED <<master, cached, fresh, disturbed>>
         /\ \/ /\ call[p].kind = "worker"
               /\ UNCHANGED <<pc, ret, statics, announced>>
               /\ SameExport(p) /\ call'[p].kind = "session"
            \/ /\ call[p].kind = "session"
               /\ UNCHANGED call
               /\ statics'[p] = Pair(call[p].new)
               /\ announced' = announced \cup {call[p].new}
               /\ pc'[p] = "idle" /\ ret'[p] = "ok"
<1>1. call[p] # None /\ call[p] \in Call /\ pc[p] = "persist"
  BY CallType DEF TypeInv, CallOK, Persist
<1>2. /\ call[p].op = "generate" /\ call[p].new \in 1..MaxKeys
      /\ cached[p] \in MasterKeys /\ call[p].kind \in Kinds /\ ret[p] = None
  BY <1>1 DEF TypeInv, CallOK, Call
<1> DEFINE key == Key(call[p].kind, call[p].new)
<1>3. key \in Keys
  BY <1>2, KeyFields
<1>4. entries' = [entries EXCEPT ![key] = Encrypted(cached[p], key)]
  BY DEF Persist, Persisted, Encrypted
<1> HIDE DEF key
<1>5. /\ entries'[key] = Encrypted(cached[p], key)
      /\ \A j \in Keys : j # key => entries'[j] = entries[j]
  BY <1>3, <1>4 DEF TypeInv, TypeOK
<1>6. CASE call[p].kind = "worker"
  BY <1>1, <1>2, <1>3, <1>5, <1>6, SessionNext DEF Persist, Generating, key
<1>7. CASE call[p].kind = "session"
  BY <1>1, <1>2, <1>3, <1>5, <1>7
  DEF TypeInv, TypeOK, Persist, Generating, Return, Goto, key
<1> QED
  BY <1>2, <1>6, <1>7 DEF Kinds

(* The steps that neither write to the key store nor learn a master key.   *)
LEMMA QuietStep ==
  ASSUME TypeInv, NEW p \in Procs,
         Export(p) \/ MasterCached(p) \/ MasterWriteFails(p)
             \/ MasterMisread(p) \/ PersistFails(p) \/ Load(p)
  PROVE  /\ UNCHANGED <<master, entries, cached, announced, disturbed>>
         /\ \A q \in Procs : pc'[q] = "master_write" => pc[q] = "master_write"
<1>1. UNCHANGED <<master, entries, cached, announced, disturbed>>
  BY DEF Export, GenerateKeys, MandateInit, MasterCached,
         MasterWriteFails, MasterMisread, PersistFails, Load
<1>2. \A q \in Procs : q # p => pc'[q] = pc[q]
  BY OthersUntouched DEF TypeInv, Untouched, HostStep
<1>3. pc'[p] = pc[p] \/ pc'[p] # "master_write"
  BY DEF TypeInv, TypeOK, Export, GenerateKeys, MandateInit,
         MasterCached, AfterMaster, MasterWriteFails, MasterMisread,
         PersistFails, Load, TakeKey, Return, Goto
<1> QED
  BY <1>1, <1>2, <1>3

(* Unless a first boot was none: there is one master key, and while a      *)
(* process is about to write the first one nobody else is, and there is    *)
(* none yet.                                                               *)
OneMaster ==
    /\ \A p \in Procs : cached[p] \in {None, master}
    /\ \A k \in Keys : entries[k] # None => entries[k].master = master
    /\ \A p \in Procs : pc[p] = "master_write" =>
           master = None /\ \A q \in Procs : pc[q] = "master_write" => q = p

Booted ==
    /\ ~disturbed => OneMaster
    /\ \A k \in Keys : entries[k] # None => entries[k].key = k

LEMMA NoMasterNoEntries ==
  ASSUME TypeInv, OneMaster, master = None
  PROVE  \A k \in Keys : entries[k] = None
BY KeyAssumption DEF TypeInv, TypeOK, OneMaster, Blob

LEMMA BootedStep ==
  TypeInv /\ Booted /\ [Next]_vars => Booted'
<1> SUFFICES ASSUME TypeInv, Booted, [Next]_vars PROVE Booted'
  OBVIOUS
<1>0. TypeOK /\ CallOK
  BY DEF TypeInv
<1>1. ASSUME NEW p \in Procs,
             Export(p) \/ MasterCached(p) \/ MasterWriteFails(p)
                 \/ MasterMisread(p) \/ PersistFails(p) \/ Load(p)
      PROVE  Booted'
  BY <1>1, QuietStep DEF Booted, OneMaster
<1>2. ASSUME NEW p \in Procs, ReadMaster(p) PROVE Booted'
  BY <1>0, <1>2
  DEF TypeOK, Booted, OneMaster, ReadMaster, Goto, AfterMaster
<1>3. ASSUME NEW p \in Procs, GenerateMaster(p) PROVE Booted'
  <2>1. /\ UNCHANGED <<master, entries, cached>>
        /\ pc' = [pc EXCEPT ![p] = "master_write"]
        /\ ~disturbed' => /\ ~disturbed /\ master = None
                          /\ \A q \in Procs \ {p} : pc[q] # "master_write"
    BY <1>3 DEF GenerateMaster, Goto
  <2> QED
    BY <1>0, <2>1 DEF TypeOK, Booted, OneMaster
<1>4. ASSUME NEW p \in Procs, PersistMaster(p) PROVE Booted'
  <2>1. /\ UNCHANGED <<entries, disturbed>>
        /\ master' = call[p].master /\ cached'[p] = master'
        /\ pc[p] = "master_write" /\ pc'[p] # "master_write"
    BY <1>0, <1>4 DEF TypeOK, PersistMaster, Goto, AfterMaster
  <2>2. \A q \in Procs : q # p => cached'[q] = cached[q] /\ pc'[q] = pc[q]
    BY <1>0, <1>4, OthersUntouched DEF Untouched, HostStep
  <2>3. CASE ~disturbed
    <3>1. OneMaster /\ master = None
      BY <2>1, <2>3 DEF Booted, OneMaster
    <3>2. \A k \in Keys : entries'[k] = None
      BY <2>1, <3>1, NoMasterNoEntries
    <3> QED
      BY <2>1, <2>2, <3>1, <3>2 DEF Booted, OneMaster
  <2>4. CASE disturbed
    BY <2>1, <2>4 DEF Booted
  <2> QED
    BY <2>3, <2>4
<1>5. ASSUME NEW p \in Procs, Persist(p) PROVE Booted'
  <2> DEFINE key == Key(call[p].kind, call[p].new)
  <2>1. /\ key \in Keys /\ cached[p] \in MasterKeys
        /\ entries'[key] = Encrypted(cached[p], key)
        /\ \A j \in Keys : j # key => entries'[j] = entries[j]
        /\ UNCHANGED <<master, cached, disturbed>>
        /\ \A q \in Procs : pc'[q] = pc[q] \/ pc'[q] # "master_write"
    BY <1>0, <1>5, PersistEffect, OthersUntouched DEF Untouched, HostStep
  <2> HIDE DEF key
  <2>2. /\ entries'[key].master = cached[p] /\ entries'[key].key = key
    BY <2>1, EncryptedFields
  <2>3. ~disturbed => cached[p] = master
    BY <2>1, KeyAssumption DEF Booted, OneMaster
  <2> QED
    BY <2>1, <2>2, <2>3 DEF Booted, OneMaster
<1>6. ASSUME NEW p \in Procs, Crash(p) PROVE Booted'
  BY <1>0, <1>6 DEF TypeOK, Booted, OneMaster, Crash, Goto
<1>7. CASE UNCHANGED vars
  BY <1>7 DEF Booted, OneMaster, vars
<1> QED
  BY <1>1, <1>2, <1>3, <1>4, <1>5, <1>6, <1>7 DEF Next, HostStep

-----------------------------------------------------------------------------
(* mandate_generate_keys.                                                  *)

(* No two processes generate the same number, and no number comes back.    *)
Numbered ==
    /\ \A p, q \in Procs :
           p # q /\ Generating(p) /\ Generating(q) => call[p].new # call[q].new
    /\ \A n \in announced : n < fresh

Stored(p, k) ==
    entries[Key(k, call[p].new)] = Encrypted(cached[p], Key(k, call[p].new))

(* The export of p is all or nothing, and half-way the worker key is there.*)
AllOrNothing(p) ==
    /\ Generating(p) /\ ret[p] = "ok" =>
           /\ statics[p] = Pair(call[p].new) /\ cached[p] \in MasterKeys
           /\ \A k \in Kinds : Stored(p, k)
    /\ Generating(p) /\ ret[p] # "ok" =>
           statics[p] = call[p].pre /\ call[p].new \notin announced
    /\ pc[p] = "persist" /\ call[p].kind = "session" => Stored(p, "worker")

GenerateOK ==
    /\ Numbered
    /\ \A p \in Procs : AllOrNothing(p)
    /\ \A n \in announced, k \in Kinds : entries[Key(k, n)] # None

(* Only mandate_generate_keys starts generating.                           *)
LEMMA GeneratingStep ==
  ASSUME TypeInv, NEW p \in Procs, Export(p) \/ HostStep(p) \/ Crash(p),
         NEW q \in Procs, Generating(q)'
  PROVE  \/ q = p /\ GenerateKeys(p)
         \/ /\ Generating(q)
            /\ call'[q].new = call[q].new /\ call'[q].pre = call[q].pre
<1>0. TypeOK /\ CallOK
  BY DEF TypeInv
<1>1. CASE q # p
  BY <1>0, <1>1, OthersUntouched DEF Untouched, Generating
<1>2. ASSUME q = p, NEW c \in Configs, MandateInit(p, c) PROVE FALSE
  <2> DEFINE first == IF statics[p]["worker"] = None THEN "worker" ELSE "session"
  <2>1. first \in Kinds /\ Begin(p, "init", c, first, 0) /\ 0 \in 0..MaxKeys
    BY <1>2, KeyAssumption DEF MandateInit, Kinds
  <2>2. call'[p].op = "init"
    BY <2>1, BeginEffect
  <2> QED
    BY <1>2, <2>2 DEF Generating
<1>3. CASE q = p /\ MasterMisread(p)
  <2>1. CASE call[p].op = "generate"
    BY <1>3, <2>1, MisreadEffect DEF Generating
  <2>2. CASE call[p].op # "generate"
    <3>1. /\ call[p] # None /\ call[p].op = "init"
          /\ \E key \in Keys \cup {None} : TakeKey(p, key, TRUE)
      BY <1>3, <2>2, MisreadEffect
    <3> QED
      BY <1>3, <3>1, TakeKeyEffect DEF Generating
  <2> QED
    BY <2>1, <2>2
<1>4. CASE q = p /\ (MasterCached(p) \/ ReadMaster(p) \/ PersistFails(p))
  BY <1>4 DEF Generating, MasterCached, ReadMaster, PersistFails
<1>5. CASE q = p /\ GenerateMaster(p)
  <2>1. call[p] # None
    BY <1>0, <1>5 DEF CallOK, GenerateMaster
  <2>2. SameExport(p)
    BY <1>5, <2>1, MasterFieldEffect DEF GenerateMaster
  <2> QED
    BY <1>5, <2>1, <2>2 DEF Generating, SameExport
<1>6. CASE q = p /\ PersistMaster(p)
  <2>1. call[p] # None
    BY <1>0, <1>6 DEF CallOK, PersistMaster
  <2>2. SameExport(p)
    BY <1>6, <2>1, MasterFieldEffect DEF PersistMaster
  <2> QED
    BY <1>6, <2>1, <2>2 DEF Generating, SameExport
<1>7. CASE q = p /\ MasterWriteFails(p)
  <2>1. CASE call[p].op = "generate"
    <3>1. call[p] # None
      BY <1>0, <1>7 DEF CallOK, MasterWriteFails
    <3>2. SameExport(p)
      BY <1>7, <2>1, <3>1, MasterFieldEffect DEF MasterWriteFails
    <3> QED
      BY <1>7, <2>1, <3>1, <3>2 DEF Generating, SameExport
  <2>2. CASE call[p].op # "generate"
    BY <1>7, <2>2, WriteFailsEffect, TakeKeyEffect DEF Generating
  <2> QED
    BY <2>1, <2>2
<1>8. CASE q = p /\ Load(p)
  <2>1. call[p] # None /\ call[p].op = "init"
    BY <1>0, <1>8 DEF CallOK, Load
  <2>2. \E key \in Keys \cup {None}, fault \in BOOLEAN : TakeKey(p, key, fault)
    BY <1>8, LoadEffect
  <2> QED
    BY <1>8, <2>1, <2>2, TakeKeyEffect DEF Generating
<1>9. CASE q = p /\ Persist(p)
  BY <1>9, PersistEffect DEF Generating, SameExport
<1>10. CASE q = p /\ Crash(p)
  BY <1>0, <1>10 DEF TypeOK, Generating, Crash
<1> QED
  BY <1>1, <1>2, <1>3, <1>4, <1>5, <1>6, <1>7, <1>8, <1>9, <1>10
  DEF Export, HostStep

LEMMA GenerateKeysEffect ==
  ASSUME TypeInv, NEW p \in Procs, GenerateKeys(p)
  PROVE  /\ fresh \in 1..MaxKeys /\ fresh' = fresh + 1
         /\ call'[p] # None /\ call'[p].op = "generate"
         /\ call'[p].new = fresh /\ call'[p].pre = statics[p]
         /\ pc'[p] = "master" /\ ret'[p] = None
         /\ UNCHANGED <<master, entries, cached, statics, config, announced,
                       disturbed>>
<1>1. fresh \in 1..MaxKeys /\ fresh \in 0..MaxKeys
  BY KeyAssumption DEF TypeInv, TypeOK, GenerateKeys
<1>2. Begin(p, "generate", None, "worker", fresh) /\ "worker" \in Kinds
  BY DEF GenerateKeys, Kinds
<1>3. /\ call'[p] # None /\ call'[p].op = "generate"
      /\ call'[p].new = fresh /\ call'[p].pre = statics[p]
  BY <1>1, <1>2, BeginEffect
<1> QED
  BY <1>1, <1>3 DEF TypeInv, TypeOK, GenerateKeys, Goto

LEMMA MandateInitEffect ==
  ASSUME TypeInv, NEW p \in Procs, NEW c \in Configs, MandateInit(p, c)
  PROVE  /\ call'[p] # None /\ call'[p] \in Call
         /\ call'[p].op = "init" /\ call'[p].cfg = c
         /\ call'[p].pre = statics[p]
         /\ \A k \in call'[p].found :
               k \in Kinds /\ entries[Named(c, k)] # None
         /\ call'[p].kind =
               IF statics[p]["worker"] = None THEN "worker" ELSE "session"
         /\ \/ /\ \A k \in Kinds : statics[p][k] # None
               /\ config'[p] = c.id /\ pc'[p] = "idle" /\ ret'[p] = "ok"
            \/ /\ \E k \in Kinds : statics[p][k] = None
               /\ config' = config /\ pc'[p] = "master" /\ ret'[p] = None
         /\ UNCHANGED <<master, entries, cached, statics, announced, disturbed>>
<1> DEFINE first == IF statics[p]["worker"] = None THEN "worker" ELSE "session"
<1>1. first \in Kinds /\ Begin(p, "init", c, first, 0) /\ 0 \in 0..MaxKeys
  BY KeyAssumption DEF MandateInit, Kinds
<1>2. /\ call'[p] \in Call /\ call'[p] # None /\ call'[p].op = "init"
      /\ call'[p].cfg = c /\ call'[p].kind = first
      /\ call'[p].pre = statics[p]
      /\ \A k \in call'[p].found :
            Decrypt(entries[Named(c, k)], master) # None
  BY <1>1, BeginEffect
<1>3. \A k \in call'[p].found : k \in Kinds /\ entries[Named(c, k)] # None
  BY <1>2 DEF Decrypt, Call
<1>4. /\ \/ /\ \A k \in Kinds : statics[p][k] # None
            /\ config'[p] = c.id /\ pc'[p] = "idle" /\ ret'[p] = "ok"
         \/ /\ \E k \in Kinds : statics[p][k] = None
            /\ config' = config /\ pc'[p] = "master" /\ ret'[p] = None
      /\ UNCHANGED <<master, entries, cached, statics, announced, disturbed>>
  BY DEF TypeInv, TypeOK, MandateInit, Return, Goto
<1> QED
  BY <1>2, <1>3, <1>4

(* The steps of init_master_key before it fails or succeeds.               *)
MasterStep(p) ==
    MasterCached(p) \/ ReadMaster(p) \/ GenerateMaster(p) \/ PersistMaster(p)

LEMMA MasterStepEffect ==
  ASSUME TypeInv, NEW p \in Procs, MasterStep(p)
  PROVE  /\ pc[p] \in {"master", "master_write"} /\ call[p] # None
         /\ ret[p] = None /\ ret'[p] = None
         /\ SameExport(p) /\ call'[p].kind = call[p].kind
         /\ call[p].faulted => call'[p].faulted
         /\ pc'[p] = "persist" => call[p].op = "generate"
         /\ pc'[p] \in {"master_write", "persist", "load"}
         /\ UNCHANGED <<statics, config, entries, announced, fresh>>
<1>1. /\ pc[p] \in {"master", "master_write"} /\ call[p] # None
      /\ ret[p] = None /\ ret'[p] = None
      /\ UNCHANGED <<statics, config, entries, announced, fresh>>
  BY DEF TypeInv, CallOK, MasterStep, MasterCached, ReadMaster,
         GenerateMaster, PersistMaster
<1>2. /\ pc'[p] = "persist" => call[p].op = "generate"
      /\ pc'[p] \in {"master_write", "persist", "load"}
  BY DEF TypeInv, TypeOK, MasterStep, MasterCached, ReadMaster,
         GenerateMaster, PersistMaster, Goto, AfterMaster
<1>3. /\ SameExport(p) /\ call'[p].kind = call[p].kind
      /\ call[p].faulted => call'[p].faulted
  <2>1. CASE MasterCached(p) \/ ReadMaster(p)
    BY <1>1, <2>1, CallType
    DEF TypeInv, TypeOK, MasterCached, ReadMaster, SameExport
  <2>2. CASE GenerateMaster(p)
    <3>1. PICK m \in MasterKeys : call' =
            [call EXCEPT ![p].master = m, ![p].faulted = @ \/ master # None]
      BY <2>2 DEF GenerateMaster
    <3> QED
      BY <1>1, <3>1, MasterFieldEffect
  <2>3. CASE PersistMaster(p)
    BY <1>1, <2>3, MasterFieldEffect DEF PersistMaster
  <2> QED
    BY <2>1, <2>2, <2>3 DEF MasterStep
<1> QED
  BY <1>1, <1>2, <1>3

LEMMA FreshStep ==
  ASSUME TypeInv, NEW p \in Procs, Export(p) \/ HostStep(p) \/ Crash(p)
  PROVE  /\ fresh' \in {fresh, fresh + 1}
         /\ announced' = announced \/ Persist(p)
         /\ entries' = entries \/ Persist(p)
<1>1. CASE Export(p)
  BY <1>1 DEF Export, GenerateKeys, MandateInit
<1>2. CASE HostStep(p) \/ Crash(p)
  BY <1>2, PersistEffect
  DEF HostStep, MasterCached, ReadMaster, GenerateMaster, PersistMaster,
      MasterWriteFails, MasterMisread, PersistFails, Load, Crash
<1> QED
  BY <1>1, <1>2

LEMMA NumberedStep ==
  ASSUME TypeInv, Numbered, NEW p \in Procs,
         Export(p) \/ HostStep(p) \/ Crash(p)
  PROVE  Numbered'
<1>0. /\ fresh \in Nat /\ announced \subseteq Nat
      /\ \A q \in Procs : Generating(q) =>
             call[q].new \in Nat /\ call[q].new < fresh
  BY KeyAssumption DEF TypeInv, TypeOK, CallOK, Generating
<1>1. \A n \in announced' : n < fresh'
  <2>1. \A n \in announced' : n \in Nat /\ n < fresh
    <3>1. CASE announced' = announced
      BY <1>0, <3>1 DEF Numbered
    <3>2. CASE Persist(p)
      <4>1. announced' \subseteq announced \cup {call[p].new} /\ Generating(p)
        BY <3>2, PersistEffect
      <4> QED
        BY <1>0, <4>1 DEF Numbered
    <3> QED
      BY <3>1, <3>2, FreshStep
  <2> QED
    BY <1>0, <2>1, FreshStep
<1>2. ASSUME NEW q \in Procs, NEW r \in Procs, q # r,
             Generating(q)', Generating(r)'
      PROVE  call'[q].new # call'[r].new
  BY <1>0, <1>2, GeneratingStep, GenerateKeysEffect DEF Numbered
<1> QED
  BY <1>1, <1>2 DEF Numbered

(* A step of p keeps another process q all or nothing: p persists keys of  *)
(* other numbers only.                                                     *)
LEMMA OthersAllOrNothing ==
  ASSUME TypeInv, GenerateOK, NEW p \in Procs,
         Export(p) \/ HostStep(p) \/ Crash(p), NEW q \in Procs, q # p
  PROVE  AllOrNothing(q)'
<1>0. AllOrNothing(q) /\ Untouched(q)
  BY OthersUntouched DEF TypeInv, GenerateOK
<1>1. pc[q] = "persist" => Generating(q)
  BY DEF TypeInv, CallOK, Generating
<1>2. CASE Persist(p)
  <2>1. ASSUME Generating(q), NEW k \in Kinds
        PROVE  entries'[Key(k, call[q].new)] = entries[Key(k, call[q].new)]
    <3>1. call[q].new \in 1..MaxKeys /\ call[q].new # call[p].new
      BY <1>2, <2>1, PersistEffect
      DEF TypeInv, CallOK, Generating, GenerateOK, Numbered
    <3>2. Key(k, call[q].new) \in Keys
      BY <3>1, KeyFields
    <3>3. Key(k, call[q].new) # Key(call[p].kind, call[p].new)
      BY <1>2, <3>1, KeyFields, PersistEffect
    <3> QED
      BY <1>2, <3>2, <3>3, PersistEffect
  <2>2. Generating(q) /\ call[q].new \notin announced =>
            call[q].new \notin announced'
    BY <1>2, PersistEffect DEF GenerateOK, Numbered
  <2>3. "worker" \in Kinds
    BY DEF Kinds
  <2> QED
    BY <1>0, <1>1, <2>1, <2>2, <2>3
    DEF AllOrNothing, Generating, Stored, Untouched
<1>3. CASE UNCHANGED <<entries, announced>>
  BY <1>0, <1>3 DEF AllOrNothing, Generating, Stored, Untouched
<1> QED
  BY <1>2, <1>3, FreshStep

(* And itself.                                                             *)
LEMMA OwnAllOrNothing ==
  ASSUME TypeInv, GenerateOK, NEW p \in Procs,
         Export(p) \/ HostStep(p) \/ Crash(p)
  PROVE  AllOrNothing(p)'
<1>0. TypeOK /\ CallOK /\ AllOrNothing(p) /\ None # "ok"
  BY CallAssumption DEF TypeInv, GenerateOK
<1>1. CASE GenerateKeys(p)
  <2>1. fresh \notin announced
    BY <1>0 DEF TypeOK, GenerateOK, Numbered
  <2> QED
    BY <1>0, <1>1, <2>1, GenerateKeysEffect DEF AllOrNothing, Generating
<1>2. ASSUME NEW c \in Configs, MandateInit(p, c) PROVE AllOrNothing(p)'
  BY <1>2, MandateInitEffect DEF AllOrNothing, Generating
<1>3. CASE MasterMisread(p) /\ call[p].op = "generate"
  <2>1. /\ ret[p] = None /\ Return(p, "err")
        /\ UNCHANGED <<entries, cached, statics, call, announced>>
    BY <1>3, MisreadEffect
  <2>2. pc'[p] = "idle" /\ ret'[p] = "err"
    BY <1>0, <2>1 DEF TypeOK, Return, Goto
  <2> QED
    BY <1>0, <2>1, <2>2 DEF AllOrNothing, Generating
<1>4. CASE MasterStep(p)
  <2>1. pc'[p] = "persist" => call'[p].kind = "worker"
    BY <1>0, <1>4, MasterStepEffect DEF CallOK
  <2> QED
    BY <1>0, <1>4, <2>1, MasterStepEffect
    DEF AllOrNothing, Generating, SameExport
<1>5. CASE MasterWriteFails(p) /\ call[p].op = "generate"
  <2>1. call[p] # None /\ ret[p] = None
    BY <1>0, <1>5 DEF CallOK, MasterWriteFails
  <2>2. SameExport(p)
    BY <1>5, <2>1, MasterFieldEffect DEF MasterWriteFails
  <2>3. pc'[p] = "idle" /\ ret'[p] = "err" /\ UNCHANGED <<statics, announced>>
    BY <1>0, <1>5 DEF TypeOK, MasterWriteFails, Return, Goto
  <2> QED
    BY <1>0, <1>5, <2>1, <2>2, <2>3 DEF AllOrNothing, Generating, SameExport
<1>6. ASSUME call[p] # None, call[p].op = "init", NEW key \in Keys \cup {None},
             NEW fault \in BOOLEAN, TakeKey(p, key, fault)
      PROVE  AllOrNothing(p)'
  <2>1. /\ call'[p].op = "init"
        /\ pc' = [pc EXCEPT ![p] = IF More(p, key) THEN "master" ELSE "idle"]
    BY <1>6, TakeKeyEffect
  <2>2. pc'[p] # "persist"
    BY <1>0, <2>1 DEF TypeOK
  <2> QED
    BY <2>1, <2>2 DEF AllOrNothing, Generating
<1>7. CASE (MasterWriteFails(p) \/ MasterMisread(p)) /\ call[p].op # "generate"
  BY <1>6, <1>7, WriteFailsEffect, MisreadEffect
<1>8. CASE Load(p)
  <2>1. call[p] # None /\ call[p].op = "init"
    BY <1>0, <1>8 DEF CallOK, Load
  <2> QED
    BY <1>6, <1>8, <2>1, LoadEffect
<1>9. CASE Persist(p)
  <2>1. CASE call[p].kind = "worker"
    BY <1>0, <1>9, <2>1, PersistEffect
    DEF AllOrNothing, Generating, Stored, SameExport
  <2>2. CASE call[p].kind = "session"
    <3>1. /\ statics'[p] = Pair(call[p].new) /\ cached[p] \in MasterKeys
          /\ UNCHANGED <<call, cached>> /\ pc'[p] = "idle" /\ ret'[p] = "ok"
      BY <1>9, <2>2, PersistEffect
    <3>2. Stored(p, "session")'
      BY <1>9, <2>2, <3>1, PersistEffect DEF Stored
    <3>3. Stored(p, "worker")'
      <4>1. Key("worker", call[p].new) # Key("session", call[p].new)
        BY KeyFields DEF Kinds
      <4>2. Key("worker", call[p].new) \in Keys
        BY <1>9, PersistEffect, KeyFields DEF Kinds
      <4>3. Stored(p, "worker")
        BY <1>0, <1>9, <2>2 DEF AllOrNothing, Persist
      <4> QED
        BY <1>9, <2>2, <3>1, <4>1, <4>2, <4>3, PersistEffect DEF Stored
    <3> QED
      BY <3>1, <3>2, <3>3 DEF AllOrNothing, Kinds
  <2> QED
    BY <1>9, <2>1, <2>2, PersistEffect DEF Kinds
<1>10. CASE PersistFails(p)
  <2>1. ret[p] = None /\ pc'[p] = "idle" /\ ret'[p] = "err"
        /\ UNCHANGED <<call, statics, announced>>
    BY <1>0, <1>10 DEF TypeOK, CallOK, PersistFails, Return, Goto
  <2> QED
    BY <1>0, <2>1 DEF AllOrNothing, Generating
<1>11. CASE Crash(p)
  BY <1>0, <1>11 DEF TypeOK, AllOrNothing, Generating, Crash, Goto
<1> QED
  BY <1>1, <1>2, <1>3, <1>4, <1>5, <1>7, <1>8, <1>9, <1>10, <1>11
  DEF Export, HostStep, MasterStep

LEMMA GenerateOKStep == TypeInv /\ GenerateOK /\ [Next]_vars => GenerateOK'
<1> SUFFICES ASSUME TypeInv, GenerateOK, [Next]_vars PROVE GenerateOK'
  OBVIOUS
<1>1. ASSUME NEW p \in Procs, Export(p) \/ HostStep(p) \/ Crash(p)
      PROVE  GenerateOK'
  <2>1. Numbered'
    BY <1>1, NumberedStep DEF GenerateOK
  <2>2. \A q \in Procs : AllOrNothing(q)'
    BY <1>1, OthersAllOrNothing, OwnAllOrNothing
  <2>3. ASSUME NEW n \in announced', NEW k \in Kinds
        PROVE  entries'[Key(k, n)] # None
    <3>1. CASE UNCHANGED <<entries, announced>>
      BY <2>3, <3>1 DEF GenerateOK
    <3>2. CASE Persist(p)
      <4> DEFINE key == Key(call[p].kind, call[p].new)
      <4>1. key \in Keys /\ entries'[key] # None
        BY <3>2, PersistEffect, EncryptedFields
      <4>2. n \in 1..MaxKeys
        BY <2>3, <3>2, PersistEffect DEF TypeInv, TypeOK
      <4>3. CASE n \in announced
        BY <2>3, <3>2, <4>1, <4>2, <4>3, PersistEffect, KeyFields DEF GenerateOK
      <4>4. CASE n \notin announced
        <5>1. n = call[p].new /\ ret'[p] = "ok" /\ Generating(p)'
              /\ call'[p].new = n /\ cached' = cached
          BY <2>3, <3>2, <4>4, PersistEffect DEF Generating
        <5>2. Stored(p, k)' /\ cached'[p] \in MasterKeys
          BY <2>2, <2>3, <5>1 DEF AllOrNothing
        <5> QED
          BY <2>3, <4>2, <5>1, <5>2, KeyFields, EncryptedFields DEF Stored
      <4> QED
        BY <4>3, <4>4
    <3> QED
      BY <1>1, <3>1, <3>2, FreshStep
  <2> QED
    BY <2>1, <2>2, <2>3 DEF GenerateOK
<1>2. CASE UNCHANGED vars
  BY <1>2
  DEF GenerateOK, Numbered, AllOrNothing, Generating, Stored, vars
<1> QED
  BY <1>1, <1>2 DEF Next

LEMMA StoreInit == Init => Booted /\ GenerateOK
BY DEF Init, Booted, OneMaster, GenerateOK, Numbered, AllOrNothing, Generating

(* Whatever crashes, failed writes and failed reads of key entries there   *)
(* are, in however many processes, the keys whose ids                      *)
(* mandate_generate_keys returned can be loaded with the persisted master  *)
(* key; only a first boot that was none takes them away.                   *)
THEOREM AnnouncedKeysSurvive == Spec => []KeysSurvive
<1>1. ASSUME TypeInv, Booted, GenerateOK, ~disturbed
      PROVE  KeysSurvive
  <2>1. OneMaster
    BY <1>1 DEF Booted
  <2>2. ASSUME NEW n \in announced, NEW k \in Kinds
        PROVE  Decrypt(entries[Key(k, n)], master) = Key(k, n)
    <3>1. Key(k, n) \in Keys /\ entries[Key(k, n)] # None
      BY <1>1, <2>2, KeyFields DEF TypeInv, TypeOK, GenerateOK
    <3> QED
      BY <1>1, <2>1, <3>1 DEF Booted, OneMaster, Decrypt
  <2> QED
    BY <2>1, <2>2 DEF KeysSurvive, OneMaster
<1>2. TypeInv /\ Booted /\ GenerateOK => KeysSurvive
  BY <1>1 DEF KeysSurvive
<1> QED
  BY <1>2, TypeInit, StoreInit, TypeInvStep, BootedStep, GenerateOKStep, PTL
  DEF Spec

(* mandate_generate_keys is all or nothing for every process: half-way or  *)
(* failed, the old keys stay in use and nobody knows the new ids; once the *)
(* ids are returned, both keys are in use and persisted.                   *)
THEOREM GenerateAtomic == Spec => []GenerateAllOrNothing
<1>1. ASSUME TypeInv, GenerateOK, NEW p \in Procs, Generating(p), NEW k \in Kinds,
             ret[p] = "ok"
      PROVE  Decrypt(entries[Key(k, call[p].new)], cached[p])
                = Key(k, call[p].new)
  <2>1. Stored(p, k) /\ cached[p] \in MasterKeys
    BY <1>1 DEF GenerateOK, AllOrNothing
  <2>2. Key(k, call[p].new) \in Keys
    BY <1>1, KeyFields DEF TypeInv, CallOK, Generating
  <2> QED
    BY <2>1, <2>2, EncryptedFields DEF Stored
<1>2. TypeInv /\ GenerateOK => GenerateAllOrNothing
  BY <1>1 DEF GenerateAllOrNothing, GenerateOK, AllOrNothing, Generating
<1> QED
  BY <1>2, TypeInit, StoreInit, TypeInvStep, GenerateOKStep, PTL DEF Spec

-----------------------------------------------------------------------------
(* mandate_init.                                                           *)

Initing(p) == call[p] # None /\ call[p].op = "init"

Unloadable(p, k) == k \notin call[p].found \/ call[p].faulted \/ disturbed

(* The key that mandate_init put in the static of kind k.                  *)
Chosen(p, k) ==
    \/ /\ statics[p][k] = Named(call[p].cfg, k)
       /\ entries[Named(call[p].cfg, k)] # None
    \/ statics[p][k] = call[p].cfg.hex[k] /\ Unloadable(p, k)

(* What it found when it was called is still true of it.                   *)
FoundOK(p) ==
    /\ \A k \in call[p].found : entries[Named(call[p].cfg, k)] # None
    /\ \A k \in Kinds : call[p].pre[k] # None => statics[p][k] = call[p].pre[k]

(* While it runs, the key it looks for is missing, the session key comes   *)
(* last, and the worker key it has taken is the right one.                 *)
RunningOK(p) ==
    /\ call[p].pre[call[p].kind] = None
    /\ statics[p][call[p].kind] = None
    /\ call[p].kind = "worker" =>
           statics[p]["session"] = call[p].pre["session"]
    /\ call[p].kind = "session" =>
           /\ statics[p]["worker"] # None
           /\ call[p].pre["worker"] = None => Chosen(p, "worker")

(* When it has returned.                                                   *)
ReturnedOK(p) ==
    /\ \A k \in Missing(p) :
          Chosen(p, k) \/ (statics[p][k] = None /\ ret[p] = "err")
    /\ ret[p] = "ok" => /\ config[p] = call[p].cfg.id
                        /\ \A k \in Kinds : statics[p][k] # None
    /\ ret[p] = "err" => \E k \in Missing(p) :
                            call[p].cfg.hex[k] = None /\ Unloadable(p, k)

PriorityOK ==
    \A p \in Procs : Initing(p) =>
        /\ FoundOK(p)
        /\ pc[p] # "idle" => RunningOK(p)
        /\ ret[p] # None => ReturnedOK(p)

(* Entries are never removed, and a disturbed store stays so.              *)
LEMMA StoreGrows ==
  ASSUME TypeInv, NEW p \in Procs, Export(p) \/ HostStep(p) \/ Crash(p)
  PROVE  /\ \A k \in Keys : entries[k] # None => entries'[k] # None
         /\ disturbed => disturbed'
<1>1. CASE Persist(p)
  BY <1>1, PersistEffect, EncryptedFields
<1>2. CASE entries' = entries
  <2>1. disturbed' = disturbed \/ GenerateMaster(p)
    BY DEF Export, GenerateKeys, MandateInit, HostStep, MasterCached,
           ReadMaster, MasterMisread, PersistMaster, MasterWriteFails, Persist,
           PersistFails, Load, Crash
  <2>2. disturbed => disturbed'
    BY <2>1 DEF GenerateMaster
  <2> QED
    BY <1>2, <2>2
<1> QED
  BY <1>1, <1>2, FreshStep

LEMMA InitingType ==
  ASSUME TypeInv, NEW p \in Procs, Initing(p)
  PROVE  /\ call[p] \in Call /\ call[p].cfg \in Configs
         /\ call[p].found \subseteq Kinds /\ call[p].kind \in Kinds
         /\ \A k \in Kinds : Named(call[p].cfg, k) \in Keys
         /\ \A k \in Kinds : Named(call[p].cfg, k) # None
<1>1. call[p] \in Call /\ call[p].cfg \in Configs
  BY CallType DEF TypeInv, CallOK, Initing
<1> QED
  BY <1>1, ConfigType, KeyAssumption DEF Call

LEMMA OthersPriority ==
  ASSUME TypeInv, PriorityOK, NEW p \in Procs,
         Export(p) \/ HostStep(p) \/ Crash(p),
         NEW q \in Procs, q # p, Initing(q)'
  PROVE  /\ FoundOK(q)'
         /\ pc'[q] # "idle" => RunningOK(q)'
         /\ ret'[q] # None => ReturnedOK(q)'
<1>0. Untouched(q)
  BY OthersUntouched DEF TypeInv
<1>1. Initing(q)
  BY <1>0 DEF Untouched, Initing
<1>2. /\ FoundOK(q)
      /\ pc[q] # "idle" => RunningOK(q)
      /\ ret[q] # None => ReturnedOK(q)
  BY <1>1 DEF PriorityOK
<1>3. \A k \in Kinds : /\ Unloadable(q, k) => Unloadable(q, k)'
                       /\ Chosen(q, k) => Chosen(q, k)'
  BY <1>0, <1>1, InitingType, StoreGrows DEF Unloadable, Chosen, Untouched
<1>4. FoundOK(q)'
  BY <1>0, <1>1, <1>2, InitingType, StoreGrows DEF FoundOK, Untouched
<1>5. pc'[q] # "idle" => RunningOK(q)'
  BY <1>0, <1>2, <1>3 DEF RunningOK, Untouched, Kinds
<1>6. Missing(q)' = Missing(q) /\ Missing(q) \subseteq Kinds
  BY <1>0 DEF Missing, Untouched
<1>7. ret'[q] # None => ReturnedOK(q)'
  BY <1>0, <1>2, <1>3, <1>6 DEF ReturnedOK, Untouched
<1> QED
  BY <1>4, <1>5, <1>7

(* mandate_init takes the persisted key, or the one in the config when it  *)
(* could not load one.                                                     *)
LEMMA TakeKeyPriority ==
  ASSUME TypeInv, NEW p \in Procs, Initing(p), FoundOK(p), RunningOK(p),
         ret[p] = None, pc[p] # "idle",
         NEW key \in Keys \cup {None}, NEW fault \in BOOLEAN,
         TakeKey(p, key, fault), UNCHANGED <<entries, disturbed>>,
         \/ /\ key = Named(call[p].cfg, call[p].kind)
            /\ entries[Named(call[p].cfg, call[p].kind)] # None
         \/ /\ key = call[p].cfg.hex[call[p].kind]
            /\ Unloadable(p, call[p].kind) \/ fault
  PROVE  /\ FoundOK(p)'
         /\ pc'[p] # "idle" => RunningOK(p)'
         /\ ret'[p] # None => ReturnedOK(p)'
<1>0. PICK kind \in Kinds : kind = call[p].kind
  BY InitingType
<1>1. /\ call[p] \in Call /\ call[p].cfg \in Configs
      /\ call[p].found \subseteq Kinds
      /\ \A k \in Kinds : Named(call[p].cfg, k) # None
  BY InitingType
<1>2. /\ call'[p].cfg = call[p].cfg
      /\ call'[p].pre = call[p].pre /\ call'[p].found = call[p].found
      /\ call'[p].faulted = (call[p].faulted \/ fault)
      /\ call'[p].kind = IF More(p, key) THEN "session" ELSE kind
      /\ \A k \in Kinds : statics'[p][k] =
             IF key # None /\ k = kind THEN key ELSE statics[p][k]
  BY <1>0, TakeKeyEffect DEF Initing
<1>3. /\ pc'[p] = IF More(p, key) THEN "master" ELSE "idle"
      /\ ret'[p] = IF More(p, key) THEN None
                   ELSE IF key = None THEN "err" ELSE "ok"
      /\ ~More(p, key) /\ key # None => config'[p] = call[p].cfg.id
  BY TakeKeyEffect DEF Initing, TypeInv, TypeOK
<1>4. FoundOK(p)'
  BY <1>0, <1>1, <1>2 DEF FoundOK, RunningOK
<1>5. \A k \in Kinds : Unloadable(p, k) => Unloadable(p, k)'
  BY <1>0, <1>2 DEF Unloadable
<1>6. key # None => Chosen(p, kind)'
  <2>1. key # None => statics'[p][kind] = key
    BY <1>0, <1>1, <1>2
  <2>2. fault => Unloadable(p, kind)'
    BY <1>0, <1>2 DEF Unloadable
  <2> QED
    BY <1>0, <1>2, <1>5, <2>1, <2>2 DEF Chosen
<1>7. "worker" \in Kinds /\ "session" \in Kinds
      /\ \A k \in Kinds : k = "worker" \/ k = "session"
  BY DEF Kinds
<1>8. kind # "worker" /\ Chosen(p, "worker") => Chosen(p, "worker")'
  BY <1>0, <1>2, <1>5, <1>7 DEF Chosen
<1>9. Missing(p)' = Missing(p) /\ Missing(p) = {k \in Kinds : call[p].pre[k] = None}
  BY <1>0, <1>2 DEF Missing
<1>10. CASE More(p, key)
  <2>1. /\ kind = "worker" /\ key # None /\ call'[p].kind = "session"
        /\ call[p].pre["session"] = None
    BY <1>0, <1>2, <1>9, <1>10 DEF More
  <2>2. statics'[p]["worker"] # None /\ statics'[p]["session"] = None
    BY <1>0, <1>2, <1>7, <2>1 DEF RunningOK
  <2>3. RunningOK(p)'
    BY <1>0, <1>2, <1>6, <2>1, <2>2 DEF RunningOK
  <2> QED
    BY <1>0, <1>3, <1>4, <1>10, <2>3
<1>11. CASE ~More(p, key) /\ key # None
  <2>1. statics'[p][kind] # None
    BY <1>0, <1>1, <1>2, <1>11
  <2> DEFINE AllTaken == /\ \A k \in Kinds : statics'[p][k] # None
                         /\ \A k \in Missing(p) : Chosen(p, k)'
  <2>2. ASSUME kind = "session" PROVE AllTaken
    <3>1. statics'[p]["worker"] # None
      BY <1>0, <1>2, <1>7, <2>2 DEF RunningOK
    <3>2. call[p].pre["worker"] = None => Chosen(p, "worker")'
      BY <1>0, <1>8, <2>2 DEF RunningOK
    <3> QED
      BY <1>0, <1>6, <1>7, <1>9, <1>11, <2>1, <2>2, <3>1, <3>2
  <2>3. ASSUME kind = "worker" PROVE AllTaken
    <3>1. call[p].pre["session"] # None
      BY <1>0, <1>7, <1>9, <1>11, <2>3 DEF More
    <3>2. statics'[p]["session"] # None
      BY <1>0, <1>2, <1>7, <2>3, <3>1 DEF FoundOK
    <3> QED
      BY <1>0, <1>6, <1>7, <1>9, <1>11, <2>1, <2>3, <3>1, <3>2
  <2>4. AllTaken
    BY <1>0, <1>1, <1>7, <2>2, <2>3
  <2> QED
    BY <1>0, <1>2, <1>3, <1>4, <1>9, <1>11, <2>4, CallAssumption DEF ReturnedOK
<1>12. CASE key = None
  <2>1. call[p].cfg.hex[kind] = None /\ Unloadable(p, kind)'
    <3>1. fault => Unloadable(p, kind)'
      BY <1>0, <1>2 DEF Unloadable
    <3> QED
      BY <1>0, <1>1, <1>5, <1>12, <3>1
  <2>2. kind \in Missing(p)
    BY <1>0, <1>1, <1>9 DEF RunningOK
  <2>3. \A k \in Missing(p) : Chosen(p, k)' \/ statics'[p][k] = None
    <3>1. \A k \in Kinds : statics'[p][k] = statics[p][k]
      BY <1>0, <1>2, <1>12
    <3>2. CASE kind = "session"
      BY <1>0, <1>7, <1>8, <1>9, <3>1, <3>2 DEF RunningOK
    <3>3. CASE kind = "worker"
      BY <1>0, <1>7, <1>9, <3>1, <3>3 DEF RunningOK
    <3> QED
      BY <1>0, <1>1, <1>7, <3>2, <3>3
  <2> QED
    BY <1>0, <1>2, <1>3, <1>4, <1>9, <1>12, <2>1, <2>2, <2>3, CallAssumption
    DEF More, ReturnedOK
<1> QED
  BY <1>0, <1>10, <1>11, <1>12

(* What Load and a failed write of the master key give to TakeKey.         *)
LEMMA LoadChooses ==
  ASSUME TypeInv, Booted, NEW p \in Procs, Initing(p), FoundOK(p),
         pc[p] = "load",
         NEW b \in Read(entries[Named(call[p].cfg, call[p].kind)])
  PROVE  LET entry == entries[Named(call[p].cfg, call[p].kind)]
             key == Fallback(Decrypt(b, cached[p]),
                             call[p].cfg.hex[call[p].kind])
         IN  \/ /\ key = Named(call[p].cfg, call[p].kind)
                /\ entry # None
             \/ /\ key = call[p].cfg.hex[call[p].kind]
                /\ Unloadable(p, call[p].kind) \/ b # entry
<1> DEFINE named == Named(call[p].cfg, call[p].kind)
           entry == entries[named]
           hex == call[p].cfg.hex[call[p].kind]
<1>1. named \in Keys /\ named # None /\ call[p].kind \in Kinds
  BY InitingType
<1>2. cached[p] \in MasterKeys /\ cached[p] # None
  BY KeyAssumption DEF TypeInv, CallOK
<1>3. CASE b = entry /\ Decrypt(b, cached[p]) # None
  BY <1>1, <1>3 DEF Booted, Decrypt, Fallback
<1>4. CASE b = entry /\ Decrypt(b, cached[p]) = None
  <2>1. ASSUME ~disturbed, entry # None PROVE FALSE
    <3>1. entry.master = cached[p] /\ entry.key = named
      BY <1>1, <1>2, <2>1 DEF Booted, OneMaster
    <3> QED
      BY <1>1, <1>4, <2>1, <3>1 DEF Decrypt
  <2>2. Unloadable(p, call[p].kind)
    BY <2>1 DEF FoundOK, Unloadable
  <2> QED
    BY <1>4, <2>2 DEF Fallback
<1>5. CASE b # entry
  BY <1>5 DEF Read, Decrypt, Fallback
<1> QED
  BY <1>3, <1>4, <1>5

LEMMA PriorityStep ==
  TypeInv /\ Booted /\ PriorityOK /\ [Next]_vars => PriorityOK'
<1> SUFFICES ASSUME TypeInv, Booted, PriorityOK, [Next]_vars PROVE PriorityOK'
  OBVIOUS
<1>0. TypeOK /\ CallOK /\ None \notin {"ok", "err"}
  BY CallAssumption DEF TypeInv
<1> DEFINE OwnOK(p) ==
             Initing(p) => /\ FoundOK(p)
                           /\ pc[p] # "idle" => RunningOK(p)
                           /\ ret[p] # None => ReturnedOK(p)
<1>1. ASSUME NEW p \in Procs, GenerateKeys(p) PROVE OwnOK(p)'
  BY <1>1, GenerateKeysEffect DEF Initing
<1>2. ASSUME NEW p \in Procs, NEW c \in Configs, MandateInit(p, c)
      PROVE  OwnOK(p)'
  <2>1. FoundOK(p)'
    BY <1>2, MandateInitEffect DEF FoundOK
  <2>2. CASE \A k \in Kinds : statics[p][k] # None
    <3>1. pc'[p] = "idle" /\ ret'[p] = "ok" /\ config'[p] = c.id
      BY <1>2, <2>2, MandateInitEffect
    <3>2. Missing(p)' = {}
      BY <1>2, <2>2, MandateInitEffect DEF Missing
    <3>3. ReturnedOK(p)'
      BY <1>0, <1>2, <2>2, <3>1, <3>2, MandateInitEffect DEF ReturnedOK
    <3> QED
      BY <2>1, <3>1, <3>3
  <2>3. CASE \E k \in Kinds : statics[p][k] = None
    <3>1. pc'[p] = "master" /\ ret'[p] = None
      BY <1>2, <2>3, MandateInitEffect
    <3>2. RunningOK(p)'
      BY <1>2, <2>3, MandateInitEffect DEF RunningOK, Kinds
    <3> QED
      BY <2>1, <3>1, <3>2
  <2> QED
    BY <2>2, <2>3
<1>3. ASSUME NEW p \in Procs, MasterMisread(p) PROVE OwnOK(p)'
  <2>1. CASE call[p].op = "generate"
    BY <1>3, <2>1, MisreadEffect DEF Initing
  <2>2. CASE call[p].op # "generate"
    <3>1. /\ Initing(p) /\ pc[p] = "master" /\ ret[p] = None
          /\ UNCHANGED <<entries, disturbed>>
          /\ call[p].cfg.hex[call[p].kind] \in Keys \cup {None}
          /\ TakeKey(p, call[p].cfg.hex[call[p].kind], TRUE)
      BY <1>3, <2>2, MisreadEffect DEF Initing
    <3>2. FoundOK(p) /\ RunningOK(p)
      BY <3>1 DEF PriorityOK
    <3> QED
      BY <3>1, <3>2, TakeKeyPriority
  <2> QED
    BY <2>1, <2>2
<1>4. ASSUME NEW p \in Procs, MasterStep(p) PROVE OwnOK(p)'
  <2> SUFFICES ASSUME Initing(p)' PROVE FoundOK(p)' /\ RunningOK(p)'
    BY <1>4, MasterStepEffect
  <2>1. Initing(p) /\ pc[p] # "idle"
    BY <1>4, MasterStepEffect DEF Initing, SameExport
  <2>2. FoundOK(p) /\ RunningOK(p)
    BY <2>1 DEF PriorityOK
  <2>3. disturbed => disturbed'
    BY <1>4, StoreGrows DEF MasterStep, HostStep
  <2>4. FoundOK(p)'
    BY <1>4, <2>2, MasterStepEffect DEF FoundOK, SameExport
  <2>5. Chosen(p, "worker") => Chosen(p, "worker")'
    BY <1>4, <2>3, MasterStepEffect DEF Chosen, Unloadable, SameExport
  <2>6. RunningOK(p)'
    BY <1>4, <2>2, <2>5, MasterStepEffect DEF RunningOK, SameExport
  <2> QED
    BY <2>4, <2>6
<1>5. ASSUME NEW p \in Procs, MasterWriteFails(p), call[p].op = "generate"
      PROVE  OwnOK(p)'
  <2>1. call[p] # None
    BY <1>0, <1>5 DEF CallOK, MasterWriteFails
  <2> QED
    BY <1>5, <2>1, MasterFieldEffect
    DEF MasterWriteFails, SameExport, Initing
<1>6. ASSUME NEW p \in Procs, MasterWriteFails(p), call[p].op # "generate"
      PROVE  OwnOK(p)'
  <2>1. Initing(p) /\ pc[p] = "master_write" /\ ret[p] = None
        /\ UNCHANGED <<entries, disturbed>>
    BY <1>0, <1>6, WriteFailsEffect DEF Initing, MasterWriteFails, CallOK
  <2>2. FoundOK(p) /\ RunningOK(p)
    BY <2>1 DEF PriorityOK
  <2>3. Unloadable(p, call[p].kind)
    <3>1. ASSUME ~disturbed, call[p].kind \in call[p].found PROVE FALSE
      <4>1. OneMaster /\ master = None
        BY <2>1, <3>1 DEF Booted, OneMaster
      <4>2. Named(call[p].cfg, call[p].kind) \in Keys
        BY <2>1, InitingType
      <4> QED
        BY <2>2, <3>1, <4>1, <4>2, NoMasterNoEntries DEF FoundOK
    <3> QED
      BY <3>1 DEF Unloadable
  <2> QED
    BY <1>6, <2>1, <2>2, <2>3, WriteFailsEffect, TakeKeyPriority
<1>7. ASSUME NEW p \in Procs, Load(p) PROVE OwnOK(p)'
  <2>1. /\ Initing(p) /\ pc[p] = "load" /\ ret[p] = None
        /\ UNCHANGED <<entries, disturbed>>
    BY <1>0, <1>7 DEF Initing, Load, CallOK
  <2>2. FoundOK(p) /\ RunningOK(p)
    BY <2>1 DEF PriorityOK
  <2> DEFINE entry == entries[Named(call[p].cfg, call[p].kind)]
             key(b) == Fallback(Decrypt(b, cached[p]),
                                call[p].cfg.hex[call[p].kind])
  <2>3. PICK b \in Read(entry) :
          /\ TakeKey(p, key(b), b # entry)
          /\ key(b) \in Keys \cup {None}
    BY <1>7, LoadEffect
  <2>4. \/ /\ key(b) = Named(call[p].cfg, call[p].kind)
           /\ entry # None
        \/ /\ key(b) = call[p].cfg.hex[call[p].kind]
           /\ Unloadable(p, call[p].kind) \/ b # entry
    BY <2>1, <2>2, LoadChooses
  <2>5. (b # entry) \in BOOLEAN
    OBVIOUS
  <2> QED
    BY <2>1, <2>2, <2>3, <2>4, <2>5, TakeKeyPriority
<1>8. ASSUME NEW p \in Procs, Persist(p) \/ PersistFails(p) PROVE OwnOK(p)'
  <2>1. call[p].op = "generate"
    BY <1>0, <1>8 DEF CallOK, Persist, PersistFails
  <2>2. CASE Persist(p)
    BY <2>1, <2>2, PersistEffect DEF Initing, SameExport
  <2>3. CASE PersistFails(p)
    BY <2>1, <2>3 DEF PersistFails, Initing
  <2> QED
    BY <1>8, <2>2, <2>3
<1>9. ASSUME NEW p \in Procs, Crash(p) PROVE OwnOK(p)'
  BY <1>0, <1>9 DEF TypeOK, Initing, Crash
<1>10. ASSUME NEW p \in Procs, Export(p) \/ HostStep(p) \/ Crash(p)
       PROVE  PriorityOK'
  <2>1. OwnOK(p)'
    BY <1>1, <1>2, <1>3, <1>4, <1>5, <1>6, <1>7, <1>8, <1>9, <1>10
    DEF Export, HostStep, MasterStep
  <2>2. \A q \in Procs : q # p => OwnOK(q)'
    BY <1>10, OthersPriority
  <2> QED
    BY <2>1, <2>2 DEF PriorityOK
<1>11. CASE UNCHANGED vars
  BY <1>11
  DEF PriorityOK, Initing, FoundOK, RunningOK, ReturnedOK, Chosen, Unloadable,
      Missing, vars
<1> QED
  BY <1>10, <1>11 DEF Next

(* The order of preference that mandate_init documents holds in every      *)
(* process: keys in memory, then the persisted ones, then the config's.    *)
THEOREM InitPrefers == Spec => []InitKeyPriority
<1>1. Init => PriorityOK
  BY DEF Init, PriorityOK, Initing
<1>2. TypeInv /\ PriorityOK => InitKeyPriority
  <2> SUFFICES ASSUME TypeInv, PriorityOK, NEW p \in Procs, Initing(p),
                      ret[p] # None
               PROVE  /\ \A k \in Kinds \ Missing(p) :
                            statics[p][k] = call[p].pre[k]
                      /\ ReturnedOK(p)
    BY DEF InitKeyPriority, Initing, ReturnedOK, Chosen, Unloadable
  <2> QED
    BY DEF PriorityOK, FoundOK, Missing
<1> QED
  BY <1>1, <1>2, TypeInit, StoreInit, TypeInvStep, BootedStep, PriorityStep, PTL
  DEF Spec

-----------------------------------------------------------------------------
(* What the spending path sees of the keys.                                *)

Held(p) == {k \in Kinds : statics[p][k] # None}

Configured(p) == config[p] # None

(* A step that touches the process p alone, in terms of KeySlots.          *)
LEMMA SlotsOfOne ==
  ASSUME NEW p \in Procs, \A q \in Procs : q # p => Untouched(q)
  PROVE  /\ [q \in Procs |-> Held(q)']
               = [[q \in Procs |-> Held(q)] EXCEPT ![p] = Held(p)']
         /\ [q \in Procs |-> Configured(q)']
               = [[q \in Procs |-> Configured(q)] EXCEPT ![p] = Configured(p)']
         /\ Configured(p)' = Configured(p) =>
               [q \in Procs |-> Configured(q)'] = [q \in Procs |-> Configured(q)]
BY DEF Untouched, Held, Configured

LEMMA SlotsGenerate ==
  ASSUME NEW p \in Procs, \A q \in Procs : q # p => Untouched(q),
         Held(p)' = Kinds, Configured(p)' = Configured(p)
  PROVE  Slots!Next
<1>1. Slots!Generate(p)
  BY SlotsOfOne DEF Slots!Generate, Slots!Both, Kinds, Held, Configured
<1> QED
  BY <1>1 DEF Slots!Next

LEMMA SlotsAdd ==
  ASSUME NEW p \in Procs, \A q \in Procs : q # p => Untouched(q),
         NEW kinds \in SUBSET Kinds, "worker" \in Held(p) \cup kinds,
         Held(p)' = Held(p) \cup kinds,
         \/ config'[p] = config[p]
         \/ Held(p)' = Kinds /\ Configured(p)' = TRUE
  PROVE  Slots!Next
<1>1. Slots!Add(p, kinds)
  BY SlotsOfOne DEF Slots!Add, Slots!Both, Kinds, Held, Configured
<1> QED
  BY <1>1 DEF Slots!Next, Slots!Both, Kinds

LEMMA SlotsRestart ==
  ASSUME NEW p \in Procs, \A q \in Procs : q # p => Untouched(q),
         Held(p)' = {}, Configured(p)' = FALSE
  PROVE  Slots!Next
<1>1. Slots!Restart(p)
  BY SlotsOfOne DEF Slots!Restart, Held, Configured
<1> QED
  BY <1>1 DEF Slots!Next

(* mandate_init takes a key: the worker's is there before the session's,   *)
(* and with the config both are.                                           *)
LEMMA SlotsTakeKey ==
  ASSUME TypeInv, PriorityOK, NEW p \in Procs, Initing(p), pc[p] # "idle",
         NEW key \in Keys \cup {None}, NEW fault \in BOOLEAN,
         TakeKey(p, key, fault), \A q \in Procs : q # p => Untouched(q)
  PROVE  Slots!Next \/ UNCHANGED <<statics, config>>
<1>0. FoundOK(p) /\ RunningOK(p) /\ call[p].kind \in Kinds
  BY InitingType DEF PriorityOK
<1>1. CASE key = None
  BY <1>1 DEF TakeKey
<1>2. CASE key # None
  <2>1. PICK kind \in Kinds : kind = call[p].kind
    BY <1>0
  <2>2. Held(p)' = Held(p) \cup {kind}
    BY <1>2, <2>1, TakeKeyEffect DEF Held, Initing
  <2>3. "worker" \in Held(p) \cup {kind}
    BY <1>0, <2>1 DEF Held, RunningOK, Kinds
  <2>4. CASE More(p, key)
    <3>1. config' = config
      BY <2>4, TakeKeyEffect DEF Initing
    <3> QED
      <4>1. config'[p] = config[p] /\ {kind} \in SUBSET Kinds
        BY <3>1
      <4>2. Slots!Next
        BY <2>2, <2>3, <4>1, SlotsAdd
      <4> QED
        BY <4>2
  <2>5. CASE ~More(p, key)
    <3>1. "session" \in Held(p) \cup {kind}
      <4>1. CASE kind = "worker"
        <5>1. call[p].pre["session"] # None /\ "session" \in Kinds
          BY <1>2, <2>1, <2>5, <4>1 DEF More, Missing, Kinds
        <5> QED
          BY <1>0, <5>1 DEF FoundOK, Held
      <4> QED
        BY <4>1 DEF Kinds
    <3>2. Held(p)' = Kinds
      BY <2>2, <2>3, <3>1 DEF Kinds, Held
    <3>3. config'[p] = call[p].cfg.id
      BY <1>2, <2>5, TakeKeyEffect DEF Initing, TypeInv, TypeOK
    <3>4. Configured(p)' = TRUE
      BY <3>3, InitingType, ConfigType DEF Configured
    <3> QED
      BY <2>2, <2>3, <3>2, <3>4, SlotsAdd
  <2> QED
    BY <2>4, <2>5
<1> QED
  BY <1>1, <1>2

(* Wherever its keys come from and whatever fails, every process fills its *)
(* statics as KeySlots says, which is what the spending path goes by.      *)
THEOREM KeysFillSlots == Spec => ImplementsSlots
<1>1. Init => Slots!Init
  <2> SUFFICES ASSUME Init PROVE Slots!Init
    OBVIOUS
  <2>1. \A p \in Procs : {k \in Kinds : statics[p][k] # None} = {}
    BY DEF Init, NoKeys
  <2>2. \A p \in Procs : (config[p] # None) = FALSE
    BY DEF Init
  <2> QED
    BY <2>1, <2>2 DEF Slots!Init
<1>2. TypeInv /\ PriorityOK /\ [Next]_vars => [Slots!Next]_(Slots!slots)
  <2> SUFFICES ASSUME TypeInv, PriorityOK, [Next]_vars
               PROVE  Slots!Next \/ UNCHANGED <<statics, config>>
    BY DEF Slots!slots
  <2>0. TypeOK /\ CallOK
    BY DEF TypeInv
  <2>1. ASSUME NEW p \in Procs, Export(p) \/ HostStep(p) \/ Crash(p)
        PROVE  Slots!Next \/ UNCHANGED <<statics, config>>
    <3>0. \A q \in Procs : q # p => Untouched(q)
      BY <2>0, <2>1, OthersUntouched
    <3>1. ASSUME NEW c \in Configs, MandateInit(p, c)
          PROVE  Slots!Next \/ UNCHANGED <<statics, config>>
      <4>1. CASE \A k \in Kinds : statics[p][k] # None
        <5>1. statics' = statics /\ config'[p] = c.id
          BY <3>1, <4>1, MandateInitEffect
        <5>2. Held(p)' = Kinds /\ Held(p) = Kinds
          BY <4>1, <5>1 DEF Held
        <5>3. Configured(p)' = TRUE
          BY <5>1, ConfigType DEF Configured
        <5> QED
          BY <3>0, <5>2, <5>3, SlotsAdd DEF Kinds
      <4>2. CASE \E k \in Kinds : statics[p][k] = None
        BY <3>1, <4>2, MandateInitEffect
      <4> QED
        BY <4>1, <4>2
    <3>2. CASE MasterWriteFails(p) /\ call[p].op # "generate"
      <4>1. Initing(p) /\ pc[p] # "idle"
        BY <3>2, WriteFailsEffect DEF Initing, MasterWriteFails
      <4> QED
        BY <3>0, <3>2, <4>1, WriteFailsEffect, SlotsTakeKey
    <3>2a. CASE MasterMisread(p) /\ call[p].op # "generate"
      <4>1. /\ Initing(p) /\ pc[p] # "idle"
            /\ \E key \in Keys \cup {None} : TakeKey(p, key, TRUE)
        BY <3>2a, MisreadEffect DEF Initing
      <4> QED
        BY <3>0, <4>1, SlotsTakeKey
    <3>3. CASE Load(p)
      <4>1. Initing(p) /\ pc[p] # "idle"
        BY <2>0, <3>3 DEF Initing, Load, CallOK
      <4>2. \E key \in Keys \cup {None}, fault \in BOOLEAN :
               TakeKey(p, key, fault)
        BY <3>3, LoadEffect
      <4> QED
        BY <3>0, <4>1, <4>2, SlotsTakeKey
    <3>4. CASE Persist(p)
      <4>1. UNCHANGED config
        BY <3>4 DEF Persist
      <4>2. CASE call[p].kind = "worker"
        BY <3>4, <4>1, <4>2 DEF Persist
      <4>3. CASE call[p].kind = "session"
        <5>1. statics'[p] = Pair(call[p].new) /\ call[p].new \in 1..MaxKeys
          BY <3>4, <4>3, PersistEffect
        <5>2. \A k \in Kinds : statics'[p][k] # None
          BY <5>1, KeyFields, KeyAssumption DEF Pair
        <5>3. Held(p)' = Kinds
          BY <5>2 DEF Held
        <5> QED
          BY <3>0, <4>1, <5>3, SlotsGenerate DEF Configured
      <4> QED
        BY <3>4, <4>2, <4>3, PersistEffect DEF Kinds
    <3>5. CASE Crash(p)
      <4>1. statics'[p] = NoKeys /\ config'[p] = None
        BY <2>0, <3>5 DEF TypeOK, Crash
      <4>2. Held(p)' = {}
        BY <4>1 DEF Held, NoKeys
      <4> QED
        BY <3>0, <4>1, <4>2, SlotsRestart DEF Configured
    <3> QED
      BY <2>1, <3>1, <3>2, <3>2a, <3>3, <3>4, <3>5
      DEF Export, GenerateKeys, HostStep, MasterCached, ReadMaster,
          MasterMisread, GenerateMaster, PersistMaster, MasterWriteFails,
          PersistFails
  <2> QED
    BY <2>1 DEF Next, vars
<1>3. Init => PriorityOK
  BY DEF Init, PriorityOK, Initing
<1> QED
  BY <1>1, <1>2, <1>3, TypeInit, StoreInit, TypeInvStep, BootedStep,
     PriorityStep, PTL
  DEF Spec, ImplementsSlots, Slots!Spec

=============================================================================
