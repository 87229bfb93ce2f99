---------------------------- MODULE KeyLifecycle ----------------------------
(***************************************************************************)
(* The private keys: wallet/src/lib.rs (master key and persisted keys) and *)
(* the two mandate exports that put keys to use, mandate_generate_keys and *)
(* mandate_init up to its backend request (TxFlow models what follows).    *)
(*                                                                         *)
(* A process runs one export at a time.  Each host call of an export is    *)
(* one action, because the process can die between two of them and other   *)
(* processes use the same key store; what the export does in memory before *)
(* the next host call belongs to the action.                               *)
(*                                                                         *)
(* A key is its kind and a number, and stands for the private key, for its *)
(* public key and for the key_id, which is a hash of the public key.       *)
(* Numbers are drawn from a counter: getrandom never repeats a key.        *)
(***************************************************************************)
EXTENDS Integers, FiniteSets

CONSTANTS
    Procs,          \* processes that share the host key store
    MasterKeys,     \* master keys that getrandom can produce
    MaxKeys,        \* bound on the pairs generated
    Configs,        \* the configurations that mandate_init is called with
    ReadFaults,     \* whether a host read may fail, or give other bytes
    None

Kinds == {"worker", "session"}

Keys == [kind: Kinds, n: 1..MaxKeys]

(* InitConfig: the ids of the two keys, and the private keys in hex, None  *)
(* when the field is missing, is not hex or does not hold 32 bytes.        *)
InitConfig == [id: [Kinds -> 1..MaxKeys], hex: [Kinds -> Keys \cup {None}]]

ASSUME KeyAssumption ==
    /\ MaxKeys \in Nat
    /\ Configs \subseteq InitConfig
    /\ ReadFaults \in BOOLEAN
    /\ None \notin MasterKeys
    /\ None \notin Keys

VARIABLES
    master,     \* entry "arysen_master"
    entries,    \* entries "arysen_worker:<id>" and "arysen_session:<id>"
    cached,     \* MASTER_KEY of each process
    statics,    \* its WORKER_KEY and SESSION_KEY
    config,     \* the key ids in its BACKEND_CONFIG
    pc,         \* where it is in an export
    call,       \* the export: arguments, locals and, for the properties,
                \* the statics and loadable kinds it found, and read errors
    ret,        \* what its last export returned
    fresh,      \* the next number of a generated key
    announced,  \* history: the pairs that mandate_generate_keys returned
    disturbed   \* history: a first boot that was none, see GenerateMaster

host == <<master, entries>>
memory == <<cached, statics, config>>
history == <<fresh, announced, disturbed>>
vars == <<host, memory, pc, call, ret, history>>

(* What encrypt_key makes of a private key: decrypt_key gives it back      *)
(* under the same master key and fails under any other.                    *)
Blob == [master: MasterKeys, key: Keys]

Statics == [Kinds -> Keys \cup {None}]

Call == [op: {"generate", "init"}, cfg: Configs \cup {None}, kind: Kinds,
         new: 0..MaxKeys, master: MasterKeys \cup {None}, pre: Statics,
         found: SUBSET Kinds, faulted: BOOLEAN]

ASSUME CallAssumption ==
    /\ None \notin Blob
    /\ None \notin Call
    /\ None \notin Configs
    /\ None \notin {"ok", "err"}
    /\ None \notin [Kinds -> 1..MaxKeys]

Steps == {"master", "master_write", "persist", "load"}

TypeOK ==
    /\ master \in MasterKeys \cup {None}
    /\ entries \in [Keys -> Blob \cup {None}]
    /\ cached \in [Procs -> MasterKeys \cup {None}]
    /\ statics \in [Procs -> Statics]
    /\ config \in [Procs -> [Kinds -> 1..MaxKeys] \cup {None}]
    /\ pc \in [Procs -> Steps \cup {"idle"}]
    /\ call \in [Procs -> Call \cup {None}]
    /\ ret \in [Procs -> {"ok", "err", None}]
    /\ fresh \in 1..MaxKeys + 1
    /\ announced \subseteq 1..MaxKeys
    /\ disturbed \in BOOLEAN

NoKeys == [k \in Kinds |-> None]

Init ==
    /\ master = None
    /\ entries = [k \in Keys |-> None]
    /\ cached = [p \in Procs |-> None]
    /\ statics = [p \in Procs |-> NoKeys]
    /\ config = [p \in Procs |-> None]
    /\ pc = [p \in Procs |-> "idle"]
    /\ call = [p \in Procs |-> None]
    /\ ret = [p \in Procs |-> None]
    /\ fresh = 1
    /\ announced = {}
    /\ disturbed = FALSE

-----------------------------------------------------------------------------
Key(kind, n) == [kind |-> kind, n |-> n]

Pair(n) == [k \in Kinds |-> Key(k, n)]

(* host_key_store_read: None when the entry is missing or the read fails.  *)
Read(x) == {x} \cup (IF ReadFaults THEN {None} ELSE {})

(* decrypt_key *)
Decrypt(b, m) == IF b # None /\ b.master = m THEN b.key ELSE None

(* The entry that mandate_init looks for.                                  *)
Named(c, kind) == Key(kind, c.id[kind])

(* The kinds that mandate_init has to load: those not in the statics when  *)
(* it was called (has_worker, has_session).                                *)
Missing(p) == {k \in Kinds : call[p].pre[k] = None}

(* getrandom: a fresh master key equals none in use.                       *)
MastersInUse ==
    {master} \cup {cached[p] : p \in Procs}
        \cup {call[p].master : p \in {q \in Procs : call[q] # None}}
        \cup {entries[k].master : k \in {j \in Keys : entries[j] # None}}

-----------------------------------------------------------------------------
Goto(p, l) == pc' = [pc EXCEPT ![p] = l]

Return(p, r) ==
    /\ Goto(p, "idle")
    /\ ret' = [ret EXCEPT ![p] = r]

Begin(p, op, c, kind, new) ==
    call' = [call EXCEPT ![p] =
        [op |-> op, cfg |-> c, kind |-> kind, new |-> new, master |-> None,
         pre |-> statics[p],
         found |-> {k \in Kinds : /\ c # None
                                  /\ Decrypt(entries[Named(c, k)], master)
                                        # None},
         faulted |-> FALSE]]

(* Mutant: mandate_generate_keys without init_master_key.                  *)
Mut_GenerateWithoutMaster(p) ==
    /\ pc[p] = "idle"
    /\ fresh <= MaxKeys
    /\ Begin(p, "generate", None, "worker", fresh)
    /\ fresh' = fresh + 1
    /\ Goto(p, "persist")
    /\ ret' = [ret EXCEPT ![p] = None]
    /\ UNCHANGED <<host, memory, announced, disturbed>>

(* mandate_generate_keys: init_master_key comes first.                     *)
GenerateKeys(p) ==
    /\ pc[p] = "idle"
    /\ fresh <= MaxKeys
    /\ Begin(p, "generate", None, "worker", fresh)
    /\ fresh' = fresh + 1
    /\ Goto(p, "master")
    /\ ret' = [ret EXCEPT ![p] = None]
    /\ UNCHANGED <<host, memory, announced, disturbed>>

(* mandate_init: keys already in the statics stay; with both there the     *)
(* config is stored at once.                                               *)
MandateInit(p, c) ==
    /\ pc[p] = "idle"
    /\ Begin(p, "init", c,
             IF statics[p]["worker"] = None THEN "worker" ELSE "session", 0)
    /\ IF \A k \in Kinds : statics[p][k] # None
       THEN Return(p, "ok") /\ config' = [config EXCEPT ![p] = c.id]
       ELSE /\ Goto(p, "master")
            /\ ret' = [ret EXCEPT ![p] = None]
            /\ UNCHANGED config
    /\ UNCHANGED <<host, cached, statics, history>>

-----------------------------------------------------------------------------
(* Mutant: the config is stored before the session key is looked for.      *)
Mut_ConfigFirst(p, key, fault) ==
    LET kind == call[p].kind
        more == key # None /\ kind = "worker" /\ "session" \in Missing(p)
    IN  /\ statics' = IF key = None THEN statics
                      ELSE [statics EXCEPT ![p][kind] = key]
        /\ call' = [call EXCEPT ![p].kind = IF more THEN "session" ELSE @,
                                ![p].faulted = @ \/ fault,
                                ![p].master = None]
        /\ IF more
           THEN Goto(p, "master") /\ UNCHANGED ret
           ELSE Return(p, IF key = None THEN "err" ELSE "ok")
        /\ config' = IF key = None THEN config
                     ELSE [config EXCEPT ![p] = call[p].cfg.id]

(* mandate_init, once it knows which key to take: `key` is what the store  *)
(* gave, else the key in the config, else None and the export fails.  A    *)
(* worker key that was set before the failure stays set.                   *)
TakeKey(p, key, fault) ==
    LET kind == call[p].kind
        more == /\ key # None
                /\ kind = "worker"
                /\ "session" \in Missing(p)
    IN  /\ statics' = IF key = None THEN statics
                      ELSE [statics EXCEPT ![p][kind] = key]
        /\ call' = [call EXCEPT ![p].kind = IF more THEN "session" ELSE @,
                                ![p].faulted = @ \/ fault,
                                ![p].master = None]
        /\ IF more
           THEN Goto(p, "master") /\ UNCHANGED ret
           ELSE Return(p, IF key = None THEN "err" ELSE "ok")
        /\ config' = IF more \/ key = None THEN config
                     ELSE [config EXCEPT ![p] = call[p].cfg.id]

-----------------------------------------------------------------------------
(* init_master_key *)

(* Where an export goes on once the master key is cached.                  *)
AfterMaster(p) == IF call[p].op = "generate" THEN "persist" ELSE "load"

MasterCached(p) ==
    /\ pc[p] = "master"
    /\ cached[p] # None
    /\ Goto(p, AfterMaster(p))
    /\ UNCHANGED <<host, memory, call, ret, history>>

ReadMaster(p) ==
    /\ pc[p] = "master"
    /\ cached[p] = None
    /\ master # None
    /\ cached' = [cached EXCEPT ![p] = master]
    /\ Goto(p, AfterMaster(p))
    /\ UNCHANGED <<host, statics, config, call, ret, history>>

(* The read gave something that is not 32 bytes: init_master_key fails,    *)
(* which is an error for mandate_generate_keys, while mandate_init goes on *)
(* with the config.                                                        *)
MasterMisread(p) ==
    /\ pc[p] = "master"
    /\ cached[p] = None
    /\ master # None
    /\ ReadFaults
    /\ IF call[p].op = "generate"
       THEN Return(p, "err") /\ UNCHANGED <<statics, config, call>>
       ELSE TakeKey(p, call[p].cfg.hex[call[p].kind], TRUE)
    /\ UNCHANGED <<host, cached, history>>

(* The read gave None, "first boot": a fresh key is generated.  It is no   *)
(* first boot, and `disturbed` notes it, if there is a master key that the *)
(* read failed to return, or if another process is about to write one.     *)
GenerateMaster(p) ==
    /\ pc[p] = "master"
    /\ cached[p] = None
    /\ None \in Read(master)
    /\ \E k \in MasterKeys \ MastersInUse :
        call' = [call EXCEPT ![p].master = k, ![p].faulted = @ \/ master # None]
    /\ disturbed' = \/ disturbed
                    \/ master # None
                    \/ \E q \in Procs \ {p} : pc[q] = "master_write"
    /\ Goto(p, "master_write")
    /\ UNCHANGED <<host, memory, ret, fresh, announced>>

PersistMaster(p) ==
    /\ pc[p] = "master_write"
    /\ master' = call[p].master
    /\ cached' = [cached EXCEPT ![p] = call[p].master]
    /\ call' = [call EXCEPT ![p].master = None]
    /\ Goto(p, AfterMaster(p))
    /\ UNCHANGED <<entries, statics, config, ret, history>>

(* Mutant: the generated key is cached before the write that fails.        *)
Mut_CachedBeforePersisted(p) ==
    /\ pc[p] = "master_write"
    /\ cached' = [cached EXCEPT ![p] = call[p].master]
    /\ IF call[p].op = "generate"
       THEN /\ Return(p, "err")
            /\ call' = [call EXCEPT ![p].master = None]
            /\ UNCHANGED <<statics, config>>
       ELSE TakeKey(p, call[p].cfg.hex[call[p].kind], FALSE)
    /\ UNCHANGED <<host, history>>

(* The write fails, and init_master_key with it: an error for              *)
(* mandate_generate_keys, while mandate_init goes on with the config.      *)
MasterWriteFails(p) ==
    /\ pc[p] = "master_write"
    /\ IF call[p].op = "generate"
       THEN /\ Return(p, "err")
            /\ call' = [call EXCEPT ![p].master = None]
            /\ UNCHANGED <<statics, config>>
       ELSE TakeKey(p, call[p].cfg.hex[call[p].kind], FALSE)
    /\ UNCHANGED <<host, cached, history>>

-----------------------------------------------------------------------------
(* persist_key and load_key *)

Persisted(p) ==
    entries' = [entries EXCEPT ![Key(call[p].kind, call[p].new)] =
                   [master |-> cached[p], key |-> Key(call[p].kind, call[p].new)]]

(* Mutant: each key goes to its static as soon as it is persisted.         *)
Mut_CacheEachKey(p) ==
    /\ pc[p] = "persist"
    /\ Persisted(p)
    /\ statics' = [statics EXCEPT ![p][call[p].kind] =
                      Key(call[p].kind, call[p].new)]
    /\ IF call[p].kind = "worker"
       THEN /\ call' = [call EXCEPT ![p].kind = "session"]
            /\ UNCHANGED <<pc, ret, announced>>
       ELSE /\ announced' = announced \cup {call[p].new}
            /\ Return(p, "ok")
            /\ UNCHANGED call
    /\ UNCHANGED <<master, cached, config, fresh, disturbed>>

(* The worker key, then the session key; then both go to the statics, and  *)
(* the ids to the caller.                                                  *)
Persist(p) ==
    /\ pc[p] = "persist"
    /\ Persisted(p)
    /\ IF call[p].kind = "worker"
       THEN /\ call' = [call EXCEPT ![p].kind = "session"]
            /\ UNCHANGED <<statics, pc, ret, announced>>
       ELSE /\ statics' = [statics EXCEPT ![p] = Pair(call[p].new)]
            /\ announced' = announced \cup {call[p].new}
            /\ Return(p, "ok")
            /\ UNCHANGED call
    /\ UNCHANGED <<master, cached, config, fresh, disturbed>>

PersistFails(p) ==
    /\ pc[p] = "persist"
    /\ Return(p, "err")
    /\ UNCHANGED <<host, memory, call, history>>

(* Mutant: the key in the config is preferred to the persisted one.        *)
Mut_LoadHexFirst(loaded, hex) == IF hex # None THEN hex ELSE loaded

(* "Fall back to config hex if still not loaded".  What does not decrypt,  *)
(* or not to 32 bytes, is not loaded: a misread entry is like a missing    *)
(* one.                                                                    *)
Fallback(loaded, hex) == IF loaded # None THEN loaded ELSE hex

Load(p) ==
    /\ pc[p] = "load"
    /\ LET kind == call[p].kind
           entry == entries[Named(call[p].cfg, kind)]
       IN  \E b \in Read(entry) :
             TakeKey(p, Fallback(Decrypt(b, cached[p]), call[p].cfg.hex[kind]),
                     b # entry)
    /\ UNCHANGED <<host, cached, history>>

-----------------------------------------------------------------------------
(* The process dies and is started again: the key store survives.          *)
Crash(p) ==
    /\ Goto(p, "idle")
    /\ cached' = [cached EXCEPT ![p] = None]
    /\ statics' = [statics EXCEPT ![p] = NoKeys]
    /\ config' = [config EXCEPT ![p] = None]
    /\ call' = [call EXCEPT ![p] = None]
    /\ ret' = [ret EXCEPT ![p] = None]
    /\ UNCHANGED <<host, fresh, announced, disturbed>>

Export(p) ==
    \/ GenerateKeys(p)
    \/ \E c \in Configs : MandateInit(p, c)

HostStep(p) ==
    \/ MasterCached(p)
    \/ ReadMaster(p)
    \/ MasterMisread(p)
    \/ GenerateMaster(p)
    \/ PersistMaster(p)
    \/ MasterWriteFails(p)
    \/ Persist(p)
    \/ PersistFails(p)
    \/ Load(p)

Next == \E p \in Procs : Export(p) \/ HostStep(p) \/ Crash(p)

Spec == Init /\ [][Next]_vars

-----------------------------------------------------------------------------
(* Properties *)

(* Every key pair whose ids mandate_generate_keys returned can be loaded   *)
(* with the persisted master key, and processes work with no other master  *)
(* key, whatever crashes, failed writes and failed reads of key entries    *)
(* there are.  Only a failed read of the master key, or two first boots at *)
(* once, can take the keys away (init_master_key reads both as "absent").  *)
KeysSurvive ==
    ~disturbed =>
        /\ \A p \in Procs : cached[p] \in {None, master}
        /\ \A n \in announced, k \in Kinds :
               Decrypt(entries[Key(k, n)], master) = Key(k, n)

(* mandate_generate_keys is all or nothing for the process, although it    *)
(* persists the keys one by one: until it returns the new ids, and if it   *)
(* fails half-way, the process signs with the keys it had and nobody knows *)
(* the new ids; once it returns them, both keys are in use and persisted.  *)
GenerateAllOrNothing ==
    \A p \in Procs : call[p] # None /\ call[p].op = "generate" =>
        LET new == call[p].new
        IN  IF ret[p] = "ok"
            THEN /\ statics[p] = Pair(new)
                 /\ \A k \in Kinds :
                       Decrypt(entries[Key(k, new)], cached[p]) = Key(k, new)
            ELSE statics[p] = call[p].pre /\ new \notin announced

(* The order of preference that lib.rs:358 gives.  A mandate_init that     *)
(* returns leaves the keys that were in the statics alone, whatever ids    *)
(* the config names; any other key is the one persisted under the id, and  *)
(* the config's own key is taken, or missed, only if there was none that   *)
(* the process could load when it was called.  The config of a failed      *)
(* call is not stored.                                                     *)
InitKeyPriority ==
    \A p \in Procs : call[p] # None /\ call[p].op = "init" /\ ret[p] # None =>
        LET c == call[p].cfg
            Unloadable(k) == k \notin call[p].found \/ call[p].faulted \/ disturbed
        IN  /\ \A k \in Kinds \ Missing(p) : statics[p][k] = call[p].pre[k]
            /\ \A k \in Missing(p) :
                  \/ statics[p][k] = Named(c, k) /\ entries[Named(c, k)] # None
                  \/ statics[p][k] = c.hex[k] /\ Unloadable(k)
                  \/ statics[p][k] = None /\ ret[p] = "err"
            /\ ret[p] = "ok" => /\ config[p] = c.id
                                /\ \A k \in Kinds : statics[p][k] # None
            /\ ret[p] = "err" => \E k \in Missing(p) :
                                    c.hex[k] = None /\ Unloadable(k)

(* In every process the statics fill up as the spending path takes for     *)
(* granted (KeySlots): both at once or worker first, none taken away but by a      *)
(* restart, and a config only with both keys, whatever fails in between.   *)
Slots ==
    INSTANCE KeySlots WITH
        filled <- [p \in Procs |-> {k \in Kinds : statics[p][k] # None}],
        ready <- [p \in Procs |-> config[p] # None]

ImplementsSlots == Slots!Spec

=============================================================================
