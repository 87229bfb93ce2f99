---------------------------- MODULE SecretVault -----------------------------
(***************************************************************************)
(* mandate/src/secrets.rs over the host key store (wallet/src/lib.rs).     *)
(*                                                                         *)
(* A vault call is a sequence of host calls: read or create the master     *)
(* key, write or read the blob, read and write the index of names.  Each   *)
(* host call is one action, because a process can die between two of them  *)
(* and other processes use the same platform keychain.  Within a process   *)
(* the VAULT mutex admits one call at a time.                              *)
(*                                                                         *)
(* A blob is the pair of the key it was encrypted with and the plaintext:  *)
(* AES-GCM decrypts it under that key and fails under any other.  The      *)
(* index is the set of listed names.  host_key_store_read returns None for *)
(* a missing entry, for one over 4096 bytes and for any other host error.  *)
(***************************************************************************)
EXTENDS Integers, FiniteSets

CONSTANTS
    Procs,          \* processes that share the keychain
    Names,          \* secret names
    Values,         \* plaintexts
    LargeValues,    \* those whose blob exceeds the read buffer
    MasterKeys,     \* keys that getrandom can produce
    IndexCap,       \* how many names the read buffer can hold
    ReadFaults,     \* whether a host read may fail or be misread
    None

ASSUME VaultAssumption ==
    /\ LargeValues \subseteq Values
    /\ IndexCap \in Nat
    /\ ReadFaults \in BOOLEAN
    /\ None \notin MasterKeys
    /\ None \notin Values
    /\ None \notin Names
    /\ IsFiniteSet(Names)

VARIABLES
    master,     \* entry "arysen_secrets_master"
    blobs,      \* entries "arysen_secrets:<name>"
    index,      \* entry "arysen_secrets_index"
    cached,     \* SecretVault.master_key of each process
    pc,         \* where each process is in its vault call
    call,       \* the call: operation, arguments and locals
    ret,        \* what its last call returned
    before      \* history: the secrets as that call found them

store == <<master, blobs, index>>
vars == <<store, cached, pc, call, ret, before>>

Blob == [key: MasterKeys, value: Values]

Ops == {"deposit", "retrieve", "remove", "list"}

Call == [op: Ops, name: Names \cup {None}, value: Values \cup {None},
         key: MasterKeys \cup {None}, names: SUBSET Names, found: BOOLEAN]

Steps == {"key", "key_write", "blob_write", "blob_read",
          "index", "index_write"}

ASSUME BlobAssumption == None \notin Blob /\ None \notin Call

(* The bool, Option or Vec that a call returns.                            *)
Result == [ok: BOOLEAN, value: Values \cup {None}, names: SUBSET Names]

Failed == [ok |-> FALSE, value |-> None, names |-> {}]

TypeOK ==
    /\ master \in MasterKeys \cup {None}
    /\ blobs \in [Names -> Blob \cup {None}]
    /\ index \subseteq Names
    /\ cached \in [Procs -> MasterKeys \cup {None}]
    /\ pc \in [Procs -> Steps \cup {"idle"}]
    /\ call \in [Procs -> Call \cup {None}]
    /\ ret \in [Procs -> Result \cup {None}]

(* The secrets as retrieve sees them: listed, and encrypted under the key  *)
(* that the key store holds.                                               *)
View ==
    [n \in {m \in index : blobs[m] # None /\ blobs[m].key = master} |->
        blobs[n].value]

Init ==
    /\ master = None
    /\ blobs = [n \in Names |-> None]
    /\ index = {}
    /\ cached = [p \in Procs |-> None]
    /\ pc = [p \in Procs |-> "idle"]
    /\ call = [p \in Procs |-> None]
    /\ ret = [p \in Procs |-> None]
    /\ before = [p \in Procs |-> View]

-----------------------------------------------------------------------------
(* host_key_store_read of an entry x that fits, or not, the read buffer,   *)
(* where `none` is what the caller makes of None.                          *)
Read(x, fits, none) ==
    (IF fits THEN {x} ELSE {none}) \cup (IF ReadFaults THEN {none} ELSE {})

ReadIndexResults == Read(index, Cardinality(index) <= IndexCap, {})

ReadBlobResults(n) ==
    Read(blobs[n], blobs[n] # None => blobs[n].value \notin LargeValues, None)

KeysInUse ==
    {master} \cup {cached[p] : p \in Procs}
        \cup {call[p].key : p \in {q \in Procs : call[q] # None}}
        \cup {blobs[n].key : n \in {m \in Names : blobs[m] # None}}

-----------------------------------------------------------------------------
Goto(p, l) == pc' = [pc EXCEPT ![p] = l]

Return(p, r) ==
    /\ Goto(p, "idle")
    /\ ret' = [ret EXCEPT ![p] = r]
    /\ UNCHANGED <<call, before>>

Begin(p, l, op, n, v) ==
    /\ pc[p] = "idle"
    /\ Goto(p, l)
    /\ call' = [call EXCEPT ![p] = [op |-> op, name |-> n, value |-> v,
                                    key |-> None, names |-> {},
                                    found |-> FALSE]]
    /\ ret' = [ret EXCEPT ![p] = None]
    /\ before' = [before EXCEPT ![p] = View]
    /\ UNCHANGED <<store, cached>>

(* Mutant: deposit without ensure_master_key.                              *)
Mut_DepositWithoutKey(p, n, v) == Begin(p, "blob_write", "deposit", n, v)

Deposit(p, n, v) == Begin(p, "key", "deposit", n, v)
Retrieve(p, n) == Begin(p, "index", "retrieve", n, None)
RemoveSecret(p, n) == Begin(p, "index", "remove", n, None)
ListNames(p) == Begin(p, "index", "list", None, None)

-----------------------------------------------------------------------------
(* ensure_master_key *)

(* Mutant: deposit updates the index and forgets the blob.                 *)
Mut_IndexWithoutBlob(p) ==
    IF call[p].op = "deposit" THEN "index" ELSE "blob_read"

(* Where a call goes on once the master key is cached.                     *)
AfterKey(p) == IF call[p].op = "deposit" THEN "blob_write" ELSE "blob_read"

KeyCached(p) ==
    /\ pc[p] = "key"
    /\ cached[p] # None
    /\ Goto(p, AfterKey(p))
    /\ UNCHANGED <<store, cached, call, ret, before>>

LoadKey(p) ==
    /\ pc[p] = "key"
    /\ cached[p] = None
    /\ master # None
    /\ cached' = [cached EXCEPT ![p] = master]
    /\ Goto(p, AfterKey(p))
    /\ UNCHANGED <<store, call, ret, before>>

(* The read gave something that is not 32 bytes long: an error, although   *)
(* every key that a process writes has 32.                                 *)
MasterMisread(p) ==
    /\ pc[p] = "key"
    /\ cached[p] = None
    /\ master # None
    /\ ReadFaults
    /\ Return(p, Failed)
    /\ UNCHANGED <<store, cached>>

(* The read gave None: a fresh key is generated.                           *)
GenerateKey(p) ==
    /\ pc[p] = "key"
    /\ cached[p] = None
    /\ None \in Read(master, TRUE, None)
    /\ \E k \in MasterKeys \ KeysInUse : call' = [call EXCEPT ![p].key = k]
    /\ Goto(p, "key_write")
    /\ UNCHANGED <<store, cached, ret, before>>

PersistKey(p) ==
    /\ pc[p] = "key_write"
    /\ master' = call[p].key
    /\ cached' = [cached EXCEPT ![p] = call[p].key]
    /\ Goto(p, AfterKey(p))
    /\ UNCHANGED <<blobs, index, call, ret, before>>

(* Mutant: a generated key is cached although it could not be persisted.   *)
Mut_CachedBeforePersisted(p) ==
    /\ pc[p] \in {"key_write", "blob_write", "index_write"}
    /\ Return(p, Failed)
    /\ cached' = IF pc[p] = "key_write"
                 THEN [cached EXCEPT ![p] = call[p].key] ELSE cached
    /\ UNCHANGED store

(* Mutant: deposit ignores the result of add_to_index.                     *)
Mut_IndexErrorIgnored(p) ==
    /\ pc[p] \in {"key_write", "blob_write", "index_write"}
    /\ Return(p, [Failed EXCEPT !.ok = /\ call[p].op = "deposit"
                                       /\ pc[p] = "index_write"])
    /\ UNCHANGED <<store, cached>>

(* A failed host write ends the call: false, or None from retrieve.        *)
WriteFails(p) ==
    /\ pc[p] \in {"key_write", "blob_write", "index_write"}
    /\ Return(p, Failed)
    /\ UNCHANGED <<store, cached>>

-----------------------------------------------------------------------------
(* Blobs *)

WriteBlob(p) ==
    /\ pc[p] = "blob_write"
    /\ blobs' = [blobs EXCEPT ![call[p].name] =
                    [key |-> cached[p], value |-> call[p].value]]
    /\ Goto(p, "index")
    /\ UNCHANGED <<master, index, cached, call, ret, before>>

Decrypt(b, k) == IF b # None /\ b.key = k THEN b.value ELSE None

ReadBlob(p) ==
    /\ pc[p] = "blob_read"
    /\ \E b \in ReadBlobResults(call[p].name) :
        LET v == Decrypt(b, cached[p])
        IN  Return(p, [Failed EXCEPT !.ok = v # None, !.value = v])
    /\ UNCHANGED <<store, cached>>

-----------------------------------------------------------------------------
(* The index *)

WithNames(p, names, found) ==
    /\ call' = [call EXCEPT ![p].names = names, ![p].found = found]
    /\ Goto(p, "index_write")
    /\ UNCHANGED <<ret, before>>

(* add_to_index *)
IndexForDeposit(p) ==
    /\ pc[p] = "index"
    /\ call[p].op = "deposit"
    /\ \E names \in ReadIndexResults :
        IF call[p].name \in names
        THEN Return(p, [Failed EXCEPT !.ok = TRUE])
        ELSE WithNames(p, names \cup {call[p].name}, TRUE)
    /\ UNCHANGED <<store, cached>>

(* Mutant: retain keeps the removed name and drops the others.             *)
Mut_RetainInverted(p) ==
    /\ pc[p] = "index"
    /\ call[p].op = "remove"
    /\ \E names \in ReadIndexResults :
        WithNames(p, names \cap {call[p].name}, call[p].name \in names)
    /\ UNCHANGED <<store, cached>>

(* remove_from_index: saved even when the name was not there.              *)
IndexForRemove(p) ==
    /\ pc[p] = "index"
    /\ call[p].op = "remove"
    /\ \E names \in ReadIndexResults :
        WithNames(p, names \ {call[p].name}, call[p].name \in names)
    /\ UNCHANGED <<store, cached>>

IndexForRetrieve(p) ==
    /\ pc[p] = "index"
    /\ call[p].op = "retrieve"
    /\ \E names \in ReadIndexResults :
        IF call[p].name \in names
        THEN Goto(p, "key") /\ UNCHANGED <<call, ret, before>>
        ELSE Return(p, Failed)
    /\ UNCHANGED <<store, cached>>

IndexForList(p) ==
    /\ pc[p] = "index"
    /\ call[p].op = "list"
    /\ \E names \in ReadIndexResults :
        Return(p, [Failed EXCEPT !.ok = TRUE, !.names = names])
    /\ UNCHANGED <<store, cached>>

(* save_secret_names_index *)
WriteIndex(p) ==
    /\ pc[p] = "index_write"
    /\ index' = call[p].names
    /\ Return(p, [Failed EXCEPT !.ok = call[p].found])
    /\ UNCHANGED <<master, blobs, cached>>

-----------------------------------------------------------------------------
(* The process dies and is started again: the key store survives.          *)
Crash(p) ==
    /\ Goto(p, "idle")
    /\ cached' = [cached EXCEPT ![p] = None]
    /\ call' = [call EXCEPT ![p] = None]
    /\ ret' = [ret EXCEPT ![p] = None]
    /\ before' = [before EXCEPT ![p] = View]
    /\ UNCHANGED store

HostStep(p) ==
    \/ KeyCached(p)
    \/ LoadKey(p)
    \/ MasterMisread(p)
    \/ GenerateKey(p)
    \/ PersistKey(p)
    \/ WriteFails(p)
    \/ WriteBlob(p)
    \/ ReadBlob(p)
    \/ IndexForDeposit(p)
    \/ IndexForRemove(p)
    \/ IndexForRetrieve(p)
    \/ IndexForList(p)
    \/ WriteIndex(p)

Export(p) ==
    \/ \E n \in Names, v \in Values : Deposit(p, n, v)
    \/ \E n \in Names : Retrieve(p, n)
    \/ \E n \in Names : RemoveSecret(p, n)
    \/ ListNames(p)

Next == \E p \in Procs : Export(p) \/ HostStep(p) \/ Crash(p)

Spec == Init /\ [][Next]_vars

-----------------------------------------------------------------------------
(* Properties *)

(* A name is listed only after its blob is in the key store, and blobs are *)
(* never deleted: no crash, failed write, failed or truncated read, and no *)
(* interleaving of processes lists a name that has nothing behind it.      *)
IndexedHasBlob == \A n \in index : blobs[n] # None

(* Every listed secret can be decrypted with the persisted master key, and *)
(* a process works with no other: ensure_master_key creates a key at most  *)
(* once.  For one process whose reads do not fail.                         *)
ListedIsReadable ==
    /\ \A n \in index : n \in DOMAIN View
    /\ \A p \in Procs : cached[p] \in {None, master}

(* What a call returns agrees with the secrets: a deposit that returned    *)
(* true is in force, one that returned false changed nothing, remove tells *)
(* whether the secret was there and leaves the others, and retrieve and    *)
(* list give what is there.  The exception is a value too large for the    *)
(* read buffer: its deposit returns true, it is listed, and retrieve says  *)
(* None until it is overwritten.  For one process and an index that fits.  *)
OutcomeIsTruthful ==
    \A p \in Procs : ret[p] # None =>
        LET n == call[p].name
            r == ret[p]
        IN  /\ call[p].op = "deposit" =>
                   IF r.ok THEN n \in DOMAIN View /\ View[n] = call[p].value
                           ELSE View = before[p]
            /\ call[p].op = "remove" =>
                   /\ r.ok => n \in DOMAIN before[p] \ DOMAIN View
                   /\ ~r.ok => View = before[p]
                   /\ \A m \in DOMAIN before[p] \ {n} :
                         m \in DOMAIN View /\ View[m] = before[p][m]
            /\ call[p].op = "retrieve" =>
                   r.value = IF n \in DOMAIN View /\ View[n] \notin LargeValues
                             THEN View[n] ELSE None
            /\ call[p].op = "list" => r.names = DOMAIN View

(* The vault implements the abstract map: each deposit and each removal    *)
(* changes the secrets in one step, wherever the process dies.             *)
Map == INSTANCE SecretMap WITH secrets <- View

ImplementsMap == Map!Spec

(* secrets.rs:82, on add_to_index: "Add a secret name to the index         *)
(* (idempotent)."  Adding a name unlists no other.                         *)
DepositUnlistsNothing ==
    [][\A p \in Procs :
         WriteIndex(p) /\ call[p].op = "deposit" => index \subseteq index']_vars

=============================================================================
