------------------------- MODULE SecretVaultProofs --------------------------
(***************************************************************************)
(* Theorems about SecretVault.  For any number of processes, with crashes  *)
(* and failing reads and writes: types, and that no listed name is without *)
(* its blob.  For one process whose reads succeed: that every listed       *)
(* secret is readable under the persisted master key, that the vault is    *)
(* the map SecretMap, and that its calls return the truth.                 *)
(***************************************************************************)
EXTENDS SecretVault, FiniteSetTheorems, TLAPS

USE DEF store

(* What a call in progress has established at each of its host calls.      *)
CallOK ==
    \A p \in Procs : pc[p] # "idle" =>
        /\ call[p] \in Call
        /\ call[p].op # "list" => call[p].name \in Names
        /\ call[p].op = "deposit" => call[p].value \in Values
        /\ pc[p] \in {"key", "key_write"} =>
               call[p].op \in {"deposit", "retrieve"}
        /\ pc[p] = "key_write" => call[p].key \in MasterKeys
        /\ pc[p] = "blob_write" =>
               call[p].op = "deposit" /\ cached[p] \in MasterKeys
        /\ pc[p] = "blob_read" => call[p].op = "retrieve"
        /\ pc[p] = "index_write" => call[p].op \in {"deposit", "remove"}

(* Names on their way into the index have a blob.                          *)
BlobFirst ==
    \A p \in Procs :
        /\ pc[p] = "index" /\ call[p].op = "deposit" =>
               blobs[call[p].name] # None
        /\ pc[p] = "index_write" =>
               \A n \in call[p].names : n \in Names /\ blobs[n] # None

Inv == TypeOK /\ CallOK /\ IndexedHasBlob /\ BlobFirst

-----------------------------------------------------------------------------
LEMMA FailedType == Failed \in Result
BY DEF Failed, Result

LEMMA IndexReads ==
  ASSUME NEW names \in ReadIndexResults
  PROVE  names \subseteq index
BY DEF ReadIndexResults, Read

(* Returning touches nothing but pc and ret.                               *)
LEMMA ReturnInv ==
  ASSUME Inv, NEW p \in Procs, NEW r \in Result, Return(p, r),
         UNCHANGED <<store, cached>>
  PROVE  Inv'
<1>1. TypeOK'
  BY DEF Inv, TypeOK, Return, Goto, Steps
<1>2. CallOK'
  BY DEF Inv, TypeOK, CallOK, Return, Goto
<1>3. IndexedHasBlob' /\ BlobFirst'
  BY DEF Inv, TypeOK, IndexedHasBlob, BlobFirst, Return, Goto
<1> QED
  BY <1>1, <1>2, <1>3 DEF Inv

(* So does going on to a host call, once CallOK and BlobFirst are met.     *)
LEMMA BeginInv ==
  ASSUME Inv, NEW p \in Procs,
         NEW l, NEW op, NEW n, NEW v,
         \/ l = "key" /\ op = "deposit" /\ n \in Names /\ v \in Values
         \/ /\ l = "index" /\ op \in {"retrieve", "remove"}
            /\ n \in Names /\ v = None
         \/ l = "index" /\ op = "list" /\ n = None /\ v = None,
         Begin(p, l, op, n, v)
  PROVE  Inv'
<1> DEFINE new == [op |-> op, name |-> n, value |-> v, key |-> None,
                   names |-> {}, found |-> FALSE]
<1>1. new \in Call
  BY DEF Call, Ops
<1>2. new.op = op /\ new.name = n /\ new.value = v
  OBVIOUS
<1>3. call' = [call EXCEPT ![p] = new] /\ pc' = [pc EXCEPT ![p] = l]
  BY DEF Begin, Goto
<1> HIDE DEF new
<1>4. TypeOK'
  BY <1>1, <1>3 DEF Inv, TypeOK, Begin, Steps
<1>5. /\ call'[p] = new /\ pc'[p] = l
      /\ \A x \in Procs : x # p => call'[x] = call[x] /\ pc'[x] = pc[x]
      /\ UNCHANGED <<master, blobs, index, cached>>
  BY <1>3 DEF Inv, TypeOK, Begin
<1>6. CallOK'
  BY <1>1, <1>2, <1>5 DEF Inv, CallOK
<1>7. IndexedHasBlob' /\ BlobFirst'
  BY <1>2, <1>5 DEF Inv, IndexedHasBlob, BlobFirst
<1> QED
  BY <1>4, <1>6, <1>7 DEF Inv

LEMMA InvInit == Init => Inv
BY DEF Init, Inv, TypeOK, CallOK, IndexedHasBlob, BlobFirst, Steps

LEMMA InvStep == Inv /\ [Next]_vars => Inv'
<1> SUFFICES ASSUME Inv, [Next]_vars PROVE Inv'
  OBVIOUS
<1>0. TypeOK /\ CallOK /\ IndexedHasBlob /\ BlobFirst
  BY DEF Inv
<1>1. ASSUME NEW p \in Procs, Export(p) PROVE Inv'
  BY <1>1, BeginInv DEF Export, Deposit, Retrieve, RemoveSecret, ListNames
<1>2. ASSUME NEW p \in Procs, KeyCached(p) \/ LoadKey(p) PROVE Inv'
  <2>1. cached'[p] \in MasterKeys /\ cached' \in [Procs -> MasterKeys \cup {None}]
    BY <1>0, <1>2 DEF KeyCached, LoadKey, TypeOK
  <2>2. pc[p] = "key" /\ pc' = [pc EXCEPT ![p] = AfterKey(p)]
    BY <1>2 DEF KeyCached, LoadKey, Goto
  <2>3. \A q \in Procs \ {p} : cached'[q] = cached[q]
    BY <1>0, <1>2 DEF KeyCached, LoadKey, TypeOK
  <2>4. UNCHANGED <<store, call, ret, before>>
    BY <1>2 DEF KeyCached, LoadKey
  <2>5. TypeOK'
    BY <1>0, <2>1, <2>2, <2>4 DEF TypeOK, AfterKey, Steps
  <2>6. CallOK'
    BY <1>0, <2>1, <2>2, <2>3, <2>4 DEF TypeOK, CallOK, AfterKey
  <2>7. IndexedHasBlob' /\ BlobFirst'
    BY <1>0, <2>2, <2>4 DEF TypeOK, IndexedHasBlob, BlobFirst, AfterKey
  <2> QED
    BY <2>5, <2>6, <2>7 DEF Inv
<1>3. ASSUME NEW p \in Procs, GenerateKey(p) PROVE Inv'
  <2>1. PICK k \in MasterKeys : call' = [call EXCEPT ![p].key = k]
    BY <1>3 DEF GenerateKey
  <2> DEFINE new == [call[p] EXCEPT !.key = k]
  <2>2. call[p] \in Call /\ pc[p] = "key"
    BY <1>0, <1>3 DEF CallOK, GenerateKey
  <2>3. /\ new \in Call /\ new.op = call[p].op /\ new.name = call[p].name
        /\ new.value = call[p].value /\ new.key = k
    BY <2>2 DEF Call
  <2>4. call' = [call EXCEPT ![p] = new] /\ pc' = [pc EXCEPT ![p] = "key_write"]
    BY <1>3, <2>1 DEF GenerateKey, Goto
  <2> HIDE DEF new
  <2>5. TypeOK'
    BY <1>0, <1>3, <2>3, <2>4 DEF TypeOK, GenerateKey, Steps
  <2>6. CallOK'
    BY <1>0, <1>3, <2>2, <2>3, <2>4 DEF TypeOK, CallOK, GenerateKey
  <2>7. IndexedHasBlob' /\ BlobFirst'
    BY <1>0, <1>3, <2>4 DEF TypeOK, IndexedHasBlob, BlobFirst, GenerateKey
  <2> QED
    BY <2>5, <2>6, <2>7 DEF Inv
<1>4. ASSUME NEW p \in Procs, PersistKey(p) PROVE Inv'
  <2>1. call[p].key \in MasterKeys /\ call[p].op \in {"deposit", "retrieve"}
    BY <1>0, <1>4 DEF CallOK, PersistKey
  <2>2. TypeOK'
    BY <1>0, <1>4, <2>1 DEF TypeOK, PersistKey, AfterKey, Goto, Steps
  <2>3. CallOK'
    BY <1>0, <1>4, <2>1 DEF TypeOK, CallOK, PersistKey, AfterKey, Goto
  <2>4. IndexedHasBlob' /\ BlobFirst'
    BY <1>0, <1>4
    DEF TypeOK, IndexedHasBlob, BlobFirst, PersistKey, AfterKey, Goto
  <2> QED
    BY <2>2, <2>3, <2>4 DEF Inv
<1>5. ASSUME NEW p \in Procs, WriteFails(p) \/ MasterMisread(p) PROVE Inv'
  BY <1>5, ReturnInv, FailedType DEF WriteFails, MasterMisread
<1>6. ASSUME NEW p \in Procs, WriteBlob(p) PROVE Inv'
  <2>1. /\ call[p].name \in Names /\ call[p].value \in Values
        /\ cached[p] \in MasterKeys /\ call[p].op = "deposit"
    BY <1>0, <1>6 DEF CallOK, WriteBlob
  <2> DEFINE b == [key |-> cached[p], value |-> call[p].value]
  <2>2. b \in Blob /\ b # None
    BY <2>1, BlobAssumption DEF Blob
  <2>3. blobs' = [blobs EXCEPT ![call[p].name] = b]
    BY <1>6 DEF WriteBlob
  <2> HIDE DEF b
  <2>4. TypeOK'
    BY <1>0, <1>6, <2>2, <2>3 DEF TypeOK, WriteBlob, Goto, Steps
  <2>5. CallOK'
    BY <1>0, <1>6 DEF TypeOK, CallOK, WriteBlob, Goto
  <2>6. \A n \in Names : blobs[n] # None => blobs'[n] # None
    BY <1>0, <2>2, <2>3 DEF TypeOK
  <2>7. blobs'[call[p].name] # None
    BY <1>0, <2>1, <2>2, <2>3 DEF TypeOK
  <2>8. IndexedHasBlob'
    BY <1>0, <1>6, <2>6 DEF TypeOK, IndexedHasBlob, WriteBlob
  <2>9. \A q \in Procs : pc[q] = "index" /\ call[q].op = "deposit" =>
                            call[q].name \in Names
    BY <1>0 DEF CallOK
  <2>10. BlobFirst'
    BY <1>0, <1>6, <2>6, <2>7, <2>9 DEF TypeOK, BlobFirst, WriteBlob, Goto
  <2> QED
    BY <2>4, <2>5, <2>8, <2>10 DEF Inv
<1>7. ASSUME NEW p \in Procs, ReadBlob(p) PROVE Inv'
  <2>1. PICK b \in ReadBlobResults(call[p].name) :
          Return(p, [Failed EXCEPT !.ok = Decrypt(b, cached[p]) # None,
                                   !.value = Decrypt(b, cached[p])])
    BY <1>7 DEF ReadBlob
  <2>2. call[p].name \in Names
    BY <1>0, <1>7 DEF CallOK, ReadBlob
  <2>3. b \in Blob \cup {None}
    BY <1>0, <2>1, <2>2 DEF ReadBlobResults, Read, TypeOK
  <2>4. Decrypt(b, cached[p]) \in Values \cup {None}
    BY <2>3 DEF Decrypt, Blob
  <2>5. [Failed EXCEPT !.ok = Decrypt(b, cached[p]) # None,
                       !.value = Decrypt(b, cached[p])] \in Result
    BY <2>4 DEF Failed, Result
  <2> QED
    BY <1>7, <2>1, <2>5, ReturnInv DEF ReadBlob
<1>8. ASSUME NEW p \in Procs, NEW names, names \subseteq Names,
             \A n \in names : blobs[n] # None,
             NEW found \in BOOLEAN, pc[p] = "index",
             call[p].op \in {"deposit", "remove"},
             WithNames(p, names, found), UNCHANGED <<store, cached>>
      PROVE  Inv'
  <2> DEFINE new == [call[p] EXCEPT !.names = names, !.found = found]
  <2>1. call[p] \in Call
    BY <1>0, <1>8 DEF CallOK
  <2>2. /\ new \in Call /\ new.op = call[p].op /\ new.name = call[p].name
        /\ new.value = call[p].value /\ new.names = names
    BY <1>8, <2>1 DEF Call
  <2>3. /\ call' = [call EXCEPT ![p] = new]
        /\ pc' = [pc EXCEPT ![p] = "index_write"]
    BY <1>8 DEF WithNames, Goto
  <2> HIDE DEF new
  <2>4. TypeOK'
    BY <1>0, <1>8, <2>2, <2>3 DEF TypeOK, WithNames, Steps
  <2>5. CallOK'
    <3>1. /\ call'[p] = new /\ pc'[p] = "index_write" /\ cached' = cached
          /\ \A q \in Procs \ {p} : call'[q] = call[q] /\ pc'[q] = pc[q]
      BY <1>0, <1>8, <2>3 DEF TypeOK
    <3>2. /\ new.op # "list" => new.name \in Names
          /\ new.op = "deposit" => new.value \in Values
          /\ new.op \in {"deposit", "remove"}
      BY <1>0, <1>8, <2>2 DEF CallOK
    <3> QED
      BY <1>0, <2>2, <3>1, <3>2 DEF CallOK
  <2>6. IndexedHasBlob' /\ BlobFirst'
    BY <1>0, <1>8, <2>2, <2>3 DEF TypeOK, IndexedHasBlob, BlobFirst, WithNames
  <2> QED
    BY <2>4, <2>5, <2>6 DEF Inv
<1>9. ASSUME NEW p \in Procs, IndexForDeposit(p) PROVE Inv'
  <2>1. PICK names \in ReadIndexResults :
          IF call[p].name \in names
          THEN Return(p, [Failed EXCEPT !.ok = TRUE])
          ELSE WithNames(p, names \cup {call[p].name}, TRUE)
    BY <1>9 DEF IndexForDeposit
  <2>2. [Failed EXCEPT !.ok = TRUE] \in Result
    BY DEF Failed, Result
  <2>3. call[p].name \in Names /\ blobs[call[p].name] # None
    BY <1>0, <1>9 DEF CallOK, BlobFirst, IndexForDeposit
  <2>4. /\ names \cup {call[p].name} \subseteq Names
        /\ \A n \in names \cup {call[p].name} : blobs[n] # None
    BY <1>0, <2>3, IndexReads DEF TypeOK, IndexedHasBlob
  <2> QED
    BY <1>8, <1>9, <2>1, <2>2, <2>4, ReturnInv DEF IndexForDeposit
<1>10. ASSUME NEW p \in Procs, IndexForRemove(p) PROVE Inv'
  <2>1. PICK names \in ReadIndexResults :
          WithNames(p, names \ {call[p].name}, call[p].name \in names)
    BY <1>10 DEF IndexForRemove
  <2>2. /\ names \ {call[p].name} \subseteq Names
        /\ \A n \in names \ {call[p].name} : blobs[n] # None
    BY <1>0, IndexReads DEF TypeOK, IndexedHasBlob
  <2>3. (call[p].name \in names) \in BOOLEAN
    OBVIOUS
  <2> QED
    BY <1>8, <1>10, <2>1, <2>2, <2>3 DEF IndexForRemove
<1>11. ASSUME NEW p \in Procs, IndexForRetrieve(p) PROVE Inv'
  <2>1. CASE Return(p, Failed)
    BY <1>11, <2>1, ReturnInv, FailedType DEF IndexForRetrieve
  <2>2. CASE Goto(p, "key") /\ UNCHANGED <<call, ret>>
    <3>1. TypeOK'
      BY <1>0, <1>11, <2>2 DEF TypeOK, IndexForRetrieve, Goto, Steps
    <3>2. CallOK'
      BY <1>0, <1>11, <2>2 DEF TypeOK, CallOK, IndexForRetrieve, Goto
    <3>3. IndexedHasBlob' /\ BlobFirst'
      BY <1>0, <1>11, <2>2
      DEF TypeOK, IndexedHasBlob, BlobFirst, IndexForRetrieve, Goto
    <3> QED
      BY <3>1, <3>2, <3>3 DEF Inv
  <2> QED
    BY <1>11, <2>1, <2>2 DEF IndexForRetrieve
<1>12. ASSUME NEW p \in Procs, IndexForList(p) PROVE Inv'
  <2>1. PICK names \in ReadIndexResults :
          Return(p, [Failed EXCEPT !.ok = TRUE, !.names = names])
    BY <1>12 DEF IndexForList
  <2>2. [Failed EXCEPT !.ok = TRUE, !.names = names] \in Result
    BY <1>0, IndexReads DEF Failed, Result, TypeOK
  <2> QED
    BY <1>12, <2>1, <2>2, ReturnInv DEF IndexForList
<1>13. ASSUME NEW p \in Procs, WriteIndex(p) PROVE Inv'
  <2>1. /\ call[p] \in Call
        /\ \A n \in call[p].names : n \in Names /\ blobs[n] # None
    BY <1>0, <1>13 DEF CallOK, BlobFirst, WriteIndex
  <2>2. [Failed EXCEPT !.ok = call[p].found] \in Result
    BY <2>1 DEF Failed, Result, Call
  <2>3. TypeOK'
    BY <1>0, <1>13, <2>1, <2>2 DEF TypeOK, WriteIndex, Return, Goto, Steps
  <2>4. CallOK'
    BY <1>0, <1>13 DEF TypeOK, CallOK, WriteIndex, Return, Goto
  <2>5. IndexedHasBlob' /\ BlobFirst'
    BY <1>0, <1>13, <2>1
    DEF TypeOK, IndexedHasBlob, BlobFirst, WriteIndex, Return, Goto
  <2> QED
    BY <2>3, <2>4, <2>5 DEF Inv
<1>14. ASSUME NEW p \in Procs, Crash(p) PROVE Inv'
  <2>1. TypeOK'
    BY <1>0, <1>14 DEF TypeOK, Crash, Goto, Steps
  <2>2. CallOK'
    BY <1>0, <1>14 DEF TypeOK, CallOK, Crash, Goto
  <2>3. IndexedHasBlob' /\ BlobFirst'
    BY <1>0, <1>14 DEF TypeOK, IndexedHasBlob, BlobFirst, Crash, Goto
  <2> QED
    BY <2>1, <2>2, <2>3 DEF Inv
<1>15. CASE UNCHANGED vars
  BY <1>0, <1>15
  DEF vars, Inv, TypeOK, CallOK, IndexedHasBlob, BlobFirst
<1> QED
  BY <1>1, <1>2, <1>3, <1>4, <1>5, <1>6, <1>7, <1>9, <1>10, <1>11, <1>12,
     <1>13, <1>14, <1>15
  DEF Next, HostStep

(* Type correctness, under every fault and interleaving.                   *)
THEOREM VaultTypes == Spec => []TypeOK
<1>1. Inv => TypeOK
  BY DEF Inv
<1> QED
  BY InvInit, InvStep, <1>1, PTL DEF Spec

(* deposit writes the blob before it lists the name, so no crash, fault or *)
(* race of any number of processes leaves a listed name without a blob.    *)
THEOREM NoDanglingName == Spec => []IndexedHasBlob
<1>1. Inv => IndexedHasBlob
  BY DEF Inv
<1> QED
  BY InvInit, InvStep, <1>1, PTL DEF Spec

-----------------------------------------------------------------------------
(* One process whose host reads succeed.  Every blob is under the          *)
(* persisted key, which is created only while there is none; and what is   *)
(* about to be saved as the index differs from it by the one name.         *)

OneKey ==
    /\ \A n \in Names : blobs[n] # None => blobs[n].key = master
    /\ \A p \in Procs :
          /\ cached[p] \in {None, master}
          /\ pc[p] = "key_write" => master = None /\ cached[p] = None

IndexExact ==
    \A p \in Procs : pc[p] = "index_write" =>
        call[p].names = IF call[p].op = "deposit"
                        THEN index \cup {call[p].name}
                        ELSE index \ {call[p].name}

LEMMA OneKeyInit == Init => OneKey /\ IndexExact
BY DEF Init, OneKey, IndexExact

LEMMA OneKeyStep ==
  ASSUME NEW w, Procs = {w}, ReadFaults = FALSE
  PROVE  Inv /\ OneKey /\ [Next]_vars => OneKey'
<1> SUFFICES ASSUME TypeOK, CallOK, OneKey, [Next]_vars PROVE OneKey'
  BY DEF Inv
<1>0. w \in Procs /\ \A p \in Procs : p = w
  OBVIOUS
<1>1. ASSUME UNCHANGED <<master, blobs>>, cached'[w] \in {None, cached[w], master},
             pc'[w] # "key_write"
      PROVE  OneKey'
  BY <1>0, <1>1 DEF OneKey
<1>2. ASSUME UNCHANGED <<store, cached>>, pc'[w] # "key_write" PROVE OneKey'
  BY <1>1, <1>2
<1>3. CASE Export(w)
  BY <1>0, <1>2, <1>3
  DEF Export, Deposit, Retrieve, RemoveSecret, ListNames, Begin, Goto, TypeOK
<1>4. CASE KeyCached(w) \/ LoadKey(w)
  BY <1>0, <1>1, <1>4 DEF KeyCached, LoadKey, Goto, AfterKey, TypeOK
<1>5. CASE GenerateKey(w)
  <2>1. master = None
    BY <1>5 DEF GenerateKey, Read
  <2> QED
    BY <1>0, <1>5, <2>1 DEF GenerateKey, Goto, OneKey, TypeOK
<1>6. CASE PersistKey(w)
  <2>1. master = None
    BY <1>0, <1>6 DEF PersistKey, OneKey
  <2>2. \A n \in Names : blobs[n] = None
    BY <2>1, VaultAssumption DEF OneKey, TypeOK, Blob
  <2> QED
    BY <1>0, <1>6, <2>2 DEF PersistKey, Goto, AfterKey, OneKey, TypeOK
<1>7. CASE WriteFails(w) \/ MasterMisread(w)
  BY <1>0, <1>2, <1>7 DEF WriteFails, MasterMisread, Return, Goto, TypeOK
<1>8. CASE WriteBlob(w)
  <2>1. cached[w] = master /\ call[w].name \in Names
    BY <1>0, <1>8, VaultAssumption DEF WriteBlob, CallOK, OneKey
  <2>2. \A n \in Names : blobs'[n] # None => blobs'[n].key = master
    BY <1>8, <2>1 DEF WriteBlob, OneKey, TypeOK
  <2> QED
    BY <1>0, <1>8, <2>2 DEF WriteBlob, Goto, OneKey, TypeOK
<1>9. CASE ReadBlob(w) \/ IndexForDeposit(w) \/ IndexForRemove(w)
             \/ IndexForRetrieve(w) \/ IndexForList(w)
  BY <1>0, <1>2, <1>9
  DEF ReadBlob, IndexForDeposit, IndexForRemove, IndexForRetrieve,
      IndexForList, WithNames, Return, Goto, TypeOK
<1>10. CASE WriteIndex(w)
  BY <1>0, <1>1, <1>10 DEF WriteIndex, Return, Goto, TypeOK
<1>11. CASE Crash(w)
  BY <1>0, <1>1, <1>11 DEF Crash, Goto, TypeOK
<1>12. CASE UNCHANGED vars
  BY <1>12 DEF vars, OneKey
<1> QED
  BY <1>0, <1>3, <1>4, <1>5, <1>6, <1>7, <1>8, <1>9, <1>10, <1>11, <1>12
  DEF Next, HostStep

LEMMA ViewIsIndex ==
  ASSUME Inv, OneKey
  PROVE  View = [n \in index |-> blobs[n].value]
<1>1. {m \in index : blobs[m] # None /\ blobs[m].key = master} = index
  BY DEF Inv, TypeOK, IndexedHasBlob, OneKey
<1> QED
  BY <1>1 DEF View

(* One process never loses its secrets to a changed master key: whatever   *)
(* it lists, it can decrypt, after any crash and any failed write.         *)
THEOREM NoSecretLost ==
  ASSUME NEW w, Procs = {w}, ReadFaults = FALSE
  PROVE  Spec => []ListedIsReadable
<1>1. Inv /\ OneKey /\ [Next]_vars => OneKey'
  BY OneKeyStep
<1>2. Inv /\ OneKey => ListedIsReadable
  BY ViewIsIndex DEF ListedIsReadable, OneKey
<1>3. Init => OneKey
  BY OneKeyInit
<1> QED
  BY InvInit, InvStep, <1>1, <1>2, <1>3, PTL DEF Spec

-----------------------------------------------------------------------------
(* Refinement: one process, reads that succeed, and an index that fits the *)
(* read buffer.                                                            *)

LEMMA IndexReadExactly ==
  ASSUME TypeOK, ReadFaults = FALSE, Cardinality(Names) <= IndexCap
  PROVE  ReadIndexResults = {index}
<1>1. Cardinality(index) <= Cardinality(Names)
  BY VaultAssumption, FS_Subset DEF TypeOK
<1>2. Cardinality(index) \in Nat /\ Cardinality(Names) \in Nat
  BY VaultAssumption, FS_Subset, FS_CardinalityType DEF TypeOK
<1>3. Cardinality(index) <= IndexCap
  BY <1>1, <1>2, VaultAssumption
<1> QED
  BY <1>3 DEF ReadIndexResults, Read

LEMMA IndexExactStep ==
  ASSUME NEW w, Procs = {w}, ReadFaults = FALSE,
         Cardinality(Names) <= IndexCap
  PROVE  Inv /\ IndexExact /\ [Next]_vars => IndexExact'
<1> SUFFICES ASSUME TypeOK, CallOK, IndexExact, [Next]_vars, pc'[w] = "index_write"
             PROVE  call'[w].names = IF call'[w].op = "deposit"
                                     THEN index' \cup {call'[w].name}
                                     ELSE index' \ {call'[w].name}
  BY DEF Inv, IndexExact
<1>0. w \in Procs /\ \A p \in Procs : p = w
  OBVIOUS
<1>1. ASSUME NEW names, NEW found, WithNames(w, names, found), UNCHANGED index,
             pc[w] = "index"
      PROVE  /\ call'[w].names = names /\ call'[w].op = call[w].op
             /\ call'[w].name = call[w].name
  <2>1. call[w] \in Call
    BY <1>0, <1>1 DEF CallOK
  <2> QED
    BY <1>0, <1>1, <2>1 DEF WithNames, TypeOK, Call
<1>2. ASSUME NEW r, Return(w, r) PROVE FALSE
  BY <1>0, <1>2 DEF Return, Goto, TypeOK
<1>3. CASE IndexForDeposit(w)
  BY <1>0, <1>1, <1>2, <1>3, IndexReadExactly DEF IndexForDeposit
<1>4. CASE IndexForRemove(w)
  <2>1. /\ pc[w] = "index" /\ call[w].op = "remove" /\ UNCHANGED index
        /\ WithNames(w, index \ {call[w].name}, call[w].name \in index)
    BY <1>4, IndexReadExactly DEF IndexForRemove, store
  <2>2. /\ call'[w].names = index \ {call[w].name} /\ call'[w].op = call[w].op
        /\ call'[w].name = call[w].name
    BY <1>1, <2>1
  <2> QED
    BY <2>1, <2>2
<1>5. CASE UNCHANGED vars
  BY <1>0, <1>5 DEF vars, IndexExact
<1>6. CASE WriteFails(w) \/ MasterMisread(w) \/ ReadBlob(w)
             \/ IndexForList(w) \/ WriteIndex(w)
  BY <1>2, <1>6
  DEF WriteFails, MasterMisread, ReadBlob, IndexForList, WriteIndex
<1>7. CASE Export(w) \/ Crash(w)
  BY <1>0, <1>7
  DEF Export, Deposit, Retrieve, RemoveSecret, ListNames, Begin, Crash, Goto,
      TypeOK
<1>8. CASE KeyCached(w) \/ LoadKey(w) \/ GenerateKey(w) \/ PersistKey(w)
             \/ WriteBlob(w) \/ IndexForRetrieve(w)
  BY <1>0, <1>2, <1>8
  DEF KeyCached, LoadKey, GenerateKey, PersistKey, WriteBlob,
      IndexForRetrieve, AfterKey, Goto, TypeOK
<1> QED
  BY <1>0, <1>3, <1>4, <1>5, <1>6, <1>7, <1>8 DEF Next, HostStep

(* Only the write of a listed name's blob and the write of the index are   *)
(* visible, each as one step of the abstract map.                          *)
LEMMA MapStep ==
  ASSUME NEW w, Procs = {w}, ReadFaults = FALSE
  PROVE  Inv /\ OneKey /\ IndexExact /\ [Next]_vars /\ Inv' /\ OneKey'
           => [Map!Next]_View
<1> SUFFICES ASSUME Inv, OneKey, IndexExact, [Next]_vars, Inv', OneKey'
             PROVE  Map!Next \/ View' = View
  OBVIOUS
<1>0. w \in Procs /\ (\A p \in Procs : p = w) /\ TypeOK /\ CallOK
  BY DEF Inv
<1>1. /\ View = [n \in index |-> blobs[n].value]
      /\ View' = [n \in index' |-> blobs'[n].value]
  <2>1. {m \in index' : blobs'[m] # None /\ blobs'[m].key = master'} = index'
    BY DEF Inv, TypeOK, IndexedHasBlob, OneKey
  <2> QED
    BY <2>1, ViewIsIndex DEF View
<1>2. ASSUME UNCHANGED <<index, blobs>> PROVE View' = View
  BY <1>1, <1>2
<1>3. CASE WriteBlob(w)
  <2> DEFINE n == call[w].name
             v == call[w].value
  <2>1. n \in Names /\ v \in Values
    BY <1>0, <1>3 DEF WriteBlob, CallOK
  <2>2. /\ index' = index /\ index \subseteq Names
        /\ \A m \in Names : blobs'[m] = IF m = n
                                        THEN [key |-> cached[w], value |-> v]
                                        ELSE blobs[m]
    BY <1>0, <1>3 DEF WriteBlob, TypeOK
  <2> HIDE DEF n, v
  <2>3. CASE n \notin index
    BY <1>1, <2>2, <2>3
  <2>4. CASE n \in index
    <3>1. \A m \in index : blobs'[m].value = IF m = n THEN v ELSE blobs[m].value
      BY <2>2
    <3>2. View' = [m \in DOMAIN View \cup {n} |-> IF m = n THEN v ELSE View[m]]
      BY <1>1, <2>2, <2>4, <3>1
    <3>3. Map!Deposit(n, v)
      BY <3>2 DEF Map!Deposit
    <3> QED
      BY <2>1, <3>3 DEF Map!Next
  <2> QED
    BY <2>3, <2>4
<1>4. CASE WriteIndex(w)
  <2> DEFINE n == call[w].name
             v == blobs[n].value
  <2>1. /\ n \in Names /\ call[w].op \in {"deposit", "remove"}
        /\ blobs' = blobs
        /\ index' = IF call[w].op = "deposit" THEN index \cup {n}
                                              ELSE index \ {n}
    BY <1>0, <1>4 DEF WriteIndex, CallOK, IndexExact
  <2>2. CASE call[w].op = "deposit"
    <3>1. n \in index' /\ index' = index \cup {n}
      BY <2>1, <2>2
    <3>2. blobs[n] \in Blob
      BY <1>0, <2>1, <3>1 DEF Inv, IndexedHasBlob, TypeOK
    <3>3. v \in Values
      BY <3>2 DEF Blob
    <3> HIDE DEF n, v
    <3>4. View' = [m \in DOMAIN View \cup {n} |-> IF m = n THEN v ELSE View[m]]
      BY <1>1, <2>1, <3>1 DEF v
    <3>5. Map!Deposit(n, v)
      BY <3>4 DEF Map!Deposit
    <3> QED
      BY <2>1, <3>3, <3>5 DEF Map!Next
  <2>3. CASE call[w].op = "remove"
    <3> HIDE DEF n
    <3>1. View' = [m \in DOMAIN View \ {n} |-> View[m]]
      BY <1>1, <2>1, <2>3
    <3>2. Map!Remove(n)
      BY <3>1 DEF Map!Remove
    <3> QED
      BY <2>1, <3>2 DEF Map!Next
  <2> QED
    BY <2>1, <2>2, <2>3
<1>5. CASE Export(w)
  BY <1>2, <1>5
  DEF Export, Deposit, Retrieve, RemoveSecret, ListNames, Begin
<1>6. CASE KeyCached(w) \/ LoadKey(w) \/ GenerateKey(w) \/ PersistKey(w)
             \/ WriteFails(w) \/ MasterMisread(w) \/ ReadBlob(w)
             \/ IndexForDeposit(w) \/ IndexForRemove(w)
             \/ IndexForRetrieve(w) \/ IndexForList(w)
  BY <1>2, <1>6
  DEF KeyCached, LoadKey, GenerateKey, PersistKey, WriteFails, MasterMisread,
      ReadBlob, IndexForDeposit, IndexForRemove, IndexForRetrieve, IndexForList
<1>7. CASE Crash(w) \/ UNCHANGED vars
  BY <1>2, <1>7 DEF Crash, vars
<1> QED
  BY <1>0, <1>3, <1>4, <1>5, <1>6, <1>7 DEF Next, HostStep

(* The vault is a persistent map with atomic deposits and removals: one    *)
(* process, reads that succeed, an index within the read buffer; crashes   *)
(* and failed writes at every step.                                        *)
THEOREM VaultImplementsMap ==
  ASSUME NEW w, Procs = {w}, ReadFaults = FALSE,
         Cardinality(Names) <= IndexCap
  PROVE  Spec => ImplementsMap
<1>1. Inv /\ OneKey /\ [Next]_vars => OneKey'
  BY OneKeyStep
<1>2. Inv /\ IndexExact /\ [Next]_vars => IndexExact'
  BY IndexExactStep
<1>3. Inv /\ OneKey /\ IndexExact /\ [Next]_vars /\ Inv' /\ OneKey'
        => [Map!Next]_View
  BY MapStep
<1>4. Init => Map!Init
  BY DEF Init, Map!Init, View
<1> QED
  BY InvInit, InvStep, OneKeyInit, <1>1, <1>2, <1>3, <1>4, PTL
  DEF Spec, ImplementsMap, Map!Spec

-----------------------------------------------------------------------------
(* What a call returns, again for one process, reads that succeed and an   *)
(* index that fits.                                                        *)

(* Result r of call c is true of the secrets `view`, where the call found  *)
(* the secrets `old`.                                                      *)
Told(c, r, view, old) ==
    /\ c.op = "deposit" =>
           IF r.ok THEN c.name \in DOMAIN view /\ view[c.name] = c.value
                   ELSE view = old
    /\ c.op = "remove" =>
           /\ r.ok => c.name \in DOMAIN old \ DOMAIN view
           /\ ~r.ok => view = old
           /\ \A m \in DOMAIN old \ {c.name} :
                 m \in DOMAIN view /\ view[m] = old[m]
    /\ c.op = "retrieve" =>
           r.value = IF c.name \in DOMAIN view /\ view[c.name] \notin LargeValues
                     THEN view[c.name] ELSE None
    /\ c.op = "list" => r.names = DOMAIN view

(* What a call has learned and done on its way.  Only the blob write of a  *)
(* deposit that overwrites a listed secret is visible before the return.   *)
OnTheWay(p) ==
    pc[p] # "idle" =>
        /\ ret[p] = None
        /\ ~(call[p].op = "deposit" /\ pc[p] \in {"index", "index_write"}) =>
               View = before[p]
        /\ call[p].op = "deposit" /\ pc[p] \in {"index", "index_write"} =>
               /\ blobs[call[p].name].value = call[p].value
               /\ call[p].name \notin index => View = before[p]
        /\ pc[p] = "index_write" /\ call[p].op = "deposit" =>
               call[p].name \notin index /\ call[p].found = TRUE
        /\ pc[p] = "index_write" /\ call[p].op = "remove" =>
               call[p].found = (call[p].name \in index)
        /\ call[p].op = "retrieve" /\ pc[p] # "index" => call[p].name \in index
        /\ pc[p] = "blob_read" => cached[p] # None

Truth(p) ==
    /\ before = [q \in Procs |-> before[q]]
    /\ OnTheWay(p)
    /\ ret[p] # None => Told(call[p], ret[p], View, before[p])

LEMMA ViewStep ==
  ASSUME Inv, OneKey, Inv', OneKey'
  PROVE  /\ View = [n \in index |-> blobs[n].value]
         /\ View' = [n \in index' |-> blobs'[n].value]
<1>1. {m \in index' : blobs'[m] # None /\ blobs'[m].key = master'} = index'
  BY DEF Inv, TypeOK, IndexedHasBlob, OneKey
<1> QED
  BY <1>1, ViewIsIndex DEF View

LEMMA TruthReturn ==
  ASSUME TypeOK, NEW p \in Procs, Truth(p), NEW r, Return(p, r),
         Told(call[p], r, View', before[p])
  PROVE  Truth(p)'
<1>1. /\ pc'[p] = "idle" /\ ret'[p] = r /\ call' = call /\ before' = before
  BY DEF TypeOK, Return, Goto
<1> QED
  BY <1>1 DEF Truth, OnTheWay

(* A step inside a call leaves the arguments of the call alone.            *)
LEMMA ArgumentsKept ==
  ASSUME Inv, NEW p \in Procs, pc[p] # "idle"
  PROVE  /\ GenerateKey(p) => /\ call'[p].op = call[p].op
                              /\ call'[p].name = call[p].name
                              /\ call'[p].value = call[p].value
         /\ \A names, found : WithNames(p, names, found) =>
               /\ call'[p].op = call[p].op /\ call'[p].name = call[p].name
               /\ call'[p].value = call[p].value
               /\ call'[p].found = found /\ pc'[p] = "index_write"
<1>1. call[p] \in Call /\ call \in [Procs -> Call \cup {None}]
  BY DEF Inv, CallOK, TypeOK
<1>2. ASSUME GenerateKey(p)
      PROVE  /\ call'[p].op = call[p].op
             /\ call'[p].name = call[p].name
             /\ call'[p].value = call[p].value
  <2>1. PICK k \in MasterKeys : call' = [call EXCEPT ![p].key = k]
    BY <1>2 DEF GenerateKey
  <2>2. call'[p] = [call[p] EXCEPT !.key = k]
    BY <1>1, <2>1
  <2> QED
    BY <1>1, <2>2 DEF Call
<1>3. ASSUME NEW names, NEW found, WithNames(p, names, found)
      PROVE  /\ call'[p].op = call[p].op /\ call'[p].name = call[p].name
             /\ call'[p].value = call[p].value
             /\ call'[p].found = found /\ pc'[p] = "index_write"
  <2>1. call'[p] = [call[p] EXCEPT !.names = names, !.found = found]
    BY <1>1, <1>3 DEF WithNames
  <2>2. pc'[p] = "index_write"
    BY <1>3 DEF WithNames, Goto, Inv, TypeOK
  <2> QED
    BY <1>1, <2>1, <2>2 DEF Call
<1> QED
  BY <1>2, <1>3

LEMMA TruthStep ==
  ASSUME NEW w, Procs = {w}, ReadFaults = FALSE,
         Cardinality(Names) <= IndexCap
  PROVE  Inv /\ OneKey /\ IndexExact /\ Truth(w) /\ [Next]_vars
           /\ Inv' /\ OneKey' => Truth(w)'
<1> SUFFICES ASSUME Inv, OneKey, IndexExact, Truth(w), [Next]_vars,
                    Inv', OneKey'
             PROVE  Truth(w)'
  OBVIOUS
<1>0. w \in Procs /\ (\A p \in Procs : p = w) /\ TypeOK /\ CallOK
  BY DEF Inv
<1>1. /\ View = [n \in index |-> blobs[n].value]
      /\ View' = [n \in index' |-> blobs'[n].value]
  BY ViewStep
<1>2. ASSUME UNCHANGED <<index, blobs>> PROVE View' = View
  BY <1>1, <1>2
<1>3. pc[w] # "idle" => OnTheWay(w) /\ ret[w] = None
  BY DEF Truth, OnTheWay
<1>4. CASE Export(w)
  <2>1. PICK l, op, n, v : /\ Begin(w, l, op, n, v)
                           /\ \/ l = "key" /\ op = "deposit"
                              \/ l = "index" /\ op # "deposit"
    BY <1>4 DEF Export, Deposit, Retrieve, RemoveSecret, ListNames
  <2>2. /\ pc'[w] = l /\ call'[w].op = op /\ ret'[w] = None
        /\ UNCHANGED <<index, blobs>>
    BY <1>0, <2>1 DEF Begin, Goto, TypeOK
  <2>3. before'[w] = View /\ before' = [q \in Procs |-> before'[q]]
    <3>1. before' = [before EXCEPT ![w] = View]
      BY <2>1 DEF Begin
    <3> QED
      BY <1>0, <3>1 DEF Truth
  <2> QED
    BY <1>2, <2>1, <2>2, <2>3 DEF Truth, OnTheWay
<1>5. CASE KeyCached(w) \/ LoadKey(w)
  <2>1. /\ pc[w] = "key" /\ cached'[w] # None
        /\ pc'[w] = AfterKey(w) /\ UNCHANGED <<index, blobs, call, ret, before>>
    BY <1>0, <1>5 DEF KeyCached, LoadKey, Goto, TypeOK
  <2>2. pc'[w] \in {"blob_write", "blob_read"}
    BY <2>1 DEF AfterKey
  <2> QED
    BY <1>2, <1>3, <2>1, <2>2 DEF Truth, OnTheWay
<1>6. CASE GenerateKey(w)
  <2>1. /\ pc[w] = "key" /\ pc'[w] = "key_write"
        /\ UNCHANGED <<index, blobs, ret, before>>
    BY <1>0, <1>6 DEF GenerateKey, Goto, TypeOK
  <2>2. /\ call'[w].op = call[w].op /\ call'[w].name = call[w].name
    BY <1>0, <1>6, <2>1, ArgumentsKept
  <2> QED
    BY <1>2, <1>3, <2>1, <2>2 DEF Truth, OnTheWay
<1>7. CASE PersistKey(w)
  <2>1. /\ pc[w] = "key_write" /\ pc'[w] = AfterKey(w)
        /\ cached'[w] = call[w].key /\ call[w].key \in MasterKeys
        /\ UNCHANGED <<index, blobs, call, ret, before>>
    BY <1>0, <1>7 DEF PersistKey, Goto, TypeOK, CallOK
  <2>2. pc'[w] \in {"blob_write", "blob_read"} /\ cached'[w] # None
    BY <2>1, VaultAssumption DEF AfterKey
  <2> QED
    BY <1>2, <1>3, <2>1, <2>2 DEF Truth, OnTheWay
<1>8. CASE WriteFails(w)
  <2>1. /\ pc[w] \in {"key_write", "blob_write", "index_write"}
        /\ Return(w, Failed) /\ View' = View
    BY <1>2, <1>8 DEF WriteFails
  <2>2. /\ pc[w] = "blob_write" => call[w].op = "deposit"
        /\ pc[w] = "key_write" => call[w].op \in {"deposit", "retrieve"}
        /\ pc[w] = "index_write" => call[w].op \in {"deposit", "remove"}
    BY <1>0, <2>1 DEF CallOK
  <2>3. call[w].op # "retrieve"
    <3> SUFFICES ASSUME call[w].op = "retrieve" PROVE FALSE
      OBVIOUS
    <3>1. pc[w] = "key_write" /\ call[w].name \in index
      BY <1>3, <2>1, <2>2 DEF OnTheWay
    <3>2. master = None /\ call[w].name \in Names
      BY <1>0, <3>1 DEF OneKey, TypeOK
    <3>3. blobs[call[w].name] \in Blob /\ blobs[call[w].name].key = master
      BY <1>0, <3>1, <3>2 DEF Inv, IndexedHasBlob, OneKey, TypeOK
    <3> QED
      BY <3>2, <3>3, VaultAssumption DEF Blob
  <2>4. View = before[w]
    BY <1>3, <2>1, <2>2 DEF OnTheWay
  <2>5. Told(call[w], Failed, View', before[w])
    BY <2>1, <2>2, <2>3, <2>4 DEF Told, Failed
  <2> QED
    BY <1>0, <2>1, <2>5, TruthReturn
<1>9. CASE WriteBlob(w)
  <2>1. /\ pc[w] = "blob_write" /\ pc'[w] = "index" /\ call[w].op = "deposit"
        /\ call[w].name \in Names
        /\ index' = index /\ UNCHANGED <<call, ret, before>>
    BY <1>0, <1>9 DEF WriteBlob, CallOK, Goto, TypeOK
  <2>2. \A m \in Names : blobs'[m] =
           IF m = call[w].name
           THEN [key |-> cached[w], value |-> call[w].value] ELSE blobs[m]
    BY <1>0, <1>9 DEF WriteBlob, TypeOK
  <2>3. call[w].name \notin index => View' = View
    <3>1. index \subseteq Names
      BY <1>0 DEF TypeOK
    <3>2. ASSUME call[w].name \notin index
          PROVE  \A m \in index : blobs'[m] = blobs[m]
      BY <2>2, <3>1, <3>2
    <3> QED
      BY <1>1, <2>1, <3>2
  <2>4. blobs'[call[w].name].value = call[w].value
    BY <2>1, <2>2
  <2> QED
    BY <1>3, <2>1, <2>3, <2>4 DEF Truth, OnTheWay
<1>10. CASE ReadBlob(w)
  <2>1. /\ pc[w] = "blob_read" /\ View' = View /\ call[w].op = "retrieve"
        /\ call[w].name \in index /\ cached[w] = master
    BY <1>0, <1>2, <1>3, <1>10 DEF ReadBlob, OnTheWay, CallOK, OneKey
  <2>2. PICK b \in ReadBlobResults(call[w].name) :
          Return(w, [Failed EXCEPT !.ok = Decrypt(b, cached[w]) # None,
                                   !.value = Decrypt(b, cached[w])])
    BY <1>10 DEF ReadBlob
  <2>3. PICK n \in index : n = call[w].name
    BY <2>1
  <2>4. /\ blobs[n] # None /\ blobs[n].key = master
        /\ n \in DOMAIN View /\ View[n] = blobs[n].value
    BY <1>0, <1>1 DEF Inv, IndexedHasBlob, OneKey, TypeOK
  <2>5. b = IF blobs[n].value \notin LargeValues THEN blobs[n] ELSE None
    BY <2>2, <2>3, <2>4 DEF ReadBlobResults, Read
  <2>6. Decrypt(b, cached[w]) =
          IF View[n] \notin LargeValues THEN View[n] ELSE None
    BY <2>1, <2>4, <2>5 DEF Decrypt
  <2>7. PICK r : r = [Failed EXCEPT !.ok = Decrypt(b, cached[w]) # None,
                                    !.value = Decrypt(b, cached[w])]
    OBVIOUS
  <2>8. r.value = Decrypt(b, cached[w]) /\ Return(w, r)
    BY <2>2, <2>7 DEF Failed
  <2>9. Told(call[w], r, View', before[w])
    BY <2>1, <2>3, <2>4, <2>6, <2>8 DEF Told
  <2> QED
    BY <1>0, <2>8, <2>9, TruthReturn
<1>11. CASE IndexForDeposit(w)
  <2>1. /\ pc[w] = "index" /\ call[w].op = "deposit"
        /\ UNCHANGED <<index, blobs>> /\ View' = View
        /\ IF call[w].name \in index
           THEN Return(w, [Failed EXCEPT !.ok = TRUE])
           ELSE WithNames(w, index \cup {call[w].name}, TRUE)
    BY <1>0, <1>2, <1>11, IndexReadExactly DEF IndexForDeposit
  <2>2. /\ blobs[call[w].name].value = call[w].value
        /\ call[w].name \notin index => View = before[w]
    BY <1>3, <2>1 DEF OnTheWay
  <2>3. CASE call[w].name \in index
    <3>1. PICK r : r = [Failed EXCEPT !.ok = TRUE]
      OBVIOUS
    <3>2. r.ok = TRUE /\ Return(w, r)
      BY <2>1, <2>3, <3>1 DEF Failed
    <3>3. Told(call[w], r, View', before[w])
      BY <1>1, <2>1, <2>2, <2>3, <3>2 DEF Told
    <3> QED
      BY <1>0, <3>2, <3>3, TruthReturn
  <2>4. CASE call[w].name \notin index
    <3>1. WithNames(w, index \cup {call[w].name}, TRUE)
          /\ UNCHANGED <<ret, before>>
      BY <2>1, <2>4 DEF WithNames
    <3>2. /\ call'[w].op = call[w].op /\ call'[w].name = call[w].name
          /\ call'[w].value = call[w].value
          /\ call'[w].found = TRUE /\ pc'[w] = "index_write"
      BY <1>0, <2>1, <3>1, ArgumentsKept
    <3> QED
      BY <1>3, <2>1, <2>2, <2>4, <3>1, <3>2 DEF Truth, OnTheWay
  <2> QED
    BY <2>3, <2>4
<1>12. CASE IndexForRemove(w)
  <2>1. /\ pc[w] = "index" /\ call[w].op = "remove"
        /\ UNCHANGED <<index, blobs>> /\ View' = View
        /\ WithNames(w, index \ {call[w].name}, call[w].name \in index)
    BY <1>0, <1>2, <1>12, IndexReadExactly DEF IndexForRemove
  <2>2. UNCHANGED <<ret, before>>
    BY <2>1 DEF WithNames
  <2>3. /\ call'[w].op = call[w].op /\ call'[w].name = call[w].name
        /\ call'[w].found = (call[w].name \in index)
        /\ pc'[w] = "index_write"
    BY <1>0, <2>1, ArgumentsKept
  <2> QED
    BY <1>3, <2>1, <2>2, <2>3 DEF Truth, OnTheWay
<1>13. CASE IndexForRetrieve(w)
  <2>1. /\ pc[w] = "index" /\ call[w].op = "retrieve"
        /\ UNCHANGED <<index, blobs>> /\ View' = View
        /\ IF call[w].name \in index
           THEN Goto(w, "key") /\ UNCHANGED <<call, ret, before>>
           ELSE Return(w, Failed)
    BY <1>0, <1>2, <1>13, IndexReadExactly DEF IndexForRetrieve
  <2>2. CASE call[w].name \in index
    <3>1. pc'[w] = "key" /\ UNCHANGED <<call, ret, before>>
      BY <1>0, <2>1, <2>2 DEF Goto, TypeOK
    <3> QED
      BY <1>3, <2>1, <2>2, <3>1 DEF Truth, OnTheWay
  <2>3. CASE call[w].name \notin index
    <3>1. Told(call[w], Failed, View', before[w])
      BY <1>1, <2>1, <2>3 DEF Told, Failed
    <3> QED
      BY <1>0, <2>1, <2>3, <3>1, TruthReturn
  <2> QED
    BY <2>2, <2>3
<1>14. CASE IndexForList(w)
  <2>1. /\ pc[w] = "index" /\ call[w].op = "list" /\ View' = View
        /\ Return(w, [Failed EXCEPT !.ok = TRUE, !.names = index])
    BY <1>0, <1>2, <1>14, IndexReadExactly DEF IndexForList
  <2>2. PICK r : r = [Failed EXCEPT !.ok = TRUE, !.names = index]
    OBVIOUS
  <2>3. r.names = index /\ Return(w, r)
    BY <2>1, <2>2 DEF Failed
  <2>4. Told(call[w], r, View', before[w])
    BY <1>1, <2>1, <2>3 DEF Told
  <2> QED
    BY <1>0, <2>3, <2>4, TruthReturn
<1>15. CASE WriteIndex(w)
  <2>1. /\ pc[w] = "index_write" /\ call[w].op \in {"deposit", "remove"}
        /\ blobs' = blobs
        /\ index' = IF call[w].op = "deposit" THEN index \cup {call[w].name}
                                              ELSE index \ {call[w].name}
    BY <1>0, <1>15 DEF WriteIndex, CallOK, IndexExact
  <2>2. PICK r : r = [Failed EXCEPT !.ok = call[w].found]
    OBVIOUS
  <2>3. r.ok = call[w].found /\ Return(w, r)
    BY <1>15, <2>2 DEF Failed, WriteIndex
  <2>4. PICK n, v, old : n = call[w].name /\ v = View' /\ old = before[w]
    OBVIOUS
  <2>5. CASE call[w].op = "deposit"
    <3>1. /\ r.ok = TRUE /\ blobs[n].value = call[w].value
          /\ index' = index \cup {n}
      BY <1>3, <2>1, <2>3, <2>4, <2>5 DEF OnTheWay
    <3>2. n \in DOMAIN v /\ v[n] = call[w].value
      BY <1>1, <2>1, <2>4, <3>1
    <3>3. Told(call[w], r, View', before[w])
      BY <2>4, <2>5, <3>1, <3>2 DEF Told
    <3> QED
      BY <1>0, <2>3, <3>3, TruthReturn
  <2>6. CASE call[w].op = "remove"
    <3>1. /\ r.ok = (n \in index) /\ old = View /\ index' = index \ {n}
      BY <1>3, <2>1, <2>3, <2>4, <2>6 DEF OnTheWay
    <3>2. /\ old = [m \in index |-> blobs[m].value]
          /\ v = [m \in index \ {n} |-> blobs[m].value]
      BY <1>1, <2>1, <2>4, <3>1
    <3>3. /\ r.ok => n \in DOMAIN old \ DOMAIN v
          /\ ~r.ok => v = old
          /\ \A m \in DOMAIN old \ {n} : m \in DOMAIN v /\ v[m] = old[m]
      <4>1. n \notin index => index \ {n} = index
        OBVIOUS
      <4> QED
        BY <3>1, <3>2, <4>1
    <3>4. Told(call[w], r, View', before[w])
      BY <2>4, <2>6, <3>3 DEF Told
    <3> QED
      BY <1>0, <2>3, <3>4, TruthReturn
  <2> QED
    BY <2>1, <2>5, <2>6
<1>16. CASE Crash(w)
  <2>1. pc'[w] = "idle" /\ ret'[w] = None
    BY <1>0, <1>16 DEF Crash, Goto, TypeOK
  <2>2. before' = [q \in Procs |-> before'[q]]
    <3>1. before' = [before EXCEPT ![w] = View]
      BY <1>16 DEF Crash
    <3> QED
      BY <1>0, <3>1 DEF Truth
  <2> QED
    BY <2>1, <2>2 DEF Truth, OnTheWay
<1>17. CASE MasterMisread(w)
  BY <1>17 DEF MasterMisread
<1>18. CASE UNCHANGED vars
  BY <1>2, <1>18 DEF vars, Truth, OnTheWay
<1> QED
  BY <1>0, <1>4, <1>5, <1>6, <1>7, <1>8, <1>9, <1>10, <1>11, <1>12, <1>13,
     <1>14, <1>15, <1>16, <1>17, <1>18
  DEF Next, HostStep

(* One process can believe what its vault calls return, after any crash    *)
(* and any failed write, as long as reads succeed and the index fits the   *)
(* read buffer.                                                            *)
THEOREM ResultsAreTrue ==
  ASSUME NEW w, Procs = {w}, ReadFaults = FALSE,
         Cardinality(Names) <= IndexCap
  PROVE  Spec => []OutcomeIsTruthful
<1>1. Inv /\ OneKey /\ [Next]_vars => OneKey'
  BY OneKeyStep
<1>2. Inv /\ IndexExact /\ [Next]_vars => IndexExact'
  BY IndexExactStep
<1>3. Inv /\ OneKey /\ IndexExact /\ Truth(w) /\ [Next]_vars
        /\ Inv' /\ OneKey' => Truth(w)'
  BY TruthStep
<1>4. Init => Truth(w)
  BY DEF Init, Truth, OnTheWay
<1>5. Truth(w) => OutcomeIsTruthful
  BY DEF Truth, Told, OutcomeIsTruthful
<1> QED
  BY InvInit, InvStep, OneKeyInit, <1>1, <1>2, <1>3, <1>4, <1>5, PTL DEF Spec

=============================================================================
