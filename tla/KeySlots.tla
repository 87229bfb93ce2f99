------------------------------ MODULE KeySlots ------------------------------
(***************************************************************************)
(* What the rest of the mandate module relies on about keys: which of the  *)
(* two statics of a process hold a key, and whether it has a config.  The  *)
(* spending path (TxFlow) sees no more of the keys than this; KeyLifecycle *)
(* says where they come from.                                              *)
(***************************************************************************)
CONSTANT Procs

VARIABLES
    filled,     \* process -> the kinds of key it holds
    ready       \* process -> whether BACKEND_CONFIG is set

slots == <<filled, ready>>

Both == {"worker", "session"}

Init ==
    /\ filled = [p \in Procs |-> {}]
    /\ ready = [p \in Procs |-> FALSE]

(* mandate_generate_keys fills both slots at once.                         *)
Generate(p) ==
    /\ filled' = [filled EXCEPT ![p] = Both]
    /\ UNCHANGED ready

(* mandate_init adds keys, the worker's before the session's, and takes    *)
(* none away; the config is stored once both are there.                    *)
Add(p, kinds) ==
    /\ "worker" \in filled[p] \cup kinds
    /\ filled' = [filled EXCEPT ![p] = @ \cup kinds]
    /\ \/ UNCHANGED ready
       \/ filled'[p] = Both /\ ready' = [ready EXCEPT ![p] = TRUE]

Restart(p) ==
    /\ filled' = [filled EXCEPT ![p] = {}]
    /\ ready' = [ready EXCEPT ![p] = FALSE]

Next ==
    \E p \in Procs :
        \/ Generate(p)
        \/ \E kinds \in SUBSET Both : Add(p, kinds)
        \/ Restart(p)

Spec == Init /\ [][Next]_slots

=============================================================================
