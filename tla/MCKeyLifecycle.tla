--------------------------- MODULE MCKeyLifecycle ---------------------------
(* Instance of KeyLifecycle for TLC.                                       *)
EXTENDS KeyLifecycle, TLC

CONSTANTS p1, p2, m1, m2, m3

TwoProcs == {p1, p2}

ThreeMasters == {m1, m2, m3}

Both(x) == [k \in Kinds |-> x]

(* Two configs that name different pairs.  The first has the worker key in *)
(* hex, and not the one of the id, and no session key, as the SDK leaves   *)
(* it out after mandate_generate_keys; the second is the older form with   *)
(* both keys in hex, which are not the ones of its ids.                    *)
SomeConfigs ==
    {[id |-> Both(1), hex |-> [NoKeys EXCEPT !["worker"] = Key("worker", 2)]],
     [id |-> Both(2), hex |-> Pair(1)]}

(* Processes and master keys are interchangeable; no property names one.   *)
Symmetry == Permutations(TwoProcs) \cup Permutations(ThreeMasters)
=============================================================================
