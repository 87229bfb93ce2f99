--------------------------- MODULE MCSecretVault ----------------------------
(* Instances of SecretVault for TLC.                                       *)
EXTENDS SecretVault, TLC

CONSTANTS p1, p2, n1, n2, n3, v1, v2, k1, k2, k3

OneProc  == {p1}
TwoProcs == {p1, p2}

TwoNames   == {n1, n2}
ThreeNames == {n1, n2, n3}

OneValue  == {v1}
TwoValues == {v1, v2}
NoValues  == {}
BigValue  == {v2}

FewKeys  == {k1, k2}
MoreKeys == {k1, k2, k3}

(* Processes, names and keys are interchangeable; no property names one.   *)
Symmetry == Permutations(TwoProcs) \cup Permutations(TwoNames)
                \cup Permutations(MoreKeys)
=============================================================================
