----------------------------- MODULE SecretMap ------------------------------
(***************************************************************************)
(* What the secret vault promises: a persistent map from names to values   *)
(* in which every deposit and every removal takes effect at one instant,   *)
(* or not at all, whatever crashes or fails on the way.                    *)
(***************************************************************************)
CONSTANTS Names, Values

VARIABLE secrets    \* function from the deposited names to their values

Init == secrets = [n \in {} |-> n]

Deposit(n, v) ==
    secrets' = [m \in DOMAIN secrets \cup {n} |->
                   IF m = n THEN v ELSE secrets[m]]

Remove(n) == secrets' = [m \in DOMAIN secrets \ {n} |-> secrets[m]]

Next == \E n \in Names : Remove(n) \/ \E v \in Values : Deposit(n, v)

Spec == Init /\ [][Next]_secrets

=============================================================================
