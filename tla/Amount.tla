------------------------------- MODULE Amount -------------------------------
(* parse_usdc_amount of mandate/src/lib.rs, as an operator on texts.       *)
EXTENDS Bytes

CONSTANTS
    DECIMALS,   \* 6: the decimal places of USDC
    WORD        \* 2^64, scaled down for model checking

(* split_once('.') *)
Point(s) == SelectInSeq(s, LAMBDA c : c = ".")
IntegerPart(s) == IF Point(s) = 0 THEN s ELSE SubSeq(s, 1, Point(s) - 1)
DecimalPart(s) == IF Point(s) = 0 THEN <<>> ELSE SubSeq(s, Point(s) + 1, Len(s))

(* An empty part counts as 0.                                              *)
ParsePart(t) == IF t = <<>> THEN 0 ELSE ParseU64(t, WORD)

(* The first six bytes of the decimals.                                    *)
Padded(d) == SubSeq(d, 1, Min({DECIMALS, Len(d)}))

(* Mutant: the decimals are read as a number, as if always six were given. *)
Mut_Unscaled(d) == ParsePart(Padded(d))

(* 10u64.pow(n), for an n of at most DECIMALS.                             *)
Pow10(n) ==
    LET power[i \in 0 .. n] == IF i = 0 THEN 1 ELSE 10 * power[i - 1]
    IN  power[n]

(* "5" -> 500000, "25" -> 250000, "123456" -> 123456                       *)
Scaled(d) ==
    LET p == ParsePart(Padded(d))
    IN  IF p = Err THEN Err ELSE p * Pow10(DECIMALS - Len(Padded(d)))

(* The sum wraps in the release build.                                     *)
parse_usdc_amount(text) ==
    LET s == Trim(text)
        integer == ParsePart(IntegerPart(s))
        d == DecimalPart(s)
    IN  IF s = <<>> \/ integer = Err THEN Err
        ELSE IF Len(d) > DECIMALS /\ ~IsCharBoundary(d, DECIMALS) THEN Panic
        ELSE IF Scaled(d) = Err THEN Err
        ELSE (integer * Pow10(DECIMALS) + Scaled(d)) % WORD

=============================================================================
