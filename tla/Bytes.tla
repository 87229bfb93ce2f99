------------------------------- MODULE Bytes --------------------------------
(***************************************************************************)
(* The functions of Rust's str that inject.rs and parse_usdc_amount call,  *)
(* on texts as sequences of bytes.  A byte is a one-character string; the  *)
(* byte "~" is any byte of a UTF-8 character other than its first.         *)
(***************************************************************************)
EXTENDS Integers, Sequences, SequencesExt

CONSTANTS
    Err,        \* Result::Err
    Panic       \* the call panicked

(* str::is_char_boundary of a byte offset: slicing anywhere else panics.   *)
IsCharBoundary(s, offset) == offset = Len(s) \/ s[offset + 1] # "~"

(* s stands in t at position i, or anywhere.                               *)
StandsAt(s, t, i) ==
    i + Len(s) - 1 <= Len(t) /\ SubSeq(t, i, i + Len(s) - 1) = s

Occurs(s, t) == \E i \in 1 .. Len(t) : StandsAt(s, t, i)

(* str::replace: the occurrences of `from`, left to right, that do not     *)
(* overlap.  The empty text occurs between any two bytes and at both ends. *)
Replace(t, from, to) ==
    LET n == Len(from)
        rest[i \in 1 .. Len(t) + 1] ==
            IF i > Len(t) THEN <<>>
            ELSE IF n > 0 /\ StandsAt(from, t, i)
                 THEN to \o rest[i + n]
            ELSE (IF n = 0 THEN to ELSE <<>>) \o <<t[i]>> \o rest[i + 1]
    IN  rest[1] \o (IF n = 0 THEN to ELSE <<>>)

(* str::trim: without the spaces at the ends.                              *)
Trim(t) ==
    LET ink == {i \in 1 .. Len(t) : t[i] # " "}
    IN  IF ink = {} THEN <<>> ELSE SubSeq(t, Min(ink), Max(ink))

(* The value of a text of digits.                                          *)
DigitValue ==
    [c \in {"0", "1", "2", "3", "4", "5", "6", "7", "8", "9"} |->
        CASE c = "0" -> 0 [] c = "1" -> 1 [] c = "2" -> 2 [] c = "3" -> 3
          [] c = "4" -> 4 [] c = "5" -> 5 [] c = "6" -> 6 [] c = "7" -> 7
          [] c = "8" -> 8 [] c = "9" -> 9]

IsDigits(t) == \A i \in 1 .. Len(t) : t[i] \in DOMAIN DigitValue

Numeral(t) ==
    LET value[i \in 0 .. Len(t)] ==
            IF i = 0 THEN 0 ELSE 10 * value[i - 1] + DigitValue[t[i]]
    IN  value[Len(t)]

(* str::parse::<u64>, for u64 of `word` values: one or more digits, after  *)
(* a plus sign if there is one; a value that does not fit is an error.     *)
ParseU64(t, word) ==
    LET digits == IF t # <<>> /\ t[1] = "+" THEN Tail(t) ELSE t
    IN  IF digits # <<>> /\ IsDigits(digits) /\ Numeral(digits) < word
        THEN Numeral(digits) ELSE Err

=============================================================================
