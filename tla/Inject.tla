------------------------------- MODULE Inject -------------------------------
(***************************************************************************)
(* mandate/src/inject.rs: placeholders, substitution and scrubbing, as     *)
(* operators on texts.  `{`, `}`, `[`, `]`, the upper-case letters, digits  *)
(* and the underscore are themselves; every other letter stands for the    *)
(* bytes that are none of these.                                           *)
(***************************************************************************)
EXTENDS Bytes

CONSTANT PART       \* 8: scrub_response also looks for the first and the
                    \* last PART bytes of a value of at least 2 * PART

ASSUME PartAssumption == PART \in Nat \ {0}

is_placeholder_start(b) ==
    b \in {"A", "B", "C", "D", "E", "F", "G", "H", "I", "J", "K", "L", "M",
           "N", "O", "P", "Q", "R", "S", "T", "U", "V", "W", "X", "Y", "Z", "_"}

is_placeholder_continue(b) ==
    is_placeholder_start(b) \/ b \in DOMAIN DigitValue

Dedup(names) ==
    FoldLeft(LAMBDA all, n : IF Contains(all, n) THEN all ELSE Append(all, n),
             <<>>, names)

-----------------------------------------------------------------------------
(* The position of the byte that ends a name begun at i: the first that    *)
(* does not continue it.                                                   *)
NameEnd(t, i) ==
    Min({e \in i + 1 .. Len(t) + 1 :
            e <= Len(t) => ~is_placeholder_continue(t[e])})

IsToken(t, i) ==
    /\ t[i] = "{"
    /\ i < Len(t)
    /\ is_placeholder_start(t[i + 1])
    /\ NameEnd(t, i + 1) <= Len(t)
    /\ t[NameEnd(t, i + 1)] = "}"

(* Mutant: after a brace that begins no token the scan skips a name.       *)
Mut_SkipsNames(t) ==
    LET scan[i \in 1 .. Len(t) + 1] ==
            IF i > Len(t) THEN <<>>
            ELSE IF IsToken(t, i)
                 THEN LET end == NameEnd(t, i + 1)
                      IN  <<SubSeq(t, i + 1, end - 1)>> \o scan[end + 1]
            ELSE IF t[i] = "{" /\ i < Len(t) THEN scan[NameEnd(t, i + 1)]
            ELSE scan[i + 1]
    IN  Dedup(scan[1])

(* The names in braces, each once, in the order of their first occurrence. *)
parse_placeholders(t) ==
    LET scan[i \in 1 .. Len(t) + 1] ==
            IF i > Len(t) THEN <<>>
            ELSE IF IsToken(t, i)
                 THEN LET end == NameEnd(t, i + 1)
                      IN  <<SubSeq(t, i + 1, end - 1)>> \o scan[end + 1]
            ELSE scan[i + 1]
    IN  Dedup(scan[1])

Token(name) == <<"{">> \o name \o <<"}">>

(* Mutant: replacen(.., 1), which replaces the first occurrence only.      *)
Mut_ReplacesOnce(t, secrets) ==
    LET first(text, name) ==
            LET at == CHOOSE i \in 1 .. Len(text) :
                          StandsAt(Token(name), text, i)
            IN  ReplaceSubSeqAt(at, secrets[name], Token(name), text)
        step(text, name) ==
            IF text = Err \/ name \notin DOMAIN secrets THEN Err
            ELSE IF Occurs(Token(name), text) THEN first(text, name) ELSE text
    IN  FoldLeft(step, t, parse_placeholders(t))

(* One placeholder after the other is replaced in the whole text.          *)
substitute(t, secrets) ==
    LET step(text, name) ==
            IF text = Err \/ name \notin DOMAIN secrets THEN Err
            ELSE Replace(text, Token(name), secrets[name])
    IN  FoldLeft(step, t, parse_placeholders(t))

-----------------------------------------------------------------------------
(* RequestTemplate.  The headers are a sequence of pairs with distinct     *)
(* keys, in the order in which the HashMap yields them; no body is <<>>.   *)

HeaderTexts(template) ==
    FlattenSeq([i \in DOMAIN template.headers |->
                    <<template.headers[i].key, template.headers[i].value>>])

(* Mutant: the keys of the headers are not looked at.                      *)
Mut_CollectsValuesOnly(template) ==
    Dedup(FlattenSeq(<<parse_placeholders(template.url)>>
            \o [i \in DOMAIN template.headers |->
                    parse_placeholders(template.headers[i].value)]
            \o <<parse_placeholders(template.body)>>))

(* From the URL, from the keys and values of the headers, from the body.   *)
collect_all_placeholders(template) ==
    LET texts == <<template.url>> \o HeaderTexts(template) \o <<template.body>>
    IN  Dedup(FlattenSeq([i \in DOMAIN texts |-> parse_placeholders(texts[i])]))

(* The headers go into a new map: of two whose keys have become equal, the *)
(* later one stays.                                                        *)
substitute_template(template, secrets) ==
    LET texts == <<template.url>> \o HeaderTexts(template) \o <<template.body>>
        keys == [i \in DOMAIN template.headers |->
                    substitute(template.headers[i].key, secrets)]
        last(k) == Max({i \in DOMAIN keys : keys[i] = k})
    IN  IF \E i \in DOMAIN texts : substitute(texts[i], secrets) = Err
        THEN Err
        ELSE [url |-> substitute(template.url, secrets),
              headers |-> [k \in ToSet(keys) |->
                  substitute(template.headers[last(k)].value, secrets)],
              body |-> substitute(template.body, secrets)]

-----------------------------------------------------------------------------
Marker == <<"[", "R", "E", "D", "A", "C", "T", "E", "D", "]">>

Prefix(v) == SubSeq(v, 1, PART)
Suffix(v) == SubSeq(v, Len(v) - PART + 1, Len(v))

Long(v) == Len(v) >= 2 * PART

(* The values whose slices are not at the ends of characters.              *)
Torn(v) ==
    Long(v) /\ ~(IsCharBoundary(v, PART) /\ IsCharBoundary(v, Len(v) - PART))

(* Mutant: the suffix of a long value is left in.                          *)
Mut_PrefixOnly(text, v) ==
    LET exact == Replace(text, v, Marker)
    IN  IF ~Long(v) THEN exact ELSE Replace(exact, Prefix(v), Marker)

ScrubValue(text, v) ==
    LET exact == Replace(text, v, Marker)
    IN  IF ~Long(v) THEN exact
        ELSE Replace(Replace(exact, Prefix(v), Marker), Suffix(v), Marker)

(* The values come in the order in which a HashMap yields them.            *)
scrub_response(response, values) ==
    IF \E i \in DOMAIN values : Torn(values[i]) THEN Panic
    ELSE FoldLeft(ScrubValue, response, values)

=============================================================================
