-------------------------------- MODULE Text --------------------------------
(***************************************************************************)
(* The text functions of the mandate module against declarative            *)
(* definitions of what they compute.  A state is a job, the arguments of   *)
(* one call, and its result; the call is the only step.                    *)
(***************************************************************************)
EXTENDS Inject, Amount

CONSTANTS
    Texts,          \* texts to look for placeholders in
    Substitutions,  \* pairs of a text and the secrets for it
    Templates,      \* pairs of a request template and the secrets for it
    Responses,      \* pairs of a response and the values injected
    Amounts,        \* texts to read as amounts
    None

ASSUME TextAssumption == Texts \subseteq Seq(STRING)

ASSUME ResponseAssumption ==
    Responses \subseteq [response: Seq(STRING), values: Seq(Seq(STRING))]

ASSUME SubstitutionAssumption ==
    /\ Err \notin Seq(STRING)
    /\ \A x \in Substitutions :
          /\ x.text \in Seq(STRING)
          /\ \A n \in DOMAIN x.secrets : x.secrets[n] \in Seq(STRING)

ASSUME AmountAssumption ==
    /\ Amounts \subseteq Seq(STRING)
    /\ DECIMALS \in Nat
    /\ WORD \in Nat \ {0}
    /\ Err \notin Nat

(* Err is not a request either, whatever its texts; its header keys are    *)
(* those of the template, substituted.                                     *)
ASSUME TemplateAssumption ==
    \A x \in Templates :
        LET t == x.template
            keys == {substitute(t.headers[i].key, x.secrets) : i \in DOMAIN t.headers}
        IN  /\ t \in [url: Seq(STRING),
                      headers: Seq([key: Seq(STRING), value: Seq(STRING)]),
                      body: Seq(STRING)]
            /\ \A n \in DOMAIN x.secrets : x.secrets[n] \in Seq(STRING)
            /\ Err \notin [url: Seq(STRING),
                           headers: [keys -> Seq(STRING)],
                           body: Seq(STRING)]

VARIABLES
    fn,         \* the function to call
    arg,        \* its arguments
    out         \* None, then what it returned

vars == <<fn, arg, out>>

Init ==
    /\ out = None
    /\ \/ fn = "parse_placeholders" /\ arg \in Texts
       \/ fn = "substitute" /\ arg \in Substitutions
       \/ fn = "substitute_template" /\ arg \in Templates
       \/ fn = "scrub_response" /\ arg \in Responses
       \/ fn = "parse_usdc_amount" /\ arg \in Amounts

Called(name) == fn = name /\ out = None /\ UNCHANGED <<fn, arg>>

ParsePlaceholders ==
    Called("parse_placeholders") /\ out' = parse_placeholders(arg)

Substitute ==
    Called("substitute") /\ out' = substitute(arg.text, arg.secrets)

SubstituteTemplate ==
    /\ Called("substitute_template")
    /\ out' = substitute_template(arg.template, arg.secrets)

ScrubResponse ==
    /\ Called("scrub_response")
    /\ out' = scrub_response(arg.response, arg.values)

ParseAmount == Called("parse_usdc_amount") /\ out' = parse_usdc_amount(arg)

Next ==
    \/ ParsePlaceholders
    \/ Substitute
    \/ SubstituteTemplate
    \/ ScrubResponse
    \/ ParseAmount

Spec == Init /\ [][Next]_vars

Returned(name) == fn = name /\ out # None

-----------------------------------------------------------------------------
(* Placeholders, by the pattern {[A-Z_][A-Z0-9_]*} of inject.rs:11         *)

IsName(s) ==
    /\ s # <<>>
    /\ is_placeholder_start(s[1])
    /\ \A i \in DOMAIN s : is_placeholder_continue(s[i])

IsTokenAt(t, i, j) ==
    t[i] = "{" /\ t[j] = "}" /\ IsName(SubSeq(t, i + 1, j - 1))

Spans(t) ==
    {s \in (1 .. Len(t)) \X (1 .. Len(t)) :
        s[1] < s[2] /\ IsTokenAt(t, s[1], s[2])}

NameAt(t, s) == SubSeq(t, s[1] + 1, s[2] - 1)

FirstAt(t, name) == Min({s[1] : s \in {r \in Spans(t) : NameAt(t, r) = name}})

(* The scanner of parse_placeholders finds every token of the text, also   *)
(* after braces that begin none, each name once and in the order of first  *)
(* occurrence, and nothing else.                                           *)
FindsEveryPlaceholder ==
    Returned("parse_placeholders") =>
        /\ ToSet(out) = {NameAt(arg, s) : s \in Spans(arg)}
        /\ \A i, j \in DOMAIN out :
              i < j => FirstAt(arg, out[i]) < FirstAt(arg, out[j])

-----------------------------------------------------------------------------
(* Substitution *)

(* Every token of the text replaced at once.                               *)
Simultaneous(t, secrets) ==
    LET rest[i \in 1 .. Len(t) + 1] ==
            IF i > Len(t) THEN <<>>
            ELSE IF \E s \in Spans(t) : s[1] = i
                 THEN LET s == CHOOSE r \in Spans(t) : r[1] = i
                      IN  secrets[NameAt(t, s)] \o rest[s[2] + 1]
            ELSE <<t[i]>> \o rest[i + 1]
    IN  rest[1]

HasBrace(t) == \E i \in DOMAIN t : t[i] \in {"{", "}"}

(* A token between braces that enclose nothing but names and tokens:       *)
(* substituting it may make a new token of its surroundings.               *)
Nested(t) ==
    \E s \in Spans(t), i, j \in 1 .. Len(t) :
        /\ i < s[1] /\ s[2] < j
        /\ t[i] = "{" /\ t[j] = "}"
        /\ \A k \in i + 1 .. j - 1 :
              \/ is_placeholder_continue(t[k])
              \/ \E r \in Spans(t) : r[1] <= k /\ k <= r[2]

(* The texts in which the order of the replacements cannot matter.         *)
OrderFree(t, secrets) ==
    ~Nested(t) /\ \A n \in DOMAIN secrets : ~HasBrace(secrets[n])

AllKnown(t, secrets) == \A s \in Spans(t) : NameAt(t, s) \in DOMAIN secrets

(* substitute replaces one name after the other, each in the text that the *)
(* ones before have left.  For values without braces, and outside of       *)
(* nested braces, that is the simultaneous substitution: no value is       *)
(* substituted in turn, whatever it contains and whatever stands next to   *)
(* it.  It fails exactly if some placeholder has no secret.                *)
SubstitutesAtOnce ==
    Returned("substitute") =>
        /\ out = Err <=> ~AllKnown(arg.text, arg.secrets)
        /\ out # Err /\ OrderFree(arg.text, arg.secrets) =>
              out = Simultaneous(arg.text, arg.secrets)

(* With a secret for every name that collect_all_placeholders returns, no  *)
(* field of a template is left with a placeholder and substitution cannot  *)
(* fail: step 5 of execute_request needs no more than step 4 retrieved.    *)
(* Every header goes out, unless two keys have become equal.               *)
TemplateIsHydrated ==
    Returned("substitute_template") =>
        LET t == arg.template
            s == arg.secrets
            texts == {t.url, t.body} \cup ToSet(HeaderTexts(t))
            keys == [i \in DOMAIN t.headers |->
                        Simultaneous(t.headers[i].key, s)]
        IN  ToSet(collect_all_placeholders(t)) \subseteq DOMAIN s =>
              /\ out # Err
              /\ (\A x \in texts : OrderFree(x, s)) =>
                    /\ out.url = Simultaneous(t.url, s)
                    /\ out.body = Simultaneous(t.body, s)
                    /\ DOMAIN out.headers = ToSet(keys)
                    /\ IsInjective(keys) => \A i \in DOMAIN keys :
                          out.headers[keys[i]] =
                              Simultaneous(t.headers[i].value, s)

-----------------------------------------------------------------------------
(* Scrubbing *)

(* What scrub_response promises to remove (inject.rs:72).                  *)
Forbidden(values) ==
    UNION {{v} \cup (IF Long(v) THEN {Prefix(v), Suffix(v)} ELSE {}) :
              v \in ToSet(values)}

(* Nothing of f can come back with a marker: neither inside of it nor      *)
(* across one of its brackets.                                             *)
ApartFromMarker(f) ==
    /\ f # <<>>
    /\ \A i \in DOMAIN f : f[i] \notin {"[", "]"}
    /\ ~Occurs(f, Marker)

(* In whatever order the values come, and although each replacement works  *)
(* on what the ones before have left, no injected value is left in the     *)
(* result, nor the first or last PART bytes of a long one; and a response  *)
(* without any of them is returned as it is.  Excepted are values that are *)
(* empty or contain a bracket, and those that, or an end of which, are     *)
(* found in the word REDACTED.                                             *)
NothingLeaks ==
    /\ Returned("scrub_response")
    /\ out # Panic
    /\ \A f \in Forbidden(arg.values) : ApartFromMarker(f)
    => LET forbidden == Forbidden(arg.values)
       IN  /\ \A f \in forbidden : ~Occurs(f, out)
           /\ (\A f \in forbidden : ~Occurs(f, arg.response)) =>
                 out = arg.response

-----------------------------------------------------------------------------
(* Amounts *)

(* u64::from_str accepts a leading plus sign, also after the point, where  *)
(* it takes the place of a digit: "1.+5" is read as "1.05".                *)
Unsigned(t) == IF Len(t) > 1 /\ t[1] = "+" THEN <<"0">> \o Tail(t) ELSE t

(* The amount's digits, the decimals cut or filled up with zeros to        *)
(* DECIMALS bytes, as one number: what the text means, in millionths.      *)
Meant(s) ==
    LET d == Padded(DecimalPart(s))
        zeros == [i \in 1 .. DECIMALS - Len(d) |-> "0"]
    IN  Numeral(Unsigned(IntegerPart(s)) \o Unsigned(d) \o zeros)

IsAmount(s) ==
    /\ s # <<>>
    /\ IsDigits(Unsigned(IntegerPart(s)))
    /\ IsDigits(Unsigned(Padded(DecimalPart(s))))

(* A text of digits with at most one point means what it says: its value   *)
(* in millionths, exactly and cut after DECIMALS places, whenever that     *)
(* fits a u64.                                                             *)
(* A larger amount is an error or wraps.  Nothing else is accepted, except *)
(* for what follows the DECIMALS-th place and for plus signs.              *)
AmountIsMeant ==
    Returned("parse_usdc_amount") =>
        LET s == Trim(arg)
        IN  /\ out \notin {Err, Panic} =>
                  IsAmount(s) /\ out = Meant(s) % WORD
            /\ IsAmount(s) /\ IsDigits(DecimalPart(s)) /\ Meant(s) < WORD =>
                  out = Meant(s)

=============================================================================
