------------------------------- MODULE MCText -------------------------------
(* Inputs for Text: texts put together from a few characters or fragments, *)
(* so that tokens, and braces that are none, occur often.                  *)
EXTENDS Text

(* The texts of up to n pieces.                                            *)
UpTo(pieces, n) == {FlattenSeq(s) : s \in BoundedSeq(pieces, n)}

Open   == <<"{">>
Close  == <<"}">>
A      == <<"A">>
B      == <<"B">>
C      == <<"C">>
One    == <<"1">>
Lower  == <<"x">>
Umlaut == <<"u", "~">>

ScanTexts == UpTo({Open, Close, A, One, Lower}, 6)

(* Secrets for both names, and for A alone.                                *)
SecretsOver(values) ==
    [{A, B} -> values] \cup [{A} -> values]

TokenTexts == UpTo({Open, Close, B, Lower, Token(A), Token(B)}, 4)

SomeSubstitutions ==
    [text: TokenTexts,
     secrets: SecretsOver({<<>>, B, Lower, Token(B)})]

HeaderText == {Lower, Token(A), Token(B) \o Lower}

SomeHeaders ==
    {<<>>} \cup {<<[key |-> k, value |-> v], [key |-> l, value |-> w]>> :
                    k, l, v, w \in HeaderText}

SomeTemplates ==
    [template: [url: {Lower, Token(B)},
                headers: {h \in SomeHeaders : h # <<>> => h[1].key # h[2].key},
                body: {<<>>, Open \o Token(A) \o Lower \o Close}],
     secrets: SecretsOver({Lower, B, Open})]

SomeResponses ==
    [response: UpTo({A, B}, 6),
     values: BoundedSeq(UpTo({A, B}, 4), 2)]
    \cup
    [response: UpTo({A, C}, 4),
     values: BoundedSeq(UpTo({A, C}, 3), 2)]
    \cup
    [response: {A \o Umlaut, Umlaut \o Umlaut \o A},
     values: BoundedSeq(UpTo({A, Umlaut, <<"[">>}, 3), 2)]

SomeAmounts ==
    UpTo({<<"0">>, <<"1">>, <<"9">>, <<".">>, <<"+">>, <<" ">>, Lower, Umlaut}, 5)
=============================================================================
