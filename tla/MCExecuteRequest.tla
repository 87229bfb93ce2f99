-------------------------- MODULE MCExecuteRequest --------------------------
(* Instances of ExecuteRequest for TLC.                                    *)
EXTENDS ExecuteRequest, TLC

CONSTANTS c1, a, b, site, text, binary, umlauts

OneCaller == {c1}
Names     == {a, b}
Sites     == {site}

Both   == [placeholders |-> <<a, b>>, url |-> {site}]
JustA  == [placeholders |-> <<a>>, url |-> {site}]
Astray == [placeholders |-> <<a>>, url |-> {}]
Plain  == [placeholders |-> <<>>, url |-> {}]

AllTemplates == {Both, JustA, Astray, Plain}
OneTemplate  == {JustA}

Limit(rate, daily) ==
    [rate_limit |-> rate, daily_limit |-> daily, allowed_domains |-> {site}]

PolicyFor(ofA, ofB) ==
    [spending |-> DefaultPolicy.spending,
     secrets |-> [n \in Names |-> IF n = a THEN ofA ELSE ofB]]

(* a is limited to one call a minute and two a day, b to two and two, and  *)
(* then b alone to one and one.                                            *)
Strict  == PolicyFor(Limit(1, 2), Limit(2, 2))
Lenient == PolicyFor(None, Limit(1, 1))
Never   == PolicyFor(Limit(0, 0), None)

TwoPolicies == {Strict, Lenient}
NeverPolicy == {Never}

TwoValues   == {text, binary}
ThreeValues == {text, binary, umlauts}
TextValues  == {text}
ValidValues == {text, umlauts}
TornValues  == {umlauts}
NoValues    == {}
=============================================================================
