--------------------------- MODULE ExecuteRequest ---------------------------
(***************************************************************************)
(* execute_request of mandate/src/lib.rs: an HTTP request whose template   *)
(* names secrets.  Each placeholder is checked against the policy, then    *)
(* each is retrieved from the vault, the request is sent, and the uses are *)
(* counted.  Every with_policy_engine and every with_vault is a locked     *)
(* section of its own and an action of its own, for callers as in TxFlow.  *)
(*                                                                         *)
(* The vault is the abstract map that SecretVault implements.  A template  *)
(* is reduced to its placeholders and its URL.                             *)
(***************************************************************************)
EXTENDS PolicyEngine, Sequences, FiniteSets

CONSTANTS
    Callers,        \* threads that call the module's exports
    Templates,      \* request templates
    Policies,       \* policies the host program passes to set_policy
    Values,         \* secret values
    Utf8,           \* those that are valid UTF-8 and fit the read buffer
    Torn,           \* those of 16 bytes or more of which byte 8, from the
                    \* start or from the end, is inside a character
    MaxTime,        \* bound on the clock
    MaxRequests     \* no request is begun once this many were sent

(* collect_all_placeholders returns every name once, in order.             *)
Placeholders ==
    {s \in Seq(SecretNames) : \A i, j \in DOMAIN s : s[i] = s[j] => i = j}

Template == [placeholders: Placeholders, url: SUBSET Domains]

ASSUME RequestAssumption ==
    /\ Templates \subseteq Template
    /\ Policies \subseteq Policy
    /\ Utf8 \subseteq Values
    /\ Torn \subseteq Utf8
    /\ None \notin Values

VARIABLES
    now,        \* current_time()
    engine,     \* POLICY_ENGINE
    secrets,    \* the vault: name -> value
    pc,         \* where each caller is
    loc,        \* the locals of its execute_request call
    sent        \* history: the requests that went out

vars == <<now, engine, secrets, pc, loc, sent>>

Vault == INSTANCE SecretMap WITH Names <- SecretNames

(* i: the loop's position; req: history, the number of the request.        *)
Locals == [template: Template, now: Nat, i: Nat, values: HashMap(Utf8),
           req: Nat]

NoLocals == [template |-> [placeholders |-> <<>>, url |-> {}],
             now |-> 0, i |-> 1, values |-> EmptyMap, req |-> 0]

Request == [names: SUBSET SecretNames, now: Nat, torn: BOOLEAN,
            counted: BOOLEAN]

TypeOK ==
    /\ now \in Nat
    /\ engine \in Engine \cup {None}
    /\ DOMAIN secrets \subseteq SecretNames
    /\ secrets \in [DOMAIN secrets -> Values]
    /\ pc \in [Callers -> {"idle", "check", "retrieve", "send", "record"}]
    /\ loc \in [Callers -> Locals]
    /\ sent \in Seq(Request)

Init ==
    /\ now = 0
    /\ engine = None
    /\ Vault!Init
    /\ pc = [c \in Callers |-> "idle"]
    /\ loc = [c \in Callers |-> NoLocals]
    /\ sent = <<>>

-----------------------------------------------------------------------------
(* with_policy_engine: the engine, created on first use.                   *)
Locked == IF engine = None THEN NewEngine(DefaultPolicy, now) ELSE engine

Goto(c, l) == pc' = [pc EXCEPT ![c] = l]

Return(c) == Goto(c, "idle") /\ loc' = [loc EXCEPT ![c] = NoLocals]

(* The placeholder at hand, and all of them.                               *)
placeholder(c) == loc[c].template.placeholders[loc[c].i]

Last(c) == loc[c].i = Len(loc[c].template.placeholders)

Used(c) == {loc[c].template.placeholders[i] :
                i \in DOMAIN loc[c].template.placeholders}

-----------------------------------------------------------------------------
(* The exports that share the engine and the vault with execute_request.   *)

SetPolicy(c) ==
    /\ pc[c] = "idle"
    /\ \E p \in Policies : engine' = set_policy(Locked, p)
    /\ UNCHANGED <<now, secrets, pc, loc, sent>>

(* Also what the pre-flight check of tx_flow does to the usage windows.    *)
GetSpendingSummary(c) ==
    /\ pc[c] = "idle"
    /\ engine' = reset_if_needed(Locked, now)
    /\ UNCHANGED <<now, secrets, pc, loc, sent>>

DepositSecret(c) ==
    /\ pc[c] = "idle"
    /\ \E n \in SecretNames, v \in Values : Vault!Deposit(n, v)
    /\ UNCHANGED <<now, engine, pc, loc, sent>>

RemoveSecret(c) ==
    /\ pc[c] = "idle"
    /\ \E n \in SecretNames : Vault!Remove(n)
    /\ UNCHANGED <<now, engine, pc, loc, sent>>

-----------------------------------------------------------------------------
(* execute_request *)

(* Steps 1 and 2: a template without placeholders is sent as it is.        *)
Begin(c) ==
    /\ pc[c] = "idle"
    /\ Len(sent) < MaxRequests
    /\ \E t \in Templates :
        /\ loc' = [loc EXCEPT ![c] = [NoLocals EXCEPT !.template = t,
                                                      !.now = now]]
        /\ Goto(c, IF t.placeholders = <<>> THEN "send" ELSE "check")
    /\ UNCHANGED <<now, engine, secrets, sent>>

(* The loop of step 3 or 4 goes on with the next placeholder, or its       *)
(* successor starts with the first.                                        *)
NextPlaceholder(c, after, l) ==
    IF Last(c)
    THEN loc' = [loc EXCEPT ![c] = [l EXCEPT !.i = 1]] /\ Goto(c, after)
    ELSE loc' = [loc EXCEPT ![c] = [l EXCEPT !.i = @ + 1]] /\ UNCHANGED pc

(* Mutant: only the first placeholder is checked.                          *)
Mut_CheckFirstOnly(c) ==
    /\ pc[c] = "check"
    /\ LET e == reset_if_needed(Locked, loc[c].now)
       IN  /\ engine' = e
           /\ IF check_secret_usage(e, placeholder(c), loc[c].template.url)
              THEN Goto(c, "retrieve") /\ UNCHANGED loc
              ELSE Return(c)
    /\ UNCHANGED <<now, secrets, sent>>

(* Step 3 *)
CheckUsage(c) ==
    /\ pc[c] = "check"
    /\ LET e == reset_if_needed(Locked, loc[c].now)
       IN  /\ engine' = e
           /\ IF check_secret_usage(e, placeholder(c), loc[c].template.url)
              THEN NextPlaceholder(c, "retrieve", loc[c])
              ELSE Return(c)
    /\ UNCHANGED <<now, secrets, sent>>

WithValue(c) ==
    [loc[c] EXCEPT !.values[placeholder(c)] = secrets[placeholder(c)]]

(* Mutant: a value that is not UTF-8 is injected all the same.             *)
Mut_RetrieveAnything(c) ==
    /\ pc[c] = "retrieve"
    /\ IF placeholder(c) \in DOMAIN secrets
       THEN NextPlaceholder(c, "send", WithValue(c))
       ELSE Return(c)
    /\ UNCHANGED <<now, engine, secrets, sent>>

(* Step 4: not found, or not UTF-8, ends the call.                         *)
RetrieveSecret(c) ==
    /\ pc[c] = "retrieve"
    /\ IF placeholder(c) \in DOMAIN secrets /\ secrets[placeholder(c)] \in Utf8
       THEN NextPlaceholder(c, "send", WithValue(c))
       ELSE Return(c)
    /\ UNCHANGED <<now, engine, secrets, sent>>

(* The slices of scrub_response panic on some injected value.              *)
Tears(c) == \E n \in SecretNames : loc[c].values[n] \in Torn

(* Steps 5 and 6.  Every placeholder has a value by now.                   *)
Send(c) ==
    /\ pc[c] = "send"
    /\ sent' = Append(sent, [names |-> Used(c), now |-> loc[c].now,
                             torn |-> Tears(c), counted |-> FALSE])
    /\ loc' = [loc EXCEPT ![c].req = Len(sent) + 1]
    /\ Goto(c, "record")
    /\ UNCHANGED <<now, engine, secrets>>

(* Every use is counted in one locked section; the names are distinct.     *)
RecordUses(e, names, t) ==
    [e EXCEPT !.secret_usage =
        [n \in SecretNames |->
            IF n \in names THEN record_secret_usage(e, n, t).secret_usage[n]
                           ELSE e.secret_usage[n]]]

(* Mutant: an HTTP error is returned before the uses are counted.          *)
Mut_CountSuccessOnly(c) ==
    /\ pc[c] = "record"
    /\ ~Tears(c)
    /\ \E success \in BOOLEAN :
        IF success
        THEN /\ engine' = RecordUses(Locked, Used(c), loc[c].now)
             /\ sent' = [sent EXCEPT ![loc[c].req].counted = TRUE]
        ELSE UNCHANGED <<engine, sent>>
    /\ Return(c)
    /\ UNCHANGED <<now, secrets>>

(* Steps 7 to 9, whatever the host answered, an HTTP error included.       *)
Record(c) ==
    /\ pc[c] = "record"
    /\ ~Tears(c)
    /\ engine' = RecordUses(Locked, Used(c), loc[c].now)
    /\ sent' = [sent EXCEPT ![loc[c].req].counted = TRUE]
    /\ Return(c)
    /\ UNCHANGED <<now, secrets>>

(* Step 7 slices the value at bytes 8 and len - 8, whatever the response   *)
(* is: inside a character that panics, and the call ends uncounted.        *)
ScrubPanics(c) ==
    /\ pc[c] = "record"
    /\ Tears(c)
    /\ Return(c)
    /\ UNCHANGED <<now, engine, secrets, sent>>

Tick ==
    /\ now < MaxTime
    /\ now' = now + 1
    /\ UNCHANGED <<engine, secrets, pc, loc, sent>>

-----------------------------------------------------------------------------
Continue(c) ==
    \/ CheckUsage(c)
    \/ RetrieveSecret(c)
    \/ Send(c)
    \/ Record(c)
    \/ ScrubPanics(c)

Call(c) ==
    \/ SetPolicy(c)
    \/ GetSpendingSummary(c)
    \/ DepositSecret(c)
    \/ RemoveSecret(c)
    \/ Begin(c)

Next ==
    \/ \E c \in Callers : Call(c) \/ Continue(c)
    \/ Tick

Spec == Init /\ [][Next]_vars

-----------------------------------------------------------------------------
(* Properties *)

(* The placeholders whose check has passed, at each step of the call.      *)
Checked(c) ==
    CASE pc[c] = "check" -> {loc[c].template.placeholders[i] :
                                i \in 1 .. loc[c].i - 1}
      [] pc[c] \in {"retrieve", "send", "record"} -> Used(c)
      [] OTHER -> {}

Injected(c) == {n \in SecretNames : loc[c].values[n] # None}

(* Until the uses are counted, every check that passed would pass again,   *)
(* and every value retrieved is the one the vault holds: the request that  *)
(* goes out is one the policy allows now, with the secrets as they are     *)
(* now.  The query check_policy agrees with every check that passed.  It   *)
(* needs a single caller, since no lock spans the call.                    *)
CheckedStillHolds ==
    \A c \in Callers :
        /\ \A n \in Checked(c) :
              /\ engine # None
              /\ check_secret_usage(engine, n, loc[c].template.url)
              /\ check_use_secret(engine.policy, n, loc[c].template.url)
        /\ \A n \in Injected(c) :
              n \in DOMAIN secrets /\ loc[c].values[n] = secrets[n]
        /\ pc[c] = "send" => Injected(c) = Used(c)

(* What a use may bring the counters of a secret to: positive limits only, *)
(* or every limit.                                                         *)
UsesWithin(c, least) ==
    \A n \in Used(c) :
        LET p == engine'.policy.secrets[n]
            u == engine'.secret_usage[n]
        IN  p # None /\ p.rate_limit >= least /\ p.daily_limit >= least =>
                /\ u.calls_this_minute <= p.rate_limit
                /\ u.calls_today <= p.daily_limit

(* A counted use never takes a secret's counters over its positive limits, *)
(* although they are checked before the request and counted after it.      *)
UseWithinLimits == [][\A c \in Callers : Record(c) => UsesWithin(c, 1)]_vars

(* types.rs:26 and 28, on rate_limit and daily_limit: "Max calls per       *)
(* minute." and "Max calls per day."                                       *)
LimitIsMaximum == [][\A c \in Callers : Record(c) => UsesWithin(c, 0)]_vars

(* A request that went out is counted against the limits of its secrets    *)
(* before the next one is checked, however the host answered it; the one   *)
(* exception is a secret that scrub_response panics on.                    *)
RequestsAreCounted ==
    \A i \in DOMAIN sent :
        \/ sent[i].counted
        \/ sent[i].torn
        \/ \E c \in Callers : pc[c] = "record" /\ loc[c].req = i

CallsSince(n, t) ==
    Cardinality({i \in DOMAIN sent : /\ sent[i].counted
                                     /\ n \in sent[i].names
                                     /\ sent[i].now >= t})

(* The counters are the number of requests begun in their windows: no use  *)
(* is lost, counted twice or carried over, whichever export opened the     *)
(* window and however long the request took.  For one caller.              *)
CountersMatchRequests ==
    engine # None => \A n \in SecretNames :
        LET u == engine.secret_usage[n]
        IN  IF u = None
            THEN CallsSince(n, 0) = 0
            ELSE /\ u.calls_this_minute = CallsSince(n, u.last_minute_reset)
                 /\ u.calls_today = CallsSince(n, u.last_day_reset)

=============================================================================
