# keymod in TLA+

A verification project for keymod, the Rust crates `arysen-wallet` and
`arysen-mandate`: TLA+ modules that model the code, TLC configurations that
check them on small instances, and proofs that TLAPS checks.  Paths below are
relative to the repository root (`src/` in `PROJECT.json`).

## The system

`arysen-mandate` is a library, compiled to WASM or linked natively, through
which an agent spends money and uses secrets under limits.  It keeps its state
in module statics, each behind its own mutex, and reaches the world through
synchronous host imports: a key store (the platform keychain), a clock, and
HTTP.  Nothing but the key store survives the process.

| Component | State | Operations | Hard about it |
|---|---|---|---|
| Policy engine, `mandate/src/policy.rs` | policy, `spending_today`, `total_all_time`, window start, usage per secret | `set_policy`, `reset_if_needed`, `check_spending`, `record_spending`, `check_secret_usage`, `record_secret_usage` | fixed windows against a clock read earlier; u64 wrap; check and record are separate calls; limits of 0 |
| Transaction flow, `tx_flow` in `mandate/src/lib.rs` | locals of the call; statics of the module | pre-flight, check-spend, prepare, calldata check, sign, submit, record-spend, local record | five requests between check and record; lost replies; errors on every step; threads in the native build |
| Initialisation and policy exports, `mandate/src/lib.rs` | `BACKEND_CONFIG`, `MANDATE_INFO`, `WORKER_KEY`, `SESSION_KEY` | `mandate_generate_keys`, `mandate_init`, `set_policy`, `check_policy`, `get_spending_summary` | config is stored before the backend answers; a failed init leaves it there |
| Credential injection, `execute_request` in `mandate/src/lib.rs`, `mandate/src/inject.rs` | locals of the call | parse, check each placeholder, retrieve each secret, substitute, send, scrub, count | one lock per placeholder; counted after the request at the time read before it; order of substitutions |
| Secret vault, `mandate/src/secrets.rs` | cached master key; in the key store: master key, index of names, one blob per name | `deposit`, `retrieve`, `remove`, `list_names` | two or three key-store writes per call; crashes between them; a read that cannot tell absence from failure; a 4096-byte read buffer; several processes on one keychain |
| Wallet, `wallet/src/lib.rs` | `MASTER_KEY`, `KEY_STORE`; in the key store: master key, one entry per persisted key | `init_master_key`, `persist_key`, `load_key`, generate, sign, verify | first boot and partial persistence, as in the vault; keys that are persisted one by one |
| Amount parsing, `parse_usdc_amount` in `mandate/src/lib.rs` | none | text to millionths of USDC | padding and cutting of decimals, wrap, texts that are no numbers |
| Backend requests, `mandate/src/backend.rs`, `mandate/src/http.rs` | none | `signed_fetch`, `parse_response_data` | every failure is mapped to a status of 502 |

They interact by calls only.  `tx_flow` and `execute_request` share the policy
engine (a pre-flight check of a transfer also resets the usage windows of the
secrets); `execute_request` reads the vault; the vault and the key functions of
the wallet share the host key store, with separate entries and separate master
keys.  The spending path sees of the key functions whether a key is in its
static; `KeySlots` is that interface.

What makes them correct: no record exceeds the limits in force; the counters
count every acknowledged transaction and every request once, and only a day's
(minute's) passing clears them; nothing is spent before a policy exists; the
amount and the payee that are checked are those of the transaction that is
executed (they need not be, see `tx_amount` and `tx_payee`); every call returns; a deposited
secret is listed only with a blob behind it, stays readable, and deposits and
removals are atomic under crashes; a key pair whose ids were returned can be
loaded ever after, and a process never signs with half of a pair; a request goes
out with every placeholder replaced once, a response comes back without the
values that were injected, and an amount is the one that was written.

## Modules

| Module | Models |
|---|---|
| `PolicyEngine` | `policy.rs` as operators on an engine record.  No state of its own: `with_policy_engine` runs each operation under the engine's lock, so an operator is the atomic body of an action elsewhere. |
| `TxFlow` | The statics, the policy exports, `mandate_init` and `tx_flow`.  One action per locked section or backend call of a caller. |
| `TxFlowTotals` | Properties of `TxFlow` that sum over transactions or callers. |
| `ExecuteRequest` | `execute_request` over the same engine operators and the abstract vault. |
| `SecretMap` | What the vault promises: a persistent map whose deposits and removals are atomic. |
| `SecretVault` | The vault over the host key store, one action per host call, with crashes and faults; implements `SecretMap`. |
| `KeyLifecycle` | The wallet's master key and persisted keys, `mandate_generate_keys` and the key loading of `mandate_init`, one action per host call, with crashes and faults. |
| `KeySlots` | What the spending path relies on about keys: which are present, and how they appear.  `KeyLifecycle` implements it; the key actions of `TxFlow` are written to allow what it allows. |
| `Bytes` | The functions of Rust's `str` that the next two call. |
| `Inject` | `inject.rs`: placeholders, substitution, scrubbing. |
| `Amount` | `parse_usdc_amount`. |
| `Text` | The operators of `Inject` and `Amount` against declarative definitions. |
| `TxFlowProofs`, `TxFlowTotalsProofs`, `ExecuteRequestProofs`, `SecretVaultProofs`, `KeyLifecycleProofs`, `TextProofs` | The theorems about each. |
| `PolicyEngineProofs`, `SumProofs` | Lemmas that the proofs share: about the engine's operators; induction on the naturals, and sums over finite sets. |
| `MCTxFlow`, `MCExecuteRequest`, `MCSecretVault`, `MCKeyLifecycle`, `MCText` | Values for the constants of the TLC runs. |

Definitions named `Mut_...` are single-defect variants of the definition that
follows them; each property has one that breaks it (`PROJECT.json`, "mutants").

### State and actions against the code

*`PolicyEngine`.* An engine is the record of the struct's fields.  Spending
counters are `u64`, added modulo `WORD`; check and record use the same wrapping
sum, as the release build does.  `DAY` and `MINUTE` stand for the two window
lengths.  A `HashMap` is a function that is `None` where there is no entry.  A
URL is the set of allow-list entries it contains, which is all that
`contains` sees.  The free function `check`, behind the export `check_policy`, is
given the policy alone: `check_spend` and `check_use_secret`.

*`TxFlow`.* `engine`, `config`, `keys` and `mandate_info` are the statics
(`None`, `FALSE` or `{}` before they are set); `keys` says which of the two
private keys is present.  `pc` and `loc` are a caller's position and locals,
`ledger` is a history of what the backend executed, with the status of the local
record.  `Locked` is `with_policy_engine`, which creates the engine on first
use with limits of 0.  `Begin` reads the clock, `Preflight` resets and checks,
`CheckSpendAnswered`, `Prepare`, `SubmitAcknowledged` and `RecordSpendSent` are
the requests, `Record` the local record.  `BackendRefuses`, `SubmitReplyLost`
and the `ELSE` branches are the error returns.  `mandate_init` is
`MandateInit` (up to the request), then `Hydrate` and `StoreInfo`, or
`HydrateFails`.  A call that fails before it changes anything is a stuttering
step.  The two writes of `mandate_generate_keys` to the key statics are one
action: with only presence modelled, a call that sees the first without the
second fails like one that came earlier.  `MandateInit` is one action, too, for
several locked sections with host calls between them (`lib.rs:358-416`): here
only the presence of the keys is kept, and `KeyLifecycle` has those steps.

`asked` is what the amount text means, `amount` the u64 that `parse_usdc_amount`
makes of it: the first modulo `WORD`, as no build profile sets
`overflow-checks`.  The engine checks and counts the second, the backend gets
the text.  `hash` is the `user_op_hash` of the prepare reply, as the payee of the
operation it stands for; `Prepare` compares the calldata of that reply with
the requested address and keeps the hash.

The backend is not in the repository.  It may answer anything at any step.
Three things are assumed: a submit answered with a `tx_hash` was executed and
a refused one was not; what is executed is the amount in the text that it was
sent, where digits after the sixth decimal mean nothing (USDC has six, and the
parser drops them as well); and the payee is whoever the signed `user_op_hash`
stands for.  A reply that is lost after the execution is `SubmitReplyLost`.

*`ExecuteRequest`.* The same callers and engine.  The loops over the
placeholders take one action per placeholder and phase, as each iteration locks
on its own.  `sent` is a history of the requests.  `Torn` are the values of 16 bytes or
more in which byte 8 from either end is inside a character: `scrub_response`
slices there and panics, after the request has gone out and before it is counted
(`ScrubPanics`).  The vault is `SecretMap`,
which the theorem `VaultImplementsMap` justifies for a process alone on its
keychain.

*`SecretVault`.* `master`, `blobs` and `index` are the three kinds of
key-store entries, `cached` the key in memory.  A blob is the pair of the key
and the plaintext, and decrypts under that key only: AES-GCM is assumed to be
authenticated encryption.  `Read` is `host_key_store_read`: the entry, or what
the caller makes of `None` if the entry exceeds the buffer (`IndexCap`,
`LargeValues`) or the host fails (`ReadFaults`).  A host that fails may also give a master
key of the wrong length, which is an error (`MasterMisread`).  A large value is deposited and
listed like any other, and retrieved never.  `WriteFails` is a failing
write, and stands for failing `getrandom` and encryption too, which return at
the same points.  `Crash` may hit between any two host calls.

*`KeyLifecycle`.* `master` and `entries` are the key-store entries, `cached`,
`statics` and `config` the memory of each process.  A key is its
kind and a number, and stands for the private key, the public key and the id, a
hash of it; the two keys of a pair have one number.  `GenerateKeys` and
`MandateInit` begin an export; `ReadMaster`, `MasterMisread`, `GenerateMaster`,
`PersistMaster`, `MasterWriteFails` are the host calls of `init_master_key`, `Persist`,
`PersistFails` and `Load` those of `persist_key` and `load_key`.  `TakeKey` is
what `mandate_init` does with the key it got, up to the next host call or to its
return; what follows the return here, the request for the mandate, is in
`TxFlow`.  A config that does not parse is a stuttering step; hex that is no
32-byte key is `None`.  Histories: `announced` are the pairs that
`mandate_generate_keys` returned, a call keeps the statics and the loadable kinds it found, and
whether one of its reads failed; `disturbed` is set when `init_master_key` takes
something for a first boot that is none.

*`Text`.* Texts are sequences of bytes; a byte is a one-character string, of
which `~` is any continuation byte of UTF-8, as slicing before one panics.  A
state is the arguments of one call, then its result.  `PART` scales the 8 bytes
of `scrub_response`, `DECIMALS` the 6 places and `WORD` the 2^64 of
`parse_usdc_amount`.  A `HashMap` of headers or of values is a sequence, in
every order.  In `ExecuteRequest` a template is what these operators reduce
it to: its placeholders in order, each once.

## Runs

| Run | Instance | Shows |
|---|---|---|
| `tx_single` | one caller, a mandate and a narrower policy that expires, amounts 1, 2 and one that wraps to 0, an address, three transactions, the clock up to the second window's end, a restart | `PreflightStillHolds`, `DailyLimitRespected`, `NothingSpentWithoutPolicy`, `RollingWindowTwiceDaily` |
| `tx_amount` | one caller, one mandate, amounts 2 and one that wraps to 0 | violation of `AskedWithinMaxPerTx` |
| `tx_payee` | one caller, one mandate, two addresses | violation of `PayeeIsRequested` |
| `tx_threads` | two callers under fairness, an agent id, amounts of 2, limits of 2 and then 1, `WORD` = 7 so that the all-time total wraps, four transactions | `TypeOK`, `TotalCountsRecorded`, `OvershootBounded`, `WindowsLastADay`, `CallsReturn`, `AcknowledgedIsRecorded` |
| `tx_rolling_doc` | one caller, one mandate, amounts 1 and 2, four transactions, the clock up to the second window's end | violation of `RollingWindowDaily` |
| `exec_single` | one caller, templates with none, one and two placeholders and with a foreign URL, two policies, text values, binary ones and ones that scrubbing panics on, three requests, two minutes' and one day's change | `TypeOK`, `CheckedStillHolds`, `CountersMatchRequests`, `RequestsAreCounted`, `UseWithinLimits` |
| `exec_zero_limit` | limits of 0 | violation of `LimitIsMaximum` |
| `vault_single` | one process, three names, two values of which one exceeds the read buffer, crashes and failing writes | `TypeOK`, `ListedIsReadable`, `OutcomeIsTruthful`, `ImplementsMap` |
| `vault_shared` | two processes, two names, failing reads, an index over the buffer | `IndexedHasBlob` |
| `vault_index_overflow` | one process, a buffer for one name | violation of `DepositUnlistsNothing` |
| `keys` | two processes, two generations of keys, three master keys, two configs, crashes, failing reads and writes | `TypeOK`, `KeysSurvive`, `GenerateAllOrNothing`, `InitKeyPriority`, `ImplementsSlots` |
| `text` | every text of up to 4 to 6 pieces of a small alphabet, with every choice of a few secrets | `FindsEveryPlaceholder`, `SubstitutesAtOnce`, `TemplateIsHydrated`, `NothingLeaks`, `AmountIsMeant` |

Bounds.  `MaxTime`, `MaxTx`, `MaxRestarts` and `MaxRequests` bound the clock
and the histories; every other set is given.  The windows are 2 or 3 ticks
long, so that a flow can start before a reset and end after it; the clock
passes one reset in `tx_threads`, and reaches a second window's
end in `tx_single` and `tx_rolling_doc`.  The limits let one transaction through
and deny the next, or let two through and deny the third, so both branches of
every check are taken; one or two transactions reach the daily limit, two in two
threads pass it, two fill two windows and a third would be too much, and four
wrap the all-time total.  A vault call touches one name, so a second and a third show that the others are left alone; `k1` and `k2` are the key in use
and a wrong one, and the third serves two processes that boot at once.  In `keys`,
`MaxKeys` lets two pairs, or a pair and a single key, be generated: one in use
and one to confuse it with; the configs name ids of one pair and carry hex of the
other, so that every source of a key can be told apart in the result.  In `text`
a part is 2 bytes and responses have up to 6, so that values of 4 bytes have a
prefix, a suffix and overlaps with each other; amounts of 5 bytes over `WORD` =
1024 wrap and overflow.  `text` ends after one step by construction, hence
`CHECK_DEADLOCK FALSE`; every other run checks deadlock.

What `text` establishes comes with conditions.
`SubstitutesAtOnce`: no secret has a brace and no placeholder stands inside
another's braces; otherwise a value can be substituted in turn.  `NothingLeaks`:
no value is empty or has a square bracket, and neither a value nor the prefix or
suffix of a long one is found in the marker `[REDACTED]`.  A value `E` is back with the
next marker, and one like `]x` may arise at a marker's edge; of the values with
brackets only those that can lie across an edge of the marker need the exception.
Where prefixes have the 8 bytes of the program, the only one that is concerned is `REDACTED`.
`TemplateIsHydrated`: of two headers whose keys become equal one is lost.
`AmountIsMeant`: the amount fits a u64; a larger one is an error or wraps, and
then the amount checked is not the amount sent (`tx_amount`).  `KeysSurvive` likewise names the
two ways to lose keys: a failing read of the master key, and two first boots at
once.

Fairness, in `tx_threads` only: `WF_vars(Continue(c))`.  A begun call runs on
its caller's thread and takes no lock across a host call, and the host imports
are synchronous functions that return (with an error after the host's own
timeout).  Nothing obliges a caller to make a call, the clock to advance or a
process to restart.  `SubmitAcknowledged` stops at `MaxTx`, but `BackendRefuses`
stays enabled there, so the bound blocks no call.

### What the failing runs show

* `tx_payee`: `mandate/src/lib.rs:637-639` says of the comparison of the calldata
  "This closes the gap where a compromised JS layer could redirect payments by
  tampering with the HTTP bridge response from /transactions/prepare."  What is
  signed is the `user_op_hash` of that response, which nothing ties to the
  calldata.
* `tx_amount`: `mandate/src/types.rs:14` says "Max USDC per transaction."
  `parse_usdc_amount` wraps (`lib.rs:502`), and the text is what is sent
  (`lib.rs:615`): "18446744073709.551616" is checked as 0.
* `tx_rolling_doc`: `mandate/src/types.rs:16` says "Max USDC per 24h rolling
  window."  The window is fixed, and opens with the first call a day after the
  last one: the full limit just before and just after a reset fall in one
  24 hours.  `tx_single` shows that it is at most twice the limit for one
  process; the counters die with it.
* `exec_zero_limit`: `mandate/src/types.rs:26` says "Max calls per minute."  A
  limit of 0 lets the first request through, because limits are compared only
  for a secret that already has a usage entry.
* `vault_index_overflow`: `mandate/src/secrets.rs:82` says "Add a secret name to
  the index (idempotent)."  An index over 4096 bytes reads as empty, and the
  next deposit saves a list with one name in its place.

## Proofs

Assumptions: `WindowAssumption`, `WordAssumption`, `NoneAssumption`
(`PolicyEngine`), `InputAssumption`, `BoundAssumption` (`TxFlow`),
`RequestAssumption` (`ExecuteRequest`), `VaultAssumption`, `BlobAssumption`
(`SecretVault`), `KeyAssumption`, `CallAssumption` (`KeyLifecycle`),
`PartAssumption` (`Inject`), `TextAssumption`, `ResponseAssumption`,
`SubstitutionAssumption`, `TemplateAssumption` and `AmountAssumption` (`Text`).
They say that the inputs have their types, that `None` is none of the values and
that `Err` is no text, number or request; TLC evaluates them in every run.  The
hypotheses `LimitsFit`, `PoliciesDiffer` and `TotalsFit` of single theorems are
evaluated by the `tx_` runs, whose instances satisfy them.

`TxFlowProofs`:
* `TypeCorrect`, any number of callers: `[]TypeOK`.  The strengthening
  `FlowHasRecipient` (a flow under way knows its recipient) makes the ledger's
  entries well typed.
* `DailyWindows`, any number of callers: `WindowsLastADay`.  `reset_if_needed`
  gets a time read before the lock; the invariant needed is `ClockRead`, that
  no caller holds a time ahead of the clock.
* `PreflightNeverStale`, one caller: `[]PreflightStillHolds`, which is inductive
  with the types: between check and record, no action of the caller itself
  touches the engine, and the check is repeated by no one.
* `DailyLimit`, one caller, and `LimitsFit` (a daily limit plus a transaction
  limit stays below 2^64): `DailyLimitRespected`.  The strengthening
  `UnderLimits` says that the day's total is within the daily limit of some
  policy the engine has had: not of the current one, which may have been
  tightened since.  With it the sum in `record_spending` cannot wrap.
* `NothingSpent`, any number of callers, and `PoliciesDiffer` (no policy given is
  the default one, which could otherwise be put back after spending):
  `[]NothingSpentWithoutPolicy`.  `FailClosed`: while no policy is set, every
  flow past its check counts an amount of 0, and no entry of the ledger is from a
  process yet to start.  `CountsModulo` relates what is counted to what is asked:
  it is the same modulo 2^64, so that 0 is counted for 0 and for the multiples
  of 2^64 only.

`TxFlowTotalsProofs`:
* `OvershootLimited`, any finite number of callers, and `TotalsFit` (the bound
  itself stays below 2^64): `[]OvershootBounded`.  The bound is not inductive: a
  total at the bound would leave no room for flows that are under way.  `Overshoot`
  says what room they have.  With D and P the largest limits and k callers not
  in flight, the total is at most D + (k - 1) P, or together with the amount of
  one of the flows at most D + k P.  A check that passes establishes the
  second for its own flow, a record turns the second for one flow into the first
  or into the second for k + 1, and a flow that ends otherwise only adds room.
* `TotalCounts`, any number of callers: `[]TotalCountsRecorded`.  `OwnEntry`: a
  caller between its submit and its record owns one entry of the ledger, not
  yet recorded, of its own amount and process, and no two callers own the same.
  `EngineFirst`: there is an engine by then, so that a record cannot be the first
  use.  The sum over the recorded entries of the running process then grows by
  what `record_spending` adds, and nothing else changes either.
* `RollingTwiceDaily`, one caller and `LimitsFit`: `[]RollingWindowTwiceDaily`, which
  is about the amounts below 2^64, for which what is counted is what is paid.
  Sums over arbitrary 24 hours are not inductive: a record adds to every window
  that contains it.  `TwoWindows` splits the entries that the running process recorded into the
  present window's, whose sum is `spending_today`, and older ones, executed no later
  than it opened, of which those of the last DAY sum to at most a daily limit.
  `Times` orders clock, window and entries.  A DAY that reaches into
  the present window has some of its entries and some of that last DAY's, hence
  at most two daily limits; `Rolling` keeps that for every span and process.

`ExecuteRequestProofs`:
* `TypeCorrect` and `EveryRequestCounted`, any number of callers: `[]TypeOK` and
  `[]RequestsAreCounted`.  `CallOK` keeps the loops within the placeholders and
  the caller's request in the history.
* `ChecksStillHold` and `UsesStayWithin`, one caller: `[]CheckedStillHolds` and
  `UseWithinLimits`.  `ValuesOK` says which secrets each step has retrieved, and
  `ChecksOK` that every check passed so far would pass again.  Counting the use
  of one placeholder leaves the checks of the others alone because a
  template has each name once.
* `CountersAgree`, one caller: `[]CountersMatchRequests`.  `CountsOK`: each
  counter is the cardinality of the set of requests counted since its window
  opened, no counted request is past the window's end, and from the first
  check on the windows stay open for the time the call began at.

`KeyLifecycleProofs`, any number of processes and any crashes and faults:
* `TypeCorrect`: `[]TypeOK`, with `CallOK` for what an export has
  established at each host call.
* `AnnouncedKeysSurvive`: `[]KeysSurvive`.  `OneMaster`, unless disturbed: every
  entry and every cached key is under the persisted master key, and a process
  about to write the first one is alone in that and finds none.
* `GenerateAtomic`: `[]GenerateAllOrNothing`.  `GenerateOK` adds that processes
  generate different numbers and that half-way the worker key is stored.
* `InitPrefers`: `[]InitKeyPriority`.  `PriorityOK` follows a call: what it found
  is still there, the key it looks for is missing, and the worker key it
  took is the right one.
* `KeysFillSlots`: `ImplementsSlots`, under the mapping of the statics to the
  kinds that are present.

`SecretVaultProofs`:
* `VaultTypes` and `NoDanglingName`, any number of processes and any faults:
  `[]TypeOK` and `[]IndexedHasBlob`.  The invariant `Inv` adds that a call past
  its blob write, and each name a call is about to save, has a blob.
* `NoSecretLost`, one process, reads that do not fail: `[]ListedIsReadable`.
  The invariant `OneKey`: every blob is under the persisted key, and a key is
  generated only while there is none.
* `VaultImplementsMap`, moreover an index that fits the buffer: `ImplementsMap`.
  With `IndexExact` (the list about to be saved is the present index with the
  one name added or removed), the write of a listed name's blob and the
  write of the index are the only visible steps, and each is a step of the map.
* `ResultsAreTrue`, under the same hypotheses: `[]OutcomeIsTruthful`.  `OnTheWay`
  says what a call has learned and done at each host call; only the
  blob write of a deposit over a listed name is visible before the return.

`TextProofs`, for texts of any length over any bytes:
* `PlaceholdersFound`: `[]FindsEveryPlaceholder`.  `Scanned` says that the result is
  `parse_placeholders` of the argument, and the rest is about that operator.  The
  recursion over positions of its scan has a solution and only one (`Solvable`,
  `SolutionsAgree`).  From the end of the text backwards (`Places`), the scan from
  position i has the names of the tokens that begin at i or later, in order:
  where a token begins the scan may jump over its end, because no brace stands
  inside a name.  `Firsts` does the same for `Dedup`, name by name.
* `ScrubbingHolds`, for every PART: `[]NothingLeaks`.  `Scrubbed` again reduces
  it to the operator.  `Traces` follows the runs of bytes without a bracket in
  `Replace`'s result: such a run lies inside one marker (`InMarker`), or stands
  in the text, at a place that was not replaced (`InText`), because the marker
  begins and ends with a bracket.  What `ApartFromMarker` admits has no bracket and is not found
  in the marker, so if it is in the result it was in the text before:
  no replacement brings back what an earlier one removed, and the text
  that was looked for itself is gone.
* `SubstitutionHolds`: `[]SubstitutesAtOnce`.  `Partly` is the text in which the names
  of a set D are replaced at once; the empty set leaves the text, the set of all
  its names is `Simultaneous`.  One pass of `substitute` leads from D to D and one
  name more (`ReplaceMore`), position by position from the end: a token of the
  name is replaced, another token contains none (`OtherToken`), a value has no
  brace, and a brace that begins no token begins none after the replacements
  either (`NoNewToken`), because the text is not nested.  That last step is where
  the condition is needed: `Closed` carries, along the induction, where
  the bytes up to the next closing brace come from.  The passes are the fold of the code,
  one for each name that `parse_placeholders` returns, and one of them fails
  exactly if its name is unknown (`FailsIfUnknown`).
* `TemplatesHydrated`: `[]TemplateIsHydrated`.  The names that
  `collect_all_placeholders` returns are those of all texts of the template
  (`CollectElements`, by induction over the flattened sequences), so no text fails;
  what each becomes is the theorem before; and `last` finds the header itself where
  keys are distinct.
* `AmountsMeant`, for every `DECIMALS` and `WORD`: `[]AmountIsMeant`.  Numerals and
  powers of ten are both values of Horner's scheme.  Over two rows of digits
  it shifts the first by the length of the second (`HornerConcat`), which gives
  the value of integer digits, decimals and filling zeros in a row, and that powers
  multiply.  `PartIsRead` says what `u64::from_str` makes of a part and
  its sign.

Induction over the length of a text or the size of a set is `InductionOnNat`, which
`SumProofs` derives from the existence of a least element; it quantifies over
sets instead of predicates, so that the provers can instantiate it.

Model-checked only: the liveness properties `CallsReturn` and
`AcknowledgedIsRecorded`, which are out of the prover's reach.  Every other property
of a passing run is a theorem.

## Not modelled

* The signature schemes and AES-GCM, library calls without state.  AES-GCM is
  modelled by what it guarantees; signatures are left out, and with them the wallet's
  generate, sign and verify exports, which insert into an in-memory map
  and call the signature libraries.  That 32 bytes from a config may be no secp256k1 scalar is left
  out: the call then panics before the submit, as if the backend had refused.
* JSON and hex encoding, request headers and nonces, the wording of errors.
* `parse_expires_at`: it reads unix timestamps only, and any other text means no
  expiry; `TxFlow` has policies with and without one.
* Threads inside one process of `KeyLifecycle` and `SecretVault`.  Their
  processes interleave at every host call; inside a process the WASM build has one
  thread.
* Concurrent callers of `execute_request`.  The module has any number of callers,
  and the properties that need one say so.  There is no bound in terms of the limits
  for several: a secret without a policy is unlimited, and a policy may be set
  between another caller's check and its record.
* The build script.

## Plan

Every invariant and every action property is a theorem, the refinements included.
Left is a corollary of `OvershootBounded`: with a single policy for the life of
the process, the bound in terms of that policy.
