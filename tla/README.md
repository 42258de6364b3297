# couchbase++ in TLA+

TLA+ specifications, model-checking configurations and machine-checked proofs for
libcouchbase-cxx, the header-only C++11 wrappers around the C library libcouchbase
(`src/include/libcouchbase`). Everything the wrappers do happens on one thread, but
not in one order: the application schedules operations, enters the event loop of the C
library, and is called back there once per response, in the order the network chooses,
until somebody breaks out of the loop. One counter, `Client::remaining`, decides when.

## The system

| Part | State | Operations | Talks to |
|---|---|---|---|
| `Client` (`couchbase++.h`, `client.inl.h`) | `remaining` (a `size_t`), the library handle | `connect`, `get`/`store`/... through `run`, `endure`, `wait`, `breakout`, `_dispatch` | the library; the `Handler` behind each response's cookie |
| `Context`, `BatchCommand`, `CallbackCommand` (`batch.inl.h`) | `entered`, `m_remaining`, the list of responses or the callback | `add`, `submit`, `bail`, `reset`, destruction, moves | the library's scheduling context, `Client::remaining` |
| `EndureContext`, `MultiContextT` (`endure.h`, `mctx.inl.h`) | `m_remaining`, `m_inner` | `add`, `submit`/`done`, `bail` | the same |
| `Response` and its subclasses | status, key, value, `m_done`, statistics, observe replies | `handle_response`, `done` | called by `_dispatch` |
| `GetResponse` | a value in a buffer of the library, or in a block with a count of sharers | copy, assignment, `clear`, destruction | the library's reference counts |
| `RowProvider`, `RowIterator` (`row_common.h`) | the rows that wait to be shown | `begin`, `++`, `*`, `rp_next` | `Client::wait` |
| `ViewQuery`, `Query` and the callback classes (`views*.h`, `query*.h`) | the handle, or `m_done`; meta data | construction, `stop`, row and final responses, destruction | `RowProvider`, `Client::breakout` |
| `ViewRow`, `QueryRow` (`views*.h`, `query*.h`) | fields that point into a response or into a block of the row's own, a document | `detatch`, copy, move, assignment, destruction | `GetResponse`, the queue of `RowProvider` |
| `Command` and its subclasses, `ViewCommand`, `QueryCommand` | the C structure the library reads; the option string; the parameter block | constructors, setters, copy, move, destruction | the library, the application's strings |
| Meta data, `Status`, `Buffer`, logging | plain data | - | - |

What is hard:

* **Counting.** Batches and `endure` add to `remaining`, `run` does not, `_dispatch`
  subtracts for all. What callbacks submit is added between a response and its
  subtraction. The count wraps.
* **Lifetime.** A cookie is the address of a response in a batch or on the stack of a
  call; a wait that returns early lets it die.
* **One loop for all.** An iterator that waits for a row, an `endure` and a batch share
  the loop and the breakouts, so that returning from `wait()` proves nothing by itself.
* **Failure.** Commands that are refused, queries that are not issued, statistics whose
  last response is an error: each takes another path past the bookkeeping.
* **Sharing.** Values are shared by copies of responses with a count kept by hand, and
  copies of rows share both a value and the block their fields are in.
* **Re-entrance.** A query's callback runs in the middle of `_dispatch` and may issue, stop
  or destroy any query, its own included.
* **Pointers that move.** The C structures point into the object that contains them, into
  the application's strings or at a context of the library, through copies and moves.

`PROJECT.json` lists each of these hazards at its line, with the properties that cover it.

## Modules

* `Completion` - what a client promises of waiting, on its own: operations are submitted,
  answered at most once while the application waits, and the wait returns when none is
  outstanding.
* `Client` - `Client`, the batches and the responses. One action per call of the
  application (`NewContext`, `MoveContext`, `Reset`, `Add`, `Submit`, `Bail`, `DestroyContext`,
  `Run`, `Endure`, `Wait`, `Connect`, `DestroyClient`), the library's side (`HandleSingle` and
  `HandleStats` deliver a response, `Return` leaves the loop) and `FinishDispatch`, the half
  of `_dispatch` after `handle_response`. Between the two halves `cur` names the operation
  being handled: that is where the callback of a `CallbackCommand` runs, so the batch
  actions are enabled there too. `Queries` are there only as callers of `Wait` and
  `Breakout`. The promise of `Completion` is the property `KeepsPromise`.
* `Custody` - what objects that have a C resource promise about it, however they share it,
  copy it or move it: it is released in the step in which the last one lets go of it, not
  again, and nobody has it afterwards. `GetValue` (buffers, with the responses and the library
  as users), `MultiContext` (contexts of the library) and `Commands` (parameter blocks) each
  implement it: `ValuesShared`, `ContextsHandedOn`, `ParamsPassedOn`.
* `RowStream` - what iterating a query promises: every row once, in order, and the end
  after the last.
* `RowQuery` - extends `Client` with view and N1QL queries: construction, `stop`,
  destruction, the iterator (`Begin`, `Increment`, and `rp_next` as `TakeRow`, `NoRow` and
  `AwaitRow`, its three ways on) and the callbacks (`RowResponse`, `FinalResponse`).
  Every step is a step of `Client` or leaves it alone. The promise of `RowStream` is the
  property `StreamsRows`.
* `GetValue` - `GetResponse` objects and the memory their values are in.
* `RowData` - extends `GetValue` with the rows of queries: where a row's fields point, from
  the constructor in `_dispatch` (`RowArrives`, `FillDocument`, `HandleRow`,
  `CallbackReturns`, `EndRow`) through `detatch`, the copy in the iterator's queue, and the
  application's own copies, moves, assignments and destructions. The document of a row is
  the `GetResponse` object of `GetValue` with the row's name, and `DocumentsAreValues` says
  that what rows do to it is what `GetValue` allows.
* `QueryCallbacks` - `CallbackViewQuery` and `CallbackQuery` with callbacks of the
  application's own. A callback is in progress while `running` names its query, and every
  call of the application (`NewViewQuery`, `NewQuery`, `Stop`, `Destroy...`) is enabled then
  as it is outside the loop. The handle of a view query goes through the `ViewCommand`
  (`vhptr`, `handle`), which may be used for several queries.
* `MultiContext` - `MultiContextT`, the `EndureContext` with one as a member, observe
  contexts made by `mctx_observe`, and statistics that were scheduled: who owns the library's
  `lcb_MULTICMD_CTX`, what is counted and counted off, and what a response accumulates from
  several servers. Its endures keep the promise of `Completion` too (`EnduresComplete`), as long
  as no response is counted off that was never counted.
* `Commands` - the command objects as the library reads them when they are issued: operation,
  key and lock of the key/value commands, the flags and the option string of a `ViewCommand`,
  the parameter block of a `QueryCommand`. `asked` keeps what the application asked for, and
  `caveats` which of the five `Departures`, known not to be carried out as asked, were used on
  the way: the class `TouchCommand`, the `StoreCommand` constructor with lengths, `reduce()`,
  an option added to a raw string that does not end with `&`, and the copy of a `ViewCommand`.
* `MCClient`, `MCGetValue`, `MCRowData`, `MCQueryCallbacks`, `MCMultiContext`, `MCCommands` -
  symmetry and values for TLC. `RowQuery` is run as it is.
* `ClientProofs`, `RowQueryProofs`, `GetValueProofs`, `RowDataProofs`,
  `QueryCallbacksProofs`, `MultiContextProofs`, `CommandsProofs` - the theorems.

`MultiContext` repeats the client's counter and loop for the handlers that `Client` does not
have; `Client` has the endure of `Client::endure`, which is one context with one command.
`QueryCallbacks` leaves the counter out: with callbacks of the application's own nothing
calls `breakout` for a query.

Definitions named `...Uncounted`, `...Forced` and so on, under a comment "Mutant:", are
not part of any specification: each is a way in which the definition below it could be
wrong, kept to show that a property notices.

### What stands for what

An operation of `Client` is the command, the slot its response is written to (the cookie)
and what the library knows of it; it is used once. `queued` is the library's scheduling
context (`lcb_sched_enter` to `leave` or `fail`), `pending` what it has sent. `call` is the
call the application is blocked in. `rc` is `Response::u.base.rc`, `"unset"` while nothing
has written it. `Word` is the modulus of `size_t`: a small one lets the wrap happen.
`Uses` selects the calls the application makes: `"run"` (the synchronous calls),
`"endure"`, `"callback_stats"`. In `QueryCallbacks` a request of the library has the name
of the query it calls back; in `MultiContext` a response of a server to a command is the pair
of the two; in `Commands` an option is its name and whether a `&` follows it.

Assumptions about the application, from the headers or from C++ itself:

* only one batch is active on a client and no other call is made meanwhile
  (`couchbase++.h:591-594`), and a batch is used only while active;
* a batch is kept until a `wait()` has returned since it was last submitted, no client is
  destroyed before what refers to it, and a `Query` is kept until it is done (its destructor
  does not cancel);
* a batch is moved onto an object that is not active and whose operations were waited for,
  and a `CallbackCommand` is moved only while it has no operations, because its address is
  the cookie;
* one iteration per query; `GetResponse` objects get a response while they hold no value;
* a view query is not destroyed in its own done callback, after which `_dispatch` writes to
  it, and a `CallbackQuery` is destroyed only when it is not active;
* `MultiContextT::done` is called after something was added, and `mctx_observe` and move
  assignment get an object without a context, as the `assert`s of `mctx.inl.h` want;
* a row, or a `QueryCommand`, that was moved from is only destroyed or assigned to.

One use the headers allow breaks what `QueryCallbacks` says, so that a constant excludes it:
with `UseCopies` a copy of a `ViewCommand` is issued. Setting it to `TRUE` gives the
counterexample. `Commands` excludes no class and no method.

Assumptions about the C library, which is external: it answers only in the loop and what
was sent, the final response last; it leaves the loop when it was told to, or when nothing
is left to answer; a loop that was told to stop may still deliver what has arrived; it calls
nothing after the final response of a query or after a cancel; a value without length comes
without a pointer (`client.inl.h:194-203` keeps whatever pointer it is given, and
`has_alloc_buffer()` looks at the pointer). What a call through the
cookie of a destroyed handler does is undefined, so that behaviours end there
(`HandlerLives` in `Deliver`): the runs in which that can happen do not check deadlock, and
the others do.

## Runs

| Run | Configuration | Shows |
|---|---|---|
| `counted` | 3 operations (one stats), 2 batches, a callback batch, endure, a query that breaks out, `Word = 8` | `RemainingExact`, `BatchCounts`, `NoDanglingCookie`, `WaitCompletes`, `KeepsPromise`: without synchronous calls all is well, moves of batches included |
| `mixed` | the same operations and batches with synchronous calls, no query, statistics with a callback, `Word = 4` | `TypeOK`, `RemainingDrift`: how far `remaining` is off; `CountedWaitsComplete`: waits are complete up to the first synchronous call or callback statistics; `LoneCallsAnswered`: until the first batch each synchronous call gets its own answer all the same |
| `rows` | a view and an N1QL query of 2 rows, 1 operation, a callback batch, endure, under fairness | `StreamsRows`, `Incremental`, `AwaitsAnswer`, `NoDanglingQuery`, `SyncAnswered`, `IterationEnds` |
| `row_data` | 3 rows, another response, 2 buffers, 2 blocks | `RowsReadable`, `DocumentsAreValues`, and of `GetValue` `TypeOK`, `SharersCounted`, `ValueAlive`, `NothingLeaks`, `ValuesShared` |
| `query_callbacks` | 2 view queries, an N1QL query, 2 commands, 2 rows each | `HandlesValid`, `NoDanglingCallback`, `ActiveWhileOpen`, `StoppedIsSilent` |
| `multi_context` | an endure object, 2 observe objects, 1 and 2 contexts of the library, 2 commands, a stats operation, 2 servers, 2 errors, `Word = 16` | `OwnedOnce`, `EndureCounts`, `CountsBalanced`, `WaitCompletes`, `SuccessIsComplete`, `FirstErrorKept`, `ContextsHandedOn`, `EnduresComplete` |
| `commands` | 3 commands of all eight key/value classes, views and queries, 2 option methods (`reduce` is one), a flag, 3 raw strings (one without `&`), 2 parameter blocks, 2 keys | `SentAsSet`: a command none of the five departures was used on is sent as asked, whatever else was copied, moved or spoilt; `ParamsOwnedOnce`, `ParamsPassedOn` |

The bounds. Client: every interference needs two operations of different owners and one that
is late, which three operations give; a move needs two batches; a batch that schedules from
a callback needs one operation to be called back for and one to schedule. A `Word` above the
number of responses keeps the exact counts apart, a small one lets the wrap happen. Queries:
two rows show order, buffering and a row that is taken while another waits; two queries show
one query's row ending another's wait, and the third in `query_callbacks` is one to issue,
stop or destroy from a callback while both kinds are open. Rows: one that arrives, its copy
in the queue and a copy of that can die in any order, and the second buffer and block are
there to be confused with the first. Contexts: two of the observe kind can be moved onto
each other; two servers are one that fails and one that does not. Commands: a third is the
target of a move or copy after the second was one; two options are one before and one after
a raw string or a copy. All five departures occur in `commands`, next to commands that have
none. Each operation, context, query and response object is used once, which bounds the
behaviours; a `Context` can be submitted, reset and bailed out of any number of times.

Fairness (`RowFairness`, in `rows` and `rows_failed` only): weak for `rp_next`, for `_dispatch`
and for a loop that was stopped, which are code that runs on; strong for the last response of each
operation and the final response of each query, because the library ends each of them, if
only with a timeout, while the application is in the loop again and again. Nothing is
assumed of the application beyond its being inside `rp_next`.

### What the code does otherwise

Five runs each find one of the things a comment in the headers promises violated
(`findings` in `PROJECT.json`):

* `early_wait` - `run` sends an operation that it does not count, and the response of a batch
  submitted before brings the count to zero: the wait inside `run` returns with the
  operation of the call outstanding.
* `sync_status` - a synchronous call that cannot be scheduled returns a status nobody wrote.
* `rows_failed` - an N1QL query that could not be issued is active for ever.
* `value_held` - a value that is not in a buffer of the library is never copied.
* `touch_stores` - `TouchCommand` is a `Command<OpInfo::Store>` and schedules a store
  (`couchbase++.h:224`): it violates `SentAsAsked`, which is `SentAsSet` of every command.

TLC stops `touch_stores` at the first departure. Each of the other four violates `SentAsAsked`
too, with the property weakened by the rest (`caveats[c] \cap (Departures \ {d}) = {}`):

* `upsert_sized`: the `StoreCommand` constructor with lengths does not set the operation
  (`couchbase++.h:157-160`);
* `reduce`: `ViewCommand::reduce` adds the option `descending` (`views.h:64`), and
  `example.cpp:94` calls it;
* `joined`: `add_option` appends to a raw string as it is, and the example of one
  (`views.h:69`) does not end with `&`;
* `copied`: a copy of a `ViewCommand` reads its source's option string, as long as it was when
  it was copied, and until it is given an option itself.

In the models, and kept out of the runs by the assumptions above or by the constants:

* statistics that end with an error are never done (`DoneIffFinal` in `Client`, which TLC
  violates with the constants of `mixed`): `client.inl.h:248` returns before the flag is
  looked at;
* a row of an open query breaks a client's first synchronous call off, which returns a
  response nobody wrote and leaves the library its address (`SyncAnswered` in `RowQuery` with
  `"run"` among the `Uses`, one operation and one query): the cause is that of `early_wait`,
  but it takes no batch and no earlier call;
* after one synchronous call `breakout()` does nothing, and an iterator sees its first row
  when the query is complete (`Incremental` with `"run"` among the `Uses`);
* `StatsResponse::initialized` is never set, so that the status of statistics is that of the
  last response (`StatsSuccessIsComplete` in `MultiContext`, which TLC violates);
* a copy of a `ViewCommand` has its source's `vhptr` (`HandlesValid` with `UseCopies`).

Read only: the by-value overloads of `get` and its like (`couchbase++.h:687-713`) leave the
response they return a key whose string is gone; `ViewMeta` puts the HTTP body where the
view's was and the result code where the HTTP status belongs (`views.inl.h:103-113`);
`status()` of a query that was refused or stopped or has not ended is a success, by default;
`ViewRow::m_hasdoc` is not initialised; `mctx_observe` reports success whatever happened;
assigning a `GetResponse` to itself empties it; the postfix `++` of `RowIterator` is its
prefix; a callback view query without callbacks calls through `NULL` (`views.h:164`).

## Proofs

All for every value of the constants that the `ASSUME`s allow, and checked by TLAPS.

`ClientProofs`:

* `BatchInv` (types, `BatchCounts`, one active batch, which lives) is inductive: `TypeCorrect`,
  `BatchCountsCorrect`. Types alone are not: `Submit` needs what the batch counted to be
  less than `Word`, which is that it equals the number of operations queued.
* `OpInv` says how far each operation has come (nothing writes the response of one that is
  not sent, a single response is the last). With it the books balance: `DriftCorrect`
  (`RemainingDrift`) goes action by action through the two sums whose difference `remaining`
  is, in arithmetic modulo `Word`. Statistics with a callback are taken off once for each
  response, so that the property and the theorem are about the states before the first of them
  is scheduled (`NoCallbackStats`, a condition on the state and not on `Uses`).
* What holds while everything is counted is proved relative to a state predicate, with no
  assumption on what the application does afterwards: `AllCounted` says that nothing was sent
  yet by `run` and no statistics have a callback. Once false it stays false, and up to there
  `remaining` is exact (`ExactUntilRun`).
* `WaitInv` says whom the library may still call and that a loop is stopped only with nothing
  pending. It rests on `RemainingExact` - `_dispatch` stops the loop when the count is zero,
  and then nothing is outstanding - and so it, too, is proved under `AllCounted`. From it come
  `CookiesLiveUntilRun`, `CountedWaitsCorrect` (a wait that ends under `AllCounted` has nothing
  pending) and `PromiseUntilRun`, the step lemma of the refinement of `Completion`, which maps
  each action to one of its actions or a stutter.
* With `Uses \subseteq {"endure"}` `AllCounted` is always true: `ExactCorrect`, `CookiesLive`,
  `WaitCorrect`, `CountedCallsAnswered` and `PromiseKept` are those corollaries. Without it
  `early_wait` is the counterexample.
* `SyncInv` gives `SyncCorrect`: until the first batch, and with no queries, only one
  operation is ever outstanding, so that the wrapped count does no harm. With a query open a
  row may break the call off, as above.

`RowQueryProofs`:

* `RowsOnClient`: `RowSpec => Spec`, so that all of `ClientProofs` holds with queries;
  `CookiesLiveWithRows` and `CallsAnsweredWithRows` are used from there.
* `RowInv` says of each query that what was seen, followed by what is buffered, is exactly the
  rows fetched, in order (`RowsInPlace`; but for the row the iterator is at, which is in both),
  and that it is open, active and alive together (`Answerable`). From it `QueriesLive`,
  `RowsKept` (the refinement of `RowStream`, for any uses of the client, drift or not) and
  `AwaitsAnswered`: an iterator that waits has a query the library will still call back for.
  That needs `~IterateFailed`, and `rows_failed` shows why. It is what liveness needs of the
  state; that the library ends every query is the fairness of the run.
* `IncrementalUntilRun` needs `RemainingExact` again, and holds up to the first uncounted
  operation: a breakout is refused only while counted operations are outstanding.
  `RowsIncremental` is its corollary for `Uses \subseteq {"endure"}`.

`GetValueProofs`: the counts alone are not inductive; `CountedLives` adds that a buffer lives
exactly while its count is not zero. `HoldersMove` says what one object's move does to the
number of sharers, and each action is one or two such moves. `TypeCorrect`, `SharersExact`,
`ValuesAlive`, `NothingLost`. `UsersCounted` - a count is zero exactly when nobody uses the
buffer - turns the same invariant into the refinement of `Custody`: `SharingCorrect`.

`RowDataProofs`:

* `RowsKeepValues`: `RowDataSpec => GetValue!Spec`, each step one of a `GetResponse` or a
  stutter, so that `GetValue`'s theorems hold of rows (`DocumentsCounted`, `DocumentsAlive`,
  `DocumentsReleased`, `DocumentsShared`).
* `RowDataInv` adds to `RowsReadable` who owns a block (`OwnBlock`) and that what is in the
  queue was detached before it was copied (`QueueDetached`): `DetachedStays`.

`QueryCallbacksProofs`: `CallbackInv`, assuming `~UseCopies`, is the types, the invariants of
the run and `IssuedOnce` (a query is not issued again in its callback or afterwards, and one
in its done callback is no longer open). `HandlesValid` is what makes `stop()` and the
destructor close the query they are called on and no other; the others follow from it.

`MultiContextProofs`: `OwnInv` is `OwnedOnce` with the kinds of the contexts and what a
context holds before it is used; `AnswerInv` says that every response due or delivered belongs
to something that was sent, so that none is counted off twice. On these rest `EndureCounts`
and the balance of `remaining` (`BalanceCorrect`), with sums modulo `Word`; on the balance
rests `WaitInv`, that a stopped loop has nothing counted outstanding unless something
uncounted was answered, and with it `WaitsComplete`. `SuccessInv` says the replies are
complete until there is an error: `SuccessCorrect`, `FirstErrorStays`. `MultiInv` is all of
them. Two refinements follow from it: of `Custody` (`HandingCorrect`; a context is open exactly
while it is held, and `ClosedOnce` says how it stops being), and of `Completion` by the endures
(`EndurePromise`; `DoneSubmits` and `DeliverAnswers` are its two sides, `AnswerInv` is why
nothing is submitted or answered twice).

`CommandsProofs`, with no assumption on how commands are used: `ParamsInv` gives
`ParamsCorrect` and, with `FreedStep`, the refinement of `Custody` (`MovingCorrect`).
`AskedInv` says of each command, relative to its own `caveats`, that its fields are what was
asked for: `KvOK` of the operation and the key, `StringOK` and `ViewOK` of a view's options,
`QueryOK` of a query's parameters. A string with `open` among its caveats is whole as long as
nothing follows it, and of a view with `copied` nothing is said of where its structure points;
that makes it inductive through copies
of spoilt commands and through what mends them (a raw string, `mode()`, an option for a copy).
`SentCorrect` (`SentAsSet`) follows.

Only model-checked: `IterationEnds`, which is liveness and so out of the prover's reach; its
safety part, `AwaitsAnswer` and `Incremental`, is proved. Every inductive invariant above was
also checked by TLC, with the constants of the runs or smaller ones.

## Not modelled

* `DurableResponse` cannot be instantiated (`client.inl.h:357` passes an `EndureResponse` for
  `DurabilityOptions`), and `DurabilityOptions` is used by nothing else.
* `ViewMeta` and `QueryMeta` are filled in once and read afterwards.
* Fields of commands and responses that are only copied: key of a response, value, expiry,
  CAS, flags, delta, the counts an endure reports.
* Uses for which nothing in the repository says what should happen: `submit()` without the
  `reset()` before it, a move onto an active batch, a second response into a `GetResponse`
  that holds a value, a second iterator of one query.
* `Status`, `Buffer`, forward declarations and logging have no state to speak of; `example.cpp`
  is read as a use of the library, and the tests only check that the headers link twice.
* Several clients are independent of each other; use of one from several threads is excluded by
  the library's documentation (`doc/mainpage.h`).

What could follow: the drift after statistics with a callback (`"callback_stats"`), which has
a bound only if the number of a server's responses has; and several iterators of one query, if the
headers come to say what they share.
