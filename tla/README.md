# Verification of GetCheckinTime

The repository holds two programs' worth of logic of its own: a small Node
service that copies attendance punches from a clock machine into a database
(`src/AutoGetMachineDatetime.js`), and a vendored source tree of the TDS driver
*tedious* (`src/tedious/src`), whose connection state machine is by far the most
intricate code of the tree.  This directory models both in TLA+, checks the models
with TLC and proves theorems about them with TLAPS.

    tlc -workers 2 -config CheckinImport_safe.cfg MCCheckinImport.tla
    tlc -workers 2 -config Transactions_safe.cfg MCTransactions.tla
    tlapm CheckinImportProofs.tla
    tlapm ConnectionRequestProofs.tla
    tlapm TransportProofs.tla
    tlapm ConnectionLoginProofs.tla
    tlapm TransactionsProofs.tla
    tlapm StatementsProofs.tla
    tlapm BulkLoadingProofs.tla
    tlapm WireProofs.tla

## Inventory

| Component | Code | State it keeps | Operations | Hard behaviour | Modelled in |
|---|---|---|---|---|---|
| Check-in importer | `AutoGetMachineDatetime.js` | the globals `yesterday`, `recordTidy`; the table `checkinrecord`; a one-second timer | `Main`, `run`, `runs`, `getAllUserId`, `downloadAttendance`, `checkMechanism`, `addDetail` | overlapping imports sharing globals, check-then-insert race, crash on any failed call, restart with the import in flight, a tick that may be missed | `CheckinImport` |
| Date formatting | `datetimeFormat.js` | none | `toString` | none | not modelled |
| Connection: login | `connection.ts`, `token/handler.ts` | `state`, `closed`, `connectTimer`, `retryTimer`, `curTransientRetryCount`, `routingData`, `socket` | `connect`, `close`, the states CONNECTING to LOGGED_IN_SENDING_INITIAL_SQL, timers, socket events | continuations of dials, lookups, tokens and retry timers resuming in a state that has moved on; timers left armed; sockets leaked by retries and reroutes | `ConnectionLogin` |
| Connection: requests | `connection.ts`, `request.ts`, `token/handler.ts` | `state`, `request`, `requestTimer`, `cancelTimer`, the fields and listeners of each `Request`, the token parser | `makeRequest`, `cancel`, `pause`, `resume`, `close`, `requestTimeout`, `cancelTimeout`, the states LOGGED_IN, SENT_CLIENT_REQUEST, SENT_ATTENTION, FINAL | cancel, timeout, pause and disconnect at every point of sending and receiving; the attention handshake; buffered data after a change of state | `ConnectionRequest`, `RequestContract` |
| Transactions, reset | `connection.ts`, `transaction.ts`, `token/handler.ts` | `transactionDepth`, `inTransaction`, `transactionDescriptors`, `resetConnectionOnNextRequest`; savepoints on the server | begin, commit, rollback, save, `transaction` and its `txDone`, `reset` | depth and descriptor against the server's; errors, cancels and rollbacks by the server inside nested transactions | `Transactions` |
| Batches, procedures, prepared statements | `connection.ts`, `request.ts`, `token/handler.ts` | the fields of a `Request` that survive its calls; `procReturnStatusValue`; the handle | `execSqlBatch`, `execSql`, `callProcedure`, `prepare`, `execute`, `unprepare`, the token handlers | a request used again with what its last use left; cancels between tokens; errors told without an ERROR token | `Statements` |
| Bulk load | `connection.ts`, `bulk-load.ts`, `bulk-load-payload.ts` | columns, the row transform and its buffer | `addColumn`, `execBulkLoad`, `cancel` | two requests behind one callback; rows that break or a cancel before, between and in them | `BulkLoading` |
| Message streams | `incoming-`, `outgoing-message-stream.ts`, `message-io.ts`, `packet.ts` | buffer of bytes, current message, packet number, back-pressure | `_write`, `_read`, `_transform`, `processBufferedData`, `packetSize` | packet boundaries, back-pressure, the ignore bit | `MessageStreams`, `MessageFifo` |
| Token stream, token parsers, metadata and value parsing | `token/`, `metadata-parser.ts`, `value-parser.ts` | buffer, position, suspended continuation, column metadata | one parser per token | tokens and values split over chunks at any byte, data that ends early | `TokenGrammar`, `TokenStream` |
| Connector, lookup, sender | `connector.ts`, `instance-lookup.ts`, `sender.ts` | sockets racing each other | `connectInParallel`, `connectInSequence`, `instanceLookup`, `sendMessage` | first answer wins, the others must be closed; abort at any point | `Dialing` |
| Data types, RPC payload | `data-type.ts`, `data-types/`, `guid-parser.ts`, `rpcrequest-payload.ts`, `all-headers.ts` | the values of a request, replaced by validation | `validate`, `resolve*`, `generate*` of each type; `generateData` | lengths that must agree with the bytes; rounding and carries; range checks; executing twice | `DataTypes`, `ServerReading` |
| Tracking buffers | `tracking-buffer/` | a growing buffer | `write*` | range of each width | width checks in `DataTypes` |
| Other payloads, always encrypted | rest of `tedious/src` | none, or caches | layout, cryptography | | not modelled |
| Third party, tests, samples | `node_modules`, `notifier`, `download`, `tedious/test` | | | | not modelled |

The importer talks to its database through the library `mysql2`, not through
tedious; the two parts share no state.  Inside tedious, `Connection` owns everything:
user calls, timers and socket events change `state`, and coroutines started on entry
into a state await messages and change it again when they resume.

## Modules

* **CheckinImport** - the importer.  One action per callback: `GotUserIds`,
  `GotAttendance`, `CheckMechanism`, `AddDetail`; `Start`, `Main`, `Runs` are the
  process and its timer; `DbSelect`, `DbInsert`, `DbInsertFails` the database;
  `Crash` the exception nobody catches; `Clock` the calendar.  `jobs` holds the local
  variables of each import, `table` the number of rows of each punch.  A punch is a
  value with a day; parsing and formatting are left out.
* **CheckinImportProofs** - theorems about it.
* **ConnectionRequest** - requests on a logged-in connection.  `state`, `request`,
  `closed`, the two timers and the fields of requests carry the source's names.
  `reader` is the coroutine that awaits `readMessage`, `parser` the token stream
  parser with its handler and listeners, `onCancel` the listeners of each request's
  `cancel` event.  Event-loop order is kept: data that has arrived is worked off
  before the next event (`Quiet`), user code runs as an event or in a row handler
  (`UserTurn`).  The server and the link are external.
* **RequestContract** - what a connection promises about requests, in one screen;
  `ConnectionRequest` implements it (`KeepsContract`, with `pending <- request`,
  `result <- outcome`, `open <- state # "FINAL"`).
* **ConnectionRequestProofs** - theorems about ConnectionRequest.
* **ConnectionLogin** - from `connect()` to LOGGED_IN.  Each attempt has its own dial,
  connect timer and socket, so that what survives of one can meet the next; the
  continuations that do not look at the state (`DialDone`, `GotToken`,
  `RetryTimeout`) are modelled as such.
* **ConnectionLoginProofs** - theorems about it.
* **Dialing** - how one attempt gets its socket: the lookup of the instance in several
  attempts over datagram sockets, the name, the race or sequence of stream sockets.
  A step is an event with the promise continuations it sets off; `listeners` are those
  of the connect timer's abort signal, so that `Abort` does what the listeners present
  at that moment do.
* **MessageFifo** - what the two message streams promise together, a queue of
  messages; **MessageStreams** implements it (`ImplementsFifo`) with packets of bytes,
  buffers and back-pressure on both ends.  `OnData`, `OnEnd`, `SocketReads` are the
  listeners and `_read` of the outgoing stream, `Transform`, `ProcessPacket`,
  `MessageEnds`, `Drained` the incoming one; one channel that cuts bytes anywhere
  stands between them.  The 16-bit length of a header is one byte here.
* **TransportProofs** - theorems about Dialing and MessageStreams.
* **Transactions** - `transaction()` with savepoints, `txDone`, the four operations and
  `reset()`, for TDS with descriptors and for TDS before 7.2 with the depth counter,
  against a server that keeps transactions, savepoints and committed work.  `frames` are
  the open calls of `transaction()`; `around` remembers for each call those it was made in;
  `did` holds those with a statement that the server executed, not only one told as done.
* **TransactionsProofs** - theorems about it.
* **Statements** - what each kind of call adds to the request it uses and what the
  tokens of its answer do to it.  `Replies` is what a server may answer: any number of
  statements and procedures, rows, counts, return status, errors with and without an
  ERROR token, an OUTPUT parameter of any name.  Rows and statuses carry the call they
  belong to, so that what leaks from one call into another shows.
* **StatementsProofs** - theorems about it.
* **BulkLoading** - the row transform, piped while `insert bulk` is sent, and the
  request that follows it.  A payload that is destroyed says so in a step of its own
  (`PayloadDestroyed`), since it waits for the row it has asked for; a server whose
  `insert bulk` was ignored refuses the rows.  **BulkLoadingProofs** - theorems about it.
* **TokenGrammar** - how many bytes each token parser, the metadata parser and the
  value parser ask for, and how the bytes they get decide what they ask for next.
  **TokenStream** runs it over a message that comes in chunks: `Awaits` is the waiting
  inside rows and metadata, `Read` that of `parseTokens`.  The constant `Readings` says
  how each message reads when it comes in one piece: its tokens, the reads of each, and
  what no parser accepts at its end.  `ReadsAs` defines when it does, with the grammar
  alone; the specification does not use it, `MCTokenStream` computes it, and TLC checks
  that it is right for every message of the run.
* **DataTypes** - validation, declaration and bytes of every parameter type, and the RPC
  message they are strung into piece by piece (`Call`, `Name`, `TypeInfo`, `Length`,
  `Data`).  Each type is one operator named as in the source (`Int`, `DateTime2`, `TVP`),
  its validation `Valid...`.  **ServerReading** is a server that reads the call with
  nothing but the bytes; `Misfit` names the values a type is known not to carry.
* **WireProofs** - theorems about TokenStream and DataTypes.
* **MC modules** - instances for TLC.
* Operators whose comment starts with "Mutant of" are seeded faults, one for each
  property; no specification uses them.  Replacing the named definition by one of
  them makes TLC refute the property, which shows that the property can fail.

The two connection modules meet in LOGGED_IN: `ConnectionLogin` ends where
`ConnectionRequest` starts, with no request, no connect timer and no retry timer
(`NoStrayTimers`), and both end in FINAL.  `Dialing` is the inside of what
`ConnectionLogin` calls a dial or a lookup that succeeds (`LookupDone`, `DialDone`),
fails (`LookupFails`, `DialFails`) or is aborted by the connect timer; `AbortIsHeard`
is why an aborted dial has no continuation there.
`Transactions`, `Statements` and `BulkLoading` take from `ConnectionRequest` what it
proves of a request, one in flight and one callback each, and add what the callbacks
and tokens do to state that outlives it.  `MessageStreams` and `TokenStream` are what
lies between a whole message in those modules and the socket, `DataTypes` what lies
between a parameter and the message.

## Runs

| Run | Question | Result |
|---|---|---|
| `CheckinImport_safe` | overlapping, failing, crashing imports, with and without a unique key | holds |
| `CheckinImport_live` | is every day imported, and as the day it was started for? | holds |
| `ConnectionRequest_safe` | two requests, everything at once: does each end once and alone, does every wait end? | holds |
| `ConnectionLogin_safe` | every configuration, retries, reroutes, timeouts | holds |
| `Dialing_safe` | every way to dial, an abort at any point: what survives? does it end? | holds |
| `MessageStreams_safe` | are the streams a queue of messages, with bounded buffers, for every cut of the bytes? | holds |
| `Transactions_safe` | do client and server agree on the transaction, is `transaction()` all or nothing, does `reset` reset? | holds |
| `TokenStream_safe` | does every cut of every token give the same tokens, and a cut row an error? | holds |
| `Statements_safe` | do rows, counts, status, error and handle belong to the call? | holds |
| `Statements_stale` | is a call that succeeded told so? | violated |
| `BulkLoading_safe` | are all rows stored or none, and does one callback say which? | holds |
| `DataTypes_safe` | does the server read what was given, and the same when executed again? | holds |

### Bounds

* `CheckinImport`: three days with two, one and no punches, and three or four
  imports: two can race for one day while a third, before or after a restart, meets
  what they left.  The calendar stops at `LastDay`, and the imports at `MaxJobs`, so
  the runs do not check for deadlock.
* `ConnectionRequest`: two requests, since a leftover of one can only disturb the
  next, and two rows, so that a row can be buffered behind the one
  whose handler acts.  Each request is made once.
* `ConnectionLogin`: three retries and two reroutes; all sixteen sensible
  configurations.  The code does not bound reroutes: `MaxReroutes` is a bound.
* `Dialing`: three addresses, so that a socket can be first, last or between, none at
  all included; the code's three retries; every way to dial and every set of reachable
  addresses.
* `MessageStreams`: two messages of three writes and of one, so that a message fills
  several packets with a rest, the second meets what the first left, and both ends push
  back (the high-water mark is four bytes); packets hold two bytes or three, ids wrap at
  two.  The network cuts the bytes at every place.
* `Transactions`: three transactions, nested in each other or in sequence, both
  generations of TDS.
* `Statements`: two requests and four calls: a request is prepared, executed twice and
  unprepared, or disturbed by another between; symmetry, for safety only.
* `BulkLoading`: three rows, two columns, a transform that holds back after four
  chunks, so that rows still come while the batch is running and after.
* `TokenStream`: twenty-two messages that between them take every branch of the grammar,
  cut into chunks of 1, 2, 3, 5, 8, 13 or 100 bytes in any mix.
* `DataTypes`: a byte has four values and the longest `varchar` eight bytes, so that
  every limit of every integer is met with small numbers; each type is given the values
  around its limits, alone and before another parameter, twice.
* The processes really stop (FINAL, the end of the calendar), hence
  `CHECK_DEADLOCK FALSE`.

### Environment

Some constants restrict the environment; *Known disagreements* below shows that each
restriction is needed.

* `LateCalls` (FALSE where properties hold): the user does not cancel, pause or
  resume a request after its callback.
* `CloseInHandler` (FALSE): `close()` is not called from inside a row handler.
* `HasCancelTimeout` (TRUE): `cancelTimeout` is not 0.
* `EarlyClose` (FALSE): `close()` is not called while connecting.
* `config.lateToken`: the token service may outlast the connect timeout.  It is a
  choice of the initial state; two properties exclude it.
* `Prompt`, `MaySkip`, `MayFail` of the importer: `EveryDayStored` needs answers
  before the next 06:00:00, a timer that misses no second, and no failing call.
  Safety is checked without any of the three.
* `Transactions`: the user nests properly, ends with an error a transaction in which
  something failed, and ends none while a request of it runs.  `clouded` marks runs in
  which a begin, save, commit or rollback was cancelled or a reset refused, `upset`
  those in which an old TDS counter has met a failure; the properties say where they
  except them.
* `Statements`: the user waits for a call with a request before the next with the same,
  and executes and unprepares what was prepared.  `stained` marks calls with an error
  that was there before, `late` those cancelled late, `leaked` a status left behind by a
  cancel, `misled` the requests whose handle an OUTPUT parameter has overwritten.
* *Cancelled late* is, in `Transactions`, `Statements` and `BulkLoading`, a cancel that
  finds the payload ended and the message not finished.  The user may do it at any time;
  the properties say what is left of them then.

### Fairness

* Importer: time passes, the process is started again, every call is answered.
  `LiveSpec` is weakly fair to each of them; crashes and failures are not fair.
* Requests: the event loop runs what is ready, so sending, timers, received data and
  the handling of tokens are fair.  `Reading` and `Resume` are strongly fair because
  user code in a row handler may pause and resume forever without a step of the
  loop in between: user code returns.  Nothing is asked of the server in `LiveSpec`;
  `RequestsComplete` has the server's fairness as a premise.
* Login: timers fire, destroyed sockets emit `close`, and a token service that is
  not late answers.  Nothing is asked of the server or the network.

* Message streams: Node's streams and the network go on.  Bulk load: the iterable, the
  streams and the server go on; cancels, losses and invalid rows are not fair.  Token
  stream: chunks come, or the data ends.
* Dialing: the connect timer fires.  Nothing is asked of DNS, browser or server.

## What was found

`Statements_stale`: a prepared request that failed once is told its old error by every
later `execute` and `unprepare`, however the server answers (`connection.ts:2993`).

### Known disagreements

Six more are in the models behind a constant or a property that the runs leave out.
Each can be reproduced by changing the configuration named and checking the one
property.

| Case | Configuration | Property |
|---|---|---|
| A cancel or request timeout while the message is still being sent arms no timer: a silent server then hangs the request (`connection.ts:2995`). | `ConnectionRequest_safe` | `CancelsEnd` |
| `request.cancel()` after the connection was lost moves the closed connection to SENT_ATTENTION and ends in a TypeError (`connection.ts:3651`). | `ConnectionRequest_safe`, `LateCalls = TRUE` | `RequestAtHand` |
| `close()` in a row handler is followed by more row events after the callback (`connection.ts:1876`). | `ConnectionRequest_safe`, `CloseInHandler = TRUE` | `RowsOnlyWhenWanted` |
| With `cancelTimeout: 0` a cancel whose response is already coming leaves the acknowledgement in the stream, for the next request to read (`connection.ts:3542`). | `ConnectionRequest_safe`, `HasCancelTimeout = FALSE` | `ResponsesMatch` |
| A dial that resolves after `close()` brings the ended connection back to SENT_PRELOGIN (`connection.ts:1968`). | `ConnectionLogin_safe`, `EarlyClose = TRUE` | `EndedMeansFinal` |
| A security token that fails after the connect timeout emits `connect` twice (`connection.ts:3440`). | `ConnectionLogin_safe` | `ConnectCompletesOnce` |

### Seen while modelling

None of these has a run of its own.  `addDetail` logs that the writing is
finished when the INSERT failed (`AutoGetMachineDatetime.js:184`); `close()` during the second dial emits no `end` and
leaves the connect timer armed (`connection.ts:1916`); a failed instance lookup leaves
the state CONNECTING.  The loop of `instanceLookup` has no way out after an answer: it
always asks `retries + 1` times, and an error of a later attempt discards the answer
of an earlier one (`instance-lookup.ts:68`).  `initialiseConnection` passes the connect
timeout as the timeout of each attempt (`connection.ts:1893`), so that a lost datagram
is never retried before the connect timer, armed first, ends it all.

*Late cancels.*  `destroy(error)` on a payload that has ended emits nothing, so a cancel
between that and the `finish` of the message leaves the request without an error; yet
the ignore bit is set, the server executes nothing, and the callback is told success
(`connection.ts:3001`, `3032`, `3591`).  `ConnectionRequest` excepts the case by name in
`CancelledNotOk`; the modules about what a request is for show what comes of it.  In a
transaction, a statement is told as done and the transaction commits without it; before
TDS 7.2 the depth counter counts a begin, save, commit or rollback that never was.  A
call reports no rows and no error; a `prepare` emits `prepared` and has no handle.  A
bulk load of which all rows have been piped is told success with nothing stored, and so
is one that waits for a row of a stalled iterable, whose destruction is heard only after
the answer; an `insert bulk` cancelled late goes on to send its rows to a server that
expects none.

*Transactions.*  Before TDS 7.2 the depth counter parts from the server at any failed
request, and `reset()` in an open transaction never clears it.  A begin or rollback that
is cancelled after the server executed it leaves a transaction open that no callback
will end, and a `reset()` that is refused leaves its flag for the next request.

*Statements.*  A request that was cancelled once is never executed again
(`connection.ts:2982`).  A prepared statement with an OUTPUT parameter is told an error
by the listener that `prepare` leaves behind; if the parameter is called `handle`, its
value replaces the statement's handle, in silence (`connection.ts:2684`).  A cancel between RETURNSTATUS and
DONEPROC leaves the status for the next procedure that sends none.

*Bulk load.*  A bulk load cancelled before `execBulkLoad` is told so only after
`insert bulk` has succeeded, and the server is left waiting for rows.  A failing
`insert bulk` does not destroy the row source.

*Tokens.*  When the data ends between two reads of a token other than a row or column
metadata, the parser ends as if the message were complete.

*Data types.*  What `Misfit` lists: time, datetime2 and datetimeoffset round up to 24:00
without a carry; a `Binary` shorter than its declared length, and a table row shorter
than its columns, shift everything behind them; years outside 1 to 9999 have no place in their bytes; -0.00005 of a
money, and every negative amount with a fraction of the last digit and a whole part that
is a multiple of 2^32 units, is read as 2^32 units less.  A
value of VarChar, Char or Text becomes a buffer by validation, which validation then
refuses: such a request cannot be executed twice.  The readers attach
`nanosecondsDelta`, the writers read `nanosecondDelta` (`value-parser.ts:662`,
`time.ts:67`).

## Proofs

TLC checks the instances above; TLAPS proves the theorems below for every value of
the constants.

### The importer (`CheckinImportProofs`)

Assumed: `ConstantsAssumption`, the types of the constants.  The calendar, the
punches, the number of imports, the unique key, crashes and failures are arbitrary.
`ReportedRowsStored` looks at the table now, `CacheWithinTable` at a copy made long
ago, so neither is inductive.  `ImportInv` relates them: what an import saw in its
SELECT is still stored (`SeenStored`), it saw every INSERT before its SELECT
(`SeenAfter`), its batch is what it neither saw nor remembered (`BatchIsMissing`),
and what was inserted stays (`AppliedStored`, `LoggedApplied`).  `RaceInv` adds
that the rows of a day were stored as a whole, which is what makes a rejected
batch harmless.
`ImportsItsDay` is about the days a run is told and the global another run may have
set: `DayInv` adds that, while answers are prompt, none of this process waits whenever
the next 06:00:00 is dealt with.

| Theorem | States |
|---|---|
| `TypeCorrect` | `[]TypeOK` |
| `ImportInvariant` | `ImportInv` holds always |
| `CacheIsSound` | `[]CacheWithinTable` |
| `ReportsAreTrue` | `[]ReportedRowsStored` |
| `DuplicatesOnlyByRace` | `[]DuplicatesNeedARace` |
| `LostRacesAreHarmless` | `[]LostRaceLosesNothing` |
| `EachImportsItsDay` | `[]ImportsItsDay` |

### Requests (`ConnectionRequestProofs`)

Assumed: `ConstantsAssumption`, `NoneAssumption` and `CarefulUser` (neither
`LateCalls` nor `CloseInHandler`; the violated runs show what happens otherwise).
The number of requests and rows, the timers' options, and what the server, the link
and the user do are arbitrary.

A request is held in four places at once: `this.request`, the awaiting coroutine,
the token parser's handler, and the `cancel` listeners.  The properties are about one
place and broken through another, so the induction has to carry who owns what in
each state.  `RequestInv` says: a call has been counted exactly when it was made
(`CallsCounted`); at most one request is pending, and it is `this.request`
(`OnePending`, `InFlightHasRequest`); listeners exist only on requests that were made
(`ListenersMade`); a response being parsed belongs to the request in flight
(`ResponseOwned`) or is the ending of a cancelled one (`AttentionOwned`); a coroutine
that awaits has the state it expects (`ReadingHeard`, `ReaderAwaits`,
`IdleReadsNothing`, `FinalIsClosed`); and the timers belong to that request.  Even
type correctness needs it: `paused[request]` is read when a response starts.
`PauseHeard` adds that a paused request has a paused parser, which is what keeps rows
from it.

`ResponsesMatch` relates what is read to what was sent, with a server and two queues
between.  `Stream` is all that is on its way: what has arrived, what is in flight, what
the server has still to send.  `StreamInv` says that with no request it is empty, and
that with one it is exactly what is owed to it, in one of six ways: being sent, awaiting,
reading or skipping its response, awaiting or reading the acknowledgement of its
attention.  Here `HasCancelTimeout` is assumed too: the code looks at the cancel timer to
tell whether an attention is out (`connection.ts:3542`), and without one TLC refutes the
property.

`WaitsAreTimed` assumes both timers.  Its invariant `Timed` follows the one request from
the payload on: until the message is finished it can still be cancelled there and then;
when it has been sent off, either the request timer runs and a cancel would send an
attention, or a cancel has, with the cancel timer.  A request cancelled before its message
was finished is excepted, and rightly so: that is the first disagreement above.

| Theorem | States |
|---|---|
| `RequestInvariant` | `RequestInv` holds always |
| `RequestTypes` | `[]TypeOK` |
| `CallbackRunsOnce` | `[]CallbackOnce` |
| `RequestIsThere` | `[](InFlightHasRequest /\ RequestAtHand)` |
| `TimersAreOwned` | `[]TimersOwned` |
| `RowsReachOnlyTheWaiting` | `RowsOnlyWhenWanted` |
| `WaitsAreTimed` | a request that was sent off is never without a timer that ends its wait, the safety half of `WaitsEnd` |
| `ContractIsKept` | `KeepsContract`: each step is a step of RequestContract or a stutter |
| `ResponsesReachTheirRequest` | `[]ResponsesMatch` |

### Login (`ConnectionLoginProofs`)

Assumed: `ConstantsAssumption`, and `~EarlyClose` for all but types (with it TLC finds
the dial that resolves on a closed connection).  Configurations, retries, reroutes, and
when which dial, token, timer or socket event comes, are arbitrary.  Leftovers of an
attempt are met by the next, so `LoginInv` says stage by stage what may be about: while
connecting only the current attempt has a dial or a socket that is not destroyed
(`OnlyCurrent`, `WhenConnecting`, `WhenTalking`); between two attempts no dial runs and
one of the retry timer and the way back to CONNECTING stands for the connection
(`BetweenAttempts`); logged in, the user has been told and no timer is armed
(`WhenLoggedIn`); when it is over, nothing comes back but a token that is late
(`WhenOver`).

| Theorem | States |
|---|---|
| `LoginInvariant` | `LoginInv` holds always |
| `LoginTypes` | `[]TypeOK` |
| `TimersAreStopped` | `[]NoStrayTimers` |
| `SocketsAreClosed` | `[]NoOrphanSocket` |
| `ConnectIsToldOnce` | `[]ConnectOnce` |
| `NobodyIsForgotten` | who waits for `connect()` is owed a timer or a close event, the safety half of `ConnectReports` |
| `EndIsFinal` | `[]EndIsTheEnd` |
| `AttemptsArePaidFor` | `[]AttemptsAccounted` |

### Transactions (`TransactionsProofs`)

Assumed: `TransactionsAssumption`, the types of the constants.  The number and depth of
calls of `transaction()`, what fails, is cancelled, refused or lost, and what the server
makes of each request, are arbitrary.

`SessionInv` is about one session.  `Shape`: one request at a time, on behalf of the
innermost call.  `Nested`: the open calls are nested and have names of their own.
`Believes`: the tokens still to be read turn `inTransaction` and the descriptor into
what the server has, and a request not yet executed carries the session's descriptor.
`Resets`: the reset bit goes with a reset.  `OldCounts`: what the depth counter is in the
middle of each operation.

A request that was cancelled late is told as done but was ignored: `upset` is set, which
is where `SessionAgrees` stops for old TDS, and `did`, of which all or nothing speaks, is
what the server really did; how a request was cancelled is kept until its callback
(`KeepsCancel`).

All or nothing needs the work at the server related to calls that may have ended long
ago.  `Atomic` says, unless a begin, save, commit or rollback was cancelled: the
outermost call owns the transaction, the others savepoints (`Levels`); each request
finds what it needs and so cannot fail by accident (`Orderly`, `Counted`); each open
savepoint is there, after those around it, and what was done since was done within it
(`Savepointed`); where the transaction is gone the user has heard of it or is about to
(`Heard`); work in effect is of the open transaction and of none that failed
(`InEffect`); and what was done is in effect or will not be told to have ended well
(`Accounted`).  It is proved action by action, for `Execute` operation by operation.

| Theorem | States |
|---|---|
| `SessionInvariant` | `SessionInv` holds always |
| `TransactionTypes` | `[]TypeOK` |
| `ClientAgreesWithServer` | `[]SessionAgrees` |
| `ResetsDoReset` | `ResetResets` |
| `EndsAllOrNothing` | `[]AllOrNothing` |

### Batches, procedures, prepared statements (`StatementsProofs`)

Assumed: `StatementsAssumption`, the types of the constants.  The number of requests and
calls, what is cancelled, times out, is refused or invalid, and which of its answers the
server gives, are arbitrary.

What a call is told is decided token by token, so each part of `Inv` says what is already
on the request and what is still to come of the answer.  `CallsInv` and `FlightInv`: a
request has one call that is not answered, in flight or with a tick to come, and an error
that was not told yet is its own.  `AnswerInv`: an answer ends in the DONE or DONEPROC it
is told by, statuses carry the call and come before a DONEPROC, and only `prepare` gets
a handle.  `ErrorInv`: a failure is on the request already or flagged in the last token;
a success has neither, and what `prepare` was to learn has been learned or is coming; a
call that was ignored has an error or is one of `late`.
`StatusInv`: a status on the connection is that of the call in flight, whose DONEPROC is
still to come.  `HandlesInv`: each statement of the server belongs to one request, whose
handle is that statement or not known yet, unless it was `misled`.  `RowsInv`: the rows collected are the first
of the server's, and the tokens still to come bring the rest and the rest of the count
(`Bring`); since the last DONE, the rows are those the next done event will have.

What the server answers is read off `Replies` once, piece by piece: `RepliesTell` says
that each of its answers tells of a failure in its last token or brings all its rows.
`HandlerStep` puts the seven handlers into one.

| Theorem | States |
|---|---|
| `StatementInvariant` | `Inv` holds always, `TypeOK` among it |
| `OutcomesAreTheServers` | `[]OutcomeIsServers` |
| `PreparedStaysLive` | `[]PreparedIsLive` |
| `ReturnStatusIsOwn` | `[]ReturnStatusOwn` |
| `ResultsAreComplete` | `[]ResultsAddUp` |
| `StatementsAreDiscardedByTheirOwn` | `HandlesLeaveByUnprepare`: a statement goes only with an unprepare of its own request |

### Bulk load (`BulkLoadingProofs`)

Assumed: `BulkLoadingAssumption`, the types of the constants.  The number of rows and
columns, the size of the buffer, which row is invalid, when the iterable throws, and what
is cancelled, times out or is lost, are arbitrary.

What the table holds depends on the chunks of a message, and those on rows that were
transformed while another request was running.  `StreamInv` follows them: as long as the
transform is open, what was piped and what is buffered are together `Sending` of the rows
yielded so far, metadata first; when it has ended, of all of them and DONE; so what ends
without the ignore bit is the image of the whole iterable, and images of different numbers
of rows differ (`PayloadsDiffer`).  `PhaseInv` says what each of the two requests leaves
for the other: no bytes of rows before the batch succeeded, columns that no longer
change.  `ErrorInv`: broken rows come with the ignore bit.  `TableInv` and `ToldInv`
relate the table, the answer and the outcome the callback was given: a load that was
cancelled and is told "ok" ended with the ignore bit, its payload ended or not heard of yet,
and the table is empty.

| Theorem | States |
|---|---|
| `BulkInvariant` | `Inv` holds always, `TypeOK` among it |
| `LoadsAreExact` | `[]LoadsExactly` |
| `ToldAtMostOnce` | the callback is called once at most, the safety half of `AnsweredOnce` |

### Message streams (`TransportProofs`)

Assumed: `PlanAssumption`: message types and the bytes there are after each write are
numbers, and these do not decrease; packet sizes leave room for data.  The number of
messages, writes and bytes, the packet sizes and when they change, the high-water mark,
what is given up, and where the network cuts the bytes, are arbitrary.

None of the properties says what the bytes between the two streams are, and all need
it.  The argument follows one message from its writer to its reader, always as a text:
the bytes from one count to another of one message (`Text`).  `MessageInv`: what a
message holds is the last of its writes.  `WriterInv`: `out.bl` begins where the full
packets made so far end and, unless the message was given up, ends where what the
message still holds begins.  `LogInv`: each packet made carries a text of its message
(`Carries`), well framed (`Framed`), and follows the one before it (`Follows`).
`ReadyInv`: what waits for the socket are the last packets made; the others have
`Passed`.  `StreamInv` is where the cuts no longer matter: there is a number c of
packets put together such that the bytes in `inc.bl` and on the wire are the packets
from c on to `Passed`, one after the other (`Laid`: a buffer is cut into chunks), and the
reader has exactly what the first c carried (`ReaderInv`), its unread chunks laid end to
end being the text up to there.  So a header found in `inc.bl` is a header that was
written, `"failed"` cannot be reached, and when the last packet of a message that was not
given up is read, all its bytes are.  `TurnInv` and `OpenedInv` keep the messages in order.
`WriterBound` and `ReaderBound` say more than `BoundedBuffers`: above the mark the
writer is paused, the reader waits for `drain` or the end.

The step to `MessageFifo` has one lemma for each kind of step (`WriterIsFifo`,
`PacketIsFifo`, `ReaderIsFifo`, `EndIsFifo`, `RestIsFifo`).

| Theorem | States |
|---|---|
| `StreamsInvariant` | `Inv` holds always, `TypeOK` among it |
| `PacketsAreFramed` | `[]WellFramed` |
| `BuffersAreBounded` | `[]BoundedBuffers` |
| `StreamsAreAFifo` | `ImplementsFifo`: the two streams implement `MessageFifo` |

### Dialing (`TransportProofs`)

Assumed: `ConstantsAssumption` (there is an address).  The number of addresses and
retries, the way to dial, and every answer are arbitrary.  The properties speak of a
dial that is over; `DialInv` adds what they need while it is not: the signal has
exactly the listener of its stage and the timer is armed (`Heard`), and the sockets
tried so far are all of them in parallel, a prefix that failed in sequence (`Tried`).

| Theorem | States |
|---|---|
| `DialTypeCorrect` | `[]DialTypeOK` |
| `DialInvariant` | `DialInv` holds always |
| `DialsCanBeEnded` | a dial that is not over has its timer armed and heard, and is over when it fires: the safety half of `Settles` |
| `AbortsAreHeard` | `[]AbortIsHeard` |
| `DialsAreClean` | `[](NothingLeftBehind /\ OneSocket)` |
| `NoServerIsMissed` | `[]ReachableIsReached` |
| `SocketIsHandedOver` | `HandedOver` |

### Token stream (`WireProofs`)

Assumed: `MessagesAssumption`: each message has a reading, and chunks are not empty.  The
messages, how many tokens and bytes they have, and where they are cut, are arbitrary; that
a reading exists is what it means that the server speaks the protocol, up to the place
where the message is broken.

The parser does not know that a message comes in pieces, so the proof follows two things.
`BufferInv`: the buffer holds the last bytes that have arrived, whatever was thrown away.
`PlaceInv`: what is still asked for (`todo`), the columns, the metadata and the tokens
yielded are those of one place in the reading (`Place`), between two parts or at a read of
one, with exactly the bytes before that place consumed.  A read then has its bytes when
the reading says so, wherever the chunk ends, and leads to the next place.  `HeardInv` is
that the tokens are the first of those the server sent.  `EndedInv` and `ErrorInv` say
what an end of the data may look like: it is not taken for the end of a message while
a row or metadata is awaited, and an error with all bytes arrived means a broken message.

| Theorem | States |
|---|---|
| `TokenInvariant` | `TokenInv` holds always |
| `TokensArriveAsSent` | `[]TokensAsSent` |
| `CutRowsFail` | `[]CutRowsAreNoticed` |

### Data types (`WireProofs`)

Assumed: `WidthsAssumption` and `ListsAssumption`, the types of the constants.  The lists
of parameters, their values and the number of executions are arbitrary.

A second execution starts from values that validation has replaced.  So the first half of
the argument is that validation is done with its own results (`ReplacedAgain`), type by
type: a whole number stays (`WholeAgain`), a bit stays a bit (`BitAgain`), the other types
leave what they accept as it is (`LeftAlone`).  Strings in a code page are the exception
that `ExecutesAlike` names.  The second half is that the pieces of a call depend on
nothing else: `CallInv` keeps the way the first execution took (`Way`), and the second is
on it.

| Theorem | States |
|---|---|
| `CallInvariant` | `CallInv` holds always |
| `RequestsExecuteAlike` | `[]ExecutesAlike` |

### Only model-checked

Every liveness property (fairness and ENABLED are out of the prover's reach); of
`ConnectReports`, `WaitsEnd`, `Settles` and `AnsweredOnce` the safety halves are proved.
And `ServerReadsWhatWasGiven`: what the recursive reader of `ServerReading` makes of any
number of parameters is an induction over data, with powers of `Byte` in it, which the
provers do not do; its instances are chosen to take every branch.

## Not modelled, and why

The layout of PRELOGIN, LOGIN7, NTLM and batch messages, always encrypted, and the date
formatting of the importer: each makes one message or text from its arguments and keeps
no state.  The contents of text, collations, sixteen-byte numbers and column names:
tokens and values are modelled by how many bytes are read for them and, for parameters,
by the numbers in them.  `useColumnNames`, debug output and the printing of packets.  The
growth of tracking buffers.  Daylight saving time (the zone of `DataTypes` is fixed).
The events of columns and messages other than `row`, `done` and the callback change no
state.  `streamingMode` and `firstRowWritten` of a bulk load are
never set in this tree, and their guards are dead.
NTLM's challenge loop repeats a state.  The text of the
browser's answer appears as whether it names a port; a datagram socket is taken to
report one error at most.  An `error` event
without a listener ends a Node process; the models assume a listener.  Growth of
`recordTidy`, memory and time are no part of the models.

## Plan

1. Proofs: every safety property of a run but `ServerReadsWhatWasGiven` is a theorem.
   Field by field, that a reader undoes its writer could be stated for the types without
   recursion.
2. A bulk load composed with the packets that carry it.
3. LOGIN7 and PRELOGIN as readers and writers that must agree, in the way of `DataTypes`.
