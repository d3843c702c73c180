# Verification of crypto-connect

crypto-connect is a C++ library between a trading strategy and a crypto
exchange (Coinbase Pro). This directory holds TLA+ models of it, their TLC runs
and TLAPS proofs. Paths below are relative to the repository's root.

## The system

One process, with these threads:

| thread | runs | code |
|---|---|---|
| main | `onStart`, then `feedStrategyForever`: takes events from the queue and calls the strategy, which may call back into the adapter (orders, universe, REST queries) | `src/adapters/coinbasepro/adapter.cpp` |
| stream | reads the web socket, passes each message to the handler, which enqueues events | `stream/connector.cpp`, `stream/handler.cpp` |
| querying | wakes once a minute, starts a query thread, which fetches the bars of the universe on a pool | `rest/bars_scheduler.cpp` |
| keep-alive | pings the web socket every 30 s, detached | `stream/connector.cpp` |

Outside: the exchange, by REST (requests and responses) and by a web socket
(subscriptions one way, a feed of messages the other way).

| component | state | operations | hard behaviour | what makes it correct |
|---|---|---|---|---|
| event queue (`structs/event_queue.hpp`) | mutex, two condition variables, the queue | `enqueue`, `dequeue` | many producers, `notify_one`, spurious wake-ups, full and empty queue | a bounded FIFO; no lost wake-up; progress |
| bars scheduler | `currentMinute_`, the locals of the alignment, query threads | `queryBarsForever`, `makeBarQueries` | clock arithmetic at its edges, slow queries, unlocked `currentMinute_` | each minute once, in order, after its bar has closed, at one second of the minute |
| stream handler | `tickTracker_`, `myOrderIds_` | one handler per message type | one-sided updates, lost or malformed messages, attribution of fills | ticks show the book; fills and statuses are complete, in order, the user's |
| adapter | `currentUniverse_`, `productMap_`, owns all others | `start`, `updateUniverse`, orders, queries | threads, failures, `onExit`, construction order | feed and universe agree; every failure reaches `onExit` |
| stream connector | the web socket | `connect`, `subscribe`, `unsubscribe`, `streamForever`, `keepAlive` | three threads on one socket | requests follow the universe |
| REST connector | `uniqueOrderId_` | products, bars, orders | shared connection, failed and odd responses | outcome reported is the exchange's |
| HTTP session | one TLS stream | `get`, `post`, `del`, isolated forms | concurrent use of one stream | response belongs to request |
| Auth, cryptography, Base64 | keys | signature, codec | static buffers, zero bytes, short inputs | codec inverse; whole digest signed |
| Universe, Products, Orders, Events | sets, maps, records | updates under a lock, unlocked readers | iteration during an update | readers see a whole set |
| withHandler | - | callback, then `exit(1)` | callback on the failing thread | once, before the exit |

The repository also carries three libraries: `include/rapidjson` (every message
and answer goes through its parser and writer), `dependencies/yaml` (reads
`config.yaml`) and `include/date` (reads the time stamps). Of these the parts the
adapter runs are modelled; they are most of the repository's lines, and the rest
of them is not. The examples are left aside.

## Modules

| module | models | against |
|---|---|---|
| `BoundedFifo` | the promise of the queue | - |
| `EventQueue` | `enqueue` and `dequeue`, one lock, wait or notify step at a time | `BoundedFifo` |
| `EventQueue_proofs` | theorems about `EventQueue` | - |
| `BarsScheduler` | the scheduler thread, query threads, pools, and the clock | - |
| `BarsScheduler_proofs` | theorems about `BarsScheduler` | - |
| `StreamHandler` | the handler of every message type, as steps on its state and the queue | - |
| `MarketData` | `StreamHandler` with the exchange's books, the web socket, `updateUniverse` and `feedStrategyForever` | the exchange's book |
| `MarketData_proofs` | theorems about `MarketData` | - |
| `TradingSession` | `StreamHandler` with the exchange's matching engine, `placeOrder`, `updateUniverse` and restarts | the exchange's orders |
| `TradingSession_proofs` | theorems about `TradingSession` | - |
| `HttpSession` | the connections of a session and of isolated requests, with losses | - |
| `RestOrders` | `HttpSession` with every request about orders, the signature's static buffer, `uniqueOrderId_`, several callers | the exchange's orders |
| `RestOrders_proofs` | theorems about `RestOrders` | - |
| `AdapterLife` | construction, `start`, all threads with every way to fail, `updateUniverse` beside a batch of bar queries, `getAvailableUniverse` | - |
| `AdapterLife_proofs` | theorems about `AdapterLife` | - |
| `Calendar` | the reading and writing of time stamps, with the date library's reader | the count of days |
| `Base64` | the codec, and the signature built with it | the bytes encoded |
| `Conversions_proofs` | theorems about `Calendar`, `Base64` and `Config` | - |
| `Json` | the recursive parser, the document's stack and the writer, token by token | the library's iterative parser |
| `Json_proofs` | theorems about `Json` | - |
| `Config` | the YAML parser on `config.yaml`, and `Auth`'s reading of it | the file's intention |
| `Codecs` | the last four side by side | - |

`MC*` modules are the instances TLC checks. A definition introduced by a
comment `Mutant of X` is not part of any specification: it is a plausible bug
that the properties are shown to find (`mutants` in `PROJECT.json`).

### EventQueue

`mutex` is the owner of `mutex_`, `queue` is `queue_`, `pc` the place of each
thread. `condition_variable::wait(lock, pred)` is the loop it is defined as:
`check` evaluates the predicate under the mutex, `wait` sleeps with the mutex
released, `relock` takes it again and goes back to `check`. `notify_one` picks
any sleeper. Both waits test a predicate of the queue's length only, so that
`hasSpace_` is where producers sleep and `hasEvent_` where the consumer does.
`item` and `event` are the argument of `enqueue` and the variable filled by
`dequeue`.

### BarsScheduler

Time is a counter of ticks. Sleeps end at `wake` or any time after it; `delay`
counts the ticks that the scheduler thread was due and did not run, because it
was woken late or waited in `join`. The two readings of the clock at the start
are separate steps. A query thread reads `currentMinute_` some time after it is
spawned (`Ask`), posts one task per product, and ends when all are done. A
request takes any time; its answer has the bar or has none.

### StreamHandler, MarketData, TradingSession

The event queue is the bounded FIFO of `BoundedFifo` here: `Enqueue` waits for
room. No other thread reads the handler's state, so that a handler which blocks
in `enqueue` is the same as one that starts when there is room.
Each handler has its failures: a conversion that throws (caught by the handlers
of market data, fatal to the stream thread in those of orders) and a field that
is absent (an assertion of the JSON library aborts the process).

The exchange is external and modelled from how the code uses it: the comments
of `handler.cpp` take an `l2update` for a change of the best bid or ask, one
change in a message. Two of the user's own orders never match each other.
Subscriptions and unsubscriptions are signed like REST requests, and a signature
may be cut (`whole`): the exchange then refuses the request by a message of type
`error`, which the handler logs and nothing else. `refused` are the products
whose last request went that way.
REST requests and the web socket are unordered with respect to one another.

`TradingSession`'s `Restart` is the end of the process, for any reason, and a
new start: the handler's state, the queue and the socket are lost, orders at
the exchange and REST requests under way are not.

### HttpSession, RestOrders

`wire` and `answers` are what is under way on each connection; an answer does
not say which request it answers. The connection of the session itself is
`Shared`; an isolated request (`get`, `cancel` and `cancelProduct` of an order)
has the connection named for its thread, made and closed within the call.

A call is one thread's `count`, `connect`, `sign`, `encode`, `send`, `receive`.
`uniqueOrderId_++` is not atomic: `Begin` reads it and `Count` writes it.
`Sign` writes HMAC's static buffer and `Encode` reads it, up to the digest's
first zero byte: `isSigned` says whether the exchange accepts what comes of it.
An answer is a JSON value, as far as the code tells values apart: its kind, its
message, the orders it names, the state of their fields. `OrderResponse` and
its like are the functions that take it to a result, with the assertion
(`Aborted`) and the exception each may end in. When two threads use one
connection at a time (`Contended`) either may fail, and each may get the
other's answer.

### AdapterLife

`main`, `stream`, `querying` and `keepAlive` are the places of the threads,
`operation` the call of the adapter that the main thread's callback is in.
Messages and queries are reduced to what they do to their thread; their
contents are the business of the other modules. `ExitAfter` is `withHandler`
after a failure: `onExit`, then `exit(1)`. What no handler covers ends in
`Terminate`: the main thread, the keep-alive thread, the threads of the pool,
assertions of the JSON library.

A refresh (`getAvailableUniverse`) clears the details of all products once the
answer has come and registers one product after the other; `available`, what the
strategy was told of, is only ever added to. The exchange may list other products
each time (`answered`), and `listed` are those yet to be registered.

A batch iterates over `currentUniverse_` without its lock. When the main thread
replaces the universe meanwhile (`torn`), what the batch asks for is anything,
and memory may be misused.

### Calendar, Base64, Json, Config

These are functions, with a state only to enumerate their inputs: the next day,
the next byte, the next token, the next line. `Codecs` puts them side by side,
one moving at a time, so that the states add up and do not multiply.

`Calendar` reads as the date library does for the format `%FT%T`: a stream of
characters, readers of numbers with a width, the fraction of seconds with as many
digits as the duration has. `Base64` has text as places in the encoding table.
`Json` is the recursive parser, which is the one the adapter runs, with the
stack that the document is built on, and the writer. The library's iterative
parser, a table of transitions, is the state machine that takes one token at a
time, and the two are compared. A token of punctuation has the name that
`reader.h` gives it. The recursion of the parser is a recursive function,
`Loops`: the loops of `ParseObject` and `ParseArray` where so many tokens are
left, each in terms of those where one less is. Likewise `Accept` is `Visit` of
a value by the depth it is nested to. `Config` is the three passes of the YAML
parser (lines, their types, the tree) on files that `config.template.yaml` is
one of: sections under one root key, keys in them, blank lines anywhere. Its
loops are functions too: `PostProcess` is a `Round` as many times as there are
lines, `ParseMap` is what is parsed at each line where so many keys are still to
come. A tree is the values at its paths (`Node`), made by the assignments that
the parser makes in turn.

## Runs

| run | question | bounds | result |
|---|---|---|---|
| `queue` | bounded FIFO, no lost wake-up, no stall | 3 producers, 1 consumer, capacity 2, 2 events, 2 spurious wake-ups | holds |
| `scheduler` | every minute once, in order, not early, late only by `delay` | ticks of 5 s, every start in a minute, 2 to 3 batches, 2 products, pool of 1, delays up to 3 ticks | holds |
| `late_start` | `bars_scheduler.cpp:67` | no jitter, no delay | violated |
| `market_data` | ticks show the exchange's book; the feed follows the universe | 2 products, 2 updates of the universe, 2 changes or trades, 1 bad message or cut signature, queue of 1 | holds |
| `refused_request` | `adapter.hpp:25` | 1 update of the universe, 1 cut signature, no changes | violated |
| `session` | fills and statuses are complete, in order, under the right id | 2 orders of 2 units, 3 calls, 1 restart, 1 bad message or cut signature, 2 messages under way, queue of 2 | holds |
| `foreign_transaction` | `events.hpp:139` | the same, no bad message | violated |
| `rest` | outcomes are the exchange's, those of isolated requests also when calls overlap, client ids differ, the shared connection stays in step, calls return | 2 threads, 2 orders, 2 calls, 1 odd answer or digest | holds |
| `cancel` | `rest/connector.cpp:511` | the same | violated |
| `life` | the process ends in order, and always after a failure; batches cover the universe; details are those of the last answer | 2 products, 1 update, 2 refreshes, 2 batches, 1 message, queue of 1 | holds |
| `failed_query` | `adapter.cpp:37` | 1 update, 1 batch, no refresh or message | violated |
| `documents` | conversions read back what they wrote; both JSON parsers agree; the configuration is read as meant | every day of 400 years, milliseconds, data of up to 5 bytes, texts of up to 8 tokens, files of up to 8 lines indented by 2, 4 or 6 | holds |

Why the bounds are enough. With two slots and three producers two can sleep
while the third overtakes the one that was woken, which is the case `notify_one`
can fail in; spurious wake-ups are bounded since an unbounded number could by
itself keep the mutex busy for ever. A batch that takes 13 ticks outlasts its
minute of 12, and three batches show the first sleep, the first `align` and the
loop. Two updates of the universe drop a product and take it up again. Two units
let an order match as taker and then as maker, and two orders let one live while
the receipt of the other is under way or missed. In `rest` two calls are the
fewest that can meet on a connection or follow one another on it; in `life` an
update can fall before, into and between the two batches, the second refresh has
something to clear or follows one that failed half way, and the safety properties
are proved for every number of each.
The Gregorian calendar repeats after 400 years, Base64 after three bytes. Eight
tokens nest three levels deep with a member on each; eight lines are the length
of `config.template.yaml`, and with the three steps of indentation no name can be
pinched, one key can, or one section and all keys (see below).

Deadlock is checked for `queue`. The other passing runs end when their bounds
are used up (`CHECK_DEADLOCK FALSE`), so that it is their liveness properties
that exclude a stall.

Fairness. Weak, everywhere: a thread that can go on does so, the exchange
answers requests, time passes, a callback returns. `std::mutex` and `notify_one`
promise no producer its turn, and none is assumed: `FifoProgress` says that
some event gets in, not whose. Orders need not match, strategies need not call,
the process need not be restarted, and no message needs to be sent. In
`RestOrders` the exchange is fair only to connections that somebody waits on,
and fair by an answer or by a close: the code has no timeout, and without either
a call hangs for ever. `AdapterLife` assumes no failure, with one exception: the
keep-alive thread pings within 30 s, and a ping on a closed socket throws. A
message, a batch or a call of the strategy need not come.

### What the runs show

- The queue is correct with `notify_one` on both sides. `WakeupCredit` says why.
- The scheduler never asks before a bar has been closed for ten seconds, and
  neither skips nor repeats a minute however slow the answers are. The time it
  loses is never made up for (`DueAtSettleMark` is an equation).
- A start in the last ten seconds of a minute makes every query but the first a
  minute late, for ever (`late_start`).
- The loop queries at the 10th second of a minute, as its code and the comments
  in it (`:67`, `:76`) have it. The comment at its head (`:20`) says "We will query
  bars at the 5th second of every minute": code and comment disagree, and
  `DueAtSettleMark` holds of the 10th second and of no 5th.
- Ticks are exact whatever is under way while the universe changes; after a
  message that failed to parse they may not be until the next snapshot.
- The exchange's subscriptions follow `currentUniverse_` but for the products of
  a request it refused, and it refuses about one in eight: a subscription that
  fails leaves a product of the universe without data, an unsubscription that
  fails leaves the feed with products the universe no longer has, and the program
  does not notice (`refused_request`).
- An order is followed without a gap if all its messages were sent to this
  process. If its receipt was not (it was placed before the subscription was
  served, while `updateUniverse` had everything unsubscribed, or by an earlier
  process), its fills as a maker reach the strategy under the id of the
  counterparty's order (`foreign_transaction`).
- With one caller, what `placeOrder` and the cancellations report is what the
  exchange did, whatever answers come; after an exception nothing is known.
  With two callers (a callback and an `onExit`) nothing of this is left for the
  shared session: the properties say `~overlapped`. An isolated request has its
  connection to itself, and what `getOrder` and the cancellation by product
  report is true whatever another thread does (`IsolatedIsTrue`); but it is not
  independent of it, since its signature is taken from the static buffer of HMAC,
  which another call may have overwritten: it is then refused, so that two
  sessions do not quite "facilitate multithreading" (`session.hpp:84`). That
  every call returns holds with two.
- `cancelOrder` never returns from a successful cancellation: it takes the plain
  string for an object and the JSON library aborts (`cancel`).
- A failure ends the process, however full the queue is and whatever callback
  is running, and no `onExit` runs before `onStart` has returned, also when the
  connection fails during `onStart`. A query that fails is not among the
  failures `onExit` hears of (`failed_query`).
- A batch covers the universe it began with, unless `updateUniverse` falls into
  it, which nothing prevents (listed under `hazards`).
- The details that a strategy can look up are those of the exchange's last
  answer, and of products it was told of. The converse fails: a second refresh
  that meets a product it cannot parse leaves the products after it without
  details, although the strategy has them from the first, and
  `lookupProductDetails` returns a null pointer for them (`adapter.hpp:28` has
  the map track the products' details, `examples/cpp/filter.cpp:31` uses the
  pointer unchecked).
- The codecs are inverses of one another from two bytes on (of fewer, `encode`
  runs out of its buffer); `parse` of milliseconds does not
  depend on the digits the exchange sends. A signature whose digest has a zero
  byte is cut there, although `cryptography.hpp:30` promises the HMAC: about one
  request in eight is refused (`refused_request` for what follows from it). Of
  digests without a zero byte the signature is whole: `SignatureIsWhole` proves it.
- A key of the configuration without a value, or a section without keys,
  indented so far that it reaches the column its missing value is given, makes
  the YAML parser refuse the file (`Pinched`); every other file is read as meant.
  What a key without a value is meant to be is taken from the parser, which makes
  it an end of line (`yaml.cpp:1864`): of such a key the run shows only that the
  file is read or refused, and that the other keys are not disturbed.

## Proofs

### The event queue

`EventQueue_proofs` holds for every finite set of producers and consumers,
every set of events and every capacity above 0 (`ThreadsAssumption`,
`QueueAssumption`).

The inductive invariant `IInv` is the conjunction of
`TypeOK`; `MutualExclusion`; `InHand` (a producer holds an event exactly until
it has emplaced it, a consumer's event is empty until it has taken one);
`WithinCapacity`; and `WakeupCredit`. `NoLostWakeup` follows from it and is not
inductive: when two producers sleep and two slots are free, one wake-up under
way satisfies it, and the woken producer's `Emplace` then leaves a sleeper, a
free slot and no wake-up. `WakeupCredit` counts instead: as many wake-ups under
way as free slots (while a producer sleeps), as many as events (while a consumer
sleeps). `Emplace` uses up one slot and one wake-up for space and makes one
event and one wake-up for it; `Pop` is its mirror image; `notify_one` hands the
notifier's credit to the sleeper it wakes; a thread goes to sleep only when no
credit is needed.

`Refinement` shows that the lock-based queue implements `BoundedFifo`'s safety
by the mapping `buffer <- queue, offered <- item, taken <- event`: `Enqueue`,
`Emplace`, `Pop` and `Dequeue` are `Offer`, `Put`, `Get` and `Finish`, all other
steps stutter. It needs `InHand`.

### The life of the process

`AdapterLife_proofs` holds for every set of products and every value of the
bounds (`LifeAssumption`), with all failures. Each invariant of the run `life`
needs a strengthening of its own, and `IInv` is `TypeOK` with
these three.

- `Order` for `ExitIsOrderly`: that no thread is in `onExit` too early follows
  from there being no thread to be there before `onStart` has returned, and that
  an exit has an `onExit` before it from `onExits` counting up only where the
  process exits.
- `Coverage` for `BatchCoversUniverse`: while a batch iterates, what is to be
  posted, posted and done add up to the universe it began with; the property
  speaks of the end of the batch only, when the first is empty.
- `Catalogue` for `DetailsAreCurrent`: what is yet to be registered is of the
  last answer, so that `Register` adds a detail that belongs there.

### The bars scheduler

`BarsScheduler_proofs` holds for every length of the run, universe, pool and
delay, under `ClockAssumption`: two readings of the clock at the start are no
further apart than the ten seconds the code waits after a minute's end
(`MaxJitter \in 0 .. Settle`), and the run is at least two minutes long.

`IInv` is `TypeOK` with these two.

- `Alignment` says, for each place of the scheduler thread, what its sleep leads
  to: after the first sleep it is a minute's end and ten seconds, and from there
  on `delay` is exactly how far the thread is behind. `DueAtSettleMark` is the
  part of it that the run checks. It bounds `currentMinute` by the clock, which
  makes `OnlySettledBars` inductive: that a bar asked for is closed says nothing
  about the next one.
- `OneBatch`: there is at most one query thread, it is for `currentMinute` (or
  done with it), and every earlier batch has asked for every product. The
  unlocked reading of `currentMinute_` in the query thread is therefore the
  value that was meant, and `NoMinuteSkipped` and `BarsInOrder` follow.

### Market data

`MarketData_proofs` holds for every finite set of products, every set of quotes,
every capacity of the queue and every number of changes, updates of the universe
and messages that do not parse (`HandlerAssumption`, `BoundsAssumption`).
`IInv` is a conjunction of three.

- `Types` is `TypeOK` with what each message carries.
- `Protocol`, for `SubscriptionFollowsUniverse`: of every product the last
  request that names it asks for what the main thread means it to be (`Wanted`),
  and a product that no request names (`Unnamed`) is already so, unless its last
  request was refused. The property speaks of the end only, when no request is
  under way.
- `Account`, for `TrackerCatchesUp` and `TicksAreExact`: for each product, from
  the handler's tick through the messages under way to the exchange's book
  nothing is missing. Every update is the change of the book that the message
  before it shows; the first one changes what the tick shows, unless a message
  was dropped; the last one shows the exchange's book while the product is
  subscribed to; and with none under way the tick shows it. A gap, while the
  product was unsubscribed, ends with a snapshot, which is why a snapshot may
  differ from all before it.

### Orders at the exchange

`TradingSession_proofs` holds for every finite set of the user's and others'
orders, every size of an order, every capacity of the queue and any number of
calls, restarts and messages that do not parse (`HandlerAssumption`,
`SessionAssumption`: sizes and sessions are counted from 1).

`IInv` is `Types` with these three.

- `Forward`: for every order, the last status the strategy was told, the
  statuses in the queue and those on the feed form one trail that goes strictly
  forward and ends at or before the order's state at the exchange.
  `OrdersGoForward` is an action property of the trail's first element: that the
  next status is a later one follows only from all that is under way.
- `Tracking`: `myOrderIds_` holds an order, or its receipt is on the feed, as
  long as the exchange may still match it, unless a message of it was missed;
  and an order that is over is either forgotten or its end is on the feed.
  `TracksLiveOrders` is what remains of it when the feed is empty. It is also
  what makes the handler attribute a match to the right one of its two parties.
- `Fills`: what was told, what is queued and what is on the feed add up to what
  the exchange has matched, given that a match on the feed names its parties
  right and that an order nobody has placed has matched nothing.

### Requests about orders

`RestOrders_proofs` holds for every set of threads and orders and any number of
calls, odd answers, digests with zero bytes, refused requests and lost
connections (`SessionAssumption`, `OrdersAssumption`). `Types` holds with any
number of callers, the rest of `IInv` as long as no two calls have overlapped,
which is what the properties assume as well:

- `Alone`, `Numbered`: one thread at most is in a call, and every call is told
  from all others, so that what is done for one does not touch what another has
  reported.
- `InStep`: every connection is empty but the one that a thread waits on. There
  the request is under way and nothing has been done for it yet; or its answer
  is, and the client will make of it what the exchange did (or fail); or the
  connection is lost. `ConnectionInStep` speaks of the time between calls only
  and `OutcomeIsTrue` of what a call has reported: neither is preserved by a
  step without knowing where the request is.
- `ClientIds`: the client order ids given so far are below `uniqueOrderId_`, and
  so is that of a request which has yet to be served.

With two callers none of these holds. What does is in a second invariant,
`Apart`, which assumes nothing of the number of callers; `IsolatedCallsAreTrue`
follows from it.

- `Numbered`, as above, and `Strangers`: a request on the shared connection is
  the isolated call of no thread, so that serving it touches none.
- `Own`: the connection named for a thread carries nothing but that thread's
  isolated call, in the same three states as in `InStep`. Here it is that the
  thread cannot meet another on it (`Uncontended`), since connections of
  isolated requests are named for threads and the shared one for none.
- `Reported`: what an isolated call has reported stays true.

### Time stamps and Base64

The first half of `Conversions_proofs` shows `DaysAreCalendarDays` for ever: neither the years nor
`LastDay` is bounded, where the run steps through 400 years. The date library
counts years from March so that the leap day comes last; the proof follows it,
with a table of the days before each month and the length of a year from March
(`YearGrows`, by the remainder of the year in its era of 400).

It shows as well that a time is read back as it was written.
`EveryTimeIsReadBack` holds on every date with a year of four digits, at every
second of the day, with no fraction or with any digits of one that fit the
`Duration` (at most `Width`, without a bound on `Width`); the run takes
three times of the first and last day of each month, and one fraction of each
length. `TimesAreReadBack` states
`TimesReadBack` of every reachable day up to the year 9999: from the year 10000
on `strftime` writes five digits and `%Y` of the date library reads four.

- `Pow10Rec`, `DecimalBound`: what the recursive functions for powers of ten and
  for the value of digits compute. The library's induction theorems cannot be
  used, so `Induction` is derived from the least element of a well-founded order
  (`WFMin`) and speaks of a set of numbers where they speak of an operator; that
  such a function exists and is the only one is part of the proof.
- `RunOfDigits`, `UnsignedIsRead`: a field ends at the first character that is
  no digit or after its width, and its value is that of its digits.
- `SecondsWithFraction`: a fraction is scaled to units of the `Duration`, and is
  always less than a second, so that it carries into nothing.
- `Written`, `DateIsRead`, `TimeIsRead`, `TimeIsTaken`: the reader is followed
  field by field through any text that has digits and marks where a time has
  them; that it is followed to the end shows that the stream never fails.
- `LayoutIsWritten`: what `epochToIsostring` writes is such a text.

The second half shows that `decode` undoes `encode` for any two or more bytes
(`RoundTrip`), group by group: three bytes make four characters of six bits,
which are the same number again; bytes that are not there count zero on both
sides, and the padding is what the last group lacks. `SignatureIsWhole` follows:
only digests with a zero byte make signatures that the exchange refuses.

### The configuration file

`ConfigAlwaysReadsBack` is about `ConfigInit` and `WriteLine`, the part of
`Codecs` that writes a file. It holds for any names of any width, any number of
sections, keys, values and lines, and any steps of indentation but 0
(`ConfigAssumption`: the names are told from one another, and from a value that
is not there).

The inductive invariant `ConfigInv` does not mention the parser, which starts
again with every file. It is `Shaped`, what a file looks like (the root key
first and once, no section twice, each name indented by its level, each key
below a section), and `Matches`, that the value given for a section and a key is
that of the line there is for it. `ConfigReadsBack` alone is not inductive: two
files may be read alike and be read differently with one more line. The parser
is then followed through a file of that shape (`ConfigInvReads`):

- `ScalarLineIs`, `MappingLineIs`: what a round makes of a line with a name. A
  name with nothing in it (`Leaf`) becomes two lines, any other stays one, and
  the blank lines behind it go.
- `RoundMoves`, `PostProcessIs`: where each line with a name is after all the
  rounds (`Places`, `Spread`), so that the second pass does what it should for
  every file and never runs out of rounds.
- `ItemIs`, `EntryIs`, `MapsExist`, `ParseMapIs`: the map that begins at a name
  is the assignments of the lines below it, up to the next line less deep, or
  is refused for a name among them whose value's line is not further right
  (`Outcome`). This is an induction on the keys that may be to come.
- `ParseRootIs`: so is the whole file, and the last line is always a scalar.
- `NodeIs`, `ReadsAsGiven`: assignments to paths of which none is a beginning
  of another (`Apart`) do not clear one another, in whatever order they are
  made, and each is read back at its path.

### JSON

`Json_proofs` shows both properties of JSON for texts of every length and
nesting: `MaxTokens` is any number, where the run stops at eight
(`JsonAssumption`). The theorems are about `JsonInit` and `ReadToken`, the part
of `Codecs` that reads a text; a text is any sequence of tokens that tokens can
be read in.

The iterative parser is a machine, and the state before each token of the text
is kept as a history beside it (`Runs`); that there is one is the invariant
`Traced`. It is all that the first theorem needs of the state, since a recursive
parser starts again with every text.

- `ParsersAlwaysAgree`. The recursive parser is compared with the history from
  the inside out. `LoopsAgree` says of the loops with so many tokens left: begun
  where the machine expects a member (or an element), having made the machine's
  calls so far, they end where the machine leaves that container, with its calls
  and its count, or in the error the machine is in at the end of the text. It
  follows from the same with one token less, whatever is nested inside
  (`AllLoopsAgree`). It needs `LoopsFurther`: no loop goes back in the text, so
  that an item leaves fewer tokens to the next round. Where an error is found by
  both they name it alike but for the one that `ParsersAgree` excepts.
- `WritingAlwaysUndoesReading`. `Explained` ties four things to each place of
  the history: the text without its spaces, the calls made, the values on the
  handler's stack, and the levels and output of a `Writer` given the same calls.
  Inside a container (`Fills`) all of them are what they were where it was
  opened, followed by what the items read since contribute; the output lacks a
  comma or colon just read (`Pending`), because the reader sees it before the
  next item and the `Writer` puts it before the next item. At the end of a
  container the items become one value, for which `Accept` makes exactly the
  calls since the opening (`ObjectEnds`, `ArrayEnds`), and this value arrives in
  the container around it (`Arrives`) or is the document. The property speaks of
  whole documents, and only this says what holds of half of one.

Both are inductions over numbers (tokens left, depth, tokens read), by the same
`Induction` over sets of numbers as above, which also says what the folds
(`Built`, `Output`) and the recursive functions compute. For white space the
invariant is trivial and the parser is not: `Skip` is followed to the next token
or the end (`SkipMade`, `Skips`).

### What is only model-checked

- All liveness: `FifoProgress`, `EveryMinuteAsked`, `TrackerSettles`,
  `DoneIsReported`, `CallsReturn`, `FailureEndsProcess`. Fairness and `ENABLED`
  are beyond the prover.
- The runs that refute a claim.

## Plan

Every invariant and every action property of the passing runs is proved; what
is left to TLC is liveness and the runs that refute a claim. More of the
vendored libraries could be modelled the way `Json` and `Config` are: sequences
and block scalars of the YAML library first, should the configuration come to
use them.

## Not modelled

Formats, wording and logging; prices and times beyond what tells messages
apart; `hmacHex`, `epochNow` and the operations of `Universe` that strategies
call on sets of their own; data races inside C library functions (the static
buffer of `gmtime`), listed under `hazards`; the example strategy.

Of the vendored libraries everything that no code of the adapter reaches: in
rapidjson the schema validator, pointers, regular expressions, the parsers'
other modes and the encodings; in the YAML library sequences, block
scalars and the serializer; in the date library all formats and calendars but
one. Allocators and the characters of strings and numbers are beneath what the
properties tell apart. These libraries are nine tenths of the repository's lines
and little of what it does.
