# TLA+ specifications of the market-making bot

This directory holds the formal models kept beside the code in `src/`: TLA+
modules, the TLC configurations that check them on small instances, and proofs
checked by TLAPS. Line numbers refer to the sources under `src/src/` unless a
path is given.

## 1. The system

`main` loads the configuration and runs one strategy,
`AvellanedaStoikovMarketMaking`. The strategy owns an exchange, `Dydx`. It is
meant to feed market data through a disruptor ring buffer to a handler that
keeps its state in a `MemoryMap` and recent trade prices in an
`ExpirationBuffer`.

```
 dYdX indexer --feeds--> feed tasks --unbounded mpsc--> watch_* (mutex) --> watcher tasks of run()
                                                                                  :  (nothing is published yet)
                                              handle_message <-- disruptor ring <.:
                                                 |      |
                                     MemoryMap <-+      +-> ExpirationBuffer     (native or redis)
```

| component | state | operations | hard behaviour | what makes it correct |
|---|---|---|---|---|
| order book and its task (`exchange/dydx.rs` 49-75, 135-197) | two B-trees, a stamp counter | apply a snapshot, apply an update, publish the top of book, stop on a closed feed | snapshots after reconnection, zero sizes, repeated prices, closing with messages queued | the book is the indexer's book; one top of book per message, in order |
| channels and watch methods (350-365, 410-472) | four unbounded channels, each receiver behind a mutex | feed tasks send, watchers lock, receive and filter | several tasks and watchers per channel, a mutex held across `await`, feeds that close | nothing lost, duplicated or reordered; wanted items arrive |
| trades task (78-133) | none | forward the trades of a message | snapshots that repeat trades, several contents in one update, a number that does not convert (`utils.rs`), spins on a closed feed | order |
| subaccount task (199-313) | none | decode balances and positions | partial updates, snapshots that omit closed positions | the reader's picture follows the account |
| `Dydx::new`, `load_markets` (315-408) | channels, indexer client | subscribe, spawn tasks | a subscription that fails half-way | - |
| strategy start-up and `run` (`strategy/avellaneda_stoikov_market_making.rs` 152-238) | two global stores, the exchange | create, initialise, subscribe, spawn four watchers | order of initialisation and symbols | keys are set before they are read |
| message handler (85-147) | the two stores | one action per message kind | unwraps on empty sides and missing keys, panic of the consumer thread | quotes computed from one consistent state |
| native stores (`data/storage/backend/native.rs`) | `HashMap`, `VecDeque` behind `RwLock` | `set`/`get`, `add`/`get` | several threads, a clock that moves between two reads | `get` returns the rolling window |
| redis stores (`data/storage/backend/redis.rs`) | command queue, worker, server | `set`/`get`, `add`/`get` | crashes, lost answers, timeouts, reconnection, asynchronous writes | later sets win, the worker survives outages |
| hyperliquid listener (`exchange/hyperliquid.rs`; not compiled, `exchange.rs:7` is a comment) | a connection, the static `WS_TX`, the ring | connect and subscribe, publish trades and bbos | two tasks on one ring that may be full or dead, messages that do not parse, a connection that ends | each good trade published once and in order |
| MQTT publisher (`data/transception/mqtt.rs`; not compiled, `data.rs:8` is a comment) | the client's queue, the event loop | one to three publications per message, reconnect | outages, a full queue in the middle of a message, the end of the senders | topics never go back; the publisher gets on after an outage |
| ccxt types, config, `main`, deployment | declarations | | | |

The behaviours that tests hardly reach are listed with their lines in
`PROJECT.json` under `hazards`, each with the property that covers it or why none
does.

## 2. Modules

| module | role |
|---|---|
| `BookMirror` | abstract: every version of the indexer's book yields one top of book, in order |
| `OrderBookFeed` | the order-book task; implements `BookMirror` |
| `MCOrderBookFeed` | instances for TLC |
| `OrderBookFeedProofs` | theorems and proofs about `OrderBookFeed` |
| `SubaccountFeed` | the subaccount task and what the readers of balances and positions learn from it |
| `MCSubaccountFeed` | instance for TLC |
| `WatchChannel` | feed tasks, one channel, the receiver's mutex, the watchers |
| `MCWatchChannel` | instances for TLC |
| `DydxFeedProofs` | theorems and proofs about `SubaccountFeed` and `WatchChannel` |
| `Relay` | abstract: what arrives on a stream is passed on, once and in order |
| `HyperliquidListener` | `connect` and `listen` of several tasks, the exchange, the ring and its consumer; implements `Relay` |
| `MCHyperliquidListener` | instance for TLC |
| `HyperliquidListenerProofs` | theorems and proofs about `HyperliquidListener` |
| `MqttPublisher` | `run` and `poll_eventloop` with the queue between them and the connection; implements `Relay` |
| `MCMqttPublisher` | instance for TLC |
| `MqttPublisherProofs` | theorems and proofs about `MqttPublisher` |
| `WindowBuffer` | abstract: a rolling time window |
| `NativeExpirationBuffer` | the native buffer, step by step under its lock; implements `WindowBuffer` |
| `MCNativeExpirationBuffer` | instance for TLC |
| `NativeExpirationBufferProofs` | theorems and proofs about `NativeExpirationBuffer` |
| `RedisMemoryMap` | queue, background worker and server of the redis map |
| `MCRedisMemoryMap` | instances for TLC |
| `RedisMemoryMapProofs` | theorems and proofs about `RedisMemoryMap` |
| `RedisExpirationBuffer` | the redis buffer command by command, its server, restarts of the process |
| `MCRedisExpirationBuffer` | instances for TLC |
| `RedisExpirationBufferProofs` | theorems and proofs about `RedisExpirationBuffer` |
| `AsmmStrategy` | start-up (`new`, `init_state`, `run`, `load_markets`), the ring and the message handler |
| `MCAsmmStrategy` | instances for TLC |
| `AsmmStrategyProofs` | theorems and proofs about `AsmmStrategy` |

Definitions called "Mutant of ..." are deliberately wrong variants of the
definition that follows them. Replacing the definition by its mutant must make
TLC report the property named in `PROJECT.json`; this guards against
properties that no error could violate. No specification uses them.

### OrderBookFeed

`bids`, `asks`, `offset` are the fields of `OrderBook`; a side is a function
from its prices to `[size, stamp]`. `log` is the feed with everything ever put
on it, `taken` how much of it the task has received, `todo` the levels of the
current message not yet applied, `phase` the place in the loop, `channel` what
was sent on `order_book_tx`.

`ReceiveInitial` and `ReceiveUpdate` are the two arms of the `match` up to the
first call of `update_bids`; `ApplyBid` and `ApplyAsk` are one iteration of the
loop in `OrderBook::update` (66-75); `Publish` is `book_to_ccxt` and `send`;
`FeedClosed` is the `None` arm. The task owns its book, so finer steps than the
code's atomic blocks lose nothing and let the properties speak about a half
applied message.

The indexer is external: `SendInitial`, `SendUpdate` and `CloseFeed`. A message
carries, as a history field, the indexer's book after it (`view`). `Describes`
says what a list of levels means without a fold over the list: the last entry
for a price counts. It is stated as a relation because the proofs need it for
lists of every length, and it is independent of the code's loop, so that
comparing the two is a real check. A snapshot starts from the empty book, an
update from the book before it. The crossing of bids and asks is not excluded:
the code does not look at it.

`PublishPanics` is a best level whose price or size `big_decimal_to_decimal`
cannot convert (`utils.rs` 6-8, an `unwrap`): the spawned task is gone, the
rest of the program does not notice. Which numbers convert is left open, so any
publication may fail. The book itself takes every number.

### SubaccountFeed

`phase`, `openLeft`, `contents` and `free` are where the task is in its loops
and what it has in hand: `ReceiveInitial`, `SendOpenPosition`, `InitialDone`
are the first arm of the `match`, `ReceiveUpdate`, `ApplyAsset`,
`SendPosition`, `NextContent`, `SendBalance` the second, `FeedClosed` the
third. The feed itself is not a variable: the task looks at it only when it
asks for the next message, so the message is chosen when it is received, any
account for a snapshot and any list of changes for an update. `account` is a
history of what the messages said, `knownFree` and `knownPos` of what was sent.

A snapshot says nothing of closed positions and of assets other than USDC.
`missed` keeps what changed in an outage and was not named since: these are
exactly the cases in which the readers' picture may differ from the account.
`ConversionPanics` is a number of a message that does not convert, at any of the
steps that convert one.

Positions are identified by market, of which there is one position per
subaccount; the `id` a position is sent with is not modelled, and differs
between the two arms (241: the market, 282: the indexer's id).

### WatchChannel

One of the four channels. `feed`, `open`, `announced` are the indexer's side;
`task` and `batch` the loop of `handle_*_feed`; `chan` the channel; `lock` the
tokio mutex around the receiver, with its waiters in FIFO order; `seen` a
history of everything received and whether it was returned or skipped.

`payload` says what the channel carries, and `Wants` which symbols' items each
watcher of it returns; it discards the others (`Skip`), so watchers of different
symbols steal from each other. With `"trades"` a message is a list of contents,
each a list of trades, which `TakeMessage` flattens as the two arms of
`handle_trades_feed` do: `Lists` says by the places where the contents end which
list is meant, so that no recursion is needed, and `ListsDetermines` in the
proofs shows that there is only one; `Resubscribe` is the snapshot after a lost
connection, in which old trades occur again; and `TakeNone` turns a closed feed
into an empty list and asks again (126). With `"orders"` a message is one book
and a closed feed ends the task; which levels a book has is in `OrderBookFeed`.
Balance and positions have no filter: the same with one symbol. `TakePanics` is
a number that does not convert: the batch is collected before the first send, so
nothing of that message is sent.

There is no action for the `None` arms of the watch methods. `recv()` gives
`None` only when no sender is left, and `Dydx` holds one of every channel. The
specification is `ChannelSpec` and its types `ChannelTypeOK`, so that one module
of proofs can extend this one and `SubaccountFeed`.

### NativeExpirationBuffer

`list` is the deque, `holder` the write lock, `pc[t]` the place of thread `t`
in `add` or `get`. `Tick` may come between any two steps, so the clock moves
between reading it and pushing, and between two checks of the eviction loop.
Under the refinement mapping an `add` takes effect when it reads the clock
(`Pending`) and a `get` when it finds nothing more to evict; eviction itself is
a stuttering step of `WindowBuffer`. The lock is unfair, as `std::sync::RwLock`
is; nothing assumes that a waiting thread ever gets it.

### RedisMemoryMap

A value is the number of the set that wrote it, so "older" and "newer" can be
compared. `pc` is the place in `background_worker`; `Executed` and `Answered`
separate the execution of a SET from its answer, so a failure may come before or
after the effect (`Failed`, `TimedOut`). `Failed` has no condition on the
connection: besides a server that is down, a live one answers with an error
while it loads, when its memory is full or its disk cannot be written, and a
connection may be lost without the server. A failed command is given up, as in
the code, and the worker tries once to replace its connection, a good one too;
that may fail although the server is up (`Reconnect`). The connection manager of
the redis crate is external and reconnects by itself as well
(`ManagerReconnects`). The server is external: it crashes and loses what it has
not saved (`compose.yml` mounts a data volume and restarts the container), and a
command whose answer timed out may be executed later (`late`). It is assumed
that the server serves a new connection only after what an older one brought
(the guard `late = <<>>` of `Executed`): a new connection begins with a
handshake, and the worker sends nothing before it is answered. The code relies
on it and cannot enforce it; a server that read the two the other way round
could execute an older SET after a newer one. `lost` is a history of the sets
that failed before they were executed and of those a crash took: the timed-out
ones and what was not saved. `get` opens a connection of its own and is one
step, since one GET is; it yields nothing when anything fails. The native map
has no queue: there a `get` returns what the last `set` stored, here it may
return an older value, because `set` only queues. `ReadsGoForward` is what can
be said instead.

### RedisExpirationBuffer

`zset` is the sorted set, `pc[t]` the place of thread `t` in `add` (`add`:
connecting, `zadd`) or `get` (`now`, `range`, `remove`); the clock is read
before connecting in `add` and after it in `get`, as in the code. Each command
is a step, a failure at any of them returns, for whatever reason. `disk` is what
the server last saved, `added` a history of the ZADDs the server has not
forgotten. Members are values, so adding a value again moves its score.
Connections have no timeout here: the client waits for its answer. `NewProcess`
is a restart of the program, whose first buffer has the same key again; a second
buffer in one process has a key of its own and is a second instance. The clock
is taken to be monotonic: were the system time set back, a `get` could remove
values that are fresh again.

### HyperliquidListener

`pc[l]` is the place of a listener's task in `connect` and in the loop of
`listen`; `trades[l]` the rest of the message it is in. A trade or a bbo is its
number on its connection and whether its numbers parse. What the loop skips
before it looks at the channel (an error, a frame that is not text, a text that
is not JSON) is a message of the channel `"other"`, as is any other channel.
`WS_TX` is the variable `sender`: the first `connect` of the process sets it,
the sender of every later one is dropped. Nobody sends on it, so the second
branch of `select!` only matters when the connection has ended: then the first
listener waits for ever, and a later one finds both branches disabled and panics
(`SelectPanics`). `ConnectPanics` are the `unwrap`s of `connect`. `Publish` waits
for a slot; `HandlerPanics` ends the consumer of the ring.

### MqttPublisher

`Receive`, `ReceiveFill`, `Request` and `Exit` are `run`; `Topics` is its
`match`, one request per topic. `ConnectFails`, `LinkLost` and `Awake` are the
`Err` arm of `poll_eventloop` and its sleep; `Connect`, `Write` and `Deliver`
are what `poll` does inside the rumqttc crate, external. `publish` waits for a
place in `queue`; its own `Err` arm (17-19) is taken when the event loop is
gone, which never happens, or for an invalid topic. The latter is left out: only
a wildcard in the configured `topic_prefix` makes a topic invalid, and then
every topic is, none is requested, and each is logged. When a connection breaks,
what is on the `wire` is lost and what was queued is `pending` for the next
connection, which may drop it (`set_clean_session(true)`, 41). All messages are
published with `AtMostOnce`.

### AsmmStrategy

`main` walks through `load` (`LoadConfig`), `new` (`New`), `run` (`AddSymbols`,
`SpawnWatchers`) and `load_markets` (`SubscribeSubaccount`, `SubscribeTrades`,
`SubscribeOrders`, `MainPanics`). `state` and `trades` are the two global stores
(native, so every call is one step), `ring` the slots of the disruptor. The
consumer thread decides first (`HandleTrade`, `HandleBook`, `HandleIgnored`) and
then sets one key per step. `Watch` is a watcher of `run` receiving something.

Two constants hold what the source fixes and a run may vary. `FirstSymbols` is
`exchange.symbols()` when `init_state` runs: `<<>>` for `Dydx`. `Publishing` is
`FALSE` in the source. With both as in the source the handler is dead code, so
the handler is checked with a symbol that is known at once and with watchers
that publish, the design `src/README.md` draws. What is shown that way speaks of
the handler and of its storage alone; that anything reaches the handler is asked
of the program as it is (`asmm_unpublished`), and is false. The disruptor is
external: a producer waits for a free slot, a slot is free when the handler has
returned from it, and a consumer that panicked frees none.

## 3. Runs

All runs use `CHECK_DEADLOCK FALSE`: each instance is bounded in its guards and
each component may really stop (feeds close, nobody is obliged to call).

| run | checks | bounds, and why they are enough |
|---|---|---|
| `book_feed` | types, book = indexer's book, stamps, refinement of `BookMirror`; every message is published, the task ends after close | 2 messages of up to 2 levels over 2 prices and 2 sizes: a snapshot over a non-empty book, deletion, replacement, a price twice in one message, both sides, an update that empties a side, closing with both queued, a number that does not convert. 147k states |
| `watch` | types, FIFO from feed to watcher, wanted items arrive or are stolen, closed book feeds end tasks | both payloads; 2 watchers that contend for the mutex, of different symbols for trades, so that they steal from each other, of one symbol for books, so that both discard the other symbol's; 2 items per feed, new, repeated by a snapshot, in one content or two. 150k states |
| `subaccount_feed` | types, what readers know of positions and balances | 2 markets, 2 assets, contents with up to one change of each kind, updates of up to 2 contents: a key named twice, an update without assets. 207k states |
| `native_buffer` | types, sorted stamps, refinement of `WindowBuffer`, the lock is given back | 2 adders, 2 getters (one thread is both), 3 adds, 2 values, `TTL` 2, clock to 3: entries younger, exactly as old and older than `TTL`. 50k states |
| `redis_map` | types, a set never undoes a later one, reads go forward, only failed sets are lost, the queue drains | 2 keys, 2 sets each, 2 crashes, any number of errors and failed reconnections: a command fails after an earlier one failed, over a good connection and over a dead one. 197k states |
| `redis_buffer` | types, no fresh value is removed, a get sees the window | 2 threads that both add and get, 2 values, 2 adds, `TTL` 2, clock to 3, a crash, any number of new processes; threads and values are symmetric. 938k states; 3 adds (8.3M states) were run once, with the same result |
| `redis_buffer_repeats` | a disagreement, see below | 1 thread, no crash |
| `asmm_handler` | types, complete subscriptions, whole books, newest value wins | a ring of 2 slots and 4 messages, so that it is full and reused; books with and without each side; γ 0 and 1 |
| `hyperliquid` | types, refinement of `Relay`, drained before a panic, what arrives is published | 2 listeners, a ring of 1 slot, so that they wait for each other; 2 messages of up to 2 trades, each good or bad, bbos and others among them, connections that end at any time. 269k states |
| `mqtt` | types, refinement of `Relay`, what the broker sees, progress through outages, the end of `run` | a queue of 2 (100 in the code) and 2 messages of up to 3 topics: it is full in the middle of a message; any number of failures and lost connections. 25k states |
| `asmm_unpublished`, `asmm_start_up` | disagreements, see below | the constants of the source |

### What the runs show

The properties that hold: the order-book task follows the indexer exactly,
including after reconnections; the readers of positions and balances know the
account up to what a snapshot leaves unsaid; nothing is lost on the way to the
watchers except what a watcher of another symbol discards; a `get` of the
native buffer returns the window of a single instant whatever the interleaving,
one of the redis buffer never misses a value whose last add is fresh; the redis
worker preserves the order of sets because it never retries, and an error costs
the one set it answers and no other; no watcher runs
with a feed missing; a handler that panics never leaves half a book behind. A
number that does not convert ends one feed task between two messages, never
within one. The hyperliquid listener publishes every good trade, whatever it
skips and however its connection ends; the topics of the MQTT publisher never
go back, through any number of outages.

Three disagreements between the code and what it says of itself (`findings` in
`PROJECT.json`):

- `ParametersAreSet`: `init_state` runs before the exchange has symbols and
  stores nothing; the handler unwraps what it should have stored.
- `ReceivedIsHandled`: messages are drawn as flowing into the disruptor, but
  the watchers only log them.
- `EveryAddCounts`: the buffers are called interchangeable; the redis one
  keeps a value once however often it is added.

Seen while modelling, and no run's question: the watch methods' panics with
"channel closed" (421, 441, 448) are unreachable, because `Dydx` holds a sender
of every channel, so when the feeds are gone the watchers wait for ever without
a sign; `memory_storage.backend` of the configuration is read by nobody, the
strategy always takes the native stores (157-162); `poll_eventloop` never
returns, also when `run` has.

Differences between the backends that the models show and no run asserts: a
`get` of the redis map may return the value before the last `set`; a redis
buffer returns a value exactly `ttl` old and the native one does not; two
`add`s of one value that overlap may leave the earlier time; the native buffer
evicts in `get` only, so a user that only adds, as the handler does, keeps
everything.

### Fairness

`FairSpec` is used for liveness only. Weak fairness of the feed tasks and of the
watchers: the tokio runtime polls a task that can make progress, and a task that
spins, as the trades task of a closed feed does (126), leaves the others their
turn only because of tokio's cooperative budget. That is assumed here and shown
by no run. Weak fairness of a thread that holds the buffer's lock, and of the
clock. Weak fairness of the redis worker, of the container's restart and of a
running server executing what it received, and of the thread behind the ring,
which polls it every millisecond. Weak fairness of the hyperliquid tasks and of
the ring's consumer as long as it lives. For the MQTT publisher weak fairness of
both tasks and of the sleep, and strong fairness of `Connect` and `Write`: an
attempt that is made again and again, once a second without end (135-148),
succeeds at last. That is an assumption about the broker, and without it a
publisher with a full queue rightly waits for ever. Nothing is assumed of the
indexer, of the hyperliquid exchange, of the senders of messages, of callers of
`set`, `get`, `add`, or of the acquisition of the buffer's lock.

## 4. Proofs

`OrderBookFeedProofs` proves, for every set of prices and sizes (subsets of the
naturals with 0 a size) and every bound on messages and levels, under
`FeedAssumption` only:

| theorem | statement |
|---|---|
| `TypeCorrect` | `Spec => []TypeOK` |
| `StampsOrderLevels` | `Spec => []RecencyStamps` |
| `BookFollowsServer` | `Spec => []BookTracksServer` |
| `TaskImplementsMirror` | `Spec => Mirror!MirrorSpec` |

The argument. `BookTracksServer` says that the levels still to be applied
describe the difference between the task's book and the indexer's. Applying one
level preserves that (`DescribesRest` with `SizesAfterApply`). It is not
inductive alone: when the next message is received one must know that it
describes how the indexer's book came from the previous one, which is a fact
about messages not yet received. `LogConsistent` says it for the whole log, and
`BookInv` is the conjunction. For the refinement `ChannelInv` adds that exactly
one top of book has been sent per finished message, and `TopOfBook` that the
last key of the bids and the first key of the asks are the best levels of any
book with the same sizes.

`DydxFeedProofs` proves about `SubaccountFeed`, for every set of markets, assets
and sizes and every number of contents in an update, under
`SubaccountAssumption` (USDC is an asset, 0 a size):

| theorem | statement |
|---|---|
| `TypeCorrect` | `Spec => []TypeOK` |
| `PositionsAreKnown` | `Spec => []PositionsKnown` |
| `BalancesAreKnown` | `Spec => []BalancesKnown` |

`PositionsKnown` and `BalancesKnown` speak of the moments between messages, so
`PositionsInv` and `BalancesInv` say what holds in the middle of one: a key is as
the readers know it, or it is still to come, as an open position of the snapshot
or as the last change of the update that names it (`LastBrings`); of the assets
what has been collected in `free` counts first. What the indexer means by an
update is that of each key the last change counts (`After`). Carrying out the
first change leaves the last one of every other key where it is, and of its own
key unless it was the last (`FirstDone`).

`DydxFeedProofs` proves about `WatchChannel`, for every set of symbols and of
watchers, whatever each wants, for both payloads and every bound on items, under
`WatchAssumption`:

| theorem | statement |
|---|---|
| `ChannelTypeCorrect` | `ChannelSpec => []ChannelTypeOK` |
| `PipelineKeepsOrder` | `ChannelSpec => []PipelineIsFifo` |

`PipelineIsFifo` says where everything on the way is in the list of what the
indexer announced: what was sent at the places `Count` gives, the number of
earlier items of the symbol on the shared channel; the task's batch behind that;
the messages on the feed behind the batch, at the cut points of `Follow`, and
within a message at those of `Lists`. An item that is sent moves from the batch
to the end of the channel and adds one to the `Count` of its own symbol only
(`CountAppend`, `ThroughSend`); a watcher moves the head of the channel to
`seen` and leaves `Sent` as it is; an announcement adds a cut point (`FollowPut`).
The hard step is `TakeMessage`. The first cut point tells which items the message
lists, and the batch is some list the message lists; that they are the same is
`ListsDetermines`: the ends of the contents agree one after the other, by
induction over the number of contents. The library's induction theorems have an
operator as a parameter, so `NumberInduction` states induction for a set of
numbers instead, and rests on the well-foundedness of strict inclusion among
finite sets. With these, `PipelineIsFifo` is inductive together with `TypeInv`,
which adds to `ChannelTypeOK` that the newest number announced is no larger than
the number of items (`NumbersInv`): without that, nothing says that the next new
item, or the list a snapshot repeats, is within `MaxItems`.

`NativeExpirationBufferProofs` proves, for every set of threads and values,
every `ttl` and every bound, under `BufferAssumption`:

| theorem | statement |
|---|---|
| `TypeCorrect` | `Spec => []TypeOK` |
| `DequeIsSorted` | `Spec => []StampsSorted` |
| `BufferImplementsWindow` | `Spec => Window!WindowSpec` |

`StampsSorted` speaks of all entries ever added (`Added`: evicted, stored and
stamped but not pushed), which makes it inductive together with `TypeOK`: by
`AddedGrows` a step leaves `Added` alone or appends an entry stamped now. That
an entry is pushed before another is stamped is the lock's exclusion in
`TypeOK`. For the refinement `EvictInv` adds that whatever was popped is ttl old
(`EvictedExpired`). When the eviction loop ends, at an empty deque or a fresh
front, the entries popped have expired and, the deque being sorted, the rest are
fresh: the step is `WindowBuffer`'s `Get` with the number of entries popped as
its witness (`EvictDoneIsGet`). All other steps change neither what was added
nor any result (`ResultStays`), or are `Add` or `Tick`.

`RedisMemoryMapProofs` proves, for every set of keys and every bound on sets and
crashes, under `RedisAssumption`:

| theorem | statement |
|---|---|
| `TypeCorrect` | `Spec => []TypeOK` |
| `SetsStayInOrder` | `Spec => []SetsInOrder` |
| `ReadsNeverGoBack` | `Spec => []ReadsGoForward` |
| `FailuresCostThemselves` | `Spec => []OnlyFailedAreLost` |

`SetsInOrder` is inductive together with `TypeOK`. It speaks of all commands the
server may still execute (`ToDo`: those that timed out, the one in hand, the
queue), and the steps of the worker and of the server only shorten that list:
`OldestExecuted` when a command is executed, `SomeInOrder` when any others are
dropped; `NewestJoins` covers a call of `set`. That what is executed is newer
than what is stored (`StoreGrows`) gives `ReadsGoForward`; a crash may set the
store back but begins a new run of the server. For `OnlyFailedAreLost` a set
that is not in the store is followed from place to place: on the queue, in the
worker's hand, among the late ones, lost (`Pending`). The steps move the head of
a list (`HasHead`) or add at its end (`HasAppend`); the order of the sets is
needed because only then no execution sets the store back (`StoreGrows`).

`RedisExpirationBufferProofs` proves, for every set of threads and values, every
`ttl` and every bound, under `RedisBufferAssumption`:

| theorem | statement |
|---|---|
| `TypeCorrect` | `Spec => []TypeOK` |
| `FreshValuesAreStored` | `Spec => []FreshIsStored` |
| `GetsSeeTheWindow` | `Spec => GetSeesWindow` |

`WindowInv` is the invariant of the last two. It says of the sorted set, and of
its copy on disk, that a value is stored at the score of its last `ZADD` and
is missing only if that is ttl old (`Tracks`), and of every get under way that
its `min_score` is at most ttl before now (`MinIsPast`). The copy on disk must
be there because a crash makes it the store, and `MinIsPast` because another
thread may add, and the clock advance, between the time a get computes
`min_score` and the time it removes.

`MqttPublisherProofs` proves, for every set of messages, every size of the queue
and every number of messages and outages, under `PublisherAssumption`:

| theorem | statement |
|---|---|
| `TypeCorrect` | `Spec => []TypeOK` |
| `PublisherImplementsRelay` | `Spec => ImplementsRelay` |
| `BrokerSeesOrder` | `Spec => []BrokerSeesSubsequence` |

`RelayInv` says how what has arrived is cut up: the requests made, those of the
message in hand, and those of each message on the channel, with the places where
they begin as a function (`IsCut`); that replaces the flattening of the channel,
which is defined by recursion and beyond the provers. `BrokerInv` adds that the
broker's, the written, the pending and the queued requests, one after the other,
are a subsequence of the requests made. A new request joins both at their end
(`BothGrow`), a broken connection takes some out of the middle (`MiddleDropped`),
and everything else moves the boundaries.

`HyperliquidListenerProofs` proves, for every set of calls of `listen`, every
number of coins, every size of the ring and every bound on messages, under
`ListenerAssumption` (the ring has a slot, a message may hold a trade):

| theorem | statement |
|---|---|
| `TypeCorrect` | `Spec => []TypeOK` |
| `ListenersImplementRelay` | `Spec => ImplementsRelay` |
| `ListenersDrain` | `Spec => []DrainedBeforePanic` |

`TypeOK` is inductive together with `WireTyped`, the types of what is on the
connections. `InStep` is the invariant of the other two. It says of each listener
(`Keeps`) that the numbers rise along the rest of the message it is in and the
messages after it (`InLine`), that what arrived rises too (`Increases`), that
what it published is a prefix of that (`Starts`), and that the remainder is
exactly what parses of the rest (`Awaits`). So the next trade that parses is the
next that arrived (`FirstIsNext`), a bad one leaves everything as it was
(`SkipKeeps`), and the exchange adds at the end of both (`ArrivalKeeps`). As for
the MQTT publisher this takes the place of a flattened and filtered sequence.
When a listener panics in `select!` its connection is empty, so `Awaits` leaves
nothing to publish (`NothingLeft`); a panic in `connect` comes before the last
subscription (`Connections`).

`AsmmStrategyProofs` proves, for every list of symbols, every set of values of γ,
every size of the ring and every bound on messages, whether the watchers publish
or not, under `StrategyAssumption` (the ring has a slot, `run` adds at least one
symbol, γ is a natural number):

| theorem | statement |
|---|---|
| `TypeCorrect` | `Spec => []TypeOK` |
| `FeedsBeforeWatchers` | `Spec => []WatchersHaveFeeds` |
| `NewestValueWins` | `Spec => NewestWins` |
| `BookStaysWhole` | `Spec => []BookIsWhole` |

`MainInv` says how far `main` has come: where it is, and where `next` stands in
the list of symbols. `FeedsInv` adds which tasks it has spawned by then, exactly
those of the symbols before `next` (`Served`); at `"watch"` that is all of them.
`RingInv` says that slot i of the ring is message `handled + i`, and that nothing
is on the ring before the watchers run. `StateInv` follows from it: what the
handler still has to set carries the number of the message being handled, and
nothing stored is newer, the parameters excepted, which are only stored before
the watchers run. That gives `NewestWins`. `BookIsWhole` says nothing while the
handler is setting a book, so `BookInv` describes it: of the five entries the
first are stored with the message's number and the rest are what `writes` holds.

Only model-checked: the liveness properties (`EveryMessagePublished`,
`TaskEndsAfterClose`, `WantedIsDelivered`, `ClosedFeedEndsTask`, `LockIsReleased`,
`QueueDrains`, `ArrivedIsPublished`, `MessagesAreRequested`, `ClosedRxEndsRun`),
which speak of fairness and so of
`ENABLED`, out of the prover's reach. Every other property of a passing run is a
theorem, and so is the refinement of every abstract specification.

## 5. Not modelled

Which numbers convert to decimals and what they become (that a conversion can
fail is modelled), the quotes computed and dropped by the handler, its `todo!()`
arms for messages nobody sends, the fields of the ccxt records, logging, payload
texts. Panics on a poisoned lock: no code panics while holding one. The
`todo!()` methods of the traits, which nothing calls, and hyperliquid's
`get_portfolio`, which returns the empty portfolio `new` stored. Most of the
configuration is read by nobody or passed through; the type declarations of
`ccxt.rs` and `exchange.rs`, the containers and the dashboards have no behaviour
of their own.

## 6. Plan

Done: the order-book task, the channels with trades and their repetition, the
subaccount task, the native and redis stores, start-up and handler, hyperliquid's
listener and the MQTT publisher, each with its proofs. What could follow:

1. A composition of the order-book task with the channel and a watcher that
   implements an end-to-end version of `BookMirror`.
