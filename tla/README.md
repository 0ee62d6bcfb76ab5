# Verification of oml-aggr-mcp

TLA+ models of the market data aggregator in `src/` (Go), TLC configurations
that check them on small instances, and TLAPS proofs of the properties that
matter most for every value of the constants.

## 1. The system

| Component | Source | State | Operations |
|---|---|---|---|
| Connectors (13 exchanges; `cmd/mcp-hub` registers 16, one for each exchange or market of one) | `internal/exchange/*.go` | socket(s), order books, runtime status, backoff | `Run`, `connectAndStream`, message handlers, `EmitOrderbookSnapshot` |
| Hub | `internal/hub/hub.go` | ring of trades, `tradeBuf`, `liquidationBuf`, context, wait group | `handleTrade`, `handleLiquidation`, `handleOrderbookSnapshot`, `handleMarketStat`, `snapshotLoop`, `flushLoop`, `Start`, `Stop` |
| Ring of recent trades | `internal/buffer/ring.go` | array, head, size | `Push`, `Recent`, `Range`, `Filter`, `RecentFiltered` |
| WebSocket hub | `internal/ws/hub.go` | clients, channels, subscriptions | `loop`, `ServeWS`, `readPump`, `writePump`, `Broadcast`, `Stop` |
| Metrics | `internal/metrics/*.go` | sliding windows per exchange and global | `RecordTrade`, `RecordLiquidation`, `SnapshotAll` |
| Order book registry | `internal/orderbook/*.go` | one book per exchange and pair | `ApplySnapshot`, `ApplyDelta`, `GetState` |
| Store | `internal/store/*.go` | TimescaleDB tables, connection pool | inserts, queries, migrations |
| Monitoring, status | `internal/monitoring/service.go`, `internal/hub/status.go` | nothing of their own | classification of the age of the last message |
| REST server | `internal/api/server.go` | none | one handler per route |
| MCP servers | `internal/mcp/*.go`, `cmd/mcp-stdio` | sessions with their event channels | `handleSSE`, `handleMessage`, the stdio loop |
| Computations | `internal/compute/*.go` | none | footprint candles, heatmap |
| Configuration, entry points | `internal/config/*.go`, `cmd/*` | constants | wiring, shutdown order |

How they interact: every socket loop of a connector is a goroutine that calls
the hub's handlers synchronously. A handler pushes to the ring, appends to a
buffer, records metrics and offers a message to the WebSocket hub; each of
these is a critical section of its own. `flushLoop` is the only goroutine that
empties the buffers, once a second and once more at the cancellation.
`snapshotLoop` asks every connector for its books once a second and calls
`handleOrderbookSnapshot`. The REST and MCP servers read ring, metrics, registry and
database. `main` stops the hub, the WebSocket hub and then the servers.

What is hard here: appends that race with take, insert and requeue; inserts
that fail, fail in the middle, or commit and lose their acknowledgement;
goroutines that outlive the `Run` that started them; a cancelled context used by the
last flush; channels that drop when full and are closed by one goroutine while
others send; writes and mutexes that block on a slow peer; state shared by
the loops of one connector; two goroutines that write to one connection; arrays
that wrap around. `PROJECT.json` lists each
of them under `hazards` with its line and the properties that cover it.

What makes each component correct:

* Hub: an accepted event is stored at least once, in order, and exactly once
  unless an acknowledgement was lost; metrics and live subscribers are never ahead
  of the buffers, the ring only by the trades in hand; `Stop` returns.
* Ring: the readers see the last `capacity` pushes, newest first.
* WebSocket hub: no send on a closed channel; an ordered, possibly lossy feed;
  subscriptions respected; clients that are gone are released, slow ones dropped.
* Connectors: every lost connection is dialled again with delays that double up
  to 30 seconds, the status tells the truth, a connection has one writer at a
  time, the cancellation ends all loops and goroutines.
* Order books: the book of a connector is the exchange's as of some moment and
  only moves forward, as long as no snapshot of it is ignored; the registry's is the
  same, rounded; both catch up; what the table stores and what the registry answers
  agree where both sides have levels.
* Metrics: pruning cannot be seen; what a snapshot counts for an exchange it
  counts for all; readers keep no recorder waiting for ever.
* Message handlers: every trade they hand on is one the table takes, has the name
  it is to have, the market type, notional and side that were traded, comes once and in
  order; no sound trade is lost to a bad one in the same message.
* MCP sessions: an accepted request is answered once, on its own stream, from rows
  that are up to date; blocked answers keep no connection of the pool; after the
  signal the process ends.

## 2. Modules

| Module | What it is |
|---|---|
| `DurableLog`, `RecentLog`, `LossyFeed`, `LaggingCopy` | abstract specifications: a durable log behind a buffer, the last pushes of a ring, a lossy and ordered feed, a copy of somebody's data that only moves forward |
| `TradePipeline`, `MCTradePipeline`, `TradePipeline_proofs` | handlers, buffers, flush, retry and shutdown of the hub |
| `RingBuffer`, `RingBuffer_proofs` | the ring as an array, and its readers |
| `WsHub`, `MCWsHub`, `WsHub_proofs` | the WebSocket hub with its clients and their connections |
| `Connector`, `MCConnector`, `Connector_proofs` | socket loops, goroutines that ping, backoff and runtime status |
| `OrderBooks`, `MCOrderBooks`, `OrderBooks_proofs` | an order book from the exchange over connector and snapshot loop to table and registry |
| `Metrics`, `MCMetrics`, `Metrics_proofs` | the sliding windows, their recorders and readers |
| `Handlers` | a function of one item of a venue: what each of the sixteen registered handlers makes of it |
| `Feeds`, `MCFeeds`, `Feeds_proofs` | a venue, its sessions and messages, and the loop of a handler over their items |
| `McpSessions`, `MCMcpSessions`, `McpSessions_proofs` | event streams, requests, tool queries, the pool they share with the hub, and the shutdown |

How they fit together: `Feeds` ends where a row is handed to the hub, there
`TradePipeline` begins with `Receive`; `RecordMetrics` is the recorder of
`Metrics`, `OfferBroadcast` the caller of `Broadcast` in `WsHub`, `PushRing` the push of
`RingBuffer`. The state these share is one variable of each side, and each side states
what the other relies on: the ring is `RecentLog`, a broadcast never blocks, a record
returns, a row is insertable. `Connector` has the sessions that `Feeds` and `OrderBooks`
dial and lose. `McpSessions` has the pool through which `TradePipeline` and `OrderBooks` insert,
with the hub as one client of it.

### TradePipeline

A critical section of the code is one action. A source (a goroutine that reads
a socket) goes through `Receive`, `PushRing` (trades only), `AppendBuffer`,
`RecordMetrics`, `OfferBroadcast` and back; `Leave` is its read loop seeing the
cancellation. `flushLoop` goes through `WakeOnTick` or `WakeOnDone`, and for
trades and then liquidations through `TakeBuffer`, `AcquireConnection`, an
insert (`InsertSucceeds`, `InsertFails`, `InsertUnacknowledged`) and perhaps
`Requeue`. All trades are one `COPY`; liquidations are inserted one at a time,
and `Chunk` is what one call inserts. `Cancel` and `StopReturns` are the two
lines of `Stop`; a source in `Detached` is a group goroutine of Bybit or Kraken
that `Stop` does not wait for. `DatabaseChanges` lets the database come and go.
An event is a record of its source, its number there and its kind; prices
and quantities do not matter here. `ring` is the abstract log of `RecentLog`,
which `RingBuffer` implements. `accepted`, `confirmed` and `rows` are
observers: what was appended, what an insert confirmed, what the tables hold.
The ring is pushed before the append (`hub.go:97`, `99`), so `/trades/recent` may show
a trade the buffer has not got yet; `ObservedIsAccepted` says that it shows no other.
Of the store the model keeps that a call fails at once when its context is
cancelled (the connection pool looks at the context first), and that an error
may hide a commit.

### RingBuffer

The array, `head` and `size` of `ring.go`. Every method holds the mutex, so each is
one step. The readers are operators with the code's index arithmetic; the loop
that `Filter` and `RecentFiltered` share with `/trades/recent` (`TradesRecent`) is
`Scan`, a recursive function. `Newest`, the array read backwards from the head, is the
refinement mapping to `RecentLog`. What that promises its readers is not a loop but a
relation: `Answers` says where each match stands in the answer.

### WsHub

The loop receives from three channels: an unbuffered send and its receive are
one action (`Register`, `Unregister`). `readPump` and `writePump` of a client
advance separately; `c.mu` is held exactly while `writePump` is at `writing`. Of
the connection the model keeps what `gorilla/websocket` does: a deadline
stays until it is set again, a failed write makes all later ones fail,
and `Close` ends a blocked write. A peer reads, has stalled, or is gone.

A message goes to a client whose subscriptions name its type (`Subscribed`). The
hub broadcasts trades with the type `trade` (`hub/hub.go:116`), while `PLAN.md:286` and
`287` name the channel `trades`: a client that subscribes to that gets no trade.
No run is spent on it.

### Connector

A record for every connector (`Binance` .. `OKX`) says what it does and others do
not: whether `Run` is itself the loop of its only group (`own`) or the groups have
goroutines that `Run` does not wait for (Bybit, Kraken); whether requests are
written before `MarkConnected`; whether a request that fails is marked; whether a
goroutine pings every connection; whether `handleMessage` writes. `Init` picks a
connector and its groups.

A loop goes through `Iterate`, `DialSucceeds` or `DialFails`, `SubscribeSucceeds` or
`SubscribeFails`, then `Check`, `ReadSucceeds`, `Handle` in turn until
`ReadFails`, then `Schedule` and `Wait`. The runtime status of `runtime.go` and the
backoff of `backoff.go` are shared by the loops, each `Mark...` method being one
critical section. Delays are counted in seconds; the passing of time is not
modelled.

`pinger` is the goroutine that pings the present connection of a group
(`pingLoop`, `heartbeatLoop`). When the connection closes nobody tells it: it
counts in `stale` until its next ping fails. Writing takes time
(`PingBegins` to `PingEnds`, `AnswerBegins` to `AnswerEnds`, the place
`subscribing`), so two goroutines can be at it (`Writers`). `gorilla/websocket` then panics if it notices
(`Panic`); no goroutine has a `recover`, so that ends the process.

### OrderBooks

One book of one connector (the books share no state), its exchange, and the
way to `/orderbook/current`. The exchange changes its book (`ExchangeMoves`) and
sends what its convention says: a `Feed` has snapshots, deltas, deltas of one level
each (Bitfinex), tickers. `Connected`, `Lose` and `Leave` are the socket; what is on
the wire is lost with it, and the connector's book stays. `ReadSnapshot` replaces
the book, unless it is an empty one of Bitfinex (`Ignored`, `bitfinex.go:243`): then the
levels of before stay, and `astray` observes that the book is no version of the exchange's
until the next snapshot with levels. `ReadDelta` sets and deletes levels; `ReadStat` keeps the read
loop in an insert until `StatReturns`. `EmitOrderbookSnapshot` copies the levels
under the lock; `InsertReturns` and `ApplySnapshot` are the rest of
`handleOrderbookSnapshot`, the insert into the table and the registry.

A book is a quantity for every side and price, zero for a level that is not
there. Prices are numbers of the exchange's own step, because rounding them to the
tick matters: of several quantities that meet at a rounded price the
registry keeps one, in the order of a Go map (`RoundedFrom`). A message carries
the number of the version it was made from; `bookAt`, `emittedAt` and `registryAt`
are observers of those numbers. An exchange never sends a book whose best bid
is not below its best ask (`Uncrossed`). That one matters: Bitfinex deletes a price on both
sides, which is right only if at most one of them has it.

Binance has deltas only, because its connector never fetches a snapshot. For it
`BooksAreCopies` does not hold; see the findings. `summarizeOrderbook` and `Snapshot` are
the two summaries of a book, the first on the emitted levels, the second on the
registry's maps.

### Metrics

The windows of `cvd.go`, trades and liquidations alike, for every exchange and over all.
Each has a lock for one `Add` or `Snapshot`, so these are parts of one step. A
recorder (a socket loop inside `RecordMetrics` of `TradePipeline`) goes through
`RecordGlobal`, `Lookup` and `RecordKey`; a reader (the WebSocket hub or a REST
request) through `Start`, a `Read` for every window and `Return`, holding
`r.mu`, for which `Lookup` waits. An event has the stamp of its exchange, any
`Skew` away from the clock, so a window is in no order; `Prune` is the loop that
drops events up to the first that is not expired. A snapshot is the set of
events it counts: the sums by side are functions of that set. `recorded` and
`cutoffs` are observers.

### Handlers and Feeds

A record for every registered connector says what its handler does and others do not: which
labels of messages it takes, whether a message has one item, whether it is decoded as one
value, which fields are checked, how the side, the market type and the notional are found.
`Markets` is the table of `config/markets.go`. What a venue writes for a side is a `Word`: a
name in some case, a maker's flag, a sign, a number or a letter. `says` and `liqSays` are
the words of the venue, `side` is what the handler reads in one (`Lower`, `FlagSide`,
`SignSide`, `bitstampSide`, `hyperliquidTradeSide`). The words are external: they are what
the handler takes them for, and for the letters of Hyperliquid there is no other evidence in
the repository. `symbol` is the name a row gets: the configured one, with Bitget by way of
`bitgetArgKey` and `marketForArg`, and with Kraken's spot pairs the new name that
`krakenNormalizeSpotPair` makes of it. An item is sound or has one `Defect`; the operators
`IsTraded`, `Trade`, `IsLiquidated` and `Liquidation` are the body of a handler's loop. A
notional is a formula, not a number: the formulas are what the handlers differ in. A name of
a market stands for itself up to case and prefixes.

`Feeds` is the way there. The market deals items (`DealOne`, `DealTwo`); they are sent if
the session has their channel. `Dial`, `Open` and `Lose` are sessions, `Read` is one
`ReadMessage` with the part of `handleMessage` up to its loop, `HandleItem` one round of the
loop. A venue with numbered channels (Bitfinex) gives them numbers anew in each session, any
of those it has for both kinds of channels, while `tradeChanMap` and `bookChanMap` stay;
`strays` observes what goes to a wrong book. A venue may begin a channel with trades it sent
before (`Replays`). `tape` is the truth the rows are compared with, `due` the sound trades
that were read.

### McpSessions

`handleSSE` of a session is at `select` or `writing` (a write blocks while the peer has
stalled), `handleMessage` of a request goes through `Post`, `CallTool` or `Decline`,
`Query`, `SendResponse`. The channel is unique to the session and never closed; the answer
goes into it even if the session has left the map meanwhile. A query waits in the queue of
the pool (`Grant`) behind the inserts of the hub and without a deadline; `Leave` takes it
out when the pool is closed. `Result` is which rows of the table a tool selects: their place
is their time, so the window of a tool (`Since`) begins with a row, and a book is one row. A
heatmap has at most `HeatmapLimit` of them, the newest (`dom_heatmap.go:133`). The tools for
books have no rows without an exchange (`OfExchange`). A body that cannot be decoded is
answered as any other, and so is a call that fails (`Decline`, `Other`). The shutdown is a
sequence of phases: hub, REST server, this server, store. Both servers share one context of
five seconds; `deadline` is that it is done. `http.Server.Shutdown` waits for requests under
way, an open stream is one, and nothing but the deadline ends that wait.

## 3. Runs

| Run | Checks | Bounds |
|---|---|---|
| `trade_pipeline` | types, `Conserved`, `StoredAsAccepted`, `ObservedIsAccepted`, `LastFlushStoresNothing` | two sources (one detached) with 2 and 1 events of either kind, ring of 2, broadcast channel of 1, one lost acknowledgement |
| `trade_pipeline_live` | `BuffersAreLogs` (both refinements of `DurableLog`), `StopTerminates`, `EventuallyStored` | one event for each source |
| `ring_buffer` | types, refinement of `RecentLog`, `ReadersAgree` | ring of 4, three items, any number of pushes |
| `ws_hub` | types, `KnownIsOpen`, refinement of `LossyFeed`, `WrittenWhileSubscribed`, `GoneIsReleased` | one client, two messages, channels of 1 |
| `ws_hub_stuck`, `ws_hub_cut_off` | what the plan promises of slow clients | as `ws_hub` |
| `connector` | types, `StatusTruthful`, `AloneBackoffDoubles`, `OneWriter`, `Recovers`, `CancelEndsLoops` | all connectors; one group with six lost connections, two with three |
| `order_books` | types, `SummariesAgree`, `BooksAreCopies` (both refinements of `LaggingCopy`), `InsertsHoldNothingUp` | the five conventions with snapshots, three prices in two ticks, one quantity, a first book with one ask, two changes among seven books |
| `order_books_deltas` | what the comment says of deltas without a snapshot | Binance, a tick of one, the same book, three changes |
| `metrics` | types, `PruningIsInvisible`, `WithinGlobal`, `RecordsReturn` | two recorders, one reader, one exchange, three events that are expired or will be after the one tick |
| `feeds` | types, `Insertable`, `Faithful`, `OnceInOrder`, `SoundArrive` | all sixteen connectors, up to two pairs of each market type, six kinds of trades and three of liquidations, two items, two sessions, two numbers that both kinds of channels share |
| `mcp_sessions` | types, `AnsweredOnce`, `FreshAnswers`, `EveryoneIsServed`, `SignalEnds` | two streams, one with a fickle client, two requests, one connection in the pool, channels of one event, two markets with one symbol, five rows and a sixth that may come, a heatmap of one row |

Why the bounds are enough. In the pipeline two events of one source and one of another are
the least that show reordering inside and between sources, and with them a buffer can be
taken, appended to and requeued with something on both sides; the proofs cover every other
size. A ring of four has every position of the head before, at and after the wraparound, and
its state space is finite without a bound on the pushes. One WebSocket client suffices
because clients meet only in the map of the loop; two messages are the least that can be out
of order; again the proofs cover any number. Six failures take the delay of a connector with
one socket past its maximum of 30 seconds; with two sockets three failures let each fail
while the other is down, up or waiting, and the proofs cover any number of both. Of three
prices two round to one tick and the third to another, so the books of the run are empty,
one-sided, a tick apart or in one tick, and the best price of a side differs from its other
levels; with two changes a delta can be lost, and one can follow it, and a book can be empty
when a connection comes back. Losses and reconnects are not bounded. With three events of
two stamps a window can hold an expired event behind, between and before others; one tick
makes an event expire between two reads of a reader. The proofs cover every size. Two items
are the least that can stand in one message, be in the wrong order or come twice; with two
sessions and two numbers a number can pass from one pair to another, from a book to trades
and back; the proofs cover any number of items, sessions and channel numbers. In
`mcp_sessions` everything that can be short is one: two requests and the hub compete for one
connection, an answer finds the channel full as soon as the stream has not written the one
before. A snapshot of the other market with the same symbol is the row that makes an answer
out of date, and once it has come the window of the heatmap has more rows than its limit. No
request of the run asks for trades or liquidations: they are cut to their limit by the same
`Latest` as the heatmap, and the proofs cover all tools.

`CHECK_DEADLOCK FALSE` stands in the runs of `WsHub`, `Connector`, `OrderBooks`,
`Feeds` and `McpSessions`: clients are served once and messages, items and sessions are
bounded, the loops of a connector and of its snapshots end at the cancellation, and
the process exits after its signal, so all really stop.

Runs that expect a violation are findings:

* `ws_hub_stuck`: a write to a peer that does not read has no deadline before the
  first ping and holds `c.mu`; a request of that client then blocks `readPump` too
  and the client is never dropped (`ws/hub.go:160`, `177`, `184`; `PLAN.md:286`).
* `ws_hub_cut_off`: the write deadline of a ping is never taken back, so the
  first message later than ten seconds after it fails and the client gets nothing
  any more (`ws/hub.go:201`; `PLAN.md:286`).
* `order_books_deltas`: the Binance connector starts a book from the first delta
  and keeps it over a reconnect; a level removed in between stays and the
  book gets crossed (`binance.go:455`, `456`; `PLAN.md:352`, `425`).

Seen while modelling, and no run of their own:

* Two groups of Bybit or Kraken share one backoff, so the delays of a group do not
  follow the sequence of `PLAN.md:109`. `AloneBackoffDoubles` is about one group.
* Deribit answers a heartbeat from its read loop while its heartbeat goroutine may be
  writing to the same connection (`deribit.go:153`, `167`; `PLAN.md:440`). `OneWriter` leaves
  that out. The connector never asks for heartbeats, so it takes a venue that sends them anyway.
* Liquidations of OKX and Bitget have the side `long` or `short` and are stored, but the
  metrics look for `buy` and `sell` and count none of them (`cvd.go:122`).
* Kraken's futures trades get the time at which they are read, not the venue's (`PLAN.md:105`).
* Where what is replayed is taken, a reconnect may record trades twice; `OnceInOrder` says where not.
* An empty Bitfinex snapshot is ignored (`bitfinex.go:243`): after a reconnect to an empty book the
  levels of the session before stay, and deltas are applied to them, until a snapshot has levels.
* Where a side is empty, the registry's spread is the best ask or minus the best bid, where the row
  has zero (`state.go:93`, `store.go:80`). The depths differ in unit: quantities in the row, prices
  times quantities in the registry.
* Kraken's spot trades are stored under `BTC/USD` and so on, while the configuration and
  `PLAN.md:194` call the pairs `XBT/USD` (`markets.go:54`, `kraken.go:320`): who asks for the
  configured name finds none.
* A trade channel of Bitfinex that is given the number a book had in an earlier session begins
  with an array of trades, and `bookChanMap` makes a book of it (`bitfinex.go:240`).
* A BitMEX liquidation without a size is skipped: `leavesQty` is used only if the size prints as
  an empty text, and an absent one prints as `<nil>` (`bitmex.go:183`).
* `get_heatmap` cuts its window to the newest 5000 rows (`dom_heatmap.go:134`). With a row per level
  and second (`store.go:92`) the default hour has more, and its beginning is missing.
* `encoding/json` matches keys without regard to case: in Binance's trades the key `M` is
  read into the field of `m` too (`binance.go:285`), and the model has the flag as the handler sees it.
* Bybit's markets with `-SPOT` are subscribed to by that name, and the handlers of its tickers and
  liquidations expect a shape the subscribed topics have not.
* `get_footprint` and `get_dom` name columns the table lacks, `get_heatmap` with a market type numbers
  type and limit alike: these always answer an error, where `HANDOFF.md:37` counts eight working tools.
* A body that is not JSON gets its error through the stream and no `202` (`mcp.go:139`).
* When the five seconds are used up by the REST server, the stop of the MCP server returns at once
  without waiting for its requests (`main.go:134`).
* The status of `hub/status.go:24` and that of the monitoring service draw the lines between up,
  degraded and down differently. The service is never started.
* A migration runs statement by statement without a transaction and is recorded afterwards
  (`migrate.go:43`); a crash between the two repeats its statements. No command calls it.

## 4. Fairness

* `TradePipeline`: weak fairness of every handler and of the flush (goroutines
  are scheduled), of the ticker, and of `StopReturns`; a blocked read ends at
  its deadline, hence `Leave`; strong fairness of `WakeOnDone`, because `select`
  chooses at random among its ready cases. Nothing is assumed of the exchanges, the
  operator or the database; `EventuallyStored` has the health of the database as
  its premise.
* `WsHub`: weak fairness of the loop and the pumps, strong fairness where a mutex or
  a `select` has several candidates. A write ends when the peer reads or when it
  must fail; a write to a stalled peer may block for ever. A read of a peer that
  does not read ends at the read deadline because no pong comes.
* `Connector`: weak fairness of every loop: a dial and a read have a time limit, a delay
  passes, and the few requests fit into the buffers of a socket, so writing them
  ends. A goroutine that pings ends when it sees the cancellation or, its
  connection closed, at its next ping; a ping on an open connection need not end.
* `OrderBooks`: weak fairness of the read loop, of the ticker and of the registry.
  An insert may take for ever; it ends once the context is cancelled, because the store then
  returns an error, and the properties about catching up have inserts that return
  as their premise. Strong fairness of `SnapshotLoopReturns` (`select` chooses
  at random) and of `Leave` (the loop looks at its context between any two
  reads, and a read ends at its deadline). Nothing is assumed of the exchange or of
  the network: a connection need never come up.
* `Metrics`: weak fairness of goroutines that can run, and strong fairness of `Lookup`,
  because `sync.RWMutex` lets a writer that waits go before readers that come later.
  Nobody has to record or to read.
* `Feeds` states safety only: `SoundArrive` says that what was read is recorded or still
  in the loop, and `Connector` has the liveness of the loops.
* `McpSessions`: weak fairness of the goroutines of streams and requests, of the pool handing on a free
  connection, of a statement ending, and of five seconds passing. A write ends if the
  peer reads or is gone. Nothing is assumed of the clients, the REST server (it stops at the deadline
  at the latest) or the sender of the signal. The answer of a request is promised while its
  client reads; a request whose channel nobody empties may hang for ever, as it does in the code.

## 5. Proofs

| Theorem | Statement |
|---|---|
| `TradePipeline_proofs!TypeCorrect`, `NothingIsLost`, `RowsAreAccepted`, `ObserversAreBehind`, `LastFlushIsVain` | `TypeOK`, `Conserved`, `StoredAsAccepted`, `ObservedIsAccepted`, `LastFlushStoresNothing` |
| `TradePipeline_proofs!BuffersImplementLogs` | `BuffersAreLogs`, the two refinements of `DurableLog` |
| `RingBuffer_proofs!TypeCorrect`, `ArrayImplementsLog`, `ReadersAlwaysAgree` | `TypeOK`, the refinement of `RecentLog`, `ReadersAgree` |
| `RingBuffer_proofs!ReadersAnswer` | the same of the readers for all integers they may be called with |
| `WsHub_proofs!TypeCorrect`, `ChannelsAreSafe`, `SubscriptionIsRespected`, `HubImplementsFeed` | `TypeOK`, `KnownIsOpen`, `WrittenWhileSubscribed`, the refinement of `LossyFeed` |
| `Connector_proofs!TypeCorrect`, `StatusIsTruthful`, `AloneDoubles`, `WritersAreSerial` | `TypeOK`, `StatusTruthful`, `AloneBackoffDoubles`, `OneWriter` |
| `Connector_proofs!CancelledDescend` | `CancelledLoopsDescend`: after the cancellation a loop takes five steps at most |
| `OrderBooks_proofs!TypeCorrect`, `BooksCopied` | `TypeOK` and `BooksAreCopies`, the refinements of `LaggingCopy` by the connector's book and by the registry's |
| `OrderBooks_proofs!LevelsWereThere` | `LevelsAreOfExchange`: every level of book, emitted snapshot and registry is one the exchange had |
| `OrderBooks_proofs!DeltaApplies` | a delta, Bitfinex's as well, makes of the book it was made from the book it was made for |
| `OrderBooks_proofs!SummariesCorrect` | `SummariesAgree` |
| `Metrics_proofs!TypeCorrect`, `PruningInvisible`, `CountedWithinGlobal` | `TypeOK`, `PruningIsInvisible`, `WithinGlobal` |
| `Feeds_proofs!Types`, `RowsAreInsertable`, `RowsAreFaithful`, `RowsComeOnceInOrder`, `SoundTradesArrive` | `TypeOK`, `Insertable`, `Faithful`, `OnceInOrder`, `SoundArrive` |
| `McpSessions_proofs!TypeCorrect`, `EveryAnswerOnce`, `AnswersAreFresh` | `TypeOK`, `AnsweredOnce`, `FreshAnswers` |

They assume what the modules assume of their constants (`PipelineAssumption`,
`RingAssumption`, `WsAssumption`, `BooksAssumption`, `FirstBooksAssumption`,
`MetricsAssumption`, `ConnectorAssumption`, `FeedsAssumption`, `McpAssumption`) and no
fairness. `BooksCopied` assumes as well that every convention has snapshots, which Binance's
has not; `LevelsWereThere` does not assume it, and says what is left for Binance: the levels
its book keeps by mistake were the exchange's once. `SummariesCorrect` assumes in addition
that there is a highest price.

*Pipeline.* `Conserved` alone is not inductive: that a requeue restores the order
needs that the slice is empty outside a flush, and of the other kind always
(`SliceHeld`); that the last flush stores nothing needs that it begins after
the cancellation and never reaches the insert (`LastFlushCancelled`); the order of
the rows needs that what a source appends next is newer than all it
appended (`AppendedInOrder`) and that rows and confirmed events agree while no
acknowledgement was lost (`RowsConfirmed`). `IInv` is their conjunction. That the
rows are the accepted events (`StoredAsAccepted`) adds how often each occurs. `CopiesAreDue`:
a row is in its table as often as it was confirmed and, at most, once more for every lost
acknowledgement. An occurrence in a concatenation is one in either part, which a
bijection between the places shows (`OccursConcat`); an event is confirmed or held once, as the
reading order of its source is strict (`OccursOnce`, `PartOfLog`). That the
observers are behind has invariants of its own: a source counts up to what
it appended or the one before, and a trade that is about to be appended is in the ring
(`ObservedInv`); a trade in the ring that is not appended is in hand (`HandInv`). A commit
maps to `Commit(n)` or `CommitUnacknowledged(n)` of the log with `n` the length of
the chunk, by the associativity of concatenation.

*Ring.* `FilledBehindHead` is inductive together with `TypeOK`; the
step lemma says what `Behind(i)` is after a push, from which the array read
backwards is the pushed log. That the loop of the readers finds the matches in turn, and stops
at its target, would be an induction over the items; it is shown by the least number of
items after which the loop has found something else, which does not exist.

*WebSocket hub.* The feed needs that the numbers grow from what was delivered over what
the pump holds and what its channel holds to what the loop has not
dispatched (`NumbersGrow`); the subscription needs `WritingSubscribed`; the
closed channels follow from where each `readPump` is.

*Connectors.* `StatusTruthful` is inductive once it is known that no loop moves before
`Run` (`LoopsFollowRun`): a session begins with `MarkConnected` and ends with
`MarkDisconnected` or with the cancellation, and a loop that goes on failing only
sets what already is set. The delays need that a loop which is alone has the whole backoff to
itself, so that it counts that loop's failures (`BackoffIsMine`), and that `Next`
takes the delay after n failures to that after n + 1 (`NextIsExpected`). One
writer needs that a goroutine pings only inside a session (`PingsInSession`). That a
cancelled loop ends is liveness and stays with TLC (`CancelEndsLoops`); `CancelledLoopsDescend`
is its safety half for any groups and any number of losses: no place comes back, so
fairness is all that is left to ask.

*Order books.* That a book is a copy needs that what is on the wire follows it
(`WireFollows`): the numbers grow from that of the book (`Ordered`), every
delta comes directly after the version it was made from (`Linked`), and on a
connection that is up the last message is that of the exchange's last
version, or the book is there already (`Reaches`), without which the next
delta would not be `Linked`. A connection that comes up satisfies all of it with its one
snapshot, whatever the book holds from before. With `VersionsUncrossed` the
lemma `DeltaApplies` then gives `CopiesExact`: book and emitted levels are the
versions that the observers name, unless they are astray, as which a book begins with an
ignored snapshot and ends with the next one that is not. `IInv` is the conjunction with `TypeOK`.
The levels of any convention, snapshots or not, need less: each level on the wire was
the exchange's in a version up to that of its message, and no version is taken back
(`VersionsStay`; `BookMovesOn`, `BookHad`, `EmittedHad`, `RegistryHad`).
The summaries agree because rounding keeps the order of prices, so the best
price of the registry is the rounded best price of the levels.

*Metrics.* `LastAreHeld`, a part of `PruningIsInvisible`, is inductive with `TypeOK`: a prune takes a prefix
of expired events off (`PruneDrops`, `LeftAdd`), and what expired stays expired. From it
follows that a snapshot counts all that was ever added and has not expired
(`SnapshotsExact`). That
the trades of an exchange are among all is not inductive. It needs that an event
is in the window over all first (`GlobalFirst`) and, for a reader that has looked at
that window, that it counted everything fresh which is in the window of an exchange or
belongs to a recorder past its lookup (`AllTradesCounted`); no recorder gets
there later, because the reader holds `r.mu`. Liquidations are read in the
other order: what is counted was added (`CountedWasAdded`), hence is in the window
over all when that is read last (`LiquidationsLast`), unless it expired.

*Handlers.* What the handlers do is a finite table, read line by line (`Conventions`):
market type and notional are those of the configuration and of `PLAN.md` (`Labelled`), the
name is the configured one or Kraken's new one (`Stored`), and the words of the venue are
decoded into the side they stand for, with a side for every item that is not skipped
(`Reads`). The rest is the way of an item. That a row is about its item needs that
everything on the wire and in the loop is the tape's (`TruthInv`), and with numbered
channels that whatever the maps keep of earlier sessions, the number of a channel is read
again before anything else of that channel (`ConfirmInv`), for which numbers must be unique
within a session (`SessionInv`). That nothing but the first array of a trade channel strays
needs that the number of an open book is its own in `bookChanMap`, and that in the first
session the map has no other numbers (`StrayInv`). Order needs that rows, loop and wire
follow one another (`OrderInv`), arrival that what is due is a row or in the loop
(`DueInv`).

*MCP sessions.* That every answer comes once needs that a stream which has not begun was
sent nothing (`Opened`) and that a request under way names a session whose endpoint has been
written (`Underway`), else its answer would be the first event. The queue of the pool holds everybody
once (`QueuedOnce`), so whoever leaves it is gone from it, and what is held is finite
(`PoolInv`); `IInv` is the conjunction with the types. `FreshAnswers` is about one step, and
`ResultSound` is the lemma behind it, one for each tool. That a limit cuts off only rows with
enough newer ones is counted from the newest row downwards: the least n for which the n
newest rows are wrong is shown not to exist (`TopHolds`, `LimitCuts`), as induction
is out of reach. For the latest book it is needed that exchange and symbol determine the
market type (`OneType`), because the newest time is looked up without it; `McpAssumption` states
that of the markets, and `config/markets.go` satisfies it.

Only model-checked: liveness, as fairness and `ENABLED` are out of the prover's
reach (`StopTerminates`, `EventuallyStored`, `GoneIsReleased`, `Recovers`, `CancelEndsLoops`,
`InsertsHoldNothingUp`, `RecordsReturn`, `EveryoneIsServed`, `SignalEnds`). Every other
property of the passing runs is a theorem.

## 6. Plan

In this order, the most important first:

1. *Done:* `TradePipeline`, `RingBuffer`, `WsHub`, `Connector`, `OrderBooks`,
   `Metrics`, with proofs of their safety properties.
2. *Done:* `Handlers` and `Feeds`, with the channel numbers of Bitfinex after a
   reconnect and what the tables accept, and proofs of all five properties.
3. *Done:* `McpSessions`, with the queries behind the tools and the shutdown of
   `cmd/mcp-hub`.
4. *Done:* proofs of `AnsweredOnce` and `FreshAnswers` of `McpSessions`.
5. *Done:* proofs of the readers of the ring, of the copies in the tables, of exact
   snapshots, of the levels of any order book, of the end of cancelled loops.
6. Code that remains: the tickers and funding messages as market statistics;
   a migration with a crash between its statements, should a command come to call it.

## 7. Not modelled

* Payload formats, SQL queries, logging; trade prices and quantities as numbers.
* Goroutine panics other than that of two concurrent writers; the passing of time
  as a quantity (timeouts are choices).
* The depths and the cut to the top levels in the summaries of a book.
* Tickers and funding messages, which become market statistics (as inserts they are in
  `OrderBooks`, `ReadStat`); the fallbacks in them are per field and concern no other state.
* The arithmetic of the heatmap on the rows of one answer, `get_cvd`, the durations of its
  arguments; footprint and DOM, whose statements the database refuses.
* `mcp/stdio.go`, one loop that answers each line from one HTTP request and has no state;
  `mcp/server.go`, which no command starts.
* Migrations, which no command runs; the schema is taken as the files under `migrations` give it.
* A signal so early that a server has not been started (`m.srv` is still nil).
* The monitoring service, `Registry.Start` and `Registry.ApplyDelta`, which `main`
  never reaches, and `Disconnect` of the connectors, which only `cmd/test` calls.
