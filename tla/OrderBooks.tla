----------------------------- MODULE OrderBooks -----------------------------
(***************************************************************************)
(* The way of an order book: from the exchange over the socket to the book *)
(* of a connector (internal/exchange), from there once a second through    *)
(* snapshotLoop and handleOrderbookSnapshot (internal/hub/hub.go) to the   *)
(* table orderbook_snapshots and to the registry that answers              *)
(* /orderbook/current (internal/orderbook).                                *)
(*                                                                         *)
(* One book of one connector: the books share no state. The messages carry *)
(* the number of the exchange's version they were made from.               *)
(***************************************************************************)
EXTENDS Integers, Sequences, FiniteSets, FiniteSetsExt

CONSTANTS
  Price,        \* prices of the exchange, in units of its own step
  Qty,          \* quantities of a level that is there
  TickSize,     \* the tick of EmitOrderbookSnapshot, in the same units
  Feeds,        \* the conventions of the connectors looked at
  Books,        \* bound: the books the exchange may have
  FirstBooks,   \* bound: those it may start with
  MaxChanges    \* bound: how often the exchange's book changes

(* What an exchange sends and its connector handles: a snapshot when it is *)
(* subscribed to and perhaps later, deltas, deltas of one level each,      *)
(* tickers that become market stats.                                       *)
Feed ==
  {f \in [snapshot : BOOLEAN, delta : BOOLEAN, single : BOOLEAN, stats : BOOLEAN] :
     f.snapshot \/ f.delta}

ASSUME BooksAssumption ==
  /\ Price \subseteq Nat \ {0}
  /\ Qty \subseteq Nat \ {0}
  /\ TickSize \in Nat \ {0}
  /\ \A p \in Price : 2 * p >= TickSize   \* the markets are all of bitcoin
  /\ Feeds \subseteq Feed
  /\ MaxChanges \in Nat

Bybit ==
  [snapshot |-> TRUE, delta |-> TRUE, single |-> FALSE, stats |-> TRUE]
OKX ==
  [snapshot |-> TRUE, delta |-> TRUE, single |-> FALSE, stats |-> TRUE]
Bitget ==
  [snapshot |-> TRUE, delta |-> TRUE, single |-> FALSE, stats |-> TRUE]
Bitfinex ==
  [snapshot |-> TRUE, delta |-> TRUE, single |-> TRUE, stats |-> FALSE]
Hyperliquid ==
  [snapshot |-> TRUE, delta |-> FALSE, single |-> FALSE, stats |-> TRUE]
Binance ==
  [snapshot |-> FALSE, delta |-> TRUE, single |-> FALSE, stats |-> FALSE]

VARIABLES
  feed,       \* the convention of this connector
  versions,   \* the exchange's book, every version of it
  conn,       \* the socket is "up" or "down"
  wire,       \* messages sent and not yet read
  reader,     \* where the read loop is
  book,       \* the connector's book
  ctxDone,    \* the hub's context is cancelled
  snapshots,  \* where snapshotLoop is
  emitted,    \* the levels EmitOrderbookSnapshot copied
  registry,   \* the registry's book
  \* observers: the version that book, emitted and registry show, and
  \* whether they come from a book whose connector ignored a snapshot
  bookAt, emittedAt, registryAt,
  astray, emittedAstray, registryAstray

exchangeVars == <<feed, versions>>
socketVars == <<conn, wire>>
bookVars == <<book, bookAt, astray>>
emitVars == <<emitted, emittedAt, emittedAstray>>
registryVars == <<registry, registryAt, registryAstray>>
vars == <<exchangeVars, socketVars, reader, bookVars, ctxDone, snapshots,
          emitVars, registryVars>>

-----------------------------------------------------------------------------
(* Books. A quantity of zero means that there is no such level.            *)

Sides == {"bids", "asks"}
Book(P) == [Sides -> [P -> Qty \cup {0}]]
NoLevels(P) == [s \in Sides |-> [p \in P |-> 0]]

Present(b, s) == {p \in DOMAIN b[s] : b[s][p] > 0}

(* The books of a matching engine: every bid is below every ask.           *)
Uncrossed(b) ==
  \A p \in Present(b, "bids"), q \in Present(b, "asks") : p < q

ASSUME ExchangeAssumption ==
  /\ \A b \in Books : b \in Book(Price) /\ Uncrossed(b)
  /\ FirstBooks \subseteq Books

Version(n) == IF n = 0 THEN NoLevels(Price) ELSE versions[n]

(* The levels that a delta from one book to the next names.                *)
Changes(old, new) ==
  {c \in Sides \X Price : old[c[1]][c[2]] # new[c[1]][c[2]]}

(* The handlers of a delta set the levels it names or, when the quantity   *)
(* is zero, delete them.                                                   *)
SetLevels(b, changes, new) ==
  [s \in Sides |-> [p \in Price |->
     IF <<s, p>> \in changes THEN new[s][p] ELSE b[s][p]]]

(* The one of Bitfinex deletes a price on both sides: it is not told which.*)
SetPrices(b, changes, new) ==
  LET deleted == {c[2] : c \in {d \in changes : new[d[1]][d[2]] = 0}}
  IN  [s \in Sides |-> [p \in Price |->
         IF <<s, p>> \in changes THEN new[s][p]
         ELSE IF p \in deleted THEN 0
         ELSE b[s][p]]]

Updated(b, changes, new) ==
  IF feed.single THEN SetPrices(b, changes, new)
  ELSE SetLevels(b, changes, new)

(* math.Round(price / tickSize) * tickSize                                 *)
Rounded(p) == ((2 * p + TickSize) \div (2 * TickSize)) * TickSize
Tick == {Rounded(p) : p \in Price}

(* What the registry may make of the emitted levels: each quantity is put  *)
(* at its rounded price, and of several quantities that meet there the     *)
(* last one stays, in the order of a Go map.                               *)
RoundedFrom(r, b) ==
  \A s \in Sides, t \in Tick :
    LET meeting == {p \in Present(b, s) : Rounded(p) = t}
    IN  IF meeting = {} THEN r[s][t] = 0
        ELSE \E p \in meeting : r[s][t] = b[s][p]

(* (A summary that looks at every level on both sides, as if a level had   *)
(* always a bid and an ask.)                                               *)
summarizeAllLevels(b) ==
  LET prices == {Rounded(p) : p \in Present(b, "bids") \cup Present(b, "asks")}
      bestBid == Max(prices \cup {0})
      bestAsk == IF prices = {} THEN 0 ELSE Min(prices)
  IN  [bestBid |-> bestBid, bestAsk |-> bestAsk,
       spread |-> bestAsk - bestBid, midTwice |-> bestAsk + bestBid]

(* The summary in the row of a snapshot, from the rounded levels.          *)
summarizeOrderbook(b) ==
  LET bids == {Rounded(p) : p \in Present(b, "bids")}
      asks == {Rounded(p) : p \in Present(b, "asks")}
      bestBid == Max(bids \cup {0})
      bestAsk == IF asks = {} THEN 0 ELSE Min(asks)
      both == bestBid > 0 /\ bestAsk > 0
  IN  [bestBid |-> bestBid, bestAsk |-> bestAsk,
       spread |-> IF both THEN bestAsk - bestBid ELSE 0,
       midTwice |-> IF both THEN bestAsk + bestBid ELSE 0]

(* The summary in the registry's answer.                                   *)
Snapshot(r) ==
  LET bestBid == Max(Present(r, "bids") \cup {0})
      bestAsk == IF Present(r, "asks") = {} THEN 0 ELSE Min(Present(r, "asks"))
  IN  [bestBid |-> bestBid, bestAsk |-> bestAsk,
       spread |-> bestAsk - bestBid, midTwice |-> bestAsk + bestBid]

-----------------------------------------------------------------------------
(* The exchange and the network                                            *)

Message == [kind : {"snapshot", "delta", "stat"}, of : 0..(MaxChanges + 1)]

Current == Len(versions)

Init ==
  /\ feed \in Feeds
  /\ \E b \in FirstBooks : versions = <<b>>
  /\ conn = "down"
  /\ wire = <<>>
  /\ reader = "reading"
  /\ book = NoLevels(Price)
  /\ bookAt = 0
  /\ ctxDone = FALSE
  /\ snapshots = "waiting"
  /\ emitted = NoLevels(Price)
  /\ emittedAt = 0
  /\ registry = NoLevels(Tick)
  /\ registryAt = 0
  /\ astray = FALSE /\ emittedAstray = FALSE /\ registryAstray = FALSE

(* The message that tells the change to version n.                         *)
Announced(n) ==
  {m \in [kind : {"snapshot", "delta"}, of : {n}] : feed[m.kind]}

ExchangeMoves ==
  /\ Current <= MaxChanges
  /\ \E b \in Books \ {versions[Current]} :
       /\ feed.single => Cardinality(Changes(versions[Current], b)) = 1
       /\ versions' = Append(versions, b)
  /\ IF conn = "up"
       THEN \E m \in Announced(Current + 1) : wire' = Append(wire, m)
       ELSE UNCHANGED wire
  /\ UNCHANGED <<feed, conn, reader, bookVars, ctxDone, snapshots, emitVars,
                 registryVars>>

(* The exchange sends a ticker, whose handler calls OnMarketStat.          *)
SendStat ==
  /\ conn = "up" /\ feed.stats
  /\ \A i \in DOMAIN wire : wire[i].kind # "stat"
  /\ wire' = Append(wire, [kind |-> "stat", of |-> 0])
  /\ UNCHANGED <<exchangeVars, conn, reader, bookVars, ctxDone, snapshots,
                 emitVars, registryVars>>

(* connectAndStream has dialled and subscribed: the books stay as they are.*)
Connected ==
  /\ conn = "down" /\ reader = "reading" /\ ~ctxDone
  /\ conn' = "up"
  /\ wire' = IF feed.snapshot THEN <<[kind |-> "snapshot", of |-> Current]>>
             ELSE <<>>
  /\ UNCHANGED <<exchangeVars, reader, bookVars, ctxDone, snapshots, emitVars,
                 registryVars>>

(* (A loss after which the next connection goes on with unread messages.)  *)
LoseKeepsWire ==
  /\ conn = "up" /\ reader = "reading"
  /\ conn' = "down"
  /\ UNCHANGED <<exchangeVars, wire, reader, bookVars, ctxDone, snapshots,
                 emitVars, registryVars>>

(* A read fails: what was sent and not read is lost with the socket.       *)
Lose ==
  /\ conn = "up" /\ reader = "reading"
  /\ conn' = "down"
  /\ wire' = <<>>
  /\ UNCHANGED <<exchangeVars, reader, bookVars, ctxDone, snapshots, emitVars,
                 registryVars>>

-----------------------------------------------------------------------------
(* The read loop of the connector                                          *)

Reads(kind) ==
  /\ reader = "reading" /\ conn = "up"
  /\ wire # <<>> /\ Head(wire).kind = kind
  /\ wire' = Tail(wire)

(* Bitfinex's handler tells a snapshot from an update by the first element *)
(* of the array, and takes an empty array for neither.                     *)
Ignored(b) == feed.single /\ b = NoLevels(Price)

(* (A handler that sets the levels of a snapshot without a new map.)       *)
ReadSnapshotMerges ==
  /\ Reads("snapshot")
  /\ LET b == versions[Head(wire).of]
     IN  /\ book' = [s \in Sides |-> [p \in Price |->
                       IF b[s][p] > 0 THEN b[s][p] ELSE book[s][p]]]
         /\ astray' = (Ignored(b) /\ book # b)
  /\ bookAt' = Head(wire).of
  /\ UNCHANGED <<exchangeVars, conn, reader, ctxDone, snapshots, emitVars,
                 registryVars>>

(* The levels of a snapshot replace the book, unless it is ignored: then   *)
(* the levels of the connection before stay, and the next deltas are       *)
(* applied to them.                                                        *)
ReadSnapshot ==
  /\ Reads("snapshot")
  /\ LET b == versions[Head(wire).of]
     IN  /\ book' = IF Ignored(b) THEN book ELSE b
         /\ astray' = (Ignored(b) /\ book # b)
  /\ bookAt' = Head(wire).of
  /\ UNCHANGED <<exchangeVars, conn, reader, ctxDone, snapshots, emitVars,
                 registryVars>>

ReadDelta ==
  /\ Reads("delta")
  /\ LET n == Head(wire).of
     IN  /\ book' = Updated(book, Changes(versions[n - 1], versions[n]),
                            versions[n])
         /\ bookAt' = n
  /\ UNCHANGED <<exchangeVars, conn, reader, astray, ctxDone, snapshots,
                 emitVars, registryVars>>

(* handleMarketStat inserts before it returns to the read loop.            *)
ReadStat ==
  /\ Reads("stat")
  /\ reader' = "storing"
  /\ UNCHANGED <<exchangeVars, conn, bookVars, ctxDone, snapshots, emitVars,
                 registryVars>>

StatReturns ==
  /\ reader = "storing"
  /\ reader' = "reading"
  /\ UNCHANGED <<exchangeVars, socketVars, bookVars, ctxDone, snapshots,
                 emitVars, registryVars>>

(* The loop looks at its context between two reads, and a read ends at its *)
(* deadline; the deferred Close drops the connection.                      *)
Leave ==
  /\ reader = "reading" /\ ctxDone
  /\ reader' = "left"
  /\ conn' = "down"
  /\ wire' = <<>>
  /\ UNCHANGED <<exchangeVars, bookVars, ctxDone, snapshots, emitVars,
                 registryVars>>

-----------------------------------------------------------------------------
(* snapshotLoop                                                            *)

(* EmitOrderbookSnapshot copies the levels under the read lock, releases   *)
(* it and calls the hub, which inserts them. Without levels there is       *)
(* nothing to insert.                                                      *)
EmitOrderbookSnapshot ==
  /\ snapshots = "waiting"
  /\ emitted' = book
  /\ emittedAt' = bookAt
  /\ emittedAstray' = astray
  /\ snapshots' = IF book = NoLevels(Price) THEN "stored" ELSE "storing"
  /\ UNCHANGED <<exchangeVars, socketVars, reader, bookVars, ctxDone,
                 registryVars>>

(* (A handler that returns when the insert fails.)                         *)
InsertReturnsEarly(succeeded) ==
  /\ snapshots = "storing"
  /\ snapshots' = IF succeeded THEN "stored" ELSE "waiting"
  /\ UNCHANGED <<exchangeVars, socketVars, reader, bookVars, ctxDone, emitVars,
                 registryVars>>

(* The insert returns. An error is only logged.                            *)
InsertReturns(succeeded) ==
  /\ snapshots = "storing"
  /\ snapshots' = "stored"
  /\ UNCHANGED <<exchangeVars, socketVars, reader, bookVars, ctxDone, emitVars,
                 registryVars>>

(* Registry.ApplySnapshot replaces the book under its lock; then the hub   *)
(* offers the snapshot to the WebSocket clients, which never blocks.       *)
ApplySnapshot ==
  /\ snapshots = "stored"
  /\ \E r \in Book(Tick) : RoundedFrom(r, emitted) /\ registry' = r
  /\ registryAt' = emittedAt
  /\ registryAstray' = emittedAstray
  /\ snapshots' = "waiting"
  /\ UNCHANGED <<exchangeVars, socketVars, reader, bookVars, ctxDone, emitVars>>

SnapshotLoopReturns ==
  /\ snapshots = "waiting" /\ ctxDone
  /\ snapshots' = "returned"
  /\ UNCHANGED <<exchangeVars, socketVars, reader, bookVars, ctxDone, emitVars,
                 registryVars>>

Cancel ==
  /\ ~ctxDone
  /\ ctxDone' = TRUE
  /\ UNCHANGED <<exchangeVars, socketVars, reader, bookVars, snapshots,
                 emitVars, registryVars>>

-----------------------------------------------------------------------------
Read == ReadSnapshot \/ ReadDelta \/ ReadStat

Next ==
  \/ ExchangeMoves \/ SendStat \/ Connected \/ Lose
  \/ Read \/ StatReturns \/ Leave
  \/ EmitOrderbookSnapshot
  \/ \E succeeded \in BOOLEAN : InsertReturns(succeeded)
  \/ ApplySnapshot \/ SnapshotLoopReturns \/ Cancel

(* The goroutines are scheduled and the ticker fires; select chooses at    *)
(* random between ticker and cancellation, and a read loop looks at its    *)
(* context between any two reads. An insert may take for ever unless the   *)
(* context is cancelled: the store returns an error then.                  *)
Fairness ==
  /\ WF_vars(Read)
  /\ WF_vars(EmitOrderbookSnapshot)
  /\ WF_vars(ApplySnapshot)
  /\ WF_vars(ctxDone /\ StatReturns)
  /\ WF_vars(ctxDone /\ \E succeeded \in BOOLEAN : InsertReturns(succeeded))
  /\ SF_vars(SnapshotLoopReturns)
  /\ SF_vars(Leave)

Spec == Init /\ [][Next]_vars /\ Fairness

-----------------------------------------------------------------------------
(* Properties                                                              *)

(* Types and bounds; a socket that is down has nothing to read, and only   *)
(* Bitfinex's book goes astray.                                            *)
TypeOK ==
  /\ feed \in Feeds
  /\ versions \in Seq(Book(Price))
  /\ Current \in 1..(MaxChanges + 1)
  /\ conn \in {"up", "down"}
  /\ wire \in Seq(Message)
  /\ conn = "down" => wire = <<>>
  /\ reader \in {"reading", "storing", "left"}
  /\ book \in Book(Price)
  /\ ctxDone \in BOOLEAN
  /\ snapshots \in {"waiting", "storing", "stored", "returned"}
  /\ emitted \in Book(Price)
  /\ registry \in Book(Tick)
  /\ bookAt \in 0..Current
  /\ emittedAt \in 0..bookAt
  /\ registryAt \in 0..emittedAt
  /\ astray \in BOOLEAN /\ emittedAstray \in BOOLEAN
  /\ registryAstray \in BOOLEAN
  /\ astray \/ emittedAstray \/ registryAstray => feed.single

SameUnlessAstray(c, v) == c.astray \/ c.levels = v
RoundedUnlessAstray(c, v) == c.astray \/ RoundedFrom(c.levels, v)

Copied == INSTANCE LaggingCopy
  WITH Empty <- NoLevels(Price), Picture <- SameUnlessAstray, at <- bookAt,
       copy <- [levels |-> book, astray |-> astray]

Answered == INSTANCE LaggingCopy
  WITH Empty <- NoLevels(Price), Picture <- RoundedUnlessAstray,
       at <- registryAt,
       copy <- [levels |-> registry, astray |-> registryAstray]

(* The book of a connector that is sent snapshots is the exchange's book   *)
(* as of some moment, never of an earlier one than before: whatever was    *)
(* lost with a connection, no level of before stays behind and no change   *)
(* is applied to the wrong book. The one exception is Bitfinex's book      *)
(* between an empty snapshot, which its handler ignores, and the next one  *)
(* that has levels: deltas are then applied to levels of another version.  *)
BookIsCopy == Copied!Spec

(* What /orderbook/current answers is, rounded, the exchange's book as of  *)
(* some moment, and never goes back in time: the levels are copied under   *)
(* the lock while the read loop applies messages, and applied after an     *)
(* insert of any length. A book that has gone astray is excepted.          *)
RegistryIsCopy == Answered!Spec

(* Both of them.                                                           *)
BooksAreCopies == BookIsCopy /\ RegistryIsCopy

(* Whatever a connector is sent and whatever is lost, with Binance's depth *)
(* updates and no snapshot as well: a level in its book, in what was       *)
(* emitted and, at a rounded price, in the registry is one the exchange    *)
(* had, in no later version than the whole is ascribed to. Levels of       *)
(* different versions may stand together.                                  *)
LevelsAreOfExchange ==
  \A s \in Sides :
    /\ \A p \in Price : \E n \in 0..bookAt : book[s][p] = Version(n)[s][p]
    /\ \A p \in Price : \E n \in 0..emittedAt : emitted[s][p] = Version(n)[s][p]
    /\ \A t \in Present(registry, s) :
         \E n \in 0..registryAt : \E p \in Present(Version(n), s) :
           Rounded(p) = t /\ registry[s][t] = Version(n)[s][p]

(* The row in the table and the answer of the registry, two summaries, one *)
(* of the levels, one of the registry's maps, agree on the best prices of  *)
(* a snapshot and, where both sides have levels, on spread and mid price,  *)
(* and the spread is not negative unless the book has gone astray. Where a *)
(* side is empty they differ: the row has neither spread nor mid price,    *)
(* the answer counts the missing price as zero, so that the spread of bids *)
(* alone is negative and the mid price half of the best price.             *)
SummariesAgree ==
  snapshots = "waiting" /\ registryAt > 0 =>
    LET row == summarizeOrderbook(emitted)
        answer == Snapshot(registry)
    IN  /\ row.bestBid = answer.bestBid /\ row.bestAsk = answer.bestAsk
        /\ row.bestBid > 0 /\ row.bestAsk > 0 =>
             row = answer /\ (row.spread >= 0 \/ emittedAstray)
        /\ row.bestBid = 0 \/ row.bestAsk = 0 =>
             /\ row.spread = 0 /\ row.midTwice = 0
             /\ answer.spread \in {row.bestAsk, -row.bestBid}
             /\ answer.midTwice \in {row.bestAsk, row.bestBid}

(* A connector that stays connected has the exchange's last book in the    *)
(* end, if the inserts its read loop waits for return and no snapshot of   *)
(* this connection was ignored.                                            *)
BookCatchesUp ==
  <>[](conn = "up") /\ []<>(reader = "reading") =>
    <>[](astray \/ book = versions[Current])

(* What reaches the book of a connector reaches the registry, if the       *)
(* inserts of snapshotLoop return, even if all of them fail.               *)
RegistryCatchesUp ==
  []<>(snapshots # "storing") =>
    \A n \in 1..(MaxChanges + 1) :
      bookAt >= n ~> registryAt >= n \/ ctxDone

(* The cancellation ends snapshotLoop and the read loop, in the middle of  *)
(* an insert as well.                                                      *)
StopEnds == ctxDone ~> reader = "left" /\ snapshots = "returned"

(* Inserts, however long and whatever their outcome, and lost connections  *)
(* keep neither a book behind for ever nor a loop from its end.            *)
InsertsHoldNothingUp == BookCatchesUp /\ RegistryCatchesUp /\ StopEnds
=============================================================================
