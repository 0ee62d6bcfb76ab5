------------------------------- MODULE Feeds -------------------------------
(***************************************************************************)
(* From the trades of a venue to the rows a connector of internal/exchange *)
(* hands to the hub: the venue deals trades and liquidations in messages,  *)
(* sessions are lost and dialled again, and the message handler works      *)
(* through the items of each message it reads.                             *)
(*                                                                         *)
(* One connector is looked at; Handlers has what each does with an item.   *)
(* The tape is the truth: what was traded, in order.                       *)
(***************************************************************************)
EXTENDS Integers, Sequences, Handlers

CONSTANTS
  Connectors,    \* the connectors that are looked at
  Pairs,         \* the pairs that are traded
  Samples,       \* the kinds of items dealt: [kind, side, defect]
  Numbers,       \* the numbers a venue gives to its channels
  MaxTape,       \* bound: items dealt
  MaxDials,      \* bound: sessions
  MaxWire        \* bound: messages on the wire when the venue sends another

Kind == {"trade", "liquidation"}

ASSUME FeedsAssumption ==
  /\ Connectors \subseteq DOMAIN Handler
  /\ Samples \subseteq [kind : Kind, side : Side, defect : Defect]
  /\ MaxTape \in Nat /\ MaxDials \in Nat /\ MaxWire \in Nat

VARIABLES
  \* venue
  name,          \* which connector it is
  replays,       \* the venue begins a channel with trades it dealt before
  tape,          \* what was traded
  numbers,       \* the number of each channel of this session
  \* connection
  up,            \* there is a session
  dials,         \* how many sessions there were
  wire,          \* the messages not read yet
  \* connector
  tradeChanMap,  \* pairs by the numbers of trade channels
  bookChanMap,   \* pairs by the numbers of book channels
  batch,         \* what handleMessage still has to look at
  trades,        \* the calls of onTrade
  liqs,          \* the calls of onLiquidation
  \* observer
  due,           \* the sound trades that were read
  strays         \* the channels whose array went to a book that is not theirs

venueVars == <<name, replays, tape, numbers>>
connectionVars == <<up, dials, wire>>
mapVars == <<tradeChanMap, bookChanMap>>
vars == <<venueVars, connectionVars, mapVars, batch, trades, liqs, due, strays>>

-----------------------------------------------------------------------------

conn == Handler[name]

(* The pairs of the connector that are traded.                             *)
Traded == DOMAIN conn.type \cap Pairs

(* A connector without numbers has one channel for each pair, known by the *)
(* pair.                                                                   *)
Channels ==
  [pair : Traded, kind : IF conn.numbered THEN {"trades", "book"} ELSE {"trades"}]
IsOpen(ch) == ch \in DOMAIN numbers
TradesOf(p) == [pair |-> p, kind |-> "trades"]
Empty == [x \in {} |-> x]
Keep(map, n, p) == [m \in DOMAIN map \cup {n} |-> IF m = n THEN p ELSE map[m]]

Init ==
  /\ name \in Connectors
  /\ replays \in BOOLEAN
  /\ tape = <<>>
  /\ numbers = Empty
  /\ up = FALSE
  /\ dials = 0
  /\ wire = <<>>
  /\ tradeChanMap = Empty
  /\ bookChanMap = Empty
  /\ batch = <<>>
  /\ trades = <<>>
  /\ liqs = <<>>
  /\ due = {}
  /\ strays = {}

-----------------------------------------------------------------------------
(* The venue and the connection                                            *)

Message(label, ch, items) ==
  [label |-> label, channel |-> ch, number |-> numbers[ch], items |-> items]

Item(id, p, sample, word) ==
  [id |-> id, kind |-> sample.kind, pair |-> p, side |-> sample.side, word |-> word,
   defect |-> sample.defect]

(* The words a venue may write in an item: none where it has no such item. *)
WordsFor(sample) ==
  IF sample.kind = "trade" \/ conn.liquidations # "none"
    THEN WordsOf(conn, sample.kind, sample.side, sample.defect) ELSE {}

(* Whether a message can have both items.                                  *)
Fit(e, f) == ~conn.single /\ e.kind = f.kind /\ (conn.enveloped => e.pair = f.pair)

(* The venue sends the items that were just traded. One with numbered      *)
(* channels announces each before it sends it.                             *)
Send(items) ==
  LET ch == TradesOf(items[1].pair)
      live == Message("live", ch, items)
  IN wire' = wire \o
       (IF conn.numbered THEN <<Message("announced", ch, items), live>> ELSE <<live>>)

(* The items of a trade happen whether there is a session or not.          *)
Deal(items) ==
  /\ tape' = tape \o items
  /\ IF up /\ \A i \in DOMAIN items : IsOpen(TradesOf(items[i].pair))
       THEN Send(items) ELSE UNCHANGED wire
  /\ UNCHANGED <<name, replays, numbers, up, dials, mapVars, batch, trades, liqs, due, strays>>

DealOne ==
  /\ Len(tape) < MaxTape /\ Len(wire) <= MaxWire
  /\ \E p \in Traded, s \in Samples : \E w \in WordsFor(s) :
       Deal(<<Item(Len(tape) + 1, p, s, w)>>)

DealTwo ==
  /\ Len(tape) + 1 < MaxTape /\ Len(wire) <= MaxWire
  /\ \E p, q \in Traded, s, t \in Samples :
       \E w \in WordsFor(s), x \in WordsFor(t) :
         LET e == Item(Len(tape) + 1, p, s, w)
             f == Item(Len(tape) + 2, q, t, x)
         IN Fit(e, f) /\ Deal(<<e, f>>)

(* connectAndStream dials and requests the channels.                       *)
Dial ==
  /\ ~up
  /\ dials < MaxDials
  /\ batch = <<>>
  /\ up' = TRUE
  /\ dials' = dials + 1
  /\ UNCHANGED <<venueVars, wire, mapVars, batch, trades, liqs, due, strays>>

(* The numbers a channel can be given, and those that are not in use.      *)
NumbersOf(ch) == IF conn.numbered THEN Numbers ELSE {ch.pair}

Free(ch) == NumbersOf(ch) \ {numbers[c] : c \in DOMAIN numbers}

(* What may be sent again: the last trade of the pair, as a message of its *)
(* own, or nothing.                                                        *)
Replays(ch, n) ==
  LET past == {i \in DOMAIN tape : tape[i].pair = ch.pair /\ tape[i].kind = "trade"}
      last == {i \in past : \A j \in past : j <= i}
  IN IF replays /\ ch.kind = "trades" /\ past # {}
       THEN {<<[label |-> "replay", channel |-> ch, number |-> n, items |-> <<tape[i]>>]>> : i \in last}
       ELSE {<<>>}

(* The venue answers the request for a channel.                            *)
Open(ch) ==
  /\ up
  /\ ~IsOpen(ch) /\ Len(wire) <= MaxWire
  /\ \E n \in Free(ch) : \E replay \in Replays(ch, n) :
       /\ numbers' = Keep(numbers, ch, n)
       /\ wire' = wire \o
            <<[label |-> "subscribed", channel |-> ch, number |-> n, items |-> <<>>]>>
            \o replay
  /\ UNCHANGED <<name, replays, tape, up, dials, mapVars, batch, trades, liqs, due, strays>>

(* The venue sends a snapshot or an update of a book.                      *)
SendBook(ch) ==
  /\ up
  /\ ch.kind = "book" /\ IsOpen(ch)
  /\ Len(wire) <= MaxWire
  /\ wire' = Append(wire, Message("book", ch, <<>>))
  /\ UNCHANGED <<venueVars, up, dials, mapVars, batch, trades, liqs, due, strays>>

(* The session ends with everything that was not read.                     *)
Lose ==
  /\ up
  /\ up' = FALSE
  /\ numbers' = Empty
  /\ wire' = <<>>
  /\ UNCHANGED <<name, replays, tape, dials, mapVars, batch, trades, liqs, due, strays>>

-----------------------------------------------------------------------------
(* The connector                                                           *)

(* Variant with a defect: a number that is known keeps its pair.           *)
ConfirmedFirst(ch, n) ==
  IF ch.kind = "trades"
    THEN /\ tradeChanMap' = IF n \in DOMAIN tradeChanMap THEN tradeChanMap
                            ELSE Keep(tradeChanMap, n, ch.pair)
         /\ UNCHANGED bookChanMap
    ELSE /\ bookChanMap' = Keep(bookChanMap, n, ch.pair)
         /\ UNCHANGED tradeChanMap

(* The number of a channel is kept, over the sessions.                     *)
Confirmed(ch, n) ==
  IF ch.kind = "trades"
    THEN /\ tradeChanMap' = Keep(tradeChanMap, n, ch.pair)
         /\ UNCHANGED bookChanMap
    ELSE /\ bookChanMap' = Keep(bookChanMap, n, ch.pair)
         /\ UNCHANGED tradeChanMap

(* The items under the pair the handler takes them for.                    *)
Named(msg) ==
  IF conn.numbered
    THEN [i \in DOMAIN msg.items |-> [msg.items[i] EXCEPT !.pair = tradeChanMap[msg.number]]]
    ELSE msg.items

IsGarbled(msg) == \E i \in DOMAIN msg.items : msg.items[i].defect = "garbled"

(* A message decoded as one value is lost with any garbled item.           *)
Lost(msg) == conn.whole /\ IsGarbled(msg)

IsKnown(msg) == conn.numbered => msg.number \in DOMAIN tradeChanMap

SoundTrades(msg) ==
  {msg.items[i].id : i \in {j \in DOMAIN msg.items :
                              msg.items[j].kind = "trade" /\ msg.items[j].defect = "none"}}

(* ReadMessage and handleMessage, up to the loop over the items. An array, *)
(* of whatever channel, goes to the book its number stands for, if any.    *)
Read ==
  /\ wire # <<>>
  /\ batch = <<>>
  /\ wire' = Tail(wire)
  /\ LET msg == Head(wire)
         isArray == msg.label = "book" \/ (conn.numbered /\ msg.label = "replay")
     IN /\ IF conn.numbered /\ msg.label = "subscribed"
             THEN Confirmed(msg.channel, msg.number) ELSE UNCHANGED mapVars
        /\ strays' = IF isArray /\ msg.number \in DOMAIN bookChanMap
                          /\ msg.channel # [pair |-> bookChanMap[msg.number], kind |-> "book"]
                       THEN strays \cup {msg.channel} ELSE strays
        /\ batch' = IF msg.label \in conn.takes /\ IsKnown(msg) /\ ~Lost(msg)
                      THEN Named(msg) ELSE <<>>
        /\ due' = IF msg.label = "live" /\ ~Lost(msg) THEN due \cup SoundTrades(msg) ELSE due
  /\ UNCHANGED <<venueVars, up, dials, trades, liqs>>

(* Variant with a defect: the loop ends with the first item it skips.      *)
RestStops(e) == IF Passes(conn, e) THEN Tail(batch) ELSE <<>>

Rest(e) == Tail(batch)

(* One round of the loop: the item is recorded or skipped.                 *)
HandleItem ==
  /\ batch # <<>>
  /\ LET e == Head(batch) IN
       /\ trades' = IF IsTraded(conn, e) THEN Append(trades, Trade(conn, e)) ELSE trades
       /\ liqs' = IF IsLiquidated(conn, e) THEN Append(liqs, Liquidation(conn, e)) ELSE liqs
       /\ batch' = Rest(e)
  /\ UNCHANGED <<venueVars, connectionVars, mapVars, due, strays>>

Next ==
  \/ DealOne \/ DealTwo
  \/ Dial
  \/ \E ch \in Channels : Open(ch) \/ SendBook(ch)
  \/ Lose
  \/ Read
  \/ HandleItem

Spec == Init /\ [][Next]_vars

-----------------------------------------------------------------------------
(* Properties                                                              *)

Entry ==
  [id : 1..MaxTape, kind : Kind, pair : Traded, side : Side, word : Word, defect : Defect]

Sent ==
  [label : {"live", "announced", "replay", "subscribed", "book"}, channel : Channels,
   number : Numbers \cup Traded, items : Seq(Entry)]

Symbols == {conn.symbol[p] : p \in Traded}

TradeRow ==
  [id : 1..MaxTape, symbol : Symbols, type : MarketType, side : Word,
   quote : Formula, time : {"venue", "now", "1970"}]

LiquidationRow ==
  [id : 1..MaxTape, symbol : Symbols, type : MarketType, side : Word, quote : Formula]

(* Everything under way is made of items of the connector's own pairs; a   *)
(* connector without numbers has empty maps.                               *)
TypeOK ==
  /\ name \in Connectors /\ replays \in BOOLEAN
  /\ tape \in Seq(Entry)
  /\ DOMAIN numbers \subseteq Channels
  /\ \A ch \in DOMAIN numbers : numbers[ch] \in NumbersOf(ch)
  /\ up \in BOOLEAN /\ dials \in 0..MaxDials
  /\ wire \in Seq(Sent)
  /\ DOMAIN tradeChanMap \cup DOMAIN bookChanMap \subseteq Numbers
  /\ \A n \in DOMAIN tradeChanMap : tradeChanMap[n] \in Traded
  /\ \A n \in DOMAIN bookChanMap : bookChanMap[n] \in Traded
  /\ ~conn.numbered => tradeChanMap = Empty /\ bookChanMap = Empty
  /\ batch \in Seq(Entry)
  /\ trades \in Seq(TradeRow)
  /\ liqs \in Seq(LiquidationRow)
  /\ due \subseteq DOMAIN tape

(* Every trade a connector hands to the hub meets the CHECKs of the table  *)
(* trades: one that does not makes the COPY of its whole batch fail, at    *)
(* every retry.                                                            *)
Insertable ==
  \A i \in DOMAIN trades : trades[i].type \in MarketType /\ trades[i].side \in Side

(* The notional in USD, by exchange and pair, as PLAN.md asks for it.      *)
Notional(exchange, p) ==
  CASE p \in {"BTC-USD-SWAP", "BTCUSD_PERP"} -> "qty * 100"
    [] p = "BTC-USDT-SWAP" -> "qty * 0.01 * price"
    [] exchange = "BYBIT" /\ p = "BTCUSD" -> "qty"
    [] p \in {"XBTUSD", "XBT_USDT", "PI_XBTUSD", "BTC-PERPETUAL"} -> "qty"
    [] p = "XBTUSDT" -> "qty * price / 1e6"
    [] OTHER -> "price * qty"

(* The name a row has: the configured one, but for the spot pairs of       *)
(* Kraken.                                                                 *)
StoredAs(p) ==
  IF p = "XBT/USD" THEN "BTC/USD"
  ELSE IF p = "XBT/USDT" THEN "BTC/USDT"
  ELSE IF p = "XBT/USDC" THEN "BTC/USDC" ELSE p

(* What a row says of the market follows from the pair that was traded and *)
(* the configuration.                                                      *)
SameMarket(row) ==
  LET p == tape[row.id].pair IN
  /\ row.symbol = StoredAs(p)
  /\ row.type = Markets[conn.exchange][p]
  /\ row.quote = Notional(conn.exchange, p)

(* An order that sells closes a long position.                             *)
Closed(side) == IF side = "sell" THEN "long" ELSE "short"

(* A row is about the item it came from, in whatever session and under     *)
(* whatever number it was sent: the name, the market type, the notional,   *)
(* the side and the time. The futures feed of Kraken dates a trade itself; *)
(* OKX and Bitget report the side of the position. The arrays of a book go *)
(* to the book of their pair. What a trade channel of Bitfinex begins with *)
(* is an array too: it goes to a book only under a number that an earlier  *)
(* session gave to that book, which bookChanMap never forgets.             *)
Faithful ==
  /\ \A i \in DOMAIN trades :
       LET e == tape[trades[i].id] IN
       /\ SameMarket(trades[i])
       /\ e.defect # "side" => trades[i].side = e.side
       /\ e.defect # "time" /\ conn # KrakenFutures => trades[i].time = "venue"
  /\ \A i \in DOMAIN liqs :
       LET e == tape[liqs[i].id] IN
       /\ SameMarket(liqs[i])
       /\ e.defect # "side" =>
            liqs[i].side = (IF conn.liquidations = "position" THEN Closed(e.side) ELSE e.side)
  /\ \A ch \in strays : ch.kind = "trades" /\ replays /\ dials > 1

(* No trade is recorded twice and none before an earlier one, over all     *)
(* sessions, unless the venue replays trades and the connector takes what  *)
(* is replayed.                                                            *)
OnceInOrder ==
  ~(replays /\ "replay" \in conn.takes) =>
    \A i, j \in DOMAIN trades : i < j => trades[i].id < trades[j].id

(* A sound trade that was read is recorded, whatever the items before and  *)
(* after it in its message are, unless the message is decoded as one value *)
(* and garbled.                                                            *)
SoundArrive ==
  due \subseteq {trades[i].id : i \in DOMAIN trades} \cup {batch[i].id : i \in DOMAIN batch}
=============================================================================
