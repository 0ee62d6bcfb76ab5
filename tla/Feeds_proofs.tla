---------------------------- MODULE Feeds_proofs ----------------------------
(***************************************************************************)
(* Theorems about Feeds, for any set of connectors, pairs and samples, any *)
(* numbers of channels and any bounds.                                     *)
(*                                                                         *)
(* What the handlers do is a table (Handlers); the first lemmas read from  *)
(* it what the proofs need of every connector. The rest is about the way   *)
(* of an item: the tape, the wire, the batch in the loop, the rows.        *)
(***************************************************************************)
EXTENDS Feeds, TLAPS

-----------------------------------------------------------------------------
(* The inductive invariant                                                 *)

(* The venue writes for a side what it writes for it.                      *)
Worded(e) ==
  /\ e.word \in WordsOf(conn, e.kind, e.side, e.defect)
  /\ e.kind = "liquidation" => conn.liquidations # "none"

(* The tape numbers its items.                                             *)
TapeInv ==
  /\ Len(tape) <= MaxTape
  /\ \A i \in DOMAIN tape : tape[i].id = i /\ Worded(tape[i])

(* An item under way is the one of the tape.                               *)
True(e) == e.id \in DOMAIN tape /\ tape[e.id] = e

TruthInv ==
  /\ \A i \in DOMAIN wire : \A k \in DOMAIN wire[i].items : True(wire[i].items[k])
  /\ \A i \in DOMAIN batch : True(batch[i])

(* A message has the number its channel has in this session, and no other  *)
(* channel has it; what has items is a message of the trade channel, and   *)
(* with numbers they are about its pair.                                   *)
SessionInv ==
  /\ \A c, d \in DOMAIN numbers : numbers[c] = numbers[d] => c = d
  /\ \A i \in DOMAIN wire :
       /\ wire[i].channel \in DOMAIN numbers
       /\ wire[i].number = numbers[wire[i].channel]
       /\ wire[i].label = "book" => wire[i].channel.kind = "book"
       /\ wire[i].label \in {"live", "announced", "replay"} => wire[i].channel.kind = "trades"
       /\ conn.numbered => \A k \in DOMAIN wire[i].items :
                             wire[i].items[k].pair = wire[i].channel.pair
       /\ wire[i].label = "replay" => replays

MapOf(kind) == IF kind = "book" THEN bookChanMap ELSE tradeChanMap

(* The connector has the number of this session for the channel.           *)
Known(ch) ==
  /\ numbers[ch] \in DOMAIN MapOf(ch.kind)
  /\ MapOf(ch.kind)[numbers[ch]] = ch.pair

Subscribed(k, ch) == wire[k].label = "subscribed" /\ wire[k].channel = ch

(* It has it already or reads it before anything else of the channel,      *)
(* whatever the maps keep of earlier sessions.                             *)
ConfirmInv ==
  conn.numbered =>
    /\ \A i \in DOMAIN wire :
         \/ wire[i].label = "subscribed"
         \/ Known(wire[i].channel)
         \/ \E k \in 1..(i-1) : Subscribed(k, wire[i].channel)
    /\ \A ch \in DOMAIN numbers : Known(ch) \/ \E k \in DOMAIN wire : Subscribed(k, ch)

(* A row is what the handler makes of an item of the tape.                 *)
RowInv ==
  /\ \A i \in DOMAIN trades :
       /\ trades[i].id \in DOMAIN tape
       /\ IsTraded(conn, tape[trades[i].id])
       /\ trades[i] = Trade(conn, tape[trades[i].id])
  /\ \A i \in DOMAIN liqs :
       /\ liqs[i].id \in DOMAIN tape
       /\ tape[liqs[i].id].kind = "liquidation"
       /\ liqs[i] = Liquidation(conn, tape[liqs[i].id])

(* In the first session the map of books has only numbers of that session. *)
StrayInv ==
  /\ ~up => DOMAIN numbers = {} /\ wire = <<>>
  /\ dials = 0 => ~up /\ DOMAIN bookChanMap = {}
  /\ dials = 1 /\ up =>
       \A n \in DOMAIN bookChanMap :
         \E ch \in DOMAIN numbers : ch.kind = "book" /\ numbers[ch] = n
  /\ \A ch \in strays : ch.kind = "trades" /\ replays /\ dials > 1

DueInv ==
  /\ \A d \in due : tape[d].kind = "trade" /\ tape[d].defect = "none"
  /\ SoundArrive

(* What is recorded, what is in the loop and what is on the wire follow    *)
(* one another.                                                            *)
NoReplays == ~(replays /\ "replay" \in conn.takes)
Taken(i) == wire[i].label \in conn.takes
Increasing(s) == \A i, j \in DOMAIN s : i < j => s[i].id < s[j].id
Before(s, t) == \A i \in DOMAIN s, j \in DOMAIN t : s[i].id < t[j].id

OrderInv ==
  NoReplays =>
    /\ Increasing(trades) /\ Increasing(batch)
    /\ Before(trades, batch)
    /\ \A i \in DOMAIN wire : Taken(i) =>
         /\ Increasing(wire[i].items)
         /\ Before(trades, wire[i].items)
         /\ Before(batch, wire[i].items)
         /\ \A j \in DOMAIN wire : i < j /\ Taken(j) => Before(wire[i].items, wire[j].items)

IInv ==
  /\ TypeOK /\ TapeInv /\ TruthInv /\ SessionInv /\ ConfirmInv
  /\ RowInv /\ StrayInv /\ DueInv /\ OrderInv

-----------------------------------------------------------------------------
(* What holds of every connector                                           *)

(* The market type and the notional a handler works out are those of the   *)
(* configuration and of PLAN.md.                                           *)
Labelled(c) ==
  /\ DOMAIN c.quote = DOMAIN c.type
  /\ \A p \in DOMAIN c.type :
       /\ c.type[p] \in MarketType
       /\ c.type[p] = Markets[c.exchange][p]
       /\ c.quote[p] \in Formula
       /\ c.quote[p] = Notional(c.exchange, p)

(* It stores a row under the name a pair is to have.                       *)
Stored(c) ==
  /\ DOMAIN c.symbol = DOMAIN c.type
  /\ \A p \in DOMAIN c.type : c.symbol[p] = StoredAs(p)

(* It finds the side in what the venue writes for it, and finds one in     *)
(* every word unless it skips items without.                               *)
Reads(c) ==
  /\ c.wrong \subseteq Word
  /\ \A w \in Word : c.side[w] \in Word /\ (c.sided \/ c.side[w] \in Side)
  /\ \A s \in Side :
       /\ c.says[s] \in Word /\ c.liqSays[s] \in Word
       /\ c.side[c.says[s]] = s
       /\ c.liquidations = "trade" => c.side[c.liqSays[s]] = s
       /\ c.liquidations # "none" =>
            Lower[c.liqSays[s]] = IF c.liquidations = "position" THEN Closed(s) ELSE s

(* A handler records live messages and does not skip a sound item for want *)
(* of a value.                                                             *)
Regular(c) ==
  /\ "live" \in c.takes /\ c.takes \subseteq {"live", "replay"}
  /\ c.checks \subseteq {"value", "time"}
  /\ c.sided \in BOOLEAN
  /\ c.numbered => c.single
  /\ c.numbered \in BOOLEAN /\ c.clock \in {"venue", "now"}
  /\ c.clock = "now" => c = KrakenFutures
  /\ c.liquidations \in {"none", "trade", "order", "position"}

(* The pairs of BINANCE by market type.                                    *)
LEMMA Markets_BINANCE ==
  Markets["BINANCE"] =
    Listed({"btcusdt", "btctusd", "btcusdc", "btcfdusd"}, {})
  BY DEF Markets

(* The pairs of BINANCE_BTCUSDT_PERP by market type.                       *)
LEMMA Markets_BINANCE_BTCUSDT_PERP ==
  Markets["BINANCE_BTCUSDT_PERP"] =
    Listed({}, {"BTCUSDT", "BTCUSDC"})
  BY DEF Markets

(* The pairs of BINANCE_BTCUSD_INVERSE by market type.                     *)
LEMMA Markets_BINANCE_BTCUSD_INVERSE ==
  Markets["BINANCE_BTCUSD_INVERSE"] =
    Listed({}, {"BTCUSD_PERP"})
  BY DEF Markets

(* The pairs of BYBIT by market type.                                      *)
LEMMA Markets_BYBIT ==
  Markets["BYBIT"] =
    Listed({"BTCUSDT-SPOT", "BTCUSDC-SPOT"},
           {"BTCUSDT", "BTCUSD"})
  BY DEF Markets

(* The pairs of BITFINEX by market type.                                   *)
LEMMA Markets_BITFINEX ==
  Markets["BITFINEX"] =
    Listed({"BTCUSD", "BTCUST"}, {})
  BY DEF Markets

(* The pairs of BITGET by market type.                                     *)
LEMMA Markets_BITGET ==
  Markets["BITGET"] =
    Listed({"BTCUSDT", "BTCUSDC"},
           {"BTCUSDT_UMCBL", "BTCUSD_DMCBL", "BTCPERP_CMCBL"})
  BY DEF Markets

(* The pairs of BITSTAMP by market type.                                   *)
LEMMA Markets_BITSTAMP ==
  Markets["BITSTAMP"] =
    Listed({"btcusd", "btcusdc", "btcusdt"}, {})
  BY DEF Markets

(* The pairs of BITMEX by market type.                                     *)
LEMMA Markets_BITMEX ==
  Markets["BITMEX"] =
    Listed({}, {"XBTUSDT", "XBTUSD", "XBT_USDT"})
  BY DEF Markets

(* The pairs of COINBASE by market type.                                   *)
LEMMA Markets_COINBASE ==
  Markets["COINBASE"] =
    Listed({"BTC-USD", "BTC-USDC", "BTC-USDT"},
           {"BTC-PERP-INTX"})
  BY DEF Markets

(* The pairs of KRAKEN by market type.                                     *)
LEMMA Markets_KRAKEN ==
  Markets["KRAKEN"] =
    Listed({"XBT/USD", "XBT/USDT", "XBT/USDC"},
           {"PI_XBTUSD", "PF_XBTUSD"})
  BY DEF Markets

(* The pairs of OKX by market type.                                        *)
LEMMA Markets_OKX ==
  Markets["OKX"] =
    Listed({"BTC-USD", "BTC-USDT", "BTC-USDC"},
           {"BTC-USD-SWAP", "BTC-USDT-SWAP"})
  BY DEF Markets

(* The pairs of DERIBIT by market type.                                    *)
LEMMA Markets_DERIBIT ==
  Markets["DERIBIT"] =
    Listed({}, {"BTC-PERPETUAL", "BTC_USDC-PERPETUAL"})
  BY DEF Markets

(* The pairs of DYDX by market type.                                       *)
LEMMA Markets_DYDX ==
  Markets["DYDX"] =
    Listed({}, {"BTC-USD"})
  BY DEF Markets

(* The pairs of HYPERLIQUID by market type.                                *)
LEMMA Markets_HYPERLIQUID ==
  Markets["HYPERLIQUID"] =
    Listed({}, {"BTC"})
  BY DEF Markets

(* What the words for a side are read as.                                  *)
LEMMA SomeWords ==
  {"buy", "Buy", "BUY", "sell", "Sell", "SELL", "long", "short", "true", "false",
   "plus", "minus", "0", "1", "2", "A", "B", "none"} \subseteq Word
  BY DEF Word

(* Upper case and lower case are the same.                                 *)
LEMMA LowerReads ==
  /\ \A w \in Word : Lower[w] \in Word
  /\ Lower["buy"] = "buy" /\ Lower["Buy"] = "buy" /\ Lower["BUY"] = "buy"
  /\ Lower["sell"] = "sell" /\ Lower["Sell"] = "sell" /\ Lower["SELL"] = "sell"
  /\ Lower["long"] = "long" /\ Lower["short"] = "short"
  BY SomeWords DEF Lower

(* The flag that says whether the maker bought.                            *)
LEMMA FlagReads ==
  /\ \A w \in Word : FlagSide[w] \in Word /\ FlagSide[w] \in Side
  /\ FlagSide["true"] = "sell" /\ FlagSide["false"] = "buy"
  BY SomeWords DEF FlagSide, Side

(* The sign of a quantity.                                                 *)
LEMMA SignReads ==
  /\ \A w \in Word : SignSide[w] \in Word /\ SignSide[w] \in Side
  /\ SignSide["minus"] = "sell" /\ SignSide["plus"] = "buy"
  BY SomeWords DEF SignSide, Side

(* The numbers of Bitstamp.                                                *)
LEMMA BitstampNumbers ==
  /\ \A w \in Word : bitstampSide[w] \in Word
  /\ bitstampSide["1"] = "sell" /\ bitstampSide["0"] = "buy"
  BY SomeWords DEF bitstampSide

(* The letters of Hyperliquid.                                             *)
LEMMA HyperliquidLetters ==
  /\ \A w \in Word : hyperliquidTradeSide[w] \in Word
  /\ hyperliquidTradeSide["B"] = "sell" /\ hyperliquidTradeSide["A"] = "buy"
  BY SomeWords DEF hyperliquidTradeSide

(* The key of a spot pair of Bitget leads back to the pair.                *)
LEMMA BitgetSpotArgs ==
  \A p \in OfType("BITGET", "spot") :
    marketForArg(OfType("BITGET", "spot"), bitgetArgKey[p]) = StoredAs(p)
<1>1. OfType("BITGET", "spot") = {"BTCUSDT", "BTCUSDC"}
  BY ZenonT(20), Markets_BITGET DEF OfType, All, Listed
<1>2. /\ bitgetArgKey["BTCUSDT"] = <<"SPOT", "BTCUSDT">>
      /\ bitgetArgKey["BTCUSDC"] = <<"SPOT", "BTCUSDC">>
  BY DEF bitgetArgKey
<1>3. \A p, q \in {"BTCUSDT", "BTCUSDC"} : bitgetArgKey[p] = bitgetArgKey[q] => p = q
  BY <1>2
<1>4. \A p \in {"BTCUSDT", "BTCUSDC"} :
        marketForArg({"BTCUSDT", "BTCUSDC"}, bitgetArgKey[p]) = p
  BY <1>3 DEF marketForArg
<1>5. \A p \in {"BTCUSDT", "BTCUSDC"} : StoredAs(p) = p
  BY DEF StoredAs
<1>6. QED
  BY <1>1, <1>4, <1>5

(* So does that of a contract.                                             *)
LEMMA BitgetPerpArgs ==
  \A p \in OfType("BITGET", "perp") :
    marketForArg(OfType("BITGET", "perp"), bitgetArgKey[p]) = StoredAs(p)
<1> DEFINE S == {"BTCUSDT_UMCBL", "BTCUSD_DMCBL", "BTCPERP_CMCBL"}
<1>1. OfType("BITGET", "perp") = S
  BY ZenonT(20), Markets_BITGET DEF OfType, All, Listed
<1>2. /\ bitgetArgKey["BTCUSDT_UMCBL"] = <<"USDT-FUTURES", "BTCUSDT">>
      /\ bitgetArgKey["BTCUSD_DMCBL"] = <<"COIN-FUTURES", "BTCUSD">>
      /\ bitgetArgKey["BTCPERP_CMCBL"] = <<"USDC-FUTURES", "BTCPERP">>
  BY DEF bitgetArgKey
<1>3. \A p, q \in S : bitgetArgKey[p] = bitgetArgKey[q] => p = q
  BY <1>2
<1>4. \A p \in S : marketForArg(S, bitgetArgKey[p]) = p
  BY <1>3 DEF marketForArg
<1>5. \A p \in S : StoredAs(p) = p
  BY DEF StoredAs
<1>6. QED
  BY <1>1, <1>4, <1>5

(* What Binance works out of a pair is what it should be.                  *)
LEMMA BinanceLabelled == Labelled(Binance) /\ Stored(Binance)
<1>1. /\ Binance.exchange = "BINANCE"
      /\ Binance.symbol = Same(OfType("BINANCE", "spot"))
      /\ Binance.type = [p \in OfType("BINANCE", "spot") |-> "spot"]
      /\ Binance.quote = Linear(OfType("BINANCE", "spot"))
  BY DEF Binance, Flagged, Plain
<1>2. Labelled(Binance)
  BY ZenonT(20), <1>1, Markets_BINANCE
     DEF Labelled, Linear, OfType, All, Listed, Notional, MarketType, Formula
<1>3. Stored(Binance)
  BY ZenonT(20), <1>1, Markets_BINANCE DEF Stored, Same, OfType, All, Listed, StoredAs
<1>4. QED
  BY <1>2, <1>3

(* The way Binance treats items is one the proofs allow for.               *)
LEMMA BinanceRegular == Regular(Binance)
  BY DEF Binance, Flagged, Plain, Regular

(* Binance reads the words for a side as they are meant.                   *)
LEMMA BinanceReads == Reads(Binance)
  BY FlagReads, LowerReads, SomeWords DEF Binance, Flagged, Plain, Reads, Words, Side, Closed

(* What BinancePerp works out of a pair is what it should be.              *)
LEMMA BinancePerpLabelled == Labelled(BinancePerp) /\ Stored(BinancePerp)
<1>1. /\ BinancePerp.exchange = "BINANCE_BTCUSDT_PERP"
      /\ BinancePerp.symbol = Same(OfType("BINANCE_BTCUSDT_PERP", "perp"))
      /\ BinancePerp.type = [p \in OfType("BINANCE_BTCUSDT_PERP", "perp") |-> "perp"]
      /\ BinancePerp.quote = Linear(OfType("BINANCE_BTCUSDT_PERP", "perp"))
  BY DEF BinancePerp, Futures, Flagged, Plain
<1>2. Labelled(BinancePerp)
  BY ZenonT(20), <1>1, Markets_BINANCE_BTCUSDT_PERP
     DEF Labelled, Linear, OfType, All, Listed, Notional, MarketType, Formula
<1>3. Stored(BinancePerp)
  BY ZenonT(20), <1>1, Markets_BINANCE_BTCUSDT_PERP DEF Stored, Same, OfType, All, Listed, StoredAs
<1>4. QED
  BY <1>2, <1>3

(* The way BinancePerp treats items is one the proofs allow for.           *)
LEMMA BinancePerpRegular == Regular(BinancePerp)
  BY DEF BinancePerp, Futures, Flagged, Plain, Regular

(* BinancePerp reads the words for a side as they are meant.               *)
LEMMA BinancePerpReads == Reads(BinancePerp)
  BY FlagReads, LowerReads, SomeWords DEF BinancePerp, Futures, Flagged, Plain, Reads, Words, Side, Closed

(* What BinanceInverse works out of a pair is what it should be.           *)
LEMMA BinanceInverseLabelled == Labelled(BinanceInverse) /\ Stored(BinanceInverse)
<1>1. /\ BinanceInverse.exchange = "BINANCE_BTCUSD_INVERSE"
      /\ BinanceInverse.symbol = Same(OfType("BINANCE_BTCUSD_INVERSE", "perp"))
      /\ BinanceInverse.type = [p \in OfType("BINANCE_BTCUSD_INVERSE", "perp") |-> "perp"]
      /\ BinanceInverse.quote = [p \in All("BINANCE_BTCUSD_INVERSE") |-> "qty * 100"]
  BY DEF BinanceInverse, Futures, Flagged, Plain
<1>2. Labelled(BinanceInverse)
  BY ZenonT(20), <1>1, Markets_BINANCE_BTCUSD_INVERSE
     DEF Labelled, Linear, OfType, All, Listed, Notional, MarketType, Formula
<1>3. Stored(BinanceInverse)
  BY ZenonT(20), <1>1, Markets_BINANCE_BTCUSD_INVERSE DEF Stored, Same, OfType, All, Listed, StoredAs
<1>4. QED
  BY <1>2, <1>3

(* The way BinanceInverse treats items is one the proofs allow for.        *)
LEMMA BinanceInverseRegular == Regular(BinanceInverse)
  BY DEF BinanceInverse, Futures, Flagged, Plain, Regular

(* BinanceInverse reads the words for a side as they are meant.            *)
LEMMA BinanceInverseReads == Reads(BinanceInverse)
  BY FlagReads, LowerReads, SomeWords DEF BinanceInverse, Futures, Flagged, Plain, Reads, Words, Side, Closed

(* What Bitfinex works out of a pair is what it should be.                 *)
LEMMA BitfinexLabelled == Labelled(Bitfinex) /\ Stored(Bitfinex)
<1>1. /\ Bitfinex.exchange = "BITFINEX"
      /\ Bitfinex.symbol = Same(OfType("BITFINEX", "spot"))
      /\ Bitfinex.type = [p \in OfType("BITFINEX", "spot") |-> "spot"]
      /\ Bitfinex.quote = Linear(OfType("BITFINEX", "spot"))
  BY DEF Bitfinex, Plain
<1>2. Labelled(Bitfinex)
  BY ZenonT(20), <1>1, Markets_BITFINEX
     DEF Labelled, Linear, OfType, All, Listed, Notional, MarketType, Formula
<1>3. Stored(Bitfinex)
  BY ZenonT(20), <1>1, Markets_BITFINEX DEF Stored, Same, OfType, All, Listed, StoredAs
<1>4. QED
  BY <1>2, <1>3

(* The way Bitfinex treats items is one the proofs allow for.              *)
LEMMA BitfinexRegular == Regular(Bitfinex)
  BY DEF Bitfinex, Plain, Regular

(* Bitfinex reads the words for a side as they are meant.                  *)
LEMMA BitfinexReads == Reads(Bitfinex)
  BY SignReads, LowerReads, SomeWords DEF Bitfinex, Plain, Reads, Words, Side, Closed

(* What BitgetSpot works out of a pair is what it should be.               *)
LEMMA BitgetSpotLabelled == Labelled(Bitget("spot")) /\ Stored(Bitget("spot"))
<1>1. /\ Bitget("spot").exchange = "BITGET"
      /\ Bitget("spot").symbol = [p \in OfType("BITGET", "spot") |->
                              marketForArg(OfType("BITGET", "spot"), bitgetArgKey[p])]
      /\ Bitget("spot").type = [p \in OfType("BITGET", "spot") |-> "spot"]
      /\ Bitget("spot").quote = Linear(OfType("BITGET", "spot"))
  BY DEF Bitget, Plain
<1>2. Labelled(Bitget("spot"))
  BY ZenonT(20), <1>1, Markets_BITGET
     DEF Labelled, Linear, OfType, All, Listed, Notional, MarketType, Formula
<1>3. Stored(Bitget("spot"))
  BY <1>1, BitgetSpotArgs DEF Stored
<1>4. QED
  BY <1>2, <1>3

(* The way BitgetSpot treats items is one the proofs allow for.            *)
LEMMA BitgetSpotRegular == Regular(Bitget("spot"))
  BY DEF Bitget, Plain, Regular

(* BitgetSpot reads the words for a side as they are meant.                *)
LEMMA BitgetSpotReads == Reads(Bitget("spot"))
  BY LowerReads, SomeWords DEF Bitget, Plain, Reads, Words, Side, Closed

(* What BitgetPerp works out of a pair is what it should be.               *)
LEMMA BitgetPerpLabelled == Labelled(Bitget("perp")) /\ Stored(Bitget("perp"))
<1>1. /\ Bitget("perp").exchange = "BITGET"
      /\ Bitget("perp").symbol = [p \in OfType("BITGET", "perp") |->
                              marketForArg(OfType("BITGET", "perp"), bitgetArgKey[p])]
      /\ Bitget("perp").type = [p \in OfType("BITGET", "perp") |-> "perp"]
      /\ Bitget("perp").quote = Linear(OfType("BITGET", "perp"))
  BY DEF Bitget, Plain
<1>2. Labelled(Bitget("perp"))
  BY ZenonT(20), <1>1, Markets_BITGET
     DEF Labelled, Linear, OfType, All, Listed, Notional, MarketType, Formula
<1>3. Stored(Bitget("perp"))
  BY <1>1, BitgetPerpArgs DEF Stored
<1>4. QED
  BY <1>2, <1>3

(* The way BitgetPerp treats items is one the proofs allow for.            *)
LEMMA BitgetPerpRegular == Regular(Bitget("perp"))
  BY DEF Bitget, Plain, Regular

(* BitgetPerp reads the words for a side as they are meant.                *)
LEMMA BitgetPerpReads == Reads(Bitget("perp"))
  BY LowerReads, SomeWords DEF Bitget, Plain, Reads, Words, Side, Closed

(* What Bitmex works out of a pair is what it should be.                   *)
LEMMA BitmexLabelled == Labelled(Bitmex) /\ Stored(Bitmex)
<1>1. /\ Bitmex.exchange = "BITMEX"
      /\ Bitmex.symbol = Same(OfType("BITMEX", "perp"))
      /\ Bitmex.type = [p \in OfType("BITMEX", "perp") |-> "perp"]
      /\ Bitmex.quote = [p \in All("BITMEX") |-> IF p = "XBTUSDT" THEN "qty * price / 1e6" ELSE "qty"]
  BY DEF Bitmex, Plain
<1>2. Labelled(Bitmex)
  BY ZenonT(20), <1>1, Markets_BITMEX
     DEF Labelled, Linear, OfType, All, Listed, Notional, MarketType, Formula
<1>3. Stored(Bitmex)
  BY ZenonT(20), <1>1, Markets_BITMEX DEF Stored, Same, OfType, All, Listed, StoredAs
<1>4. QED
  BY <1>2, <1>3

(* The way Bitmex treats items is one the proofs allow for.                *)
LEMMA BitmexRegular == Regular(Bitmex)
  BY DEF Bitmex, Plain, Regular

(* Bitmex reads the words for a side as they are meant.                    *)
LEMMA BitmexReads == Reads(Bitmex)
  BY LowerReads, SomeWords DEF Bitmex, Plain, Reads, Words, Side, Closed

(* What Bitstamp works out of a pair is what it should be.                 *)
LEMMA BitstampLabelled == Labelled(Bitstamp) /\ Stored(Bitstamp)
<1>1. /\ Bitstamp.exchange = "BITSTAMP"
      /\ Bitstamp.symbol = Same(OfType("BITSTAMP", "spot"))
      /\ Bitstamp.type = [p \in OfType("BITSTAMP", "spot") |-> "spot"]
      /\ Bitstamp.quote = Linear(OfType("BITSTAMP", "spot"))
  BY DEF Bitstamp, Plain
<1>2. Labelled(Bitstamp)
  BY ZenonT(20), <1>1, Markets_BITSTAMP
     DEF Labelled, Linear, OfType, All, Listed, Notional, MarketType, Formula
<1>3. Stored(Bitstamp)
  BY ZenonT(20), <1>1, Markets_BITSTAMP DEF Stored, Same, OfType, All, Listed, StoredAs
<1>4. QED
  BY <1>2, <1>3

(* The way Bitstamp treats items is one the proofs allow for.              *)
LEMMA BitstampRegular == Regular(Bitstamp)
  BY DEF Bitstamp, Plain, Regular

(* Bitstamp reads the words for a side as they are meant.                  *)
LEMMA BitstampReads == Reads(Bitstamp)
  BY BitstampNumbers, LowerReads, SomeWords DEF Bitstamp, Plain, Reads, Words, Side, Closed

(* What Bybit works out of a pair is what it should be.                    *)
LEMMA BybitLabelled == Labelled(Bybit) /\ Stored(Bybit)
<1>1. /\ Bybit.exchange = "BYBIT"
      /\ Bybit.symbol = Same(All("BYBIT"))
      /\ Bybit.type = bybitMarketType
      /\ Bybit.quote = bybitQuoteQty
  BY DEF Bybit, Plain
<1>2. All("BYBIT") = {"BTCUSDT-SPOT", "BTCUSDC-SPOT", "BTCUSDT", "BTCUSD"}
  BY Markets_BYBIT DEF All, Listed
<1>3. \A p \in All("BYBIT") : Markets["BYBIT"][p]
            = IF p \in {"BTCUSDT-SPOT", "BTCUSDC-SPOT"} THEN "spot" ELSE "perp"
  BY Markets_BYBIT, <1>2 DEF Listed
<1>4. \A p \in All("BYBIT") :
        /\ Bybit.type[p] = Markets["BYBIT"][p]
        /\ Bybit.type[p] \in MarketType
  BY <1>1, <1>2, <1>3 DEF MarketType, bybitMarketType, bybitQuoteQty, HasSPOT
<1>5. \A p \in All("BYBIT") :
        /\ Bybit.quote[p] = Notional("BYBIT", p)
        /\ Bybit.quote[p] \in Formula
  BY <1>1, <1>2 DEF Notional, Formula, Linear, bybitMarketType, bybitQuoteQty, HasSPOT
<1>6. DOMAIN Bybit.type = All("BYBIT") /\ DOMAIN Bybit.quote = All("BYBIT")
  BY <1>1 DEF Linear, bybitMarketType, bybitQuoteQty, HasSPOT
<1>7. Labelled(Bybit)
  BY <1>1, <1>4, <1>5, <1>6 DEF Labelled
<1>8. Stored(Bybit)
  BY ZenonT(20), <1>1, <1>2, <1>6 DEF Stored, Same, StoredAs
<1>9. QED
  BY <1>7, <1>8

(* The way Bybit treats items is one the proofs allow for.                 *)
LEMMA BybitRegular == Regular(Bybit)
  BY DEF Bybit, Plain, Regular

(* Bybit reads the words for a side as they are meant.                     *)
LEMMA BybitReads == Reads(Bybit)
  BY LowerReads, SomeWords DEF Bybit, Plain, Reads, Words, Side, Closed

(* What Coinbase works out of a pair is what it should be.                 *)
LEMMA CoinbaseLabelled == Labelled(Coinbase) /\ Stored(Coinbase)
<1>1. /\ Coinbase.exchange = "COINBASE"
      /\ Coinbase.symbol = Same(All("COINBASE"))
      /\ Coinbase.type = coinbaseMarketType
      /\ Coinbase.quote = Linear(All("COINBASE"))
  BY DEF Coinbase, Plain
<1>2. All("COINBASE") = {"BTC-USD", "BTC-USDC", "BTC-USDT", "BTC-PERP-INTX"}
  BY Markets_COINBASE DEF All, Listed
<1>3. \A p \in All("COINBASE") : Markets["COINBASE"][p]
            = IF p \in {"BTC-USD", "BTC-USDC", "BTC-USDT"} THEN "spot" ELSE "perp"
  BY Markets_COINBASE, <1>2 DEF Listed
<1>4. \A p \in All("COINBASE") :
        /\ Coinbase.type[p] = Markets["COINBASE"][p]
        /\ Coinbase.type[p] \in MarketType
  BY <1>1, <1>2, <1>3 DEF MarketType, coinbaseMarketType, HasPERP
<1>5. \A p \in All("COINBASE") :
        /\ Coinbase.quote[p] = Notional("COINBASE", p)
        /\ Coinbase.quote[p] \in Formula
  BY <1>1, <1>2 DEF Notional, Formula, Linear, coinbaseMarketType, HasPERP
<1>6. DOMAIN Coinbase.type = All("COINBASE") /\ DOMAIN Coinbase.quote = All("COINBASE")
  BY <1>1 DEF Linear, coinbaseMarketType, HasPERP
<1>7. Labelled(Coinbase)
  BY <1>1, <1>4, <1>5, <1>6 DEF Labelled
<1>8. Stored(Coinbase)
  BY ZenonT(20), <1>1, <1>2, <1>6 DEF Stored, Same, StoredAs
<1>9. QED
  BY <1>7, <1>8

(* The way Coinbase treats items is one the proofs allow for.              *)
LEMMA CoinbaseRegular == Regular(Coinbase)
  BY DEF Coinbase, Plain, Regular

(* Coinbase reads the words for a side as they are meant.                  *)
LEMMA CoinbaseReads == Reads(Coinbase)
  BY LowerReads, SomeWords DEF Coinbase, Plain, Reads, Words, Side, Closed

(* What Deribit works out of a pair is what it should be.                  *)
LEMMA DeribitLabelled == Labelled(Deribit) /\ Stored(Deribit)
<1>1. /\ Deribit.exchange = "DERIBIT"
      /\ Deribit.symbol = Same(OfType("DERIBIT", "perp"))
      /\ Deribit.type = [p \in OfType("DERIBIT", "perp") |-> "perp"]
      /\ Deribit.quote = [p \in All("DERIBIT") |-> IF p \in HasStable THEN "price * qty" ELSE "qty"]
  BY DEF Deribit, Plain
<1>2. Labelled(Deribit)
  <2>1. /\ All("DERIBIT") = {"BTC-PERPETUAL", "BTC_USDC-PERPETUAL"}
        /\ \A p \in All("DERIBIT") : Markets["DERIBIT"][p] = "perp"
    BY Markets_DERIBIT DEF All, Listed
  <2>2. OfType("DERIBIT", "perp") = All("DERIBIT")
    BY <2>1 DEF OfType
  <2>3. "BTC-PERPETUAL" \notin HasStable /\ "BTC_USDC-PERPETUAL" \in HasStable
    BY DEF HasStable
  <2>4. /\ Deribit.quote["BTC-PERPETUAL"] = "qty"
        /\ Deribit.quote["BTC_USDC-PERPETUAL"] = "price * qty"
    BY <1>1, <2>1, <2>3
  <2>5. /\ Notional("DERIBIT", "BTC-PERPETUAL") = "qty"
        /\ Notional("DERIBIT", "BTC_USDC-PERPETUAL") = "price * qty"
    BY DEF Notional
  <2>6. DOMAIN Deribit.quote = DOMAIN Deribit.type
    BY <1>1, <2>2
  <2>7. \A p \in DOMAIN Deribit.type : Deribit.type[p] = "perp"
    BY <1>1
  <2>8. DOMAIN Deribit.type = {"BTC-PERPETUAL", "BTC_USDC-PERPETUAL"}
    BY <1>1, <2>1, <2>2
  <2>9. QED
    BY ZenonT(20), <1>1, <2>1, <2>4, <2>5, <2>6, <2>7, <2>8
       DEF Labelled, MarketType, Formula
<1>3. Stored(Deribit)
  BY ZenonT(20), <1>1, Markets_DERIBIT DEF Stored, Same, OfType, All, Listed, StoredAs
<1>4. QED
  BY <1>2, <1>3

(* The way Deribit treats items is one the proofs allow for.               *)
LEMMA DeribitRegular == Regular(Deribit)
  BY DEF Deribit, Plain, Regular

(* Deribit reads the words for a side as they are meant.                   *)
LEMMA DeribitReads == Reads(Deribit)
  BY LowerReads, SomeWords DEF Deribit, Plain, Reads, Words, Side, Closed

(* What Dydx works out of a pair is what it should be.                     *)
LEMMA DydxLabelled == Labelled(Dydx) /\ Stored(Dydx)
<1>1. /\ Dydx.exchange = "DYDX"
      /\ Dydx.symbol = Same(OfType("DYDX", "perp"))
      /\ Dydx.type = [p \in OfType("DYDX", "perp") |-> "perp"]
      /\ Dydx.quote = Linear(OfType("DYDX", "perp"))
  BY DEF Dydx, Plain
<1>2. Labelled(Dydx)
  BY ZenonT(20), <1>1, Markets_DYDX
     DEF Labelled, Linear, OfType, All, Listed, Notional, MarketType, Formula
<1>3. Stored(Dydx)
  BY ZenonT(20), <1>1, Markets_DYDX DEF Stored, Same, OfType, All, Listed, StoredAs
<1>4. QED
  BY <1>2, <1>3

(* The way Dydx treats items is one the proofs allow for.                  *)
LEMMA DydxRegular == Regular(Dydx)
  BY DEF Dydx, Plain, Regular

(* Dydx reads the words for a side as they are meant.                      *)
LEMMA DydxReads == Reads(Dydx)
  BY LowerReads, SomeWords DEF Dydx, Plain, Reads, Words, Side, Closed

(* What Hyperliquid works out of a pair is what it should be.              *)
LEMMA HyperliquidLabelled == Labelled(Hyperliquid) /\ Stored(Hyperliquid)
<1>1. /\ Hyperliquid.exchange = "HYPERLIQUID"
      /\ Hyperliquid.symbol = Same(OfType("HYPERLIQUID", "perp"))
      /\ Hyperliquid.type = [p \in OfType("HYPERLIQUID", "perp") |-> "perp"]
      /\ Hyperliquid.quote = Linear(OfType("HYPERLIQUID", "perp"))
  BY DEF Hyperliquid, Plain
<1>2. Labelled(Hyperliquid)
  BY ZenonT(20), <1>1, Markets_HYPERLIQUID
     DEF Labelled, Linear, OfType, All, Listed, Notional, MarketType, Formula
<1>3. Stored(Hyperliquid)
  BY ZenonT(20), <1>1, Markets_HYPERLIQUID DEF Stored, Same, OfType, All, Listed, StoredAs
<1>4. QED
  BY <1>2, <1>3

(* The way Hyperliquid treats items is one the proofs allow for.           *)
LEMMA HyperliquidRegular == Regular(Hyperliquid)
  BY DEF Hyperliquid, Plain, Regular

(* Hyperliquid reads the words for a side as they are meant.               *)
LEMMA HyperliquidReads == Reads(Hyperliquid)
  BY HyperliquidLetters, LowerReads, SomeWords DEF Hyperliquid, Plain, Reads, Words, Side, Closed

(* What Kraken works out of a pair is what it should be.                   *)
LEMMA KrakenLabelled == Labelled(Kraken) /\ Stored(Kraken)
<1>1. /\ Kraken.exchange = "KRAKEN"
      /\ Kraken.symbol = krakenNormalizeSpotPair
      /\ Kraken.type = [p \in OfType("KRAKEN", "spot") |-> "spot"]
      /\ Kraken.quote = Linear(OfType("KRAKEN", "spot"))
  BY DEF Kraken, Plain
<1>2. Labelled(Kraken)
  BY ZenonT(20), <1>1, Markets_KRAKEN
     DEF Labelled, Linear, OfType, All, Listed, Notional, MarketType, Formula
<1>3. Stored(Kraken)
  BY ZenonT(20), <1>1, Markets_KRAKEN DEF Stored, OfType, All, Listed, krakenNormalizeSpotPair, StoredAs
<1>4. QED
  BY <1>2, <1>3

(* The way Kraken treats items is one the proofs allow for.                *)
LEMMA KrakenRegular == Regular(Kraken)
  BY DEF Kraken, Plain, Regular

(* Kraken reads the words for a side as they are meant.                    *)
LEMMA KrakenReads == Reads(Kraken)
  BY LowerReads, SomeWords DEF Kraken, Plain, Reads, Words, Side, Closed

(* What KrakenFutures works out of a pair is what it should be.            *)
LEMMA KrakenFuturesLabelled == Labelled(KrakenFutures) /\ Stored(KrakenFutures)
<1>1. /\ KrakenFutures.exchange = "KRAKEN"
      /\ KrakenFutures.symbol = Same(OfType("KRAKEN", "perp"))
      /\ KrakenFutures.type = [p \in OfType("KRAKEN", "perp") |-> "perp"]
      /\ KrakenFutures.quote = [p \in OfType("KRAKEN", "perp") |->
                              IF p \in StartsWithPI THEN "qty" ELSE "price * qty"]
  BY DEF KrakenFutures, Plain
<1>2. Labelled(KrakenFutures)
  BY ZenonT(20), <1>1, Markets_KRAKEN
     DEF Labelled, Linear, OfType, All, Listed, Notional, MarketType, Formula,
         StartsWithPI
<1>3. Stored(KrakenFutures)
  BY ZenonT(20), <1>1, Markets_KRAKEN DEF Stored, Same, OfType, All, Listed, StoredAs
<1>4. QED
  BY <1>2, <1>3

(* The way KrakenFutures treats items is one the proofs allow for.         *)
LEMMA KrakenFuturesRegular == Regular(KrakenFutures)
  BY DEF KrakenFutures, Plain, Regular

(* KrakenFutures reads the words for a side as they are meant.             *)
LEMMA KrakenFuturesReads == Reads(KrakenFutures)
  BY LowerReads, SomeWords DEF KrakenFutures, Plain, Reads, Words, Side, Closed

(* What OKX works out of a pair is what it should be.                      *)
LEMMA OKXLabelled == Labelled(OKX) /\ Stored(OKX)
<1>1. /\ OKX.exchange = "OKX"
      /\ OKX.symbol = Same(All("OKX"))
      /\ OKX.type = okxMarketType
      /\ OKX.quote = okxQuoteQty
  BY DEF OKX, Plain
<1>2. All("OKX") = {"BTC-USD", "BTC-USDT", "BTC-USDC", "BTC-USD-SWAP", "BTC-USDT-SWAP"}
  BY Markets_OKX DEF All, Listed
<1>3. \A p \in All("OKX") : Markets["OKX"][p]
            = IF p \in {"BTC-USD", "BTC-USDT", "BTC-USDC"} THEN "spot" ELSE "perp"
  BY Markets_OKX, <1>2 DEF Listed
<1>4. \A p \in All("OKX") : OKX.type[p] = Markets["OKX"][p] /\ OKX.type[p] \in MarketType
  BY ZenonT(30), <1>1, <1>2, <1>3 DEF MarketType, okxMarketType, okxQuoteQty, EndsInSWAP, EndsInUSDSWAP
<1>5. \A p \in All("OKX") : OKX.quote[p] = Notional("OKX", p) /\ OKX.quote[p] \in Formula
  BY ZenonT(20), <1>1, <1>2
     DEF Notional, Formula, Linear, okxMarketType, okxQuoteQty, EndsInSWAP,
         EndsInUSDSWAP
<1>6. DOMAIN OKX.type = All("OKX") /\ DOMAIN OKX.quote = All("OKX")
  BY <1>1 DEF Linear, okxMarketType, okxQuoteQty, EndsInSWAP, EndsInUSDSWAP
<1>7. Labelled(OKX)
  BY <1>1, <1>4, <1>5, <1>6 DEF Labelled
<1>8. Stored(OKX)
  BY ZenonT(20), <1>1, <1>2, <1>6 DEF Stored, Same, StoredAs
<1>9. QED
  BY <1>7, <1>8

(* The way OKX treats items is one the proofs allow for.                   *)
LEMMA OKXRegular == Regular(OKX)
  BY DEF OKX, Plain, Regular

(* OKX reads the words for a side as they are meant.                       *)
LEMMA OKXReads == Reads(OKX)
  BY LowerReads, SomeWords DEF OKX, Plain, Reads, Words, Side, Closed

(* The facts of every connector that cmd/mcp-hub registers.                *)
LEMMA Conventions ==
  \A n \in DOMAIN Handler :
    Labelled(Handler[n]) /\ Stored(Handler[n]) /\ Regular(Handler[n]) /\ Reads(Handler[n])
<1>1. \A n \in DOMAIN Handler : Labelled(Handler[n]) /\ Stored(Handler[n])
  BY BinanceLabelled, BinancePerpLabelled, BinanceInverseLabelled,
     BitfinexLabelled, BitgetSpotLabelled, BitgetPerpLabelled,
     BitmexLabelled, BitstampLabelled, BybitLabelled, CoinbaseLabelled,
     DeribitLabelled, DydxLabelled, HyperliquidLabelled, KrakenLabelled,
     KrakenFuturesLabelled, OKXLabelled
     DEF Handler
<1>2. \A n \in DOMAIN Handler : Regular(Handler[n])
  BY BinanceRegular, BinancePerpRegular, BinanceInverseRegular,
     BitfinexRegular, BitgetSpotRegular, BitgetPerpRegular, BitmexRegular,
     BitstampRegular, BybitRegular, CoinbaseRegular, DeribitRegular,
     DydxRegular, HyperliquidRegular, KrakenRegular, KrakenFuturesRegular,
     OKXRegular
     DEF Handler
<1>3. \A n \in DOMAIN Handler : Reads(Handler[n])
  BY BinanceReads, BinancePerpReads, BinanceInverseReads, BitfinexReads,
     BitgetSpotReads, BitgetPerpReads, BitmexReads, BitstampReads,
     BybitReads, CoinbaseReads, DeribitReads, DydxReads, HyperliquidReads,
     KrakenReads, KrakenFuturesReads, OKXReads
     DEF Handler
<1>4. QED
  BY <1>1, <1>2, <1>3

(* They hold of the connector that is looked at.                           *)
LEMMA ConnFacts ==
  ASSUME name \in Connectors
  PROVE  /\ Labelled(conn) /\ Stored(conn) /\ Regular(conn) /\ Reads(conn)
         /\ conn.numbered \in BOOLEAN
  BY FeedsAssumption, Conventions DEF conn, Regular

-----------------------------------------------------------------------------
(* The venue sends: every action of it that puts messages on the wire      *)
(* extends the tape, the channels and the wire in the same way.            *)

(* A message is of an open channel and about items of the tape.            *)
Proper(m) ==
  /\ m.channel \in DOMAIN numbers'
  /\ m.number = numbers'[m.channel]
  /\ m.label = "book" => m.channel.kind = "book"
  /\ m.label \in {"live", "announced", "replay"} => m.channel.kind = "trades"
  /\ conn.numbered => \A k \in DOMAIN m.items : m.items[k].pair = m.channel.pair
  /\ m.label = "replay" => replays
  /\ \A k \in DOMAIN m.items :
       m.items[k].id \in DOMAIN tape' /\ tape'[m.items[k].id] = m.items[k]

Extends(items, new) ==
  /\ items \in Seq(Entry) /\ new \in Seq(Sent)
  /\ tape' = tape \o items
  /\ Len(tape) + Len(items) <= MaxTape
  /\ \A k \in DOMAIN items : items[k].id = Len(tape) + k /\ Worded(items[k])
  /\ wire' = wire \o new
  /\ ~up => new = <<>> /\ numbers' = numbers
  /\ DOMAIN numbers' \subseteq Channels
  /\ \A ch \in DOMAIN numbers' : numbers'[ch] \in NumbersOf(ch)
  /\ \A ch \in DOMAIN numbers : ch \in DOMAIN numbers' /\ numbers'[ch] = numbers[ch]
  /\ \A c, d \in DOMAIN numbers' : numbers'[c] = numbers'[d] => c = d
  /\ \A i \in DOMAIN new :
       /\ Proper(new[i])
       /\ new[i].label = "live" => new[i].items = items /\ i = Len(new)
       /\ \/ new[i].label = "subscribed"
          \/ new[i].channel \in DOMAIN numbers
          \/ \E k \in 1..(i-1) : new[k].label = "subscribed" /\ new[k].channel = new[i].channel
  /\ \A ch \in DOMAIN numbers' \ DOMAIN numbers :
       \E k \in DOMAIN new : new[k].label = "subscribed" /\ new[k].channel = ch
  /\ UNCHANGED <<name, replays, up, dials, mapVars, batch, trades, liqs, due, strays>>

(* What is dealt is an item of the tape's kind.                            *)
LEMMA ItemIsEntry ==
  ASSUME TypeOK, NEW p \in Traded, NEW s \in Samples, NEW w \in WordsFor(s),
         NEW i \in 1..MaxTape
  PROVE  /\ Item(i, p, s, w) \in Entry
         /\ Item(i, p, s, w).id = i /\ Item(i, p, s, w).pair = p
         /\ Worded(Item(i, p, s, w))
<1>1. s.kind \in Kind /\ s.side \in Side /\ s.defect \in Defect
  BY FeedsAssumption
<1>2. /\ w \in WordsOf(conn, s.kind, s.side, s.defect)
      /\ s.kind = "liquidation" => conn.liquidations # "none"
  BY DEF WordsFor
<1>3. w \in Word
  BY <1>1, <1>2, ConnFacts DEF TypeOK, WordsOf, Reads
<1>4. QED
  BY <1>1, <1>2, <1>3 DEF Item, Entry, Worded

(* The items of a trade, whether they are sent or not.                     *)
LEMMA DealExtends ==
  ASSUME TypeOK, TapeInv, SessionInv, NEW items \in Seq(Entry),
         items # <<>>, Len(tape) + Len(items) <= MaxTape,
         \A k \in DOMAIN items : items[k].id = Len(tape) + k /\ Worded(items[k]),
         conn.numbered => Len(items) = 1,
         Deal(items)
  PROVE  \E new : Extends(items, new)
<1> DEFINE ch == TradesOf(items[1].pair)
           live == Message("live", ch, items)
           said == Message("announced", ch, items)
<1>0. items[1] \in Entry
  OBVIOUS
<1>1. ch \in Channels /\ ch.kind = "trades" /\ ch.pair = items[1].pair
  <2>1. items[1].pair \in Traded
    BY <1>0 DEF Entry
  <2>2. QED
    BY <2>1 DEF TradesOf, Channels
<1>2. tape' = tape \o items /\ numbers' = numbers
  BY DEF Deal
<1>3. \A k \in DOMAIN items : items[k].id \in DOMAIN tape' /\ tape'[items[k].id] = items[k]
  BY <1>2 DEF TypeOK
<1>4. CASE up /\ \A i \in DOMAIN items : IsOpen(TradesOf(items[i].pair))
  <2>1. ch \in DOMAIN numbers /\ numbers[ch] \in NumbersOf(ch)
    BY <1>4 DEF IsOpen, TypeOK
  <2>2. numbers[ch] \in Numbers \cup Traded
    BY <2>1, <1>1, <1>0 DEF NumbersOf, Entry
  <2>3. live \in Sent /\ said \in Sent
    BY <2>2, <1>1 DEF Message, Sent
  <2>4. /\ live.channel = ch /\ live.number = numbers[ch] /\ live.items = items
        /\ live.label = "live"
        /\ said.channel = ch /\ said.number = numbers[ch] /\ said.items = items
        /\ said.label = "announced"
    BY DEF Message
  <2>5. conn.numbered => \A k \in DOMAIN items : items[k].pair = ch.pair
    BY <1>1
  <2> HIDE DEF ch, live, said
  <2>6. Proper(live) /\ Proper(said)
    BY <2>1, <2>4, <2>5, <1>1, <1>2, <1>3 DEF Proper
  <2>7. wire' = wire \o (IF conn.numbered THEN <<said, live>> ELSE <<live>>)
    BY <1>4 DEF Deal, Send, ch, live, said
  <2>8. CASE conn.numbered
    <3> DEFINE new == <<said, live>>
    <3>1. /\ new \in Seq(Sent) /\ wire' = wire \o new
          /\ DOMAIN new = {1, 2} /\ new[1] = said /\ new[2] = live /\ Len(new) = 2
      BY <2>3, <2>7, <2>8
    <3> HIDE DEF new
    <3>2. \A i \in DOMAIN new :
            /\ Proper(new[i])
            /\ new[i].label = "live" => new[i].items = items /\ i = Len(new)
            /\ new[i].channel \in DOMAIN numbers
      BY <3>1, <2>1, <2>4, <2>6
    <3>3. Extends(items, new)
      BY <1>4, <3>1, <3>2, <1>2 DEF Extends, Deal, TypeOK, SessionInv
    <3>4. QED
      BY <3>3
  <2>9. CASE ~conn.numbered
    <3>1. Extends(items, <<live>>)
      BY <1>4, <2>1, <2>3, <2>4, <2>6, <2>7, <2>9, <1>2 DEF Extends, Deal, TypeOK, SessionInv
    <3>2. QED
      BY <3>1
  <2>10. QED
    BY <2>8, <2>9
<1>5. CASE ~(up /\ \A i \in DOMAIN items : IsOpen(TradesOf(items[i].pair)))
  <2>1. wire' = wire \o <<>>
    BY <1>5 DEF Deal, TypeOK
  <2>2. Extends(items, <<>>)
    BY <2>1, <1>2 DEF Extends, Deal, TypeOK, SessionInv
  <2>3. QED
    BY <2>2
<1>6. QED
  BY <1>4, <1>5

(* So do DealOne and DealTwo.                                              *)
LEMMA DealsExtend ==
  ASSUME TypeOK, TapeInv, SessionInv, DealOne \/ DealTwo
  PROVE  \E items, new : Extends(items, new)
<1>1. CASE DealOne
  <2>1. Len(tape) \in Nat /\ Len(tape) + 1 \in 1..MaxTape
    BY <1>1, FeedsAssumption DEF DealOne, TypeOK
  <2>2. PICK p \in Traded, s \in Samples : \E w \in WordsFor(s) :
          Deal(<<Item(Len(tape) + 1, p, s, w)>>)
    BY <1>1 DEF DealOne
  <2>2a. PICK w \in WordsFor(s) : Deal(<<Item(Len(tape) + 1, p, s, w)>>)
    BY <2>2
  <2> DEFINE e == Item(Len(tape) + 1, p, s, w)
  <2>3. e \in Entry /\ e.id = Len(tape) + 1 /\ Worded(e)
    BY <2>1, ItemIsEntry
  <2> HIDE DEF e
  <2>4. <<e>> \in Seq(Entry) /\ <<e>> # <<>> /\ Len(<<e>>) = 1
        /\ \A k \in DOMAIN <<e>> : <<e>>[k].id = Len(tape) + k /\ Worded(<<e>>[k])
    BY <2>3
  <2>5. Deal(<<e>>)
    BY <2>2a DEF e
  <2> DEFINE items == <<e>>
  <2> HIDE DEF items
  <2>6. /\ items \in Seq(Entry) /\ items # <<>> /\ Len(items) = 1 /\ Deal(items)
        /\ \A k \in DOMAIN items : items[k].id = Len(tape) + k /\ Worded(items[k])
        /\ Len(tape) + Len(items) <= MaxTape
    BY <2>1, <2>4, <2>5 DEF items
  <2>7. QED
    BY <2>6, DealExtends
<1>2. CASE DealTwo
  <2>1. Len(tape) \in Nat /\ Len(tape) + 1 \in 1..MaxTape /\ Len(tape) + 2 \in 1..MaxTape
    BY <1>2, FeedsAssumption DEF DealTwo, TypeOK
  <2>2. PICK p \in Traded, q \in Traded, s \in Samples, t \in Samples :
          \E w \in WordsFor(s), x \in WordsFor(t) :
            /\ Fit(Item(Len(tape) + 1, p, s, w), Item(Len(tape) + 2, q, t, x))
            /\ Deal(<<Item(Len(tape) + 1, p, s, w), Item(Len(tape) + 2, q, t, x)>>)
    BY <1>2 DEF DealTwo
  <2>2a. PICK w \in WordsFor(s), x \in WordsFor(t) :
            /\ Fit(Item(Len(tape) + 1, p, s, w), Item(Len(tape) + 2, q, t, x))
            /\ Deal(<<Item(Len(tape) + 1, p, s, w), Item(Len(tape) + 2, q, t, x)>>)
    BY <2>2
  <2> DEFINE e == Item(Len(tape) + 1, p, s, w)
             f == Item(Len(tape) + 2, q, t, x)
  <2>3. /\ e \in Entry /\ e.id = Len(tape) + 1 /\ Worded(e)
        /\ f \in Entry /\ f.id = Len(tape) + 2 /\ Worded(f)
    BY <2>1, ItemIsEntry
  <2>4. Deal(<<e, f>>) /\ ~conn.numbered
    BY <2>2a, ConnFacts DEF Fit, Regular, TypeOK
  <2> HIDE DEF e, f
  <2>5. <<e, f>> \in Seq(Entry) /\ <<e, f>> # <<>> /\ Len(<<e, f>>) = 2
        /\ \A k \in DOMAIN <<e, f>> : <<e, f>>[k].id = Len(tape) + k /\ Worded(<<e, f>>[k])
    BY <2>3
  <2> DEFINE items == <<e, f>>
  <2> HIDE DEF items
  <2>6. /\ items \in Seq(Entry) /\ items # <<>> /\ Len(items) = 2 /\ Deal(items)
        /\ \A k \in DOMAIN items : items[k].id = Len(tape) + k /\ Worded(items[k])
        /\ Len(tape) + Len(items) <= MaxTape
    BY <2>1, <2>4, <2>5 DEF items
  <2>7. QED
    BY <2>4, <2>6, DealExtends
<1>3. QED
  BY <1>1, <1>2

(* The answer to the request for a channel, with the replay after it.      *)
LEMMA OpenExtends ==
  ASSUME TypeOK, TapeInv, SessionInv, NEW ch \in Channels, Open(ch)
  PROVE  \E items, new : Extends(items, new)
<1>0. PICK n \in Free(ch) : \E replay \in Replays(ch, n) :
        /\ numbers' = Keep(numbers, ch, n)
        /\ wire' = wire \o
             <<[label |-> "subscribed", channel |-> ch, number |-> n, items |-> <<>>]>>
             \o replay
  BY DEF Open
<1>1. PICK replay \in Replays(ch, n) :
        /\ numbers' = Keep(numbers, ch, n)
        /\ wire' = wire \o
             <<[label |-> "subscribed", channel |-> ch, number |-> n, items |-> <<>>]>>
             \o replay
  BY <1>0
<1> DEFINE said == [label |-> "subscribed", channel |-> ch, number |-> n, items |-> <<>>]
<1>2. /\ n \in NumbersOf(ch) /\ \A c \in DOMAIN numbers : numbers[c] # n
      /\ n \in Numbers \cup Traded
      /\ ch \notin DOMAIN numbers
  BY DEF Free, NumbersOf, Open, IsOpen, Channels
<1>3. /\ DOMAIN numbers' = DOMAIN numbers \cup {ch} /\ numbers'[ch] = n
      /\ \A c \in DOMAIN numbers : numbers'[c] = numbers[c]
  BY <1>1, <1>2 DEF Keep
<1>4. tape' = tape \o <<>> /\ tape' = tape
  BY DEF Open, TypeOK
<1>5. <<>> \in Seq(Entry) /\ Len(tape) + Len(<<>>) <= MaxTape
      /\ \A k \in DOMAIN <<>> : <<>>[k].id = Len(tape) + k /\ Worded(<<>>[k])
  BY DEF TapeInv, TypeOK
<1>6. said \in Sent /\ said.label = "subscribed" /\ said.channel = ch /\ said.number = n
      /\ DOMAIN said.items = {}
  BY <1>2 DEF Sent
<1> HIDE DEF said
<1>7. Proper(said)
  BY <1>3, <1>6 DEF Proper
<1>8. PICK more : /\ more \in Seq(Sent) /\ Len(more) <= 1 /\ replay = more
                  /\ more # <<>> => more[1].label = "replay" /\ more[1].channel = ch
                                    /\ Proper(more[1])
  <2> DEFINE past == {i \in DOMAIN tape : tape[i].pair = ch.pair /\ tape[i].kind = "trade"}
             again(i) == [label |-> "replay", channel |-> ch, number |-> n,
                          items |-> <<tape[i]>>]
  <2>1. CASE replays /\ ch.kind = "trades" /\ past # {}
    <3>1. PICK i \in past : replay = <<again(i)>>
      BY <2>1 DEF Replays
    <3>2. tape[i] \in Entry /\ tape[i].pair = ch.pair /\ tape[i].id = i /\ i \in DOMAIN tape
      BY <3>1 DEF TypeOK, TapeInv
    <3> DEFINE e == tape[i]
               m == again(i)
    <3>3. <<e>> \in Seq(Entry) /\ DOMAIN <<e>> = {1} /\ <<e>>[1] = e
      BY <3>2
    <3>4. m \in Sent /\ m.label = "replay" /\ m.channel = ch
          /\ m.number = n /\ m.items = <<e>>
      BY <3>3, <1>2 DEF Sent
    <3>5. replay = <<m>>
      BY <3>1
    <3> HIDE DEF m, e, past
    <3>6. Proper(m)
      <4>1. e.id \in DOMAIN tape' /\ tape'[e.id] = e /\ e.pair = ch.pair
        BY <3>2, <1>4 DEF e
      <4> QED BY <1>3, <2>1, <3>3, <3>4, <4>1 DEF Proper
    <3> DEFINE one == <<m>>
    <3>7. one \in Seq(Sent) /\ Len(one) = 1 /\ one[1] = m
      BY <3>4
    <3>8. replay = one
      BY <3>5
    <3> HIDE DEF one
    <3>9. one[1].label = "replay" /\ one[1].channel = ch /\ Proper(one[1]) /\ Len(one) <= 1
      BY <3>4, <3>6, <3>7
    <3>10. QED
      BY <3>7, <3>8, <3>9
  <2>2. CASE ~(replays /\ ch.kind = "trades" /\ past # {})
    <3> DEFINE none == <<>>
    <3>1. replay = none
      BY <2>2 DEF Replays
    <3>2. none \in Seq(Sent) /\ Len(none) = 0 /\ none = <<>>
      OBVIOUS
    <3>3. none # <<>> => none[1].label = "replay" /\ none[1].channel = ch /\ Proper(none[1])
      OBVIOUS
    <3>4. Len(none) <= 1
      BY <3>2
    <3> HIDE DEF none
    <3>5. QED
      BY <3>1, <3>2, <3>3, <3>4
  <2>3. QED
    BY <2>1, <2>2
<1> DEFINE new == <<said>> \o more
<1>9. /\ new \in Seq(Sent) /\ Len(new) = 1 + Len(more) /\ new[1] = said
      /\ \A i \in DOMAIN new : i # 1 => i = 2 /\ new[i] = more[1] /\ more # <<>>
  BY <1>6, <1>8
<1>10. wire' = wire \o new
  BY <1>1, <1>8, <1>6 DEF said, TypeOK
<1> HIDE DEF new
<1>11. \A i \in DOMAIN new :
         /\ Proper(new[i]) /\ new[i].label # "live"
         /\ \/ new[i].label = "subscribed"
            \/ \E k \in 1..(i-1) : new[k].label = "subscribed" /\ new[k].channel = new[i].channel
  BY <1>6, <1>7, <1>8, <1>9
<1>12. 1 \in DOMAIN new
  BY <1>9, <1>8
<1>13. \A c, d \in DOMAIN numbers' : numbers'[c] = numbers'[d] => c = d
  BY <1>2, <1>3 DEF SessionInv
<1>14. DOMAIN numbers' \subseteq Channels /\ \A c \in DOMAIN numbers' : numbers'[c] \in NumbersOf(c)
  BY <1>2, <1>3 DEF TypeOK
<1>15. up /\ UNCHANGED <<name, replays, up, dials, mapVars, batch, trades, liqs, due, strays>>
  BY DEF Open
<1>16. Extends(<<>>, new)
  BY <1>3, <1>4, <1>5, <1>6, <1>9, <1>10, <1>11, <1>12, <1>13, <1>14, <1>15 DEF Extends
<1>17. QED
  BY <1>16

(* An array of a book.                                                     *)
LEMMA BookExtends ==
  ASSUME TypeOK, TapeInv, SessionInv, NEW ch \in Channels, SendBook(ch)
  PROVE  \E items, new : Extends(items, new)
<1> DEFINE m == Message("book", ch, <<>>)
<1>1. /\ ch.kind = "book" /\ ch \in DOMAIN numbers /\ numbers' = numbers /\ tape' = tape
      /\ wire' = Append(wire, m)
  BY DEF SendBook, IsOpen, venueVars
<1>2. numbers[ch] \in Numbers \cup Traded
  BY <1>1 DEF TypeOK, NumbersOf, Channels
<1>3. m \in Sent /\ m.label = "book" /\ m.channel = ch /\ m.number = numbers[ch]
      /\ DOMAIN m.items = {}
  BY <1>2 DEF Message, Sent
<1> HIDE DEF m
<1>4. Proper(m)
  BY <1>1, <1>3 DEF Proper
<1>5. wire' = wire \o <<m>> /\ tape' = tape \o <<>> /\ <<>> \in Seq(Entry) /\ <<m>> \in Seq(Sent)
      /\ Len(tape) + Len(<<>>) <= MaxTape
  BY <1>1, <1>3 DEF TypeOK, TapeInv
<1>6. up /\ UNCHANGED <<name, replays, up, dials, mapVars, batch, trades, liqs, due, strays>>
  BY DEF SendBook, venueVars
<1>7. \A k \in DOMAIN <<>> : <<>>[k].id = Len(tape) + k /\ Worded(<<>>[k])
  OBVIOUS
<1>8. Extends(<<>>, <<m>>)
  BY <1>1, <1>3, <1>4, <1>5, <1>6, <1>7 DEF Extends, TypeOK, SessionInv
<1>9. QED
  BY <1>8

-----------------------------------------------------------------------------
(* The connector reads and records                                         *)

(* What holds of the message that is read next.                            *)
LEMMA FirstIsProper ==
  ASSUME TypeOK, SessionInv, ConfirmInv, wire # <<>>
  PROVE  LET m == Head(wire) IN
         /\ m = wire[1] /\ 1 \in DOMAIN wire /\ m \in Sent
         /\ m.channel \in Channels /\ m.channel \in DOMAIN numbers
         /\ m.number = numbers[m.channel] /\ m.number \in NumbersOf(m.channel)
         /\ conn.numbered => m.label = "subscribed" \/ Known(m.channel)
<1>1. Len(wire) \in Nat /\ Len(wire) >= 1 /\ Head(wire) = wire[1] /\ 1 \in DOMAIN wire
  BY DEF TypeOK
<1>2. wire[1] \in Sent
  BY <1>1 DEF TypeOK
<1>3. wire[1].channel \in DOMAIN numbers /\ wire[1].number = numbers[wire[1].channel]
  BY <1>1 DEF SessionInv
<1>4. wire[1].channel \in Channels /\ wire[1].number \in NumbersOf(wire[1].channel)
  BY <1>3 DEF TypeOK
<1>5. conn.numbered => wire[1].label = "subscribed" \/ Known(wire[1].channel)
  BY <1>1 DEF ConfirmInv
<1>6. QED
  BY <1>1, <1>2, <1>3, <1>4, <1>5

(* The connector takes the items for what they are: the number stands for  *)
(* the pair by the time the message is read.                               *)
LEMMA NamedIsItems ==
  ASSUME TypeOK, SessionInv, ConfirmInv, wire # <<>>,
         Head(wire).label \in {"live", "replay"}
  PROVE  Named(Head(wire)) = Head(wire).items /\ IsKnown(Head(wire))
<1> DEFINE m == Head(wire)
<1>1. /\ m = wire[1] /\ 1 \in DOMAIN wire /\ m.items \in Seq(Entry)
      /\ m.number = numbers[m.channel]
      /\ conn.numbered => Known(m.channel)
  BY FirstIsProper DEF Sent
<1>2. CASE conn.numbered
  <2>1. m.channel.kind = "trades" /\ \A k \in DOMAIN m.items : m.items[k].pair = m.channel.pair
    BY <1>1, <1>2 DEF SessionInv
  <2>2. m.number \in DOMAIN tradeChanMap /\ tradeChanMap[m.number] = m.channel.pair
    BY <1>1, <1>2, <2>1 DEF Known, MapOf
  <2>3. \A k \in DOMAIN m.items : [m.items[k] EXCEPT !.pair = tradeChanMap[m.number]] = m.items[k]
    <3>1. TAKE k \in DOMAIN m.items
    <3>2. m.items[k] \in Entry /\ m.items[k].pair = tradeChanMap[m.number]
      BY <1>1, <2>1, <2>2
    <3>3. QED
      BY <3>2 DEF Entry
  <2> HIDE DEF m
  <2>4. Named(m) = [k \in DOMAIN m.items |-> [m.items[k] EXCEPT !.pair = tradeChanMap[m.number]]]
    BY <1>2 DEF Named
  <2>5. Named(m) = [k \in DOMAIN m.items |-> m.items[k]]
    BY <2>3, <2>4
  <2>6. [k \in DOMAIN m.items |-> m.items[k]] = m.items
    BY <1>1
  <2>7. QED
    BY <2>2, <2>5, <2>6 DEF IsKnown, m
<1>3. CASE ~conn.numbered
  BY <1>3 DEF Named, IsKnown
<1>4. QED
  BY <1>2, <1>3

(* An array that goes to a book that is not its own is the first one of a  *)
(* trade channel, and not in the first session.                            *)
LEMMA OnlyOldNumbersStray ==
  ASSUME TypeOK, SessionInv, ConfirmInv, StrayInv, Read
  PROVE  \A ch \in strays' : ch.kind = "trades" /\ replays /\ dials > 1
<1> DEFINE m == Head(wire)
           isArray == m.label = "book" \/ (conn.numbered /\ m.label = "replay")
<1>1. wire # <<>> /\ up
  BY DEF Read, StrayInv
<1>2. /\ m = wire[1] /\ 1 \in DOMAIN wire
      /\ m.channel \in Channels /\ m.channel \in DOMAIN numbers
      /\ m.number = numbers[m.channel]
      /\ conn.numbered => m.label = "subscribed" \/ Known(m.channel)
  BY <1>1, FirstIsProper
<1>3. \A ch \in strays : ch.kind = "trades" /\ replays /\ dials > 1
  BY DEF StrayInv
<1>4. CASE m.label = "book"
  <2>1. m.channel.kind = "book"
    BY <1>2, <1>4 DEF SessionInv
  <2>2. conn.numbered
    BY <1>2, <2>1 DEF Channels
  <2>3. bookChanMap[m.number] = m.channel.pair
    BY <1>2, <1>4, <2>1, <2>2 DEF Known, MapOf
  <2>4. m.channel = [pair |-> bookChanMap[m.number], kind |-> "book"]
    BY <1>2, <2>1, <2>3 DEF Channels
  <2>5. QED
    BY <1>3, <2>4 DEF Read
<1>5. CASE conn.numbered /\ m.label = "replay"
  <2>1. m.channel.kind = "trades" /\ replays
    BY <1>2, <1>5 DEF SessionInv
  <2>2. strays' \subseteq strays \cup {m.channel}
    BY DEF Read
  <2>3. CASE m.number \notin DOMAIN bookChanMap
    BY <1>3, <2>3 DEF Read
  <2>4. CASE m.number \in DOMAIN bookChanMap
    <3>1. dials # 0
      BY <1>1 DEF StrayInv
    <3>2. dials # 1
      <4>1. SUFFICES ASSUME dials = 1 PROVE FALSE
        OBVIOUS
      <4>2. PICK ch \in DOMAIN numbers : ch.kind = "book" /\ numbers[ch] = m.number
        BY <1>1, <2>4, <4>1 DEF StrayInv
      <4>3. ch = m.channel
        BY <1>2, <4>2 DEF SessionInv
      <4>4. QED
        BY <2>1, <4>2, <4>3
    <3>3. dials > 1
      BY <3>1, <3>2, FeedsAssumption DEF TypeOK
    <3>4. QED
      BY <1>3, <2>1, <2>2, <3>3
  <2>5. QED
    BY <2>3, <2>4
<1>6. CASE ~isArray
  BY <1>3, <1>6 DEF Read
<1>7. QED
  BY <1>4, <1>5, <1>6

(* What Read does, but for the maps.                                       *)
LEMMA ReadMoves ==
  ASSUME IInv, Read
  PROVE  /\ batch = <<>> /\ wire # <<>> /\ wire' = Tail(wire)
         /\ UNCHANGED <<venueVars, up, dials, trades, liqs>>
         /\ \/ batch' = <<>> /\ due' = due
            \/ /\ batch' = wire[1].items /\ wire[1].label \in conn.takes
               /\ due' \subseteq due \cup SoundTrades(wire[1])
<1> DEFINE m == Head(wire)
<1>1. batch = <<>> /\ wire # <<>> /\ wire' = Tail(wire)
  BY DEF Read
<1>2. UNCHANGED <<venueVars, up, dials, trades, liqs>>
  BY DEF Read
<1>3. m = wire[1]
  BY <1>1, FirstIsProper DEF IInv
<1>4. "live" \in conn.takes /\ conn.takes \subseteq {"live", "replay"}
  BY ConnFacts DEF IInv, TypeOK, Regular
<1>5. m.label \in {"live", "replay"} => Named(m) = m.items /\ IsKnown(m)
  BY <1>1, NamedIsItems DEF IInv
<1>6. batch' = IF m.label \in conn.takes /\ IsKnown(m) /\ ~Lost(m) THEN Named(m) ELSE <<>>
  BY DEF Read
<1>7. due' = IF m.label = "live" /\ ~Lost(m) THEN due \cup SoundTrades(m) ELSE due
  BY DEF Read
<1> HIDE DEF m
<1>8. CASE m.label \in conn.takes /\ ~Lost(m)
  BY <1>1, <1>2, <1>3, <1>4, <1>5, <1>6, <1>7, <1>8
<1>9. CASE ~(m.label \in conn.takes /\ ~Lost(m))
  BY <1>1, <1>2, <1>4, <1>6, <1>7, <1>9
<1>10. QED
  BY <1>8, <1>9

-----------------------------------------------------------------------------
(* Every step keeps the invariant                                          *)

(* What depends on the connector alone stays.                              *)
LEMMA Kept ==
  ASSUME name' = name
  PROVE  /\ conn' = conn /\ Traded' = Traded /\ Channels' = Channels /\ Entry' = Entry
         /\ Sent' = Sent /\ TradeRow' = TradeRow /\ LiquidationRow' = LiquidationRow
         /\ \A ch : NumbersOf(ch)' = NumbersOf(ch)
         /\ \A x : Worded(x)' = Worded(x)
<1>1. conn' = conn
  BY DEF conn
<1>2. Traded' = Traded
  BY <1>1 DEF Traded
<1>3. Channels' = Channels
  BY <1>1, <1>2 DEF Channels
<1>4. Entry' = Entry
  BY <1>2 DEF Entry
<1>5. Sent' = Sent
  BY <1>2, <1>3, <1>4 DEF Sent
<1>6. TradeRow' = TradeRow
  BY <1>1, <1>2 DEF TradeRow, Symbols
<1>7. LiquidationRow' = LiquidationRow
  BY <1>1, <1>2 DEF LiquidationRow, Symbols
<1>8. \A ch : NumbersOf(ch)' = NumbersOf(ch)
  BY <1>1 DEF NumbersOf
<1>9. \A x : Worded(x)' = Worded(x)
  BY <1>1 DEF Worded, WordsOf
<1>10. QED
  BY <1>1, <1>2, <1>3, <1>4, <1>5, <1>6, <1>7, <1>8, <1>9

(* A session begins or ends, or nothing happens.                           *)
Quiet ==
  /\ UNCHANGED <<name, replays, tape, mapVars, batch, trades, liqs, due, strays>>
  /\ up' \in BOOLEAN /\ dials' \in 0..MaxDials
  /\ \/ UNCHANGED <<up, dials, numbers, wire>>
     \/ up' /\ dials' = dials + 1 /\ UNCHANGED <<numbers, wire>>
     \/ ~up' /\ dials' = dials /\ numbers' = Empty /\ wire' = <<>>

(* Every step is of one of four kinds.                                     *)
LEMMA StepKinds ==
  ASSUME IInv, [Next]_vars
  PROVE  (\E items, new : Extends(items, new)) \/ Quiet \/ Read \/ HandleItem
<1>1. up \in BOOLEAN /\ dials \in 0..MaxDials
  BY DEF IInv, TypeOK
<1>2. CASE UNCHANGED vars
  BY <1>1, <1>2 DEF vars, venueVars, connectionVars, mapVars, Quiet
<1>3. CASE Dial
  BY <1>1, <1>3, FeedsAssumption DEF Dial, venueVars, mapVars, Quiet
<1>4. CASE Lose
  BY <1>1, <1>4 DEF Lose, mapVars, Quiet
<1>5. CASE DealOne \/ DealTwo
  BY <1>5, DealsExtend DEF IInv
<1>6. CASE \E ch \in Channels : Open(ch) \/ SendBook(ch)
  BY <1>6, OpenExtends, BookExtends DEF IInv
<1>7. QED
  BY <1>2, <1>3, <1>4, <1>5, <1>6 DEF Next

(* The invariant of a state in which nothing is on the wire.               *)
LEMMA QuietKeeps ==
  ASSUME IInv, Quiet
  PROVE  IInv'
<1>1. /\ UNCHANGED <<name, replays, tape, tradeChanMap, bookChanMap, batch, trades, liqs,
                     due, strays>>
      /\ up' \in BOOLEAN /\ dials' \in 0..MaxDials
  BY DEF Quiet, mapVars
<1>2. /\ conn' = conn /\ Traded' = Traded /\ Channels' = Channels /\ Entry' = Entry
      /\ Sent' = Sent /\ TradeRow' = TradeRow /\ LiquidationRow' = LiquidationRow
      /\ \A ch : NumbersOf(ch)' = NumbersOf(ch)
      /\ \A x : Worded(x)' = Worded(x)
  BY <1>1, Kept
<1>3. CASE /\ UNCHANGED <<numbers, wire>>
           /\ UNCHANGED <<up, dials>> \/ (up' /\ dials' = dials + 1)
  <2>1. TypeOK'
    BY <1>1, <1>2, <1>3 DEF IInv, TypeOK
  <2>2. TapeInv' /\ TruthInv' /\ RowInv' /\ DueInv'
    BY <1>1, <1>2, <1>3 DEF IInv, TapeInv, TruthInv, True, RowInv, DueInv, SoundArrive
  <2>3. SessionInv' /\ ConfirmInv'
    BY <1>1, <1>2, <1>3 DEF IInv, SessionInv, ConfirmInv, Known, MapOf, Subscribed
  <2>4. OrderInv'
    BY <1>1, <1>2, <1>3 DEF IInv, OrderInv, NoReplays, Taken, Increasing, Before
  <2>5. StrayInv'
    <3>1. CASE UNCHANGED <<up, dials>>
      BY <1>1, <1>3, <3>1 DEF IInv, StrayInv
    <3>2. CASE up' /\ dials' = dials + 1
      <4>1. dials \in Nat
        BY FeedsAssumption DEF IInv, TypeOK
      <4>2. dials' # 0 /\ (dials' = 1 => dials = 0) /\ (dials > 1 => dials' > 1)
        BY <3>2, <4>1
      <4>3. QED
        BY <1>1, <1>3, <3>2, <4>2 DEF IInv, StrayInv
    <3>3. QED
      BY <1>3, <3>1, <3>2
  <2>6. QED
    BY <2>1, <2>2, <2>3, <2>4, <2>5 DEF IInv
<1>4. CASE ~up' /\ dials' = dials /\ numbers' = Empty /\ wire' = <<>>
  <2>1. DOMAIN numbers' = {} /\ wire' \in Seq(Sent) /\ DOMAIN wire' = {}
    BY <1>4 DEF Empty
  <2>2. TypeOK'
    BY <1>1, <1>2, <2>1 DEF IInv, TypeOK
  <2>3. TapeInv' /\ TruthInv' /\ RowInv' /\ DueInv'
    BY <1>1, <1>2, <2>1 DEF IInv, TapeInv, TruthInv, True, RowInv, DueInv, SoundArrive
  <2>4. SessionInv' /\ ConfirmInv'
    BY <1>1, <1>2, <2>1 DEF IInv, SessionInv, ConfirmInv
  <2>5. OrderInv'
    BY <1>1, <1>2, <2>1 DEF IInv, OrderInv, NoReplays, Increasing, Before
  <2>6. StrayInv'
    BY <1>1, <1>4, <2>1 DEF IInv, StrayInv
  <2>7. QED
    BY <2>2, <2>3, <2>4, <2>5, <2>6 DEF IInv
<1>5. QED
  BY <1>3, <1>4 DEF Quiet

(* The venue deals and sends.                                              *)
LEMMA ExtendsKeeps ==
  ASSUME IInv, NEW items, NEW new, Extends(items, new)
  PROVE  IInv'
<1>1. /\ UNCHANGED <<name, replays, up, dials, tradeChanMap, bookChanMap, batch, trades,
                     liqs, due, strays>>
      /\ items \in Seq(Entry) /\ new \in Seq(Sent)
      /\ tape' = tape \o items /\ wire' = wire \o new
  BY DEF Extends, mapVars
<1>2. /\ conn' = conn /\ Traded' = Traded /\ Channels' = Channels /\ Entry' = Entry
      /\ Sent' = Sent /\ TradeRow' = TradeRow /\ LiquidationRow' = LiquidationRow
      /\ \A ch : NumbersOf(ch)' = NumbersOf(ch)
      /\ \A x : Worded(x)' = Worded(x)
  BY <1>1, Kept
<1>3. /\ \A i \in DOMAIN tape : i \in DOMAIN tape' /\ tape'[i] = tape[i]
      /\ \A i \in DOMAIN tape' : i \notin DOMAIN tape =>
           i - Len(tape) \in DOMAIN items /\ tape'[i] = items[i - Len(tape)]
      /\ tape' \in Seq(Entry) /\ Len(tape') = Len(tape) + Len(items)
      /\ Len(tape) \in Nat /\ DOMAIN tape = 1..Len(tape)
  <2>1. tape \in Seq(Entry) /\ items \in Seq(Entry) /\ tape' = tape \o items
    BY <1>1 DEF IInv, TypeOK
  <2>2. QED
    BY <2>1
<1>4. /\ \A i \in DOMAIN wire : i \in DOMAIN wire' /\ wire'[i] = wire[i]
      /\ \A i \in DOMAIN wire' : i \notin DOMAIN wire =>
           i - Len(wire) \in DOMAIN new /\ wire'[i] = new[i - Len(wire)]
      /\ \A k \in DOMAIN new : Len(wire) + k \in DOMAIN wire' /\ wire'[Len(wire) + k] = new[k]
      /\ wire' \in Seq(Sent) /\ DOMAIN wire' = 1..(Len(wire) + Len(new))
      /\ Len(wire) \in Nat /\ DOMAIN wire = 1..Len(wire)
      /\ Len(new) \in Nat /\ DOMAIN new = 1..Len(new)
  <2>1. wire \in Seq(Sent) /\ new \in Seq(Sent) /\ wire' = wire \o new
    BY <1>1 DEF IInv, TypeOK
  <2>2. QED
    BY <2>1
<1>5. TypeOK'
  <2>1. due' \subseteq DOMAIN tape'
    BY <1>1, <1>3 DEF IInv, TypeOK
  <2>2. /\ DOMAIN numbers' \subseteq Channels'
        /\ \A ch \in DOMAIN numbers' : numbers'[ch] \in NumbersOf(ch)'
    BY <1>2 DEF Extends
  <2>3. QED
    BY <1>1, <1>2, <1>3, <1>4, <2>1, <2>2 DEF IInv, TypeOK
<1>6. TapeInv'
  <2>1. \A i \in DOMAIN tape' : tape'[i].id = i /\ Worded(tape'[i])
    <3>1. TAKE i \in DOMAIN tape'
    <3>2. CASE i \in DOMAIN tape
      BY <1>3, <3>2 DEF IInv, TapeInv
    <3>3. CASE i \notin DOMAIN tape
      BY <1>3, <3>3 DEF Extends
    <3>4. QED
      BY <3>2, <3>3
  <2>2. Len(tape') <= MaxTape
    BY <1>3 DEF Extends
  <2>3. QED
    BY <1>2, <2>1, <2>2 DEF TapeInv
<1>7. \A k \in DOMAIN new : Proper(new[k])
  BY DEF Extends
<1>8. TruthInv'
  <2>1. \A i \in DOMAIN wire' : \A k \in DOMAIN wire'[i].items :
          /\ wire'[i].items[k].id \in DOMAIN tape'
          /\ tape'[wire'[i].items[k].id] = wire'[i].items[k]
    <3>1. TAKE i \in DOMAIN wire'
    <3>2. TAKE k \in DOMAIN wire'[i].items
    <3>3. CASE i \in DOMAIN wire
      BY <1>3, <1>4, <3>3 DEF IInv, TruthInv, True
    <3>4. CASE i \notin DOMAIN wire
      BY <1>4, <1>7, <3>4 DEF Proper
    <3>5. QED
      BY <3>3, <3>4
  <2>2. \A i \in DOMAIN batch' : batch'[i].id \in DOMAIN tape' /\ tape'[batch'[i].id] = batch'[i]
    BY <1>1, <1>3 DEF IInv, TruthInv, True
  <2>3. QED
    BY <2>1, <2>2 DEF TruthInv, True
<1>9. SessionInv'
  <2>1. \A c, d \in DOMAIN numbers' : numbers'[c] = numbers'[d] => c = d
    BY DEF Extends
  <2>2. \A ch \in DOMAIN numbers : ch \in DOMAIN numbers' /\ numbers'[ch] = numbers[ch]
    BY DEF Extends
  <2> DEFINE P(m) ==
         /\ m.channel \in DOMAIN numbers'
         /\ m.number = numbers'[m.channel]
         /\ m.label = "book" => m.channel.kind = "book"
         /\ m.label \in {"live", "announced", "replay"} => m.channel.kind = "trades"
         /\ conn.numbered => \A k \in DOMAIN m.items : m.items[k].pair = m.channel.pair
         /\ m.label = "replay" => replays
  <2>3. \A i \in DOMAIN wire' : P(wire'[i])
    <3>1. TAKE i \in DOMAIN wire'
    <3>2. CASE i \in DOMAIN wire
      BY <1>4, <2>2, <3>2 DEF IInv, SessionInv
    <3>3. CASE i \notin DOMAIN wire
      BY <1>4, <1>7, <3>3 DEF Proper
    <3>4. QED
      BY <3>2, <3>3
  <2>4. QED
    BY <1>1, <1>2, <2>1, <2>3 DEF SessionInv
<1>10. ConfirmInv'
  <2>1. SUFFICES ASSUME conn.numbered PROVE ConfirmInv'
    BY <1>2 DEF ConfirmInv
  <2>2. \A ch \in DOMAIN numbers : Known(ch)' = Known(ch) /\ ch \in DOMAIN numbers'
    BY <1>1 DEF Extends, Known, MapOf
  <2>3. \A k \in DOMAIN wire : \A ch : Subscribed(k, ch) => Subscribed(k, ch)'
    BY <1>4 DEF Subscribed
  <2>4. \A k \in DOMAIN new : \A ch, n :
          new[k].label = "subscribed" /\ new[k].channel = ch /\ n = Len(wire) + k =>
            n \in DOMAIN wire' /\ Subscribed(n, ch)'
    BY <1>4 DEF Subscribed
  <2>5. \A ch \in DOMAIN numbers : Known(ch)' \/ \E k \in DOMAIN wire : Subscribed(k, ch)'
    BY <2>1, <2>2, <2>3 DEF IInv, ConfirmInv
  <2>6. \A ch \in DOMAIN numbers' : Known(ch)' \/ \E k \in DOMAIN wire' : Subscribed(k, ch)'
    <3>1. TAKE ch \in DOMAIN numbers'
    <3>2. CASE ch \in DOMAIN numbers
      BY <1>4, <2>5, <3>2
    <3>3. CASE ch \notin DOMAIN numbers
      <4>1. PICK k \in DOMAIN new : new[k].label = "subscribed" /\ new[k].channel = ch
        BY <3>3 DEF Extends
      <4>2. QED
        BY <4>1, <1>4, <2>4
    <3>4. QED
      BY <3>2, <3>3
  <2>7. ASSUME NEW i \in DOMAIN wire', NEW c, c = wire'[i].channel
        PROVE  \/ wire'[i].label = "subscribed"
               \/ Known(c)'
               \/ \E k \in 1..(i-1) : Subscribed(k, c)'
    <3>2. CASE i \in DOMAIN wire
      <4>1. /\ c \in DOMAIN numbers /\ wire'[i] = wire[i] /\ c = wire[i].channel
            /\ \A k \in 1..(i-1) : k \in DOMAIN wire
        BY <1>4, <2>7, <3>2 DEF IInv, SessionInv
      <4>2. \/ wire[i].label = "subscribed"
            \/ Known(c)
            \/ \E k \in 1..(i-1) : Subscribed(k, c)
        BY <2>1, <3>2, <4>1 DEF IInv, ConfirmInv
      <4>3. QED
        BY <4>1, <4>2, <2>2, <2>3
    <3>3. CASE i \notin DOMAIN wire
      <4> DEFINE j == i - Len(wire)
      <4>1. /\ j \in DOMAIN new /\ wire'[i] = new[j] /\ i \in Nat /\ c = new[j].channel
            /\ \A k \in DOMAIN wire : k \in 1..(i-1)
        BY <1>4, <2>7, <3>3
      <4> HIDE DEF j
      <4>2. \/ new[j].label = "subscribed"
            \/ c \in DOMAIN numbers
            \/ \E k \in 1..(j-1) : new[k].label = "subscribed" /\ new[k].channel = c
        BY <4>1 DEF Extends
      <4>3. CASE c \in DOMAIN numbers
        BY <4>1, <4>3, <2>5
      <4>4. CASE \E k \in 1..(j-1) : new[k].label = "subscribed" /\ new[k].channel = c
        <5>1. PICK k \in 1..(j-1) : new[k].label = "subscribed" /\ new[k].channel = c
          BY <4>4
        <5>2. k \in DOMAIN new /\ Len(wire) + k \in 1..(i-1)
          BY <4>1, <1>4 DEF j
        <5>3. QED
          BY <5>1, <5>2, <4>1, <2>4
      <4>5. QED
        BY <4>1, <4>2, <4>3, <4>4
    <3>4. QED
      BY <3>2, <3>3
  <2>8. QED
    BY <2>6, <2>7 DEF ConfirmInv, Known, MapOf, Subscribed
<1>11. RowInv'
  BY <1>1, <1>2, <1>3 DEF IInv, RowInv
<1>12. DueInv'
  <2>1. \A d \in due : d \in DOMAIN tape /\ tape[d].kind = "trade" /\ tape[d].defect = "none"
    BY DEF IInv, DueInv, TypeOK
  <2>2. \A d \in due' : tape'[d].kind = "trade" /\ tape'[d].defect = "none"
    BY <1>1, <1>3, <2>1
  <2>3. SoundArrive'
    BY <1>1 DEF IInv, DueInv, SoundArrive
  <2>4. QED
    BY <2>2, <2>3 DEF DueInv
<1>13. OrderInv'
  <2>1. SUFFICES ASSUME NoReplays PROVE OrderInv'
    BY <1>1, <1>2 DEF OrderInv, NoReplays
  <2>2. /\ Increasing(trades) /\ Increasing(batch) /\ Before(trades, batch)
    BY <2>1 DEF IInv, OrderInv
  <2>3. /\ \A i \in DOMAIN trades : trades[i].id \in 1..Len(tape)
        /\ \A i \in DOMAIN batch : batch[i].id \in 1..Len(tape)
        /\ \A i \in DOMAIN wire : \A k \in DOMAIN wire[i].items :
             wire[i].items[k].id \in 1..Len(tape)
    BY <1>3 DEF IInv, RowInv, TruthInv, True
  <2>4. \A k \in DOMAIN items : items[k].id \in Nat /\ items[k].id = Len(tape) + k /\ k \in Nat
    BY <1>1, <1>3 DEF Extends
  <2>5. \A i \in DOMAIN new : new[i].label \in conn.takes =>
          new[i].items = items /\ i = Len(new)
    <3>1. TAKE i \in DOMAIN new
    <3>2. ASSUME new[i].label \in conn.takes PROVE new[i].items = items /\ i = Len(new)
      <4>1. conn.takes \subseteq {"live", "replay"}
        BY ConnFacts DEF IInv, TypeOK, Regular
      <4>2. new[i].label # "replay"
        BY <2>1, <3>2, <1>7 DEF Proper, NoReplays
      <4>3. QED
        BY <3>2, <4>1, <4>2 DEF Extends
    <3>3. QED
      BY <3>2
  <2>6. Increasing(items) /\ Before(trades, items) /\ Before(batch, items)
        /\ \A i \in DOMAIN wire : Before(wire[i].items, items)
    BY <2>3, <2>4, <1>3 DEF Increasing, Before
  <2>7. \A i \in DOMAIN wire' : Taken(i)' =>
          \/ i \in DOMAIN wire /\ Taken(i) /\ wire'[i] = wire[i]
          \/ i \notin DOMAIN wire /\ wire'[i].items = items /\ i = Len(wire) + Len(new)
    <3>1. TAKE i \in DOMAIN wire'
    <3>2. Taken(i)' <=> wire'[i].label \in conn.takes
      BY <1>2 DEF Taken
    <3>3. CASE i \in DOMAIN wire
      BY <1>4, <3>2, <3>3 DEF Taken
    <3>4. CASE i \notin DOMAIN wire
      <4> DEFINE j == i - Len(wire)
      <4>1. j \in DOMAIN new /\ wire'[i] = new[j] /\ i = Len(wire) + j
        BY <1>4, <3>4
      <4> HIDE DEF j
      <4>2. ASSUME Taken(i)' PROVE wire'[i].items = items /\ i = Len(wire) + Len(new)
        <5>1. new[j].label \in conn.takes
          BY <4>1, <4>2, <3>2
        <5>2. new[j].items = items /\ j = Len(new)
          BY <4>1, <5>1, <2>5
        <5>3. QED
          BY <4>1, <5>2
      <4>3. QED
        BY <3>4, <4>2
    <3>5. QED
      BY <3>3, <3>4
  <2>8. \A i \in DOMAIN wire : Taken(i) =>
          /\ Increasing(wire[i].items)
          /\ Before(trades, wire[i].items)
          /\ Before(batch, wire[i].items)
          /\ \A j \in DOMAIN wire : i < j /\ Taken(j) => Before(wire[i].items, wire[j].items)
    BY <2>1 DEF IInv, OrderInv
  <2>9. \A i \in DOMAIN wire' : Taken(i)' =>
          /\ Increasing(wire'[i].items)
          /\ Before(trades, wire'[i].items)
          /\ Before(batch, wire'[i].items)
    BY <2>6, <2>7, <2>8
  <2>10. \A i, j \in DOMAIN wire' :
           Taken(i)' /\ Taken(j)' /\ i < j => Before(wire'[i].items, wire'[j].items)
    <3>1. TAKE i \in DOMAIN wire', j \in DOMAIN wire'
    <3>2. ASSUME Taken(i)', Taken(j)', i < j PROVE Before(wire'[i].items, wire'[j].items)
      <4>1. i \in DOMAIN wire /\ wire'[i] = wire[i] /\ Taken(i)
        BY <1>4, <2>7, <3>2
      <4>2. CASE j \in DOMAIN wire
        BY <4>1, <4>2, <2>7, <2>8, <3>2
      <4>3. CASE j \notin DOMAIN wire
        BY <4>1, <4>3, <2>6, <2>7, <3>2
      <4>4. QED
        BY <4>2, <4>3
    <3>3. QED
      BY <3>2
  <2>11. /\ Increasing(trades') /\ Increasing(batch') /\ Before(trades', batch')
         /\ \A i \in DOMAIN wire' : Taken(i)' =>
              /\ Increasing(wire'[i].items)
              /\ Before(trades', wire'[i].items)
              /\ Before(batch', wire'[i].items)
              /\ \A j \in DOMAIN wire' : i < j /\ Taken(j)' =>
                   Before(wire'[i].items, wire'[j].items)
    BY <1>1, <2>2, <2>9, <2>10
  <2>12. QED
    BY <2>11 DEF OrderInv, Increasing, Before
<1>14. StrayInv'
  <2>1. \A ch \in DOMAIN numbers : ch \in DOMAIN numbers' /\ numbers'[ch] = numbers[ch]
    BY DEF Extends
  <2>2. ~up => numbers' = numbers /\ wire' = wire
    BY DEF Extends, IInv, TypeOK
  <2>3. QED
    BY <1>1, <2>1, <2>2 DEF IInv, StrayInv
<1>15. QED
  BY <1>5, <1>6, <1>8, <1>9, <1>10, <1>11, <1>12, <1>13, <1>14 DEF IInv

(* What the connector knows of the numbers of this session it keeps, and a *)
(* channel that is confirmed becomes known.                                *)
LEMMA ReadLearns ==
  ASSUME IInv, Read
  PROVE  /\ DOMAIN tradeChanMap' \cup DOMAIN bookChanMap' \subseteq Numbers
         /\ \A n \in DOMAIN tradeChanMap' : tradeChanMap'[n] \in Traded
         /\ \A n \in DOMAIN bookChanMap' : bookChanMap'[n] \in Traded
         /\ ~conn.numbered => tradeChanMap' = Empty /\ bookChanMap' = Empty
         /\ \A n \in DOMAIN bookChanMap' \ DOMAIN bookChanMap :
              \E ch \in DOMAIN numbers : ch.kind = "book" /\ numbers[ch] = n
         /\ conn.numbered =>
              \A ch \in DOMAIN numbers : Known(ch) \/ Subscribed(1, ch) => Known(ch)'
<1> DEFINE m == wire[1]
<1>0. PICK c, n : c = m.channel /\ n = m.number
  OBVIOUS
<1>1. wire # <<>> /\ numbers' = numbers
  BY DEF Read, venueVars
<1>2. /\ m = Head(wire) /\ c \in Channels /\ c \in DOMAIN numbers
      /\ n = numbers[c] /\ n \in NumbersOf(c)
  BY <1>0, <1>1, FirstIsProper DEF IInv
<1>3. /\ DOMAIN tradeChanMap \cup DOMAIN bookChanMap \subseteq Numbers
      /\ \A x \in DOMAIN tradeChanMap : tradeChanMap[x] \in Traded
      /\ \A x \in DOMAIN bookChanMap : bookChanMap[x] \in Traded
      /\ ~conn.numbered => tradeChanMap = Empty /\ bookChanMap = Empty
      /\ DOMAIN numbers \subseteq Channels
  BY DEF IInv, TypeOK
<1>4. CASE ~(conn.numbered /\ m.label = "subscribed")
  <2>1. UNCHANGED <<tradeChanMap, bookChanMap>>
    BY <1>2, <1>4 DEF Read, mapVars
  <2>2. conn.numbered => \A ch \in DOMAIN numbers : Known(ch) => Known(ch)'
    BY <2>1, <1>1 DEF Known, MapOf
  <2>3. conn.numbered => \A ch : ~Subscribed(1, ch)
    BY <1>4 DEF Subscribed
  <2>4. QED
    BY <1>3, <2>1, <2>2, <2>3
<1>5. CASE conn.numbered /\ m.label = "subscribed"
  <2>1. Confirmed(c, n)
    BY <1>0, <1>2, <1>5 DEF Read
  <2>2. c.pair \in Traded /\ c.kind \in {"trades", "book"}
    BY <1>2, <1>5 DEF Channels
  <2>3. \A ch \in DOMAIN numbers : ch # c => numbers[ch] # n
    BY <1>2 DEF IInv, SessionInv
  <2>4. \A ch : Subscribed(1, ch) => ch = c
    BY <1>0 DEF Subscribed
  <2> HIDE DEF m
  <2>5. CASE c.kind = "trades"
    <3>1. /\ tradeChanMap' = Keep(tradeChanMap, n, c.pair) /\ bookChanMap' = bookChanMap
          /\ n \in Numbers
      BY <1>2, <1>5, <2>1, <2>5 DEF Confirmed, NumbersOf
    <3>2. /\ DOMAIN tradeChanMap' = DOMAIN tradeChanMap \cup {n}
          /\ tradeChanMap'[n] = c.pair
          /\ \A k \in DOMAIN tradeChanMap : k # n => tradeChanMap'[k] = tradeChanMap[k]
      BY <3>1 DEF Keep
    <3>3. \A ch \in DOMAIN numbers : Known(ch) /\ ch # c => Known(ch)'
      BY <1>1, <2>3, <3>1, <3>2 DEF Known, MapOf
    <3>4. Known(c)'
      BY <1>1, <1>2, <2>5, <3>2 DEF Known, MapOf
    <3>5. QED
      BY <1>3, <1>5, <2>2, <2>4, <3>1, <3>2, <3>3, <3>4
  <2>6. CASE c.kind = "book"
    <3>1. /\ bookChanMap' = Keep(bookChanMap, n, c.pair) /\ tradeChanMap' = tradeChanMap
          /\ n \in Numbers
      BY <1>2, <1>5, <2>1, <2>6 DEF Confirmed, NumbersOf
    <3>2. /\ DOMAIN bookChanMap' = DOMAIN bookChanMap \cup {n}
          /\ bookChanMap'[n] = c.pair
          /\ \A k \in DOMAIN bookChanMap : k # n => bookChanMap'[k] = bookChanMap[k]
      BY <3>1 DEF Keep
    <3>3. \A ch \in DOMAIN numbers : Known(ch) /\ ch # c => Known(ch)'
      BY <1>1, <2>3, <3>1, <3>2 DEF Known, MapOf
    <3>4. Known(c)'
      BY <1>1, <1>2, <2>6, <3>2 DEF Known, MapOf
    <3>5. \A k \in DOMAIN bookChanMap' \ DOMAIN bookChanMap :
            \E ch \in DOMAIN numbers : ch.kind = "book" /\ numbers[ch] = k
      BY <1>2, <2>6, <3>2
    <3>6. QED
      BY <1>3, <1>5, <2>2, <2>4, <3>1, <3>2, <3>3, <3>4, <3>5
  <2>7. QED
    BY <2>2, <2>5, <2>6
<1>6. QED
  BY <1>4, <1>5

(* The message handler takes the next message from the wire.               *)
LEMMA ReadKeeps ==
  ASSUME IInv, Read
  PROVE  IInv'
<1> DEFINE m == wire[1]
<1>1. /\ batch = <<>> /\ wire # <<>> /\ wire' = Tail(wire)
      /\ UNCHANGED <<name, replays, tape, numbers, up, dials, trades, liqs>>
      /\ \/ batch' = <<>> /\ due' = due
         \/ /\ batch' = m.items /\ m.label \in conn.takes
            /\ due' \subseteq due \cup SoundTrades(m)
  BY ReadMoves DEF venueVars
<1>2. /\ conn' = conn /\ Traded' = Traded /\ Channels' = Channels /\ Entry' = Entry
      /\ Sent' = Sent /\ TradeRow' = TradeRow /\ LiquidationRow' = LiquidationRow
      /\ \A ch : NumbersOf(ch)' = NumbersOf(ch)
      /\ \A x : Worded(x)' = Worded(x)
  BY <1>1, Kept
<1>3. /\ m = Head(wire) /\ 1 \in DOMAIN wire /\ m \in Sent
      /\ m.channel \in Channels /\ m.channel \in DOMAIN numbers
      /\ m.number = numbers[m.channel] /\ m.number \in NumbersOf(m.channel)
  BY <1>1, FirstIsProper DEF IInv
<1>4. /\ wire' \in Seq(Sent) /\ Len(wire') = Len(wire) - 1 /\ Len(wire) \in Nat \ {0}
      /\ DOMAIN wire' = 1..(Len(wire) - 1)
      /\ \A i \in DOMAIN wire' : i + 1 \in DOMAIN wire /\ wire'[i] = wire[i + 1]
      /\ DOMAIN wire = 1..Len(wire)
  BY <1>1 DEF IInv, TypeOK
<1>5. m.items \in Seq(Entry) /\ \A k \in DOMAIN m.items : m.items[k].id \in DOMAIN tape
                                                  /\ tape[m.items[k].id] = m.items[k]
  BY <1>3 DEF Sent, IInv, TruthInv, True
<1>6. batch' \in Seq(Entry) /\ \A k \in DOMAIN batch' : batch'[k].id \in DOMAIN tape
                                                 /\ tape[batch'[k].id] = batch'[k]
  <2>1. CASE batch' = <<>>
    BY <2>1
  <2>2. CASE batch' = m.items
    BY <1>5, <2>2
  <2>3. QED
    BY <1>1, <2>1, <2>2
<1>7. \A d \in due' :
        /\ d \in DOMAIN tape /\ tape[d].kind = "trade" /\ tape[d].defect = "none"
        /\ \/ d \in {trades[i].id : i \in DOMAIN trades}
           \/ d \in {batch'[i].id : i \in DOMAIN batch'}
  <2>1. \A d \in due : /\ d \in DOMAIN tape /\ tape[d].kind = "trade" /\ tape[d].defect = "none"
                       /\ d \in {trades[i].id : i \in DOMAIN trades}
    BY <1>1 DEF IInv, TypeOK, DueInv, SoundArrive
  <2>2. \A d \in SoundTrades(m) :
          /\ d \in DOMAIN tape /\ tape[d].kind = "trade" /\ tape[d].defect = "none"
          /\ d \in {m.items[i].id : i \in DOMAIN m.items}
    <3>1. TAKE d \in SoundTrades(m)
    <3> HIDE DEF m
    <3>2. PICK i \in DOMAIN m.items : /\ d = m.items[i].id /\ m.items[i].kind = "trade"
                                      /\ m.items[i].defect = "none"
      BY DEF SoundTrades
    <3>3. QED
      BY <1>5, <3>2
  <2> HIDE DEF m
  <2>3. QED
    BY <1>1, <2>1, <2>2
<1>8. TypeOK'
  <2>1. due' \subseteq DOMAIN tape
    BY <1>7
  <2>2. QED
    BY <1>1, <1>2, <1>4, <1>6, <2>1, ReadLearns DEF IInv, TypeOK
<1>9. TapeInv'
  BY <1>1, <1>2 DEF IInv, TapeInv
<1>10. TruthInv'
  <2>1. \A i \in DOMAIN wire' : \A k \in DOMAIN wire'[i].items :
          /\ wire'[i].items[k].id \in DOMAIN tape
          /\ tape[wire'[i].items[k].id] = wire'[i].items[k]
    BY <1>4 DEF IInv, TruthInv, True
  <2>2. QED
    BY <1>1, <1>6, <2>1 DEF TruthInv, True
<1>11. SessionInv'
  BY <1>1, <1>2, <1>4 DEF IInv, SessionInv
<1>12. ConfirmInv'
  <2>1. SUFFICES ASSUME conn.numbered PROVE ConfirmInv'
    BY <1>2 DEF ConfirmInv
  <2>2. \A ch \in DOMAIN numbers : Known(ch) \/ Subscribed(1, ch) => Known(ch)'
    BY <2>1, ReadLearns
  <2>3. ASSUME NEW k \in DOMAIN wire, NEW ch \in DOMAIN numbers, NEW n, Subscribed(k, ch), n = k - 1
        PROVE  Known(ch)' \/ (n \in DOMAIN wire' /\ Subscribed(n, ch)')
    <3>1. CASE k = 1
      BY <2>2, <2>3, <3>1
    <3>2. CASE k # 1
      <4>1. n \in DOMAIN wire' /\ n + 1 = k
        BY <1>4, <2>3, <3>2
      <4>2. Subscribed(n, ch)'
        BY <4>1, <1>4, <2>3 DEF Subscribed
      <4>3. QED
        BY <4>1, <4>2
    <3>3. QED
      BY <3>1, <3>2
  <2>4. ASSUME NEW ch \in DOMAIN numbers
        PROVE  Known(ch)' \/ \E n \in DOMAIN wire' : Subscribed(n, ch)'
    <3>1. CASE Known(ch)
      BY <2>2, <3>1
    <3>2. CASE ~Known(ch)
      <4>1. PICK k \in DOMAIN wire : Subscribed(k, ch)
        BY <2>1, <3>2 DEF IInv, ConfirmInv
      <4>2. QED
        BY <4>1, <2>3
    <3>3. QED
      BY <3>1, <3>2
  <2>5. ASSUME NEW i \in DOMAIN wire', NEW ch, ch = wire'[i].channel
        PROVE  \/ wire'[i].label = "subscribed"
               \/ Known(ch)'
               \/ \E n \in 1..(i-1) : Subscribed(n, ch)'
    <3>1. /\ i + 1 \in DOMAIN wire /\ wire'[i] = wire[i + 1] /\ i \in Nat
          /\ ch \in DOMAIN numbers
      BY <1>4, <2>5 DEF IInv, SessionInv
    <3>2. \/ wire[i + 1].label = "subscribed"
          \/ Known(ch)
          \/ \E k \in 1..i : Subscribed(k, ch)
      BY <2>1, <2>5, <3>1 DEF IInv, ConfirmInv
    <3>3. ASSUME NEW k \in 1..i, Subscribed(k, ch)
          PROVE  Known(ch)' \/ \E n \in 1..(i-1) : Subscribed(n, ch)'
      <4>1. k \in DOMAIN wire /\ (k - 1 \in DOMAIN wire' => k - 1 \in 1..(i-1))
        BY <3>1, <3>3, <1>4
      <4>2. QED
        BY <3>1, <3>3, <4>1, <2>3
    <3>4. QED
      BY <2>2, <3>1, <3>2, <3>3
  <2>6. \A ch \in DOMAIN numbers' : Known(ch)' \/ \E n \in DOMAIN wire' : Subscribed(n, ch)'
    BY <1>1, <2>4
  <2>7. QED
    BY <2>5, <2>6 DEF ConfirmInv, Known, MapOf, Subscribed
<1>13. RowInv'
  BY <1>1, <1>2 DEF IInv, RowInv
<1>14. DueInv'
  BY <1>1, <1>7 DEF DueInv, SoundArrive
<1>15. OrderInv'
  <2>1. SUFFICES ASSUME NoReplays PROVE OrderInv'
    BY <1>1, <1>2 DEF OrderInv, NoReplays
  <2>2. Increasing(trades)
    BY <2>1 DEF IInv, OrderInv
  <2>3. \A i \in DOMAIN wire : wire[i].label \in conn.takes =>
          /\ Increasing(wire[i].items)
          /\ Before(trades, wire[i].items)
          /\ \A j \in DOMAIN wire : i < j /\ wire[j].label \in conn.takes =>
               Before(wire[i].items, wire[j].items)
    BY <2>1 DEF IInv, OrderInv, Taken
  <2>4. \A i \in DOMAIN wire' : i \in Nat /\ 1 < i + 1 /\ \A j \in DOMAIN wire' : i < j => i + 1 < j + 1
    BY <1>4
  <2>5. \A i \in DOMAIN wire' : wire'[i].label \in conn.takes =>
          /\ Increasing(wire'[i].items)
          /\ Before(trades, wire'[i].items)
          /\ \A j \in DOMAIN wire' : i < j /\ wire'[j].label \in conn.takes =>
               Before(wire'[i].items, wire'[j].items)
    BY <1>4, <2>3, <2>4
  <2>6. /\ Increasing(batch') /\ Before(trades, batch')
        /\ \A i \in DOMAIN wire' : wire'[i].label \in conn.takes => Before(batch', wire'[i].items)
    <3>1. CASE batch' = <<>>
      BY <3>1 DEF Increasing, Before
    <3>2. CASE batch' = m.items /\ m.label \in conn.takes
      BY <1>3, <1>4, <2>3, <2>4, <3>2
    <3>3. QED
      BY <1>1, <3>1, <3>2
  <2>7. QED
    BY <1>1, <1>2, <2>2, <2>5, <2>6 DEF OrderInv, Taken, Increasing, Before
<1>16. StrayInv'
  <2>1. up
    BY <1>1 DEF IInv, StrayInv
  <2>2. dials # 0
    BY <2>1 DEF IInv, StrayInv
  <2>3. \A ch \in strays' : ch.kind = "trades" /\ replays /\ dials > 1
    BY OnlyOldNumbersStray DEF IInv
  <2>4. dials = 1 =>
          \A n \in DOMAIN bookChanMap' :
            \E ch \in DOMAIN numbers : ch.kind = "book" /\ numbers[ch] = n
    BY <2>1, ReadLearns DEF IInv, StrayInv
  <2>5. QED
    BY <1>1, <2>1, <2>2, <2>3, <2>4 DEF StrayInv
<1>17. QED
  BY <1>8, <1>9, <1>10, <1>11, <1>12, <1>13, <1>14, <1>15, <1>16 DEF IInv

(* The loop over the items does one round.                                 *)
LEMMA HandleKeeps ==
  ASSUME IInv, HandleItem
  PROVE  IInv'
<1> DEFINE e == batch[1]
<1>1. /\ batch # <<>> /\ e = Head(batch) /\ batch' = Tail(batch)
      /\ trades' = (IF IsTraded(conn, e) THEN Append(trades, Trade(conn, e)) ELSE trades)
      /\ liqs' = (IF IsLiquidated(conn, e) THEN Append(liqs, Liquidation(conn, e)) ELSE liqs)
      /\ UNCHANGED <<name, replays, tape, numbers, up, dials, wire, tradeChanMap,
                     bookChanMap, due, strays>>
  <2>1. batch # <<>> /\ e = Head(batch)
    BY DEF HandleItem, IInv, TypeOK
  <2>2. QED
    BY <2>1 DEF HandleItem, Rest, venueVars, connectionVars, mapVars
<1>2. /\ conn' = conn /\ Traded' = Traded /\ Channels' = Channels /\ Entry' = Entry
      /\ Sent' = Sent /\ TradeRow' = TradeRow /\ LiquidationRow' = LiquidationRow
      /\ \A ch : NumbersOf(ch)' = NumbersOf(ch)
      /\ \A x : Worded(x)' = Worded(x)
  BY <1>1, Kept
<1>3. /\ batch' \in Seq(Entry) /\ Len(batch') = Len(batch) - 1 /\ Len(batch) \in Nat \ {0}
      /\ DOMAIN batch' = 1..(Len(batch) - 1) /\ DOMAIN batch = 1..Len(batch)
      /\ \A i \in DOMAIN batch' : i + 1 \in DOMAIN batch /\ batch'[i] = batch[i + 1]
      /\ \A i \in DOMAIN batch : i # 1 => i - 1 \in DOMAIN batch' /\ batch'[i - 1] = batch[i]
      /\ 1 \in DOMAIN batch
  BY <1>1 DEF IInv, TypeOK
<1>4. e \in Entry /\ e.id \in DOMAIN tape /\ tape[e.id] = e
  BY <1>3 DEF IInv, TypeOK, TruthInv, True
<1>5. /\ e.pair \in DOMAIN conn.type /\ e.pair \in Traded /\ e.word \in Word
      /\ Labelled(conn) /\ Regular(conn) /\ Reads(conn)
  BY <1>4, ConnFacts DEF Entry, Traded, IInv, TypeOK
<1> HIDE DEF e
<1>6. Trade(conn, e).id = e.id /\ Liquidation(conn, e).id = e.id
  BY DEF Trade, Liquidation
<1>7. Trade(conn, e) \in TradeRow
  <2>1. SideOf(conn, e) \in Word /\ conn.symbol[e.pair] \in Symbols
    BY <1>5 DEF SideOf, Reads, Symbols
  <2>2. TimeOf(conn, e) \in {"venue", "now", "1970"}
    BY DEF TimeOf
  <2>3. /\ e.id \in 1..MaxTape /\ e.pair \in Traded
        /\ conn.type[e.pair] \in MarketType /\ conn.quote[e.pair] \in Formula
    BY <1>4, <1>5 DEF Entry, Labelled
  <2>4. QED
    BY <2>1, <2>2, <2>3 DEF Trade, TradeRow
<1>8. Liquidation(conn, e) \in LiquidationRow
  <2>1. LiquidatedSide(conn, e) \in Word /\ conn.symbol[e.pair] \in Symbols
    BY <1>5, LowerReads DEF LiquidatedSide, Symbols
  <2>2. /\ e.id \in 1..MaxTape /\ e.pair \in Traded
        /\ conn.type[e.pair] \in MarketType /\ conn.quote[e.pair] \in Formula
    BY <1>4, <1>5 DEF Entry, Labelled
  <2>3. QED
    BY <2>1, <2>2 DEF Liquidation, LiquidationRow
<1>9. /\ trades' \in Seq(TradeRow)
      /\ \A i \in DOMAIN trades' :
           \/ i \in DOMAIN trades /\ trades'[i] = trades[i]
           \/ /\ i = Len(trades) + 1 /\ i \notin DOMAIN trades
              /\ trades'[i] = Trade(conn, e) /\ IsTraded(conn, e)
      /\ \A i \in DOMAIN trades : i \in DOMAIN trades' /\ trades'[i] = trades[i]
      /\ IsTraded(conn, e) => \E i \in DOMAIN trades' : trades'[i] = Trade(conn, e)
      /\ DOMAIN trades = 1..Len(trades) /\ Len(trades) \in Nat
  <2>1. trades \in Seq(TradeRow)
    BY DEF IInv, TypeOK
  <2> DEFINE t == Trade(conn, e)
  <2>2. t \in TradeRow
    BY <1>7
  <2> HIDE DEF t
  <2>3. CASE IsTraded(conn, e)
    <3>1. trades' = Append(trades, t)
      BY <1>1, <2>3 DEF t
    <3>2. Len(trades) + 1 \in DOMAIN trades' /\ trades'[Len(trades) + 1] = t
      BY <2>1, <2>2, <3>1
    <3>3. QED
      BY <2>1, <2>2, <2>3, <3>1, <3>2 DEF t
  <2>4. CASE ~IsTraded(conn, e)
    BY <1>1, <2>1, <2>4
  <2>5. QED
    BY <2>3, <2>4
<1>10. /\ liqs' \in Seq(LiquidationRow)
       /\ \A i \in DOMAIN liqs' :
            \/ i \in DOMAIN liqs /\ liqs'[i] = liqs[i]
            \/ liqs'[i] = Liquidation(conn, e) /\ e.kind = "liquidation"
  <2>1. liqs \in Seq(LiquidationRow)
    BY DEF IInv, TypeOK
  <2> DEFINE l == Liquidation(conn, e)
  <2>2. l \in LiquidationRow
    BY <1>8
  <2> HIDE DEF l
  <2>3. CASE IsLiquidated(conn, e)
    <3>1. liqs' = Append(liqs, l)
      BY <1>1, <2>3 DEF l
    <3>2. QED
      BY <2>1, <2>2, <2>3, <3>1 DEF l, IsLiquidated
  <2>4. CASE ~IsLiquidated(conn, e)
    BY <1>1, <2>1, <2>4
  <2>5. QED
    BY <2>3, <2>4
<1>11. TypeOK'
  BY <1>1, <1>2, <1>3, <1>9, <1>10 DEF IInv, TypeOK
<1>12. TapeInv' /\ StrayInv'
  BY <1>1, <1>2 DEF IInv, TapeInv, StrayInv
<1>13. TruthInv'
  BY <1>1, <1>3 DEF IInv, TruthInv, True
<1>14. SessionInv' /\ ConfirmInv'
  BY <1>1, <1>2 DEF IInv, SessionInv, ConfirmInv, Known, MapOf, Subscribed
<1>15. RowInv'
  <2>1. \A i \in DOMAIN trades' :
          /\ trades'[i].id \in DOMAIN tape
          /\ IsTraded(conn, tape[trades'[i].id])
          /\ trades'[i] = Trade(conn, tape[trades'[i].id])
    BY <1>4, <1>6, <1>9 DEF IInv, RowInv
  <2>2. \A i \in DOMAIN liqs' :
          /\ liqs'[i].id \in DOMAIN tape
          /\ tape[liqs'[i].id].kind = "liquidation"
          /\ liqs'[i] = Liquidation(conn, tape[liqs'[i].id])
    BY <1>4, <1>6, <1>10 DEF IInv, RowInv
  <2>3. QED
    BY <1>1, <1>2, <2>1, <2>2 DEF IInv, RowInv
<1>16. DueInv'
  <2>1. \A d \in due : tape[d].kind = "trade" /\ tape[d].defect = "none"
    BY DEF IInv, DueInv
  <2>2. ASSUME NEW d \in due
        PROVE  \/ \E i \in DOMAIN trades' : d = trades'[i].id
               \/ \E i \in DOMAIN batch' : d = batch'[i].id
    <3>1. CASE \E i \in DOMAIN trades : d = trades[i].id
      BY <1>9, <3>1
    <3>2. CASE \E i \in DOMAIN batch : d = batch[i].id
      <4>1. PICK i \in DOMAIN batch : d = batch[i].id
        BY <3>2
      <4>2. CASE i = 1
        <5>1. d = e.id /\ e.kind = "trade" /\ e.defect = "none"
          BY <4>1, <4>2, <2>1, <1>4 DEF e
        <5>2. IsTraded(conn, e)
          <6>1. e.word = conn.says[e.side] /\ e.side \in Side
            BY <1>4, <5>1 DEF IInv, TapeInv, Worded, WordsOf, Entry
          <6>2. SideOf(conn, e) \in Side
            BY <1>5, <6>1 DEF SideOf, Reads
          <6>3. QED
            BY <5>1, <6>2, <1>5 DEF IsTraded, Passes, Regular
        <5>3. QED
          BY <5>1, <5>2, <1>6, <1>9
      <4>3. CASE i # 1
        BY <4>1, <4>3, <1>3
      <4>4. QED
        BY <4>2, <4>3
    <3>3. QED
      BY <3>1, <3>2 DEF IInv, DueInv, SoundArrive
  <2>3. QED
    BY <1>1, <2>1, <2>2 DEF DueInv, SoundArrive
<1>17. OrderInv'
  <2>1. SUFFICES ASSUME NoReplays PROVE OrderInv'
    BY <1>1, <1>2 DEF OrderInv, NoReplays
  <2>2. Increasing(trades) /\ Increasing(batch) /\ Before(trades, batch)
    BY <2>1 DEF IInv, OrderInv
  <2>3. \A i \in DOMAIN wire : Taken(i) =>
          /\ Increasing(wire[i].items)
          /\ Before(trades, wire[i].items)
          /\ Before(batch, wire[i].items)
          /\ \A j \in DOMAIN wire : i < j /\ Taken(j) => Before(wire[i].items, wire[j].items)
    BY <2>1 DEF IInv, OrderInv
  <2>4. \A i \in DOMAIN trades : trades[i].id < e.id
    BY <1>3, <2>2 DEF Before, e
  <2>5. \A i \in DOMAIN batch' : e.id < batch'[i].id
    BY <1>3, <2>2 DEF Increasing, e
  <2>6. Increasing(batch')
    BY <1>3, <2>2 DEF Increasing
  <2>7. Increasing(trades')
    BY <1>6, <1>9, <2>2, <2>4 DEF Increasing
  <2>8. Before(trades', batch')
    BY <1>3, <1>6, <1>9, <2>2, <2>5 DEF Before
  <2>9. \A i \in DOMAIN wire : Taken(i) =>
          Before(trades', wire[i].items) /\ Before(batch', wire[i].items)
    BY <1>3, <1>6, <1>9, <2>3 DEF Before, e
  <2>10. QED
    BY <1>1, <1>2, <2>3, <2>6, <2>7, <2>8, <2>9 DEF OrderInv, Taken, Increasing, Before
<1>18. QED
  BY <1>11, <1>12, <1>13, <1>14, <1>15, <1>16, <1>17 DEF IInv

(* The invariant holds of the first state.                                 *)
LEMMA InitInv == Init => IInv
<1> SUFFICES ASSUME Init PROVE IInv
  OBVIOUS
<1>1. DOMAIN numbers = {} /\ DOMAIN tradeChanMap = {} /\ DOMAIN bookChanMap = {}
  BY DEF Init, Empty
<1>2. TypeOK
  <2>1. \A S : <<>> \in Seq(S)
    OBVIOUS
  <2>2. 0 \in 0..MaxDials
    BY FeedsAssumption
  <2>3. name \in Connectors /\ replays \in BOOLEAN /\ up \in BOOLEAN /\ due = {}
    BY Zenon DEF Init
  <2>4. tape = <<>> /\ wire = <<>> /\ batch = <<>> /\ trades = <<>> /\ liqs = <<>> /\ dials = 0
    BY DEF Init
  <2>5. tradeChanMap = Empty /\ bookChanMap = Empty
    BY DEF Init
  <2>6. QED
    BY <1>1, <2>1, <2>2, <2>3, <2>4, <2>5 DEF TypeOK
<1>3. TapeInv /\ TruthInv /\ RowInv /\ DueInv
  BY FeedsAssumption DEF Init, TapeInv, TruthInv, RowInv, DueInv, SoundArrive
<1>4. SessionInv /\ ConfirmInv
  BY <1>1 DEF Init, SessionInv, ConfirmInv
<1>5. OrderInv
  BY DEF Init, OrderInv, Increasing, Before
<1>6. StrayInv
  BY <1>1 DEF Init, StrayInv
<1>7. QED
  BY <1>2, <1>3, <1>4, <1>5, <1>6 DEF IInv

(* Every step keeps it.                                                    *)
LEMMA StepInv == IInv /\ [Next]_vars => IInv'
  BY StepKinds, QuietKeeps, ExtendsKeeps, ReadKeeps, HandleKeeps

(* It holds throughout.                                                    *)
LEMMA Invariance == Spec => []IInv
  BY InitInv, StepInv, PTL DEF Spec

-----------------------------------------------------------------------------
(* The theorems                                                            *)

(* Rows, messages and maps are made of the connector's own pairs.          *)
THEOREM Types == Spec => []TypeOK
<1>1. IInv => TypeOK
  BY DEF IInv
<1>2. QED
  BY <1>1, Invariance, PTL

(* Whatever a venue sends in place of a side, no connector hands over a    *)
(* row that the CHECKs of the table refuse.                                *)
THEOREM RowsAreInsertable == Spec => []Insertable
<1>1. ASSUME IInv PROVE Insertable
  <2>1. SUFFICES ASSUME NEW i \in DOMAIN trades
                 PROVE  trades[i].type \in MarketType /\ trades[i].side \in Side
    BY DEF Insertable
  <2> DEFINE e == tape[trades[i].id]
  <2>2. /\ trades[i].id \in DOMAIN tape /\ IsTraded(conn, e) /\ trades[i] = Trade(conn, e)
        /\ trades[i] \in TradeRow
    BY <1>1 DEF IInv, RowInv, TypeOK
  <2>3. e.word \in Word
    <3>1. tape[trades[i].id] \in Entry
      BY <1>1, <2>2 DEF IInv, TypeOK
    <3>2. QED
      BY <3>1 DEF Entry
  <2>4. Regular(conn) /\ Reads(conn)
    BY <1>1, ConnFacts DEF IInv, TypeOK
  <2> HIDE DEF e
  <2>5. SideOf(conn, e) \in Side
    BY <2>2, <2>3, <2>4 DEF SideOf, IsTraded, Passes, Regular, Reads
  <2>6. trades[i].side = SideOf(conn, e)
    BY <2>2 DEF Trade
  <2>7. QED
    BY <2>2, <2>5, <2>6 DEF TradeRow
<1>2. QED
  BY <1>1, Invariance, PTL

(* A row is about the item it came from, whatever the numbers of channels  *)
(* meant in earlier sessions.                                              *)
THEOREM RowsAreFaithful == Spec => []Faithful
<1>1. ASSUME IInv PROVE Faithful
  <2>1. Labelled(conn) /\ Stored(conn) /\ Regular(conn) /\ Reads(conn)
    BY <1>1, ConnFacts DEF IInv, TypeOK
  <2>2. \A i \in DOMAIN tape :
          /\ tape[i].id = i /\ tape[i].pair \in DOMAIN conn.type
          /\ tape[i].kind \in Kind /\ tape[i].side \in Side
          /\ tape[i].defect # "side" =>
               tape[i].word = IF tape[i].kind = "trade" THEN conn.says[tape[i].side]
                              ELSE conn.liqSays[tape[i].side]
          /\ tape[i].kind = "liquidation" => conn.liquidations # "none"
    <3>1. TAKE i \in DOMAIN tape
    <3>2. tape[i] \in Entry /\ tape[i].id = i /\ Worded(tape[i])
      BY <1>1 DEF IInv, TapeInv, TypeOK
    <3>3. QED
      BY <3>2 DEF Entry, Traded, Worded, WordsOf
  <2>3. ASSUME NEW i \in DOMAIN trades
        PROVE  LET e == tape[trades[i].id] IN
               /\ SameMarket(trades[i])
               /\ e.defect # "side" => trades[i].side = e.side
               /\ e.defect # "time" /\ conn # KrakenFutures => trades[i].time = "venue"
    <3> DEFINE e == tape[trades[i].id]
    <3>1. /\ trades[i] = Trade(conn, e) /\ trades[i].id \in DOMAIN tape /\ e.id = trades[i].id
          /\ IsTraded(conn, e)
      BY <1>1, <2>2 DEF IInv, RowInv
    <3>2. /\ e.pair \in DOMAIN conn.type /\ e.kind \in Kind /\ e.side \in Side
          /\ e.defect # "side" =>
               e.word = IF e.kind = "trade" THEN conn.says[e.side] ELSE conn.liqSays[e.side]
      BY <2>2, <3>1
    <3> HIDE DEF e
    <3>3. /\ trades[i].symbol = conn.symbol[e.pair] /\ trades[i].type = conn.type[e.pair]
          /\ trades[i].quote = conn.quote[e.pair]
          /\ trades[i].side = SideOf(conn, e) /\ trades[i].time = TimeOf(conn, e)
      BY <3>1 DEF Trade
    <3>4. SameMarket(trades[i])
      BY <2>1, <3>2, <3>3 DEF SameMarket, Labelled, Stored, e
    <3>5. e.defect # "side" => trades[i].side = e.side
      BY <2>1, <3>1, <3>2, <3>3 DEF SideOf, IsTraded, Reads, Kind
    <3>6. e.defect # "time" /\ conn # KrakenFutures => trades[i].time = "venue"
      BY <2>1, <3>3 DEF TimeOf, Regular
    <3>7. QED
      BY <3>4, <3>5, <3>6 DEF e
  <2>4. ASSUME NEW i \in DOMAIN liqs
        PROVE  LET e == tape[liqs[i].id] IN
               /\ SameMarket(liqs[i])
               /\ e.defect # "side" =>
                    liqs[i].side = (IF conn.liquidations = "position" THEN Closed(e.side)
                                    ELSE e.side)
    <3> DEFINE e == tape[liqs[i].id]
    <3>1. /\ liqs[i] = Liquidation(conn, e) /\ liqs[i].id \in DOMAIN tape /\ e.id = liqs[i].id
          /\ e.kind = "liquidation"
      BY <1>1, <2>2 DEF IInv, RowInv
    <3>2. /\ e.pair \in DOMAIN conn.type /\ e.side \in Side
          /\ e.defect # "side" => e.word = conn.liqSays[e.side]
          /\ conn.liquidations # "none"
      BY <2>2, <3>1
    <3> HIDE DEF e
    <3>3. /\ liqs[i].symbol = conn.symbol[e.pair] /\ liqs[i].type = conn.type[e.pair]
          /\ liqs[i].quote = conn.quote[e.pair] /\ liqs[i].side = LiquidatedSide(conn, e)
      BY <3>1 DEF Liquidation
    <3>4. SameMarket(liqs[i])
      BY <2>1, <3>2, <3>3 DEF SameMarket, Labelled, Stored, e
    <3>5. e.defect # "side" =>
            liqs[i].side = (IF conn.liquidations = "position" THEN Closed(e.side) ELSE e.side)
      BY <2>1, <3>2, <3>3 DEF LiquidatedSide, Reads
    <3>6. QED
      BY <3>4, <3>5 DEF e
  <2>5. \A ch \in strays : ch.kind = "trades" /\ replays /\ dials > 1
    BY <1>1 DEF IInv, StrayInv
  <2>6. QED
    BY <2>3, <2>4, <2>5 DEF Faithful
<1>2. QED
  BY <1>1, Invariance, PTL

(* Without replays, and with them where they are not taken, every trade is *)
(* recorded at most once and in the order of the venue.                    *)
THEOREM RowsComeOnceInOrder == Spec => []OnceInOrder
<1>1. IInv => OnceInOrder
  BY DEF IInv, OrderInv, NoReplays, Increasing, OnceInOrder
<1>2. QED
  BY <1>1, Invariance, PTL

(* No sound trade is lost to what else its message has.                    *)
THEOREM SoundTradesArrive == Spec => []SoundArrive
<1>1. IInv => SoundArrive
  BY DEF IInv, DueInv
<1>2. QED
  BY <1>1, Invariance, PTL
=============================================================================
