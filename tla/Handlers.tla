------------------------------ MODULE Handlers ------------------------------
(***************************************************************************)
(* What the message handlers of the connectors of internal/exchange make   *)
(* of one item a venue sends: which items are recorded, under which name,  *)
(* market type and side, and how the notional in USD is computed.          *)
(*                                                                         *)
(* A pair stands for its name in the configuration, up to case and         *)
(* prefixes. bitfinexNormalizePair, coinbaseNormalizePair and              *)
(* okxNormalizePair change none of the names that are configured. An item  *)
(* is sound or has one defect. Its word is what the venue writes where the *)
(* handler looks for the side.                                             *)
(***************************************************************************)

Defect ==
  {"none",
   "garbled",  \* its JSON has another shape than the handler decodes
   "value",    \* the price or the quantity is absent or zero
   "time",     \* the time is absent
   "side"}     \* the side is absent or an unknown word

Side == {"buy", "sell"}
MarketType == {"spot", "perp"}

-----------------------------------------------------------------------------
(* config/markets.go                                                       *)

Listed(spot, perp) ==
  [p \in spot \cup perp |-> IF p \in spot THEN "spot" ELSE "perp"]

Markets ==
  [BINANCE |-> Listed({"btcusdt", "btctusd", "btcusdc", "btcfdusd"}, {}),
   BINANCE_BTCUSDT_PERP |-> Listed({}, {"BTCUSDT", "BTCUSDC"}),
   BINANCE_BTCUSD_INVERSE |-> Listed({}, {"BTCUSD_PERP"}),
   BYBIT |-> Listed({"BTCUSDT-SPOT", "BTCUSDC-SPOT"}, {"BTCUSDT", "BTCUSD"}),
   BITFINEX |-> Listed({"BTCUSD", "BTCUST"}, {}),
   BITGET |-> Listed({"BTCUSDT", "BTCUSDC"},
                     {"BTCUSDT_UMCBL", "BTCUSD_DMCBL", "BTCPERP_CMCBL"}),
   BITSTAMP |-> Listed({"btcusd", "btcusdc", "btcusdt"}, {}),
   BITMEX |-> Listed({}, {"XBTUSDT", "XBTUSD", "XBT_USDT"}),
   COINBASE |-> Listed({"BTC-USD", "BTC-USDC", "BTC-USDT"}, {"BTC-PERP-INTX"}),
   KRAKEN |-> Listed({"XBT/USD", "XBT/USDT", "XBT/USDC"}, {"PI_XBTUSD", "PF_XBTUSD"}),
   OKX |-> Listed({"BTC-USD", "BTC-USDT", "BTC-USDC"}, {"BTC-USD-SWAP", "BTC-USDT-SWAP"}),
   DERIBIT |-> Listed({}, {"BTC-PERPETUAL", "BTC_USDC-PERPETUAL"}),
   DYDX |-> Listed({}, {"BTC-USD"}),
   HYPERLIQUID |-> Listed({}, {"BTC"})]

(* What the handlers look for in a name.                                   *)
HasSPOT == {"BTCUSDT-SPOT", "BTCUSDC-SPOT"}
EndsInSWAP == {"BTC-USD-SWAP", "BTC-USDT-SWAP"}
EndsInUSDSWAP == {"BTC-USD-SWAP"}
HasPERP == {"BTC-PERP-INTX"}
HasStable == {"BTC_USDC-PERPETUAL"}
StartsWithPI == {"PI_XBTUSD"}

-----------------------------------------------------------------------------
(* Sides                                                                   *)

Word ==
  {"buy", "Buy", "BUY", "sell", "Sell", "SELL", "long", "short",
   "true", "false",    \* of a flag that says whether the maker bought
   "plus", "minus",    \* of a sign
   "0", "1", "2", "A", "B",
   "none"}             \* nothing at all

(* What a venue writes for a buy and for a sell.                           *)
Words(buy, sell) == [buy |-> buy, sell |-> sell]

Lower ==
  [w \in Word |->
     IF w \in {"buy", "Buy", "BUY"} THEN "buy"
     ELSE IF w \in {"sell", "Sell", "SELL"} THEN "sell" ELSE w]

(* A sell meets an order of a maker who buys.                              *)
FlagSide == [w \in Word |-> IF w = "true" THEN "sell" ELSE "buy"]

SignSide == [w \in Word |-> IF w = "minus" THEN "sell" ELSE "buy"]

(* A number other than 0 is a sell.                                        *)
bitstampSide ==
  [w \in Word |->
     IF w \in {"0", "buy", "Buy", "BUY"} THEN "buy"
     ELSE IF w \in {"1", "2", "sell", "Sell", "SELL"} THEN "sell" ELSE "none"]

hyperliquidTradeSide ==
  [w \in Word |-> IF w = "A" THEN "buy" ELSE IF w = "B" THEN "sell" ELSE "none"]

-----------------------------------------------------------------------------
(* Names and notionals                                                     *)

(* The name of a spot pair of Kraken, asked for and sent.                  *)
krakenNormalizeSpotPair ==
  [p \in {"XBT/USD", "XBT/USDT", "XBT/USDC"} |->
     IF p = "XBT/USD" THEN "BTC/USD" ELSE IF p = "XBT/USDT" THEN "BTC/USDT" ELSE "BTC/USDC"]

(* The key of a pair of Bitget: bitgetInstType and bitgetInstID.           *)
bitgetArgKey ==
  [BTCUSDT |-> <<"SPOT", "BTCUSDT">>, BTCUSDC |-> <<"SPOT", "BTCUSDC">>,
   BTCUSDT_UMCBL |-> <<"USDT-FUTURES", "BTCUSDT">>,
   BTCUSD_DMCBL |-> <<"COIN-FUTURES", "BTCUSD">>,
   BTCPERP_CMCBL |-> <<"USDC-FUTURES", "BTCPERP">>]

(* The pair a key stands for, among those of the connector.                *)
marketForArg(pairs, arg) == CHOOSE p \in pairs : bitgetArgKey[p] = arg

Same(pairs) == [p \in pairs |-> p]

(* The formulas of QuoteQty.                                               *)
Linear(pairs) == [p \in pairs |-> "price * qty"]
Formula == {"price * qty", "qty", "qty * 100", "qty * 0.01 * price", "qty * price / 1e6"}

-----------------------------------------------------------------------------
(* The handlers. A convention says what one connector does and another     *)
(* does not.                                                               *)

All(exchange) == DOMAIN Markets[exchange]
OfType(exchange, t) == {p \in All(exchange) : Markets[exchange][p] = t}

(* The connector of an exchange for one market type, with the market type  *)
(* of the configuration, one item per message and every field checked.     *)
Plain(exchange, t) ==
  [exchange |-> exchange,
   type |-> [p \in OfType(exchange, t) |-> t],    \* Trade.MarketType
   symbol |-> Same(OfType(exchange, t)),         \* Trade.Symbol
   quote |-> Linear(OfType(exchange, t)),        \* Trade.QuoteQty
   takes |-> {"live", "replay"},  \* labels of messages that are recorded
   numbered |-> FALSE,    \* data is named by the number of a channel
   enveloped |-> FALSE,   \* the message names the pair, not the item
   single |-> FALSE,      \* a message has one item
   whole |-> FALSE,       \* a message is decoded as one value
   checks |-> {"value", "time"},  \* items without are skipped
   sided |-> TRUE,        \* so are items without a side
   says |-> Words("buy", "sell"),  \* what the venue writes for a side
   wrong |-> {"none"},    \* and what it may write instead
   side |-> Lower,        \* Trade.Side
   clock |-> "venue",     \* Trade.Timestamp
   liquidations |-> "none",  \* what a liquidation is recorded as
   liqSays |-> Words("buy", "sell"),
   liqChecks |-> {}]

(* The connectors of Binance, with a flag for the side.                    *)
Flagged(c) ==
  [c EXCEPT !.single = TRUE, !.sided = FALSE, !.says = Words("false", "true"), !.side = FlagSide]

Binance == Flagged([Plain("BINANCE", "spot") EXCEPT !.checks = {}])

Futures(c) ==
  [Flagged(c) EXCEPT
     !.liquidations = "order", !.liqSays = Words("BUY", "SELL"),
     !.liqChecks = {"value", "time"}]

BinancePerp == Futures(Plain("BINANCE_BTCUSDT_PERP", "perp"))

BinanceInverse ==
  [Futures(Plain("BINANCE_BTCUSD_INVERSE", "perp")) EXCEPT
     !.quote = [p \in All("BINANCE_BTCUSD_INVERSE") |-> "qty * 100"]]

(* Variant with a defect: "te" is recorded as well as "tu".                *)
BitfinexTe ==
  [Plain("BITFINEX", "spot") EXCEPT
     !.single = TRUE, !.numbered = TRUE, !.takes = {"announced", "live"},
     !.sided = FALSE, !.says = Words("plus", "minus"), !.wrong = {}, !.side = SignSide]

(* The sign of the quantity is the side; "te" and the arrays of the trade  *)
(* channel are not recorded.                                               *)
Bitfinex ==
  [Plain("BITFINEX", "spot") EXCEPT
     !.single = TRUE, !.numbered = TRUE, !.takes = {"live"},
     !.sided = FALSE, !.says = Words("plus", "minus"), !.wrong = {}, !.side = SignSide]

Bitget(t) ==
  [Plain("BITGET", t) EXCEPT
     !.enveloped = TRUE, !.whole = TRUE,
     !.symbol = [p \in OfType("BITGET", t) |->
                   marketForArg(OfType("BITGET", t), bitgetArgKey[p])],
     !.liquidations = IF t = "perp" THEN "position" ELSE "none",
     !.liqSays = Words("short", "long"),
     !.liqChecks = {"value", "time"}]

Bitmex ==
  [Plain("BITMEX", "perp") EXCEPT
     !.takes = {"live"}, !.says = Words("Buy", "Sell"),
     !.quote = [p \in All("BITMEX") |-> IF p = "XBTUSDT" THEN "qty * price / 1e6" ELSE "qty"],
     !.liquidations = "trade", !.liqSays = Words("Buy", "Sell")]

Bitstamp ==
  [Plain("BITSTAMP", "spot") EXCEPT
     !.single = TRUE, !.takes = {"live"},
     !.says = Words("0", "1"), !.wrong = {"none", "2"}, !.side = bitstampSide]

bybitMarketType == [p \in All("BYBIT") |-> IF p \in HasSPOT THEN "spot" ELSE "perp"]

bybitQuoteQty == [p \in All("BYBIT") |-> IF p = "BTCUSD" THEN "qty" ELSE "price * qty"]

(* Variant with a defect: any word is taken for a side.                    *)
BybitAnySide ==
  [Plain("BYBIT", "perp") EXCEPT
     !.type = bybitMarketType, !.symbol = Same(All("BYBIT")), !.quote = bybitQuoteQty,
     !.whole = TRUE, !.checks = {"value"}, !.sided = FALSE, !.says = Words("Buy", "Sell")]

(* The connectors of both market types have one handler; the liquidation   *)
(* topic is not subscribed.                                                *)
Bybit ==
  [Plain("BYBIT", "perp") EXCEPT
     !.type = bybitMarketType, !.symbol = Same(All("BYBIT")), !.quote = bybitQuoteQty,
     !.whole = TRUE, !.checks = {"value"}, !.says = Words("Buy", "Sell")]

coinbaseMarketType == [p \in All("COINBASE") |-> IF p \in HasPERP THEN "perp" ELSE "spot"]

Coinbase ==
  [Plain("COINBASE", "spot") EXCEPT
     !.type = coinbaseMarketType, !.symbol = Same(All("COINBASE")),
     !.quote = Linear(All("COINBASE")), !.whole = TRUE, !.says = Words("BUY", "SELL")]

Deribit ==
  [Plain("DERIBIT", "perp") EXCEPT
     !.enveloped = TRUE,
     !.quote = [p \in All("DERIBIT") |-> IF p \in HasStable THEN "price * qty" ELSE "qty"],
     !.liquidations = "trade"]

Dydx ==
  [Plain("DYDX", "perp") EXCEPT
     !.enveloped = TRUE, !.whole = TRUE, !.takes = {"live"}, !.says = Words("BUY", "SELL")]

(* Which side A and B are is taken from the handler.                       *)
Hyperliquid ==
  [Plain("HYPERLIQUID", "perp") EXCEPT
     !.whole = TRUE, !.says = Words("A", "B"), !.side = hyperliquidTradeSide]

(* What is asked for under one name is stored under the same.              *)
Kraken == [Plain("KRAKEN", "spot") EXCEPT !.symbol = krakenNormalizeSpotPair]

(* A trade of the futures feed is dated when it is read.                   *)
KrakenFutures ==
  [Plain("KRAKEN", "perp") EXCEPT
     !.single = TRUE, !.takes = {"live"}, !.checks = {"value"}, !.clock = "now",
     !.quote = [p \in OfType("KRAKEN", "perp") |->
                  IF p \in StartsWithPI THEN "qty" ELSE "price * qty"]]

(* Variant with a defect: the word of the venue.                           *)
okxMarketTypeSwap == [p \in All("OKX") |-> IF p \in EndsInSWAP THEN "swap" ELSE "spot"]

okxMarketType == [p \in All("OKX") |-> IF p \in EndsInSWAP THEN "perp" ELSE "spot"]

okxQuoteQty ==
  [p \in All("OKX") |->
     IF p \in EndsInUSDSWAP THEN "qty * 100"
     ELSE IF p \in EndsInSWAP THEN "qty * 0.01 * price" ELSE "price * qty"]

OKX ==
  [Plain("OKX", "perp") EXCEPT
     !.type = okxMarketType, !.symbol = Same(All("OKX")), !.quote = okxQuoteQty,
     !.whole = TRUE, !.checks = {"value"},
     !.liquidations = "position", !.liqSays = Words("short", "long")]

(* The connectors cmd/mcp-hub registers.                                   *)
Handler ==
  [Binance |-> Binance, BinancePerp |-> BinancePerp, BinanceInverse |-> BinanceInverse,
   Bitfinex |-> Bitfinex, BitgetSpot |-> Bitget("spot"), BitgetPerp |-> Bitget("perp"),
   Bitmex |-> Bitmex, Bitstamp |-> Bitstamp, Bybit |-> Bybit, Coinbase |-> Coinbase,
   Deribit |-> Deribit, Dydx |-> Dydx, Hyperliquid |-> Hyperliquid, Kraken |-> Kraken,
   KrakenFutures |-> KrakenFutures, OKX |-> OKX]

-----------------------------------------------------------------------------
(* What a handler makes of one item.                                       *)

(* What the venue may write for the side of an item.                       *)
WordsOf(c, kind, side, defect) ==
  IF defect = "side" THEN c.wrong
  ELSE {IF kind = "trade" THEN c.says[side] ELSE c.liqSays[side]}

(* Trade.Side                                                              *)
SideOf(c, e) == c.side[e.word]

(* The item is not skipped.                                                *)
Passes(c, e) ==
  /\ e.defect \notin c.checks \cup {"garbled"}
  /\ c.sided => SideOf(c, e) \in Side

TimeOf(c, e) ==
  IF c.clock = "now" THEN "now" ELSE IF e.defect = "time" THEN "1970" ELSE "venue"

Trade(c, e) ==
  [id |-> e.id, symbol |-> c.symbol[e.pair], type |-> c.type[e.pair], side |-> SideOf(c, e),
   quote |-> c.quote[e.pair], time |-> TimeOf(c, e)]

(* Liquidation.Side: that of the order that closed the position, or of the *)
(* position; nobody checks the one of an order.                            *)
LiquidatedSide(c, e) == Lower[e.word]

Liquidation(c, e) ==
  [id |-> e.id, symbol |-> c.symbol[e.pair], type |-> c.type[e.pair],
   side |-> LiquidatedSide(c, e), quote |-> c.quote[e.pair]]

(* Whether the item becomes a trade, and whether a liquidation.            *)
IsTraded(c, e) == Passes(c, e) /\ (e.kind = "liquidation" => c.liquidations = "trade")

IsLiquidated(c, e) ==
  /\ e.kind = "liquidation"
  /\ IF c.liquidations = "trade" THEN Passes(c, e)
     ELSE e.defect \notin c.liqChecks \cup {"garbled"}
=============================================================================
