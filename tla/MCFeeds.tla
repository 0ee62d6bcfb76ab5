------------------------------ MODULE MCFeeds ------------------------------
(* Every connector, with two pairs of each market type it has where one    *)
(* name tells the types or the formulas apart.                             *)
EXTENDS Feeds, TLC

AllConnectors == DOMAIN Handler

MCPairs ==
  {"btcusdt", "BTCUSDT", "BTCUSD_PERP", "BTCUSDT-SPOT", "BTCUSD", "BTCUST",
   "BTCUSDT_UMCBL", "btcusd", "XBTUSDT", "XBTUSD", "BTC-USD", "BTC-PERP-INTX",
   "XBT/USD", "PI_XBTUSD", "PF_XBTUSD", "BTC-USDT-SWAP", "BTC-USD-SWAP",
   "BTC-PERPETUAL", "BTC_USDC-PERPETUAL", "BTC"}

Sample(kind, side, defect) == [kind |-> kind, side |-> side, defect |-> defect]

MCSamples ==
  {Sample("trade", "buy", "none"), Sample("trade", "sell", "none")}
  \cup {Sample("trade", "sell", d) : d \in Defect \ {"none"}}
  \cup {Sample("liquidation", "sell", d) : d \in {"none", "value", "side"}}

Alike == Permutations(Numbers)
=============================================================================
