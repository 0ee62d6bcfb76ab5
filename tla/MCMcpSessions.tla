---------------------------- MODULE MCMcpSessions ----------------------------
EXTENDS McpSessions, TLC

CONSTANTS r1, r2

(* Two markets with one symbol, as in config/markets.go.                   *)
Okx == [exchange |-> "OKX", symbol |-> "BTC-USD", type |-> "spot"]
Dydx == [exchange |-> "DYDX", symbol |-> "BTC-USD", type |-> "perp"]
MCListing == {Okx, Dydx}

(* Statistics and books of both are there, and another book of one may     *)
(* come, which is then newer than the other's.                             *)
MCStored ==
  <<Row("stat", Okx), Row("stat", Okx), Row("stat", Dydx),
    Row("snapshot", Dydx), Row("snapshot", Okx)>>
MCIncoming == {Row("snapshot", Dydx)}

Ask(tool, exchange, type, since) ==
  [tool |-> tool, exchange |-> exchange, symbol |-> "BTC-USD", type |-> type,
   since |-> since, limit |-> 1]

(* The window of the heatmap begins behind the oldest row and holds more   *)
(* books than its limit once another one has come.                         *)
MCCalls ==
  (r1 :> {Ask("get_orderbook", "OKX", "spot", 0)}) @@
  (r2 :> {Ask("get_market_stats", "", "", 0), Ask("get_heatmap", "DYDX", "", 2)})
=============================================================================
