---------------------------- MODULE MCOrderBooks ----------------------------
(***************************************************************************)
(* Instances of OrderBooks for TLC.                                        *)
(***************************************************************************)
EXTENDS OrderBooks, TLC

(* The conventions with a snapshot: OKX and Bitget have Bybit's.           *)
SnapshotFeeds == {Bybit, OKX, Bitget, Bitfinex, Hyperliquid}

(* The book with these quantities, sparse functions from prices.           *)
Of(bids, asks) ==
  [s \in Sides |-> [p \in Price |->
     LET side == IF s = "bids" THEN bids ELSE asks
     IN  IF p \in DOMAIN side THEN side[p] ELSE 0]]

(* A book that the next change may leave empty, and a bid above that ask.  *)
OneAsk == {Of(<<>>, 2 :> 1)}
OneBid == {Of(3 :> 1, <<>>)}

(* Those; nothing; a bid and an ask that meet when they are rounded, one a *)
(* tick apart, two asks; bids of two ticks, two of which meet.             *)
Thin == OneAsk \cup OneBid \cup
  {Of(<<>>, <<>>), Of(1 :> 1, 2 :> 1), Of(1 :> 1, 3 :> 1),
   Of(1 :> 1, 2 :> 1 @@ 3 :> 1), Of(1 :> 1 @@ 2 :> 1 @@ 3 :> 1, <<>>)}

(* Every book of two prices.                                               *)
Whole == {b \in Book(Price) : Uncrossed(b)}
Narrow == {Of(1 :> 1, 2 :> 1)}

BinanceOnly == {Binance}

(* binance.go:455: depth updates work without an initial snapshot. The     *)
(* book they make has every bid below every ask, as the exchange's has.    *)
DepthUpdatesSuffice == Uncrossed(book)
=============================================================================
