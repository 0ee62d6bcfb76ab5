-------------------------- MODULE MCTradePipeline --------------------------
(***************************************************************************)
(* Instances of TradePipeline for TLC: okx is awaited by its Run, bybit    *)
(* stands for a group goroutine nobody waits for.                          *)
(***************************************************************************)
EXTENDS TradePipeline, TLC

CONSTANTS okx, bybit

MCSource == {okx, bybit}
MCDetached == {bybit}

TwoAndOne == (okx :> 2) @@ (bybit :> 1)
OneEach == (okx :> 1) @@ (bybit :> 1)
=============================================================================
