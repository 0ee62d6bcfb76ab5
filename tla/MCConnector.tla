---------------------------- MODULE MCConnector ----------------------------
(***************************************************************************)
(* Instances of Connector for TLC: one connector with the groups spot and  *)
(* perp or one of them.                                                    *)
(***************************************************************************)
EXTENDS Connector

SixOrThree == <<6, 3>>
=============================================================================
