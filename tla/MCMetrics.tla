----------------------------- MODULE MCMetrics -----------------------------
(***************************************************************************)
(* An instance of Metrics for TLC.                                         *)
(***************************************************************************)
EXTENDS Metrics

(* A stamp is too old for a window, or will be after the next tick.        *)
OldOrGrowingOld == {-Width - 1, -Width}
=============================================================================
