------------------------------ MODULE MCWsHub ------------------------------
(***************************************************************************)
(* Instances of WsHub for TLC.                                             *)
(***************************************************************************)
EXTENDS WsHub

(* PLAN.md:286: slow clients are dropped. A client whose peer has stopped  *)
(* reading is no longer registered in the end.                             *)
SlowIsDropped ==
  [](~ctxDone) => \A c \in Client : peer[c] = "stalled" ~> c \notin clients

(* PLAN.md:286: slow clients are dropped, and only they: no write to a     *)
(* client fails while its peer reads what it is sent.                      *)
OnlySlowIsDropped ==
  \A c \in Client : writeErr[c] => peer[c] # "reads" \/ closed[c]
=============================================================================
