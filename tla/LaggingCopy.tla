---------------------------- MODULE LaggingCopy ----------------------------
(***************************************************************************)
(* What a copy of somebody else's data promises here: it is a picture of   *)
(* the data as it was at some moment, and is only ever moved forward. The  *)
(* owner publishes versions; version 0 is the empty one, which a copy      *)
(* shows until it is refreshed for the first time.                         *)
(***************************************************************************)
EXTENDS Naturals, Sequences

CONSTANTS
  Empty,          \* what version 0 holds
  Picture(_, _)   \* Picture(c, v): c is a picture of the version v

VARIABLES
  versions,   \* what the owner published so far
  copy,       \* the copy
  at          \* which version the copy shows

vars == <<versions, copy, at>>

Version(n) == IF n = 0 THEN Empty ELSE versions[n]

Init ==
  /\ Len(versions) > 0
  /\ at = 0
  /\ Picture(copy, Empty)

Publish ==
  /\ Len(versions') = Len(versions) + 1
  /\ SubSeq(versions', 1, Len(versions)) = versions
  /\ UNCHANGED <<copy, at>>

Refresh ==
  /\ at' \in at..Len(versions)
  /\ Picture(copy', Version(at'))
  /\ UNCHANGED versions

Next == Publish \/ Refresh

Spec == Init /\ [][Next]_vars
=============================================================================
