----------------------------- MODULE DurableLog -----------------------------
(***************************************************************************)
(* What the buffering half of the hub promises about one kind of market    *)
(* event: events are accepted one at a time, and the table behind the      *)
(* buffer receives them in the order of acceptance, a contiguous run at a  *)
(* time, each run starting at the first event that is not confirmed yet.   *)
(* A run may reach the table more than once, when the store committed it   *)
(* and the acknowledgement was lost; it is never skipped.                  *)
(***************************************************************************)
EXTENDS Integers, Sequences

CONSTANT Item

VARIABLES
  accepted,   \* every item accepted so far, in order of acceptance
  confirmed,  \* the items whose insertion was acknowledged, in order
  rows        \* the rows of the table, in order of insertion

vars == <<accepted, confirmed, rows>>

Init ==
  /\ accepted = <<>>
  /\ confirmed = <<>>
  /\ rows = <<>>

Accept(item) ==
  /\ accepted' = Append(accepted, item)
  /\ UNCHANGED <<confirmed, rows>>

(* The next n items that wait for confirmation.                            *)
Run(n) == SubSeq(accepted, Len(confirmed) + 1, Len(confirmed) + n)

Unconfirmed == Len(accepted) - Len(confirmed)

Commit(n) ==
  /\ rows' = rows \o Run(n)
  /\ confirmed' = confirmed \o Run(n)
  /\ UNCHANGED accepted

CommitUnacknowledged(n) ==
  /\ rows' = rows \o Run(n)
  /\ UNCHANGED <<accepted, confirmed>>

Next ==
  \/ \E item \in Item : Accept(item)
  \/ \E n \in 1..Unconfirmed : Commit(n) \/ CommitUnacknowledged(n)

Spec == Init /\ [][Next]_vars
=============================================================================
