------------------------------ MODULE LossyFeed ------------------------------
(***************************************************************************)
(* What the WebSocket hub promises its subscribers: messages are numbered  *)
(* as they are published; a subscriber may miss any of them, but sees none *)
(* twice, none out of order, none before it is published and none after    *)
(* its connection was closed.                                              *)
(***************************************************************************)
EXTENDS Naturals, Sequences

CONSTANTS Client, MaxMessages

VARIABLES
  published,  \* how many messages were published
  delivered,  \* the numbers of the messages each subscriber was sent
  closed      \* whether the connection was closed

vars == <<published, delivered, closed>>

LastOf(seq) == IF seq = <<>> THEN 0 ELSE seq[Len(seq)]

Init ==
  /\ published = 0
  /\ delivered = [c \in Client |-> <<>>]
  /\ closed = [c \in Client |-> FALSE]

Publish ==
  /\ published < MaxMessages
  /\ published' = published + 1
  /\ UNCHANGED <<delivered, closed>>

Deliver(c) ==
  /\ ~closed[c]
  /\ \E n \in (LastOf(delivered[c]) + 1)..published :
       delivered' = [delivered EXCEPT ![c] = Append(@, n)]
  /\ UNCHANGED <<published, closed>>

Close(c) ==
  /\ closed' = [closed EXCEPT ![c] = TRUE]
  /\ UNCHANGED <<published, delivered>>

Next == Publish \/ \E c \in Client : Deliver(c) \/ Close(c)

Spec == Init /\ [][Next]_vars
=============================================================================
