------------------------------ MODULE RecentLog ------------------------------
(***************************************************************************)
(* What the ring of recent trades promises: the last Capacity items that   *)
(* were pushed, newest first.                                              *)
(***************************************************************************)
EXTENDS Integers, Sequences, FiniteSets

CONSTANTS
  Item,
  Capacity   \* how many items are remembered

VARIABLE recent  \* the remembered items, newest first

Smaller(a, b) == IF a < b THEN a ELSE b

Init == recent = <<>>

(* The remembered items after one more has been pushed.                    *)
Pushed(item) ==
  [i \in 1..Smaller(Len(recent) + 1, Capacity) |->
     IF i = 1 THEN item ELSE recent[i - 1]]

Push(item) == recent' = Pushed(item)

Next == \E item \in Item : Push(item)

Spec == Init /\ [][Next]_recent

-----------------------------------------------------------------------------
(* What the readers of the ring are answered.                              *)

(* The n newest items, or all of them when there are fewer.                *)
Recent(n) ==
  IF n <= 0 THEN <<>> ELSE SubSeq(recent, 1, Smaller(n, Len(recent)))

(* The positions up to i of the items that are wanted.                     *)
Matches(wanted, i) == {j \in 1..Len(recent) : j <= i /\ recent[j] \in wanted}

(* The answer has the n newest items, or all of them when there are fewer, *)
(* of those that are wanted among the first items: the k-th match is at    *)
(* its place k.                                                            *)
Answers(answer, n, wanted, first) ==
  /\ Len(answer) =
       IF n <= 0 THEN 0 ELSE Smaller(n, Cardinality(Matches(wanted, first)))
  /\ \A i \in Matches(wanted, first) :
       LET k == Cardinality(Matches(wanted, i))
       IN  k <= n => answer[k] = recent[i]

(* The items at the positions from (inclusive) to to (exclusive), counted  *)
(* from 0 at the newest, as far as they exist.                             *)
Slice(from, to) ==
  LET wanted == {i \in 1..Len(recent) : from < i /\ i <= to}
      skipped == IF from < 0 THEN 0 ELSE from
  IN  [i \in 1..(IF wanted = {} THEN 0
                 ELSE Smaller(to, Len(recent)) - skipped) |->
         recent[skipped + i]]
=============================================================================
