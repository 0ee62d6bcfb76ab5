----------------------------- MODULE RingBuffer -----------------------------
(***************************************************************************)
(* internal/buffer/ring.go: the ring of recent trades as the code lays it  *)
(* out, an array with a write position and a fill count, and its readers.  *)
(* Every method runs under the mutex, so each is one atomic step.          *)
(***************************************************************************)
EXTENDS Integers, Sequences

CONSTANTS
  Item,
  NoItem,    \* the zero value of a slot nothing was written to
  Capacity   \* New panics when this is not positive

ASSUME RingAssumption ==
  /\ Capacity \in Nat \ {0}
  /\ NoItem \notin Item

VARIABLES
  buf,   \* the array, indexed from 0
  head,  \* where the next item is written
  size   \* how many slots are filled

vars == <<buf, head, size>>

Min2(a, b) == IF a < b THEN a ELSE b

Init ==
  /\ buf = [i \in 0..(Capacity - 1) |-> NoItem]
  /\ head = 0
  /\ size = 0

(* Variant with a defect: the head stops one slot early.                   *)
PushShort(item) ==
  /\ buf' = [buf EXCEPT ![head] = item]
  /\ head' = (head + 1) % (IF Capacity = 1 THEN 1 ELSE Capacity - 1)
  /\ size' = Min2(size + 1, Capacity)

(* Variant with a defect: the fill count is not capped.                    *)
PushUncapped(item) ==
  /\ buf' = [buf EXCEPT ![head] = item]
  /\ head' = (head + 1) % Capacity
  /\ size' = IF size <= Capacity THEN size + 1 ELSE size

Push(item) ==
  /\ buf' = [buf EXCEPT ![head] = item]
  /\ head' = (head + 1) % Capacity
  /\ size' = IF size < Capacity THEN size + 1 ELSE size

Next == \E item \in Item : Push(item)

Spec == Init /\ [][Next]_vars

-----------------------------------------------------------------------------
(* The readers.                                                            *)

(* The item i places behind the newest one.                                *)
Behind(i) == buf[(head - 1 - i + Capacity) % Capacity]

(* snapshotNewestFirstLocked                                               *)
Newest == [i \in 1..size |-> Behind(i - 1)]

(* recentLocked                                                            *)
RecentLocked(n) ==
  IF n <= 0 \/ size = 0 THEN <<>>
  ELSE [i \in 1..Min2(n, size) |-> Behind(i - 1)]

(* Range: the bounds are moved into the snapshot before it is sliced.      *)
RangeOf(from, to) ==
  LET from0 == IF from < 0 THEN 0 ELSE from
      to0 == IF to < from0 THEN from0 ELSE to
      from1 == Min2(from0, size)
      to1 == Min2(to0, size)
  IN  SubSeq(Newest, from1 + 1, to1)

(* The loop that Filter, RecentFiltered and handleTradesRecent have: the   *)
(* matches among the items, in turn, until target of them are found.       *)
Scan(items, target, wanted) ==
  LET found[i \in 0..Len(items)] ==
        IF i = 0 THEN <<>>
        ELSE IF Len(found[i - 1]) < target /\ items[i] \in wanted
             THEN Append(found[i - 1], items[i])
             ELSE found[i - 1]
  IN  found[Len(items)]

Filter(wanted) == Scan(Newest, size, wanted)

(* Variant with a defect: only the first n items are looked at.            *)
RecentFilteredNear(n, wanted) ==
  IF n <= 0 \/ size = 0 THEN <<>>
  ELSE Scan(RecentLocked(n), n, wanted)

RecentFiltered(n, wanted) ==
  IF n <= 0 \/ size = 0 THEN <<>>
  ELSE Scan(Newest, Min2(n, size), wanted)

(* handleTradesRecent of the REST server: the filter is applied to the     *)
(* 2 * limit newest trades and stops at limit matches.                     *)
TradesRecent(limit, wanted) == Scan(RecentLocked(2 * limit), limit, wanted)

-----------------------------------------------------------------------------
(* Properties.                                                             *)

(* The array keeps its bounds and the positions stay inside it.            *)
TypeOK ==
  /\ buf \in [0..(Capacity - 1) -> Item \cup {NoItem}]
  /\ head \in 0..(Capacity - 1)
  /\ size \in 0..Capacity

(* The slots a reader may visit, the size places behind the head, are      *)
(* exactly the slots that were written: no reader returns a zero value.    *)
FilledBehindHead ==
  \A i \in 0..(Capacity - 1) :
    buf[(head - 1 - i + Capacity) % Capacity] \in Item <=> i < size

(* Read newest first, the array is the log of the last Capacity pushes.    *)
Log == INSTANCE RecentLog WITH recent <- Newest

(* A push, wrapping around or not, is a push on the log, and nothing else  *)
(* changes what the readers see.                                           *)
ImplementsRecentLog == Log!Spec

(* What a reader is asked for: bounds around those of the ring.            *)
Asked == -1..(Capacity + 2)

(* Whoever reads the ring is answered from the log, across wraparound and  *)
(* with bounds outside the ring: by Recent, Range, Filter and              *)
(* RecentFiltered of ring.go, and by /trades/recent, which looks at no     *)
(* more than the 2 * limit newest trades.                                  *)
ReadersAgree ==
  /\ \A n \in Asked : RecentLocked(n) = Log!Recent(n)
  /\ \A from, to \in Asked : RangeOf(from, to) = Log!Slice(from, to)
  /\ \A wanted \in SUBSET Item :
       /\ Log!Answers(Filter(wanted), size, wanted, size)
       /\ \A n \in Asked : Log!Answers(RecentFiltered(n, wanted), n, wanted, size)
       /\ \A limit \in 1..Capacity :
            Log!Answers(TradesRecent(limit, wanted), limit, wanted, 2 * limit)
=============================================================================
