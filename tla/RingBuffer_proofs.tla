------------------------- MODULE RingBuffer_proofs -------------------------
(***************************************************************************)
(* Proofs about RingBuffer for every capacity and every set of items.      *)
(***************************************************************************)
EXTENDS RingBuffer, FiniteSetTheorems, WellFoundedInduction, TLAPS

USE RingAssumption DEF RingAssumption

(* The two cases of index arithmetic the ring needs.                       *)
LEMMA ModWithin ==
  ASSUME NEW c \in Nat \ {0}, NEW y \in Int, 0 <= y, y < c
  PROVE  y % c = y
  OBVIOUS

LEMMA ModOnce ==
  ASSUME NEW c \in Nat \ {0}, NEW y \in Int, c <= y, y < 2 * c
  PROVE  y % c = y - c
  OBVIOUS
-----------------------------------------------------------------------------
(* Where the item i places behind the newest one lies, without a modulus.  *)
LEMMA SlotBehind ==
  ASSUME NEW h \in 0..(Capacity - 1), NEW i \in 0..(Capacity - 1)
  PROVE  (h - 1 - i + Capacity) % Capacity =
            IF i < h THEN h - 1 - i ELSE h - 1 - i + Capacity
<1>1. CASE i < h
  <2> DEFINE y == h - 1 - i + Capacity
  <2>1. y \in Int /\ Capacity <= y /\ y < 2 * Capacity
    BY <1>1
  <2>2. y % Capacity = y - Capacity
    BY <2>1, ModOnce
  <2> QED
    BY <1>1, <2>2
<1>2. CASE ~(i < h)
  <2> DEFINE y == h - 1 - i + Capacity
  <2>1. y \in Int /\ 0 <= y /\ y < Capacity
    BY <1>2
  <2>2. y % Capacity = y
    BY <2>1, ModWithin
  <2> QED
    BY <1>2, <2>2
<1> QED
  BY <1>1, <1>2

(* Where the next item is written after a push.                            *)
LEMMA HeadAfter ==
  ASSUME NEW h \in 0..(Capacity - 1)
  PROVE  (h + 1) % Capacity = IF h + 1 = Capacity THEN 0 ELSE h + 1
<1>1. CASE h + 1 = Capacity
  <2>1. (h + 1) % Capacity = h + 1 - Capacity
    BY <1>1, ModOnce
  <2> QED
    BY <1>1, <2>1
<1>2. CASE h + 1 # Capacity
  <2>1. (h + 1) % Capacity = h + 1
    BY <1>2, ModWithin
  <2> QED
    BY <1>2, <2>1
<1> QED
  BY <1>1, <1>2

(* Behind never leaves the array.                                          *)
LEMMA SlotInside ==
  ASSUME NEW h \in 0..(Capacity - 1), NEW i \in 0..(Capacity - 1)
  PROVE  (h - 1 - i + Capacity) % Capacity \in 0..(Capacity - 1)
BY SlotBehind

-----------------------------------------------------------------------------
(* The array keeps its bounds: no Push writes outside it, no head leaves   *)
(* it and the fill count stops at the capacity.                            *)
THEOREM TypeCorrect == Spec => []TypeOK
<1>1. Init => TypeOK
  BY DEF Init, TypeOK
<1>2. TypeOK /\ [Next]_vars => TypeOK'
  <2>1. ASSUME TypeOK, NEW item \in Item, Push(item)
        PROVE  TypeOK'
    <3>1. head' \in 0..(Capacity - 1)
      BY <2>1, HeadAfter DEF TypeOK, Push
    <3>2. size' \in 0..Capacity
      BY <2>1 DEF TypeOK, Push
    <3>3. buf' \in [0..(Capacity - 1) -> Item \cup {NoItem}]
      BY <2>1 DEF TypeOK, Push
    <3> QED
      BY <3>1, <3>2, <3>3 DEF TypeOK
  <2>2. TypeOK /\ UNCHANGED vars => TypeOK'
    BY DEF TypeOK, vars
  <2> QED
    BY <2>1, <2>2 DEF Next
<1> QED
  BY <1>1, <1>2, PTL DEF Spec

(* What is read i places behind the newest item before a push is read i +  *)
(* 1 places behind it afterwards, and the pushed item is the newest.       *)
LEMMA PushShifts ==
  ASSUME TypeOK, NEW item \in Item, Push(item)
  PROVE  /\ buf'[(head' - 1 - 0 + Capacity) % Capacity] = item
         /\ \A i \in 1..(Capacity - 1) :
              buf'[(head' - 1 - i + Capacity) % Capacity] =
                buf[(head - 1 - (i - 1) + Capacity) % Capacity]
<1>1. /\ head \in 0..(Capacity - 1)
      /\ head' = IF head + 1 = Capacity THEN 0 ELSE head + 1
  BY HeadAfter DEF TypeOK, Push
<1>2. head' \in 0..(Capacity - 1)
  BY <1>1
<1>3. /\ buf \in [0..(Capacity - 1) -> Item \cup {NoItem}]
      /\ buf' = [buf EXCEPT ![head] = item]
  BY DEF TypeOK, Push
<1>4. buf'[(head' - 1 - 0 + Capacity) % Capacity] = item
  <2>1. (head' - 1 - 0 + Capacity) % Capacity = head
    <3>1. (head' - 1 - 0 + Capacity) % Capacity =
             IF 0 < head' THEN head' - 1 - 0 ELSE head' - 1 - 0 + Capacity
      BY <1>2, SlotBehind
    <3> QED
      BY <1>1, <3>1
  <2> QED
    BY <1>1, <1>3, <2>1
<1>5. ASSUME NEW i \in 1..(Capacity - 1)
      PROVE  buf'[(head' - 1 - i + Capacity) % Capacity] =
               buf[(head - 1 - (i - 1) + Capacity) % Capacity]
  <2>1. (head' - 1 - i + Capacity) % Capacity =
           IF i < head' THEN head' - 1 - i ELSE head' - 1 - i + Capacity
    BY <1>2, SlotBehind
  <2> DEFINE j == i - 1
  <2>2. j \in 0..(Capacity - 1)
    OBVIOUS
  <2>3. (head - 1 - j + Capacity) % Capacity =
           IF j < head THEN head - 1 - j ELSE head - 1 - j + Capacity
    BY <1>1, <2>2, SlotBehind
  <2>4. /\ (head' - 1 - i + Capacity) % Capacity =
             (head - 1 - j + Capacity) % Capacity
        /\ (head - 1 - j + Capacity) % Capacity # head
        /\ (head - 1 - j + Capacity) % Capacity \in 0..(Capacity - 1)
    BY <1>1, <2>1, <2>3
  <2> QED
    BY <1>3, <2>4
<1> QED
  BY <1>4, <1>5

-----------------------------------------------------------------------------
(* The slots behind the head that count as filled are exactly those an     *)
(* item was written to: no reader returns the zero value of a slot.        *)
LEMMA FilledInvariant == Spec => []FilledBehindHead
<1>1. Init => FilledBehindHead
  <2> SUFFICES ASSUME Init, NEW i \in 0..(Capacity - 1)
               PROVE  buf[(head - 1 - i + Capacity) % Capacity] \in Item
                        <=> i < size
    BY DEF FilledBehindHead
  <2>1. (head - 1 - i + Capacity) % Capacity \in 0..(Capacity - 1)
    BY SlotInside DEF Init
  <2> QED
    BY <2>1 DEF Init
<1>2. TypeOK /\ FilledBehindHead /\ [Next]_vars => FilledBehindHead'
  <2>1. ASSUME TypeOK, FilledBehindHead, NEW item \in Item, Push(item)
        PROVE  FilledBehindHead'
    <3> SUFFICES ASSUME NEW i \in 0..(Capacity - 1)
                 PROVE  buf'[(head' - 1 - i + Capacity) % Capacity] \in Item
                          <=> i < size'
      BY DEF FilledBehindHead
    <3>1. size \in 0..Capacity /\ size' = IF size < Capacity THEN size + 1 ELSE size
      BY <2>1 DEF TypeOK, Push
    <3>2. CASE i = 0
      BY <2>1, <3>1, <3>2, PushShifts
    <3>3. CASE i # 0
      <4> DEFINE j == i - 1
      <4>1. i \in 1..(Capacity - 1) /\ j \in 0..(Capacity - 1)
        BY <3>3
      <4>2. buf'[(head' - 1 - i + Capacity) % Capacity] =
              buf[(head - 1 - j + Capacity) % Capacity]
        BY <2>1, <4>1, PushShifts
      <4>3. buf[(head - 1 - j + Capacity) % Capacity] \in Item <=> j < size
        BY <2>1, <4>1 DEF FilledBehindHead
      <4>4. j < size <=> i < size'
        BY <3>1, <4>1
      <4> QED
        BY <4>2, <4>3, <4>4
    <3> QED
      BY <3>2, <3>3
  <2>2. FilledBehindHead /\ UNCHANGED vars => FilledBehindHead'
    BY DEF FilledBehindHead, vars
  <2> QED
    BY <2>1, <2>2 DEF Next
<1> QED
  BY <1>1, <1>2, TypeCorrect, PTL DEF Spec

(* The array with its wraparound implements the log of the last pushes.    *)
THEOREM ArrayImplementsLog == Spec => ImplementsRecentLog
<1>1. Init => Log!Init
  BY DEF Init, Log!Init, Newest
<1>2. TypeOK /\ [Next]_vars => [Log!Next]_Newest
  <2>1. ASSUME TypeOK, NEW item \in Item, Push(item)
        PROVE  Log!Push(item)
    <3>1. size \in 0..Capacity /\ size' = IF size < Capacity THEN size + 1 ELSE size
      BY <2>1 DEF TypeOK, Push
    <3>2. Len(Newest) = size
      BY <3>1 DEF Newest
    <3>3. size' = Log!Smaller(Len(Newest) + 1, Capacity)
      BY <3>1, <3>2 DEF Log!Smaller
    <3>4. ASSUME NEW i \in 1..size'
          PROVE  buf'[(head' - 1 - (i - 1) + Capacity) % Capacity] =
                   IF i = 1 THEN item ELSE Newest[i - 1]
      <4>1. CASE i = 1
        BY <2>1, <4>1, PushShifts
      <4>2. CASE i # 1
        <5> DEFINE j == i - 1
        <5>1. j \in 1..(Capacity - 1) /\ j \in 1..size
          BY <3>1, <4>2
        <5>2. buf'[(head' - 1 - j + Capacity) % Capacity] =
                buf[(head - 1 - (j - 1) + Capacity) % Capacity]
          BY <2>1, <5>1, PushShifts
        <5>3. Newest[j] = buf[(head - 1 - (j - 1) + Capacity) % Capacity]
          BY <5>1 DEF Newest, Behind
        <5> QED
          BY <4>2, <5>2, <5>3
      <4> QED
        BY <4>1, <4>2
    <3> QED
      BY <3>3, <3>4 DEF Log!Push, Log!Pushed, Newest, Behind
  <2>2. UNCHANGED vars => UNCHANGED Newest
    BY DEF vars, Newest, Behind
  <2> QED
    BY <2>1, <2>2 DEF Next, Log!Next
<1> QED
  BY <1>1, <1>2, TypeCorrect, PTL DEF Spec, ImplementsRecentLog, Log!Spec

(* Recent answers what the abstract log answers, for every n.              *)
THEOREM RecentIsRecent ==
  ASSUME TypeOK, NEW n \in Int
  PROVE  RecentLocked(n) = Log!Recent(n)
<1>1. size \in 0..Capacity /\ Newest = [i \in 1..size |-> Behind(i - 1)]
  BY DEF TypeOK, Newest
<1>2. Len(Newest) = size
  BY <1>1
<1>3. CASE n <= 0
  BY <1>3 DEF RecentLocked, Log!Recent
<1>4. CASE n > 0
  <2>1. Log!Recent(n) = SubSeq(Newest, 1, Min2(n, size))
    BY <1>2, <1>4 DEF Log!Recent, Log!Smaller, Min2
  <2>2. Min2(n, size) \in 0..size
    BY <1>1, <1>4 DEF Min2
  <2>3. SubSeq(Newest, 1, Min2(n, size)) =
          [i \in 1..Min2(n, size) |-> Behind(i - 1)]
    BY <1>1, <2>2
  <2>4. RecentLocked(n) = [i \in 1..Min2(n, size) |-> Behind(i - 1)]
    BY <1>1, <1>4, <2>2 DEF RecentLocked, Min2
  <2> QED
    BY <2>1, <2>3, <2>4
<1> QED
  BY <1>3, <1>4

-----------------------------------------------------------------------------
(* The loop of the readers                                                 *)

(* A set of natural numbers that is not empty has a least element.         *)
LEMMA Least ==
  ASSUME NEW S \in SUBSET Nat, S # {}
  PROVE  \E m \in S : \A x \in S : m <= x
<1> DEFINE R == OpToRel(<, Nat)
<1>1. IsWellFoundedOn(R, Nat)
  BY NatLessThanWellFounded
<1>2. \A x, y \in Nat : <<x, y>> \in R <=> x < y
  BY DEF OpToRel
<1> HIDE DEF R
<1>3. PICK m \in S : \A y \in S : <<y, m>> \notin R
  BY <1>1, WFMin
<1>4. \A y \in S : y \in Nat /\ m \in Nat /\ ~(y < m)
  BY <1>2, <1>3
<1> QED BY <1>4

(* A set that has 0, and with every number below m the next one, has all   *)
(* numbers up to m.                                                        *)
LEMMA UpTo ==
  ASSUME NEW m \in Nat, NEW S, 0 \in S, \A n \in 0..(m - 1) : n \in S => n + 1 \in S
  PROVE  \A n \in 0..m : n \in S
<1> DEFINE Out == {n \in 0..m : n \notin S}
<1> SUFFICES ASSUME Out # {} PROVE FALSE
  OBVIOUS
<1>0. Out \in SUBSET Nat
  OBVIOUS
<1>1. PICK c \in Out : \A x \in Out : c <= x
  BY <1>0, Least
<1>2. c # 0 /\ c - 1 \in 0..(m - 1) /\ c - 1 \notin Out
  BY <1>1
<1> QED
  BY <1>1, <1>2

(* One round of Scan: what was found before item i and what after it.      *)
Round(items, target, wanted, i, before) ==
  IF Len(before) < target /\ items[i] \in wanted THEN Append(before, items[i]) ELSE before

(* What Scan has found after each of the first n items.                    *)
IsFound(f, items, target, wanted, n) ==
  f = [i \in 0..n |-> IF i = 0 THEN <<>> ELSE Round(items, target, wanted, i, f[i - 1])]

(* The loop runs through.                                                  *)
LEMMA LoopRuns ==
  ASSUME NEW items, NEW target, NEW wanted, NEW m \in Nat
  PROVE  \E f : IsFound(f, items, target, wanted, m)
<1> DEFINE Runs == {n \in Nat : \E f : IsFound(f, items, target, wanted, n)}
<1>1. 0 \in Runs
  <2> DEFINE f == [i \in 0..0 |-> <<>>]
  <2>1. IsFound(f, items, target, wanted, 0)
    BY DEF IsFound
  <2> QED
    BY <2>1
<1>2. ASSUME NEW n \in 0..(m - 1), n \in Runs PROVE n + 1 \in Runs
  <2>1. PICK f : IsFound(f, items, target, wanted, n)
    BY <1>2
  <2> DEFINE g == [i \in 0..(n + 1) |->
                     IF i <= n THEN f[i] ELSE Round(items, target, wanted, i, f[n])]
  <2>2. ASSUME NEW i \in 0..(n + 1)
        PROVE  g[i] = IF i = 0 THEN <<>> ELSE Round(items, target, wanted, i, g[i - 1])
    <3>1. CASE i = 0
      BY <2>1, <3>1 DEF IsFound
    <3>2. CASE i # 0 /\ i <= n
      <4>1. g[i] = f[i] /\ g[i - 1] = f[i - 1] /\ i \in 0..n
        BY <3>2
      <4>2. f[i] = Round(items, target, wanted, i, f[i - 1])
        BY <2>1, <3>2, <4>1 DEF IsFound
      <4> QED
        BY <3>2, <4>1, <4>2
    <3>3. CASE i = n + 1
      <4>1. g[i] = Round(items, target, wanted, i, f[n]) /\ g[i - 1] = f[n]
        BY <3>3
      <4> QED
        BY <3>3, <4>1
    <3> QED
      BY <3>1, <3>2, <3>3
  <2>3. IsFound(g, items, target, wanted, n + 1)
    <3> HIDE DEF g
    <3>1. g = [i \in 0..(n + 1) |-> g[i]]
      BY DEF g
    <3> QED
      BY <2>2, <3>1 DEF IsFound
  <2> HIDE DEF g
  <2> QED
    BY <2>3
<1> HIDE DEF Runs
<1>3. \A n \in 0..m : n \in Runs
  BY <1>1, <1>2, UpTo
<1> QED
  BY <1>3 DEF Runs

LEMMA ScanIsLoop ==
  ASSUME NEW items, NEW target, NEW wanted, Len(items) \in Nat
  PROVE  \E f : /\ IsFound(f, items, target, wanted, Len(items))
                /\ Scan(items, target, wanted) = f[Len(items)]
<1> DEFINE f == CHOOSE g : IsFound(g, items, target, wanted, Len(items))
<1>1. IsFound(f, items, target, wanted, Len(items))
  BY LoopRuns
<1>2. Scan(items, target, wanted) = f[Len(items)]
  BY DEF Scan, IsFound, Round
<1> HIDE DEF f
<1> QED
  BY <1>1, <1>2

-----------------------------------------------------------------------------
(* How many of the first i items are wanted                                *)

Places(items, wanted, i) == {j \in 1..Len(items) : j <= i /\ items[j] \in wanted}

Count(items, wanted, i) == Cardinality(Places(items, wanted, i))

LEMMA PlacesFinite ==
  ASSUME NEW items, NEW wanted, NEW i \in Int, Len(items) \in Nat
  PROVE  IsFiniteSet(Places(items, wanted, i)) /\ Count(items, wanted, i) \in Nat
<1>1. IsFiniteSet(1..Len(items))
  BY FS_Interval
<1>2. Places(items, wanted, i) \subseteq 1..Len(items)
  BY DEF Places
<1>3. IsFiniteSet(Places(items, wanted, i))
  BY <1>1, <1>2, FS_Subset
<1> QED
  BY <1>3, FS_CardinalityType DEF Count

LEMMA CountNone ==
  ASSUME NEW items, NEW wanted, Len(items) \in Nat
  PROVE  Count(items, wanted, 0) = 0
<1>1. Places(items, wanted, 0) = {}
  BY DEF Places
<1> QED
  BY <1>1, FS_EmptySet DEF Count

LEMMA CountNext ==
  ASSUME NEW items, NEW wanted, Len(items) \in Nat, NEW i \in 1..Len(items)
  PROVE  Count(items, wanted, i) =
           Count(items, wanted, i - 1) + (IF items[i] \in wanted THEN 1 ELSE 0)
<1>0. IsFiniteSet(Places(items, wanted, i - 1)) /\ Count(items, wanted, i - 1) \in Nat
  BY PlacesFinite
<1>1. CASE items[i] \in wanted
  <2>1. Places(items, wanted, i) = Places(items, wanted, i - 1) \cup {i}
    BY <1>1 DEF Places
  <2>2. i \notin Places(items, wanted, i - 1)
    BY DEF Places
  <2> QED
    BY <1>0, <1>1, <2>1, <2>2, FS_AddElement DEF Count
<1>2. CASE items[i] \notin wanted
  <2>1. Places(items, wanted, i) = Places(items, wanted, i - 1)
    BY <1>2 DEF Places
  <2> QED
    BY <1>0, <1>2, <2>1 DEF Count
<1> QED
  BY <1>1, <1>2

LEMMA CountGrows ==
  ASSUME NEW items, NEW wanted, Len(items) \in Nat, NEW i \in Int, NEW j \in Int, i <= j
  PROVE  Count(items, wanted, i) <= Count(items, wanted, j)
<1>1. Places(items, wanted, i) \subseteq Places(items, wanted, j)
  BY DEF Places
<1>2. IsFiniteSet(Places(items, wanted, j))
  BY PlacesFinite
<1> QED
  BY <1>1, <1>2, FS_Subset DEF Count

(* What the loop has found after n items: the k-th match is at place k, as *)
(* far as the target goes.                                                 *)
LEMMA LoopFinds ==
  ASSUME NEW T, NEW items \in Seq(T), NEW target \in Nat, NEW wanted, NEW f,
         IsFound(f, items, target, wanted, Len(items)), NEW n \in 0..Len(items)
  PROVE  /\ f[n] \in Seq(T)
         /\ Len(f[n]) = Min2(target, Count(items, wanted, n))
         /\ \A i \in Places(items, wanted, n) :
              Count(items, wanted, i) <= target => f[n][Count(items, wanted, i)] = items[i]
<1> DEFINE Right(x) ==
      /\ f[x] \in Seq(T)
      /\ Len(f[x]) = Min2(target, Count(items, wanted, x))
      /\ \A i \in Places(items, wanted, x) :
           Count(items, wanted, i) <= target => f[x][Count(items, wanted, i)] = items[i]
<1> DEFINE S == {x \in 0..Len(items) : Right(x)}
<1>0. Len(items) \in Nat
  OBVIOUS
<1>1. 0 \in S
  <2>1. f[0] = <<>>
    BY <1>0 DEF IsFound
  <2>2. Places(items, wanted, 0) = {}
    BY DEF Places
  <2>3. f[0] \in Seq(T) /\ Len(f[0]) = 0
    BY <2>1
  <2>4. Min2(target, Count(items, wanted, 0)) = 0
    BY <1>0, CountNone DEF Min2
  <2> QED
    BY <1>0, <2>2, <2>3, <2>4
<1>2. ASSUME NEW x \in 0..(Len(items) - 1), x \in S PROVE x + 1 \in S
  <2> DEFINE r == Count(items, wanted, x)
  <2> DEFINE y == x + 1
  <2>1. y \in 1..Len(items) /\ y - 1 = x /\ f[y] = Round(items, target, wanted, y, f[x])
    BY <1>0 DEF IsFound
  <2>2. r \in Nat /\ Count(items, wanted, y) = r + (IF items[y] \in wanted THEN 1 ELSE 0)
    BY <1>0, <2>1, CountNext, PlacesFinite
  <2>3. items[y] \in T /\ f[x] \in Seq(T) /\ Len(f[x]) = Min2(target, r)
    BY <1>2, <2>1
  <2>4. ASSUME NEW i \in Places(items, wanted, x), Count(items, wanted, i) <= target
        PROVE  /\ Count(items, wanted, i) \in 1..Len(f[x])
               /\ f[x][Count(items, wanted, i)] = items[i]
    <3>1. i \in 1..Len(items) /\ i <= x /\ items[i] \in wanted
      BY <2>4 DEF Places
    <3>2. Count(items, wanted, i) <= r
      BY <1>0, <3>1, CountGrows
    <3>3. Count(items, wanted, i) = Count(items, wanted, i - 1) + 1
      BY <1>0, <3>1, CountNext
    <3>4. Count(items, wanted, i - 1) \in Nat
      BY <1>0, <3>1, PlacesFinite
    <3> QED
      BY <1>2, <2>2, <2>3, <2>4, <3>2, <3>3, <3>4 DEF Min2
  <2>5. Places(items, wanted, y) =
          Places(items, wanted, x) \cup (IF items[y] \in wanted THEN {y} ELSE {})
    BY <2>1 DEF Places
  <2> HIDE DEF r, y
  <2>6. CASE Len(f[x]) < target /\ items[y] \in wanted
    <3>1. f[y] = Append(f[x], items[y])
      BY <2>1, <2>6 DEF Round
    <3> DEFINE before == f[x]
    <3> DEFINE item == items[y]
    <3>0. before \in Seq(T) /\ item \in T
      BY <2>3
    <3> HIDE DEF before, item
    <3>a. Append(before, item) \in Seq(T) /\ Len(Append(before, item)) = Len(before) + 1
      BY <3>0
    <3>2. f[y] \in Seq(T) /\ Len(f[y]) = Len(f[x]) + 1
      BY <3>1, <3>a DEF before, item
    <3>3. Len(f[x]) = r /\ Count(items, wanted, y) = r + 1
      BY <2>2, <2>3, <2>6 DEF Min2
    <3>4. Len(f[y]) = Min2(target, Count(items, wanted, y))
      BY <2>2, <2>6, <3>2, <3>3 DEF Min2
    <3>5. ASSUME NEW i \in Places(items, wanted, y), Count(items, wanted, i) <= target
          PROVE  f[y][Count(items, wanted, i)] = items[i]
      <4>1. CASE i = y
        BY <2>2, <2>3, <3>1, <3>3, <4>1
      <4>2. CASE i # y
        <5>1. i \in Places(items, wanted, x)
          BY <2>5, <4>2
        <5>2. Count(items, wanted, i) \in 1..Len(f[x]) /\ f[x][Count(items, wanted, i)] = items[i]
          BY <2>4, <3>5, <5>1
        <5> QED
          BY <2>3, <3>1, <5>2
      <4> QED
        BY <4>1, <4>2
    <3> QED
      BY <2>1, <3>2, <3>4, <3>5 DEF y
  <2>7. CASE ~(Len(f[x]) < target /\ items[y] \in wanted)
    <3>1. f[y] = f[x]
      BY <2>1, <2>7 DEF Round
    <3>2. Len(f[y]) = Min2(target, Count(items, wanted, y))
      BY <2>2, <2>3, <2>7, <3>1 DEF Min2
    <3>3. ASSUME NEW i \in Places(items, wanted, y), Count(items, wanted, i) <= target
          PROVE  f[y][Count(items, wanted, i)] = items[i]
      <4>1. i # y
        BY <2>2, <2>3, <2>5, <2>7, <3>3 DEF Min2, Places
      <4>2. i \in Places(items, wanted, x)
        BY <2>5, <4>1
      <4> QED
        BY <2>4, <3>1, <3>3, <4>2
    <3> QED
      BY <2>1, <2>3, <3>1, <3>2, <3>3 DEF y
  <2> QED
    BY <2>6, <2>7
<1> HIDE DEF S
<1>3. \A x \in 0..Len(items) : x \in S
  BY <1>0, <1>1, <1>2, UpTo
<1>4. n \in S
  BY <1>3
<1> QED
  BY <1>4 DEF S

LEMMA ScanFinds ==
  ASSUME NEW T, NEW items \in Seq(T), NEW target \in Nat, NEW wanted
  PROVE  /\ Len(Scan(items, target, wanted)) = Min2(target, Count(items, wanted, Len(items)))
         /\ \A i \in Places(items, wanted, Len(items)) :
              Count(items, wanted, i) <= target =>
                Scan(items, target, wanted)[Count(items, wanted, i)] = items[i]
<1>1. Len(items) \in Nat
  OBVIOUS
<1>2. PICK f : /\ IsFound(f, items, target, wanted, Len(items))
               /\ Scan(items, target, wanted) = f[Len(items)]
  BY <1>1, ScanIsLoop
<1>3. Len(items) \in 0..Len(items)
  BY <1>1
<1> QED
  BY <1>2, <1>3, LoopFinds

-----------------------------------------------------------------------------
(* The readers                                                             *)

Value == Item \cup {NoItem}

LEMMA NewestIsSeq ==
  ASSUME TypeOK
  PROVE  Newest \in Seq(Value) /\ Len(Newest) = size /\ size \in Nat
<1>1. size \in Nat /\ size <= Capacity
  BY DEF TypeOK
<1>2. \A i \in 1..size : Behind(i - 1) \in Value
  <2> SUFFICES ASSUME NEW i \in 1..size PROVE Behind(i - 1) \in Value
    OBVIOUS
  <2> DEFINE j == i - 1
  <2>1. j \in 0..(Capacity - 1) /\ head \in 0..(Capacity - 1)
    BY <1>1 DEF TypeOK
  <2>2. (head - 1 - j + Capacity) % Capacity \in 0..(Capacity - 1)
    BY <2>1, SlotInside
  <2>3. Behind(j) = buf[(head - 1 - j + Capacity) % Capacity]
    BY DEF Behind
  <2> QED
    BY <2>2, <2>3 DEF TypeOK, Value
<1> QED
  BY <1>1, <1>2 DEF Newest

LEMMA MatchesArePlaces ==
  ASSUME NEW wanted, NEW i
  PROVE  Log!Matches(wanted, i) = Places(Newest, wanted, i)
BY DEF Log!Matches, Places

LEMMA CountBound ==
  ASSUME NEW items, NEW wanted, NEW i \in Int, Len(items) \in Nat
  PROVE  Count(items, wanted, i) <= Len(items)
<1>1. Places(items, wanted, i) \subseteq 1..Len(items)
  BY DEF Places
<1>2. IsFiniteSet(1..Len(items)) /\ Cardinality(1..Len(items)) = Len(items)
  <2> DEFINE m == Len(items)
  <2>1. m \in Int /\ 1 \in Int /\ m \in Nat
    OBVIOUS
  <2> HIDE DEF m
  <2>2. IsFiniteSet(1..m) /\ Cardinality(1..m) = IF 1 > m THEN 0 ELSE m - 1 + 1
    BY <2>1, FS_Interval
  <2>3. IsFiniteSet(1..m) /\ Cardinality(1..m) = m
    BY <2>1, <2>2
  <2> QED
    BY <2>3 DEF m
<1> QED
  BY <1>1, <1>2, FS_Subset DEF Count

(* The abstract log counts with the same cardinality.                      *)
LEMMA SameCardinality ==
  ASSUME NEW S
  PROVE  Log!Cardinality(S) = Cardinality(S)
BY DEF Log!Cardinality, Cardinality

(* A scan of the newest items is answered from the log.                    *)
LEMMA ScanAnswers ==
  ASSUME TypeOK, NEW n \in Nat, NEW wanted, NEW first \in Nat, NEW items \in Seq(Value),
         Len(items) = Min2(first, size), \A i \in 1..Len(items) : items[i] = Newest[i]
  PROVE  Log!Answers(Scan(items, n, wanted), n, wanted, first)
<1> DEFINE k == Len(items)
<1>1. Len(Newest) = size /\ size \in Nat /\ k \in Nat /\ k <= size
  BY NewestIsSeq DEF Min2
<1>2. ASSUME NEW i \in 0..k PROVE Places(items, wanted, i) = Places(Newest, wanted, i)
  BY <1>1 DEF Places
<1>3. Places(Newest, wanted, first) = Places(Newest, wanted, k)
  BY <1>1 DEF Places, Min2
<1>4. /\ Len(Scan(items, n, wanted)) = Min2(n, Count(items, wanted, k))
      /\ \A i \in Places(items, wanted, k) :
           Count(items, wanted, i) <= n =>
             Scan(items, n, wanted)[Count(items, wanted, i)] = items[i]
  <2>1. /\ Len(Scan(items, n, wanted)) = Min2(n, Count(items, wanted, Len(items)))
        /\ \A i \in Places(items, wanted, Len(items)) :
             Count(items, wanted, i) <= n =>
               Scan(items, n, wanted)[Count(items, wanted, i)] = items[i]
    <3> HIDE DEF k
    <3>1. items \in Seq(Value) /\ n \in Nat
      OBVIOUS
    <3> QED
      BY ONLY <3>1, ScanFinds, Zenon
  <2> QED
    BY <2>1
<1>5. Log!Matches(wanted, first) = Places(items, wanted, k)
  BY <1>1, <1>2, <1>3, MatchesArePlaces
<1>6. ASSUME NEW i \in Places(items, wanted, k)
      PROVE  /\ Cardinality(Log!Matches(wanted, i)) = Count(items, wanted, i)
             /\ items[i] = Newest[i]
  <2>1. i \in 0..k /\ i \in 1..k
    BY <1>1 DEF Places
  <2>2. Log!Matches(wanted, i) = Places(items, wanted, i)
    BY <1>2, <2>1, MatchesArePlaces
  <2> QED
    BY <2>1, <2>2 DEF Count
<1>7. Count(items, wanted, k) \in Nat
  BY <1>1, PlacesFinite
<1>8. Len(Scan(items, n, wanted)) =
        IF n <= 0 THEN 0 ELSE Log!Smaller(n, Cardinality(Log!Matches(wanted, first)))
  BY <1>4, <1>5, <1>7 DEF Min2, Log!Smaller, Count
<1> HIDE DEF k
<1> QED
  BY <1>4, <1>5, <1>6, <1>8, SameCardinality DEF Log!Answers

(* RecentFiltered answers from the whole log, whatever is asked for.       *)
LEMMA FilteredAnswers ==
  ASSUME TypeOK, NEW n \in Int, NEW wanted
  PROVE  Log!Answers(RecentFiltered(n, wanted), n, wanted, size)
<1>1. Newest \in Seq(Value) /\ Len(Newest) = size /\ size \in Nat
  BY NewestIsSeq
<1>2. ASSUME NEW i \in Log!Matches(wanted, size)
      PROVE  /\ Cardinality(Log!Matches(wanted, i)) \in Nat
             /\ Cardinality(Log!Matches(wanted, i)) >= 1
             /\ Cardinality(Log!Matches(wanted, i)) <= size
  <2>1. i \in 1..Len(Newest) /\ Newest[i] \in wanted
    BY DEF Log!Matches
  <2>2. Cardinality(Log!Matches(wanted, i)) = Count(Newest, wanted, i)
    BY MatchesArePlaces DEF Count
  <2>3. Count(Newest, wanted, i) = Count(Newest, wanted, i - 1) + 1
    BY <1>1, <2>1, CountNext
  <2>4. Count(Newest, wanted, i - 1) \in Nat /\ i \in Int /\ i - 1 \in Int
    BY <1>1, <2>1, PlacesFinite
  <2>5. Count(Newest, wanted, i) <= size
    BY <1>1, <2>4, CountBound
  <2> QED
    BY <2>2, <2>3, <2>4, <2>5
<1>3. Cardinality(Log!Matches(wanted, size)) \in 0..size
  <2>1. Cardinality(Log!Matches(wanted, size)) = Count(Newest, wanted, size)
    BY MatchesArePlaces DEF Count
  <2> QED
    BY <1>1, <2>1, PlacesFinite, CountBound
<1>4. CASE n <= 0 \/ size = 0
  <2>1. Len(RecentFiltered(n, wanted)) = 0
    BY <1>4 DEF RecentFiltered
  <2>2. Len(RecentFiltered(n, wanted)) =
          IF n <= 0 THEN 0 ELSE Log!Smaller(n, Cardinality(Log!Matches(wanted, size)))
    BY <1>1, <1>3, <1>4, <2>1 DEF Log!Smaller
  <2>3. \A i \in Log!Matches(wanted, size) : ~(Cardinality(Log!Matches(wanted, i)) <= n)
    BY <1>1, <1>2, <1>4
  <2> QED
    BY <2>2, <2>3, SameCardinality DEF Log!Answers
<1>5. CASE ~(n <= 0 \/ size = 0)
  <2> DEFINE target == Min2(n, size)
  <2>1. target \in Nat /\ target > 0 /\ target <= n
    BY <1>1, <1>5 DEF Min2
  <2>2. RecentFiltered(n, wanted) = Scan(Newest, target, wanted)
    BY <1>5 DEF RecentFiltered
  <2>3. Log!Answers(Scan(Newest, target, wanted), target, wanted, size)
    BY <1>1, <2>1, ScanAnswers DEF Min2
  <2>4. /\ Len(RecentFiltered(n, wanted)) =
             Log!Smaller(target, Cardinality(Log!Matches(wanted, size)))
        /\ \A i \in Log!Matches(wanted, size) :
             Cardinality(Log!Matches(wanted, i)) <= target =>
               RecentFiltered(n, wanted)[Cardinality(Log!Matches(wanted, i))] = Newest[i]
    BY <2>1, <2>2, <2>3, SameCardinality DEF Log!Answers
  <2>5. Log!Smaller(target, Cardinality(Log!Matches(wanted, size))) =
          Log!Smaller(n, Cardinality(Log!Matches(wanted, size)))
    BY <1>1, <1>3, <1>5 DEF Log!Smaller, Min2
  <2>6. \A i \in Log!Matches(wanted, size) :
          Cardinality(Log!Matches(wanted, i)) <= n => Cardinality(Log!Matches(wanted, i)) <= target
    BY <1>1, <1>2 DEF Min2
  <2> QED
    BY <1>5, <2>4, <2>5, <2>6, SameCardinality DEF Log!Answers
<1> QED
  BY <1>4, <1>5

LEMMA FilterAnswers ==
  ASSUME TypeOK, NEW wanted
  PROVE  Log!Answers(Filter(wanted), size, wanted, size)
<1>1. Newest \in Seq(Value) /\ Len(Newest) = size /\ size \in Nat
  BY NewestIsSeq
<1> QED
  BY <1>1, ScanAnswers DEF Filter, Min2

LEMMA TradesRecentAnswers ==
  ASSUME TypeOK, NEW limit \in Nat \ {0}, NEW wanted
  PROVE  Log!Answers(TradesRecent(limit, wanted), limit, wanted, 2 * limit)
<1>1. Newest \in Seq(Value) /\ Len(Newest) = size /\ size \in Nat
  BY NewestIsSeq
<1> DEFINE items == RecentLocked(2 * limit)
<1>2. /\ items \in Seq(Value)
      /\ Len(items) = Min2(2 * limit, size)
      /\ \A i \in 1..Len(items) : items[i] = Newest[i]
  <2>1. \A i \in 1..size : Behind(i - 1) \in Value
    BY <1>1 DEF Newest
  <2>2. CASE size = 0
    BY <1>1, <2>2 DEF RecentLocked, Min2
  <2>3. CASE size # 0
    <3>1. items = [i \in 1..Min2(2 * limit, size) |-> Behind(i - 1)]
      BY <1>1, <2>3 DEF RecentLocked
    <3>2. Min2(2 * limit, size) \in Nat /\ Min2(2 * limit, size) <= size
      BY <1>1 DEF Min2
    <3> QED
      BY <1>1, <2>1, <3>1, <3>2 DEF Newest
  <2> QED
    BY <2>2, <2>3
<1> HIDE DEF items
<1>3. Log!Answers(Scan(items, limit, wanted), limit, wanted, 2 * limit)
  BY <1>2, ScanAnswers
<1> QED
  BY <1>3 DEF TradesRecent, items

LEMMA RangeAnswers ==
  ASSUME TypeOK, NEW from \in Int, NEW to \in Int
  PROVE  RangeOf(from, to) = Log!Slice(from, to)
<1>1. Newest \in Seq(Value) /\ Len(Newest) = size /\ size \in Nat
  BY NewestIsSeq
<1> DEFINE skipped == IF from < 0 THEN 0 ELSE from
<1> DEFINE most == IF to < skipped THEN skipped ELSE to
<1> DEFINE a == Min2(skipped, size)
<1> DEFINE b == Min2(most, size)
<1> DEFINE wanted == {i \in 1..Len(Newest) : from < i /\ i <= to}
<1> DEFINE length == IF wanted = {} THEN 0 ELSE Log!Smaller(to, Len(Newest)) - skipped
<1>2. RangeOf(from, to) = SubSeq(Newest, a + 1, b)
  BY DEF RangeOf
<1>3. Log!Slice(from, to) = [i \in 1..length |-> Newest[skipped + i]]
  BY DEF Log!Slice
<1>4. a \in Nat /\ b \in Nat /\ a <= b /\ b <= size
  BY <1>1 DEF Min2
<1>5. SubSeq(Newest, a + 1, b) = [i \in 1..(b - a) |-> Newest[a + i]]
  BY <1>1, <1>4
<1>6. b - a = length /\ (b # a => a = skipped)
  <2>1. CASE wanted = {}
    <3>1. ~(skipped + 1 \in 1..size /\ skipped + 1 <= to)
      <4>1. ASSUME skipped + 1 \in 1..size, skipped + 1 <= to
            PROVE  skipped + 1 \in wanted
        BY <1>1, <4>1
      <4> HIDE DEF wanted
      <4> QED
        BY <2>1, <4>1
    <3> QED
      BY <1>1, <2>1, <3>1 DEF Min2
  <2>2. CASE wanted # {}
    <3>1. PICK i \in 1..size : from < i /\ i <= to
      BY <1>1, <2>2
    <3> QED
      BY <1>1, <2>2, <3>1 DEF Min2, Log!Smaller
  <2> QED
    BY <2>1, <2>2
<1> HIDE DEF a, b, skipped, length
<1>7. CASE b = a
  BY <1>2, <1>3, <1>4, <1>5, <1>6, <1>7
<1>8. CASE b # a
  BY <1>2, <1>3, <1>4, <1>5, <1>6, <1>8
<1> QED
  BY <1>7, <1>8

(* Every reader answers from the log of the last pushes, in every state    *)
(* of the ring and for every argument there is: the indices around the     *)
(* head and the loops that stop early are right for all capacities.        *)
THEOREM ReadersAnswer ==
  ASSUME TypeOK
  PROVE  /\ \A n \in Int : RecentLocked(n) = Log!Recent(n)
         /\ \A from, to \in Int : RangeOf(from, to) = Log!Slice(from, to)
         /\ \A wanted :
              /\ Log!Answers(Filter(wanted), size, wanted, size)
              /\ \A n \in Int : Log!Answers(RecentFiltered(n, wanted), n, wanted, size)
              /\ \A limit \in Nat \ {0} :
                   Log!Answers(TradesRecent(limit, wanted), limit, wanted, 2 * limit)
BY RecentIsRecent, RangeAnswers, FilterAnswers, FilteredAnswers, TradesRecentAnswers

(* Whoever reads the ring is answered from the log: Recent, Range, Filter, *)
(* RecentFiltered and /trades/recent, after any pushes.                    *)
THEOREM ReadersAlwaysAgree == Spec => []ReadersAgree
<1>1. TypeOK => ReadersAgree
  <2>1. Asked \subseteq Int /\ 1..Capacity \subseteq Nat \ {0}
    BY DEF Asked
  <2> QED
    BY <2>1, ReadersAnswer DEF ReadersAgree
<1> QED
  BY <1>1, TypeCorrect, PTL
=============================================================================
