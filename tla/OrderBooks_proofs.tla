-------------------------- MODULE OrderBooks_proofs --------------------------
(***************************************************************************)
(* Proofs about OrderBooks, for all prices, quantities, ticks, conventions *)
(* and any number of changes.                                              *)
(***************************************************************************)
EXTENDS OrderBooks, SequenceTheorems, WellFoundedInduction, TLAPS

(* A set of natural numbers that is not empty has a least element.         *)
LEMMA Least ==
  ASSUME NEW S \in SUBSET Nat, S # {}
  PROVE  \E m \in S : \A x \in S : m <= x
<1> DEFINE R == OpToRel(<, Nat)
<1>1. IsWellFoundedOn(R, Nat)
  BY NatLessThanWellFounded
<1>2. \A x, y \in Nat : <<x, y>> \in R <=> x < y
  BY DEF OpToRel
<1> HIDE DEF R
<1>3. PICK m \in S : \A y \in S : <<y, m>> \notin R
  BY <1>1, WFMin
<1>4. \A y \in S : y \in Nat /\ m \in Nat /\ ~(y < m)
  BY <1>2, <1>3
<1> QED BY <1>4

(* Min is that element.                                                    *)
LEMMA MinIsLeast ==
  ASSUME NEW S \in SUBSET Nat, S # {}
  PROVE  Min(S) \in S /\ \A x \in S : Min(S) <= x
BY Least DEF Min

(* Max is the greatest element of a set that has a bound.                  *)
LEMMA MaxIsGreatest ==
  ASSUME NEW S \in SUBSET Nat, S # {}, NEW n \in Nat, \A x \in S : x <= n
  PROVE  Max(S) \in S /\ \A x \in S : x <= Max(S)
<1> DEFINE T == {n - x : x \in S}
<1>1. \A x \in S : x \in Nat /\ n - x \in Nat /\ n - x \in T
  OBVIOUS
<1>2. T \subseteq Nat /\ T # {}
  BY <1>1
<1>3. PICK t \in T : \A u \in T : t <= u
  BY <1>2, Least
<1>4. PICK m \in S : t = n - m
  OBVIOUS
<1>5. \A x \in S : m >= x
  <2>1. \A x \in S : n - m <= n - x
    <3> HIDE DEF T
    <3> QED BY <1>1, <1>3, <1>4
  <2> QED BY <1>1, <2>1
<1>6. Max(S) \in S /\ \A x \in S : Max(S) >= x
  BY <1>5 DEF Max
<1> QED BY <1>1, <1>6

USE BooksAssumption DEF BooksAssumption

-----------------------------------------------------------------------------
(* Books                                                                   *)

(* The empty book is a book.                                              *)
LEMMA NoLevelsType ==
  ASSUME NEW P
  PROVE  NoLevels(P) \in Book(P)
BY DEF NoLevels, Book

(* A delta makes a book of a book.                                         *)
LEMMA UpdatedType ==
  ASSUME NEW b \in Book(Price), NEW new \in Book(Price), NEW changes
  PROVE  Updated(b, changes, new) \in Book(Price)
<1>1. SetLevels(b, changes, new) \in Book(Price)
  BY DEF SetLevels, Book
<1>2. SetPrices(b, changes, new) \in Book(Price)
  BY DEF SetPrices, Book
<1> QED BY <1>1, <1>2 DEF Updated

(* A price of an uncrossed book has no level on one side.                  *)
LEMMA OneSided ==
  ASSUME NEW b \in Book(Price), Uncrossed(b), NEW p \in Price,
         NEW s \in Sides, NEW t \in Sides, s # t, b[s][p] # 0
  PROVE  b[t][p] = 0
<1>1. \A u \in Sides : DOMAIN b[u] = Price /\ b[u][p] \in Nat
  <2>1. \A u \in Sides : b[u] \in [Price -> Qty \cup {0}]
    BY DEF Book
  <2>2. \A u \in Sides : DOMAIN b[u] = Price /\ b[u][p] \in Qty \cup {0}
    BY <2>1
  <2>3. Qty \cup {0} \subseteq Nat
    OBVIOUS
  <2> QED BY <2>2, <2>3
<1>2. SUFFICES ASSUME b[t][p] # 0 PROVE FALSE
  OBVIOUS
<1>3. p \in Present(b, s) /\ p \in Present(b, t)
  <2>1. p \in DOMAIN b[s] /\ p \in DOMAIN b[t]
    BY <1>1
  <2>2. b[s][p] > 0 /\ b[t][p] > 0
    BY <1>1, <1>2
  <2> QED BY <2>1, <2>2 DEF Present
<1>4. p \in Present(b, "bids") /\ p \in Present(b, "asks")
  BY <1>3 DEF Sides
<1>5. p < p
  BY <1>4 DEF Uncrossed
<1>6. p \in Nat
  OBVIOUS
<1> QED BY <1>5, <1>6

(* A delta applied to the book it was made from gives the book it was made *)
(* for: no level is left out, and where Bitfinex deletes on both sides the *)
(* other side had no level, because the books are uncrossed.               *)
LEMMA DeltaApplies ==
  ASSUME NEW old \in Book(Price), NEW new \in Book(Price), Uncrossed(old)
  PROVE  Updated(old, Changes(old, new), new) = new
<1>1. \A s \in Sides, p \in Price :
        <<s, p>> \in Changes(old, new) \/ old[s][p] = new[s][p]
  BY DEF Changes
<1>2. SetLevels(old, Changes(old, new), new) = new
  BY <1>1 DEF SetLevels, Book
<1>3. ASSUME NEW s \in Sides, NEW p \in Price,
             <<s, p>> \notin Changes(old, new),
             NEW d \in Changes(old, new), d[2] = p, new[d[1]][d[2]] = 0
      PROVE  new[s][p] = 0
  <2>1. d[1] \in Sides /\ old[d[1]][p] # 0
    BY <1>3 DEF Changes
  <2>2. d[1] # s
    BY <1>3, <2>1 DEF Changes
  <2>3. old[s][p] = 0
    BY <2>1, <2>2, OneSided
  <2> QED BY <1>1, <1>3, <2>3
<1>4. SetPrices(old, Changes(old, new), new) = new
  <2> DEFINE deleted ==
        {c[2] : c \in {d \in Changes(old, new) : new[d[1]][d[2]] = 0}}
  <2>1. ASSUME NEW s \in Sides, NEW p \in Price,
               <<s, p>> \notin Changes(old, new), p \in deleted
        PROVE  new[s][p] = 0
    BY <1>3, <2>1
  <2> HIDE DEF deleted
  <2>2. new = [s \in Sides |-> [p \in Price |->
                 IF <<s, p>> \in Changes(old, new) THEN new[s][p]
                 ELSE IF p \in deleted THEN 0
                 ELSE old[s][p]]]
    BY <1>1, <2>1 DEF Book
  <2> QED BY <2>2 DEF SetPrices, deleted
<1> QED BY <1>2, <1>4 DEF Updated

-----------------------------------------------------------------------------
(* Messages on the wire                                                    *)

OfBook(m) == m.kind # "stat"

(* The messages about the book carry numbers that grow from low to high.   *)
Ordered(w, low, high) ==
  /\ \A i, j \in 1..Len(w) :
       i < j /\ OfBook(w[i]) /\ OfBook(w[j]) => w[i].of < w[j].of
  /\ \A i \in 1..Len(w) :
       OfBook(w[i]) => low <= w[i].of /\ w[i].of \in 1..high
  /\ \A i \in 1..Len(w) : w[i].kind = "delta" => w[i].of > 1

(* Every delta follows the version before it.                              *)
Linked(w, low) ==
  \A i \in 1..Len(w) :
    w[i].kind = "delta" =>
      \/ low = w[i].of - 1
      \/ \E j \in 1..Len(w) : j < i /\ OfBook(w[j]) /\ w[j].of = w[i].of - 1

(* Once everything is read, the book is at high.                           *)
Reaches(w, low, high) ==
  \/ low = high
  \/ \E i \in 1..Len(w) : OfBook(w[i]) /\ w[i].of = high

(* Taking the first message from the wire.                                 *)
LEMMA TakeFirst ==
  ASSUME NEW w \in Seq(Message), w # <<>>
  PROVE  /\ Head(w) = w[1] /\ Head(w) \in Message
         /\ Tail(w) \in Seq(Message)
         /\ Len(w) \in Nat \ {0}
         /\ Len(Tail(w)) = Len(w) - 1
         /\ \A i \in 1..Len(Tail(w)) : Tail(w)[i] = w[i + 1]
OBVIOUS

(* Putting a message behind the last one.                                  *)
LEMMA PutLast ==
  ASSUME NEW w \in Seq(Message), NEW m \in Message
  PROVE  /\ Append(w, m) \in Seq(Message)
         /\ Len(w) \in Nat
         /\ Len(Append(w, m)) = Len(w) + 1
         /\ \A i \in 1..Len(w) : Append(w, m)[i] = w[i]
         /\ Append(w, m)[Len(w) + 1] = m
OBVIOUS

(* What is on the wire is a message with a number.                        *)
LEMMA MessageType ==
  ASSUME NEW w \in Seq(Message)
  PROVE  \A i \in 1..Len(w) : w[i] \in Message /\ w[i].of \in Nat
<1>1. \A i \in 1..Len(w) : w[i] \in Message
  OBVIOUS
<1>2. \A m \in Message : m.of \in Nat
  BY DEF Message
<1> QED BY <1>1, <1>2

(* Reading a message about the book moves the book to its number, reading  *)
(* another one leaves it where it is.                                      *)
LEMMA ReadOne ==
  ASSUME NEW w \in Seq(Message), w # <<>>, NEW low \in Nat, NEW high \in Nat,
         Ordered(w, low, high),
         NEW at \in Nat, at = IF OfBook(Head(w)) THEN Head(w).of ELSE low
  PROVE  /\ OfBook(Head(w)) => low <= Head(w).of /\ Head(w).of \in 1..high
         /\ Head(w).kind = "delta" => Head(w).of > 1
         /\ Ordered(Tail(w), at, high)
         /\ Linked(w, low) => Linked(Tail(w), at)
         /\ Reaches(w, low, high) => Reaches(Tail(w), at, high)
         /\ Linked(w, low) /\ Head(w).kind = "delta" => low = Head(w).of - 1
<1> DEFINE v == Tail(w)
<1>1. /\ Head(w) = w[1]
      /\ Len(w) \in Nat \ {0}
      /\ Len(v) = Len(w) - 1
      /\ \A i \in 1..Len(v) : v[i] = w[i + 1]
  BY TakeFirst
<1>2. \A i \in 1..Len(w) : w[i] \in Message /\ w[i].of \in Nat
  BY MessageType
<1>3. \A i \in 1..Len(v) : i + 1 \in 1..Len(w)
  BY <1>1
<1> HIDE DEF v
<1>4. /\ OfBook(Head(w)) => low <= Head(w).of /\ Head(w).of \in 1..high
      /\ Head(w).kind = "delta" => Head(w).of > 1
  BY <1>1 DEF Ordered
<1>5. Ordered(v, at, high)
  <2>1. ASSUME NEW i \in 1..Len(v), NEW j \in 1..Len(v),
               i < j, OfBook(v[i]), OfBook(v[j])
        PROVE  v[i].of < v[j].of
    <3>1. i + 1 < j + 1
      BY <2>1, <1>1
    <3> QED BY <1>1, <1>3, <2>1, <3>1 DEF Ordered
  <2>2. ASSUME NEW i \in 1..Len(v), OfBook(v[i])
        PROVE  at <= v[i].of /\ v[i].of \in 1..high
    <3>1. 1 \in 1..Len(w) /\ 1 < i + 1 /\ i + 1 \in 1..Len(w) /\ v[i] = w[i + 1]
      BY <1>1, <1>3
    <3>2. low <= v[i].of /\ v[i].of \in 1..high
      BY <3>1, <2>2 DEF Ordered
    <3>3. OfBook(w[1]) => w[1].of < v[i].of
      BY <3>1, <2>2 DEF Ordered
    <3> QED BY <1>1, <1>2, <3>1, <3>2, <3>3
  <2>3. \A i \in 1..Len(v) : v[i].kind = "delta" => v[i].of > 1
    BY <1>1, <1>3 DEF Ordered
  <2> QED BY <2>1, <2>2, <2>3 DEF Ordered
<1>6. ASSUME Linked(w, low) PROVE Linked(v, at)
  <2>1. SUFFICES ASSUME NEW i \in 1..Len(v), v[i].kind = "delta",
                        at # v[i].of - 1
                 PROVE  \E j \in 1..Len(v) :
                          j < i /\ OfBook(v[j]) /\ v[j].of = v[i].of - 1
    BY DEF Linked
  <2>2. i + 1 \in 1..Len(w) /\ v[i] = w[i + 1] /\ 1 \in 1..Len(w) /\ 1 < i + 1
    BY <1>1, <1>3
  <2>3. \/ low = v[i].of - 1
        \/ \E k \in 1..Len(w) : k < i + 1 /\ OfBook(w[k]) /\ w[k].of = v[i].of - 1
    BY <2>1, <2>2, <1>6 DEF Linked
  <2>4. CASE low = v[i].of - 1
    <3>1. OfBook(w[1])
      BY <2>1, <2>4, <1>1
    <3>2. at = w[1].of /\ low <= at
      BY <3>1, <1>1, <1>4
    <3>3. OfBook(w[i + 1])
      BY <2>1, <2>2 DEF OfBook
    <3>4. w[1].of < v[i].of
      BY <3>1, <3>3, <2>2 DEF Ordered
    <3> QED BY <3>2, <3>4, <2>4, <2>1, <1>2, <2>2
  <2>5. CASE \E k \in 1..Len(w) :
               k < i + 1 /\ OfBook(w[k]) /\ w[k].of = v[i].of - 1
    <3>1. PICK k \in 1..Len(w) :
                 k < i + 1 /\ OfBook(w[k]) /\ w[k].of = v[i].of - 1
      BY <2>5
    <3>2. k # 1
      BY <3>1, <2>1, <1>1
    <3>3. k - 1 \in 1..Len(v) /\ k - 1 < i /\ v[k - 1] = w[k]
      BY <3>1, <3>2, <1>1
    <3> QED BY <3>1, <3>3
  <2> QED BY <2>3, <2>4, <2>5
<1>7. ASSUME Reaches(w, low, high) PROVE Reaches(v, at, high)
  <2>1. CASE low = high
    <3>1. CASE OfBook(Head(w))
      BY <3>1, <2>1, <1>4 DEF Reaches
    <3>2. CASE ~OfBook(Head(w))
      BY <3>2, <2>1 DEF Reaches
    <3> QED BY <3>1, <3>2
  <2>2. CASE \E i \in 1..Len(w) : OfBook(w[i]) /\ w[i].of = high
    <3>1. PICK i \in 1..Len(w) : OfBook(w[i]) /\ w[i].of = high
      BY <2>2
    <3>2. CASE i = 1
      BY <3>1, <3>2, <1>1 DEF Reaches
    <3>3. CASE i # 1
      <4>1. i - 1 \in 1..Len(v) /\ v[i - 1] = w[i]
        BY <3>3, <1>1
      <4> QED BY <4>1, <3>1 DEF Reaches
    <3> QED BY <3>2, <3>3
  <2> QED BY <1>7, <2>1, <2>2 DEF Reaches
<1>8. ASSUME Linked(w, low), Head(w).kind = "delta" PROVE low = Head(w).of - 1
  BY <1>8, <1>1 DEF Linked
<1> QED BY <1>4, <1>5, <1>6, <1>7, <1>8 DEF v

(* Sending a message that is not about the book.                           *)
LEMMA SendOther ==
  ASSUME NEW w \in Seq(Message), NEW m \in Message, m.kind = "stat",
         NEW low \in Nat, NEW high \in Nat, Ordered(w, low, high)
  PROVE  /\ Ordered(Append(w, m), low, high)
         /\ Linked(w, low) => Linked(Append(w, m), low)
         /\ Reaches(w, low, high) => Reaches(Append(w, m), low, high)
<1> DEFINE v == Append(w, m)
<1>1. /\ Len(w) \in Nat /\ Len(v) = Len(w) + 1
      /\ \A i \in 1..Len(w) : v[i] = w[i]
      /\ v[Len(w) + 1] = m
  BY PutLast
<1> HIDE DEF v
<1>2. \A i \in 1..Len(v) :
        v[i].kind # "stat" => i \in 1..Len(w) /\ v[i] = w[i]
  BY <1>1
<1>3. Ordered(v, low, high)
  BY <1>2 DEF Ordered, OfBook
<1>4. Linked(w, low) => Linked(v, low)
  <2>1. SUFFICES ASSUME Linked(w, low), NEW i \in 1..Len(v),
                        v[i].kind = "delta", low # v[i].of - 1
                 PROVE  \E j \in 1..Len(v) :
                          j < i /\ OfBook(v[j]) /\ v[j].of = v[i].of - 1
    BY DEF Linked
  <2>2. PICK j \in 1..Len(w) : j < i /\ OfBook(w[j]) /\ w[j].of = v[i].of - 1
    BY <2>1, <1>2 DEF Linked
  <2>3. j \in 1..Len(v) /\ v[j] = w[j]
    BY <1>1
  <2> QED BY <2>2, <2>3
<1>5. Reaches(w, low, high) => Reaches(v, low, high)
  <2>1. \A i \in 1..Len(w) : i \in 1..Len(v) /\ v[i] = w[i]
    BY <1>1
  <2> QED BY <2>1 DEF Reaches
<1> QED BY <1>3, <1>4, <1>5 DEF v

(* Sending the next version.                                               *)
LEMMA SendNext ==
  ASSUME NEW w \in Seq(Message), NEW m \in Message,
         NEW low \in Nat, NEW high \in Nat \ {0}, Ordered(w, low, high),
         low <= high, OfBook(m), m.of = high + 1
  PROVE  /\ Ordered(Append(w, m), low, high + 1)
         /\ Linked(w, low) /\ Reaches(w, low, high) => Linked(Append(w, m), low)
         /\ Reaches(Append(w, m), low, high + 1)
<1> DEFINE v == Append(w, m)
<1>1. /\ Len(w) \in Nat /\ Len(v) = Len(w) + 1
      /\ \A i \in 1..Len(w) : v[i] = w[i]
      /\ v[Len(w) + 1] = m
  BY PutLast
<1>2. \A i \in 1..Len(w) : w[i] \in Message /\ w[i].of \in Nat
  BY MessageType
<1> HIDE DEF v
<1>3. \A i \in 1..Len(v) : (i \in 1..Len(w) /\ v[i] = w[i]) \/ (i = Len(w) + 1 /\ v[i] = m)
  BY <1>1
<1>4. Ordered(v, low, high + 1)
  <2>1. ASSUME NEW i \in 1..Len(v), NEW j \in 1..Len(v),
               i < j, OfBook(v[i]), OfBook(v[j])
        PROVE  v[i].of < v[j].of
    <3>1. i \in 1..Len(w) /\ v[i] = w[i]
      BY <1>1, <1>3, <2>1
    <3>2. v[i].of \in 1..high
      BY <3>1, <2>1 DEF Ordered
    <3>3. CASE j \in 1..Len(w)
      BY <3>1, <3>3, <1>1, <2>1 DEF Ordered
    <3>4. CASE j = Len(w) + 1
      BY <3>2, <3>4, <1>1
    <3> QED BY <3>3, <3>4, <1>3
  <2>2. ASSUME NEW i \in 1..Len(v), OfBook(v[i])
        PROVE  low <= v[i].of /\ v[i].of \in 1..(high + 1)
    <3>1. CASE i \in 1..Len(w) /\ v[i] = w[i]
      BY <3>1, <2>2, <1>2 DEF Ordered
    <3>2. CASE v[i] = m
      BY <3>2
    <3> QED BY <3>1, <3>2, <1>3
  <2>3. \A i \in 1..Len(v) : v[i].kind = "delta" => v[i].of > 1
    BY <1>3 DEF Ordered
  <2> QED BY <2>1, <2>2, <2>3 DEF Ordered
<1>5. ASSUME Linked(w, low), Reaches(w, low, high) PROVE Linked(v, low)
  <2>1. SUFFICES ASSUME NEW i \in 1..Len(v),
                        v[i].kind = "delta", low # v[i].of - 1
                 PROVE  \E j \in 1..Len(v) :
                          j < i /\ OfBook(v[j]) /\ v[j].of = v[i].of - 1
    BY DEF Linked
  <2>2. \A j \in 1..Len(w) : j \in 1..Len(v) /\ v[j] = w[j] /\ j < Len(w) + 1
    BY <1>1
  <2>3. CASE i \in 1..Len(w) /\ v[i] = w[i]
    BY <2>1, <2>2, <2>3, <1>5 DEF Linked
  <2>4. CASE i = Len(w) + 1 /\ v[i] = m
    <3>1. v[i].of - 1 = high
      BY <2>4
    <3>2. PICK j \in 1..Len(w) : OfBook(w[j]) /\ w[j].of = high
      BY <3>1, <2>1, <1>5 DEF Reaches
    <3> QED BY <3>1, <3>2, <2>2, <2>4
  <2> QED BY <2>3, <2>4, <1>3
<1>6. Reaches(v, low, high + 1)
  <2>1. Len(w) + 1 \in 1..Len(v)
    BY <1>1
  <2> QED BY <2>1, <1>1 DEF Reaches
<1> QED BY <1>4, <1>5, <1>6 DEF v

-----------------------------------------------------------------------------
(* The inductive invariant                                                 *)

(* What is on the wire follows the book, and on a connection that is up    *)
(* leads to the exchange's last version.                                   *)
WireFollows ==
  /\ Ordered(wire, bookAt, Current)
  /\ feed.snapshot => Linked(wire, bookAt)
  /\ feed.snapshot /\ conn = "up" => Reaches(wire, bookAt, Current)

VersionsUncrossed == \A n \in 1..Current : Uncrossed(versions[n])

(* The copies are the versions the observers name, unless they are astray. *)
CopiesExact ==
  feed.snapshot => /\ astray \/ book = Version(bookAt)
                   /\ emittedAstray \/ emitted = Version(emittedAt)

IInv == TypeOK /\ WireFollows /\ VersionsUncrossed /\ CopiesExact

(* Facts about the types that the steps need.                              *)
LEMMA Typing ==
  ASSUME TypeOK
  PROVE  /\ Current \in Nat \ {0} /\ Current <= MaxChanges + 1
         /\ bookAt \in Nat /\ bookAt <= Current
         /\ emittedAt \in Nat /\ emittedAt <= bookAt
         /\ registryAt \in Nat /\ registryAt <= emittedAt
         /\ versions \in Seq(Book(Price)) /\ wire \in Seq(Message)
         /\ \A n \in 1..Current : versions[n] \in Book(Price)
         /\ \A n \in 0..Current : Version(n) \in Book(Price)
<1>1. /\ Current \in 1..(MaxChanges + 1)
      /\ bookAt \in 0..Current /\ emittedAt \in 0..bookAt
      /\ registryAt \in 0..emittedAt
      /\ versions \in Seq(Book(Price)) /\ wire \in Seq(Message)
  BY DEF TypeOK
<1>2. \A n \in 1..Current : versions[n] \in Book(Price)
  BY <1>1 DEF Current
<1>3. \A n \in 0..Current : Version(n) \in Book(Price)
  BY <1>1, <1>2, NoLevelsType DEF Version
<1> QED BY <1>1, <1>2, <1>3

(* Nothing is wrong with a wire that holds nothing.                       *)
LEMMA EmptyWire ==
  ASSUME NEW low \in Nat, NEW high \in Nat
  PROVE  Ordered(<<>>, low, high) /\ Linked(<<>>, low) /\ <<>> \in Seq(Message)
BY DEF Ordered, Linked

(* It holds before the first connection.                                  *)
LEMMA InitInv == Init => IInv
<1> SUFFICES ASSUME Init PROVE IInv
  OBVIOUS
<1>1. PICK b \in FirstBooks : versions = <<b>>
  BY DEF Init
<1>2. b \in Book(Price) /\ Uncrossed(b)
  BY ExchangeAssumption
<1>3. /\ versions \in Seq(Book(Price)) /\ Len(versions) = 1
      /\ versions[1] = b
  BY <1>1, <1>2
<1>4. Current = 1 /\ Current \in 1..(MaxChanges + 1)
  BY <1>3 DEF Current
<1>5. book \in Book(Price) /\ emitted \in Book(Price) /\ registry \in Book(Tick)
  BY NoLevelsType DEF Init
<1>6. TypeOK
  <2>1. /\ bookAt \in 0..Current /\ emittedAt \in 0..bookAt
        /\ registryAt \in 0..emittedAt
    BY <1>4 DEF Init
  <2>2. wire \in Seq(Message)
    BY DEF Init
  <2>3. /\ conn \in {"up", "down"} /\ (conn = "down" => wire = <<>>)
        /\ reader \in {"reading", "storing", "left"} /\ feed \in Feeds
        /\ snapshots \in {"waiting", "storing", "stored", "returned"}
        /\ ctxDone \in BOOLEAN
    BY Zenon DEF Init
  <2>4. /\ astray \in BOOLEAN /\ emittedAstray \in BOOLEAN
        /\ registryAstray \in BOOLEAN
        /\ astray \/ emittedAstray \/ registryAstray => feed.single
    BY Zenon DEF Init
  <2> QED BY <1>3, <1>4, <1>5, <2>1, <2>2, <2>3, <2>4 DEF TypeOK
<1>7. WireFollows
  BY <1>4, EmptyWire DEF WireFollows, Init
<1>8. VersionsUncrossed
  BY <1>2, <1>3, <1>4 DEF VersionsUncrossed
<1>9. CopiesExact
  BY DEF CopiesExact, Version, Init
<1> QED BY <1>6, <1>7, <1>8, <1>9 DEF IInv

(* Steps that leave the exchange, the socket and the copies alone.         *)
LEMMA Frame ==
  ASSUME IInv, UNCHANGED <<feed, versions>>
  PROVE  /\ Current' = Current /\ VersionsUncrossed'
         /\ UNCHANGED <<wire, conn, bookAt>> => WireFollows'
         /\ UNCHANGED <<book, bookAt, astray, emitted, emittedAt, emittedAstray>>
              => CopiesExact'
         /\ \A n \in 0..Current : Version(n)' = Version(n)
<1>1. Current' = Current
  BY DEF Current
<1>2. VersionsUncrossed'
  BY <1>1 DEF IInv, VersionsUncrossed
<1>3. UNCHANGED <<wire, conn, bookAt>> => WireFollows'
  BY <1>1 DEF IInv, WireFollows
<1>4. \A n \in 0..Current : Version(n)' = Version(n)
  BY DEF Version
<1>5. UNCHANGED <<book, bookAt, astray, emitted, emittedAt, emittedAstray>>
        => CopiesExact'
  BY DEF IInv, CopiesExact, Version
<1> QED BY <1>1, <1>2, <1>3, <1>4, <1>5

(* The exchange changes its book.                                          *)
LEMMA MovesInv == IInv /\ ExchangeMoves => IInv'
<1> SUFFICES ASSUME IInv, ExchangeMoves PROVE IInv'
  OBVIOUS
<1> USE DEF exchangeVars, socketVars, bookVars, emitVars, registryVars
<1>1. PICK b \in Book(Price) : Uncrossed(b) /\ versions' = Append(versions, b)
  BY ExchangeAssumption DEF ExchangeMoves
<1>2. /\ Current \in Nat \ {0} /\ bookAt \in Nat /\ bookAt <= Current
      /\ versions \in Seq(Book(Price)) /\ wire \in Seq(Message)
      /\ emittedAt \in Nat /\ emittedAt <= bookAt
      /\ Current = Len(versions)
  BY Typing DEF IInv, Current
<1>3. /\ versions' \in Seq(Book(Price)) /\ Current' = Current + 1
      /\ \A n \in 1..Current : versions'[n] = versions[n]
      /\ versions'[Current + 1] = b
  BY <1>1, <1>2 DEF Current
<1>4. Current' \in 1..(MaxChanges + 1) /\ Current + 1 \in 0..(MaxChanges + 1)
  BY <1>2, <1>3 DEF ExchangeMoves
<1>5. VersionsUncrossed'
  BY <1>1, <1>2, <1>3 DEF IInv, VersionsUncrossed
<1>6. CopiesExact'
  <2>1. Version(bookAt)' = Version(bookAt) /\ Version(emittedAt)' = Version(emittedAt)
    BY <1>2, <1>3 DEF Version, ExchangeMoves
  <2> QED BY <2>1 DEF IInv, CopiesExact, ExchangeMoves
<1>7. wire' \in Seq(Message) /\ (conn' = "down" => wire' = <<>>) /\ WireFollows'
  <2>1. CASE conn = "up"
    <3>1. PICK m \in Announced(Current + 1) : wire' = Append(wire, m)
      BY <2>1 DEF ExchangeMoves
    <3>2. m \in Message /\ OfBook(m) /\ m.of = Current + 1
      BY <1>4, <3>1 DEF Announced, Message, OfBook
    <3>3. wire' \in Seq(Message)
      BY <1>2, <3>1, <3>2
    <3>4. /\ Ordered(wire', bookAt, Current + 1)
          /\ Linked(wire, bookAt) /\ Reaches(wire, bookAt, Current)
               => Linked(wire', bookAt)
          /\ Reaches(wire', bookAt, Current + 1)
      BY <1>2, <3>1, <3>2, SendNext DEF IInv, WireFollows
    <3> QED BY <2>1, <1>3, <3>3, <3>4 DEF IInv, WireFollows, ExchangeMoves
  <2>2. CASE conn # "up"
    <3>1. conn = "down" /\ wire = <<>> /\ UNCHANGED <<wire, conn, bookAt, feed>>
      BY <2>2 DEF IInv, TypeOK, ExchangeMoves
    <3>2. Ordered(wire', bookAt', Current') /\ Linked(wire', bookAt')
      BY <3>1, <1>2, <1>3, EmptyWire
    <3> QED BY <3>1, <3>2, EmptyWire DEF WireFollows
  <2> QED BY <2>1, <2>2
<1>8. TypeOK'
  BY <1>2, <1>3, <1>4, <1>7 DEF IInv, TypeOK, ExchangeMoves
<1> QED BY <1>5, <1>6, <1>7, <1>8 DEF IInv

(* The socket: a ticker, a connection, a loss, the end of the loop.        *)
LEMMA SocketInv == IInv /\ (SendStat \/ Connected \/ Lose \/ Leave) => IInv'
<1> SUFFICES ASSUME IInv, SendStat \/ Connected \/ Lose \/ Leave PROVE IInv'
  OBVIOUS
<1> USE DEF exchangeVars, socketVars, bookVars, emitVars, registryVars
<1>1. UNCHANGED <<feed, versions, bookVars, emitVars, registryVars, ctxDone,
                  snapshots>>
  BY DEF SendStat, Connected, Lose, Leave
<1>2. Current' = Current /\ VersionsUncrossed' /\ CopiesExact'
  BY <1>1, Frame
<1>3. /\ Current \in Nat \ {0} /\ bookAt \in Nat /\ bookAt <= Current
      /\ wire \in Seq(Message) /\ Current \in 0..(MaxChanges + 1)
  BY Typing DEF IInv
<1>4. /\ conn' \in {"up", "down"} /\ reader' \in {"reading", "storing", "left"}
      /\ wire' \in Seq(Message) /\ (conn' = "down" => wire' = <<>>)
      /\ WireFollows'
  <2>1. CASE SendStat
    <3> DEFINE m == [kind |-> "stat", of |-> 0]
    <3>1. m \in Message
      BY DEF Message
    <3>2. wire' = Append(wire, m) /\ conn = "up" /\ UNCHANGED <<conn, reader>>
      BY <2>1 DEF SendStat
    <3>3. wire' \in Seq(Message)
      BY <1>3, <3>1, <3>2
    <3>4. /\ Ordered(wire', bookAt, Current)
          /\ Linked(wire, bookAt) => Linked(wire', bookAt)
          /\ Reaches(wire, bookAt, Current) => Reaches(wire', bookAt, Current)
      BY <1>3, <3>1, <3>2, SendOther DEF IInv, WireFollows
    <3> QED BY <1>1, <1>2, <3>2, <3>3, <3>4 DEF IInv, TypeOK, WireFollows
  <2>2. CASE Connected
    <3>1. conn' = "up" /\ UNCHANGED reader
      BY <2>2 DEF Connected
    <3>2. CASE feed.snapshot
      <4> DEFINE m == [kind |-> "snapshot", of |-> Current]
      <4>1. m \in Message /\ OfBook(m) /\ m.of = Current
        BY <1>3 DEF Message, OfBook
      <4>2. wire' = <<m>>
        BY <2>2, <3>2 DEF Connected
      <4>3. /\ wire' \in Seq(Message) /\ Len(wire') = 1 /\ wire'[1] = m
        BY <4>1, <4>2
      <4>4. Ordered(wire', bookAt, Current)
        BY <1>3, <4>1, <4>3 DEF Ordered
      <4>5. Linked(wire', bookAt) /\ Reaches(wire', bookAt, Current)
        BY <4>1, <4>3 DEF Linked, Reaches
      <4> QED BY <1>1, <1>2, <3>1, <4>3, <4>4, <4>5 DEF IInv, TypeOK, WireFollows
    <3>3. CASE ~feed.snapshot
      <4>1. wire' = <<>>
        BY <2>2, <3>3 DEF Connected
      <4> QED BY <1>1, <1>2, <1>3, <3>1, <3>3, <4>1, EmptyWire
              DEF IInv, TypeOK, WireFollows
    <3> QED BY <3>2, <3>3
  <2>3. CASE Lose \/ Leave
    <3>1. /\ conn' = "down" /\ wire' = <<>>
          /\ reader' \in {"reading", "storing", "left"}
      BY <2>3 DEF Lose, Leave, IInv, TypeOK
    <3> QED BY <1>1, <1>2, <1>3, <3>1, EmptyWire DEF WireFollows
  <2> QED BY <2>1, <2>2, <2>3
<1>5. TypeOK'
  BY <1>1, <1>2, <1>4 DEF IInv, TypeOK
<1> QED BY <1>2, <1>4, <1>5 DEF IInv

(* The read loop takes a message.                                          *)
LEMMA ReadInv == IInv /\ Read => IInv'
<1> SUFFICES ASSUME IInv, Read PROVE IInv'
  OBVIOUS
<1> USE DEF exchangeVars, socketVars, bookVars, emitVars, registryVars
<1> DEFINE m == Head(wire)
<1>1. /\ UNCHANGED <<feed, versions, conn, emitVars, registryVars, ctxDone,
                     snapshots>>
      /\ conn = "up" /\ wire # <<>> /\ wire' = Tail(wire)
  BY DEF Read, ReadSnapshot, ReadDelta, ReadStat, Reads
<1>2. /\ Current \in Nat \ {0} /\ bookAt \in Nat /\ bookAt <= Current
      /\ wire \in Seq(Message)
      /\ emittedAt \in Nat /\ emittedAt <= bookAt
      /\ \A n \in 1..Current : versions[n] \in Book(Price)
      /\ \A n \in 0..Current : Version(n) \in Book(Price)
  BY Typing DEF IInv
<1>3. Current' = Current /\ VersionsUncrossed'
      /\ \A n \in 0..Current : Version(n)' = Version(n)
  BY <1>1, Frame
<1>4. m \in Message /\ m.of \in Nat /\ wire' \in Seq(Message)
  <2>1. m \in Message /\ wire' \in Seq(Message)
    BY <1>1, <1>2, TakeFirst
  <2>2. \A k \in Message : k.of \in Nat
    BY DEF Message
  <2> HIDE DEF m
  <2> QED BY <2>1, <2>2
<1>5. /\ bookAt' \in Nat /\ bookAt' = IF OfBook(m) THEN m.of ELSE bookAt
      /\ ~OfBook(m) => UNCHANGED <<book, astray>>
  BY <1>2, <1>4 DEF Read, ReadSnapshot, ReadDelta, ReadStat, Reads, OfBook
<1>6. /\ OfBook(m) => bookAt <= m.of /\ m.of \in 1..Current
      /\ m.kind = "delta" => m.of > 1
      /\ Ordered(wire', bookAt', Current)
      /\ Linked(wire, bookAt) => Linked(wire', bookAt')
      /\ Reaches(wire, bookAt, Current) => Reaches(wire', bookAt', Current)
      /\ Linked(wire, bookAt) /\ m.kind = "delta" => bookAt = m.of - 1
  BY <1>1, <1>2, <1>5, ReadOne DEF IInv, WireFollows
<1>7. WireFollows'
  BY <1>1, <1>3, <1>6 DEF IInv, WireFollows
<1>8. bookAt <= bookAt' /\ bookAt' \in 0..Current /\ emittedAt \in 0..bookAt'
  BY <1>2, <1>5, <1>6
<1>9. /\ book' \in Book(Price)
      /\ feed.snapshot => astray' \/ book' = Version(bookAt')
  <2>1. CASE ReadSnapshot
    <3>1. /\ book' \in {book, versions[m.of]}
          /\ astray' \/ book' = versions[m.of]
          /\ bookAt' = m.of /\ OfBook(m)
      BY <2>1 DEF ReadSnapshot, Reads, OfBook
    <3>2. book \in Book(Price)
      BY DEF IInv, TypeOK
    <3> QED BY <1>2, <1>6, <3>1, <3>2 DEF Version
  <2>2. CASE ReadDelta
    <3> DEFINE n == m.of
    <3>1. /\ book' = Updated(book, Changes(versions[n - 1], versions[n]),
                             versions[n])
          /\ bookAt' = n /\ OfBook(m) /\ m.kind = "delta" /\ UNCHANGED astray
      BY <2>2 DEF ReadDelta, Reads, OfBook
    <3>2. n \in 1..Current /\ n - 1 \in 1..Current /\ n # 0 /\ n - 1 # 0
      BY <1>2, <1>4, <1>6, <3>1
    <3>3. versions[n] \in Book(Price) /\ versions[n - 1] \in Book(Price)
          /\ Uncrossed(versions[n - 1]) /\ book \in Book(Price)
      BY <1>2, <3>2 DEF IInv, TypeOK, VersionsUncrossed
    <3>4. book' \in Book(Price)
      BY <3>1, <3>3, UpdatedType
    <3>5. ASSUME feed.snapshot, ~astray PROVE book' = Version(n)
      <4>1. bookAt = n - 1
        BY <3>5, <1>6, <3>1 DEF IInv, WireFollows
      <4>2. book = versions[n - 1]
        BY <3>5, <4>1, <3>2 DEF IInv, CopiesExact, Version
      <4> QED BY <3>1, <3>2, <3>3, <4>2, DeltaApplies DEF Version
    <3> QED BY <3>1, <3>4, <3>5
  <2>3. CASE ReadStat
    <3>1. UNCHANGED <<book, bookAt, astray>>
      BY <2>3 DEF ReadStat
    <3> QED BY <3>1 DEF IInv, TypeOK, CopiesExact
  <2> QED BY <2>1, <2>2, <2>3 DEF Read
<1>10. CopiesExact'
  <2>1. Version(bookAt)' = Version(bookAt') /\ Version(emittedAt)' = Version(emittedAt)
    BY <1>1 DEF Version
  <2> QED BY <1>1, <1>9, <2>1 DEF IInv, CopiesExact
<1>11. TypeOK'
  <2>1. reader' \in {"reading", "storing", "left"}
    BY DEF Read, ReadSnapshot, ReadDelta, ReadStat, IInv, TypeOK
  <2>2. astray' \in BOOLEAN /\ (astray' => feed.single)
    <3>1. CASE ReadSnapshot
      <4>1. PICK b : astray' = (Ignored(b) /\ book # b)
        BY <3>1 DEF ReadSnapshot
      <4>2. feed.single \/ ~Ignored(b)
        BY DEF Ignored
      <4>3. (Ignored(b) /\ book # b) \in BOOLEAN
        BY Zenon
      <4> QED BY Zenon, <4>1, <4>2, <4>3
    <3>2. CASE ReadDelta \/ ReadStat
      <4>1. astray' = astray
        BY <3>2 DEF ReadDelta, ReadStat
      <4> QED BY Zenon, <4>1 DEF IInv, TypeOK
    <3> QED BY <3>1, <3>2 DEF Read
  <2> QED BY <1>1, <1>3, <1>4, <1>8, <1>9, <2>1, <2>2 DEF IInv, TypeOK
<1> QED BY <1>3, <1>7, <1>10, <1>11 DEF IInv

(* The snapshot loop, the return of a stat's insert, the cancellation.     *)
LEMMA LoopInv ==
  IInv /\ \/ EmitOrderbookSnapshot \/ ApplySnapshot \/ SnapshotLoopReturns
          \/ (\E succeeded \in BOOLEAN : InsertReturns(succeeded))
          \/ StatReturns \/ Cancel
    => IInv'
<1> SUFFICES ASSUME IInv,
                    \/ EmitOrderbookSnapshot \/ ApplySnapshot
                    \/ SnapshotLoopReturns
                    \/ (\E succeeded \in BOOLEAN : InsertReturns(succeeded))
                    \/ StatReturns \/ Cancel
             PROVE  IInv'
  OBVIOUS
<1> USE DEF exchangeVars, socketVars, bookVars, emitVars, registryVars
<1>1. UNCHANGED <<feed, versions, conn, wire, bookVars>>
  BY DEF EmitOrderbookSnapshot, ApplySnapshot, SnapshotLoopReturns,
         InsertReturns, StatReturns, Cancel
<1>2. Current' = Current /\ VersionsUncrossed' /\ WireFollows'
  BY <1>1, Frame
<1>3. /\ bookAt \in Nat /\ emittedAt \in Nat /\ emittedAt <= bookAt
      /\ registryAt \in Nat /\ registryAt <= emittedAt /\ bookAt <= Current
  BY Typing DEF IInv
<1>4. /\ emitted' \in Book(Price)
      /\ emittedAt' \in 0..bookAt /\ registryAt' \in 0..emittedAt'
      /\ feed.snapshot => /\ astray \/ book = Version(bookAt)
                          /\ emittedAstray' \/ emitted' = Version(emittedAt')
  <2>1. CASE EmitOrderbookSnapshot
    BY <2>1, <1>3 DEF EmitOrderbookSnapshot, IInv, TypeOK, CopiesExact
  <2>2. CASE UNCHANGED emitVars /\ registryAt' \in {registryAt, emittedAt}
    BY <2>2, <1>3 DEF IInv, TypeOK, CopiesExact
  <2>3. \/ EmitOrderbookSnapshot
        \/ UNCHANGED emitVars /\ registryAt' \in {registryAt, emittedAt}
    BY DEF EmitOrderbookSnapshot, ApplySnapshot, SnapshotLoopReturns,
           InsertReturns, StatReturns, Cancel
  <2> QED BY <2>1, <2>2, <2>3
<1>5. CopiesExact'
  <2>1. Version(bookAt)' = Version(bookAt) /\ Version(emittedAt)' = Version(emittedAt')
    BY <1>1 DEF Version
  <2> QED BY <1>1, <1>4, <2>1 DEF CopiesExact
<1>6. /\ reader' \in {"reading", "storing", "left"}
      /\ snapshots' \in {"waiting", "storing", "stored", "returned"}
      /\ registry' \in Book(Tick)
  BY DEF EmitOrderbookSnapshot, ApplySnapshot, SnapshotLoopReturns,
         InsertReturns, StatReturns, Cancel, IInv, TypeOK
<1>7. ctxDone' \in BOOLEAN
  BY Zenon DEF EmitOrderbookSnapshot, ApplySnapshot, SnapshotLoopReturns,
         InsertReturns, StatReturns, Cancel, IInv, TypeOK
<1>8. /\ astray' \in BOOLEAN /\ emittedAstray' \in BOOLEAN
      /\ registryAstray' \in BOOLEAN
      /\ astray' \/ emittedAstray' \/ registryAstray' => feed.single
  <2>1. /\ astray' = astray /\ feed' = feed
        /\ emittedAstray' = emittedAstray \/ emittedAstray' = astray
        /\ registryAstray' = registryAstray \/ registryAstray' = emittedAstray
    BY DEF EmitOrderbookSnapshot, ApplySnapshot, SnapshotLoopReturns,
           InsertReturns, StatReturns, Cancel
  <2>2. /\ astray \in BOOLEAN /\ emittedAstray \in BOOLEAN
        /\ registryAstray \in BOOLEAN
        /\ astray \/ emittedAstray \/ registryAstray => feed.single
    BY Zenon DEF IInv, TypeOK
  <2>3. emittedAstray' \in BOOLEAN /\ (emittedAstray' => feed.single)
    <3>1. CASE emittedAstray' = emittedAstray
      BY Zenon, <2>2, <3>1
    <3>2. CASE emittedAstray' = astray
      BY Zenon, <2>2, <3>2
    <3> QED BY <2>1, <3>1, <3>2
  <2>4. registryAstray' \in BOOLEAN /\ (registryAstray' => feed.single)
    <3>1. CASE registryAstray' = registryAstray
      BY Zenon, <2>2, <3>1
    <3>2. CASE registryAstray' = emittedAstray
      BY Zenon, <2>2, <3>2
    <3> QED BY <2>1, <3>1, <3>2
  <2> QED BY Zenon, <2>1, <2>2, <2>3, <2>4
<1>9. TypeOK'
  BY <1>1, <1>2, <1>4, <1>6, <1>7, <1>8 DEF IInv, TypeOK
<1> QED BY <1>2, <1>5, <1>9 DEF IInv

(* Nothing happens.                                                       *)
LEMMA StutterInv == IInv /\ UNCHANGED vars => IInv'
<1> SUFFICES ASSUME IInv, UNCHANGED vars PROVE IInv'
  OBVIOUS
<1> USE DEF vars, exchangeVars, socketVars, bookVars, emitVars, registryVars
<1>1. Current' = Current /\ VersionsUncrossed' /\ WireFollows' /\ CopiesExact'
  BY Frame
<1>2. TypeOK'
  BY <1>1 DEF IInv, TypeOK
<1> QED BY <1>1, <1>2 DEF IInv

(* Every step keeps the invariant.                                         *)
LEMMA NextInv == IInv /\ [Next]_vars => IInv'
BY MovesInv, SocketInv, ReadInv, LoopInv, StutterInv DEF Next

(* The invariant holds in every state that the connector, snapshotLoop and *)
(* the registry reach.                                                    *)
THEOREM Invariance == Spec => []IInv
<1>1. Init => IInv
  BY InitInv
<1> QED BY <1>1, NextInv, PTL DEF Spec

(* The variables keep their types, a socket that is down has nothing to    *)
(* read, and neither what was emitted nor the registry is ahead of what    *)
(* they were made from.                                                    *)
THEOREM TypeCorrect == Spec => []TypeOK
<1>1. IInv => TypeOK
  BY DEF IInv
<1> QED BY <1>1, Invariance, PTL

-----------------------------------------------------------------------------
(* The copies                                                              *)

(* The exchange publishes a version.                                       *)
LEMMA Publishes ==
  ASSUME IInv, ExchangeMoves
  PROVE  /\ Len(versions') = Len(versions) + 1
         /\ SubSeq(versions', 1, Len(versions)) = versions
<1>1. PICK b \in Book(Price) : versions' = Append(versions, b)
  BY ExchangeAssumption DEF ExchangeMoves
<1>2. versions \in Seq(Book(Price))
  BY Typing DEF IInv
<1> QED BY <1>1, <1>2

(* A book of a connector that is sent snapshots is the version its         *)
(* observer names, before and after a step, unless it is astray.           *)
LEMMA Exact ==
  ASSUME \A f \in Feeds : f.snapshot, IInv
  PROVE  /\ astray \/ book = Version(bookAt)
         /\ emittedAstray \/ emitted = Version(emittedAt)
BY DEF IInv, TypeOK, CopiesExact

(* The book of a connector that is sent snapshots implements the copy:     *)
(* reading a snapshot or a delta refreshes it with a later version, and    *)
(* nothing else changes it, whatever is lost between two connections,      *)
(* except between an empty snapshot that Bitfinex's handler ignores and    *)
(* the next one with levels.                                               *)
THEOREM BookCopied ==
  ASSUME \A f \in Feeds : f.snapshot
  PROVE  Spec => BookIsCopy
<1>1. Init => Copied!Init
  BY DEF Init, Copied!Init, SameUnlessAstray
<1>2. IInv /\ IInv' /\ [Next]_vars => [Copied!Next]_(Copied!vars)
  <2> SUFFICES ASSUME IInv, IInv', [Next]_vars
               PROVE  Copied!Next \/ UNCHANGED Copied!vars
    OBVIOUS
  <2> USE DEF exchangeVars, socketVars, bookVars, emitVars, registryVars
  <2>1. CASE ExchangeMoves
    BY <2>1, Publishes DEF ExchangeMoves, Copied!Next, Copied!Publish
  <2>2. CASE Read
    <3>1. UNCHANGED versions
      BY <2>2 DEF Read, ReadSnapshot, ReadDelta, ReadStat
    <3>2. bookAt' \in bookAt..Len(versions)
      <4>1. /\ bookAt \in Nat /\ Current \in Nat /\ wire \in Seq(Message)
            /\ bookAt' \in 0..Current' /\ Current' \in Nat
        <5>1. bookAt' \in 0..Current' /\ Current' \in 1..(MaxChanges + 1)
          BY DEF IInv, TypeOK
        <5> QED BY <5>1, Typing DEF IInv
      <4>2. Current' = Len(versions)
        BY <3>1 DEF Current
      <4>3. bookAt <= bookAt'
        <5>1. CASE ReadStat
          BY <4>1, <5>1 DEF ReadStat
        <5>2. CASE ReadSnapshot \/ ReadDelta
          <6>1. wire # <<>> /\ bookAt' = Head(wire).of /\ OfBook(Head(wire))
            BY <5>2 DEF ReadSnapshot, ReadDelta, Reads, OfBook
          <6>2. Head(wire) = wire[1] /\ 1 \in 1..Len(wire)
            BY <4>1, <6>1, TakeFirst
          <6> QED BY <6>1, <6>2 DEF IInv, WireFollows, Ordered
        <5> QED BY <2>2, <5>1, <5>2 DEF Read
      <4> QED BY <4>1, <4>2, <4>3
    <3>3. astray' \/ book' = Version(bookAt')
      <4>1. Version(bookAt)' = Version(bookAt')
        BY <3>1 DEF Version
      <4>2. (astray \/ book = Version(bookAt))'
        BY DEF IInv, TypeOK, CopiesExact
      <4> QED BY <4>1, <4>2
    <3> QED BY <3>1, <3>2, <3>3
            DEF Copied!Next, Copied!Refresh, Copied!Version, SameUnlessAstray,
                Version
  <2>3. CASE UNCHANGED <<versions, book, bookAt, astray>>
    BY <2>3 DEF Copied!vars
  <2>4. ExchangeMoves \/ Read \/ UNCHANGED <<versions, book, bookAt, astray>>
    BY DEF Next, vars, SendStat, Connected, Lose, StatReturns, Leave,
           EmitOrderbookSnapshot, InsertReturns, ApplySnapshot,
           SnapshotLoopReturns, Cancel
  <2> QED BY <2>1, <2>2, <2>3, <2>4
<1> QED BY <1>1, <1>2, NextInv, Invariance, PTL
        DEF Spec, BookIsCopy, Copied!Spec

(* The registry implements the copy with rounded prices: the levels are    *)
(* those of one version although the read loop goes on between copying,    *)
(* inserting and applying them, and no snapshot overtakes a later one.     *)
(* Levels of a book that is astray are excepted.                           *)
THEOREM RegistryCopied ==
  ASSUME \A f \in Feeds : f.snapshot
  PROVE  Spec => RegistryIsCopy
<1>1. Init => Answered!Init
  <2>1. RoundedFrom(NoLevels(Tick), NoLevels(Price))
    BY DEF RoundedFrom, NoLevels, Present
  <2> QED BY <2>1 DEF Init, Answered!Init, RoundedUnlessAstray
<1>2. IInv /\ IInv' /\ [Next]_vars => [Answered!Next]_(Answered!vars)
  <2> SUFFICES ASSUME IInv, IInv', [Next]_vars
               PROVE  Answered!Next \/ UNCHANGED Answered!vars
    OBVIOUS
  <2> USE DEF exchangeVars, socketVars, bookVars, emitVars, registryVars
  <2>1. CASE ExchangeMoves
    BY <2>1, Publishes DEF ExchangeMoves, Answered!Next, Answered!Publish
  <2>2. CASE ApplySnapshot
    <3>1. UNCHANGED versions /\ RoundedFrom(registry', emitted)
          /\ registryAt' = emittedAt /\ registryAstray' = emittedAstray
      BY <2>2 DEF ApplySnapshot
    <3>2. registryAt' \in registryAt..Len(versions)
      BY <3>1, Typing DEF IInv, Current
    <3>3. emittedAstray \/ emitted = Version(emittedAt)
      BY Exact
    <3> QED BY <3>1, <3>2, <3>3
            DEF Answered!Next, Answered!Refresh, Answered!Version,
                RoundedUnlessAstray, Version
  <2>3. CASE UNCHANGED <<versions, registry, registryAt, registryAstray>>
    BY <2>3 DEF Answered!vars
  <2>4. \/ ExchangeMoves \/ ApplySnapshot
        \/ UNCHANGED <<versions, registry, registryAt, registryAstray>>
    BY DEF Next, vars, SendStat, Connected, Lose, Read, ReadSnapshot, ReadDelta,
           ReadStat, StatReturns, Leave, EmitOrderbookSnapshot, InsertReturns,
           SnapshotLoopReturns, Cancel
  <2> QED BY <2>1, <2>2, <2>3, <2>4
<1> QED BY <1>1, <1>2, NextInv, Invariance, PTL
        DEF Spec, RegistryIsCopy, Answered!Spec

(* Both are copies, for connectors that are sent snapshots, as long as     *)
(* they are not astray; and only Bitfinex's may be, by TypeCorrect.        *)
THEOREM BooksCopied ==
  ASSUME \A f \in Feeds : f.snapshot
  PROVE  Spec => BooksAreCopies
BY BookCopied, RegistryCopied DEF BooksAreCopies

-----------------------------------------------------------------------------
(* The levels of any connector                                             *)

(* A book each level of which the exchange had in one of the first         *)
(* versions, up to at.                                                     *)
Had(b, at) ==
  \A s \in Sides : \A p \in Price : \E n \in 0..at : b[s][p] = Version(n)[s][p]

HadRounded(r, at) ==
  \A s \in Sides : \A t \in Present(r, s) :
    \E n \in 0..at : \E p \in Present(Version(n), s) :
      Rounded(p) = t /\ r[s][t] = Version(n)[s][p]

(* The property in these terms.                                            *)
LEMMA LevelsAreHad ==
  LevelsAreOfExchange <=>
    Had(book, bookAt) /\ Had(emitted, emittedAt) /\ HadRounded(registry, registryAt)
BY DEF LevelsAreOfExchange, Had, HadRounded

(* Both kinds of deltas set a level as the new version has it, or delete   *)
(* it, or leave it alone.                                                  *)
LEMMA UpdatedLevels ==
  ASSUME NEW b, NEW changes, NEW new, NEW s \in Sides, NEW p \in Price
  PROVE  Updated(b, changes, new)[s][p] \in {new[s][p], 0, b[s][p]}
BY DEF Updated, SetLevels, SetPrices

(* The versions that were published stay.                                  *)
LEMMA VersionsStay ==
  ASSUME IInv, [Next]_vars
  PROVE  \A i \in 0..Current : Version(i)' = Version(i)
<1>1. CASE ExchangeMoves
  <2>1. PICK b \in Book(Price) : versions' = Append(versions, b)
    BY <1>1, ExchangeAssumption DEF ExchangeMoves
  <2>2. versions \in Seq(Book(Price)) /\ Current = Len(versions)
    BY Typing DEF IInv, Current
  <2>3. \A i \in 1..Current : versions'[i] = versions[i]
    BY <2>1, <2>2
  <2> QED
    BY <2>3, Typing DEF Version, IInv
<1>2. CASE UNCHANGED versions
  BY <1>2 DEF Version
<1> QED
  BY <1>1, <1>2
     DEF Next, vars, exchangeVars, SendStat, Connected, Lose, Read, ReadSnapshot,
         ReadDelta, ReadStat, StatReturns, Leave, EmitOrderbookSnapshot,
         InsertReturns, ApplySnapshot, SnapshotLoopReturns, Cancel

(* What a snapshot puts into the registry are levels that were emitted.    *)
LEMMA RoundedHad ==
  ASSUME TypeOK, NEW r \in Book(Tick), RoundedFrom(r, emitted), Had(emitted, emittedAt)
  PROVE  HadRounded(r, emittedAt)
<1> SUFFICES ASSUME NEW s \in Sides, NEW t \in Present(r, s)
             PROVE  \E n \in 0..emittedAt : \E p \in Present(Version(n), s) :
                      Rounded(p) = t /\ r[s][t] = Version(n)[s][p]
  BY DEF HadRounded
<1>1. t \in Tick /\ r[s][t] # 0
  BY DEF Present, Book
<1>2. PICK p \in Present(emitted, s) : Rounded(p) = t /\ r[s][t] = emitted[s][p]
  BY <1>1 DEF RoundedFrom
<1>3. p \in Price /\ emitted[s][p] > 0 /\ emitted \in Book(Price)
  BY <1>2 DEF Present, Book, TypeOK
<1>4. PICK n \in 0..emittedAt : emitted[s][p] = Version(n)[s][p]
  BY <1>3 DEF Had
<1>5. n \in 0..Current
  BY Typing
<1>6. p \in Present(Version(n), s)
  BY <1>3, <1>4, <1>5, Typing DEF Present, Book
<1> QED
  BY <1>2, <1>4, <1>6

(* Reading takes the book to no earlier version.                           *)
LEMMA BookMovesOn ==
  ASSUME IInv, Read
  PROVE  bookAt' \in Nat /\ bookAt <= bookAt' /\ bookAt' <= Current
<1>1. /\ wire # <<>> /\ wire \in Seq(Message) /\ bookAt \in Nat /\ Current \in Nat
      /\ Ordered(wire, bookAt, Current) /\ bookAt <= Current
  BY Typing DEF Read, ReadSnapshot, ReadDelta, ReadStat, Reads, IInv, WireFollows
<1>2. Head(wire) = wire[1] /\ 1 \in 1..Len(wire) /\ Head(wire) \in Message
  BY <1>1, TakeFirst
<1>3. CASE ReadSnapshot \/ ReadDelta
  <2>1. bookAt' = Head(wire).of /\ OfBook(Head(wire))
    BY <1>3 DEF ReadSnapshot, ReadDelta, Reads, OfBook
  <2> QED
    BY <1>1, <1>2, <2>1 DEF Ordered
<1>4. CASE ReadStat
  BY <1>1, <1>4 DEF ReadStat, bookVars
<1> QED
  BY <1>3, <1>4 DEF Read

(* The three books after a step.                                           *)
LEMMA BookHad ==
  ASSUME IInv, [Next]_vars, Had(book, bookAt)
  PROVE  Had(book, bookAt)'
<1> USE DEF exchangeVars, socketVars, bookVars, emitVars, registryVars
<1>1. /\ bookAt \in Nat /\ bookAt <= Current /\ Current \in Nat
      /\ \A i \in 0..Current : Version(i)' = Version(i)
  BY VersionsStay, Typing DEF IInv
<1> SUFFICES ASSUME NEW s \in Sides, NEW p \in Price
             PROVE  \E i \in 0..bookAt' : book'[s][p] = Version(i)'[s][p]
  BY DEF Had
<1>4. PICK n \in 0..bookAt : book[s][p] = Version(n)[s][p]
  BY DEF Had
<1>5. Version(n)' = Version(n)
  BY <1>1
<1>2. CASE UNCHANGED <<book, bookAt>>
  BY <1>2, <1>4, <1>5
<1>3. CASE ReadSnapshot \/ ReadDelta
  <2>1. bookAt' \in Nat /\ bookAt <= bookAt' /\ bookAt' <= Current
    BY <1>3, BookMovesOn DEF Read
  <2>2. \E i \in 0..bookAt' : book[s][p] = Version(i)'[s][p]
    <3>1. n \in 0..bookAt'
      BY <1>1, <2>1
    <3> QED
      BY <1>4, <1>5, <3>1
  <2>8. PICK at \in Nat : at = bookAt'
    BY <2>1
  <2>3. Version(0)'[s][p] = 0 /\ 0 \in 0..bookAt'
    BY <2>1 DEF Version, NoLevels
  <2>4. UNCHANGED versions /\ bookAt' = Head(wire).of
    BY <1>3 DEF ReadSnapshot, ReadDelta
  <2>5. bookAt' # 0
    <3>1. wire # <<>> /\ wire \in Seq(Message) /\ Ordered(wire, bookAt, Current)
          /\ OfBook(Head(wire))
      BY <1>3, Typing DEF ReadSnapshot, ReadDelta, Reads, OfBook, IInv, WireFollows
    <3>2. Head(wire) = wire[1] /\ 1 \in 1..Len(wire)
      BY <3>1, TakeFirst
    <3> QED
      BY <2>4, <3>1, <3>2 DEF Ordered
  <2>6. Version(at)' = versions[at] /\ at \in 0..bookAt'
    BY <2>4, <2>5, <2>8 DEF Version
  <2>7. book'[s][p] \in {versions[at][s][p], 0, book[s][p]}
    <3>1. CASE ReadSnapshot
      BY <2>8, <3>1 DEF ReadSnapshot
    <3>2. CASE ReadDelta
      <4>1. book' = Updated(book, Changes(versions[at - 1], versions[at]), versions[at])
        BY <2>8, <3>2 DEF ReadDelta
      <4> QED
        BY <4>1, UpdatedLevels
    <3> QED
      BY <1>3, <3>1, <3>2
  <2> QED
    BY <2>2, <2>3, <2>6, <2>7
<1> QED
  BY <1>2, <1>3
     DEF Next, vars, ExchangeMoves, SendStat, Connected, Lose, Read, ReadStat,
         StatReturns, Leave, EmitOrderbookSnapshot, InsertReturns, ApplySnapshot,
         SnapshotLoopReturns, Cancel

LEMMA EmittedHad ==
  ASSUME IInv, [Next]_vars, Had(book, bookAt), Had(emitted, emittedAt)
  PROVE  Had(emitted, emittedAt)'
<1> USE DEF exchangeVars, socketVars, bookVars, emitVars, registryVars
<1>1. /\ bookAt \in Nat /\ bookAt <= Current /\ Current \in Nat
      /\ emittedAt \in Nat /\ emittedAt <= Current
      /\ \A i \in 0..Current : Version(i)' = Version(i)
  BY VersionsStay, Typing DEF IInv
<1> SUFFICES ASSUME NEW s \in Sides, NEW p \in Price
             PROVE  \E i \in 0..emittedAt' : emitted'[s][p] = Version(i)'[s][p]
  BY DEF Had
<1>2. CASE UNCHANGED <<emitted, emittedAt>>
  <2>1. PICK n \in 0..emittedAt : emitted[s][p] = Version(n)[s][p]
    BY DEF Had
  <2>2. Version(n)' = Version(n)
    BY <1>1
  <2> QED
    BY <1>2, <2>1, <2>2
<1>3. CASE EmitOrderbookSnapshot
  <2>1. emitted' = book /\ emittedAt' = bookAt
    BY <1>3 DEF EmitOrderbookSnapshot
  <2>2. PICK n \in 0..bookAt : book[s][p] = Version(n)[s][p]
    BY DEF Had
  <2>3. Version(n)' = Version(n)
    BY <1>1
  <2> QED
    BY <2>1, <2>2, <2>3
<1> QED
  BY <1>2, <1>3
     DEF Next, vars, ExchangeMoves, SendStat, Connected, Lose, Read, ReadSnapshot,
         ReadDelta, ReadStat, StatReturns, Leave, InsertReturns, ApplySnapshot,
         SnapshotLoopReturns, Cancel

LEMMA RegistryHad ==
  ASSUME IInv, [Next]_vars, Had(emitted, emittedAt), HadRounded(registry, registryAt)
  PROVE  HadRounded(registry, registryAt)'
<1> USE DEF exchangeVars, socketVars, bookVars, emitVars, registryVars
<1>1. /\ Current \in Nat /\ emittedAt \in Nat /\ emittedAt <= Current
      /\ registryAt \in Nat /\ registryAt <= Current
      /\ \A i \in 0..Current : Version(i)' = Version(i)
  BY VersionsStay, Typing DEF IInv
<1> SUFFICES ASSUME NEW s \in Sides, NEW t \in Present(registry', s)
             PROVE  \E i \in 0..registryAt' : \E p \in Present(Version(i)', s) :
                      Rounded(p) = t /\ registry'[s][t] = Version(i)'[s][p]
  BY DEF HadRounded, Present, Rounded
<1>2. CASE UNCHANGED <<registry, registryAt>>
  <2>1. PICK n \in 0..registryAt : \E p \in Present(Version(n), s) :
               Rounded(p) = t /\ registry[s][t] = Version(n)[s][p]
    BY <1>2 DEF HadRounded
  <2>2. Version(n)' = Version(n)
    BY <1>1
  <2> QED
    BY <1>2, <2>1, <2>2
<1>3. CASE ApplySnapshot
  <2>1. PICK r \in Book(Tick) : RoundedFrom(r, emitted) /\ registry' = r
    BY <1>3 DEF ApplySnapshot
  <2>2. HadRounded(r, emittedAt) /\ registryAt' = emittedAt
    BY <1>3, <2>1, RoundedHad DEF ApplySnapshot, IInv
  <2>3. PICK n \in 0..emittedAt : \E p \in Present(Version(n), s) :
               Rounded(p) = t /\ r[s][t] = Version(n)[s][p]
    BY <2>1, <2>2 DEF HadRounded
  <2>4. Version(n)' = Version(n)
    BY <1>1
  <2> QED
    BY <2>1, <2>2, <2>3, <2>4
<1> QED
  BY <1>2, <1>3
     DEF Next, vars, ExchangeMoves, SendStat, Connected, Lose, Read, ReadSnapshot,
         ReadDelta, ReadStat, StatReturns, Leave, EmitOrderbookSnapshot,
         InsertReturns, SnapshotLoopReturns, Cancel

(* Every connector, with a snapshot or without: a level it shows, that     *)
(* was emitted or that /orderbook/current answers is one the exchange had  *)
(* by then.                                                                *)
THEOREM LevelsWereThere == Spec => []LevelsAreOfExchange
<1>1. Init => LevelsAreOfExchange
  <2> SUFFICES ASSUME Init PROVE LevelsAreOfExchange
    OBVIOUS
  <2>1. /\ book = NoLevels(Price) /\ bookAt = 0 /\ emitted = NoLevels(Price)
        /\ emittedAt = 0 /\ registry = NoLevels(Tick) /\ registryAt = 0
    BY DEF Init
  <2>2. Version(0) = NoLevels(Price) /\ 0 \in 0..0
    BY DEF Version
  <2>3. \A s \in Sides : Present(registry, s) = {}
    BY <2>1 DEF Present, NoLevels
  <2> QED
    BY <2>1, <2>2, <2>3 DEF LevelsAreOfExchange
<1>2. IInv /\ LevelsAreOfExchange /\ [Next]_vars => LevelsAreOfExchange'
  <2> SUFFICES ASSUME IInv, LevelsAreOfExchange, [Next]_vars
               PROVE  LevelsAreOfExchange'
    OBVIOUS
  <2>1. Had(book, bookAt)' /\ Had(emitted, emittedAt)' /\ HadRounded(registry, registryAt)'
    BY LevelsAreHad, BookHad, EmittedHad, RegistryHad
  <2> QED
    BY <2>1 DEF LevelsAreOfExchange, Had, HadRounded
<1> QED
  BY <1>1, <1>2, Invariance, PTL DEF Spec

-----------------------------------------------------------------------------
(* The summaries                                                           *)

(* Rounding gives natural numbers and keeps the order.                     *)
LEMMA RoundedOrder ==
  ASSUME NEW p \in Nat, NEW q \in Nat, p <= q
  PROVE  Rounded(p) \in Nat /\ Rounded(q) \in Nat /\ Rounded(p) <= Rounded(q)
<1>1. /\ 2 * p + TickSize \in Nat /\ 2 * q + TickSize \in Nat
      /\ 2 * TickSize \in Nat \ {0}
      /\ 2 * p + TickSize <= 2 * q + TickSize
  OBVIOUS
<1>2. \A a, b \in Nat, k \in Nat \ {0} :
        a <= b => a \div k \in Nat /\ b \div k \in Nat /\ a \div k <= b \div k
  OBVIOUS
<1>3. \A a, b, k \in Nat : a <= b => a * k \in Nat /\ b * k \in Nat /\ a * k <= b * k
  OBVIOUS
<1> QED BY <1>1, <1>2, <1>3 DEF Rounded

(* The levels of the registry are at the rounded prices of the levels that *)
(* were emitted, whatever becomes of the quantities that meet at one.      *)
LEMMA RegistryLevels ==
  ASSUME NEW b \in Book(Price), NEW r \in Book(Tick), RoundedFrom(r, b),
         NEW s \in Sides
  PROVE  Present(r, s) = {Rounded(p) : p \in Present(b, s)}
<1>1. DOMAIN r[s] = Tick /\ DOMAIN b[s] = Price
  BY DEF Book
<1>2. ASSUME NEW t \in Present(r, s)
      PROVE  \E p \in Present(b, s) : t = Rounded(p)
  <2>1. t \in Tick /\ r[s][t] # 0
    BY <1>1 DEF Present
  <2> QED BY <2>1 DEF RoundedFrom
<1>3. ASSUME NEW p \in Present(b, s)
      PROVE  Rounded(p) \in Present(r, s)
  <2>1. p \in Price /\ Rounded(p) \in Tick
    BY <1>1 DEF Present, Tick
  <2>2. PICK q \in Present(b, s) : r[s][Rounded(p)] = b[s][q]
    BY <2>1 DEF RoundedFrom
  <2> QED BY <1>1, <2>1, <2>2 DEF Present
<1> QED BY <1>2, <1>3

(* Between two snapshots the registry holds what was emitted last.         *)
RegistryFollows ==
  snapshots \notin {"storing", "stored"} => RoundedFrom(registry, emitted)

LEMMA FollowsInvariance == Spec => []RegistryFollows
<1>1. Init => RegistryFollows
  <2>1. RoundedFrom(NoLevels(Tick), NoLevels(Price))
    BY DEF RoundedFrom, NoLevels, Present
  <2> QED BY <2>1 DEF Init, RegistryFollows
<1>2. RegistryFollows /\ [Next]_vars => RegistryFollows'
  <2> SUFFICES ASSUME RegistryFollows, [Next]_vars PROVE RegistryFollows'
    OBVIOUS
  <2> USE DEF exchangeVars, socketVars, bookVars, emitVars, registryVars
  <2>1. CASE ApplySnapshot
    BY <2>1 DEF ApplySnapshot, RegistryFollows
  <2>2. CASE EmitOrderbookSnapshot
    BY <2>2 DEF EmitOrderbookSnapshot, RegistryFollows
  <2>3. CASE UNCHANGED <<emitted, registry>>
             /\ (snapshots' \in {snapshots, "stored"}
                   \/ snapshots = "waiting")
    BY <2>3 DEF RegistryFollows
  <2>4. \/ ApplySnapshot \/ EmitOrderbookSnapshot
        \/ UNCHANGED <<emitted, registry>>
           /\ (snapshots' \in {snapshots, "stored"} \/ snapshots = "waiting")
    BY DEF Next, vars, ExchangeMoves, SendStat, Connected, Lose, Read,
           ReadSnapshot, ReadDelta, ReadStat, StatReturns, Leave, InsertReturns,
           SnapshotLoopReturns, Cancel
  <2> QED BY <2>1, <2>2, <2>3, <2>4
<1> QED BY <1>1, <1>2, PTL DEF Spec

(* The row of a snapshot and the answer of the registry agree, for any     *)
(* prices up to a bound: both look at the same set of rounded prices, and  *)
(* the spread is not negative because rounding keeps the order of the      *)
(* uncrossed book that was emitted, if the book has not gone astray. With  *)
(* one side empty the row says zero and the answer the other side's price. *)
THEOREM SummariesCorrect ==
  ASSUME \A f \in Feeds : f.snapshot,
         NEW MaxPrice \in Nat, Price \subseteq 1..MaxPrice
  PROVE  Spec => []SummariesAgree
<1>1. ASSUME IInv, RegistryFollows PROVE SummariesAgree
  <2> DEFINE bids == {Rounded(p) : p \in Present(emitted, "bids")}
             asks == {Rounded(p) : p \in Present(emitted, "asks")}
             bestBid == Max(bids \cup {0})
             bestAsk == IF asks = {} THEN 0 ELSE Min(asks)
  <2> SUFFICES ASSUME snapshots = "waiting", registryAt > 0
               PROVE  LET row == summarizeOrderbook(emitted)
                          answer == Snapshot(registry)
                      IN  /\ row.bestBid = answer.bestBid
                          /\ row.bestAsk = answer.bestAsk
                          /\ row.bestBid > 0 /\ row.bestAsk > 0 =>
                               row = answer /\ (row.spread >= 0 \/ emittedAstray)
                          /\ row.bestBid = 0 \/ row.bestAsk = 0 =>
                               /\ row.spread = 0 /\ row.midTwice = 0
                               /\ answer.spread \in {row.bestAsk, -row.bestBid}
                               /\ answer.midTwice \in {row.bestAsk, row.bestBid}
    BY DEF SummariesAgree
  <2>1. /\ emitted \in Book(Price) /\ registry \in Book(Tick)
        /\ RoundedFrom(registry, emitted)
    BY <1>1 DEF IInv, TypeOK, RegistryFollows
  <2>2. Present(registry, "bids") = bids /\ Present(registry, "asks") = asks
    BY <2>1, RegistryLevels DEF Sides
  <2>3. ASSUME ~emittedAstray PROVE Uncrossed(emitted)
    <3>1. emitted = Version(emittedAt) /\ emittedAt \in 0..Current
          /\ Current \in Nat
      BY <1>1, <2>3, Exact, Typing DEF IInv
    <3>2. CASE emittedAt = 0
      BY <3>1, <3>2 DEF Version, NoLevels, Uncrossed, Present, Sides
    <3>3. CASE emittedAt # 0
      BY <3>1, <3>3, <1>1 DEF Version, IInv, VersionsUncrossed
    <3> QED BY <3>2, <3>3
  <2>4. \A p \in Present(emitted, "bids") \cup Present(emitted, "asks") :
          p \in 1..MaxPrice /\ p \in Nat
    <3>1. DOMAIN emitted["bids"] = Price /\ DOMAIN emitted["asks"] = Price
      BY <2>1 DEF Book, Sides
    <3> QED BY <3>1 DEF Present
  <2>5. bids \subseteq Nat /\ asks \subseteq Nat
    BY <2>4, RoundedOrder
  <2>6. \A x \in bids \cup {0} : x <= Rounded(MaxPrice) /\ Rounded(MaxPrice) \in Nat
    BY <2>4, RoundedOrder
  <2>7. bestBid \in bids \cup {0}
    <3> DEFINE S == bids \cup {0}
               N == Rounded(MaxPrice)
    <3>1. MaxPrice \in Nat /\ MaxPrice <= MaxPrice
      OBVIOUS
    <3>2. N \in Nat
      BY <3>1, RoundedOrder
    <3>3. S \in SUBSET Nat /\ S # {} /\ \A x \in S : x <= N
      <4>1. S \in SUBSET Nat /\ S # {}
        <5> HIDE DEF bids
        <5> QED BY <2>5
      <4>2. \A x \in S : x <= N
        BY <2>6
      <4> QED BY <4>1, <4>2
    <3> HIDE DEF S, N
    <3>4. Max(S) \in S
      BY <3>2, <3>3, MaxIsGreatest
    <3> QED BY <3>4 DEF S
  <2>8. bestAsk \in asks \cup {0}
    <3> HIDE DEF asks
    <3> QED BY <2>5, MinIsLeast
  <2>9. bestBid > 0 /\ bestAsk > 0 /\ ~emittedAstray => bestAsk - bestBid >= 0
    <3> SUFFICES ASSUME bestBid > 0, bestAsk > 0, ~emittedAstray
                 PROVE  bestAsk - bestBid >= 0
      OBVIOUS
    <3>1. bestBid \in bids /\ bestAsk \in asks
      <4> HIDE DEF bestBid, bestAsk, bids, asks
      <4> QED BY <2>7, <2>8
    <3>2. PICK p \in Present(emitted, "bids") : bestBid = Rounded(p)
      BY <3>1
    <3>3. PICK q \in Present(emitted, "asks") : bestAsk = Rounded(q)
      BY <3>1
    <3>4. p < q /\ p \in Nat /\ q \in Nat
      BY <2>3, <2>4 DEF Uncrossed
    <3>5. Rounded(p) \in Nat /\ Rounded(q) \in Nat /\ Rounded(p) <= Rounded(q)
      BY <3>4, RoundedOrder
    <3> HIDE DEF bestBid, bestAsk
    <3> QED BY <3>2, <3>3, <3>5
  <2>10. summarizeOrderbook(emitted) =
           [bestBid |-> bestBid, bestAsk |-> bestAsk,
            spread |-> IF bestBid > 0 /\ bestAsk > 0 THEN bestAsk - bestBid ELSE 0,
            midTwice |-> IF bestBid > 0 /\ bestAsk > 0 THEN bestAsk + bestBid ELSE 0]
    BY DEF summarizeOrderbook
  <2>11. Snapshot(registry) =
           [bestBid |-> bestBid, bestAsk |-> bestAsk,
            spread |-> bestAsk - bestBid, midTwice |-> bestAsk + bestBid]
    <3> HIDE DEF bids, asks
    <3> QED BY <2>2 DEF Snapshot
  <2>12. bestBid \in Nat /\ bestAsk \in Nat
    <3> HIDE DEF bids, asks, bestBid, bestAsk
    <3> QED BY <2>5, <2>7, <2>8
  <2> HIDE DEF bestBid, bestAsk
  <2> QED BY <2>9, <2>10, <2>11, <2>12
<1> QED BY <1>1, Invariance, FollowsInvariance, PTL
=============================================================================
