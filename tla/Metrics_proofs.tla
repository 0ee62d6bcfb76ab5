--------------------------- MODULE Metrics_proofs ---------------------------
(***************************************************************************)
(* Proofs about Metrics, for any recorders, readers, exchanges, widths and *)
(* stamps.                                                                 *)
(***************************************************************************)
EXTENDS Metrics, SequenceTheorems, WellFoundedInduction, TLAPS

(* A set of natural numbers that is not empty has a least element.         *)
LEMMA Least ==
  ASSUME NEW S \in SUBSET Nat, S # {}
  PROVE  \E m \in S : \A x \in S : m <= x
<1> DEFINE R == OpToRel(<, Nat)
<1>1. IsWellFoundedOn(R, Nat)
  BY NatLessThanWellFounded
<1>2. \A x, y \in Nat : <<x, y>> \in R <=> x < y
  BY DEF OpToRel
<1> HIDE DEF R
<1>3. PICK m \in S : \A y \in S : <<y, m>> \notin R
  BY <1>1, WFMin
<1>4. \A y \in S : y \in Nat /\ m \in Nat /\ ~(y < m)
  BY <1>2, <1>3
<1> QED BY <1>4

(* Min is that element.                                                    *)
LEMMA MinIsLeast ==
  ASSUME NEW S \in SUBSET Nat, S # {}
  PROVE  Min(S) \in S /\ \A x \in S : Min(S) <= x
BY Least DEF Min

USE MetricsAssumption DEF MetricsAssumption

-----------------------------------------------------------------------------
(* Sequences of events                                                     *)

(* What a sequence holds after one more event.                             *)
LEMMA ElementsAppend ==
  ASSUME NEW q \in Seq(Event), NEW e \in Event
  PROVE  /\ Append(q, e) \in Seq(Event)
         /\ Elements(Append(q, e)) = Elements(q) \cup {e}
<1>1. /\ Len(q) \in Nat /\ Len(Append(q, e)) = Len(q) + 1
      /\ Append(q, e) \in Seq(Event)
      /\ \A i \in 1..Len(q) : Append(q, e)[i] = q[i]
      /\ Append(q, e)[Len(q) + 1] = e
  OBVIOUS
<1>2. DOMAIN q = 1..Len(q) /\ DOMAIN Append(q, e) = 1..(Len(q) + 1)
  BY <1>1
<1> QED BY <1>1, <1>2 DEF Elements

(* An event is dropped only if it and all before it are expired.           *)
LEMMA PruneDrops ==
  ASSUME NEW q \in Seq(Event)
  PROVE  \E n \in 0..Len(q) :
           /\ Prune(q) = SubSeq(q, n + 1, Len(q))
           /\ \A i \in 1..n : Expired(q[i])
<1> DEFINE fresh == {i \in DOMAIN q : ~Expired(q[i])}
           S == fresh \cup {Len(q) + 1}
<1>1. Len(q) \in Nat /\ DOMAIN q = 1..Len(q)
  OBVIOUS
<1>2. S \in SUBSET Nat /\ S # {} /\ S \subseteq 1..(Len(q) + 1)
  BY <1>1
<1>3. \A i \in 1..Len(q) : ~Expired(q[i]) => i \in S
  BY <1>1
<1>4. Prune(q) = SubSeq(q, Min(S), Len(q))
  BY DEF Prune
<1> HIDE DEF S, fresh
<1>5. Min(S) \in S /\ \A x \in S : Min(S) <= x
  BY <1>2, MinIsLeast
<1>6. Min(S) \in 1..(Len(q) + 1)
  BY <1>2, <1>5
<1> DEFINE n == Min(S) - 1
<1>7. n \in 0..Len(q) /\ n + 1 = Min(S)
  BY <1>1, <1>6
<1>8. \A i \in 1..n : i \in 1..Len(q) /\ ~(Min(S) <= i)
  BY <1>1, <1>6
<1>9. \A i \in 1..n : Expired(q[i])
  BY <1>3, <1>5, <1>8
<1> QED BY <1>4, <1>7, <1>9

(* What a window has left of the events that were added to it.             *)
Left(q, added) ==
  /\ Len(added) - Len(q) >= 0
  /\ q = SubSeq(added, Len(added) - Len(q) + 1, Len(added))
  /\ \A i \in 1..(Len(added) - Len(q)) : Expired(added[i])

(* It loses only expired ones when another is added,                       *)
LEMMA LeftAdd ==
  ASSUME NEW q \in Seq(Event), NEW added \in Seq(Event), NEW e \in Event,
         Left(q, added)
  PROVE  /\ Append(Prune(q), e) \in Seq(Event)
         /\ Left(Append(Prune(q), e), Append(added, e))
<1>1. PICK n \in 0..Len(q) : /\ Prune(q) = SubSeq(q, n + 1, Len(q))
                             /\ \A i \in 1..n : Expired(q[i])
  BY PruneDrops
<1> DEFINE d == Len(added) - Len(q)
           p == Prune(q)
<1>2. /\ Len(q) \in Nat /\ Len(added) \in Nat /\ d \in Nat /\ n \in Nat
      /\ n <= Len(q)
  BY DEF Left
<1>3. \A i \in 1..Len(q) : i + d \in 1..Len(added) /\ q[i] = added[i + d]
  BY <1>2 DEF Left
<1>4. /\ p \in Seq(Event) /\ Len(p) = Len(q) - n
      /\ \A i \in 1..Len(p) : p[i] = q[i + n]
  <2>1. /\ n + 1 \in 1..(Len(q) + 1)
        /\ \A i \in (n + 1)..Len(q) : q[i] \in Event
    BY <1>2
  <2>2. SubSeq(q, n + 1, Len(q)) \in Seq(Event)
    BY <1>2, <2>1
  <2>3. Len(SubSeq(q, n + 1, Len(q))) = Len(q) - n
    BY <1>2
  <2>4. \A i \in 1..(Len(q) - n) : SubSeq(q, n + 1, Len(q))[i] = q[i + n]
    BY <1>2
  <2> QED BY <1>1, <2>2, <2>3, <2>4
<1> HIDE DEF p
<1>5. \A i \in 1..Len(p) : p[i] = added[i + n + d]
  <2>1. \A i \in 1..Len(p) : i + n \in 1..Len(q)
    BY <1>2, <1>4
  <2> QED BY <1>2, <1>3, <1>4, <2>1
<1> DEFINE a == Append(added, e)
           b == Append(p, e)
<1>6. /\ a \in Seq(Event) /\ Len(a) = Len(added) + 1
      /\ \A i \in 1..Len(added) : a[i] = added[i]
      /\ a[Len(added) + 1] = e
  OBVIOUS
<1>7. /\ b \in Seq(Event) /\ Len(b) = Len(p) + 1
      /\ \A i \in 1..Len(p) : b[i] = p[i]
      /\ b[Len(p) + 1] = e
  BY <1>4
<1> HIDE DEF a, b
<1>8. Len(a) - Len(b) = n + d /\ n + d \in Nat /\ Len(p) \in Nat
  BY <1>2, <1>4, <1>6, <1>7
<1>9. b = SubSeq(a, n + d + 1, Len(a))
  <2> DEFINE t == SubSeq(a, n + d + 1, Len(a))
  <2>1. t \in Seq(Event) /\ Len(t) = Len(b)
        /\ \A i \in 1..Len(b) : t[i] = a[i + n + d]
    <3> DEFINE m == n + d
    <3>1. m \in Nat /\ Len(a) \in Nat /\ Len(b) = Len(a) - m /\ Len(b) \in Nat
      BY <1>6, <1>7, <1>8
    <3>2. \A i \in 1..Len(b) : i + n + d = i + m
      BY <1>2
    <3> HIDE DEF m
    <3>3. \A i \in (m + 1)..Len(a) : a[i] \in Event
      BY <1>6, <3>1
    <3>4. SubSeq(a, m + 1, Len(a)) \in Seq(Event)
      BY <3>1, <3>3
    <3>5. Len(SubSeq(a, m + 1, Len(a))) = Len(b)
      BY <3>1
    <3>6. \A i \in 1..Len(b) : SubSeq(a, m + 1, Len(a))[i] = a[i + m]
      BY <3>1
    <3>7. t = SubSeq(a, m + 1, Len(a))
      BY DEF m
    <3> HIDE DEF t
    <3> QED BY <3>2, <3>4, <3>5, <3>6, <3>7
  <2>2. \A i \in 1..Len(b) : b[i] = a[i + n + d]
    <3>1. \A i \in 1..Len(p) : i + n + d \in 1..Len(added)
      BY <1>2, <1>4
    <3>2. \A i \in 1..Len(p) : b[i] = a[i + n + d]
      BY <3>1, <1>5, <1>6, <1>7
    <3>3. Len(p) + 1 + n + d = Len(added) + 1
      BY <1>2, <1>4
    <3> QED BY <3>2, <3>3, <1>6, <1>7, <1>8
  <2> HIDE DEF t
  <2>3. t = b
    BY <1>7, <2>1, <2>2
  <2> QED BY <2>3 DEF t
<1>10. \A i \in 1..(n + d) : Expired(a[i])
  <2> SUFFICES ASSUME NEW i \in 1..(n + d) PROVE Expired(a[i])
    OBVIOUS
  <2>1. i \in 1..Len(added) /\ a[i] = added[i]
    BY <1>2, <1>6
  <2>2. CASE i <= d
    BY <2>1, <2>2, <1>2 DEF Left
  <2>3. CASE i > d
    <3> DEFINE j == i - d
    <3>1. j \in 1..n /\ j \in 1..Len(q) /\ j + d = i
      BY <2>3, <1>2
    <3> HIDE DEF j, d
    <3>2. q[j] = added[i] /\ Expired(q[j])
      BY <3>1, <1>1, <1>3
    <3> QED BY <3>2, <2>1
  <2> QED BY <1>2, <2>2, <2>3
<1>11. Left(b, a)
  <2> HIDE DEF d
  <2>1. Len(a) - Len(b) + 1 = n + d + 1 /\ Len(a) - Len(b) >= 0
    BY <1>8
  <2>2. b = SubSeq(a, Len(a) - Len(b) + 1, Len(a))
    BY Zenon, <1>9, <2>1
  <2>3. \A i \in 1..(Len(a) - Len(b)) : Expired(a[i])
    BY Zenon, <1>8, <1>10
  <2> QED BY <2>1, <2>2, <2>3 DEF Left
<1> QED BY <1>7, <1>11 DEF a, b, p

(* and what is not expired is never lost.                                  *)
LEMMA LeftFresh ==
  ASSUME NEW q \in Seq(Event), NEW added \in Seq(Event), Left(q, added)
  PROVE  /\ Elements(q) \subseteq Elements(added)
         /\ \A e \in Elements(added) : Expired(e) \/ e \in Elements(q)
<1> DEFINE d == Len(added) - Len(q)
<1>1. /\ Len(q) \in Nat /\ Len(added) \in Nat /\ d \in Nat
      /\ DOMAIN q = 1..Len(q) /\ DOMAIN added = 1..Len(added)
  BY DEF Left
<1>2. \A i \in 1..Len(q) : q[i] = added[i + d] /\ i + d \in 1..Len(added)
  BY <1>1 DEF Left
<1>3. \A i \in 1..Len(added) :
        \/ Expired(added[i])
        \/ i - d \in 1..Len(q) /\ q[i - d] = added[i]
  <2> SUFFICES ASSUME NEW i \in 1..Len(added)
               PROVE  \/ Expired(added[i])
                      \/ i - d \in 1..Len(q) /\ q[i - d] = added[i]
    OBVIOUS
  <2>1. CASE i <= d
    BY <2>1, <1>1 DEF Left
  <2>2. CASE i > d
    <3> DEFINE j == i - d
    <3>1. j \in 1..Len(q) /\ j + d = i
      BY <2>2, <1>1
    <3>2. q[j] = added[i]
      <4> HIDE DEF j, d
      <4> QED BY <3>1, <1>2
    <3> QED BY <3>1, <3>2
  <2> QED BY <1>1, <2>1, <2>2
<1> HIDE DEF d
<1>4. ASSUME NEW e \in Elements(q) PROVE e \in Elements(added)
  BY <1>1, <1>2 DEF Elements
<1>5. ASSUME NEW e \in Elements(added) PROVE Expired(e) \/ e \in Elements(q)
  <2>1. PICK i \in 1..Len(added) : e = added[i]
    BY <1>1 DEF Elements
  <2> QED BY <2>1, <1>1, <1>3 DEF Elements
<1> QED BY <1>4, <1>5

-----------------------------------------------------------------------------
(* The inductive invariant                                                 *)

AllTrades == <<"trade", All>>
AllLiquidations == <<"liquidation", All>>

(* What was added to the window of an exchange, or is about to be, was     *)
(* added to the one over all before.                                       *)
GlobalFirst ==
  /\ \A kind \in Kind, k \in Key :
       Elements(recorded[<<kind, k>>]) \subseteq Elements(recorded[<<kind, All>>])
  /\ \A s \in Source :
       pc[s] # "idle" => event[s] \in Elements(recorded[<<event[s].kind, All>>])

(* A reader that has looked at all trades has counted every one that it    *)
(* may yet find in the window of an exchange.                              *)
AllTradesCounted ==
  \A r \in holds : AllTrades \notin unread[r] =>
    /\ \A k \in Key : \A e \in Elements(recorded[<<"trade", k>>]) :
         Expired(e) \/ e \in counted[r][AllTrades]
    /\ \A s \in Source : pc[s] = "add" /\ event[s].kind = "trade" =>
         Expired(event[s]) \/ event[s] \in counted[r][AllTrades]

(* Before, it has counted nothing.                                         *)
NothingCounted ==
  \A r \in Reader :
    /\ r \notin holds \/ AllTrades \in unread[r] =>
         \A k \in Key : counted[r][<<"trade", k>>] = {}
    /\ r \notin holds => \A k \in Key : counted[r][<<"liquidation", k>>] = {}

(* What it counts for an exchange was added there.                         *)
CountedWasAdded ==
  \A r \in Reader, k \in Key :
    counted[r][<<"liquidation", k>>] \subseteq Elements(recorded[<<"liquidation", k>>])

(* It looks at all liquidations last.                                      *)
LiquidationsLast ==
  \A r \in holds : AllLiquidations \notin unread[r] => unread[r] = {}

IInv ==
  /\ TypeOK /\ LastAreHeld /\ GlobalFirst /\ AllTradesCounted
  /\ NothingCounted /\ CountedWasAdded /\ LiquidationsLast
  /\ TradesWithinGlobal /\ LiquidationsWithinGlobal

(* The invariants about what readers count.                                *)
ReaderInv ==
  /\ NothingCounted /\ CountedWasAdded /\ LiquidationsLast
  /\ TradesWithinGlobal /\ LiquidationsWithinGlobal

(* The invariant speaks of Left.                                           *)
LEMMA PruningLeft ==
  LastAreHeld <=> \A w \in Window : Left(evts[w], recorded[w])
BY DEF LastAreHeld, Left

(* The windows over all are windows.                                       *)
LEMMA Windows ==
  /\ \A kind \in Kind, k \in Key \cup {All} : <<kind, k>> \in Window
  /\ AllTrades \in Window /\ AllLiquidations \in Window
  /\ \A kind1, kind2 \in Kind, k \in Key : <<kind1, k>> # <<kind2, All>>
BY DEF Window, Kind, AllTrades, AllLiquidations

(* Nothing was recorded.                                                   *)
LEMMA InitInv == Init => IInv
<1> SUFFICES ASSUME Init PROVE IInv
  OBVIOUS
<1>1. /\ evts = [w \in Window |-> <<>>] /\ recorded = [w \in Window |-> <<>>]
      /\ \A w \in Window : Elements(recorded[w]) = {}
  BY DEF Init, Elements
<1>2. TypeOK
  <2>1. evts \in [Window -> Seq(Event)] /\ recorded \in [Window -> Seq(Event)]
    BY <1>1
  <2>2. /\ counted \in [Reader -> [Window -> SUBSET Event]]
        /\ cutoffs \in [Reader -> [Window -> Int]]
    BY DEF Init
  <2>3. /\ unread \in [Reader -> SUBSET Window] /\ holds \subseteq Reader
        /\ windows \subseteq Kind \X Key /\ now \in 0..MaxTime
        /\ \A r \in Reader : unread[r] \subseteq windows \cup (Kind \X {All})
    BY DEF Init
  <2>4. /\ pc \in [Source -> {"idle", "lookup", "add"}]
        /\ \A s \in Source : pc[s] = "idle"
        /\ DOMAIN event = Source
    BY DEF Init
  <2> QED BY <2>1, <2>2, <2>3, <2>4 DEF TypeOK
<1>3. LastAreHeld
  BY <1>1 DEF LastAreHeld
<1>4. GlobalFirst
  BY <1>1, Windows DEF GlobalFirst, Init
<1>5. AllTradesCounted /\ LiquidationsLast
  BY DEF AllTradesCounted, LiquidationsLast, Init
<1>6. \A r \in Reader, w \in Window : counted[r][w] = {} /\ r \notin holds
  BY DEF Init
<1>7. NothingCounted /\ CountedWasAdded /\ TradesWithinGlobal
      /\ LiquidationsWithinGlobal
  BY <1>6, Windows
     DEF NothingCounted, CountedWasAdded, TradesWithinGlobal,
         LiquidationsWithinGlobal, Kind
<1> QED BY <1>2, <1>3, <1>4, <1>5, <1>7 DEF IInv

(* An event is added to a window.                                          *)
LEMMA AddInv ==
  ASSUME IInv, NEW w \in Window, NEW e \in Event, Add(w, e), UNCHANGED now
  PROVE  /\ evts' \in [Window -> Seq(Event)] /\ recorded' \in [Window -> Seq(Event)]
         /\ LastAreHeld'
         /\ Elements(recorded'[w]) = Elements(recorded[w]) \cup {e}
         /\ \A v \in Window : v # w => recorded'[v] = recorded[v]
         /\ \A v \in Window : Elements(recorded[v]) \subseteq Elements(recorded'[v])
<1>1. /\ evts \in [Window -> Seq(Event)] /\ recorded \in [Window -> Seq(Event)]
      /\ \A v \in Window : Left(evts[v], recorded[v])
  BY PruningLeft DEF IInv, TypeOK
<1>2. /\ evts' = [evts EXCEPT ![w] = Append(Prune(evts[w]), e)]
      /\ recorded' = [recorded EXCEPT ![w] = Append(recorded[w], e)]
  BY DEF Add
<1>3. /\ Append(Prune(evts[w]), e) \in Seq(Event)
      /\ Left(Append(Prune(evts[w]), e), Append(recorded[w], e))
  BY <1>1, LeftAdd
<1>4. /\ Append(recorded[w], e) \in Seq(Event)
      /\ Elements(Append(recorded[w], e)) = Elements(recorded[w]) \cup {e}
  BY <1>1, ElementsAppend
<1>5. /\ evts'[w] = Append(Prune(evts[w]), e) /\ recorded'[w] = Append(recorded[w], e)
      /\ \A v \in Window : v # w => evts'[v] = evts[v] /\ recorded'[v] = recorded[v]
  BY <1>1, <1>2
<1>6. evts' \in [Window -> Seq(Event)] /\ recorded' \in [Window -> Seq(Event)]
  BY <1>1, <1>2, <1>3, <1>4
<1>7. \A v \in Window : Left(evts[v], recorded[v])'
  <2> SUFFICES ASSUME NEW v \in Window PROVE Left(evts[v], recorded[v])'
    OBVIOUS
  <2>1. Left(evts'[v], recorded'[v])
    BY <1>1, <1>3, <1>5
  <2> QED BY <2>1 DEF Left, Expired
<1>8. LastAreHeld'
  BY <1>7, PruningLeft DEF LastAreHeld, Left
<1>9. \A v \in Window : Elements(recorded[v]) \subseteq Elements(recorded'[v])
  BY <1>4, <1>5
<1> QED BY <1>4, <1>5, <1>6, <1>8, <1>9

(* Steps of recorders leave the readers' invariants alone.                 *)
LEMMA ReadersKeep ==
  ASSUME IInv, UNCHANGED readerVars, recorded' \in [Window -> Seq(Event)],
         \A v \in Window : Elements(recorded[v]) \subseteq Elements(recorded'[v])
  PROVE  ReaderInv'
<1> USE DEF readerVars
<1>1. NothingCounted' /\ LiquidationsLast'
  BY DEF IInv, NothingCounted, LiquidationsLast
<1>2. TradesWithinGlobal' /\ LiquidationsWithinGlobal'
  BY DEF IInv, TradesWithinGlobal, LiquidationsWithinGlobal
<1>3. CountedWasAdded'
  BY Windows DEF IInv, CountedWasAdded, Kind
<1> QED BY <1>1, <1>2, <1>3 DEF ReaderInv

(* A recorder adds an event to the window over all.                        *)
LEMMA RecordGlobalInv ==
  ASSUME IInv, NEW s \in Source, RecordGlobal(s)
  PROVE  IInv'
<1> USE DEF windowVars, sourceVars, readerVars
<1>1. PICK kind \in Kind, key \in Key, d \in Skew :
        LET e == [id |-> Recorded + 1, kind |-> kind, key |-> key, ts |-> now + d]
        IN  event' = [event EXCEPT ![s] = e] /\ Add(<<kind, All>>, e)
  BY DEF RecordGlobal
<1> DEFINE e == [id |-> Recorded + 1, kind |-> kind, key |-> key, ts |-> now + d]
           w == <<kind, All>>
<1>2. event' = [event EXCEPT ![s] = e] /\ Add(w, e)
  BY <1>1
<1>3. /\ pc[s] = "idle" /\ pc' = [pc EXCEPT ![s] = "lookup"]
      /\ UNCHANGED <<now, windows, holds, unread, counted, cutoffs>>
  BY DEF RecordGlobal
<1>4. e \in Event /\ e.kind = kind
  <2>1. recorded[AllTrades] \in Seq(Event) /\ recorded[AllLiquidations] \in Seq(Event)
    BY Windows DEF IInv, TypeOK
  <2>2. Recorded \in Nat
    <3> DEFINE a == Len(recorded[AllTrades])
               b == Len(recorded[AllLiquidations])
    <3>1. a \in Nat /\ b \in Nat
      BY <2>1
    <3>2. Recorded = a + b
      BY DEF Recorded, AllTrades, AllLiquidations
    <3> HIDE DEF a, b
    <3>3. a + b \in Nat
      BY <3>1
    <3> QED BY Zenon, <3>2, <3>3
  <2>3. Recorded + 1 \in 1..MaxEvents
    BY <2>2 DEF RecordGlobal
  <2>4. now + d \in Int
    BY DEF IInv, TypeOK
  <2> QED BY <2>3, <2>4 DEF Event
<1>5. w \in Window
  BY Windows
<1> HIDE DEF e
<1>6. /\ evts' \in [Window -> Seq(Event)] /\ recorded' \in [Window -> Seq(Event)]
      /\ LastAreHeld'
      /\ Elements(recorded'[w]) = Elements(recorded[w]) \cup {e}
      /\ \A v \in Window : v # w => recorded'[v] = recorded[v]
      /\ \A v \in Window : Elements(recorded[v]) \subseteq Elements(recorded'[v])
  BY <1>2, <1>3, <1>4, <1>5, AddInv
<1>7. /\ pc \in [Source -> {"idle", "lookup", "add"}] /\ DOMAIN event = Source
      /\ \A x \in Source : pc[x] # "idle" => event[x] \in Event
      /\ \A x \in Source : pc[x] = "add" => <<event[x].kind, event[x].key>> \in windows
  BY DEF IInv, TypeOK
<1>8. /\ event'[s] = e /\ pc'[s] = "lookup" /\ DOMAIN event' = Source
      /\ \A x \in Source : x # s => event'[x] = event[x] /\ pc'[x] = pc[x]
      /\ pc' \in [Source -> {"idle", "lookup", "add"}]
  BY <1>2, <1>3, <1>7
<1>9. TypeOK'
  <2>1. \A x \in Source : pc'[x] # "idle" => event'[x] \in Event
    BY <1>4, <1>7, <1>8
  <2>2. \A x \in Source :
          pc'[x] = "add" => <<event'[x].kind, event'[x].key>> \in windows
    BY <1>7, <1>8
  <2> QED BY <1>3, <1>6, <1>8, <2>1, <2>2 DEF IInv, TypeOK
<1>10. \A k \in Key, x \in Kind : recorded'[<<x, k>>] = recorded[<<x, k>>]
  BY <1>6, Windows
<1>11. GlobalFirst'
  <2>1. \A x \in Kind, k \in Key :
          Elements(recorded'[<<x, k>>]) \subseteq Elements(recorded'[<<x, All>>])
    BY <1>6, <1>10, Windows DEF IInv, GlobalFirst
  <2>2. \A x \in Source : pc'[x] # "idle" =>
          event'[x] \in Elements(recorded'[<<event'[x].kind, All>>])
    <3> SUFFICES ASSUME NEW x \in Source, pc'[x] # "idle"
                 PROVE  event'[x] \in Elements(recorded'[<<event'[x].kind, All>>])
      OBVIOUS
    <3>1. CASE x = s
      BY <3>1, <1>4, <1>6, <1>8
    <3>2. CASE x # s
      <4>1. /\ event[x] \in Elements(recorded[<<event[x].kind, All>>])
            /\ event[x].kind \in Kind
        BY <3>2, <1>7, <1>8 DEF IInv, GlobalFirst, Event
      <4> QED BY <3>2, <4>1, <1>6, <1>8, Windows
    <3> QED BY <3>1, <3>2
  <2> QED BY <2>1, <2>2 DEF GlobalFirst
<1>12. AllTradesCounted'
  <2>1. \A x \in Source : pc'[x] = "add" => event'[x] = event[x] /\ pc[x] = "add"
    BY <1>8
  <2>2. \A x \in Key : recorded'[<<"trade", x>>] = recorded[<<"trade", x>>]
    BY <1>10 DEF Kind
  <2> QED BY <1>3, <2>1, <2>2 DEF IInv, AllTradesCounted, Expired
<1>13. ReaderInv'
  BY <1>3, <1>6, ReadersKeep
<1> QED BY <1>6, <1>9, <1>11, <1>12, <1>13 DEF IInv, ReaderInv

(* A recorder looks the window of its exchange up.                         *)
LEMMA LookupInv ==
  ASSUME IInv, NEW s \in Source, Lookup(s)
  PROVE  IInv'
<1> USE DEF windowVars, sourceVars, readerVars
<1>1. /\ pc[s] = "lookup" /\ holds = {}
      /\ windows' = windows \cup {<<event[s].kind, event[s].key>>}
      /\ pc' = [pc EXCEPT ![s] = "add"]
      /\ UNCHANGED <<now, evts, recorded, event, holds, unread, counted, cutoffs>>
  BY DEF Lookup
<1>2. /\ pc \in [Source -> {"idle", "lookup", "add"}]
      /\ event[s] \in Event
  BY <1>1 DEF IInv, TypeOK
<1>3. /\ pc'[s] = "add" /\ pc' \in [Source -> {"idle", "lookup", "add"}]
      /\ \A x \in Source : x # s => pc'[x] = pc[x]
  BY <1>1, <1>2
<1>4. TypeOK'
  <2>1. windows' \subseteq Kind \X Key /\ windows \subseteq windows'
    BY <1>1, <1>2 DEF IInv, TypeOK, Event
  <2>2. \A x \in Source : pc'[x] # "idle" => event'[x] \in Event
    BY <1>1, <1>3 DEF IInv, TypeOK
  <2>3. \A x \in Source :
          pc'[x] = "add" => <<event'[x].kind, event'[x].key>> \in windows'
    BY <1>1, <1>3 DEF IInv, TypeOK
  <2>4. \A r \in Reader : unread'[r] \subseteq windows' \cup (Kind \X {All})
    BY <1>1, <2>1 DEF IInv, TypeOK
  <2>5. /\ now' \in 0..MaxTime /\ evts' \in [Window -> Seq(Event)]
        /\ recorded' \in [Window -> Seq(Event)] /\ DOMAIN event' = Source
        /\ holds' \subseteq Reader /\ unread' \in [Reader -> SUBSET Window]
        /\ counted' \in [Reader -> [Window -> SUBSET Event]]
        /\ cutoffs' \in [Reader -> [Window -> Int]]
    BY <1>1 DEF IInv, TypeOK
  <2> QED BY <1>3, <2>1, <2>2, <2>3, <2>4, <2>5 DEF TypeOK
<1>5. LastAreHeld'
  BY <1>1 DEF IInv, LastAreHeld, Expired
<1>6. GlobalFirst'
  <2>1. \A x \in Source : pc'[x] # "idle" => pc[x] # "idle"
    BY <1>1, <1>3
  <2> QED BY <1>1, <2>1 DEF IInv, GlobalFirst
<1>7. AllTradesCounted'
  BY <1>1 DEF AllTradesCounted
<1>8. ReaderInv'
  BY <1>1, ReadersKeep DEF IInv, TypeOK
<1> QED BY <1>4, <1>5, <1>6, <1>7, <1>8 DEF IInv, ReaderInv

(* A recorder adds the event to the window of its exchange.                *)
LEMMA RecordKeyInv ==
  ASSUME IInv, NEW s \in Source, RecordKey(s)
  PROVE  IInv'
<1> USE DEF windowVars, sourceVars, readerVars
<1> DEFINE e == event[s]
           w == <<e.kind, e.key>>
<1>1. /\ pc[s] = "add" /\ Add(w, e) /\ pc' = [pc EXCEPT ![s] = "idle"]
      /\ event' = [event EXCEPT ![s] = None]
      /\ UNCHANGED <<now, windows, holds, unread, counted, cutoffs>>
  BY DEF RecordKey
<1>2. /\ pc \in [Source -> {"idle", "lookup", "add"}] /\ DOMAIN event = Source
      /\ e \in Event /\ e.kind \in Kind /\ e.key \in Key /\ w \in Window
  BY <1>1, Windows DEF IInv, TypeOK, Event
<1>3. /\ evts' \in [Window -> Seq(Event)] /\ recorded' \in [Window -> Seq(Event)]
      /\ LastAreHeld'
      /\ Elements(recorded'[w]) = Elements(recorded[w]) \cup {e}
      /\ \A v \in Window : v # w => recorded'[v] = recorded[v]
      /\ \A v \in Window : Elements(recorded[v]) \subseteq Elements(recorded'[v])
  BY <1>1, <1>2, AddInv
<1>4. /\ pc'[s] = "idle" /\ pc' \in [Source -> {"idle", "lookup", "add"}]
      /\ DOMAIN event' = Source
      /\ \A x \in Source : pc'[x] # "idle" => event'[x] = event[x] /\ pc'[x] = pc[x]
  BY <1>1, <1>2
<1>5. TypeOK'
  <2>1. \A x \in Source : pc'[x] # "idle" => event'[x] \in Event
    BY <1>4 DEF IInv, TypeOK
  <2>2. \A x \in Source :
          pc'[x] = "add" => <<event'[x].kind, event'[x].key>> \in windows'
    BY <1>1, <1>4 DEF IInv, TypeOK
  <2> QED BY <1>1, <1>3, <1>4, <2>1, <2>2 DEF IInv, TypeOK
<1>6. e \in Elements(recorded[<<e.kind, All>>])
  BY <1>1 DEF IInv, GlobalFirst
<1>7. \A x \in Kind : recorded'[<<x, All>>] = recorded[<<x, All>>]
  BY <1>2, <1>3, Windows
<1> HIDE DEF e
<1>8. \A x \in Kind, k \in Key : \A f \in Elements(recorded'[<<x, k>>]) :
        f \in Elements(recorded[<<x, k>>]) \/ (f = e /\ x = e.kind)
  BY <1>3, Windows
<1>9. GlobalFirst'
  <2>1. \A x \in Kind, k \in Key :
          Elements(recorded'[<<x, k>>]) \subseteq Elements(recorded'[<<x, All>>])
    BY <1>6, <1>7, <1>8 DEF IInv, GlobalFirst
  <2>2. \A x \in Source : pc'[x] # "idle" =>
          event'[x] \in Elements(recorded'[<<event'[x].kind, All>>])
    <3> SUFFICES ASSUME NEW x \in Source, pc'[x] # "idle"
                 PROVE  event'[x] \in Elements(recorded'[<<event'[x].kind, All>>])
      OBVIOUS
    <3>1. /\ event'[x] = event[x] /\ event[x].kind \in Kind
          /\ event[x] \in Elements(recorded[<<event[x].kind, All>>])
      BY <1>4 DEF IInv, TypeOK, GlobalFirst, Event
    <3> QED BY <3>1, <1>7
  <2> QED BY <2>1, <2>2 DEF GlobalFirst
<1>10. AllTradesCounted'
  <2> SUFFICES ASSUME NEW r \in holds, AllTrades \notin unread[r]
               PROVE  /\ \A k \in Key : \A f \in Elements(recorded'[<<"trade", k>>]) :
                           Expired(f) \/ f \in counted[r][AllTrades]
                      /\ \A x \in Source : pc'[x] = "add" /\ event'[x].kind = "trade" =>
                           Expired(event'[x]) \/ event'[x] \in counted[r][AllTrades]
    BY <1>1 DEF AllTradesCounted, Expired
  <2>1. /\ \A k \in Key : \A f \in Elements(recorded[<<"trade", k>>]) :
             Expired(f) \/ f \in counted[r][AllTrades]
        /\ \A x \in Source : pc[x] = "add" /\ event[x].kind = "trade" =>
             Expired(event[x]) \/ event[x] \in counted[r][AllTrades]
    BY DEF IInv, AllTradesCounted
  <2>2. e.kind = "trade" => Expired(e) \/ e \in counted[r][AllTrades]
    BY <1>1, <2>1 DEF e
  <2>3. \A k \in Key : \A f \in Elements(recorded'[<<"trade", k>>]) :
          f \in Elements(recorded[<<"trade", k>>]) \/ (f = e /\ e.kind = "trade")
    BY <1>8 DEF Kind
  <2> QED BY <1>4, <2>1, <2>2, <2>3
<1>11. ReaderInv'
  BY <1>1, <1>3, ReadersKeep
<1> QED BY <1>3, <1>5, <1>9, <1>10, <1>11 DEF IInv, ReaderInv

(* A reader takes r.mu.                                                    *)
LEMMA StartInv ==
  ASSUME IInv, NEW r \in Reader, Start(r)
  PROVE  IInv'
<1> USE DEF windowVars, sourceVars
<1>1. /\ r \notin holds /\ holds' = holds \cup {r}
      /\ unread' = [unread EXCEPT ![r] = windows \cup (Kind \X {All})]
      /\ UNCHANGED <<now, evts, recorded, windows, pc, event, counted, cutoffs>>
  BY DEF Start
<1>2. unread \in [Reader -> SUBSET Window] /\ windows \subseteq Kind \X Key
  BY DEF IInv, TypeOK
<1>3. /\ unread'[r] = windows \cup (Kind \X {All})
      /\ \A x \in Reader : x # r => unread'[x] = unread[x]
      /\ \A x \in Reader : x # r => (x \in holds' <=> x \in holds)
      /\ AllTrades \in unread'[r] /\ AllLiquidations \in unread'[r]
  BY <1>1, <1>2 DEF AllTrades, AllLiquidations, Kind
<1>4. windows \cup (Kind \X {All}) \in SUBSET Window
  BY <1>2 DEF Window
<1>5. TypeOK'
  <2>1. unread' \in [Reader -> SUBSET Window] /\ holds' \subseteq Reader
    BY <1>1, <1>2, <1>4 DEF IInv, TypeOK
  <2>2. \A x \in Reader : unread'[x] \subseteq windows \cup (Kind \X {All})
    BY <1>3 DEF IInv, TypeOK
  <2> QED BY <1>1, <2>1, <2>2 DEF IInv, TypeOK
<1>6. LastAreHeld' /\ GlobalFirst' /\ CountedWasAdded' /\ TradesWithinGlobal'
  BY <1>1 DEF IInv, LastAreHeld, GlobalFirst, CountedWasAdded,
              TradesWithinGlobal, Expired
<1>7. holds \subseteq Reader /\ holds' \subseteq Reader
  BY <1>1 DEF IInv, TypeOK
<1>8. AllTradesCounted'
  BY <1>1, <1>3, <1>7 DEF IInv, AllTradesCounted, Expired
<1>9. NothingCounted'
  BY <1>1, <1>3 DEF IInv, NothingCounted
<1>10. LiquidationsLast' /\ LiquidationsWithinGlobal'
  BY <1>1, <1>3, <1>7 DEF IInv, LiquidationsLast, LiquidationsWithinGlobal
<1> QED BY <1>5, <1>6, <1>8, <1>9, <1>10 DEF IInv

(* A reader looks at a window.                                             *)
LEMMA ReadInv ==
  ASSUME IInv, NEW r \in Reader, NEW w \in Window, Read(r, w)
  PROVE  IInv'
<1> USE DEF windowVars, sourceVars
<1>1. /\ r \in holds /\ w \in unread[r]
      /\ \A v \in unread[r] : Rank(w) <= Rank(v)
      /\ counted' = [counted EXCEPT ![r][w] = Snapshot(w)]
      /\ cutoffs' = [cutoffs EXCEPT ![r][w] = now - Width]
      /\ unread' = [unread EXCEPT ![r] = unread[r] \ {w}]
      /\ UNCHANGED <<now, evts, recorded, windows, pc, event, holds>>
  BY DEF Read
<1>2. /\ unread \in [Reader -> SUBSET Window]
      /\ counted \in [Reader -> [Window -> SUBSET Event]]
      /\ cutoffs \in [Reader -> [Window -> Int]]
      /\ holds \subseteq Reader /\ now \in Int
      /\ \A v \in Window : recorded[v] \in Seq(Event) /\ evts[v] \in Seq(Event)
  BY DEF IInv, TypeOK
<1>3. /\ unread'[r] = unread[r] \ {w} /\ unread' \in [Reader -> SUBSET Window]
      /\ \A x \in Reader : x # r => unread'[x] = unread[x]
      /\ counted'[r][w] = Snapshot(w)
      /\ \A v \in Window : v # w => counted'[r][v] = counted[r][v]
      /\ \A x \in Reader : x # r => counted'[x] = counted[x]
      /\ cutoffs'[r][w] = now - Width
      /\ \A v \in Window : v # w => cutoffs'[r][v] = cutoffs[r][v]
      /\ \A x \in Reader : x # r => cutoffs'[x] = cutoffs[x]
  BY <1>1, <1>2
<1>4. /\ Snapshot(w) \subseteq Elements(recorded[w])
      /\ \A e \in Elements(recorded[w]) : Expired(e) \/ e \in Snapshot(w)
      /\ \A e \in Snapshot(w) : ~Expired(e)
  BY <1>2, PruningLeft, LeftFresh DEF IInv, Snapshot
<1>5. Elements(recorded[w]) \subseteq Event
  BY <1>2 DEF Elements
<1>6. TypeOK'
  <2>1. Snapshot(w) \in SUBSET Event
    BY <1>4, <1>5
  <2>2. counted' \in [Reader -> [Window -> SUBSET Event]]
    BY <1>1, <1>2, <2>1
  <2>3. cutoffs' \in [Reader -> [Window -> Int]]
    BY <1>1, <1>2
  <2>4. \A x \in Reader : unread'[x] \subseteq windows \cup (Kind \X {All})
    BY <1>3 DEF IInv, TypeOK
  <2> QED BY <1>1, <1>3, <2>2, <2>3, <2>4 DEF IInv, TypeOK
<1>7. LastAreHeld' /\ GlobalFirst'
  BY <1>1 DEF IInv, LastAreHeld, GlobalFirst, Expired
<1>8. \A v \in unread[r] : v \in Window /\ (v = AllTrades => w = AllTrades)
  BY <1>1, <1>2 DEF Rank, AllTrades, Window, Kind
<1>9. AllTradesCounted'
  <2> SUFFICES ASSUME NEW x \in holds, AllTrades \notin unread'[x]
               PROVE  /\ \A k \in Key : \A e \in Elements(recorded[<<"trade", k>>]) :
                           Expired(e) \/ e \in counted'[x][AllTrades]
                      /\ \A s \in Source : pc[s] = "add" /\ event[s].kind = "trade" =>
                           Expired(event[s]) \/ event[s] \in counted'[x][AllTrades]
    BY <1>1 DEF AllTradesCounted, Expired
  <2>1. CASE x = r /\ w = AllTrades
    <3>1. \A e \in Elements(recorded[AllTrades]) :
            Expired(e) \/ e \in counted'[x][AllTrades]
      BY <2>1, <1>3, <1>4
    <3>2. \A k \in Key :
            Elements(recorded[<<"trade", k>>]) \subseteq Elements(recorded[AllTrades])
      BY DEF IInv, GlobalFirst, Kind, AllTrades
    <3>3. \A s \in Source : pc[s] = "add" /\ event[s].kind = "trade" =>
            event[s] \in Elements(recorded[AllTrades])
      BY DEF IInv, GlobalFirst, AllTrades
    <3> QED BY <3>1, <3>2, <3>3
  <2>2. CASE ~(x = r /\ w = AllTrades)
    <3>1. AllTrades \notin unread[x]
      BY <2>2, <1>2, <1>3
    <3>2. counted'[x][AllTrades] = counted[x][AllTrades]
      BY <2>2, <1>2, <1>3, Windows
    <3> QED BY <3>1, <3>2 DEF IInv, AllTradesCounted
  <2> QED BY <2>1, <2>2
<1>10. NothingCounted'
  <2> SUFFICES ASSUME NEW x \in Reader
               PROVE  /\ x \notin holds \/ AllTrades \in unread'[x] =>
                           \A k \in Key : counted'[x][<<"trade", k>>] = {}
                      /\ x \notin holds =>
                           \A k \in Key : counted'[x][<<"liquidation", k>>] = {}
    BY <1>1 DEF NothingCounted
  <2>1. CASE x = r
    <3>1. AllTrades \in unread'[r] => AllTrades \in unread[r] /\ w # AllTrades
      BY <1>3
    <3>2. AllTrades \notin unread'[r]
      BY <3>1, <1>8
    <3> QED BY <2>1, <3>2, <1>1
  <2>2. CASE x # r
    BY <2>2, <1>3 DEF IInv, NothingCounted
  <2> QED BY <2>1, <2>2
<1>11. CountedWasAdded'
  <2> SUFFICES ASSUME NEW x \in Reader, NEW k \in Key
               PROVE  counted'[x][<<"liquidation", k>>]
                        \subseteq Elements(recorded[<<"liquidation", k>>])
    BY <1>1 DEF CountedWasAdded
  <2>1. <<"liquidation", k>> \in Window
    BY Windows DEF Kind
  <2> QED BY <2>1, <1>3, <1>4 DEF IInv, CountedWasAdded
<1>12. LiquidationsLast'
  <2> SUFFICES ASSUME NEW x \in holds, AllLiquidations \notin unread'[x]
               PROVE  unread'[x] = {}
    BY <1>1 DEF LiquidationsLast
  <2>1. CASE x = r /\ w = AllLiquidations
    <3>1. \A v \in unread[r] : v = AllLiquidations
      BY <2>1, <1>1, <1>2 DEF Rank, AllLiquidations, Window, Kind
    <3> QED BY <2>1, <3>1, <1>3
  <2>2. CASE ~(x = r /\ w = AllLiquidations)
    <3>1. AllLiquidations \notin unread[x]
      BY <2>2, <1>2, <1>3
    <3>2. unread[x] = {}
      BY <3>1 DEF IInv, LiquidationsLast
    <3> QED BY <3>2, <1>2, <1>3
  <2> QED BY <2>1, <2>2
<1>13. TradesWithinGlobal'
  <2> SUFFICES ASSUME NEW x \in Reader, NEW k \in Key
               PROVE  counted'[x][<<"trade", k>>] \subseteq counted'[x][AllTrades]
    BY DEF TradesWithinGlobal, AllTrades
  <2>1. counted[x][<<"trade", k>>] \subseteq counted[x][AllTrades]
    BY DEF IInv, TradesWithinGlobal, AllTrades
  <2>2. <<"trade", k>> \in Window /\ <<"trade", k>> # AllTrades /\ AllTrades \in Window
    BY Windows DEF Kind, AllTrades
  <2>3. CASE x # r
    BY <2>1, <2>3, <1>3
  <2>4. CASE x = r /\ w = AllTrades
    <3>1. counted[r][<<"trade", k>>] = {}
      BY <2>4, <1>1 DEF IInv, NothingCounted
    <3> QED BY <2>2, <2>4, <3>1, <1>3
  <2>5. CASE x = r /\ w = <<"trade", k>>
    <3>1. AllTrades \notin unread[r]
      BY <2>2, <2>5, <1>8
    <3>2. \A e \in Elements(recorded[w]) : Expired(e) \/ e \in counted[r][AllTrades]
      BY <2>5, <3>1, <1>1 DEF IInv, AllTradesCounted
    <3>3. Snapshot(w) \subseteq counted[r][AllTrades]
      BY <3>2, <1>4
    <3> QED BY <2>2, <2>5, <3>3, <1>3
  <2>6. CASE x = r /\ w # AllTrades /\ w # <<"trade", k>>
    BY <2>1, <2>2, <2>6, <1>3
  <2> QED BY <2>3, <2>4, <2>5, <2>6
<1>14. LiquidationsWithinGlobal'
  <2> SUFFICES ASSUME NEW x \in Reader, NEW k \in Key, x \in holds, unread'[x] = {},
                      NEW e \in counted'[x][<<"liquidation", k>>]
               PROVE  \/ e \in counted'[x][AllLiquidations]
                      \/ e.ts < cutoffs'[x][AllLiquidations]
    BY <1>1 DEF LiquidationsWithinGlobal, AllLiquidations
  <2>1. /\ <<"liquidation", k>> \in Window /\ <<"liquidation", k>> # AllLiquidations
        /\ AllLiquidations \in Window
    BY Windows DEF Kind, AllLiquidations
  <2>2. CASE x # r
    BY <2>2, <1>3 DEF IInv, LiquidationsWithinGlobal, AllLiquidations
  <2>3. CASE x = r
    <3>1. w = AllLiquidations
      BY <2>3, <1>1, <1>3 DEF IInv, LiquidationsLast
    <3>2. e \in counted[r][<<"liquidation", k>>]
      BY <2>1, <2>3, <3>1, <1>3
    <3>3. e \in Elements(recorded[<<"liquidation", k>>])
      BY <3>2 DEF IInv, CountedWasAdded
    <3>4. e \in Elements(recorded[AllLiquidations])
      BY <3>3 DEF IInv, GlobalFirst, Kind, AllLiquidations
    <3>5. Expired(e) \/ e \in Snapshot(w)
      BY <3>1, <3>4, <1>4
    <3> QED BY <2>3, <3>1, <3>5, <1>3 DEF Expired
  <2> QED BY <2>2, <2>3
<1> QED BY <1>6, <1>7, <1>9, <1>10, <1>11, <1>12, <1>13, <1>14 DEF IInv

(* A reader gives r.mu back.                                               *)
LEMMA ReturnInv ==
  ASSUME IInv, NEW r \in Reader, Return(r)
  PROVE  IInv'
<1> USE DEF windowVars, sourceVars
<1>1. /\ holds' = holds \ {r}
      /\ counted' = [counted EXCEPT ![r] = [w \in Window |-> {}]]
      /\ cutoffs' = [cutoffs EXCEPT ![r] = [w \in Window |-> 0]]
      /\ UNCHANGED <<now, evts, recorded, windows, pc, event, unread>>
  BY DEF Return
<1>2. /\ counted \in [Reader -> [Window -> SUBSET Event]]
      /\ cutoffs \in [Reader -> [Window -> Int]] /\ holds \subseteq Reader
  BY DEF IInv, TypeOK
<1>3. /\ \A w \in Window : counted'[r][w] = {}
      /\ \A x \in Reader : x # r => counted'[x] = counted[x] /\ cutoffs'[x] = cutoffs[x]
      /\ \A x \in holds' : x \in holds /\ x # r /\ x \in Reader
      /\ \A x \in Reader : x # r => (x \in holds' <=> x \in holds)
  BY <1>1, <1>2
<1>4. TypeOK'
  <2>1. /\ counted' \in [Reader -> [Window -> SUBSET Event]]
        /\ cutoffs' \in [Reader -> [Window -> Int]] /\ holds' \subseteq Reader
    BY <1>1, <1>2
  <2> QED BY <1>1, <2>1 DEF IInv, TypeOK
<1>5. LastAreHeld' /\ GlobalFirst'
  BY <1>1 DEF IInv, LastAreHeld, GlobalFirst, Expired
<1>6. AllTradesCounted' /\ LiquidationsLast'
  BY <1>1, <1>3 DEF IInv, AllTradesCounted, LiquidationsLast, Expired
<1>7. \A k \in Key : counted'[r][<<"trade", k>>] = {} /\ counted'[r][<<"liquidation", k>>] = {}
  BY <1>3, Windows DEF Kind
<1>8. NothingCounted'
  BY <1>1, <1>3, <1>7 DEF IInv, NothingCounted
<1>9. CountedWasAdded'
  BY <1>1, <1>3, <1>7 DEF IInv, CountedWasAdded
<1>10. TradesWithinGlobal'
  BY <1>3, <1>7 DEF IInv, TradesWithinGlobal
<1>11. LiquidationsWithinGlobal'
  BY <1>1, <1>3, <1>7 DEF IInv, LiquidationsWithinGlobal
<1> QED BY <1>4, <1>5, <1>6, <1>8, <1>9, <1>10, <1>11 DEF IInv

(* Time passes: what was expired stays so.                                 *)
LEMMA TickInv == ASSUME IInv, Tick PROVE IInv'
<1> USE DEF windowVars, sourceVars, readerVars
<1>1. /\ now < MaxTime /\ now' = now + 1 /\ now \in 0..MaxTime
      /\ UNCHANGED <<evts, recorded, windows, pc, event, holds, unread, counted, cutoffs>>
  BY DEF Tick, IInv, TypeOK
<1>2. ASSUME NEW e \in Event, Expired(e) PROVE Expired(e)'
  <2>1. e.ts \in Int
    BY DEF Event
  <2> QED BY <1>1, <1>2, <2>1 DEF Expired
<1>3. /\ \A w \in Window : recorded[w] \in Seq(Event) /\ evts[w] \in Seq(Event)
      /\ \A w \in Window : Elements(recorded[w]) \subseteq Event
  BY DEF IInv, TypeOK, Elements
<1>4. TypeOK'
  BY <1>1 DEF IInv, TypeOK
<1>5. LastAreHeld'
  <2> SUFFICES ASSUME NEW w \in Window PROVE Left(evts[w], recorded[w])'
    BY DEF LastAreHeld, Left
  <2>1. Left(evts[w], recorded[w])
    BY PruningLeft DEF IInv
  <2>2. Len(recorded[w]) \in Nat /\ Len(evts[w]) \in Nat
    BY <1>3
  <2>3. \A i \in 1..(Len(recorded[w]) - Len(evts[w])) : recorded[w][i] \in Event
    BY <1>3, <2>2
  <2>4. \A i \in 1..(Len(recorded[w]) - Len(evts[w])) : Expired(recorded[w][i])'
    BY <1>1, <1>2, <2>1, <2>3 DEF Left
  <2> QED BY <1>1, <2>1, <2>4 DEF Left
<1>6. GlobalFirst' /\ ReaderInv'
  BY <1>1 DEF IInv, GlobalFirst, ReaderInv, NothingCounted, CountedWasAdded,
              LiquidationsLast, TradesWithinGlobal, LiquidationsWithinGlobal
<1>7. AllTradesCounted'
  <2> SUFFICES ASSUME NEW r \in holds, AllTrades \notin unread[r]
               PROVE  /\ \A k \in Key : \A e \in Elements(recorded[<<"trade", k>>]) :
                           Expired(e)' \/ e \in counted[r][AllTrades]
                      /\ \A s \in Source : pc[s] = "add" /\ event[s].kind = "trade" =>
                           Expired(event[s])' \/ event[s] \in counted[r][AllTrades]
    BY <1>1 DEF AllTradesCounted, Expired
  <2>1. \A k \in Key : Elements(recorded[<<"trade", k>>]) \subseteq Event
    BY <1>3, Windows DEF Kind
  <2>2. \A k \in Key : \A e \in Elements(recorded[<<"trade", k>>]) :
          Expired(e)' \/ e \in counted[r][AllTrades]
    BY <1>1, <1>2, <2>1 DEF IInv, AllTradesCounted
  <2>3. ASSUME NEW s \in Source, pc[s] = "add", event[s].kind = "trade"
        PROVE  Expired(event[s])' \/ event[s] \in counted[r][AllTrades]
    <3>1. event[s] \in Event /\ event[s].ts \in Int
      BY <2>3 DEF IInv, TypeOK, Event
    <3>2. Expired(event[s]) \/ event[s] \in counted[r][AllTrades]
      BY <2>3 DEF IInv, AllTradesCounted
    <3>3. Expired(event[s]) => Expired(event[s])'
      BY <1>1, <3>1 DEF Expired
    <3> QED BY <3>2, <3>3
  <2> QED BY <2>2, <2>3
<1> QED BY <1>4, <1>5, <1>6, <1>7 DEF IInv, ReaderInv

(* Nothing happens.                                                        *)
LEMMA StutterInv == ASSUME IInv, UNCHANGED vars PROVE IInv'
BY DEF IInv, vars, windowVars, sourceVars, readerVars, TypeOK, LastAreHeld,
       GlobalFirst, AllTradesCounted, NothingCounted, CountedWasAdded,
       LiquidationsLast, TradesWithinGlobal, LiquidationsWithinGlobal, Expired

(* Every step keeps the invariant.                                         *)
LEMMA NextInv == IInv /\ [Next]_vars => IInv'
<1> SUFFICES ASSUME IInv, [Next]_vars PROVE IInv'
  OBVIOUS
<1>1. ASSUME NEW s \in Source, RecordGlobal(s) \/ Lookup(s) \/ RecordKey(s)
      PROVE  IInv'
  BY <1>1, RecordGlobalInv, LookupInv, RecordKeyInv
<1>2. ASSUME NEW r \in Reader,
             Start(r) \/ (\E w \in Window : Read(r, w)) \/ Return(r)
      PROVE  IInv'
  BY <1>2, StartInv, ReadInv, ReturnInv
<1> QED BY <1>1, <1>2, TickInv, StutterInv DEF Next

(* The inductive invariant holds whatever recorders and readers do.        *)
THEOREM Invariance == Spec => []IInv
BY InitInv, NextInv, PTL DEF Spec

(* Windows, recorders and readers have their types, and an event is added  *)
(* to the window of an exchange only when the registry has it.             *)
THEOREM TypeCorrect == Spec => []TypeOK
<1>1. IInv => TypeOK
  BY DEF IInv
<1> QED BY Invariance, <1>1, PTL

(* A snapshot leaves out the expired events that are still held, and those *)
(* that are held no more were expired.                                     *)
LEMMA SnapshotsExact ==
  ASSUME TypeOK, LastAreHeld
  PROVE  SnapshotsAreExact
<1> SUFFICES ASSUME NEW w \in Window
             PROVE  Snapshot(w) = {e \in Elements(recorded[w]) : ~Expired(e)}
  BY DEF SnapshotsAreExact
<1>1. evts[w] \in Seq(Event) /\ recorded[w] \in Seq(Event) /\ Left(evts[w], recorded[w])
  BY PruningLeft DEF TypeOK
<1>2. /\ Elements(evts[w]) \subseteq Elements(recorded[w])
      /\ \A e \in Elements(recorded[w]) : Expired(e) \/ e \in Elements(evts[w])
  BY <1>1, LeftFresh
<1> QED
  BY <1>2 DEF Snapshot

(* For stamps in any order, what Prune drops no Snapshot would count: the  *)
(* loop that stops at the first event that is not expired is enough.       *)
THEOREM PruningInvisible == Spec => []PruningIsInvisible
<1>1. IInv => PruningIsInvisible
  BY SnapshotsExact DEF IInv, PruningIsInvisible
<1> QED BY Invariance, <1>1, PTL

(* Any number of recorders and readers: the trades SnapshotAll counts for  *)
(* an exchange are among those it counts for all.                          *)
THEOREM TradesCounted == Spec => []TradesWithinGlobal
<1>1. IInv => TradesWithinGlobal
  BY DEF IInv
<1> QED BY Invariance, <1>1, PTL

(* The same of liquidations, but for those that expired since.             *)
THEOREM LiquidationsCounted == Spec => []LiquidationsWithinGlobal
<1>1. IInv => LiquidationsWithinGlobal
  BY DEF IInv
<1> QED BY Invariance, <1>1, PTL

(* What SnapshotAll counts for an exchange it counts for all, trades and   *)
(* liquidations alike.                                                     *)
THEOREM CountedWithinGlobal == Spec => []WithinGlobal
<1>1. TradesWithinGlobal /\ LiquidationsWithinGlobal => WithinGlobal
  BY DEF WithinGlobal
<1> QED BY TradesCounted, LiquidationsCounted, <1>1, PTL
=============================================================================
