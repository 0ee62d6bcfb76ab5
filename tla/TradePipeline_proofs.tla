------------------------ MODULE TradePipeline_proofs ------------------------
(***************************************************************************)
(* Proofs about TradePipeline, for every set of sources, every number of   *)
(* events and every capacity.                                              *)
(***************************************************************************)
EXTENDS TradePipeline, SequenceTheorems, FunctionTheorems, FiniteSetTheorems, TLAPS

USE PipelineAssumption DEF PipelineAssumption

-----------------------------------------------------------------------------
(* Facts about the operators of the model.                                 *)

(* A ring that had one more event pushed is a sequence of events.          *)
LEMMA PushedType ==
  ASSUME ring \in Seq(Event), NEW e \in Event
  PROVE  Ring!Pushed(e) \in Seq(Event) /\ Len(Ring!Pushed(e)) <= RingCapacity
<1> DEFINE n == IF Len(ring) + 1 < RingCapacity THEN Len(ring) + 1 ELSE RingCapacity
<1>1. n \in Nat
  OBVIOUS
<1>2. \A i \in 1..n : (IF i = 1 THEN e ELSE ring[i - 1]) \in Event
  <2> TAKE i \in 1..n
  <2>1. CASE i = 1
    BY <2>1
  <2>2. CASE i # 1
    <3>1. i - 1 \in 1..Len(ring)
      BY <2>2
    <3>2. QED
      BY <3>1, <2>2, ElementOfSeq
  <2>3. QED
    BY <2>1, <2>2
<1>3. Ring!Pushed(e) = [i \in 1..n |-> IF i = 1 THEN e ELSE ring[i - 1]]
  BY DEF Ring!Pushed, Ring!Smaller
<1>4. Ring!Pushed(e) \in Seq(Event)
  BY <1>1, <1>2, <1>3, SeqDef
<1>5. Len(Ring!Pushed(e)) = n
  BY <1>1, <1>3
<1>6. QED
  BY <1>4, <1>5

(* What one call inserts is a prefix of the slice that flushAll holds, and *)
(* the rest of the slice is what remains after it.                         *)
LEMMA ChunkSplitsSlice ==
  ASSUME TypeOK, taken[flushKind] # <<>>
  PROVE  /\ Chunk \in Seq(Event)
         /\ Len(Chunk) > 0
         /\ AfterChunk \in Seq(Event)
         /\ taken[flushKind] = Chunk \o AfterChunk
         /\ flushKind = "trade" => AfterChunk = <<>>
<1> DEFINE slice == taken[flushKind]
<1>1. slice \in Seq(Event) /\ Len(slice) \in Nat \ {0}
  BY EmptySeq, LenProperties DEF TypeOK
<1>2. CASE flushKind = "trade"
  <2>1. Chunk = slice
    BY <1>2 DEF Chunk
  <2>2. AfterChunk = <<>>
    BY <1>1, <2>1, SubSeqEmpty DEF AfterChunk
  <2>3. QED
    BY <1>1, <1>2, <2>1, <2>2, ConcatEmptySeq, EmptySeq
<1>3. CASE flushKind = "liquidation"
  <2>1. Chunk = <<slice[1]>> /\ Len(Chunk) = 1 /\ slice[1] \in Event
    BY <1>1, <1>3, ElementOfSeq DEF Chunk
  <2>2. Chunk \in Seq(Event)
    BY <2>1
  <2>3. AfterChunk = SubSeq(slice, 2, Len(slice))
    BY <2>1 DEF AfterChunk
  <2>4. AfterChunk \in Seq(Event)
    BY <1>1, <2>3, SubSeqProperties, ElementOfSeq
  <2>5. SubSeq(slice, 1, Len(slice)) = <<slice[1]>> \o SubSeq(slice, 2, Len(slice))
    BY <1>1, SubSeqRecursiveFirst
  <2>6. slice = Chunk \o AfterChunk
    BY <1>1, <2>1, <2>3, <2>5, SubSeqFull
  <2>7. QED
    BY <1>3, <2>1, <2>2, <2>4, <2>6
<1>4. QED
  BY <1>2, <1>3 DEF TypeOK, Kind

(* An event of a source is an event of the model.                          *)
LEMMA EventRange ==
  ASSUME NEW s \in Source, NEW n \in 0..EventsOf[s], NEW k \in Kind
  PROVE  [src |-> s, seq |-> n, kind |-> k] \in Event
BY DEF Event

LEMMA EventFields ==
  ASSUME NEW e \in Event
  PROVE  e.src \in Source /\ e.seq \in 0..EventsOf[e.src] /\ e.kind \in Kind
BY DEF Event

(* Concatenation of sequences of events.                                   *)
LEMMA EventConcat ==
  ASSUME NEW s \in Seq(Event), NEW t \in Seq(Event)
  PROVE  s \o t \in Seq(Event)
BY ConcatProperties

LEMMA EventConcatEmpty ==
  ASSUME NEW s \in Seq(Event)
  PROVE  s \o <<>> = s /\ <<>> \o s = s
BY ConcatEmptySeq

LEMMA EventAssociative ==
  \A s, t, u \in Seq(Event) : (s \o t) \o u = s \o (t \o u)
<1>1. ASSUME NEW s \in Seq(Event), NEW t \in Seq(Event), NEW u \in Seq(Event)
      PROVE  (s \o t) \o u = s \o (t \o u)
  BY ConcatAssociative
<1>2. QED
  BY <1>1

LEMMA EventAppend ==
  ASSUME NEW s \in Seq(Event), NEW e \in Event
  PROVE  <<e>> \in Seq(Event) /\ Append(s, e) = s \o <<e>>
<1>1. <<e>> \in Seq(Event)
  OBVIOUS
<1>2. QED
  BY <1>1, AppendIsConcat

(* Appending to the buffer appends to the whole log.                       *)
LEMMA AppendKeepsLog ==
  ASSUME NEW c \in Seq(Event), NEW t \in Seq(Event), NEW b \in Seq(Event),
         NEW e \in Event
  PROVE  Append(c \o (t \o b), e) = c \o (t \o Append(b, e))
<1> DEFINE last == <<e>>
           tb == t \o b
<1>1. last \in Seq(Event) /\ Append(b, e) = b \o last
  BY EventAppend
<1>2. tb \in Seq(Event)
  BY EventConcat
<1>3. c \o tb \in Seq(Event)
  BY <1>2, EventConcat
<1>4. Append(c \o tb, e) = (c \o tb) \o last
  BY <1>3, EventAppend
<1>5. (c \o tb) \o last = c \o (tb \o last)
  <2> HIDE DEF tb, last
  <2> QED
    BY <1>1, <1>2, EventAssociative, Zenon
<1>6. tb \o last = t \o (b \o last)
  <2> HIDE DEF last
  <2> QED
    BY <1>1, EventAssociative, Zenon
<1>7. QED
  BY <1>1, <1>4, <1>5, <1>6

(* Moving the front of the slice to the confirmed events keeps the log.    *)
LEMMA ChunkKeepsLog ==
  \A c, x, y, b \in Seq(Event) :
    c \o ((x \o y) \o b) = (c \o x) \o (y \o b)
<1> TAKE c, x, y, b \in Seq(Event)
<1> DEFINE yb == y \o b
<1>1. yb \in Seq(Event)
  BY EventConcat
<1>2. (x \o y) \o b = x \o yb
  BY EventAssociative, Zenon
<1>3. c \o (x \o yb) = (c \o x) \o yb
  <2> HIDE DEF yb
  <2> QED
    BY <1>1, EventAssociative, ZenonT(20)
<1>4. QED
  BY <1>2, <1>3

-----------------------------------------------------------------------------
(* Type correctness, with the slices of flushAll.                          *)

LEMMA InitTyped == Init => TypeOK /\ SliceHeld
<1> SUFFICES ASSUME Init PROVE TypeOK /\ SliceHeld
  OBVIOUS
<1>1. <<>> \in Seq(Event) /\ Len(<<>>) = 0
  BY EmptySeq
<1>2. current \in [Source -> Event] /\ \A s \in Source : current[s].src = s
  <2>1. ASSUME NEW s \in Source
        PROVE  [src |-> s, seq |-> 0, kind |-> "trade"] \in Event
    <3>1. 0 \in 0..EventsOf[s] /\ "trade" \in Kind
      BY DEF Kind
    <3>2. QED
      BY <3>1, EventRange
  <2>2. QED
    BY <2>1 DEF Init
<1>3. TypeOK
  <2>1. /\ at \in [Source -> {"reading", "push", "append", "record", "offer", "exited"}]
        /\ recorded \in [Source -> Nat]
        /\ flushKind \in Kind
        /\ lostAcks \in 0..MaxLostAcks
    BY DEF Init, Kind
  <2>2. /\ buf \in [Kind -> Seq(Event)]
        /\ taken \in [Kind -> Seq(Event)]
        /\ accepted \in [Kind -> Seq(Event)]
        /\ confirmed \in [Kind -> Seq(Event)]
        /\ rows \in [Kind -> Seq(Event)]
    BY <1>1 DEF Init
  <2>3. /\ ring \in Seq(Event) /\ Len(ring) <= RingCapacity
        /\ broadcast \in Seq(Event) /\ Len(broadcast) <= BroadcastCapacity
    BY <1>1 DEF Init
  <2>4. QED
    BY <1>2, <2>1, <2>2, <2>3 DEF Init, TypeOK
<1>4. SliceHeld
  BY DEF Init, SliceHeld, Kind, Holding
<1>5. QED
  BY <1>3, <1>4

LEMMA StepTyped == TypeOK /\ SliceHeld /\ [Next]_vars => TypeOK' /\ SliceHeld'
<1> SUFFICES ASSUME TypeOK, SliceHeld, [Next]_vars PROVE TypeOK' /\ SliceHeld'
  OBVIOUS
<1> USE DEF sourceVars, flushVars, storeVars
<1>1. ASSUME NEW s \in Source, Receive(s) PROVE TypeOK' /\ SliceHeld'
  <2>1. current' \in [Source -> Event] /\ \A t \in Source : current'[t].src = t
    <3>1. PICK k \in Kind :
            current' = [current EXCEPT ![s] =
                          [src |-> s, seq |-> current[s].seq + 1, kind |-> k]]
      BY <1>1 DEF Receive
    <3>2. current[s].seq + 1 \in 0..EventsOf[s]
      <4>1. current[s] \in Event /\ current[s].src = s
        BY DEF TypeOK
      <4>2. current[s].seq \in 0..EventsOf[s]
        BY <4>1, EventFields
      <4>3. current[s].seq < EventsOf[s]
        BY <1>1 DEF Receive
      <4>4. QED
        BY <4>2, <4>3
    <3>3. [src |-> s, seq |-> current[s].seq + 1, kind |-> k] \in Event
      BY <3>2, EventRange
    <3>4. QED
      BY <3>1, <3>3 DEF TypeOK
  <2>2. QED
    BY <1>1, <2>1 DEF Receive, TypeOK, SliceHeld
<1>2. ASSUME NEW s \in Source, PushRing(s) PROVE TypeOK' /\ SliceHeld'
  <2>1. ring' \in Seq(Event) /\ Len(ring') <= RingCapacity
    BY <1>2, PushedType DEF PushRing, Ring!Push, TypeOK
  <2>2. QED
    BY <1>2, <2>1 DEF PushRing, TypeOK, SliceHeld
<1>3. ASSUME NEW s \in Source, AppendBuffer(s) PROVE TypeOK' /\ SliceHeld'
  <2>1. current[s] \in Event /\ current[s].kind \in Kind
    <3>1. current[s] \in Event
      BY DEF TypeOK
    <3>2. QED
      BY <3>1, EventFields
  <2>2. buf' \in [Kind -> Seq(Event)] /\ accepted' \in [Kind -> Seq(Event)]
    <3>1. \A q \in Seq(Event) : Append(q, current[s]) \in Seq(Event)
      BY <2>1, AppendProperties
    <3>2. buf \in [Kind -> Seq(Event)] /\ accepted \in [Kind -> Seq(Event)]
      BY DEF TypeOK
    <3>3. /\ buf' = [buf EXCEPT ![current[s].kind] = Append(@, current[s])]
          /\ accepted' = [accepted EXCEPT ![current[s].kind] = Append(@, current[s])]
      BY <1>3 DEF AppendBuffer
    <3>4. QED
      BY <2>1, <3>1, <3>2, <3>3
  <2>3. QED
    BY <1>3, <2>2 DEF AppendBuffer, TypeOK, SliceHeld
<1>4. ASSUME NEW s \in Source, RecordMetrics(s) PROVE TypeOK' /\ SliceHeld'
  <2>1. current[s].seq \in Nat
    BY EventFields DEF TypeOK
  <2>2. QED
    BY <1>4, <2>1 DEF RecordMetrics, TypeOK, SliceHeld
<1>5. ASSUME NEW s \in Source, OfferBroadcast(s) PROVE TypeOK' /\ SliceHeld'
  <2>1. broadcast' \in Seq(Event) /\ Len(broadcast') <= BroadcastCapacity
    BY <1>5, AppendProperties, LenProperties DEF OfferBroadcast, TypeOK
  <2>2. QED
    BY <1>5, <2>1 DEF OfferBroadcast, TypeOK, SliceHeld
<1>6. ASSUME NEW s \in Source, Leave(s) PROVE TypeOK' /\ SliceHeld'
  BY <1>6 DEF Leave, TypeOK, SliceHeld
<1>7. CASE DrainBroadcast
  <2>1. broadcast' \in Seq(Event) /\ Len(broadcast') <= BroadcastCapacity
    BY <1>7, HeadTailProperties, LenProperties DEF DrainBroadcast, TypeOK
  <2>2. QED
    BY <1>7, <2>1 DEF DrainBroadcast, TypeOK, SliceHeld
<1>8. CASE TickerFires
  BY <1>8 DEF TickerFires, TypeOK, SliceHeld
<1>9. CASE WakeOnTick
  BY <1>9 DEF WakeOnTick, TypeOK, SliceHeld, Kind, Holding
<1>10. CASE WakeOnDone
  BY <1>10 DEF WakeOnDone, TypeOK, SliceHeld, Kind, Holding
<1>11. CASE TakeBuffer
  <2>1. buf' \in [Kind -> Seq(Event)] /\ taken' \in [Kind -> Seq(Event)]
    BY <1>11, EmptySeq DEF TakeBuffer, TypeOK
  <2>2. TypeOK'
    BY <1>11, <2>1 DEF TakeBuffer, FinishHalf, TypeOK, Kind
  <2>3. SliceHeld'
    BY <1>11 DEF TakeBuffer, FinishHalf, TypeOK, SliceHeld, Kind, Holding
  <2>4. QED
    BY <2>2, <2>3
<1>12. CASE AcquireConnection
  BY <1>12 DEF AcquireConnection, TypeOK, SliceHeld, Holding
<1>13. CASE InsertSucceeds
  <2>1. /\ Chunk \in Seq(Event) /\ AfterChunk \in Seq(Event)
        /\ flushKind = "trade" => AfterChunk = <<>>
    BY <1>13, ChunkSplitsSlice DEF InsertSucceeds, SliceHeld, Holding
  <2>2. /\ rows' \in [Kind -> Seq(Event)]
        /\ confirmed' \in [Kind -> Seq(Event)]
        /\ taken' \in [Kind -> Seq(Event)]
    BY <1>13, <2>1, ConcatProperties DEF InsertSucceeds, Stored, TypeOK
  <2>3. TypeOK'
    BY <1>13, <2>2 DEF InsertSucceeds, FinishHalf, TypeOK, Kind
  <2>4. SliceHeld'
    BY <1>13, <2>1 DEF InsertSucceeds, FinishHalf, TypeOK, SliceHeld, Kind, Holding
  <2>5. QED
    BY <2>3, <2>4
<1>14. CASE InsertFails
  BY <1>14 DEF InsertFails, TypeOK, SliceHeld, Holding
<1>15. CASE InsertUnacknowledged
  <2>1. Chunk \in Seq(Event)
    BY <1>15, ChunkSplitsSlice DEF InsertUnacknowledged, SliceHeld, Holding
  <2>2. rows' \in [Kind -> Seq(Event)]
    BY <1>15, <2>1, ConcatProperties DEF InsertUnacknowledged, Stored, TypeOK
  <2>3. QED
    BY <1>15, <2>2 DEF InsertUnacknowledged, TypeOK, SliceHeld, Holding
<1>16. CASE Requeue
  <2>1. buf' \in [Kind -> Seq(Event)] /\ taken' \in [Kind -> Seq(Event)]
    BY <1>16, ConcatProperties, EmptySeq DEF Requeue, TypeOK
  <2>2. TypeOK'
    BY <1>16, <2>1 DEF Requeue, FinishHalf, TypeOK, Kind
  <2>3. SliceHeld'
    BY <1>16 DEF Requeue, FinishHalf, TypeOK, SliceHeld, Kind, Holding
  <2>4. QED
    BY <2>2, <2>3
<1>17. CASE Cancel
  BY <1>17 DEF Cancel, TypeOK, SliceHeld
<1>18. CASE StopReturns
  BY <1>18 DEF StopReturns, TypeOK, SliceHeld
<1>19. CASE DatabaseChanges
  BY <1>19 DEF DatabaseChanges, TypeOK, SliceHeld
<1>20. CASE UNCHANGED vars
  BY <1>20 DEF vars, TypeOK, SliceHeld
<1>21. QED
  BY <1>1, <1>2, <1>3, <1>4, <1>5, <1>6, <1>7, <1>8, <1>9, <1>10, <1>11, <1>12,
     <1>13, <1>14, <1>15, <1>16, <1>17, <1>18, <1>19, <1>20
     DEF Next, Handle, FlushStep

(* Every variable keeps its type, and flushAll holds a slice exactly while *)
(* it inserts or puts back (hub.go, flushAll).                             *)
THEOREM TypeCorrect == Spec => [](TypeOK /\ SliceHeld)
<1>1. Init => TypeOK /\ SliceHeld
  BY InitTyped
<1>2. (TypeOK /\ SliceHeld) /\ [Next]_vars => (TypeOK /\ SliceHeld)'
  BY StepTyped
<1>3. QED
  BY <1>1, <1>2, PTL DEF Spec

-----------------------------------------------------------------------------
(* Conservation: confirmed \o taken \o buf = accepted.                     *)

LEMMA InitConserved == Init => Conserved
<1> SUFFICES ASSUME Init, NEW k \in Kind
             PROVE  accepted[k] = confirmed[k] \o (taken[k] \o buf[k])
  BY DEF Conserved
<1>1. accepted[k] = <<>> /\ confirmed[k] = <<>> /\ taken[k] = <<>> /\ buf[k] = <<>>
  BY DEF Init
<1>2. <<>> \o <<>> = <<>>
  BY EmptySeq, EventConcatEmpty
<1>3. QED
  BY <1>1, <1>2

LEMMA StepConserved ==
  TypeOK /\ SliceHeld /\ Conserved /\ [Next]_vars => Conserved'
<1> SUFFICES ASSUME TypeOK, SliceHeld, Conserved, [Next]_vars, NEW k \in Kind
             PROVE  (accepted[k] = confirmed[k] \o (taken[k] \o buf[k]))'
  BY DEF Conserved
<1> USE DEF sourceVars, flushVars, storeVars
<1> DEFINE Goal == accepted'[k] = confirmed'[k] \o (taken'[k] \o buf'[k])
<1>1. accepted[k] = confirmed[k] \o (taken[k] \o buf[k])
  BY DEF Conserved
<1>2. /\ accepted[k] \in Seq(Event) /\ confirmed[k] \in Seq(Event)
      /\ taken[k] \in Seq(Event) /\ buf[k] \in Seq(Event)
  BY DEF TypeOK
<1>3. CASE UNCHANGED <<accepted, confirmed, taken, buf>>
  BY <1>1, <1>3
<1>4. ASSUME NEW s \in Source, AppendBuffer(s) PROVE Goal
  <2> DEFINE e == current[s]
  <2>1. e \in Event /\ e.kind \in Kind
    BY EventFields DEF TypeOK
  <2>2. CASE k = e.kind
    <3>1. accepted'[k] = Append(accepted[k], e) /\ buf'[k] = Append(buf[k], e)
      BY <1>4, <2>2 DEF AppendBuffer, TypeOK
    <3>2. UNCHANGED <<confirmed, taken>>
      BY <1>4 DEF AppendBuffer
    <3> DEFINE c == confirmed[k]  t == taken[k]  b == buf[k]  x == current[s]
    <3>3. /\ c \in Seq(Event) /\ t \in Seq(Event) /\ b \in Seq(Event)
          /\ x \in Event
      BY <1>2, <2>1
    <3>4. Append(c \o (t \o b), x) = c \o (t \o Append(b, x))
      <4> HIDE DEF c, t, b, x
      <4> QED
        BY <3>3, AppendKeepsLog
    <3>5. QED
      BY <1>1, <3>1, <3>2, <3>4
  <2>3. CASE k # e.kind
    <3>1. accepted'[k] = accepted[k] /\ buf'[k] = buf[k]
      BY <1>4, <2>3 DEF AppendBuffer, TypeOK
    <3>2. UNCHANGED <<confirmed, taken>>
      BY <1>4 DEF AppendBuffer
    <3>3. QED
      BY <1>1, <3>1, <3>2
  <2>4. QED
    BY <2>2, <2>3
<1>5. CASE TakeBuffer
  <2>1. UNCHANGED <<accepted, confirmed>>
    BY <1>5 DEF TakeBuffer
  <2>2. CASE k = flushKind
    <3>1. taken'[k] = buf[k] /\ buf'[k] = <<>> /\ taken[k] = <<>>
      BY <1>5, <2>2 DEF TakeBuffer, TypeOK, SliceHeld, Holding
    <3>2. <<>> \o buf[k] = buf[k] /\ buf[k] \o <<>> = buf[k]
      BY <1>2, EventConcatEmpty
    <3>3. QED
      BY <1>1, <2>1, <3>1, <3>2
  <2>3. CASE k # flushKind
    <3>1. taken'[k] = taken[k] /\ buf'[k] = buf[k]
      BY <1>5, <2>3 DEF TakeBuffer, TypeOK
    <3>2. QED
      BY <1>1, <2>1, <3>1
  <2>4. QED
    BY <2>2, <2>3
<1>6. CASE InsertSucceeds
  <2>1. UNCHANGED <<accepted, buf>>
    BY <1>6 DEF InsertSucceeds
  <2>2. CASE k = flushKind
    <3>1. /\ confirmed'[k] = confirmed[k] \o Chunk
          /\ taken'[k] = AfterChunk
      BY <1>6, <2>2 DEF InsertSucceeds, TypeOK
    <3>2. /\ taken[k] = Chunk \o AfterChunk
          /\ Chunk \in Seq(Event) /\ AfterChunk \in Seq(Event)
      BY <1>6, <2>2, ChunkSplitsSlice DEF InsertSucceeds, SliceHeld, Holding
    <3> DEFINE c == confirmed[k]  b == buf[k]  x == Chunk  y == AfterChunk
    <3>3. /\ c \in Seq(Event) /\ b \in Seq(Event)
          /\ x \in Seq(Event) /\ y \in Seq(Event)
      BY <1>2, <3>2
    <3>4. c \o ((x \o y) \o b) = (c \o x) \o (y \o b)
      <4> HIDE DEF c, b, x, y
      <4>1. \A v, w \in Seq(Event) : c \o ((x \o v) \o w) = (c \o x) \o (v \o w)
        BY <3>3, ChunkKeepsLog, Zenon
      <4>2. QED
        BY <3>3, <4>1, Zenon
    <3>5. QED
      BY <1>1, <2>1, <3>1, <3>2, <3>4
  <2>3. CASE k # flushKind
    <3>1. confirmed'[k] = confirmed[k] /\ taken'[k] = taken[k]
      BY <1>6, <2>3 DEF InsertSucceeds, TypeOK
    <3>2. QED
      BY <1>1, <2>1, <3>1
  <2>4. QED
    BY <2>2, <2>3
<1>7. CASE Requeue
  <2>1. UNCHANGED <<accepted, confirmed>>
    BY <1>7 DEF Requeue
  <2>2. CASE k = flushKind
    <3>1. buf'[k] = taken[k] \o buf[k] /\ taken'[k] = <<>>
      BY <1>7, <2>2 DEF Requeue, TypeOK
    <3>2. <<>> \o (taken[k] \o buf[k]) = taken[k] \o buf[k]
      BY <1>2, EventConcatEmpty
    <3>3. QED
      BY <1>1, <2>1, <3>1, <3>2
  <2>3. CASE k # flushKind
    <3>1. buf'[k] = buf[k] /\ taken'[k] = taken[k]
      BY <1>7, <2>3 DEF Requeue, TypeOK
    <3>2. QED
      BY <1>1, <2>1, <3>1
  <2>4. QED
    BY <2>2, <2>3
<1>8. QED
  BY <1>3, <1>4, <1>5, <1>6, <1>7
     DEF Next, Handle, FlushStep, vars, Receive, PushRing, RecordMetrics,
         OfferBroadcast, Leave, DrainBroadcast, TickerFires, WakeOnTick,
         WakeOnDone, AcquireConnection, InsertFails, InsertUnacknowledged,
         Cancel, StopReturns, DatabaseChanges

(* No interleaving of handlers, flushes, failures and cancellation loses,  *)
(* repeats or reorders an event between the append to a buffer and the     *)
(* confirmed insert (hub.go, flushAll and requeueTrades).                  *)
THEOREM NothingIsLost == Spec => []Conserved
<1>1. Init => TypeOK /\ SliceHeld /\ Conserved
  BY InitTyped, InitConserved
<1>2. (TypeOK /\ SliceHeld /\ Conserved) /\ [Next]_vars
        => (TypeOK /\ SliceHeld /\ Conserved)'
  BY StepTyped, StepConserved
<1>3. QED
  BY <1>1, <1>2, PTL DEF Spec

-----------------------------------------------------------------------------
(* The flush at the end.                                                   *)

LEMMA StepLastFlush ==
  LastFlushCancelled /\ [Next]_vars => LastFlushCancelled'
BY DEF LastFlushCancelled, Next, vars, Handle, FlushStep, Receive, PushRing,
       AppendBuffer, RecordMetrics, OfferBroadcast, Leave, DrainBroadcast,
       TickerFires, WakeOnTick, WakeOnDone, FinishHalf, TakeBuffer,
       AcquireConnection, InsertSucceeds, InsertFails, InsertUnacknowledged,
       Requeue, Cancel, StopReturns, DatabaseChanges, sourceVars, flushVars,
       storeVars

(* Rows are only written while flushLoop is inside an insert.              *)
LEMMA RowsChangeOnlyInserting ==
  [Next]_vars => UNCHANGED rows \/ flushAt = "insert"
BY DEF Next, vars, Handle, FlushStep, Receive, PushRing,
       AppendBuffer, RecordMetrics, OfferBroadcast, Leave, DrainBroadcast,
       TickerFires, WakeOnTick, WakeOnDone, TakeBuffer,
       AcquireConnection, InsertSucceeds, InsertFails, InsertUnacknowledged,
       Requeue, Cancel, StopReturns, DatabaseChanges, sourceVars, flushVars,
       storeVars

(* What is still buffered when the hub is stopped never reaches the        *)
(* database: the flush on ctx.Done uses the context that is done           *)
(* (hub.go, flushLoop and flushAll).                                       *)
THEOREM LastFlushIsVain == Spec => LastFlushStoresNothing
<1>1. Init => LastFlushCancelled
  BY DEF Init, LastFlushCancelled
<1>2. LastFlushCancelled /\ [Next]_vars => LastFlushCancelled'
  BY StepLastFlush
<1>3. LastFlushCancelled /\ [Next]_vars => [lastFlush => UNCHANGED rows]_vars
  BY RowsChangeOnlyInserting DEF LastFlushCancelled
<1>4. QED
  BY <1>1, <1>2, <1>3, PTL DEF Spec, LastFlushStoresNothing

-----------------------------------------------------------------------------
(* Each buffer with its table implements the durable log.                  *)

(* The run of a durable log at the front of what is not confirmed is the   *)
(* chunk that flushAll inserts.                                            *)
LEMMA RunIsChunk ==
  ASSUME NEW c \in Seq(Event), NEW x \in Seq(Event), NEW y \in Seq(Event),
         NEW b \in Seq(Event), Len(x) > 0
  PROVE  LET log == c \o ((x \o y) \o b)
         IN  /\ SubSeq(log, Len(c) + 1, Len(c) + Len(x)) = x
             /\ Len(x) \in 1..(Len(log) - Len(c))
<1> DEFINE z == y \o b
           t == x \o z
<1>1. z \in Seq(Event)
  BY EventConcat
<1>2. t \in Seq(Event) /\ Len(t) = Len(x) + Len(z)
  <2> HIDE DEF z
  <2> QED
    BY <1>1, ConcatProperties
<1>3. (x \o y) \o b = t
  BY EventAssociative, Zenon
<1>4. Len(c \o t) = Len(c) + Len(t)
  <2> HIDE DEF t
  <2> QED
    BY <1>2, ConcatProperties
<1>5. Len(c) \in Nat /\ Len(x) \in Nat /\ Len(z) \in Nat
  BY <1>1, LenProperties
<1>6. SubSeq(c \o t, Len(c) + 1, Len(c) + Len(x)) = SubSeq(t, 1, Len(x))
  <2>1. /\ Len(c) + 1 \in Len(c) + 1 .. Len(c) + Len(t)
        /\ Len(c) + Len(x) \in Len(c) + 1 .. Len(c) + Len(t)
    BY <1>2, <1>5
  <2>2. SubSeq(c \o t, Len(c) + 1, Len(c) + Len(x))
          = SubSeq(t, Len(c) + 1 - Len(c), Len(c) + Len(x) - Len(c))
    <3> HIDE DEF t
    <3> QED
      BY <1>2, <2>1, SubSeqOfConcat2
  <2>3. Len(c) + 1 - Len(c) = 1 /\ Len(c) + Len(x) - Len(c) = Len(x)
    BY <1>5
  <2>4. QED
    BY <2>2, <2>3
<1>7. SubSeq(t, 1, Len(x)) = x
  <2>1. SubSeq(x \o z, 1, Len(x)) = SubSeq(x, 1, Len(x))
    <3>1. 1 \in 1..Len(x) /\ Len(x) \in 1..Len(x)
      BY <1>5
    <3> HIDE DEF z
    <3> QED
      BY <1>1, <3>1, SubSeqOfConcat1
  <2>2. QED
    BY <2>1, SubSeqFull
<1>8. QED
  BY <1>2, <1>3, <1>4, <1>5, <1>6, <1>7

(* What a step of the hub does to the log of one kind of event.            *)
LogUnchanged(k) ==
  accepted'[k] = accepted[k] /\ confirmed'[k] = confirmed[k] /\ rows'[k] = rows[k]

LogAccepts(k) ==
  \E e \in Event :
    /\ accepted'[k] = Append(accepted[k], e)
    /\ confirmed'[k] = confirmed[k] /\ rows'[k] = rows[k]

LogCommits(k) ==
  \E n \in 1..(Len(accepted[k]) - Len(confirmed[k])) :
    LET run == SubSeq(accepted[k], Len(confirmed[k]) + 1, Len(confirmed[k]) + n)
    IN  /\ rows'[k] = rows[k] \o run
        /\ confirmed'[k] = confirmed[k] \o run \/ confirmed'[k] = confirmed[k]
        /\ accepted'[k] = accepted[k]

LEMMA StepLogged ==
  ASSUME TypeOK, SliceHeld, Conserved, [Next]_vars, NEW k \in Kind
  PROVE  LogUnchanged(k) \/ LogAccepts(k) \/ LogCommits(k)
<1> USE DEF sourceVars, flushVars, storeVars
<1>1. CASE UNCHANGED <<accepted, confirmed, rows>>
  BY <1>1 DEF LogUnchanged
<1>2. ASSUME NEW s \in Source, AppendBuffer(s)
      PROVE  LogUnchanged(k) \/ LogAccepts(k)
  <2>1. current[s] \in Event /\ current[s].kind \in Kind
    BY EventFields DEF TypeOK
  <2>2. confirmed' = confirmed /\ rows' = rows
    BY <1>2 DEF AppendBuffer
  <2>3. accepted'[k] = IF k = current[s].kind THEN Append(accepted[k], current[s])
                       ELSE accepted[k]
    BY <1>2, <2>1 DEF AppendBuffer, TypeOK
  <2>4. QED
    BY <2>1, <2>2, <2>3 DEF LogUnchanged, LogAccepts
<1>3. ASSUME flushAt = "insert", Stored, UNCHANGED accepted,
             \/ UNCHANGED confirmed
             \/ confirmed' = [confirmed EXCEPT ![flushKind] = @ \o Chunk]
      PROVE  LogUnchanged(k) \/ LogCommits(k)
  <2>1. CASE k # flushKind
    BY <1>3, <2>1 DEF Stored, TypeOK, LogUnchanged
  <2>2. CASE k = flushKind
    <3>1. /\ taken[k] = Chunk \o AfterChunk
          /\ Chunk \in Seq(Event) /\ AfterChunk \in Seq(Event)
          /\ Len(Chunk) > 0
      BY <1>3, <2>2, ChunkSplitsSlice DEF SliceHeld, Holding
    <3> DEFINE c == confirmed[k]  x == Chunk  y == AfterChunk  b == buf[k]
               log == c \o ((x \o y) \o b)
    <3>2. /\ c \in Seq(Event) /\ x \in Seq(Event)
          /\ y \in Seq(Event) /\ b \in Seq(Event)
      BY <3>1 DEF TypeOK
    <3>3. accepted[k] = log
      BY <3>1 DEF Conserved
    <3>4. /\ SubSeq(log, Len(c) + 1, Len(c) + Len(x)) = x
          /\ Len(x) \in 1..(Len(log) - Len(c))
      <4>1. Len(x) > 0
        BY <3>1
      <4> HIDE DEF c, x, y, b
      <4> QED
        BY <3>2, <4>1, RunIsChunk
    <3>5. rows'[k] = rows[k] \o x /\ accepted'[k] = accepted[k]
      BY <1>3, <2>2 DEF Stored, TypeOK
    <3>6. confirmed'[k] = c \o x \/ confirmed'[k] = c
      BY <1>3, <2>2 DEF TypeOK
    <3>7. QED
      BY <3>3, <3>4, <3>5, <3>6 DEF LogCommits
  <2>3. QED
    BY <2>1, <2>2
<1>4. CASE InsertSucceeds
  BY <1>3, <1>4 DEF InsertSucceeds
<1>5. CASE InsertUnacknowledged
  BY <1>3, <1>5 DEF InsertUnacknowledged
<1>6. QED
  BY <1>1, <1>2, <1>4, <1>5
     DEF Next, Handle, FlushStep, vars, Receive, PushRing, RecordMetrics,
         OfferBroadcast, Leave, DrainBroadcast, TickerFires, WakeOnTick,
         WakeOnDone, TakeBuffer, AcquireConnection, InsertFails, Requeue,
         Cancel, StopReturns, DatabaseChanges

(* The trade buffer with the trades table is a durable log.                *)
THEOREM TradesImplementLog == Spec => TradesAreLogged
<1>1. Init => TradeLog!Init
  BY DEF Init, TradeLog!Init, Kind
<1>2. (TypeOK /\ SliceHeld /\ Conserved) /\ [Next]_vars
        => [TradeLog!Next]_(TradeLog!vars)
  BY StepLogged
     DEF Kind, LogUnchanged, LogAccepts, LogCommits, TradeLog!Next,
         TradeLog!vars, TradeLog!Accept, TradeLog!Commit, TradeLog!Run,
         TradeLog!CommitUnacknowledged, TradeLog!Unconfirmed
<1>3. QED
  BY <1>1, <1>2, TypeCorrect, NothingIsLost, PTL
     DEF Spec, TradesAreLogged, TradeLog!Spec

(* The liquidation buffer with its table is a durable log, although        *)
(* flushAll inserts liquidations one at a time.                            *)
THEOREM LiquidationsImplementLog == Spec => LiquidationsAreLogged
<1>1. Init => LiquidationLog!Init
  BY DEF Init, LiquidationLog!Init, Kind
<1>2. (TypeOK /\ SliceHeld /\ Conserved) /\ [Next]_vars
        => [LiquidationLog!Next]_(LiquidationLog!vars)
  BY StepLogged
     DEF Kind, LogUnchanged, LogAccepts, LogCommits, LiquidationLog!Next,
         LiquidationLog!vars, LiquidationLog!Accept, LiquidationLog!Commit,
         LiquidationLog!Run, LiquidationLog!CommitUnacknowledged,
         LiquidationLog!Unconfirmed
<1>3. QED
  BY <1>1, <1>2, TypeCorrect, NothingIsLost, PTL
     DEF Spec, LiquidationsAreLogged, LiquidationLog!Spec

(* The hub implements the log for both buffers: handleTrade,               *)
(* handleLiquidation and flushAll.                                         *)
THEOREM BuffersImplementLogs == Spec => BuffersAreLogs
BY TradesImplementLog, LiquidationsImplementLog DEF BuffersAreLogs

-----------------------------------------------------------------------------
(* Exactly once and in order, as long as no acknowledgement is lost.       *)

LEMMA StepRowsConfirmed ==
  TypeOK /\ RowsConfirmed /\ [Next]_vars => RowsConfirmed'
<1> SUFFICES ASSUME TypeOK, RowsConfirmed, [Next]_vars PROVE RowsConfirmed'
  OBVIOUS
<1> USE DEF sourceVars, flushVars, storeVars, RowsConfirmed
<1>1. CASE UNCHANGED <<lostAcks, rows, confirmed>>
  BY <1>1
<1>2. CASE InsertSucceeds
  BY <1>2 DEF InsertSucceeds, Stored
<1>3. CASE InsertUnacknowledged
  BY <1>3 DEF InsertUnacknowledged, TypeOK
<1>4. QED
  BY <1>1, <1>2, <1>3
     DEF Next, Handle, FlushStep, vars, Receive, PushRing, AppendBuffer,
         RecordMetrics, OfferBroadcast, Leave, DrainBroadcast, TickerFires,
         WakeOnTick, WakeOnDone, TakeBuffer, AcquireConnection, InsertFails,
         Requeue, Cancel, StopReturns, DatabaseChanges

LEMMA StepAppendedInOrder ==
  TypeOK /\ AppendedInOrder /\ [Next]_vars => AppendedInOrder'
<1> SUFFICES ASSUME TypeOK, AppendedInOrder, [Next]_vars, NEW k \in Kind
             PROVE  /\ InReadingOrder(accepted'[k])
                    /\ \A i \in 1..Len(accepted'[k]) :
                         LET e == accepted'[k][i]
                         IN  /\ e.seq <= current'[e.src].seq
                             /\ at'[e.src] \in {"push", "append"}
                                  => e.seq < current'[e.src].seq
  BY DEF AppendedInOrder
<1> USE DEF sourceVars, flushVars, storeVars
<1> DEFINE log == accepted[k]
<1>1. /\ log \in Seq(Event) /\ InReadingOrder(log)
      /\ \A i \in 1..Len(log) :
           /\ log[i] \in Event
           /\ log[i].src \in Source /\ log[i].seq \in Nat
           /\ log[i].seq <= current[log[i].src].seq
           /\ at[log[i].src] \in {"push", "append"}
                => log[i].seq < current[log[i].src].seq
  <2>1. log \in Seq(Event)
    BY DEF TypeOK
  <2>2. \A i \in 1..Len(log) : log[i] \in Event
    BY <2>1, ElementOfSeq
  <2>3. \A e \in Event : e.src \in Source /\ e.seq \in Nat
    BY EventFields
  <2>4. QED
    BY <2>1, <2>2, <2>3 DEF AppendedInOrder
<1>2. \A s \in Source : current[s] \in Event /\ current[s].src = s
                        /\ current[s].seq \in Nat /\ current[s].kind \in Kind
  BY EventFields DEF TypeOK
<1>3. CASE UNCHANGED <<accepted, current, at>>
  BY <1>1, <1>3 DEF InReadingOrder
<1>4. ASSUME NEW s \in Source, UNCHANGED <<accepted, current>>,
             \/ at[s] = "push" /\ at' = [at EXCEPT ![s] = "append"]
             \/ \E next \in {"offer", "reading", "exited"} :
                  at' = [at EXCEPT ![s] = next]
      PROVE  \A i \in 1..Len(log) :
               at'[log[i].src] \in {"push", "append"}
                 => log[i].seq < current[log[i].src].seq
  BY <1>1, <1>4 DEF TypeOK
<1>5. ASSUME NEW s \in Source, Receive(s)
      PROVE  \A i \in 1..Len(log) :
               /\ log[i].seq <= current'[log[i].src].seq
               /\ at'[log[i].src] \in {"push", "append"}
                    => log[i].seq < current'[log[i].src].seq
  <2> TAKE i \in 1..Len(log)
  <2>1. CASE log[i].src = s
    <3>1. current'[s].seq = current[s].seq + 1
      BY <1>5 DEF Receive, TypeOK
    <3>2. log[i].seq <= current[s].seq /\ log[i].seq \in Nat
      BY <1>1, <2>1
    <3>3. current[s].seq \in Nat
      BY <1>2
    <3>4. QED
      BY <2>1, <3>1, <3>2, <3>3
  <2>2. CASE log[i].src # s
    <3>1. current'[log[i].src] = current[log[i].src] /\ at'[log[i].src] = at[log[i].src]
      BY <1>1, <1>5, <2>2 DEF Receive, TypeOK
    <3>2. QED
      BY <1>1, <3>1
  <2>3. QED
    BY <2>1, <2>2
<1>6. ASSUME NEW s \in Source, AppendBuffer(s)
      PROVE  /\ InReadingOrder(accepted'[k])
             /\ \A i \in 1..Len(accepted'[k]) :
                  LET e == accepted'[k][i]
                  IN  /\ e.seq <= current'[e.src].seq
                      /\ at'[e.src] \in {"push", "append"}
                           => e.seq < current'[e.src].seq
  <2>1. /\ UNCHANGED current /\ at[s] = "append"
        /\ at' = [at EXCEPT ![s] = "record"]
    BY <1>6 DEF AppendBuffer
  <2>2. CASE k # current[s].kind
    <3>1. accepted'[k] = log
      BY <1>6, <2>2 DEF AppendBuffer, TypeOK
    <3>2. QED
      BY <1>1, <2>1, <3>1 DEF TypeOK
  <2>3. CASE k = current[s].kind
    <3> DEFINE x == current[s]
               new == accepted'[k]
    <3>1. new = Append(log, x)
      BY <1>6, <2>3 DEF AppendBuffer, TypeOK
    <3>2. /\ Len(new) = Len(log) + 1 /\ Len(log) \in Nat
          /\ \A i \in 1..Len(log) : new[i] = log[i]
          /\ new[Len(log) + 1] = x
      BY <1>1, <1>2, <3>1, AppendProperties, LenProperties
    <3>3. \A i \in 1..Len(log) : log[i].src = s => log[i].seq < x.seq
      BY <1>1, <2>1
    <3>4. InReadingOrder(new)
      <4> SUFFICES ASSUME NEW i \in 1..Len(new), NEW j \in 1..Len(new), i < j,
                          new[i].src = new[j].src
                   PROVE  new[i].seq < new[j].seq
        BY DEF InReadingOrder
      <4>1. i \in 1..Len(log) /\ new[i] = log[i]
        BY <3>2
      <4>2. CASE j = Len(log) + 1
        BY <1>2, <3>2, <3>3, <4>1, <4>2
      <4>3. CASE j \in 1..Len(log)
        BY <1>1, <3>2, <4>1, <4>3 DEF InReadingOrder
      <4>4. QED
        BY <3>2, <4>2, <4>3
    <3>5. \A i \in 1..Len(new) : /\ new[i].seq <= current[new[i].src].seq
                                 /\ at'[new[i].src] \in {"push", "append"}
                                      => new[i].seq < current[new[i].src].seq
      <4> TAKE i \in 1..Len(new)
      <4>1. CASE i = Len(log) + 1
        <5>1. new[i] = x /\ x.src = s /\ x.seq \in Nat
          BY <1>2, <3>2, <4>1
        <5>2. at'[s] = "record"
          BY <2>1 DEF TypeOK
        <5>3. QED
          BY <5>1, <5>2
      <4>2. CASE i \in 1..Len(log)
        BY <1>1, <2>1, <3>2, <4>2 DEF TypeOK
      <4>3. QED
        BY <3>2, <4>1, <4>2
    <3>6. QED
      BY <2>1, <3>4, <3>5
  <2>4. QED
    BY <2>2, <2>3
<1>7. ASSUME NEW s \in Source,
             PushRing(s) \/ RecordMetrics(s) \/ OfferBroadcast(s) \/ Leave(s)
      PROVE  /\ UNCHANGED <<accepted, current>>
             /\ \/ at[s] = "push" /\ at' = [at EXCEPT ![s] = "append"]
                \/ \E next \in {"offer", "reading", "exited"} :
                     at' = [at EXCEPT ![s] = next]
  BY <1>7 DEF PushRing, RecordMetrics, OfferBroadcast, Leave
<1>8. QED
  <2>1. ASSUME NEW s \in Source,
               PushRing(s) \/ RecordMetrics(s) \/ OfferBroadcast(s) \/ Leave(s)
        PROVE  /\ UNCHANGED <<accepted, current>>
               /\ \A i \in 1..Len(log) :
                    at'[log[i].src] \in {"push", "append"}
                      => log[i].seq < current[log[i].src].seq
    BY <1>4, <1>7, <2>1
  <2>2. ASSUME NEW s \in Source, Receive(s) PROVE UNCHANGED accepted
    BY <2>2 DEF Receive
  <2>3. \/ UNCHANGED <<accepted, current, at>>
        \/ \E s \in Source : AppendBuffer(s) \/ Receive(s) \/ PushRing(s)
             \/ RecordMetrics(s) \/ OfferBroadcast(s) \/ Leave(s)
    BY DEF Next, Handle, FlushStep, vars, DrainBroadcast, TickerFires,
           WakeOnTick, WakeOnDone, TakeBuffer, AcquireConnection,
           InsertSucceeds, InsertFails, InsertUnacknowledged, Requeue, Cancel,
           StopReturns, DatabaseChanges
  <2>4. QED
    BY <1>1, <1>3, <1>5, <1>6, <2>1, <2>2, <2>3 DEF InReadingOrder

(* A prefix of a sequence in reading order is in reading order.            *)
LEMMA PrefixInOrder ==
  ASSUME NEW c \in Seq(Event), NEW d \in Seq(Event), InReadingOrder(c \o d)
  PROVE  InReadingOrder(c)
<1> DEFINE w == c \o d
<1>1. /\ Len(w) = Len(c) + Len(d) /\ Len(c) \in Nat /\ Len(d) \in Nat
      /\ \A i \in 1..Len(c) : w[i] = c[i]
  BY ConcatProperties, LenProperties
<1>2. InReadingOrder(w)
  OBVIOUS
<1>3. \A i, j \in 1..Len(c) :
        i < j /\ c[i].src = c[j].src => c[i].seq < c[j].seq
  <2> HIDE DEF w
  <2>1. \A i \in 1..Len(c) : i \in 1..Len(w)
    BY <1>1
  <2>2. QED
    BY <1>1, <1>2, <2>1 DEF InReadingOrder
<1>4. QED
  BY <1>3 DEF InReadingOrder

LEMMA InvariantGivesOrder == IInv => ExactlyOnceInOrder
<1> SUFFICES ASSUME IInv, lostAcks = 0, NEW k \in Kind
             PROVE  InReadingOrder(rows[k])
  BY DEF ExactlyOnceInOrder
<1>1. rows[k] = confirmed[k]
  BY DEF IInv, RowsConfirmed
<1> DEFINE c == confirmed[k]
           d == taken[k] \o buf[k]
<1>2. c \in Seq(Event) /\ taken[k] \in Seq(Event) /\ buf[k] \in Seq(Event)
  BY DEF IInv, TypeOK
<1>3. d \in Seq(Event)
  BY <1>2, EventConcat
<1>4. InReadingOrder(c \o d)
  BY DEF IInv, Conserved, AppendedInOrder
<1>5. InReadingOrder(c)
  <2> HIDE DEF c, d
  <2> QED
    BY <1>2, <1>3, <1>4, PrefixInOrder
<1>6. QED
  BY <1>1, <1>5

-----------------------------------------------------------------------------
(* How often an event is stored.                                           *)

LEMMA AppendElements ==
  ASSUME NEW q \in Seq(Event), NEW e \in Event
  PROVE  Elements(Append(q, e)) = Elements(q) \cup {e}
<1>1. /\ Len(Append(q, e)) = Len(q) + 1 /\ Len(q) \in Nat
      /\ \A i \in 1..Len(q) : Append(q, e)[i] = q[i]
      /\ Append(q, e)[Len(q) + 1] = e
  BY AppendProperties, LenProperties
<1>2. Elements(Append(q, e)) \subseteq Elements(q) \cup {e}
  BY <1>1 DEF Elements
<1>3. Elements(q) \cup {e} \subseteq Elements(Append(q, e))
  <2>1. Len(q) + 1 \in 1..Len(Append(q, e)) /\ \A i \in 1..Len(q) : i \in 1..Len(Append(q, e))
    BY <1>1
  <2>2. QED
    BY <1>1, <2>1 DEF Elements
<1>4. QED
  BY <1>2, <1>3

LEMMA OccursFinite ==
  ASSUME NEW q \in Seq(Event), NEW e
  PROVE  /\ IsFiniteSet(Occurrences(q, e))
         /\ Cardinality(Occurrences(q, e)) \in Nat
         /\ Cardinality(Occurrences(q, e)) = 0 <=> e \notin Elements(q)
<1> DEFINE n == Len(q)
<1>1. n \in Nat
  BY LenProperties
<1>2. IsFiniteSet(1..n)
  <2> HIDE DEF n
  <2>1. 1 \in Int /\ n \in Int
    BY <1>1
  <2> QED
    BY <2>1, FS_Interval
<1>3. Occurrences(q, e) \in SUBSET (1..n)
  BY DEF Occurrences
<1>4. IsFiniteSet(Occurrences(q, e))
  BY <1>2, <1>3, FS_Subset
<1>5. Occurrences(q, e) = {} <=> e \notin Elements(q)
  BY DEF Occurrences, Elements
<1> QED
  BY <1>4, <1>5, FS_CardinalityType, FS_EmptySet

(* What is written behind a log adds its occurrences.                      *)
LEMMA OccursConcat ==
  ASSUME NEW q \in Seq(Event), NEW r \in Seq(Event), NEW e
  PROVE  Cardinality(Occurrences(q \o r, e)) =
           Cardinality(Occurrences(q, e)) + Cardinality(Occurrences(r, e))
<1> DEFINE n == Len(q)
           moved == {j \in (n + 1)..(n + Len(r)) : r[j - n] = e}
<1>1. n \in Nat /\ Len(r) \in Nat
  BY LenProperties
<1>2. /\ q \o r \in Seq(Event) /\ Len(q \o r) = n + Len(r)
      /\ \A i \in 1..n + Len(r) : (q \o r)[i] = IF i <= n THEN q[i] ELSE r[i - n]
  BY ConcatProperties
<1>3. Occurrences(q \o r, e) = Occurrences(q, e) \cup moved
  <2>1. Occurrences(q \o r, e) = {i \in 1..(n + Len(r)) : (IF i <= n THEN q[i] ELSE r[i - n]) = e}
    BY <1>2 DEF Occurrences
  <2> HIDE DEF n
  <2>2. Occurrences(q, e) = {i \in 1..n : q[i] = e}
    BY DEF n, Occurrences
  <2> QED
    BY <1>1, <2>1, <2>2
<1>4. Occurrences(q, e) \cap moved = {}
  BY <1>1 DEF Occurrences
<1>5. IsFiniteSet(moved) /\ Cardinality(moved) = Cardinality(Occurrences(r, e))
  <2> DEFINE f == [i \in Occurrences(r, e) |-> i + n]
  <2>1. \A i \in Occurrences(r, e) : i \in 1..Len(r) /\ r[i] = e
    BY DEF Occurrences
  <2>2. \A i \in Occurrences(r, e) : f[i] \in moved
    BY <1>1, <2>1
  <2>3. \A j \in moved : \E i \in Occurrences(r, e) : f[i] = j
    <3> TAKE j \in moved
    <3>1. j - n \in Occurrences(r, e) /\ (j - n) + n = j
      BY <1>1 DEF Occurrences
    <3> QED
      BY <3>1
  <2>4. \A i, j \in Occurrences(r, e) : f[i] = f[j] => i = j
    BY <1>1, <2>1
  <2>5. f \in [Occurrences(r, e) -> moved]
    BY <2>2
  <2> HIDE DEF f, moved, n
  <2>6. f \in Bijection(Occurrences(r, e), moved)
    BY <2>3, <2>4, <2>5, Fun_IsBij
  <2>7. ExistsBijection(Occurrences(r, e), moved)
    BY <2>6 DEF ExistsBijection
  <2> QED
    BY <2>7, OccursFinite, FS_Bijection
<1> HIDE DEF moved
<1>6. Cardinality(Occurrences(q, e) \cup moved) =
        Cardinality(Occurrences(q, e)) + Cardinality(moved) - Cardinality({})
  BY <1>4, <1>5, OccursFinite, FS_Union
<1>7. /\ Cardinality(Occurrences(q, e)) \in Nat
      /\ Cardinality(Occurrences(r, e)) \in Nat
      /\ Cardinality({}) = 0
  BY OccursFinite, FS_EmptySet
<1> QED
  BY <1>3, <1>5, <1>6, <1>7

LEMMA ConcatElements ==
  ASSUME NEW q \in Seq(Event), NEW r \in Seq(Event)
  PROVE  Elements(q \o r) = Elements(q) \cup Elements(r)
<1>1. ASSUME NEW e PROVE e \in Elements(q \o r) <=> e \in Elements(q) \/ e \in Elements(r)
  <2>1. q \o r \in Seq(Event)
    BY EventConcat
  <2> DEFINE both == Cardinality(Occurrences(q \o r, e))
             left == Cardinality(Occurrences(q, e))
             right == Cardinality(Occurrences(r, e))
  <2>2. both = left + right
    BY OccursConcat
  <2>3. /\ left \in Nat /\ (left = 0 <=> e \notin Elements(q))
        /\ right \in Nat /\ (right = 0 <=> e \notin Elements(r))
        /\ both = 0 <=> e \notin Elements(q \o r)
    BY <2>1, OccursFinite
  <2> HIDE DEF both, left, right
  <2>4. both = 0 <=> left = 0 /\ right = 0
    BY <2>2, <2>3
  <2> QED
    BY <2>3, <2>4
<1> QED
  BY <1>1

(* A log in reading order has an event once.                               *)
LEMMA OccursOnce ==
  ASSUME NEW q \in Seq(Event), InReadingOrder(q), NEW e
  PROVE  Cardinality(Occurrences(q, e)) <= 1
<1>1. CASE Occurrences(q, e) = {}
  BY <1>1, FS_EmptySet
<1>2. CASE Occurrences(q, e) # {}
  <2>1. PICK i : i \in Occurrences(q, e)
    BY <1>2
  <2>2. ASSUME NEW j \in Occurrences(q, e), j # i PROVE FALSE
    <3>1. i \in 1..Len(q) /\ j \in 1..Len(q) /\ q[i] = q[j] /\ q[i] \in Event
      BY <2>1, ElementOfSeq DEF Occurrences
    <3>2. q[i].seq \in Nat
      BY <3>1, EventFields
    <3>3. i < j \/ j < i
      BY <2>2, <3>1, LenProperties
    <3>4. q[i].seq < q[j].seq \/ q[j].seq < q[i].seq
      BY <3>1, <3>3 DEF InReadingOrder
    <3> QED
      BY <3>1, <3>2, <3>4
  <2>3. Occurrences(q, e) = {i}
    BY <2>1, <2>2
  <2>4. Cardinality({i}) = 1
    BY FS_Singleton, Zenon
  <2> QED
    BY <2>3, <2>4
<1> QED
  BY <1>1, <1>2

(* A part of a log has its elements, and is in order when the log is.      *)
LEMMA PartOfLog ==
  ASSUME NEW log \in Seq(Event), NEW a \in Nat, NEW n \in 1..(Len(log) - a)
  PROVE  LET run == SubSeq(log, a + 1, a + n)
         IN  /\ run \in Seq(Event) /\ Len(run) = n
             /\ Elements(run) \subseteq Elements(log)
             /\ InReadingOrder(log) => InReadingOrder(run)
<1> DEFINE run == SubSeq(log, a + 1, a + n)
<1>1. Len(log) \in Nat /\ \A i \in 1..Len(log) : log[i] \in Event
  BY LenProperties, ElementOfSeq
<1>2. /\ run \in Seq(Event) /\ Len(run) = n
      /\ \A i \in 1..n : run[i] = log[a + i]
  <2>1. a + 1 \in Int /\ a + n \in Int /\ \A i \in (a + 1)..(a + n) : log[i] \in Event
    BY <1>1
  <2>2. /\ run \in Seq(Event)
        /\ Len(run) = IF a + 1 <= a + n THEN (a + n) - (a + 1) + 1 ELSE 0
        /\ \A i \in 1..((a + n) - (a + 1) + 1) : run[i] = log[(a + 1) + i - 1]
    BY <2>1, SubSeqProperties
  <2> HIDE DEF run
  <2>3. \A i \in 1..n : i \in 1..((a + n) - (a + 1) + 1) /\ (a + 1) + i - 1 = a + i
    OBVIOUS
  <2>4. Len(run) = n
    BY <2>2
  <2> QED
    BY <2>2, <2>3, <2>4
<1> HIDE DEF run
<1>3. \A i \in 1..n : a + i \in 1..Len(log) /\ run[i] = log[a + i]
  BY <1>1, <1>2
<1>4. Elements(run) \subseteq Elements(log)
  BY <1>2, <1>3 DEF Elements
<1>5. InReadingOrder(log) => InReadingOrder(run)
  <2> SUFFICES ASSUME InReadingOrder(log), NEW i \in 1..n, NEW j \in 1..n,
                      i < j, run[i].src = run[j].src
               PROVE  run[i].seq < run[j].seq
    BY <1>2 DEF InReadingOrder
  <2>1. a + i \in 1..Len(log) /\ a + j \in 1..Len(log) /\ a + i < a + j
    BY <1>3
  <2> QED
    BY <1>3, <2>1 DEF InReadingOrder
<1> QED
  BY <1>2, <1>4, <1>5 DEF run

(* Rows that are not confirmed cost an acknowledgement.                    *)
LEMMA StepAcks ==
  ASSUME TypeOK, SliceHeld, [Next]_vars, NEW k \in Kind
  PROVE  /\ lostAcks' \in Nat /\ lostAcks <= lostAcks'
         /\ \/ lostAcks' = lostAcks + 1
            \/ rows'[k] = rows[k]
            \/ confirmed'[k] # confirmed[k]
<1> USE DEF sourceVars, flushVars, storeVars
<1>0. lostAcks \in Nat
  BY DEF TypeOK
<1>4. \/ UNCHANGED <<lostAcks, confirmed, rows>>
      \/ InsertUnacknowledged \/ InsertSucceeds
  BY DEF Next, Handle, FlushStep, vars, Receive, PushRing, AppendBuffer, RecordMetrics,
         OfferBroadcast, Leave, DrainBroadcast, TickerFires, WakeOnTick,
         WakeOnDone, TakeBuffer, AcquireConnection, InsertFails, Requeue,
         Cancel, StopReturns, DatabaseChanges
<1>1. CASE UNCHANGED <<lostAcks, confirmed, rows>>
  BY <1>0, <1>1
<1>2. CASE InsertUnacknowledged
  BY <1>0, <1>2 DEF InsertUnacknowledged
<1>3. CASE InsertSucceeds
  <2>1. lostAcks' = lostAcks
    BY <1>3 DEF InsertSucceeds
  <2>2. CASE k = flushKind
    <3>1. confirmed'[k] = confirmed[k] \o Chunk
      BY <1>3, <2>2 DEF InsertSucceeds, TypeOK
    <3>2. Chunk \in Seq(Event) /\ Len(Chunk) > 0 /\ confirmed[k] \in Seq(Event)
      BY <1>3, ChunkSplitsSlice DEF InsertSucceeds, SliceHeld, Holding, TypeOK
    <3>3. confirmed'[k] # confirmed[k]
      <4>1. Len(confirmed[k] \o Chunk) = Len(confirmed[k]) + Len(Chunk)
        BY <3>2, ConcatProperties
      <4>2. Len(confirmed[k]) \in Nat /\ Len(Chunk) \in Nat
        BY <3>2, LenProperties
      <4> QED
        BY <3>1, <3>2, <4>1, <4>2
    <3> QED
      BY <1>0, <2>1, <3>3
  <2>3. CASE k # flushKind
    <3>1. confirmed'[k] = confirmed[k] /\ rows'[k] = rows[k]
      BY <1>3, <2>3 DEF InsertSucceeds, Stored, TypeOK
    <3> QED
      BY <1>0, <2>1, <3>1
  <2> QED
    BY <2>2, <2>3
<1> QED
  BY <1>1, <1>2, <1>3, <1>4

LEMMA StepCopies ==
  TypeOK /\ SliceHeld /\ Conserved /\ AppendedInOrder /\ CopiesAreDue /\ [Next]_vars
    => CopiesAreDue'
<1> SUFFICES ASSUME TypeOK, SliceHeld, Conserved, AppendedInOrder, CopiesAreDue,
                    [Next]_vars, NEW k \in Kind
             PROVE  /\ Elements(rows'[k]) \subseteq Elements(accepted'[k])
                    /\ \A e \in Event :
                         /\ Cardinality(Occurrences(confirmed'[k], e))
                              <= Cardinality(Occurrences(rows'[k], e))
                         /\ Cardinality(Occurrences(rows'[k], e))
                              <= Cardinality(Occurrences(confirmed'[k], e)) + lostAcks'
  BY Zenon DEF CopiesAreDue
<1>1. /\ accepted[k] \in Seq(Event) /\ confirmed[k] \in Seq(Event)
      /\ rows[k] \in Seq(Event) /\ lostAcks \in Nat
  BY DEF TypeOK
<1>2. /\ Elements(rows[k]) \subseteq Elements(accepted[k])
      /\ InReadingOrder(accepted[k])
      /\ \A e \in Event :
           /\ Cardinality(Occurrences(confirmed[k], e)) \in Nat
           /\ Cardinality(Occurrences(rows[k], e)) \in Nat
           /\ Cardinality(Occurrences(confirmed[k], e))
                <= Cardinality(Occurrences(rows[k], e))
           /\ Cardinality(Occurrences(rows[k], e))
                <= Cardinality(Occurrences(confirmed[k], e)) + lostAcks
  BY <1>1, OccursFinite DEF CopiesAreDue, AppendedInOrder
<1>3. /\ lostAcks' \in Nat /\ lostAcks <= lostAcks'
      /\ \/ lostAcks' = lostAcks + 1
         \/ rows'[k] = rows[k]
         \/ confirmed'[k] # confirmed[k]
  BY StepAcks
<1>4. CASE LogUnchanged(k)
  BY <1>1, <1>2, <1>3, <1>4 DEF LogUnchanged
<1>5. CASE LogAccepts(k)
  <2>1. PICK e \in Event : accepted'[k] = Append(accepted[k], e)
    BY <1>5 DEF LogAccepts
  <2>2. confirmed'[k] = confirmed[k] /\ rows'[k] = rows[k]
    BY <1>5 DEF LogAccepts
  <2>3. Elements(accepted'[k]) = Elements(accepted[k]) \cup {e}
    BY <1>1, <2>1, AppendElements
  <2> QED
    BY <1>1, <1>2, <1>3, <2>2, <2>3
<1>6. CASE LogCommits(k)
  <2> DEFINE a == Len(confirmed[k])
  <2>1. PICK n \in 1..(Len(accepted[k]) - a) :
          /\ rows'[k] = rows[k] \o SubSeq(accepted[k], a + 1, a + n)
          /\ \/ confirmed'[k] = confirmed[k] \o SubSeq(accepted[k], a + 1, a + n)
             \/ confirmed'[k] = confirmed[k]
          /\ accepted'[k] = accepted[k]
    BY <1>6 DEF LogCommits
  <2> DEFINE run == SubSeq(accepted[k], a + 1, a + n)
  <2>2. a \in Nat /\ Len(rows[k]) \in Nat
    BY <1>1, LenProperties
  <2>3. /\ run \in Seq(Event) /\ Len(run) = n
        /\ Elements(run) \subseteq Elements(accepted[k]) /\ InReadingOrder(run)
    <3> HIDE DEF a
    <3> QED
      BY <1>1, <1>2, <2>2, PartOfLog
  <2>4. /\ rows'[k] = rows[k] \o run
        /\ confirmed'[k] = confirmed[k] \o run \/ confirmed'[k] = confirmed[k]
    BY <2>1
  <2> HIDE DEF run, a
  <2>5. Len(rows[k] \o run) = Len(rows[k]) + n
    BY <1>1, <2>3, ConcatProperties
  <2>6. rows'[k] # rows[k]
    BY <2>2, <2>4, <2>5
  <2>7. Elements(rows'[k]) \subseteq Elements(accepted'[k])
    <3>1. Elements(rows[k] \o run) = Elements(rows[k]) \cup Elements(run)
      BY <1>1, <2>3, ConcatElements
    <3> QED
      BY <1>2, <2>1, <2>3, <2>4, <3>1
  <2>8. ASSUME NEW e \in Event
        PROVE  /\ Cardinality(Occurrences(confirmed'[k], e))
                    <= Cardinality(Occurrences(rows'[k], e))
               /\ Cardinality(Occurrences(rows'[k], e))
                    <= Cardinality(Occurrences(confirmed'[k], e)) + lostAcks'
    <3> DEFINE r == Cardinality(Occurrences(rows[k], e))
               c == Cardinality(Occurrences(confirmed[k], e))
               d == Cardinality(Occurrences(run, e))
    <3>1. r \in Nat /\ c \in Nat /\ c <= r /\ r <= c + lostAcks
      BY <1>2
    <3>2. d \in Nat /\ d <= 1
      BY <2>3, OccursFinite, OccursOnce
    <3>3. Cardinality(Occurrences(rows'[k], e)) = r + d
      BY <1>1, <2>3, <2>4, OccursConcat
    <3>4. CASE confirmed'[k] = confirmed[k] \o run
      <4>1. Cardinality(Occurrences(confirmed'[k], e)) = c + d
        <5>1. Cardinality(Occurrences(confirmed[k] \o run, e)) = c + d
          BY <1>1, <2>3, OccursConcat
        <5> QED
          BY <3>4, <5>1
      <4> DEFINE l == lostAcks
                 m == lostAcks'
      <4>2. l \in Nat /\ m \in Nat /\ l <= m /\ r <= c + l
        BY <1>1, <1>3, <3>1
      <4> HIDE DEF r, c, d, l, m
      <4>3. c + d <= r + d /\ r + d <= c + d + m
        BY <3>1, <3>2, <4>2
      <4> QED
        BY <3>3, <4>1, <4>3 DEF m
    <3>5. CASE confirmed'[k] = confirmed[k]
      <4>1. lostAcks' = lostAcks + 1
        BY <1>3, <2>6, <3>5
      <4>2. Cardinality(Occurrences(confirmed'[k], e)) = c
        BY <3>5
      <4> HIDE DEF r, c, d
      <4> QED
        BY <1>1, <3>1, <3>2, <3>3, <4>1, <4>2
    <3> QED
      BY <2>4, <3>4, <3>5
  <2> QED
    BY <2>7, <2>8
<1> QED
  BY <1>4, <1>5, <1>6, StepLogged

(* The whole inductive invariant.                                          *)
THEOREM InductiveInvariant == Spec => []IInv
<1>1. Init => IInv
  <2>1. Init => LastFlushCancelled /\ RowsConfirmed
    BY DEF Init, LastFlushCancelled, RowsConfirmed
  <2>2. Init => AppendedInOrder
    BY EmptySeq DEF Init, AppendedInOrder, InReadingOrder
  <2>3. Init => CopiesAreDue
    <3> SUFFICES ASSUME Init PROVE CopiesAreDue
      OBVIOUS
    <3>1. \A k \in Kind : rows[k] = <<>> /\ confirmed[k] = <<>>
      BY DEF Init
    <3>2. /\ Elements(<<>>) = {} /\ \A e : Occurrences(<<>>, e) = {}
          /\ Cardinality({}) = 0 /\ lostAcks = 0
      BY FS_EmptySet DEF Init, Elements, Occurrences
    <3> QED
      BY <3>1, <3>2 DEF CopiesAreDue
  <2>4. QED
    BY InitTyped, InitConserved, <2>1, <2>2, <2>3 DEF IInv
<1>2. IInv /\ [Next]_vars => IInv'
  BY StepTyped, StepConserved, StepLastFlush, StepRowsConfirmed,
     StepAppendedInOrder, StepCopies DEF IInv
<1>3. QED
  BY <1>1, <1>2, PTL DEF Spec

(* As long as no acknowledgement was lost, every table holds the events of *)
(* a source once each and in the order the source read them, whatever      *)
(* inserts failed and were retried (hub.go, flushAll).                     *)
THEOREM RowsAreOrdered == Spec => []ExactlyOnceInOrder
<1>1. IInv => ExactlyOnceInOrder
  BY InvariantGivesOrder
<1>2. QED
  BY <1>1, InductiveInvariant, PTL

(* From the invariant: the confirmed events are a prefix of the accepted   *)
(* ones, so each is confirmed once at most, and what is not confirmed is   *)
(* held.                                                                   *)
LEMMA InvariantGivesCopies == IInv => StoredAtLeastOnce
<1> SUFFICES ASSUME IInv, NEW k \in Kind, NEW e \in Event
             PROVE  LET copies == Cardinality(Occurrences(rows[k], e))
                    IN  IF e \in Elements(accepted[k])
                        THEN /\ copies <= 1 + lostAcks
                             /\ copies >= 1 \/ e \in Elements(taken[k] \o buf[k])
                        ELSE copies = 0
  BY DEF StoredAtLeastOnce
<1> DEFINE copies == Cardinality(Occurrences(rows[k], e))
           due == Cardinality(Occurrences(confirmed[k], e))
           c == confirmed[k]
           held == taken[k] \o buf[k]
<1>1. /\ c \in Seq(Event) /\ rows[k] \in Seq(Event) /\ held \in Seq(Event)
      /\ lostAcks \in Nat
  BY EventConcat DEF IInv, TypeOK
<1>2. accepted[k] = c \o held
  BY DEF IInv, Conserved
<1>3. InReadingOrder(c)
  <2>1. InReadingOrder(c \o held)
    BY <1>2 DEF IInv, AppendedInOrder
  <2> HIDE DEF c, held
  <2> QED
    BY <1>1, <2>1, PrefixInOrder
<1>4. due <= copies /\ copies <= due + lostAcks /\ Elements(rows[k]) \subseteq Elements(accepted[k])
  BY DEF IInv, CopiesAreDue
<1>5. due \in Nat /\ due <= 1 /\ (due = 0 <=> e \notin Elements(c))
  BY <1>1, <1>3, OccursFinite, OccursOnce
<1>6. copies \in Nat /\ (copies = 0 <=> e \notin Elements(rows[k]))
  BY <1>1, OccursFinite
<1>7. Elements(accepted[k]) = Elements(c) \cup Elements(held)
  <2> HIDE DEF c, held
  <2> QED
    BY <1>1, <1>2, ConcatElements
<1> HIDE DEF copies, due, c, held
<1>8. CASE e \in Elements(accepted[k])
  <2>1. copies <= 1 + lostAcks
    BY <1>1, <1>4, <1>5, <1>6
  <2>2. copies >= 1 \/ e \in Elements(held)
    BY <1>4, <1>5, <1>6, <1>7, <1>8
  <2> QED
    BY <1>8, <2>1, <2>2 DEF copies, held
<1>9. CASE e \notin Elements(accepted[k])
  BY <1>4, <1>6, <1>9 DEF copies
<1> QED
  BY <1>8, <1>9

(* The tables have what was accepted: once and in order as long as no      *)
(* acknowledgement was lost, and otherwise each event at least once unless *)
(* the hub still holds it, and once more at most for every acknowledgement *)
(* that was lost.                                                          *)
THEOREM RowsAreAccepted == Spec => []StoredAsAccepted
<1>1. IInv => StoredAsAccepted
  BY InvariantGivesOrder, InvariantGivesCopies DEF StoredAsAccepted
<1>2. QED
  BY <1>1, InductiveInvariant, PTL

-----------------------------------------------------------------------------
(* No observer but the ring is ahead of the buffers.                       *)

LEMMA TailElements ==
  ASSUME NEW q \in Seq(Event), q # <<>>
  PROVE  Elements(Tail(q)) \subseteq Elements(q)
<1>1. /\ Len(Tail(q)) = Len(q) - 1 /\ Len(q) \in Nat
      /\ \A i \in 1..Len(Tail(q)) : Tail(q)[i] = q[i + 1]
  BY HeadTailProperties, LenProperties
<1>2. \A i \in 1..Len(Tail(q)) : i + 1 \in 1..Len(q)
  BY <1>1
<1>3. QED
  BY <1>1, <1>2 DEF Elements

(* A push into a ring that is not full afterwards displaces nothing.       *)
LEMMA PushedElements ==
  ASSUME ring \in Seq(Event), NEW e \in Event, Len(Ring!Pushed(e)) < RingCapacity
  PROVE  Len(ring) < RingCapacity /\ Elements(ring) \cup {e} \subseteq Elements(Ring!Pushed(e))
<1> DEFINE n == IF Len(ring) + 1 < RingCapacity THEN Len(ring) + 1 ELSE RingCapacity
           p == Ring!Pushed(e)
<1>1. p = [i \in 1..n |-> IF i = 1 THEN e ELSE ring[i - 1]]
  BY DEF Ring!Pushed, Ring!Smaller
<1>2. n \in Nat /\ Len(p) = n
  BY <1>1
<1>3. n = Len(ring) + 1 /\ Len(ring) \in Nat
  BY <1>2
<1>4. p[1] = e /\ 1 \in 1..Len(p)
  BY <1>1, <1>2, <1>3
<1>5. ASSUME NEW i \in 1..Len(ring)
      PROVE  i + 1 \in 1..Len(p) /\ p[i + 1] = ring[i]
  BY <1>1, <1>2, <1>3
<1>6. Elements(ring) \cup {e} \subseteq Elements(p)
  <2> HIDE DEF p, n
  <2> QED
    BY <1>4, <1>5 DEF Elements
<1>7. QED
  BY <1>2, <1>3, <1>6

LEMMA InitObserved == Init => ObservedInv
<1> SUFFICES ASSUME Init PROVE ObservedInv
  OBVIOUS
<1>1. Elements(<<>>) = {}
  BY DEF Elements
<1>2. CountedIsAppended
  <2>1. \A s \in Source : Appended(s) = 0 /\ recorded[s] = 0 /\ at[s] # "record"
    BY DEF Init, Appended
  <2>2. 1..0 = {}
    OBVIOUS
  <2>3. QED
    BY <2>1, <2>2 DEF CountedIsAppended
<1>3. BroadcastIsCounted /\ RingHoldsTrades
  BY <1>1 DEF Init, BroadcastIsCounted, RingHoldsTrades, Kind
<1>4. QED
  BY <1>2, <1>3 DEF ObservedInv

LEMMA StepObserved == TypeOK /\ ObservedInv /\ [Next]_vars => ObservedInv'
<1> SUFFICES ASSUME TypeOK, ObservedInv, [Next]_vars PROVE ObservedInv'
  OBVIOUS
<1> USE DEF sourceVars, flushVars, storeVars
<1>1. /\ \A s \in Source : /\ current[s] \in Event /\ current[s].src = s
                           /\ current[s].seq \in Nat /\ current[s].kind \in Kind
                           /\ recorded[s] \in Nat
      /\ \A k \in Kind : accepted[k] \in Seq(Event)
      /\ broadcast \in Seq(Event) /\ ring \in Seq(Event)
  BY EventFields DEF TypeOK
<1>2. \A e \in Elements(broadcast) : e.src \in Source /\ e.seq \in Nat
  <2>1. \A e \in Elements(broadcast) : e \in Event
    BY <1>1, ElementOfSeq DEF Elements
  <2>2. QED
    BY <2>1, EventFields
<1>3. CountedIsAppended /\ BroadcastIsCounted /\ RingHoldsTrades
  BY DEF ObservedInv
<1>4. CASE UNCHANGED <<at, current, ring, recorded, broadcast, accepted>>
  BY <1>3, <1>4 DEF ObservedInv, CountedIsAppended, Appended, BroadcastIsCounted,
                    RingHoldsTrades
<1>5. ASSUME NEW s \in Source, Receive(s) PROVE ObservedInv'
  <2>1. PICK k \in Kind :
          /\ current' = [current EXCEPT ![s] =
                           [src |-> s, seq |-> current[s].seq + 1, kind |-> k]]
          /\ at' = [at EXCEPT ![s] = IF k = "trade" THEN "push" ELSE "append"]
    BY <1>5 DEF Receive
  <2>2. at[s] = "reading" /\ UNCHANGED <<ring, recorded, broadcast, accepted>>
    BY <1>5 DEF Receive
  <2>3. /\ current'[s] = [src |-> s, seq |-> current[s].seq + 1, kind |-> k]
        /\ at'[s] \in {"push", "append"} /\ (at'[s] = "append" => k # "trade")
        /\ \A t \in Source \ {s} : current'[t] = current[t] /\ at'[t] = at[t]
    BY <2>1 DEF TypeOK
  <2>4. Appended(s)' = Appended(s) /\ at'[s] # "record"
    BY <1>1, <2>2, <2>3 DEF Appended
  <2>5. \A t \in Source \ {s} : Appended(t)' = Appended(t)
    BY <2>3 DEF Appended
  <2>6. CountedIsAppended'
    BY <1>3, <2>2, <2>3, <2>4, <2>5 DEF CountedIsAppended
  <2>7. BroadcastIsCounted' /\ RingHoldsTrades'
    BY <1>3, <2>2, <2>3 DEF BroadcastIsCounted, RingHoldsTrades
  <2>8. QED
    BY <2>6, <2>7 DEF ObservedInv
<1>6. ASSUME NEW s \in Source, PushRing(s) PROVE ObservedInv'
  <2>1. /\ at[s] = "push" /\ at' = [at EXCEPT ![s] = "append"]
        /\ ring' = Ring!Pushed(current[s])
        /\ UNCHANGED <<current, recorded, broadcast, accepted>>
    BY <1>6 DEF PushRing, Ring!Push
  <2>2. at'[s] = "append" /\ \A t \in Source \ {s} : at'[t] = at[t]
    BY <2>1 DEF TypeOK
  <2>3. \A t \in Source : Appended(t)' = Appended(t)
    BY <2>1, <2>2 DEF Appended
  <2>4. CountedIsAppended' /\ BroadcastIsCounted'
    BY <1>3, <2>1, <2>2, <2>3 DEF CountedIsAppended, BroadcastIsCounted
  <2>5. RingHoldsTrades'
    <3> SUFFICES ASSUME Len(ring') < RingCapacity
                 PROVE  /\ Elements(accepted["trade"]) \subseteq Elements(ring')
                        /\ \A t \in Source : at'[t] = "append" /\ current[t].kind = "trade"
                             => current[t] \in Elements(ring')
      BY <2>1 DEF RingHoldsTrades
    <3>1. Len(ring) < RingCapacity /\ Elements(ring) \cup {current[s]} \subseteq Elements(ring')
      BY <1>1, <2>1, PushedElements
    <3>2. QED
      BY <1>3, <2>2, <3>1 DEF RingHoldsTrades
  <2>6. QED
    BY <2>4, <2>5 DEF ObservedInv
<1>7. ASSUME NEW s \in Source, AppendBuffer(s) PROVE ObservedInv'
  <2> DEFINE e == current[s]
  <2>1. /\ at[s] = "append" /\ at' = [at EXCEPT ![s] = "record"]
        /\ accepted' = [accepted EXCEPT ![e.kind] = Append(@, e)]
        /\ UNCHANGED <<current, ring, recorded, broadcast>>
    BY <1>7 DEF AppendBuffer
  <2>2. at'[s] = "record" /\ \A t \in Source \ {s} : at'[t] = at[t]
    BY <2>1 DEF TypeOK
  <2>3. /\ Elements(accepted'[e.kind]) = Elements(accepted[e.kind]) \cup {e}
        /\ \A k \in Kind \ {e.kind} : accepted'[k] = accepted[k]
    <3>1. accepted'[e.kind] = Append(accepted[e.kind], e)
      BY <1>1, <2>1 DEF TypeOK
    <3>2. \A k \in Kind \ {e.kind} : accepted'[k] = accepted[k]
      BY <2>1 DEF TypeOK
    <3>3. QED
      BY <1>1, <3>1, <3>2, AppendElements
  <2>4. \A k \in Kind : Elements(accepted[k]) \subseteq Elements(accepted'[k])
    BY <2>3
  <2>5. /\ Appended(s) = e.seq - 1 /\ Appended(s)' = e.seq
        /\ \A t \in Source \ {s} : Appended(t)' = Appended(t)
    BY <2>1, <2>2 DEF Appended
  <2>6. CountedIsAppended'
    <3>1. ASSUME NEW t \in Source, NEW n \in 1..Appended(t)
          PROVE  \E k \in Kind : [src |-> t, seq |-> n, kind |-> k] \in Elements(accepted'[k])
      BY <1>3, <2>4 DEF CountedIsAppended
    <3>2. [src |-> s, seq |-> e.seq, kind |-> e.kind] \in Elements(accepted'[e.kind])
      <4>1. e = [src |-> s, seq |-> e.seq, kind |-> e.kind]
        BY <1>1 DEF Event
      <4>2. QED
        BY <2>3, <4>1
    <3>3. \A n \in 1..e.seq : n \in 1..Appended(s) \/ n = e.seq
      BY <1>1, <2>5
    <3>4. ASSUME NEW n \in 1..e.seq
          PROVE  \E k \in Kind : [src |-> s, seq |-> n, kind |-> k] \in Elements(accepted'[k])
      BY <1>1, <3>1, <3>2, <3>3
    <3>5. ASSUME NEW t \in Source, NEW n \in 1..(Appended(t)')
          PROVE  \E k \in Kind : [src |-> t, seq |-> n, kind |-> k] \in Elements(accepted'[k])
      BY <2>5, <3>1, <3>4, <3>5
    <3>6. ASSUME NEW t \in Source
          PROVE  recorded'[t] = IF at'[t] = "record" THEN current'[t].seq - 1 ELSE Appended(t)'
      BY <1>3, <2>1, <2>2, <2>5, <3>6 DEF CountedIsAppended
    <3>7. QED
      BY <3>5, <3>6 DEF CountedIsAppended
  <2>7. BroadcastIsCounted'
    BY <1>3, <2>1 DEF BroadcastIsCounted
  <2>8. RingHoldsTrades'
    <3> SUFFICES ASSUME Len(ring) < RingCapacity
                 PROVE  /\ Elements(accepted'["trade"]) \subseteq Elements(ring)
                        /\ \A t \in Source : at'[t] = "append" /\ current[t].kind = "trade"
                             => current[t] \in Elements(ring)
      BY <2>1 DEF RingHoldsTrades
    <3>1. e.kind = "trade" => e \in Elements(ring)
      BY <1>3, <2>1 DEF RingHoldsTrades
    <3>2. Elements(accepted["trade"]) \subseteq Elements(ring) /\ "trade" \in Kind
      BY <1>3 DEF RingHoldsTrades, Kind
    <3>3. Elements(accepted'["trade"]) \subseteq Elements(ring)
      BY <2>3, <3>1, <3>2
    <3>4. QED
      BY <1>3, <2>2, <3>3 DEF RingHoldsTrades
  <2>9. QED
    BY <2>6, <2>7, <2>8 DEF ObservedInv
<1>8. ASSUME NEW s \in Source, RecordMetrics(s) PROVE ObservedInv'
  <2>1. /\ at[s] = "record" /\ at' = [at EXCEPT ![s] = "offer"]
        /\ recorded' = [recorded EXCEPT ![s] = current[s].seq]
        /\ UNCHANGED <<current, ring, broadcast, accepted>>
    BY <1>8 DEF RecordMetrics
  <2>2. /\ at'[s] = "offer" /\ recorded'[s] = current[s].seq
        /\ \A t \in Source \ {s} : at'[t] = at[t] /\ recorded'[t] = recorded[t]
    BY <2>1 DEF TypeOK
  <2>3. \A t \in Source : Appended(t)' = Appended(t)
    BY <2>1, <2>2 DEF Appended
  <2>4. Appended(s) = current[s].seq
    BY <2>1 DEF Appended
  <2>5. CountedIsAppended'
    BY <1>3, <2>1, <2>2, <2>3, <2>4 DEF CountedIsAppended
  <2>6. \A t \in Source : recorded[t] <= recorded'[t]
    <3>1. recorded[s] = current[s].seq - 1
      BY <1>3, <2>1 DEF CountedIsAppended
    <3>2. QED
      BY <1>1, <2>2, <3>1
  <2>7. BroadcastIsCounted'
    <3> SUFFICES ASSUME NEW e \in Elements(broadcast) PROVE e.seq <= recorded'[e.src]
      BY <2>1 DEF BroadcastIsCounted
    <3>1. e.seq <= recorded[e.src]
      BY <1>3 DEF BroadcastIsCounted
    <3>2. recorded'[e.src] \in Nat /\ recorded[e.src] \in Nat /\ recorded[e.src] <= recorded'[e.src]
      BY <1>1, <1>2, <2>2, <2>6
    <3>3. QED
      BY <1>2, <3>1, <3>2
  <2>8. RingHoldsTrades'
    BY <1>3, <2>1, <2>2 DEF RingHoldsTrades
  <2>9. QED
    BY <2>5, <2>7, <2>8 DEF ObservedInv
<1>9. ASSUME NEW s \in Source, OfferBroadcast(s) PROVE ObservedInv'
  <2>1. /\ at[s] = "offer" /\ at' = [at EXCEPT ![s] = "reading"]
        /\ broadcast' \in {broadcast, Append(broadcast, current[s])}
        /\ UNCHANGED <<current, ring, recorded, accepted>>
    BY <1>9 DEF OfferBroadcast
  <2>2. at'[s] = "reading" /\ \A t \in Source \ {s} : at'[t] = at[t]
    BY <2>1 DEF TypeOK
  <2>3. \A t \in Source : Appended(t)' = Appended(t)
    BY <2>1, <2>2 DEF Appended
  <2>4. CountedIsAppended' /\ RingHoldsTrades'
    BY <1>3, <2>1, <2>2, <2>3 DEF CountedIsAppended, RingHoldsTrades
  <2>5. current[s].seq <= recorded[s]
    <3>1. recorded[s] = Appended(s)
      BY <1>3, <2>1 DEF CountedIsAppended
    <3>2. Appended(s) = current[s].seq
      BY <2>1 DEF Appended
    <3>3. QED
      BY <1>1, <3>1, <3>2
  <2>6. Elements(broadcast') \subseteq Elements(broadcast) \cup {current[s]}
    <3>1. Elements(Append(broadcast, current[s])) = Elements(broadcast) \cup {current[s]}
      BY <1>1, AppendElements
    <3>2. CASE broadcast' = broadcast
      BY <3>2
    <3>3. CASE broadcast' = Append(broadcast, current[s])
      BY <3>1, <3>3
    <3>4. QED
      BY <2>1, <3>2, <3>3
  <2>7. BroadcastIsCounted'
    BY <1>1, <1>3, <2>1, <2>5, <2>6 DEF BroadcastIsCounted
  <2>8. QED
    BY <2>4, <2>7 DEF ObservedInv
<1>10. ASSUME NEW s \in Source, Leave(s) PROVE ObservedInv'
  <2>1. /\ at[s] = "reading" /\ at' = [at EXCEPT ![s] = "exited"]
        /\ UNCHANGED <<current, ring, recorded, broadcast, accepted>>
    BY <1>10 DEF Leave
  <2>2. at'[s] = "exited" /\ \A t \in Source \ {s} : at'[t] = at[t]
    BY <2>1 DEF TypeOK
  <2>3. \A t \in Source : Appended(t)' = Appended(t)
    BY <2>1, <2>2 DEF Appended
  <2>4. CountedIsAppended' /\ BroadcastIsCounted' /\ RingHoldsTrades'
    BY <1>3, <2>1, <2>2, <2>3 DEF CountedIsAppended, BroadcastIsCounted, RingHoldsTrades
  <2>5. QED
    BY <2>4 DEF ObservedInv
<1>11. CASE DrainBroadcast
  <2>1. /\ broadcast # <<>> /\ broadcast' = Tail(broadcast)
        /\ UNCHANGED <<at, current, ring, recorded, accepted>>
    BY <1>11 DEF DrainBroadcast
  <2>2. Elements(broadcast') \subseteq Elements(broadcast)
    BY <1>1, <2>1, TailElements
  <2>3. QED
    BY <1>3, <2>1, <2>2 DEF ObservedInv, CountedIsAppended, Appended, BroadcastIsCounted,
                            RingHoldsTrades
<1>12. QED
  <2>1. \/ UNCHANGED <<at, current, ring, recorded, broadcast, accepted>>
        \/ \E s \in Source : Receive(s) \/ PushRing(s) \/ AppendBuffer(s)
             \/ RecordMetrics(s) \/ OfferBroadcast(s) \/ Leave(s)
        \/ DrainBroadcast
    BY DEF Next, Handle, FlushStep, vars, TickerFires, WakeOnTick, WakeOnDone, TakeBuffer,
           AcquireConnection, InsertSucceeds, InsertFails, InsertUnacknowledged, Requeue,
           Cancel, StopReturns, DatabaseChanges
  <2>2. QED
    BY <1>4, <1>5, <1>6, <1>7, <1>8, <1>9, <1>10, <1>11, <2>1

(* The trades that the ring has and the buffers have not.                  *)
InHand(e) == \E s \in Source : at[s] = "append" /\ current[s] = e

HandInv ==
  /\ \A s \in Source : at[s] = "push" => current[s].kind = "trade"
  /\ \A e \in Elements(ring) :
       e.kind = "trade" /\ (e \in Elements(accepted["trade"]) \/ InHand(e))

(* A push adds its item to the ring and no other.                          *)
LEMMA PushedNoOther ==
  ASSUME ring \in Seq(Event), NEW e \in Event, RingCapacity \in Nat
  PROVE  Elements(Ring!Pushed(e)) \subseteq Elements(ring) \cup {e}
<1> DEFINE n == IF Len(ring) + 1 < RingCapacity THEN Len(ring) + 1 ELSE RingCapacity
           p == Ring!Pushed(e)
<1>1. p = [i \in 1..n |-> IF i = 1 THEN e ELSE ring[i - 1]]
  BY DEF Ring!Pushed, Ring!Smaller
<1>2. n \in Nat /\ Len(p) = n /\ Len(ring) \in Nat /\ n <= Len(ring) + 1
  BY <1>1
<1>3. ASSUME NEW i \in 1..n PROVE p[i] = e \/ (i - 1 \in 1..Len(ring) /\ p[i] = ring[i - 1])
  BY <1>1, <1>2
<1> HIDE DEF p, n
<1>4. QED
  BY <1>2, <1>3 DEF Elements, p

LEMMA InitHand == Init => HandInv
  BY DEF Init, HandInv, Elements

LEMMA StepHand == TypeOK /\ HandInv /\ [Next]_vars => HandInv'
<1> SUFFICES ASSUME TypeOK, HandInv, [Next]_vars PROVE HandInv'
  OBVIOUS
<1> USE DEF sourceVars, flushVars, storeVars
<1>1. /\ \A s \in Source : current[s] \in Event /\ current[s].kind \in Kind
      /\ \A k \in Kind : accepted[k] \in Seq(Event)
      /\ ring \in Seq(Event) /\ RingCapacity \in Nat /\ "trade" \in Kind
  BY EventFields DEF TypeOK, Kind
<1>2. CASE UNCHANGED <<at, current, ring, accepted>>
  BY <1>2 DEF HandInv, InHand
<1>3. ASSUME NEW s \in Source, Receive(s) PROVE HandInv'
  <2>1. PICK k \in Kind :
          /\ current' = [current EXCEPT ![s] =
                           [src |-> s, seq |-> current[s].seq + 1, kind |-> k]]
          /\ at' = [at EXCEPT ![s] = IF k = "trade" THEN "push" ELSE "append"]
    BY <1>3 DEF Receive
  <2>2. at[s] = "reading" /\ UNCHANGED <<ring, accepted>>
    BY <1>3 DEF Receive
  <2>3. /\ current'[s].kind = k /\ (at'[s] = "push" => k = "trade")
        /\ \A t \in Source \ {s} : current'[t] = current[t] /\ at'[t] = at[t]
    BY <2>1 DEF TypeOK
  <2>4. QED
    BY <2>2, <2>3 DEF HandInv, InHand
<1>4. ASSUME NEW s \in Source, PushRing(s) PROVE HandInv'
  <2>1. /\ at[s] = "push" /\ at' = [at EXCEPT ![s] = "append"]
        /\ ring' = Ring!Pushed(current[s])
        /\ UNCHANGED <<current, accepted>>
    BY <1>4 DEF PushRing, Ring!Push
  <2>2. at'[s] = "append" /\ \A t \in Source \ {s} : at'[t] = at[t]
    BY <2>1 DEF TypeOK
  <2>3. Elements(ring') \subseteq Elements(ring) \cup {current[s]}
    BY <1>1, <2>1, PushedNoOther
  <2>4. current[s].kind = "trade"
    BY <2>1 DEF HandInv
  <2>5. QED
    BY <2>1, <2>2, <2>3, <2>4 DEF HandInv, InHand
<1>5. ASSUME NEW s \in Source, AppendBuffer(s) PROVE HandInv'
  <2> DEFINE e == current[s]
  <2>1. /\ at[s] = "append" /\ at' = [at EXCEPT ![s] = "record"]
        /\ accepted' = [accepted EXCEPT ![e.kind] = Append(@, e)]
        /\ UNCHANGED <<current, ring>>
    BY <1>5 DEF AppendBuffer
  <2>2. at'[s] = "record" /\ \A t \in Source \ {s} : at'[t] = at[t]
    BY <2>1 DEF TypeOK
  <2>3. /\ accepted'[e.kind] = Append(accepted[e.kind], e)
        /\ \A k \in Kind \ {e.kind} : accepted'[k] = accepted[k]
    BY <1>1, <2>1 DEF TypeOK
  <2>4. Elements(accepted'[e.kind]) = Elements(accepted[e.kind]) \cup {e}
    BY <1>1, <2>3, AppendElements
  <2>5. Elements(accepted["trade"]) \subseteq Elements(accepted'["trade"])
    BY <1>1, <2>3, <2>4
  <2>6. e.kind = "trade" => e \in Elements(accepted'["trade"])
    BY <2>4
  <2>7. QED
    BY <2>1, <2>2, <2>5, <2>6 DEF HandInv, InHand
<1>6. ASSUME NEW s \in Source, at[s] \notin {"push", "append"},
             at' = [at EXCEPT ![s] = at'[s]], at'[s] \notin {"push", "append"},
             UNCHANGED <<current, ring, accepted>>
      PROVE  HandInv'
  <2>1. \A t \in Source \ {s} : at'[t] = at[t]
    BY <1>6 DEF TypeOK
  <2>2. QED
    BY <1>6, <2>1 DEF HandInv, InHand
<1>7. ASSUME NEW s \in Source, RecordMetrics(s) \/ OfferBroadcast(s) \/ Leave(s) PROVE HandInv'
  <2>1. /\ at[s] \notin {"push", "append"} /\ at'[s] \notin {"push", "append"}
        /\ at' = [at EXCEPT ![s] = at'[s]]
        /\ UNCHANGED <<current, ring, accepted>>
    BY <1>7 DEF RecordMetrics, OfferBroadcast, Leave, TypeOK
  <2>2. QED
    BY <1>6, <2>1
<1>8. QED
  <2>1. \/ UNCHANGED <<at, current, ring, accepted>>
        \/ \E s \in Source : Receive(s) \/ PushRing(s) \/ AppendBuffer(s)
             \/ RecordMetrics(s) \/ OfferBroadcast(s) \/ Leave(s)
    BY DEF Next, Handle, FlushStep, vars, TickerFires, WakeOnTick, WakeOnDone, TakeBuffer,
           AcquireConnection, InsertSucceeds, InsertFails, InsertUnacknowledged, Requeue,
           Cancel, StopReturns, DatabaseChanges, DrainBroadcast
  <2>2. QED
    BY <1>2, <1>3, <1>4, <1>5, <1>7, <2>1

(* The live subscribers are not ahead of the metrics, the metrics not of   *)
(* the buffers, and the ring of the buffers only by the trades in hand,    *)
(* however the handlers of several sources interleave (hub.go,             *)
(* handleTrade).                                                           *)
THEOREM ObserversAreBehind == Spec => []ObservedIsAccepted
<1>1. Init => TypeOK /\ SliceHeld /\ ObservedInv /\ HandInv
  BY InitTyped, InitObserved, InitHand
<1>2. (TypeOK /\ SliceHeld /\ ObservedInv /\ HandInv) /\ [Next]_vars
        => (TypeOK /\ SliceHeld /\ ObservedInv /\ HandInv)'
  BY StepTyped, StepObserved, StepHand
<1>3. TypeOK /\ ObservedInv /\ HandInv => ObservedIsAccepted
  <2> SUFFICES ASSUME TypeOK, ObservedInv, HandInv PROVE ObservedIsAccepted
    OBVIOUS
  <2>1. BroadcastIsCounted /\ CountedIsAppended /\ RingHoldsTrades
    BY DEF ObservedInv
  <2>2. \A s \in Source : current[s].seq \in Nat
    <3>1. \A e \in Event : e.seq \in Nat
      BY EventFields
    <3>2. QED
      BY <3>1 DEF TypeOK
  <2>3. \A s \in Source : recorded[s] \in Nat /\ recorded[s] <= Appended(s)
    <3>1. \A s \in Source :
            /\ recorded[s] \in Nat
            /\ recorded[s] = IF at[s] = "record" THEN current[s].seq - 1 ELSE Appended(s)
      BY <2>1 DEF CountedIsAppended, TypeOK
    <3>2. \A s \in Source : at[s] = "record" => Appended(s) = current[s].seq
      BY DEF Appended
    <3>3. ASSUME NEW s \in Source PROVE recorded[s] <= Appended(s)
      <4>1. CASE at[s] = "record"
        BY <2>2, <3>1, <3>2, <4>1
      <4>2. CASE at[s] # "record"
        <5>1. recorded[s] = Appended(s) /\ recorded[s] \in Nat
          BY <3>1, <4>2
        <5>2. QED
          BY <5>1
      <4>3. QED
        BY <4>1, <4>2
    <3>4. QED
      BY <3>1, <3>3
  <2>4. \A s \in Source : \A n \in 1..recorded[s] : n \in 1..Appended(s)
    BY <2>2, <2>3 DEF Appended
  <2>5. QED
    BY <2>1, <2>4 DEF ObservedIsAccepted, BroadcastIsCounted, CountedIsAppended,
                      RingHoldsTrades, HandInv, InHand
<1>4. QED
  BY <1>1, <1>2, <1>3, PTL DEF Spec
=============================================================================
