---------------------------- MODULE TradePipeline ----------------------------
(***************************************************************************)
(* The path of trades and liquidations through internal/hub: the reading   *)
(* goroutines of the connectors call handleTrade / handleLiquidation,      *)
(* which push to the ring, append to a buffer, record metrics and offer    *)
(* the event to the WebSocket hub; flushLoop takes the buffers once a      *)
(* second, inserts them and puts back what was not inserted; Stop cancels  *)
(* the context and waits for the goroutines it knows.                      *)
(*                                                                         *)
(* A critical section (one Lock .. Unlock) is one action.                  *)
(***************************************************************************)
EXTENDS Integers, Sequences, FiniteSets

CONSTANTS
  Source,             \* goroutines that read a connection and call the handlers
  Detached,           \* those no Run waits for (the groups of bybit and kraken)
  EventsOf,           \* bound: how many events each source reads
  RingCapacity,       \* capacity of the ring of recent trades
  BroadcastCapacity,  \* capacity of the broadcast channel of the WebSocket hub
  MaxLostAcks         \* bound: commits whose acknowledgement is lost

ASSUME PipelineAssumption ==
  /\ Detached \subseteq Source
  /\ EventsOf \in [Source -> Nat]
  /\ RingCapacity \in Nat \ {0}
  /\ BroadcastCapacity \in Nat \ {0}
  /\ MaxLostAcks \in Nat

Kind == {"trade", "liquidation"}

(* Events are told apart by the source that read them and their number     *)
(* there; number 0 stands for "nothing read yet".                          *)
Event == UNION {[src : {s}, seq : 0..EventsOf[s], kind : Kind] : s \in Source}

VARIABLES
  \* the sources
  at,          \* where each source is in its read loop or in a handler
  current,     \* the event each source read last
  \* the hub
  ring,        \* tradeRing, newest first
  buf,         \* tradeBuf and liquidationBuf
  recorded,    \* metricsRegistry: how many events of each source it has seen
  broadcast,   \* channel into the WebSocket hub
  \* flushLoop
  tick,        \* the ticker's channel holds a tick
  flushAt,     \* where flushLoop is
  flushKind,   \* which half of flushAll runs
  taken,       \* the local slices trades and liqs[i:] of flushAll
  lastFlush,   \* flushAll was called for ctx.Done: flushLoop returns after it
  \* life cycle
  ctxDone,     \* h.ctx is cancelled
  stopped,     \* Stop has returned
  \* the database, and observers
  dbUp,        \* the database can be reached
  lostAcks,    \* commits whose acknowledgement was lost
  accepted,    \* events appended to each buffer, in order
  confirmed,   \* events whose insertion returned nil, in order
  rows         \* the rows of each table, in order

sourceVars == <<at, current>>
flushVars == <<flushAt, flushKind, taken, lastFlush>>
storeVars == <<lostAcks, confirmed, rows>>
vars == <<at, current, ring, buf, recorded, broadcast, tick, flushAt,
          flushKind, taken, lastFlush, ctxDone, stopped, dbUp, lostAcks,
          accepted, confirmed, rows>>

Ring == INSTANCE RecentLog
          WITH Item <- Event, Capacity <- RingCapacity, recent <- ring

Init ==
  /\ at = [s \in Source |-> "reading"]
  /\ current = [s \in Source |-> [src |-> s, seq |-> 0, kind |-> "trade"]]
  /\ ring = <<>>
  /\ buf = [k \in Kind |-> <<>>]
  /\ recorded = [s \in Source |-> 0]
  /\ broadcast = <<>>
  /\ tick = FALSE
  /\ flushAt = "select"
  /\ flushKind = "trade"
  /\ taken = [k \in Kind |-> <<>>]
  /\ lastFlush = FALSE
  /\ ctxDone = FALSE
  /\ stopped = FALSE
  /\ dbUp = TRUE
  /\ lostAcks = 0
  /\ accepted = [k \in Kind |-> <<>>]
  /\ confirmed = [k \in Kind |-> <<>>]
  /\ rows = [k \in Kind |-> <<>>]

-----------------------------------------------------------------------------
(* The sources.                                                            *)

(* Variant with a defect: trades are not pushed to the ring.               *)
ReceiveSkipsRing(s) ==
  /\ at[s] = "reading"
  /\ current[s].seq < EventsOf[s]
  /\ \E k \in Kind :
       current' = [current EXCEPT ![s] =
                     [src |-> s, seq |-> current[s].seq + 1, kind |-> k]]
  /\ at' = [at EXCEPT ![s] = "append"]
  /\ UNCHANGED <<ring, buf, recorded, broadcast, tick, flushVars, ctxDone,
                 stopped, dbUp, storeVars, accepted>>

(* A message arrives and the handler of its event is entered. The read is  *)
(* not interrupted by the cancellation, so this may happen after it.       *)
Receive(s) ==
  /\ at[s] = "reading"
  /\ current[s].seq < EventsOf[s]
  /\ \E k \in Kind :
       /\ current' = [current EXCEPT ![s] =
                        [src |-> s, seq |-> current[s].seq + 1, kind |-> k]]
       /\ at' = [at EXCEPT ![s] = IF k = "trade" THEN "push" ELSE "append"]
  /\ UNCHANGED <<ring, buf, recorded, broadcast, tick, flushVars, ctxDone,
                 stopped, dbUp, storeVars, accepted>>

(* h.tradeRing.Push(t)                                                     *)
PushRing(s) ==
  /\ at[s] = "push"
  /\ Ring!Push(current[s])
  /\ at' = [at EXCEPT ![s] = "append"]
  /\ UNCHANGED <<current, buf, recorded, broadcast, tick, flushVars, ctxDone,
                 stopped, dbUp, storeVars, accepted>>

(* The append to tradeBuf or liquidationBuf, under its mutex.              *)
AppendBuffer(s) ==
  LET e == current[s] IN
  /\ at[s] = "append"
  /\ buf' = [buf EXCEPT ![e.kind] = Append(@, e)]
  /\ accepted' = [accepted EXCEPT ![e.kind] = Append(@, e)]
  /\ at' = [at EXCEPT ![s] = "record"]
  /\ UNCHANGED <<current, ring, recorded, broadcast, tick, flushVars, ctxDone,
                 stopped, dbUp, storeVars>>

(* metricsRegistry.RecordTrade / RecordLiquidation                         *)
RecordMetrics(s) ==
  /\ at[s] = "record"
  /\ recorded' = [recorded EXCEPT ![s] = current[s].seq]
  /\ at' = [at EXCEPT ![s] = "offer"]
  /\ UNCHANGED <<current, ring, buf, broadcast, tick, flushVars, ctxDone,
                 stopped, dbUp, storeVars, accepted>>

(* Variant with a defect: a full channel does not stop the message.        *)
OfferUnbounded(s) ==
  /\ at[s] = "offer"
  /\ broadcast' = Append(broadcast, current[s])
  /\ at' = [at EXCEPT ![s] = "reading"]
  /\ UNCHANGED <<current, ring, buf, recorded, tick, flushVars, ctxDone,
                 stopped, dbUp, storeVars, accepted>>

(* wsHub.Broadcast: never blocks, drops the message when the channel is    *)
(* full; the handler returns to the read loop.                             *)
OfferBroadcast(s) ==
  /\ at[s] = "offer"
  /\ broadcast' = IF Len(broadcast) < BroadcastCapacity
                  THEN Append(broadcast, current[s])
                  ELSE broadcast
  /\ at' = [at EXCEPT ![s] = "reading"]
  /\ UNCHANGED <<current, ring, buf, recorded, tick, flushVars, ctxDone,
                 stopped, dbUp, storeVars, accepted>>

(* The loop of the WebSocket hub takes one message.                        *)
DrainBroadcast ==
  /\ broadcast # <<>>
  /\ broadcast' = Tail(broadcast)
  /\ UNCHANGED <<sourceVars, ring, buf, recorded, tick, flushVars, ctxDone,
                 stopped, dbUp, storeVars, accepted>>

(* The read loop, between two messages or after a failed read, finds the   *)
(* context cancelled.                                                      *)
Leave(s) ==
  /\ at[s] = "reading"
  /\ ctxDone
  /\ at' = [at EXCEPT ![s] = "exited"]
  /\ UNCHANGED <<current, ring, buf, recorded, broadcast, tick, flushVars,
                 ctxDone, stopped, dbUp, storeVars, accepted>>

-----------------------------------------------------------------------------
(* flushLoop and flushAll.                                                 *)

(* The ticker's channel holds one tick; a tick nobody took is dropped.     *)
TickerFires ==
  /\ ~tick
  /\ flushAt # "returned"
  /\ tick' = TRUE
  /\ UNCHANGED <<sourceVars, ring, buf, recorded, broadcast, flushVars,
                 ctxDone, stopped, dbUp, storeVars, accepted>>

(* The select of flushLoop: a tick, or the cancellation; when both are     *)
(* ready either case may be taken.                                         *)
WakeOnTick ==
  /\ flushAt = "select"
  /\ tick
  /\ tick' = FALSE
  /\ flushAt' = "take"
  /\ flushKind' = "trade"
  /\ UNCHANGED <<sourceVars, ring, buf, recorded, broadcast, taken, lastFlush,
                 ctxDone, stopped, dbUp, storeVars, accepted>>

(* Variant with a defect: the loop does not return after this flush.       *)
WakeOnDoneStays ==
  /\ flushAt = "select"
  /\ ctxDone
  /\ flushAt' = "take"
  /\ flushKind' = "trade"
  /\ UNCHANGED <<sourceVars, ring, buf, recorded, broadcast, tick, taken,
                 lastFlush, ctxDone, stopped, dbUp, storeVars, accepted>>

WakeOnDone ==
  /\ flushAt = "select"
  /\ ctxDone
  /\ flushAt' = "take"
  /\ flushKind' = "trade"
  /\ lastFlush' = TRUE
  /\ UNCHANGED <<sourceVars, ring, buf, recorded, broadcast, tick, taken,
                 ctxDone, stopped, dbUp, storeVars, accepted>>

(* What follows when one half of flushAll is finished.                     *)
FinishHalf ==
  IF flushKind = "trade"
  THEN flushAt' = "take" /\ flushKind' = "liquidation"
  ELSE /\ flushAt' = IF lastFlush THEN "returned" ELSE "select"
       /\ UNCHANGED flushKind

(* Variant with a defect: the buffer is copied and not reset.              *)
TakeBufferKeeps ==
  /\ flushAt = "take"
  /\ taken' = [taken EXCEPT ![flushKind] = buf[flushKind]]
  /\ IF buf[flushKind] = <<>>
     THEN FinishHalf
     ELSE flushAt' = "acquire" /\ UNCHANGED flushKind
  /\ UNCHANGED <<sourceVars, ring, buf, recorded, broadcast, tick, lastFlush,
                 ctxDone, stopped, dbUp, storeVars, accepted>>

(* The buffer is moved to the local slice, under its mutex.                *)
TakeBuffer ==
  /\ flushAt = "take"
  /\ taken' = [taken EXCEPT ![flushKind] = buf[flushKind]]
  /\ buf' = [buf EXCEPT ![flushKind] = <<>>]
  /\ IF buf[flushKind] = <<>>
     THEN FinishHalf
     ELSE flushAt' = "acquire" /\ UNCHANGED flushKind
  /\ UNCHANGED <<sourceVars, ring, recorded, broadcast, tick, lastFlush,
                 ctxDone, stopped, dbUp, storeVars, accepted>>

(* Variant with a defect: the insert uses a context of its own.            *)
AcquireUncancelled ==
  /\ flushAt = "acquire"
  /\ flushAt' = "insert"
  /\ UNCHANGED <<sourceVars, ring, buf, recorded, broadcast, tick, flushKind,
                 taken, lastFlush, ctxDone, stopped, dbUp, storeVars, accepted>>

(* A call of the store starts by acquiring a connection of the pool, which *)
(* fails at once when h.ctx is cancelled.                                  *)
AcquireConnection ==
  /\ flushAt = "acquire"
  /\ flushAt' = IF ctxDone THEN "requeue" ELSE "insert"
  /\ UNCHANGED <<sourceVars, ring, buf, recorded, broadcast, tick, flushKind,
                 taken, lastFlush, ctxDone, stopped, dbUp, storeVars, accepted>>

(* What one call inserts: all trades in one COPY, liquidations one by one. *)
Chunk == IF flushKind = "trade" THEN taken["trade"]
         ELSE <<Head(taken["liquidation"])>>

AfterChunk == SubSeq(taken[flushKind], Len(Chunk) + 1, Len(taken[flushKind]))

Stored ==
  rows' = [rows EXCEPT ![flushKind] = @ \o Chunk]

InsertSucceeds ==
  /\ flushAt = "insert"
  /\ dbUp
  /\ Stored
  /\ confirmed' = [confirmed EXCEPT ![flushKind] = @ \o Chunk]
  /\ taken' = [taken EXCEPT ![flushKind] = AfterChunk]
  /\ IF AfterChunk = <<>>
     THEN FinishHalf
     ELSE flushAt' = "acquire" /\ UNCHANGED flushKind
  /\ UNCHANGED <<sourceVars, ring, buf, recorded, broadcast, tick, lastFlush,
                 ctxDone, stopped, dbUp, lostAcks, accepted>>

(* Variant with a defect: a failed insert is logged and not requeued.      *)
InsertFailsForgets ==
  /\ flushAt = "insert"
  /\ ~dbUp \/ ctxDone
  /\ taken' = [taken EXCEPT ![flushKind] = <<>>]
  /\ FinishHalf
  /\ UNCHANGED <<sourceVars, ring, buf, recorded, broadcast, tick, lastFlush,
                 ctxDone, stopped, dbUp, storeVars, accepted>>

(* The call returns an error and nothing was stored: the database is       *)
(* unreachable, or the cancellation interrupts the call. (The connectors   *)
(* drop what a constraint of the tables would refuse.)                     *)
InsertFails ==
  /\ flushAt = "insert"
  /\ ~dbUp \/ ctxDone
  /\ flushAt' = "requeue"
  /\ UNCHANGED <<sourceVars, ring, buf, recorded, broadcast, tick, flushKind,
                 taken, lastFlush, ctxDone, stopped, dbUp, storeVars, accepted>>

(* The call returns an error although the rows were committed: the         *)
(* connection or the context ended before the acknowledgement.             *)
InsertUnacknowledged ==
  /\ flushAt = "insert"
  /\ ~dbUp \/ ctxDone
  /\ lostAcks < MaxLostAcks
  /\ Stored
  /\ lostAcks' = lostAcks + 1
  /\ flushAt' = "requeue"
  /\ UNCHANGED <<sourceVars, ring, buf, recorded, broadcast, tick, flushKind,
                 taken, lastFlush, ctxDone, stopped, dbUp, confirmed, accepted>>

(* Variant with a defect: the slice goes behind what arrived meanwhile.    *)
RequeueBehind ==
  /\ flushAt = "requeue"
  /\ buf' = [buf EXCEPT ![flushKind] = @ \o taken[flushKind]]
  /\ taken' = [taken EXCEPT ![flushKind] = <<>>]
  /\ FinishHalf
  /\ UNCHANGED <<sourceVars, ring, recorded, broadcast, tick, lastFlush,
                 ctxDone, stopped, dbUp, storeVars, accepted>>

(* requeueTrades(trades), or requeueLiquidations(liqs[i:]) and the break:  *)
(* what was not inserted goes in front of what arrived meanwhile.          *)
Requeue ==
  /\ flushAt = "requeue"
  /\ buf' = [buf EXCEPT ![flushKind] = taken[flushKind] \o @]
  /\ taken' = [taken EXCEPT ![flushKind] = <<>>]
  /\ FinishHalf
  /\ UNCHANGED <<sourceVars, ring, recorded, broadcast, tick, lastFlush,
                 ctxDone, stopped, dbUp, storeVars, accepted>>

-----------------------------------------------------------------------------
(* Life cycle and environment.                                             *)

(* Stop: h.cancel()                                                        *)
Cancel ==
  /\ ~ctxDone
  /\ ctxDone' = TRUE
  /\ UNCHANGED <<sourceVars, ring, buf, recorded, broadcast, tick, flushVars,
                 stopped, dbUp, storeVars, accepted>>

(* Stop: h.wg.Wait() returns. The Run of a detached source returns on the  *)
(* cancellation without waiting for the goroutine that reads.              *)
StopReturns ==
  /\ ctxDone /\ ~stopped
  /\ flushAt = "returned"
  /\ \A s \in Source \ Detached : at[s] = "exited"
  /\ stopped' = TRUE
  /\ UNCHANGED <<sourceVars, ring, buf, recorded, broadcast, tick, flushVars,
                 ctxDone, dbUp, storeVars, accepted>>

DatabaseChanges ==
  /\ dbUp' = ~dbUp
  /\ UNCHANGED <<sourceVars, ring, buf, recorded, broadcast, tick, flushVars,
                 ctxDone, stopped, storeVars, accepted>>

-----------------------------------------------------------------------------
Handle(s) ==
  PushRing(s) \/ AppendBuffer(s) \/ RecordMetrics(s) \/ OfferBroadcast(s)

FlushStep ==
  \/ WakeOnTick \/ WakeOnDone \/ TakeBuffer \/ AcquireConnection
  \/ InsertSucceeds \/ InsertFails \/ InsertUnacknowledged \/ Requeue

Next ==
  \/ \E s \in Source : Receive(s) \/ Handle(s) \/ Leave(s)
  \/ DrainBroadcast
  \/ TickerFires
  \/ FlushStep
  \/ Cancel \/ StopReturns
  \/ DatabaseChanges

(* The runtime schedules every goroutine and fires the ticker; a blocked   *)
(* read ends at its deadline; select chooses among its ready cases at      *)
(* random, so a case that stays ready is taken in the end (SF). Nothing is *)
(* assumed of the exchanges, of the operator who stops the process, or of  *)
(* the database.                                                           *)
Fairness ==
  /\ \A s \in Source : WF_vars(Handle(s) \/ Leave(s))
  /\ WF_vars(TickerFires)
  /\ WF_vars(FlushStep)
  /\ SF_vars(WakeOnDone)
  /\ WF_vars(StopReturns)

Spec == Init /\ [][Next]_vars /\ Fairness

-----------------------------------------------------------------------------
(* Properties.                                                             *)

Elements(seq) == {seq[i] : i \in 1..Len(seq)}

(* Every variable has its type, and neither the ring nor the broadcast     *)
(* channel outgrows its capacity.                                          *)
TypeOK ==
  /\ at \in [Source -> {"reading", "push", "append", "record", "offer", "exited"}]
  /\ current \in [Source -> Event] /\ \A s \in Source : current[s].src = s
  /\ ring \in Seq(Event) /\ Len(ring) <= RingCapacity
  /\ buf \in [Kind -> Seq(Event)]
  /\ recorded \in [Source -> Nat]
  /\ broadcast \in Seq(Event) /\ Len(broadcast) <= BroadcastCapacity
  /\ tick \in BOOLEAN
  /\ flushAt \in {"select", "take", "acquire", "insert", "requeue", "returned"}
  /\ flushKind \in Kind
  /\ taken \in [Kind -> Seq(Event)]
  /\ lastFlush \in BOOLEAN
  /\ ctxDone \in BOOLEAN
  /\ stopped \in BOOLEAN
  /\ dbUp \in BOOLEAN
  /\ lostAcks \in 0..MaxLostAcks
  /\ accepted \in [Kind -> Seq(Event)]
  /\ confirmed \in [Kind -> Seq(Event)]
  /\ rows \in [Kind -> Seq(Event)]

(* Take, insert and requeue race with the appends of every source, and any *)
(* insert may fail, a liquidation in the middle of its slice included:     *)
(* still the confirmed events, the slice flushAll holds and the buffer are *)
(* together exactly the accepted events, in the order they were accepted.  *)
Conserved ==
  \A k \in Kind : accepted[k] = confirmed[k] \o (taken[k] \o buf[k])

(* Parts of the inductive invariant the proofs use.                        *)

(* flushAll holds events exactly between the take of a buffer and the end  *)
(* of its insert or requeue, and only of the kind it is working on.        *)
Holding == {"acquire", "insert", "requeue"}

SliceHeld ==
  /\ \A k \in Kind : taken[k] # <<>> => k = flushKind /\ flushAt \in Holding
  /\ flushAt \in Holding => taken[flushKind] # <<>>

(* The last flush runs with the cancelled context.                         *)
LastFlushCancelled == lastFlush => ctxDone /\ flushAt # "insert"

(* Without a lost acknowledgement the tables hold the confirmed events.    *)
RowsConfirmed == lostAcks = 0 => rows = confirmed

(* What a source appended is in its reading order, and older than what it  *)
(* is about to append.                                                     *)
InReadingOrder(seq) ==
  \A i, j \in 1..Len(seq) :
    i < j /\ seq[i].src = seq[j].src => seq[i].seq < seq[j].seq

AppendedInOrder ==
  \A k \in Kind :
    /\ InReadingOrder(accepted[k])
    /\ \A i \in 1..Len(accepted[k]) :
         LET e == accepted[k][i]
         IN  /\ e.seq <= current[e.src].seq
             /\ at[e.src] \in {"push", "append"} => e.seq < current[e.src].seq

Occurrences(seq, e) == {i \in 1..Len(seq) : seq[i] = e}

(* A confirmed event has a row, and every further row of it is due to a    *)
(* lost acknowledgement; there are no rows of anything else.               *)
CopiesAreDue ==
  \A k \in Kind :
    /\ Elements(rows[k]) \subseteq Elements(accepted[k])
    /\ \A e \in Event :
         LET copies == Cardinality(Occurrences(rows[k], e))
             due == Cardinality(Occurrences(confirmed[k], e))
         IN  due <= copies /\ copies <= due + lostAcks

(* How many events of a source are in the logs of the buffers.             *)
Appended(s) ==
  IF at[s] \in {"push", "append"} THEN current[s].seq - 1 ELSE current[s].seq

(* The metrics count the events of a source up to the last that was        *)
(* appended, or up to the one before it.                                   *)
CountedIsAppended ==
  \A s \in Source :
    /\ recorded[s] = IF at[s] = "record" THEN current[s].seq - 1 ELSE Appended(s)
    /\ \A n \in 1..Appended(s) :
         \E k \in Kind : [src |-> s, seq |-> n, kind |-> k] \in Elements(accepted[k])

BroadcastIsCounted == \A e \in Elements(broadcast) : e.seq <= recorded[e.src]

(* Until the ring is full it has every trade that is in the buffer or about *)
(* to be appended.                                                         *)
RingHoldsTrades ==
  Len(ring) < RingCapacity =>
    /\ Elements(accepted["trade"]) \subseteq Elements(ring)
    /\ \A s \in Source :
         at[s] = "append" /\ current[s].kind = "trade" => current[s] \in Elements(ring)

ObservedInv == CountedIsAppended /\ BroadcastIsCounted /\ RingHoldsTrades

IInv ==
  /\ TypeOK
  /\ SliceHeld
  /\ Conserved
  /\ LastFlushCancelled
  /\ RowsConfirmed
  /\ AppendedInOrder
  /\ CopiesAreDue

(* A retry after a failed insert neither repeats nor reorders what a       *)
(* source sent: as long as no acknowledgement was lost, the rows of one    *)
(* source are strictly in the order the source read the events.            *)
ExactlyOnceInOrder ==
  lostAcks = 0 => \A k \in Kind : InReadingOrder(rows[k])

(* Whatever fails, an accepted event is in its table or still held by the  *)
(* hub, one that was not accepted is in no table, and an insert whose      *)
(* acknowledgement is lost stores an event at most once more.              *)
StoredAtLeastOnce ==
  \A k \in Kind : \A e \in Event :
    LET copies == Cardinality(Occurrences(rows[k], e))
    IN  IF e \in Elements(accepted[k])
        THEN /\ copies <= 1 + lostAcks
             /\ copies >= 1 \/ e \in Elements(taken[k] \o buf[k])
        ELSE copies = 0

(* The tables have what was accepted, in order and once as long as no      *)
(* acknowledgement was lost, and a known number of times otherwise.        *)
StoredAsAccepted == ExactlyOnceInOrder /\ StoredAtLeastOnce

(* An event that is offered to the live subscribers has been counted by    *)
(* the metrics, an event that was counted is safe in the buffers, and a    *)
(* trade in the buffers can be asked from the ring until newer ones        *)
(* displaced it. The ring is the one observer that is ahead of the         *)
(* buffers: by the trades that are in hand between the push and the        *)
(* append, one of each source, and by nothing else.                        *)
ObservedIsAccepted ==
  /\ \A e \in Elements(broadcast) : e.seq <= recorded[e.src]
  /\ \A s \in Source : \A n \in 1..recorded[s] :
       \E k \in Kind : [src |-> s, seq |-> n, kind |-> k] \in Elements(accepted[k])
  /\ Len(ring) < RingCapacity =>
       Elements(accepted["trade"]) \subseteq Elements(ring)
  /\ \A e \in Elements(ring) \ Elements(accepted["trade"]) :
       \E s \in Source : at[s] = "append" /\ current[s] = e

(* The flush that flushLoop runs for the cancellation uses the cancelled   *)
(* context of the hub: nothing that is buffered when Stop is called can    *)
(* still reach the database.                                               *)
LastFlushStoresNothing ==
  [][lastFlush => UNCHANGED rows]_vars

(* Each buffer with its table is a durable log: at-least-once, in order,   *)
(* without a gap.                                                          *)
TradeLog ==
  INSTANCE DurableLog
    WITH Item <- Event, accepted <- accepted["trade"],
         confirmed <- confirmed["trade"], rows <- rows["trade"]

LiquidationLog ==
  INSTANCE DurableLog
    WITH Item <- Event, accepted <- accepted["liquidation"],
         confirmed <- confirmed["liquidation"], rows <- rows["liquidation"]

(* Seen through the trade buffer and the trades table, every step of the   *)
(* hub is a step of the durable log, or none.                              *)
TradesAreLogged == TradeLog!Spec

(* The same for the liquidation buffer, although flushAll inserts          *)
(* liquidations one at a time and may stop in the middle.                  *)
LiquidationsAreLogged == LiquidationLog!Spec

(* Both buffers are such logs.                                             *)
BuffersAreLogs == TradesAreLogged /\ LiquidationsAreLogged

(* Stop returns: no goroutine it waits for is stuck in a handler, in a     *)
(* read or in a flush that never ends.                                     *)
StopTerminates == ctxDone ~> stopped

Healthy == dbUp /\ ~ctxDone

(* An accepted event is stored, if from some time on the database can be   *)
(* reached and nobody stops the hub, however the earlier inserts failed.   *)
EventuallyStored ==
  <>[]Healthy =>
    \A k \in Kind : \A s \in Source : \A n \in 1..EventsOf[s] :
      LET e == [src |-> s, seq |-> n, kind |-> k]
      IN  e \in Elements(accepted[k]) ~> e \in Elements(rows[k])
=============================================================================
