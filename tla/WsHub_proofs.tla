--------------------------- MODULE WsHub_proofs ---------------------------
(***************************************************************************)
(* Proofs about WsHub for every set of clients, message types and          *)
(* channels, and every capacity.                                           *)
(***************************************************************************)
EXTENDS WsHub, SequenceTheorems, TLAPS

USE WsAssumption DEF WsAssumption

-----------------------------------------------------------------------------
(* Facts about channels.                                                   *)

(* Taking the first element of a channel that is not empty.                *)
LEMMA TakeFirst ==
  ASSUME NEW S, NEW queue \in Seq(S), queue # <<>>
  PROVE  /\ Head(queue) \in S /\ Head(queue) = queue[1]
         /\ Tail(queue) \in Seq(S)
         /\ Len(queue) \in Nat \ {0}
         /\ Len(Tail(queue)) = Len(queue) - 1
         /\ \A i \in 1..Len(Tail(queue)) : Tail(queue)[i] = queue[i + 1]
OBVIOUS

(* Putting an element behind the last one.                                 *)
LEMMA PutLast ==
  ASSUME NEW S, NEW queue \in Seq(S), NEW e \in S
  PROVE  /\ Append(queue, e) \in Seq(S)
         /\ Len(queue) \in Nat
         /\ Len(Append(queue, e)) = Len(queue) + 1
         /\ \A i \in 1..Len(queue) : Append(queue, e)[i] = queue[i]
         /\ Append(queue, e)[Len(queue) + 1] = e
OBVIOUS

(* Messages carry natural numbers.                                         *)
LEMMA MessageNumber == \A m \in Message : m.n \in Nat
BY DEF Message

LEMMA QueueNumbers ==
  ASSUME NEW queue \in Seq(Message)
  PROVE  \A i \in 1..Len(queue) : queue[i] \in Message /\ queue[i].n \in Nat
<1>1. \A i \in 1..Len(queue) : queue[i] \in Message
  OBVIOUS
<1> QED
  BY <1>1, MessageNumber

(* What taking from and putting into a channel does to the order of the    *)
(* numbers.                                                                *)
LEMMA TailGrows ==
  ASSUME NEW queue \in Seq(Message), queue # <<>>, Growing(queue),
         NEW low \in Nat, NEW high \in Nat, Between(low, queue, high)
  PROVE  /\ Growing(Tail(queue))
         /\ Between(low, Tail(queue), high)
         /\ Between(Head(queue).n, Tail(queue), high)
         /\ low < Head(queue).n /\ Head(queue).n <= high
<1>1. \A i \in 1..Len(queue) : queue[i] \in Message /\ queue[i].n \in Nat
  BY QueueNumbers
<1>2. /\ Head(queue) = queue[1]
      /\ Len(queue) \in Nat \ {0}
      /\ Len(Tail(queue)) = Len(queue) - 1
      /\ \A i \in 1..Len(Tail(queue)) : Tail(queue)[i] = queue[i + 1]
  BY TakeFirst
<1>3. Growing(Tail(queue))
  BY <1>1, <1>2 DEF Growing
<1>4. Between(low, Tail(queue), high)
  BY <1>1, <1>2 DEF Between
<1>5. low < Head(queue).n /\ Head(queue).n <= high
  BY <1>1, <1>2 DEF Between
<1>6. Between(Head(queue).n, Tail(queue), high)
  BY <1>1, <1>2 DEF Between, Growing
<1> QED
  BY <1>3, <1>4, <1>5, <1>6

LEMMA AppendGrows ==
  ASSUME NEW queue \in Seq(Message), Growing(queue), NEW m \in Message,
         NEW low \in Nat, NEW high \in Nat, Between(low, queue, high),
         \A i \in 1..Len(queue) : queue[i].n < m.n,
         low < m.n, m.n <= high
  PROVE  /\ Growing(Append(queue, m))
         /\ Between(low, Append(queue, m), high)
<1>1. /\ m.n \in Nat
      /\ \A i \in 1..Len(queue) : queue[i] \in Message /\ queue[i].n \in Nat
  BY QueueNumbers, MessageNumber
<1>2. /\ Len(queue) \in Nat
      /\ Len(Append(queue, m)) = Len(queue) + 1
      /\ \A i \in 1..Len(queue) : Append(queue, m)[i] = queue[i]
      /\ Append(queue, m)[Len(queue) + 1] = m
  BY PutLast
<1>3. Growing(Append(queue, m))
  BY SMTT(20), <1>1, <1>2 DEF Growing
<1>4. Between(low, Append(queue, m), high)
  BY <1>1, <1>2 DEF Between
<1> QED
  BY <1>3, <1>4

LEMMA AheadMoves ==
  ASSUME NEW queue \in Seq(Message), NEW later \in Seq(Message),
         Ahead(queue, later)
  PROVE  /\ queue # <<>> => Ahead(Tail(queue), later)
         /\ queue # <<>> =>
              \A j \in 1..Len(later) : Head(queue).n < later[j].n
         /\ later # <<>> => Ahead(queue, Tail(later))
         /\ later # <<>> =>
              \A i \in 1..Len(queue) : queue[i].n < Head(later).n
         /\ \A m \in Message :
              (\A i \in 1..Len(queue) : queue[i].n < m.n)
                => Ahead(queue, Append(later, m))
         /\ \A m \in Message :
              (\A j \in 1..Len(later) : m.n < later[j].n)
                => Ahead(Append(queue, m), later)
<1>1. ASSUME queue # <<>>
      PROVE  /\ Ahead(Tail(queue), later)
             /\ \A j \in 1..Len(later) : Head(queue).n < later[j].n
  BY SMTT(20), <1>1, TakeFirst DEF Ahead
<1>2. ASSUME later # <<>>
      PROVE  /\ Ahead(queue, Tail(later))
             /\ \A i \in 1..Len(queue) : queue[i].n < Head(later).n
  BY <1>2, TakeFirst DEF Ahead
<1>3. ASSUME NEW m \in Message, \A i \in 1..Len(queue) : queue[i].n < m.n
      PROVE  Ahead(queue, Append(later, m))
  BY <1>3, PutLast DEF Ahead
<1>4. ASSUME NEW m \in Message, \A j \in 1..Len(later) : m.n < later[j].n
      PROVE  Ahead(Append(queue, m), later)
  BY <1>4, PutLast DEF Ahead
<1> QED
  BY <1>1, <1>2, <1>3, <1>4

-----------------------------------------------------------------------------
(* Type correctness.                                                       *)

LEMMA InitTypeOK == Init => TypeOK
<1> SUFFICES ASSUME Init PROVE TypeOK
  OBVIOUS
<1>1. /\ <<>> \in Seq(Message) /\ Len(<<>>) = 0
      /\ <<>> \in Seq(1..MaxMessages)
  OBVIOUS
<1>2. /\ broadcast \in Seq(Message) /\ Len(broadcast) <= BroadcastCapacity
      /\ sendChan \in [Client -> Seq(Message)]
      /\ \A c \in Client : Len(sendChan[c]) <= SendCapacity
      /\ delivered \in [Client -> Seq(1..MaxMessages)]
  BY <1>1 DEF Init
<1>3. /\ held \in [Client -> Message \cup {Nothing}]
      /\ \A c \in Client : writer[c] \in InHand => held[c] \in Message
      /\ \A c \in Client : reader[c] = "locking" => request[c] \in Request
      /\ request \in [Client -> Request \cup {NoRequest}]
  BY DEF Init, InHand
<1>4. /\ reader \in [Client -> {"absent", "registering", "reading",
                   "locking", "unregistering", "closing", "done"}]
      /\ writer \in [Client -> {"absent", "select", "locking",
                   "writing", "pinging", "done"}]
      /\ peer \in [Client -> {"reads", "stalled", "gone"}]
      /\ deadline \in [Client -> {"none", "ahead", "past"}]
  BY DEF Init
<1>5. /\ chanClosed \in [Client -> BOOLEAN]
      /\ writeErr \in [Client -> BOOLEAN]
      /\ closed \in [Client -> BOOLEAN]
      /\ ctxDone \in BOOLEAN /\ loopDone \in BOOLEAN
  BY Zenon DEF Init
<1>6. clients \subseteq Client /\ published \in 0..MaxMessages
  BY DEF Init
<1>7. subbed \in [Client -> SUBSET Channel]
  BY Zenon DEF Init
<1> QED
  BY <1>2, <1>3, <1>4, <1>5, <1>6, <1>7 DEF TypeOK

LEMMA StepTypeOK == TypeOK /\ [Next]_vars => TypeOK'
<1> SUFFICES ASSUME TypeOK, [Next]_vars PROVE TypeOK'
  OBVIOUS
<1> USE DEF TypeOK, InHand, hubVars, pumpVars, connVars
<1>1. ASSUME NEW t \in Type, Broadcast(t) PROVE TypeOK'
  <2>1. [n |-> published + 1, type |-> t] \in Message
    BY <1>1 DEF Broadcast, Message
  <2>2. broadcast' \in Seq(Message) /\ Len(broadcast') <= BroadcastCapacity
    BY <1>1, <2>1, PutLast DEF Broadcast
  <2> QED
    BY <1>1, <2>2 DEF Broadcast
<1>2. ASSUME Dispatch PROVE TypeOK'
  <2>1. /\ Head(broadcast) \in Message
        /\ broadcast' \in Seq(Message) /\ Len(broadcast') <= BroadcastCapacity
    BY <1>2, TakeFirst DEF Dispatch
  <2>2. ASSUME NEW c \in Client
        PROVE  sendChan'[c] \in Seq(Message) /\ Len(sendChan'[c]) <= SendCapacity
    BY <1>2, <2>1, PutLast DEF Dispatch
  <2>3. sendChan' \in [Client -> Seq(Message)]
    BY <1>2, <2>2 DEF Dispatch
  <2> QED
    BY <1>2, <2>1, <2>2, <2>3 DEF Dispatch
<1>3. ASSUME LoopReturns PROVE TypeOK'
  BY <1>3 DEF LoopReturns
<1>4. ASSUME Stop PROVE TypeOK'
  BY <1>4 DEF Stop
<1>5. ASSUME NEW c \in Client, Connect(c) PROVE TypeOK'
  BY <1>5 DEF Connect
<1>6. ASSUME NEW c \in Client, Register(c) PROVE TypeOK'
  BY <1>6 DEF Register
<1>7. ASSUME NEW c \in Client, ReadRequest(c) PROVE TypeOK'
  <2>1. request' \in [Client -> Request \cup {NoRequest}]
    BY <1>7 DEF ReadRequest
  <2> QED
    BY <1>7, <2>1 DEF ReadRequest
<1>8. ASSUME NEW c \in Client, ApplyRequest(c) PROVE TypeOK'
  <2>1. request[c].channel \in Channel
    BY <1>8 DEF Request, ApplyRequest
  <2>2. subbed' \in [Client -> SUBSET Channel]
    BY <1>8, <2>1 DEF ApplyRequest
  <2> QED
    BY <1>8, <2>2 DEF ApplyRequest
<1>9. ASSUME NEW c \in Client, ReadFails(c) PROVE TypeOK'
  BY <1>9 DEF ReadFails
<1>10. ASSUME NEW c \in Client, Unregister(c) PROVE TypeOK'
  BY <1>10 DEF Unregister
<1>11. ASSUME NEW c \in Client, CloseConn(c) PROVE TypeOK'
  BY <1>11 DEF CloseConn
<1>12. ASSUME NEW c \in Client, TakeMessage(c) PROVE TypeOK'
  <2>1. /\ Head(sendChan[c]) \in Message
        /\ Tail(sendChan[c]) \in Seq(Message)
        /\ Len(Tail(sendChan[c])) <= SendCapacity
    BY <1>12, TakeFirst DEF TakeMessage
  <2> QED
    BY <1>12, <2>1 DEF TakeMessage
<1>13. ASSUME NEW c \in Client, TakeClosed(c) PROVE TypeOK'
  BY <1>13 DEF TakeClosed
<1>14. ASSUME NEW c \in Client, LockMu(c) PROVE TypeOK'
  BY <1>14 DEF LockMu
<1>15. ASSUME NEW c \in Client, WriteSucceeds(c) PROVE TypeOK'
  <2>1. held[c].n \in 1..MaxMessages
    BY <1>15 DEF WriteSucceeds, InHand, Message
  <2>2. delivered' \in [Client -> Seq(1..MaxMessages)]
    BY <1>15, <2>1 DEF WriteSucceeds
  <2> QED
    BY <1>15, <2>2 DEF WriteSucceeds
<1>16. ASSUME NEW c \in Client, WriteFails(c) PROVE TypeOK'
  BY <1>16 DEF WriteFails
<1>17. ASSUME NEW c \in Client, StartPing(c) PROVE TypeOK'
  BY <1>17 DEF StartPing
<1>18. ASSUME NEW c \in Client, PingSucceeds(c) PROVE TypeOK'
  BY <1>18 DEF PingSucceeds
<1>19. ASSUME NEW c \in Client, PingFails(c) PROVE TypeOK'
  BY <1>19 DEF PingFails
<1>20. ASSUME NEW c \in Client, DeadlinePasses(c) PROVE TypeOK'
  BY <1>20 DEF DeadlinePasses
<1>21. ASSUME NEW c \in Client, PeerStalls(c) PROVE TypeOK'
  BY <1>21 DEF PeerStalls
<1>22. ASSUME NEW c \in Client, PeerGoes(c) PROVE TypeOK'
  BY <1>22 DEF PeerGoes
<1>23. CASE UNCHANGED vars
  BY <1>23 DEF vars
<1> QED
  BY <1>1, <1>2, <1>3, <1>4, <1>5, <1>6, <1>7, <1>8, <1>9, <1>10, <1>11, <1>12, <1>13, <1>14, <1>15, <1>16, <1>17, <1>18, <1>19, <1>20, <1>21, <1>22, <1>23 DEF Next, Loop, Reader, Writer, FinishWrite, Connection

(* Every variable of the hub keeps its type, and neither the channel into  *)
(* the loop nor the channel of any client outgrows its capacity.           *)
THEOREM TypeCorrect == Spec => []TypeOK
BY InitTypeOK, StepTypeOK, PTL DEF Spec

-----------------------------------------------------------------------------
(* The life cycle of a client.                                             *)

LEMMA InitKnownIsOpen == Init => KnownIsOpen
BY DEF Init, KnownIsOpen

LEMMA StepKnownIsOpen == TypeOK /\ KnownIsOpen /\ [Next]_vars => KnownIsOpen'
<1> SUFFICES ASSUME TypeOK, KnownIsOpen, [Next]_vars PROVE KnownIsOpen'
  OBVIOUS
<1> USE DEF TypeOK, KnownIsOpen, hubVars, pumpVars, connVars
<1>1. ASSUME NEW t \in Type, Broadcast(t) PROVE KnownIsOpen'
  BY <1>1 DEF Broadcast
<1>2. ASSUME Dispatch PROVE KnownIsOpen'
  BY <1>2 DEF Dispatch
<1>3. ASSUME LoopReturns PROVE KnownIsOpen'
  BY <1>3 DEF LoopReturns
<1>4. ASSUME Stop PROVE KnownIsOpen'
  BY <1>4 DEF Stop
<1>5. ASSUME NEW c \in Client, Connect(c) PROVE KnownIsOpen'
  BY <1>5 DEF Connect
<1>6. ASSUME NEW c \in Client, Register(c) PROVE KnownIsOpen'
  BY <1>6 DEF Register
<1>7. ASSUME NEW c \in Client, ReadRequest(c) PROVE KnownIsOpen'
  BY <1>7 DEF ReadRequest
<1>8. ASSUME NEW c \in Client, ApplyRequest(c) PROVE KnownIsOpen'
  BY <1>8 DEF ApplyRequest
<1>9. ASSUME NEW c \in Client, ReadFails(c) PROVE KnownIsOpen'
  BY <1>9 DEF ReadFails
<1>10. ASSUME NEW c \in Client, Unregister(c) PROVE KnownIsOpen'
  BY <1>10 DEF Unregister
<1>11. ASSUME NEW c \in Client, CloseConn(c) PROVE KnownIsOpen'
  BY <1>11 DEF CloseConn
<1>12. ASSUME NEW c \in Client, TakeMessage(c) PROVE KnownIsOpen'
  BY <1>12 DEF TakeMessage
<1>13. ASSUME NEW c \in Client, TakeClosed(c) PROVE KnownIsOpen'
  BY <1>13 DEF TakeClosed
<1>14. ASSUME NEW c \in Client, LockMu(c) PROVE KnownIsOpen'
  BY <1>14 DEF LockMu
<1>15. ASSUME NEW c \in Client, WriteSucceeds(c) PROVE KnownIsOpen'
  BY <1>15 DEF WriteSucceeds
<1>16. ASSUME NEW c \in Client, WriteFails(c) PROVE KnownIsOpen'
  BY <1>16 DEF WriteFails
<1>17. ASSUME NEW c \in Client, StartPing(c) PROVE KnownIsOpen'
  BY <1>17 DEF StartPing
<1>18. ASSUME NEW c \in Client, PingSucceeds(c) PROVE KnownIsOpen'
  BY <1>18 DEF PingSucceeds
<1>19. ASSUME NEW c \in Client, PingFails(c) PROVE KnownIsOpen'
  BY <1>19 DEF PingFails
<1>20. ASSUME NEW c \in Client, DeadlinePasses(c) PROVE KnownIsOpen'
  BY <1>20 DEF DeadlinePasses
<1>21. ASSUME NEW c \in Client, PeerStalls(c) PROVE KnownIsOpen'
  BY <1>21 DEF PeerStalls
<1>22. ASSUME NEW c \in Client, PeerGoes(c) PROVE KnownIsOpen'
  BY <1>22 DEF PeerGoes
<1>23. CASE UNCHANGED vars
  BY <1>23 DEF vars
<1> QED
  BY <1>1, <1>2, <1>3, <1>4, <1>5, <1>6, <1>7, <1>8, <1>9, <1>10, <1>11, <1>12, <1>13, <1>14, <1>15, <1>16, <1>17, <1>18, <1>19, <1>20, <1>21, <1>22, <1>23 DEF Next, Loop, Reader, Writer, FinishWrite, Connection

(* The loop never sends on a closed channel and never closes one twice,    *)
(* however the pumps of any number of clients interleave with it.          *)
THEOREM ChannelsAreSafe == Spec => []KnownIsOpen
BY InitKnownIsOpen, StepKnownIsOpen, TypeCorrect, InitTypeOK, PTL DEF Spec

-----------------------------------------------------------------------------
(* The subscriptions and the lock.                                         *)

LEMMA InitWritingSubscribed == Init => WritingSubscribed
BY DEF Init, WritingSubscribed

LEMMA StepWritingSubscribed ==
  TypeOK /\ WritingSubscribed /\ [Next]_vars => WritingSubscribed'
<1> SUFFICES ASSUME TypeOK, WritingSubscribed, [Next]_vars
             PROVE  WritingSubscribed'
  OBVIOUS
<1> USE DEF TypeOK, WritingSubscribed, Subscribed, MuFree, hubVars, pumpVars, connVars
<1>1. ASSUME NEW t \in Type, Broadcast(t) PROVE WritingSubscribed'
  BY <1>1 DEF Broadcast
<1>2. ASSUME Dispatch PROVE WritingSubscribed'
  BY <1>2 DEF Dispatch
<1>3. ASSUME LoopReturns PROVE WritingSubscribed'
  BY <1>3 DEF LoopReturns
<1>4. ASSUME Stop PROVE WritingSubscribed'
  BY <1>4 DEF Stop
<1>5. ASSUME NEW c \in Client, Connect(c) PROVE WritingSubscribed'
  BY <1>5 DEF Connect
<1>6. ASSUME NEW c \in Client, Register(c) PROVE WritingSubscribed'
  BY <1>6 DEF Register
<1>7. ASSUME NEW c \in Client, ReadRequest(c) PROVE WritingSubscribed'
  BY <1>7 DEF ReadRequest
<1>8. ASSUME NEW c \in Client, ApplyRequest(c) PROVE WritingSubscribed'
  BY <1>8 DEF ApplyRequest
<1>9. ASSUME NEW c \in Client, ReadFails(c) PROVE WritingSubscribed'
  BY <1>9 DEF ReadFails
<1>10. ASSUME NEW c \in Client, Unregister(c) PROVE WritingSubscribed'
  BY <1>10 DEF Unregister
<1>11. ASSUME NEW c \in Client, CloseConn(c) PROVE WritingSubscribed'
  BY <1>11 DEF CloseConn
<1>12. ASSUME NEW c \in Client, TakeMessage(c) PROVE WritingSubscribed'
  BY <1>12 DEF TakeMessage
<1>13. ASSUME NEW c \in Client, TakeClosed(c) PROVE WritingSubscribed'
  BY <1>13 DEF TakeClosed
<1>14. ASSUME NEW c \in Client, LockMu(c) PROVE WritingSubscribed'
  BY <1>14 DEF LockMu
<1>15. ASSUME NEW c \in Client, WriteSucceeds(c) PROVE WritingSubscribed'
  BY <1>15 DEF WriteSucceeds
<1>16. ASSUME NEW c \in Client, WriteFails(c) PROVE WritingSubscribed'
  BY <1>16 DEF WriteFails
<1>17. ASSUME NEW c \in Client, StartPing(c) PROVE WritingSubscribed'
  BY <1>17 DEF StartPing
<1>18. ASSUME NEW c \in Client, PingSucceeds(c) PROVE WritingSubscribed'
  BY <1>18 DEF PingSucceeds
<1>19. ASSUME NEW c \in Client, PingFails(c) PROVE WritingSubscribed'
  BY <1>19 DEF PingFails
<1>20. ASSUME NEW c \in Client, DeadlinePasses(c) PROVE WritingSubscribed'
  BY <1>20 DEF DeadlinePasses
<1>21. ASSUME NEW c \in Client, PeerStalls(c) PROVE WritingSubscribed'
  BY <1>21 DEF PeerStalls
<1>22. ASSUME NEW c \in Client, PeerGoes(c) PROVE WritingSubscribed'
  BY <1>22 DEF PeerGoes
<1>23. CASE UNCHANGED vars
  BY <1>23 DEF vars
<1> QED
  BY <1>1, <1>2, <1>3, <1>4, <1>5, <1>6, <1>7, <1>8, <1>9, <1>10, <1>11, <1>12, <1>13, <1>14, <1>15, <1>16, <1>17, <1>18, <1>19, <1>20, <1>21, <1>22, <1>23 DEF Next, Loop, Reader, Writer, FinishWrite, Connection

(* Only a write to a client delivers anything.                             *)
LEMMA DeliveryIsWrite ==
  ASSUME TypeOK, WritingSubscribed, [Next]_vars
  PROVE  \A c \in Client : delivered'[c] # delivered[c] => Subscribed(c)
<1> USE DEF TypeOK, hubVars, pumpVars, connVars
<1>1. ASSUME NEW t \in Type, Broadcast(t) PROVE \A d \in Client : delivered'[d] # delivered[d] => Subscribed(d)
  BY <1>1 DEF Broadcast
<1>2. ASSUME Dispatch PROVE \A d \in Client : delivered'[d] # delivered[d] => Subscribed(d)
  BY <1>2 DEF Dispatch
<1>3. ASSUME LoopReturns PROVE \A d \in Client : delivered'[d] # delivered[d] => Subscribed(d)
  BY <1>3 DEF LoopReturns
<1>4. ASSUME Stop PROVE \A d \in Client : delivered'[d] # delivered[d] => Subscribed(d)
  BY <1>4 DEF Stop
<1>5. ASSUME NEW c \in Client, Connect(c) PROVE \A d \in Client : delivered'[d] # delivered[d] => Subscribed(d)
  BY <1>5 DEF Connect
<1>6. ASSUME NEW c \in Client, Register(c) PROVE \A d \in Client : delivered'[d] # delivered[d] => Subscribed(d)
  BY <1>6 DEF Register
<1>7. ASSUME NEW c \in Client, ReadRequest(c) PROVE \A d \in Client : delivered'[d] # delivered[d] => Subscribed(d)
  BY <1>7 DEF ReadRequest
<1>8. ASSUME NEW c \in Client, ApplyRequest(c) PROVE \A d \in Client : delivered'[d] # delivered[d] => Subscribed(d)
  BY <1>8 DEF ApplyRequest
<1>9. ASSUME NEW c \in Client, ReadFails(c) PROVE \A d \in Client : delivered'[d] # delivered[d] => Subscribed(d)
  BY <1>9 DEF ReadFails
<1>10. ASSUME NEW c \in Client, Unregister(c) PROVE \A d \in Client : delivered'[d] # delivered[d] => Subscribed(d)
  BY <1>10 DEF Unregister
<1>11. ASSUME NEW c \in Client, CloseConn(c) PROVE \A d \in Client : delivered'[d] # delivered[d] => Subscribed(d)
  BY <1>11 DEF CloseConn
<1>12. ASSUME NEW c \in Client, TakeMessage(c) PROVE \A d \in Client : delivered'[d] # delivered[d] => Subscribed(d)
  BY <1>12 DEF TakeMessage
<1>13. ASSUME NEW c \in Client, TakeClosed(c) PROVE \A d \in Client : delivered'[d] # delivered[d] => Subscribed(d)
  BY <1>13 DEF TakeClosed
<1>14. ASSUME NEW c \in Client, LockMu(c) PROVE \A d \in Client : delivered'[d] # delivered[d] => Subscribed(d)
  BY <1>14 DEF LockMu
<1>15. ASSUME NEW c \in Client, WriteSucceeds(c) PROVE \A d \in Client : delivered'[d] # delivered[d] => Subscribed(d)
  BY <1>15 DEF WriteSucceeds, WritingSubscribed
<1>16. ASSUME NEW c \in Client, WriteFails(c) PROVE \A d \in Client : delivered'[d] # delivered[d] => Subscribed(d)
  BY <1>16 DEF WriteFails
<1>17. ASSUME NEW c \in Client, StartPing(c) PROVE \A d \in Client : delivered'[d] # delivered[d] => Subscribed(d)
  BY <1>17 DEF StartPing
<1>18. ASSUME NEW c \in Client, PingSucceeds(c) PROVE \A d \in Client : delivered'[d] # delivered[d] => Subscribed(d)
  BY <1>18 DEF PingSucceeds
<1>19. ASSUME NEW c \in Client, PingFails(c) PROVE \A d \in Client : delivered'[d] # delivered[d] => Subscribed(d)
  BY <1>19 DEF PingFails
<1>20. ASSUME NEW c \in Client, DeadlinePasses(c) PROVE \A d \in Client : delivered'[d] # delivered[d] => Subscribed(d)
  BY <1>20 DEF DeadlinePasses
<1>21. ASSUME NEW c \in Client, PeerStalls(c) PROVE \A d \in Client : delivered'[d] # delivered[d] => Subscribed(d)
  BY <1>21 DEF PeerStalls
<1>22. ASSUME NEW c \in Client, PeerGoes(c) PROVE \A d \in Client : delivered'[d] # delivered[d] => Subscribed(d)
  BY <1>22 DEF PeerGoes
<1>23. CASE UNCHANGED vars
  BY <1>23 DEF vars
<1> QED
  BY <1>1, <1>2, <1>3, <1>4, <1>5, <1>6, <1>7, <1>8, <1>9, <1>10, <1>11, <1>12, <1>13, <1>14, <1>15, <1>16, <1>17, <1>18, <1>19, <1>20, <1>21, <1>22, <1>23 DEF Next, Loop, Reader, Writer, FinishWrite, Connection

(* A message is written to a client only while it is subscribed to it.     *)
THEOREM SubscriptionIsRespected == Spec => WrittenWhileSubscribed
<1>1. TypeOK /\ WritingSubscribed /\ [Next]_vars
        => [\A c \in Client : delivered'[c] # delivered[c] => Subscribed(c)]_vars
  BY DeliveryIsWrite
<1> QED
  BY <1>1, InitWritingSubscribed, StepWritingSubscribed, TypeCorrect, PTL
     DEF Spec, WrittenWhileSubscribed

-----------------------------------------------------------------------------
(* The order of the messages.                                              *)

LEMMA InitNumbersGrow == Init => NumbersGrow
BY DEF Init, NumbersGrow, Growing, Between, Ahead, InHand, Nothing, Feed!LastOf

(* The parts of NumbersGrow for one client, with the types they need.      *)
LEMMA ClientNumbers ==
  ASSUME TypeOK, NumbersGrow, NEW c \in Client
  PROVE  /\ broadcast \in Seq(Message) /\ Growing(broadcast)
         /\ published \in Nat
         /\ sendChan[c] \in Seq(Message) /\ Growing(sendChan[c])
         /\ held[c].n \in Nat /\ held[c].n <= published
         /\ Between(held[c].n, broadcast, published)
         /\ Between(held[c].n, sendChan[c], published)
         /\ Ahead(sendChan[c], broadcast)
         /\ Feed!LastOf(delivered[c]) <= held[c].n
         /\ writer[c] \in InHand => Feed!LastOf(delivered[c]) < held[c].n
         /\ Feed!LastOf(delivered[c]) \in Nat
<1>1. held[c].n \in Nat
  BY MessageNumber DEF TypeOK, Nothing
<1>2. Feed!LastOf(delivered[c]) \in Nat
  BY DEF TypeOK, Feed!LastOf
<1> QED
  BY <1>1, <1>2 DEF TypeOK, NumbersGrow

(* The bounds that Between speaks of may be widened at the top.            *)
LEMMA BetweenWidens ==
  ASSUME NEW queue \in Seq(Message), NEW low \in Nat, NEW high \in Nat,
         Between(low, queue, high)
  PROVE  Between(low, queue, high + 1)
BY QueueNumbers DEF Between

LEMMA StepNumbersGrow == TypeOK /\ NumbersGrow /\ [Next]_vars => NumbersGrow'
<1> SUFFICES ASSUME TypeOK, NumbersGrow, [Next]_vars PROVE NumbersGrow'
  OBVIOUS
<1> USE DEF hubVars, pumpVars, connVars
<1>0. TypeOK /\ NumbersGrow
  OBVIOUS
<1>1. ASSUME NEW t \in Type, Broadcast(t) PROVE NumbersGrow'
  <2> DEFINE m == [n |-> published + 1, type |-> t]
  <2>1. m \in Message /\ m.n = published + 1 /\ published \in Nat
    BY <1>0, <1>1 DEF Broadcast, Message, TypeOK
  <2>2. /\ broadcast \in Seq(Message) /\ Growing(broadcast)
        /\ \A i \in 1..Len(broadcast) : broadcast[i].n \in Nat
    BY QueueNumbers DEF TypeOK, NumbersGrow
  <2> HIDE DEF m
  <2>3. ASSUME NEW c \in Client
        PROVE  /\ Growing(Append(broadcast, m))
               /\ Between(held[c].n, broadcast, published')
               /\ Between(held[c].n, Append(broadcast, m), published')
               /\ Between(held[c].n, sendChan[c], published')
               /\ Ahead(sendChan[c], Append(broadcast, m))
               /\ held[c].n <= published'
    <3>1. published' = published + 1 /\ published' \in Nat
      BY <1>1, <2>1 DEF Broadcast
    <3>2. /\ Between(held[c].n, broadcast, published')
          /\ Between(held[c].n, sendChan[c], published')
          /\ held[c].n < m.n
          /\ held[c].n <= published'
      BY <2>1, <3>1, BetweenWidens, ClientNumbers
    <3>3. /\ \A i \in 1..Len(broadcast) : broadcast[i].n < m.n
          /\ \A i \in 1..Len(sendChan[c]) : sendChan[c][i].n < m.n
      <4>1. /\ Between(held[c].n, broadcast, published)
            /\ Between(held[c].n, sendChan[c], published)
            /\ sendChan[c] \in Seq(Message)
        BY ClientNumbers
      <4> QED
        BY <2>1, <2>2, <4>1, QueueNumbers DEF Between
    <3>4. m.n <= published'
      BY <2>1, <3>1
    <3>5. Ahead(sendChan[c], Append(broadcast, m))
      BY <2>1, <3>3, ClientNumbers, AheadMoves
    <3>6. /\ Growing(Append(broadcast, m))
          /\ Between(held[c].n, Append(broadcast, m), published')
      BY <2>1, <2>2, <3>1, <3>2, <3>3, <3>4, ClientNumbers, AppendGrows
    <3> QED
      BY <3>2, <3>5, <3>6
  <2>4. Growing(Append(broadcast, m)) /\ Between(0, Append(broadcast, m), published')
        /\ Between(0, broadcast, published')
    <3>1. Between(0, broadcast, published)
      BY DEF NumbersGrow
    <3>2. \A i \in 1..Len(broadcast) : broadcast[i].n < m.n
      BY <2>1, <2>2, <3>1 DEF Between
    <3>3. published' = published + 1 /\ published' \in Nat
      BY <1>1, <2>1 DEF Broadcast
    <3>4. Between(0, broadcast, published')
      BY <2>1, <2>2, <3>1, <3>3, BetweenWidens
    <3>5. 0 < m.n /\ m.n <= published'
      BY <2>1, <3>3
    <3> QED
      BY <2>1, <2>2, <3>2, <3>3, <3>4, <3>5, AppendGrows
  <2>5. broadcast' = broadcast \/ broadcast' = Append(broadcast, m)
    BY <1>0, <1>1 DEF Broadcast, m
  <2> QED
    BY <1>0, <1>1, <2>2, <2>3, <2>4, <2>5 DEF Broadcast, NumbersGrow
<1>2. ASSUME Dispatch PROVE NumbersGrow'
  <2> DEFINE m == Head(broadcast)
  <2>1. /\ broadcast \in Seq(Message) /\ Growing(broadcast) /\ broadcast # <<>>
        /\ m \in Message
        /\ broadcast' = Tail(broadcast)
    BY <1>2, TakeFirst DEF Dispatch, TypeOK, NumbersGrow
  <2>2. \A j \in 1..Len(broadcast') : m.n < broadcast'[j].n
    BY <2>1, TakeFirst, QueueNumbers DEF Growing
  <2>3. Growing(broadcast') /\ Between(0, broadcast', published)
    <3>1. Between(0, broadcast, published) /\ published \in Nat
      BY DEF NumbersGrow, TypeOK
    <3> QED
      BY <2>1, <3>1, TailGrows
  <2>4. ASSUME NEW c \in Client
        PROVE  /\ Between(held[c].n, broadcast', published)
               /\ Growing(sendChan'[c])
               /\ Between(held[c].n, sendChan'[c], published)
               /\ Ahead(sendChan'[c], broadcast')
    <3> DEFINE queue == sendChan[c]
    <3>1. /\ Between(held[c].n, broadcast', published)
          /\ held[c].n < m.n /\ m.n <= published
      BY <2>1, ClientNumbers, TailGrows
    <3>2. /\ Ahead(queue, broadcast')
          /\ \A i \in 1..Len(queue) : queue[i].n < m.n
      BY <2>1, ClientNumbers, AheadMoves
    <3>3. CASE sendChan'[c] = queue
      BY <3>1, <3>2, <3>3, ClientNumbers
    <3>4. CASE sendChan'[c] = Append(queue, m)
      <4>1. Growing(Append(queue, m)) /\ Between(held[c].n, Append(queue, m), published)
        BY <2>1, <3>1, <3>2, ClientNumbers, AppendGrows
      <4>2. broadcast' \in Seq(Message)
        BY <2>1, TakeFirst
      <4>3. queue \in Seq(Message)
        BY ClientNumbers
      <4>4. Ahead(Append(queue, m), broadcast')
        BY <2>1, <2>2, <3>2, <4>2, <4>3, AheadMoves
      <4> QED
        BY <3>1, <3>4, <4>1, <4>4
    <3>5. sendChan'[c] = queue \/ sendChan'[c] = Append(queue, m)
      BY <1>0, <1>2 DEF Dispatch
    <3> QED
      BY <3>3, <3>4, <3>5
  <2> QED
    BY <1>0, <1>2, <2>3, <2>4 DEF Dispatch, NumbersGrow
<1>3. ASSUME LoopReturns PROVE NumbersGrow'
  BY <1>0, <1>3 DEF LoopReturns, NumbersGrow
<1>4. ASSUME Stop PROVE NumbersGrow'
  BY <1>0, <1>4 DEF Stop, NumbersGrow
<1>5. ASSUME NEW c \in Client, Connect(c) PROVE NumbersGrow'
  BY <1>0, <1>5 DEF Connect, NumbersGrow
<1>6. ASSUME NEW c \in Client, Register(c) PROVE NumbersGrow'
  BY <1>0, <1>6 DEF Register, TypeOK, NumbersGrow, InHand
<1>7. ASSUME NEW c \in Client, ReadRequest(c) PROVE NumbersGrow'
  BY <1>0, <1>7 DEF ReadRequest, NumbersGrow
<1>8. ASSUME NEW c \in Client, ApplyRequest(c) PROVE NumbersGrow'
  BY <1>0, <1>8 DEF ApplyRequest, NumbersGrow
<1>9. ASSUME NEW c \in Client, ReadFails(c) PROVE NumbersGrow'
  BY <1>0, <1>9 DEF ReadFails, NumbersGrow
<1>10. ASSUME NEW c \in Client, Unregister(c) PROVE NumbersGrow'
  BY <1>0, <1>10 DEF Unregister, NumbersGrow
<1>11. ASSUME NEW c \in Client, CloseConn(c) PROVE NumbersGrow'
  BY <1>0, <1>11 DEF CloseConn, NumbersGrow
<1>12. ASSUME NEW c \in Client, TakeMessage(c) PROVE NumbersGrow'
  <2> DEFINE m == Head(sendChan[c])
  <2>1. /\ sendChan[c] \in Seq(Message) /\ sendChan[c] # <<>>
        /\ broadcast \in Seq(Message)
        /\ m \in Message /\ m.n \in Nat
    BY <1>12, TakeFirst, MessageNumber DEF TakeMessage, TypeOK
  <2>2. /\ Growing(Tail(sendChan[c]))
        /\ Between(m.n, Tail(sendChan[c]), published)
        /\ held[c].n < m.n /\ m.n <= published
    BY <2>1, ClientNumbers, TailGrows
  <2>3. /\ Ahead(Tail(sendChan[c]), broadcast)
        /\ \A j \in 1..Len(broadcast) : m.n < broadcast[j].n
    BY <2>1, ClientNumbers, AheadMoves
  <2>4. Between(m.n, broadcast, published)
    BY <2>3, ClientNumbers DEF Between
  <2>5. Feed!LastOf(delivered[c]) < m.n
    BY <2>1, <2>2, ClientNumbers
  <2>6. /\ held' = [held EXCEPT ![c] = m]
        /\ sendChan' = [sendChan EXCEPT ![c] = Tail(sendChan[c])]
        /\ writer' = [writer EXCEPT ![c] = "locking"]
        /\ UNCHANGED <<broadcast, published, delivered>>
    BY <1>0, <1>12 DEF TakeMessage
  <2>7. /\ held \in [Client -> Message \cup {Nothing}]
        /\ sendChan \in [Client -> Seq(Message)]
        /\ DOMAIN writer = Client
    BY DEF TypeOK
  <2> HIDE DEF m
  <2>8. ASSUME NEW d \in Client
        PROVE  /\ Between(held'[d].n, broadcast, published)
               /\ Growing(sendChan'[d])
               /\ Between(held'[d].n, sendChan'[d], published)
               /\ Ahead(sendChan'[d], broadcast)
               /\ held'[d].n <= published
               /\ Feed!LastOf(delivered[d]) <= held'[d].n
               /\ writer'[d] \in InHand => Feed!LastOf(delivered[d]) < held'[d].n
    <3>1. CASE d = c
      <4>1. held'[d] = m /\ sendChan'[d] = Tail(sendChan[c])
        BY <2>6, <2>7, <3>1
      <4>2. Feed!LastOf(delivered[d]) \in Nat
        BY ClientNumbers
      <4> QED
        BY <2>1, <2>2, <2>3, <2>4, <2>5, <3>1, <4>1, <4>2
    <3>2. CASE d # c
      <4>1. held'[d] = held[d] /\ sendChan'[d] = sendChan[d] /\ writer'[d] = writer[d]
        BY <2>6, <2>7, <3>2
      <4> QED
        BY <4>1, ClientNumbers
    <3> QED
      BY <3>1, <3>2
  <2> QED
    BY <1>0, <2>6, <2>8 DEF NumbersGrow
<1>13. ASSUME NEW c \in Client, TakeClosed(c) PROVE NumbersGrow'
  BY <1>0, <1>13 DEF TakeClosed, TypeOK, NumbersGrow, InHand
<1>14. ASSUME NEW c \in Client, LockMu(c) PROVE NumbersGrow'
  BY <1>0, <1>14 DEF LockMu, TypeOK, NumbersGrow, InHand
<1>15. ASSUME NEW c \in Client, WriteSucceeds(c) PROVE NumbersGrow'
  <2>1. held[c].n \in 1..MaxMessages
    BY <1>0, <1>15 DEF WriteSucceeds, Message, TypeOK, InHand
  <2>2. delivered[c] \in Seq(1..MaxMessages)
    BY DEF TypeOK
  <2>3. Feed!LastOf(Append(delivered[c], held[c].n)) = held[c].n
    BY <2>1, <2>2 DEF Feed!LastOf
  <2> QED
    BY <1>0, <1>15, <2>1, <2>3 DEF WriteSucceeds, TypeOK, NumbersGrow, InHand
<1>16. ASSUME NEW c \in Client, WriteFails(c) PROVE NumbersGrow'
  BY <1>0, <1>16 DEF WriteFails, TypeOK, NumbersGrow, InHand
<1>17. ASSUME NEW c \in Client, StartPing(c) PROVE NumbersGrow'
  BY <1>0, <1>17 DEF StartPing, TypeOK, NumbersGrow, InHand
<1>18. ASSUME NEW c \in Client, PingSucceeds(c) PROVE NumbersGrow'
  BY <1>0, <1>18 DEF PingSucceeds, TypeOK, NumbersGrow, InHand
<1>19. ASSUME NEW c \in Client, PingFails(c) PROVE NumbersGrow'
  BY <1>0, <1>19 DEF PingFails, TypeOK, NumbersGrow, InHand
<1>20. ASSUME NEW c \in Client, DeadlinePasses(c) PROVE NumbersGrow'
  BY <1>0, <1>20 DEF DeadlinePasses, NumbersGrow
<1>21. ASSUME NEW c \in Client, PeerStalls(c) PROVE NumbersGrow'
  BY <1>0, <1>21 DEF PeerStalls, NumbersGrow
<1>22. ASSUME NEW c \in Client, PeerGoes(c) PROVE NumbersGrow'
  BY <1>0, <1>22 DEF PeerGoes, NumbersGrow
<1>23. CASE UNCHANGED vars
  BY <1>0, <1>23 DEF vars, NumbersGrow
<1> QED
  BY <1>1, <1>2, <1>3, <1>4, <1>5, <1>6, <1>7, <1>8, <1>9, <1>10, <1>11, <1>12, <1>13, <1>14, <1>15, <1>16, <1>17, <1>18, <1>19, <1>20, <1>21, <1>22, <1>23 DEF Next, Loop, Reader, Writer, FinishWrite, Connection

-----------------------------------------------------------------------------
(* The refinement.                                                         *)

LEMMA InitFeed == Init => Feed!Init
BY DEF Init, Feed!Init

LEMMA StepFeed ==
  TypeOK /\ NumbersGrow /\ [Next]_vars => [Feed!Next]_(Feed!vars)
<1> SUFFICES ASSUME TypeOK, NumbersGrow, [Next]_vars
             PROVE  [Feed!Next]_(Feed!vars)
  OBVIOUS
<1> USE DEF TypeOK, hubVars, pumpVars, connVars, Feed!Next, Feed!vars
<1>1. ASSUME NEW t \in Type, Broadcast(t) PROVE [Feed!Next]_(Feed!vars)
  BY <1>1 DEF Broadcast, Feed!Publish
<1>2. ASSUME Dispatch PROVE [Feed!Next]_(Feed!vars)
  BY <1>2 DEF Dispatch
<1>3. ASSUME LoopReturns PROVE [Feed!Next]_(Feed!vars)
  BY <1>3 DEF LoopReturns
<1>4. ASSUME Stop PROVE [Feed!Next]_(Feed!vars)
  BY <1>4 DEF Stop
<1>5. ASSUME NEW c \in Client, Connect(c) PROVE [Feed!Next]_(Feed!vars)
  BY <1>5 DEF Connect
<1>6. ASSUME NEW c \in Client, Register(c) PROVE [Feed!Next]_(Feed!vars)
  BY <1>6 DEF Register
<1>7. ASSUME NEW c \in Client, ReadRequest(c) PROVE [Feed!Next]_(Feed!vars)
  BY <1>7 DEF ReadRequest
<1>8. ASSUME NEW c \in Client, ApplyRequest(c) PROVE [Feed!Next]_(Feed!vars)
  BY <1>8 DEF ApplyRequest
<1>9. ASSUME NEW c \in Client, ReadFails(c) PROVE [Feed!Next]_(Feed!vars)
  BY <1>9 DEF ReadFails
<1>10. ASSUME NEW c \in Client, Unregister(c) PROVE [Feed!Next]_(Feed!vars)
  BY <1>10 DEF Unregister
<1>11. ASSUME NEW c \in Client, CloseConn(c) PROVE [Feed!Next]_(Feed!vars)
  BY <1>11 DEF CloseConn, Feed!Close
<1>12. ASSUME NEW c \in Client, TakeMessage(c) PROVE [Feed!Next]_(Feed!vars)
  BY <1>12 DEF TakeMessage
<1>13. ASSUME NEW c \in Client, TakeClosed(c) PROVE [Feed!Next]_(Feed!vars)
  BY <1>13 DEF TakeClosed
<1>14. ASSUME NEW c \in Client, LockMu(c) PROVE [Feed!Next]_(Feed!vars)
  BY <1>14 DEF LockMu
<1>15. ASSUME NEW c \in Client, WriteSucceeds(c) PROVE [Feed!Next]_(Feed!vars)
  <2>1. held[c].n \in 1..MaxMessages
    BY <1>15 DEF WriteSucceeds, Message, InHand
  <2>2. Feed!LastOf(delivered[c]) < held[c].n /\ held[c].n <= published
    BY <1>15 DEF WriteSucceeds, NumbersGrow, InHand
  <2>3. Feed!LastOf(delivered[c]) \in Nat
    BY DEF Feed!LastOf
  <2>4. held[c].n \in (Feed!LastOf(delivered[c]) + 1)..published
    BY <2>1, <2>2, <2>3
  <2>5. Feed!Deliver(c)
    BY <1>15, <2>4 DEF WriteSucceeds, MayWrite, Feed!Deliver
  <2> QED
    BY <2>5
<1>16. ASSUME NEW c \in Client, WriteFails(c) PROVE [Feed!Next]_(Feed!vars)
  BY <1>16 DEF WriteFails
<1>17. ASSUME NEW c \in Client, StartPing(c) PROVE [Feed!Next]_(Feed!vars)
  BY <1>17 DEF StartPing
<1>18. ASSUME NEW c \in Client, PingSucceeds(c) PROVE [Feed!Next]_(Feed!vars)
  BY <1>18 DEF PingSucceeds
<1>19. ASSUME NEW c \in Client, PingFails(c) PROVE [Feed!Next]_(Feed!vars)
  BY <1>19 DEF PingFails
<1>20. ASSUME NEW c \in Client, DeadlinePasses(c) PROVE [Feed!Next]_(Feed!vars)
  BY <1>20 DEF DeadlinePasses
<1>21. ASSUME NEW c \in Client, PeerStalls(c) PROVE [Feed!Next]_(Feed!vars)
  BY <1>21 DEF PeerStalls
<1>22. ASSUME NEW c \in Client, PeerGoes(c) PROVE [Feed!Next]_(Feed!vars)
  BY <1>22 DEF PeerGoes
<1>23. CASE UNCHANGED vars
  BY <1>23 DEF vars
<1> QED
  BY <1>1, <1>2, <1>3, <1>4, <1>5, <1>6, <1>7, <1>8, <1>9, <1>10, <1>11, <1>12, <1>13, <1>14, <1>15, <1>16, <1>17, <1>18, <1>19, <1>20, <1>21, <1>22, <1>23 DEF Next, Loop, Reader, Writer, FinishWrite, Connection

(* What every client is sent is an ordered part of what was broadcast,     *)
(* whatever is dropped, whichever connection fails, for any number of      *)
(* clients and messages.                                                   *)
THEOREM HubImplementsFeed == Spec => FeedIsOrdered
BY InitFeed, StepFeed, InitNumbersGrow, StepNumbersGrow, TypeCorrect, PTL
   DEF Spec, FeedIsOrdered, Feed!Spec
=============================================================================
