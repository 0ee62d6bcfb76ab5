------------------------------- MODULE WsHub -------------------------------
(***************************************************************************)
(* internal/ws/hub.go: the WebSocket hub. ServeWS registers a client with  *)
(* the loop and starts its readPump and writePump; Broadcast offers a      *)
(* message to the loop, which offers it to the channel of every registered *)
(* client; writePump writes what the client subscribed to.                 *)
(*                                                                         *)
(* Of the connection (gorilla/websocket) the model keeps what the hub      *)
(* relies on: a write deadline stays set until it is set again, a write    *)
(* that fails makes all later writes fail, and Close ends a blocked read   *)
(* or write.                                                               *)
(***************************************************************************)
EXTENDS Integers, Sequences

CONSTANTS
  Client,             \* connections; each is served once
  Type,               \* the types of the messages that are broadcast
  Channel,            \* the channels a client may name in its requests
  BroadcastCapacity,  \* capacity of Hub.broadcast
  SendCapacity,       \* capacity of Client.sendChan
  MaxMessages         \* bound: calls of Broadcast

ASSUME WsAssumption ==
  /\ BroadcastCapacity \in Nat \ {0}
  /\ SendCapacity \in Nat \ {0}
  /\ MaxMessages \in Nat

Message == [n : 1..MaxMessages, type : Type]
Request == [subscribe : BOOLEAN, channel : Channel]

VARIABLES
  \* the hub
  ctxDone,     \* h.ctx is cancelled
  loopDone,    \* loop has returned
  broadcast,   \* the channel into the loop
  clients,     \* the registered clients
  published,   \* how often Broadcast was called
  \* each client
  reader,      \* where ServeWS and then readPump is
  request,     \* the last request readPump decoded
  writer,      \* where writePump is
  held,        \* the message writePump took last
  subbed,      \* the channels subscribed to
  sendChan,    \* the channel into writePump
  chanClosed,  \* sendChan was closed
  \* each connection
  peer,        \* the other end: "reads", "stalled" (reads no more), "gone"
  deadline,    \* the write deadline: "none", "ahead", "past"
  writeErr,    \* a write has failed
  closed,      \* conn.Close was called
  delivered    \* the numbers of the messages that were written

hubVars == <<ctxDone, loopDone, broadcast, clients, published>>
pumpVars == <<reader, request, writer, held, subbed, sendChan, chanClosed>>
connVars == <<peer, deadline, writeErr, closed, delivered>>
vars == <<ctxDone, loopDone, broadcast, clients, published, reader, request,
          writer, held, subbed, sendChan, chanClosed, peer, deadline,
          writeErr, closed, delivered>>

Nothing == [n |-> 0, type |-> "none"]
NoRequest == [subscribe |-> FALSE, channel |-> "none"]

Init ==
  /\ ctxDone = FALSE
  /\ loopDone = FALSE
  /\ broadcast = <<>>
  /\ clients = {}
  /\ published = 0
  /\ reader = [c \in Client |-> "absent"]
  /\ request = [c \in Client |-> NoRequest]
  /\ writer = [c \in Client |-> "absent"]
  /\ held = [c \in Client |-> Nothing]
  /\ subbed = [c \in Client |-> {}]
  /\ sendChan = [c \in Client |-> <<>>]
  /\ chanClosed = [c \in Client |-> FALSE]
  /\ peer = [c \in Client |-> "reads"]
  /\ deadline = [c \in Client |-> "none"]
  /\ writeErr = [c \in Client |-> FALSE]
  /\ closed = [c \in Client |-> FALSE]
  /\ delivered = [c \in Client |-> <<>>]

-----------------------------------------------------------------------------
(* Broadcast, the loop, and Stop.                                          *)

(* Broadcast never blocks: a full channel drops the message.               *)
Broadcast(t) ==
  /\ published < MaxMessages
  /\ published' = published + 1
  /\ broadcast' = IF Len(broadcast) < BroadcastCapacity
                  THEN Append(broadcast, [n |-> published + 1, type |-> t])
                  ELSE broadcast
  /\ UNCHANGED <<ctxDone, loopDone, clients, pumpVars, connVars>>

(* Variant with a defect: a full client channel takes the message.         *)
DispatchUnbounded ==
  /\ ~loopDone /\ broadcast # <<>>
  /\ broadcast' = Tail(broadcast)
  /\ sendChan' = [c \in Client |->
                    IF c \in clients
                    THEN Append(sendChan[c], Head(broadcast))
                    ELSE sendChan[c]]
  /\ UNCHANGED <<ctxDone, loopDone, clients, published, reader, request,
                 writer, held, subbed, chanClosed, connVars>>

(* The loop offers a message to every registered client.                   *)
Dispatch ==
  /\ ~loopDone /\ broadcast # <<>>
  /\ broadcast' = Tail(broadcast)
  /\ sendChan' = [c \in Client |->
                    IF c \in clients /\ Len(sendChan[c]) < SendCapacity
                    THEN Append(sendChan[c], Head(broadcast))
                    ELSE sendChan[c]]
  /\ UNCHANGED <<ctxDone, loopDone, clients, published, reader, request,
                 writer, held, subbed, chanClosed, connVars>>

Stop ==
  /\ ~ctxDone
  /\ ctxDone' = TRUE
  /\ UNCHANGED <<loopDone, broadcast, clients, published, pumpVars, connVars>>

LoopReturns ==
  /\ ctxDone /\ ~loopDone
  /\ loopDone' = TRUE
  /\ UNCHANGED <<ctxDone, broadcast, clients, published, pumpVars, connVars>>

-----------------------------------------------------------------------------
(* ServeWS and readPump.                                                   *)

(* A request for /ws is upgraded and ServeWS reaches h.register <- client. *)
Connect(c) ==
  /\ reader[c] = "absent"
  /\ reader' = [reader EXCEPT ![c] = "registering"]
  /\ UNCHANGED <<hubVars, request, writer, held, subbed, sendChan,
                 chanClosed, connVars>>

(* Variant with a defect: the pumps are started before the registration.   *)
RegisterLate(c) ==
  /\ reader[c] = "registering"
  /\ \/ /\ ~loopDone /\ writer[c] = "absent"
        /\ clients' = clients \cup {c}
     \/ UNCHANGED clients
  /\ reader' = [reader EXCEPT ![c] = "reading"]
  /\ writer' = [writer EXCEPT ![c] = "select"]
  /\ UNCHANGED <<ctxDone, loopDone, broadcast, published, request, held,
                 subbed, sendChan, chanClosed, connVars>>

(* The loop receives the client, which blocks ServeWS until then, and the  *)
(* pumps are started.                                                      *)
Register(c) ==
  /\ ~loopDone
  /\ reader[c] = "registering"
  /\ clients' = clients \cup {c}
  /\ reader' = [reader EXCEPT ![c] = "reading"]
  /\ writer' = [writer EXCEPT ![c] = "select"]
  /\ UNCHANGED <<ctxDone, loopDone, broadcast, published, request, held,
                 subbed, sendChan, chanClosed, connVars>>

(* ReadMessage returns a subscribe or unsubscribe request.                 *)
ReadRequest(c) ==
  /\ reader[c] = "reading" /\ peer[c] # "gone"
  /\ request' \in {[request EXCEPT ![c] = r] : r \in Request}
  /\ reader' = [reader EXCEPT ![c] = "locking"]
  /\ UNCHANGED <<hubVars, writer, held, subbed, sendChan, chanClosed, connVars>>

(* writePump holds c.mu while it writes a message.                         *)
MuFree(c) == writer[c] # "writing"

(* Variant with a defect: the subscriptions change without the lock.       *)
ApplyUnlocked(c) ==
  /\ reader[c] = "locking"
  /\ subbed' = [subbed EXCEPT ![c] =
                  IF request[c].subscribe THEN @ \cup {request[c].channel}
                  ELSE @ \ {request[c].channel}]
  /\ reader' = [reader EXCEPT ![c] = "reading"]
  /\ UNCHANGED <<hubVars, request, writer, held, sendChan, chanClosed, connVars>>

(* c.subbed is changed under c.mu.                                         *)
ApplyRequest(c) ==
  /\ reader[c] = "locking" /\ MuFree(c)
  /\ subbed' = [subbed EXCEPT ![c] =
                  IF request[c].subscribe THEN @ \cup {request[c].channel}
                  ELSE @ \ {request[c].channel}]
  /\ reader' = [reader EXCEPT ![c] = "reading"]
  /\ UNCHANGED <<hubVars, request, writer, held, sendChan, chanClosed, connVars>>

(* ReadMessage returns an error: the peer closed, or no pong came within   *)
(* the read deadline. The deferred function begins.                        *)
ReadFails(c) ==
  /\ reader[c] = "reading"
  /\ reader' = [reader EXCEPT ![c] = "unregistering"]
  /\ UNCHANGED <<hubVars, request, writer, held, subbed, sendChan,
                 chanClosed, connVars>>

(* Variant with a defect: the client stays in the map.                     *)
UnregisterKeeps(c) ==
  /\ ~loopDone
  /\ reader[c] = "unregistering"
  /\ chanClosed' = [chanClosed EXCEPT ![c] = TRUE]
  /\ reader' = [reader EXCEPT ![c] = "closing"]
  /\ UNCHANGED <<hubVars, request, writer, held, subbed, sendChan, connVars>>

(* The loop receives the client from h.unregister, which blocks readPump   *)
(* until then, deletes it and closes its channel.                          *)
Unregister(c) ==
  /\ ~loopDone
  /\ reader[c] = "unregistering"
  /\ clients' = clients \ {c}
  /\ chanClosed' = [chanClosed EXCEPT ![c] = TRUE]
  /\ reader' = [reader EXCEPT ![c] = "closing"]
  /\ UNCHANGED <<ctxDone, loopDone, broadcast, published, request, writer,
                 held, subbed, sendChan, connVars>>

(* c.conn.Close(), and readPump returns.                                   *)
CloseConn(c) ==
  /\ reader[c] = "closing"
  /\ closed' = [closed EXCEPT ![c] = TRUE]
  /\ reader' = [reader EXCEPT ![c] = "done"]
  /\ UNCHANGED <<hubVars, request, writer, held, subbed, sendChan,
                 chanClosed, peer, deadline, writeErr, delivered>>

-----------------------------------------------------------------------------
(* writePump.                                                              *)

(* Variant with a defect: the message stays in the channel.                *)
TakeMessageKeeps(c) ==
  /\ writer[c] = "select" /\ sendChan[c] # <<>>
  /\ held' = [held EXCEPT ![c] = Head(sendChan[c])]
  /\ writer' = [writer EXCEPT ![c] = "locking"]
  /\ UNCHANGED <<hubVars, reader, request, subbed, sendChan, chanClosed, connVars>>

TakeMessage(c) ==
  /\ writer[c] = "select" /\ sendChan[c] # <<>>
  /\ held' = [held EXCEPT ![c] = Head(sendChan[c])]
  /\ sendChan' = [sendChan EXCEPT ![c] = Tail(@)]
  /\ writer' = [writer EXCEPT ![c] = "locking"]
  /\ UNCHANGED <<hubVars, reader, request, subbed, chanClosed, connVars>>

(* The channel is closed and empty: writePump returns. Its close frame     *)
(* changes nothing the model keeps.                                        *)
TakeClosed(c) ==
  /\ writer[c] = "select" /\ sendChan[c] = <<>> /\ chanClosed[c]
  /\ writer' = [writer EXCEPT ![c] = "done"]
  /\ UNCHANGED <<hubVars, reader, request, held, subbed, sendChan,
                 chanClosed, connVars>>

Subscribed(c) == held[c].type \in subbed[c] \/ "all" \in subbed[c]

(* c.mu.Lock(), and the decision whether the client wants the message;     *)
(* when it does not, the lock is released at once.                         *)
LockMu(c) ==
  /\ writer[c] = "locking"
  /\ writer' = [writer EXCEPT ![c] = IF Subscribed(c) THEN "writing" ELSE "select"]
  /\ UNCHANGED <<hubVars, reader, request, held, subbed, sendChan,
                 chanClosed, connVars>>

(* A write may succeed while its deadline has not passed and the           *)
(* connection is in order, even to a peer that stalls or is gone: the      *)
(* kernel has buffers.                                                     *)
MayWrite(c) == deadline[c] # "past" /\ ~writeErr[c] /\ ~closed[c]

(* A write may fail when it must, or when the peer is gone.                *)
MayFail(c) == ~MayWrite(c) \/ peer[c] = "gone"

WriteSucceeds(c) ==
  /\ writer[c] = "writing" /\ MayWrite(c)
  /\ delivered' = [delivered EXCEPT ![c] = Append(@, held[c].n)]
  /\ writer' = [writer EXCEPT ![c] = "select"]
  /\ UNCHANGED <<hubVars, reader, request, held, subbed, sendChan,
                 chanClosed, peer, deadline, writeErr, closed>>

(* Variant with a defect: a failed write returns with the lock held.       *)
WriteFailsLocked(c) ==
  /\ writer[c] = "writing" /\ MayFail(c)
  /\ writeErr' = [writeErr EXCEPT ![c] = TRUE]
  /\ UNCHANGED <<hubVars, pumpVars, peer, deadline, closed, delivered>>

(* The error is logged and writePump goes on.                              *)
WriteFails(c) ==
  /\ writer[c] = "writing" /\ MayFail(c)
  /\ writeErr' = [writeErr EXCEPT ![c] = TRUE]
  /\ writer' = [writer EXCEPT ![c] = "select"]
  /\ UNCHANGED <<hubVars, reader, request, held, subbed, sendChan,
                 chanClosed, peer, deadline, closed, delivered>>

(* The ticker of 30 seconds: the write deadline is set 10 seconds ahead,   *)
(* and is not taken back after the ping.                                   *)
StartPing(c) ==
  /\ writer[c] = "select"
  /\ writer' = [writer EXCEPT ![c] = "pinging"]
  /\ deadline' = [deadline EXCEPT ![c] = "ahead"]
  /\ UNCHANGED <<hubVars, reader, request, held, subbed, sendChan,
                 chanClosed, peer, writeErr, closed, delivered>>

PingSucceeds(c) ==
  /\ writer[c] = "pinging" /\ MayWrite(c)
  /\ writer' = [writer EXCEPT ![c] = "select"]
  /\ UNCHANGED <<hubVars, reader, request, held, subbed, sendChan,
                 chanClosed, connVars>>

(* writePump returns and leaves the connection open.                       *)
PingFails(c) ==
  /\ writer[c] = "pinging" /\ MayFail(c)
  /\ writeErr' = [writeErr EXCEPT ![c] = TRUE]
  /\ writer' = [writer EXCEPT ![c] = "done"]
  /\ UNCHANGED <<hubVars, reader, request, held, subbed, sendChan,
                 chanClosed, peer, deadline, closed, delivered>>

-----------------------------------------------------------------------------
(* The environment.                                                        *)

(* The 10 seconds pass. A peer that reads takes a frame in less.           *)
DeadlinePasses(c) ==
  /\ deadline[c] = "ahead"
  /\ peer[c] = "reads" => writer[c] \notin {"writing", "pinging"}
  /\ deadline' = [deadline EXCEPT ![c] = "past"]
  /\ UNCHANGED <<hubVars, pumpVars, peer, writeErr, closed, delivered>>

PeerStalls(c) ==
  /\ reader[c] # "absent" /\ peer[c] = "reads"
  /\ peer' = [peer EXCEPT ![c] = "stalled"]
  /\ UNCHANGED <<hubVars, pumpVars, deadline, writeErr, closed, delivered>>

PeerGoes(c) ==
  /\ reader[c] # "absent" /\ peer[c] # "gone"
  /\ peer' = [peer EXCEPT ![c] = "gone"]
  /\ UNCHANGED <<hubVars, pumpVars, deadline, writeErr, closed, delivered>>

-----------------------------------------------------------------------------
Loop ==
  \/ Dispatch \/ LoopReturns
  \/ \E c \in Client : Register(c) \/ Unregister(c)

Reader(c) ==
  Connect(c) \/ ReadRequest(c) \/ ApplyRequest(c) \/ ReadFails(c) \/ CloseConn(c)

FinishWrite(c) ==
  \/ WriteSucceeds(c) \/ WriteFails(c) \/ PingSucceeds(c) \/ PingFails(c)

Writer(c) ==
  TakeMessage(c) \/ TakeClosed(c) \/ LockMu(c) \/ StartPing(c) \/ FinishWrite(c)

Connection(c) == DeadlinePasses(c) \/ PeerStalls(c) \/ PeerGoes(c)

Next ==
  \/ \E t \in Type : Broadcast(t)
  \/ Loop \/ Stop
  \/ \E c \in Client : Reader(c) \/ Writer(c) \/ Connection(c)

(* Every goroutine that can run does; time passes; a mutex and a select    *)
(* starve nobody (SF). A read fails in the end when the peer answers no    *)
(* ping any more, whatever it still sends (SF, since a peer that stalled   *)
(* stays so). A write ends when the peer takes it or it must fail: one to  *)
(* a peer that stalled may block for ever.                                 *)
Fairness ==
  /\ WF_vars(Dispatch)
  /\ WF_vars(LoopReturns)
  /\ \A c \in Client :
       /\ SF_vars(Register(c)) /\ SF_vars(Unregister(c))
       /\ SF_vars(ApplyRequest(c))
       /\ SF_vars(peer[c] # "reads" /\ ReadFails(c))
       /\ WF_vars(CloseConn(c))
       /\ WF_vars(LockMu(c))
       /\ SF_vars(TakeMessage(c)) /\ SF_vars(TakeClosed(c))
       /\ WF_vars((peer[c] = "reads" \/ MayFail(c)) /\ FinishWrite(c))
       /\ WF_vars(DeadlinePasses(c))

Spec == Init /\ [][Next]_vars /\ Fairness

-----------------------------------------------------------------------------
(* Properties.                                                             *)

(* Where writePump has a message that is not written yet.                  *)
InHand == {"locking", "writing"}

(* Every variable has its type, and no channel outgrows its capacity.      *)
TypeOK ==
  /\ ctxDone \in BOOLEAN
  /\ loopDone \in BOOLEAN
  /\ broadcast \in Seq(Message) /\ Len(broadcast) <= BroadcastCapacity
  /\ clients \subseteq Client
  /\ published \in 0..MaxMessages
  /\ reader \in [Client -> {"absent", "registering", "reading", "locking",
                            "unregistering", "closing", "done"}]
  /\ request \in [Client -> Request \cup {NoRequest}]
  /\ \A c \in Client : reader[c] = "locking" => request[c] \in Request
  /\ writer \in [Client -> {"absent", "select", "locking", "writing",
                            "pinging", "done"}]
  /\ held \in [Client -> Message \cup {Nothing}]
  /\ \A c \in Client : writer[c] \in InHand => held[c] \in Message
  /\ subbed \in [Client -> SUBSET Channel]
  /\ sendChan \in [Client -> Seq(Message)]
  /\ \A c \in Client : Len(sendChan[c]) <= SendCapacity
  /\ chanClosed \in [Client -> BOOLEAN]
  /\ peer \in [Client -> {"reads", "stalled", "gone"}]
  /\ deadline \in [Client -> {"none", "ahead", "past"}]
  /\ writeErr \in [Client -> BOOLEAN]
  /\ closed \in [Client -> BOOLEAN]
  /\ delivered \in [Client -> Seq(1..MaxMessages)]

(* The loop knows a client exactly while its readPump has not              *)
(* unregistered it, and the channel of a client it knows is open: the loop *)
(* never sends on a closed channel nor closes one twice, either of which   *)
(* would end the process.                                                  *)
KnownIsOpen ==
  \A c \in Client :
    /\ c \in clients <=> reader[c] \in {"reading", "locking", "unregistering"}
    /\ chanClosed[c] <=> reader[c] \in {"closing", "done"}

Feed == INSTANCE LossyFeed

(* Parts of the inductive invariant the proofs use.                        *)

(* The numbers of the messages grow from what was delivered to a client    *)
(* over what its pump holds and what its channel holds to what the loop    *)
(* has not dispatched yet.                                                 *)
Growing(queue) ==
  \A i, j \in 1..Len(queue) : i < j => queue[i].n < queue[j].n

Between(low, queue, high) ==
  \A i \in 1..Len(queue) : low < queue[i].n /\ queue[i].n <= high

Ahead(queue, later) ==
  \A i \in 1..Len(queue), j \in 1..Len(later) : queue[i].n < later[j].n

NumbersGrow ==
  /\ Growing(broadcast) /\ Between(0, broadcast, published)
  /\ \A c \in Client :
       /\ Between(held[c].n, broadcast, published)
       /\ Growing(sendChan[c])
       /\ Between(held[c].n, sendChan[c], published)
       /\ Ahead(sendChan[c], broadcast)
       /\ held[c].n <= published
       /\ Feed!LastOf(delivered[c]) <= held[c].n
       /\ writer[c] \in InHand => Feed!LastOf(delivered[c]) < held[c].n

(* What is being written is subscribed to.                                 *)
WritingSubscribed == \A c \in Client : writer[c] = "writing" => Subscribed(c)

(* Through the loop, the channel and the pump of each client, across       *)
(* dropped messages and failing connections, a subscriber sees an ordered  *)
(* part of what was broadcast, and nothing after its connection is closed. *)
FeedIsOrdered == Feed!Spec

(* A message is written to a client only while it is subscribed: a request *)
(* that readPump applies cannot fall between the decision and the write.   *)
WrittenWhileSubscribed ==
  [][\A c \in Client : delivered'[c] # delivered[c] => Subscribed(c)]_vars

(* Unless the hub is stopped, a client whose peer is gone is forgotten,    *)
(* its connection closed and its pumps ended, wherever they were.          *)
Released(c) == c \notin clients /\ closed[c] /\ writer[c] = "done"

GoneIsReleased ==
  [](~ctxDone) => \A c \in Client : peer[c] = "gone" ~> Released(c)
=============================================================================
