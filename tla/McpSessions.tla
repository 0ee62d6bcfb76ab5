----------------------------- MODULE McpSessions -----------------------------
(***************************************************************************)
(* The MCP server of internal/mcp/mcp.go: a client opens an event stream   *)
(* (handleSSE), learns the address of its session from the first event and *)
(* posts requests there (handleMessage); a tool is a query of the store,   *)
(* and its answer goes into the channel of the session, from where the     *)
(* stream writes it. The queries share the connections of the pool with    *)
(* the hub, which inserts rows. When cmd/mcp-hub is signalled, it stops    *)
(* the hub, the REST server and this one and closes the store.             *)
(*                                                                         *)
(* The hub's goroutines insert one row at a time here, a snapshot has one  *)
(* level and so one row, and the time of a row is its place in the table.  *)
(* What a request asked for is forgotten when it is answered, and the      *)
(* answer when the request returns.                                        *)
(***************************************************************************)
EXTENDS Integers, Sequences, FiniteSets

CONSTANTS
  Sessions,    \* the event streams that are opened
  Fickle,      \* those whose client may stop reading, or leave
  Requests,    \* the requests that are posted
  Calls,       \* what each may ask for
  Listing,     \* the markets that are stored: [exchange, symbol, type]
  Stored,      \* the rows an earlier run left
  Incoming,    \* the rows the hub may insert
  ChanCap,     \* capacity of eventChan, 100 in the code
  MaxConns,    \* connections of the pool, 20 in the code
  HeatmapLimit, \* rows of a heatmap, 5000 in the code
  MaxRows      \* bound: rows the hub adds

RowKind == {"trade", "liquidation", "stat", "snapshot"}

Row(kind, m) == [kind |-> kind, exchange |-> m.exchange, symbol |-> m.symbol, type |-> m.type]

AnyRow == {Row(k, m) : k \in RowKind, m \in Listing}

Tool == {"get_trades", "get_liquidations", "get_market_stats", "get_orderbook", "get_heatmap"}

(* The arguments of a tool; "since" is a row, limit may be any number.     *)
Call == [tool : Tool, exchange : STRING, symbol : STRING, type : STRING, since : Int, limit : Int]

ASSUME McpAssumption ==
  /\ Fickle \subseteq Sessions
  /\ "hub" \notin Requests /\ "endpoint" \notin Requests
  /\ ChanCap \in Nat \ {0} /\ MaxConns \in Nat \ {0} /\ MaxRows \in Nat
  /\ HeatmapLimit \in Nat
  /\ \A r \in Requests : \A c \in Calls[r] : c \in Call
  /\ Stored \in Seq(AnyRow) /\ Incoming \subseteq AnyRow
  /\ \A a, b \in Listing : a.exchange = b.exchange /\ a.symbol = b.symbol => a = b

VARIABLES
  \* sessions
  sessions,   \* the map of MCPServer
  stream,     \* where handleSSE is
  eventChan,  \* the channel of each session
  written,    \* what was written to each stream, or is being written
  peer,       \* the client of the stream
  \* requests
  at,         \* where handleMessage is
  to,         \* the session it names
  call,       \* what it asks for
  answer,     \* the response
  \* pool and hub
  queue,      \* who waits for a connection, in order
  held,       \* who has one
  hub,        \* where the hub is with an insert
  table,      \* the rows
  \* main
  main,       \* how far the shutdown is
  deadline    \* shutdownCtx is done

sessionVars == <<sessions, stream, eventChan, written, peer>>
requestVars == <<at, to, call, answer>>
poolVars == <<queue, held, hub, table>>
mainVars == <<main, deadline>>
vars == <<sessionVars, requestVars, poolVars, mainVars>>

NoCall == [tool |-> "none"]
NoAnswer == [kind |-> "none", rows |-> {}]
Rows(s) == [kind |-> "rows", rows |-> s]
Other == [kind |-> "other", rows |-> {}]

Init ==
  /\ sessions = {}
  /\ stream = [s \in Sessions |-> "none"]
  /\ eventChan = [s \in Sessions |-> <<>>]
  /\ written = [s \in Sessions |-> <<>>]
  /\ peer = [s \in Sessions |-> "reading"]
  /\ at = [r \in Requests |-> "unsent"]
  /\ to = [r \in Requests |-> "nobody"]
  /\ call = [r \in Requests |-> NoCall]
  /\ answer = [r \in Requests |-> NoAnswer]
  /\ queue = <<>>
  /\ held = {}
  /\ hub = "idle"
  /\ table = Stored
  /\ main = "running"
  /\ deadline = FALSE

Running == main # "exited"

-----------------------------------------------------------------------------
(* handleSSE and its client                                                *)

(* The session is put into the map and the address of the session into its *)
(* channel, which is new.                                                  *)
Connect(s) ==
  /\ stream[s] = "none"
  /\ main \in {"running", "hub", "rest"}
  /\ sessions' = sessions \cup {s}
  /\ eventChan' = [eventChan EXCEPT ![s] = <<"endpoint">>]
  /\ stream' = [stream EXCEPT ![s] = "select"]
  /\ UNCHANGED <<written, peer, requestVars, poolVars, mainVars>>

(* The next event is written; the write may block.                         *)
TakeEvent(s) ==
  /\ Running
  /\ stream[s] = "select" /\ eventChan[s] # <<>>
  /\ written' = [written EXCEPT ![s] = Append(@, Head(eventChan[s]))]
  /\ eventChan' = [eventChan EXCEPT ![s] = Tail(@)]
  /\ stream' = [stream EXCEPT ![s] = "writing"]
  /\ UNCHANGED <<sessions, peer, requestVars, poolVars, mainVars>>

(* The write returns when the peer reads, and fails when it is gone.       *)
Written(s) ==
  /\ Running
  /\ stream[s] = "writing" /\ peer[s] # "stalled"
  /\ stream' = [stream EXCEPT ![s] = "select"]
  /\ UNCHANGED <<sessions, eventChan, written, peer, requestVars, poolVars, mainVars>>

(* Variant with a defect: the session stays in the map.                    *)
EndStreamKeeps(s) ==
  /\ Running
  /\ stream[s] = "select" /\ peer[s] = "gone"
  /\ stream' = [stream EXCEPT ![s] = "ended"]
  /\ UNCHANGED <<sessions, eventChan, written, peer, requestVars, poolVars, mainVars>>

(* The request's context is done when the client has closed the stream;    *)
(* what the channel still holds is not written.                            *)
EndStream(s) ==
  /\ Running
  /\ stream[s] = "select" /\ peer[s] = "gone"
  /\ sessions' = sessions \ {s}
  /\ stream' = [stream EXCEPT ![s] = "ended"]
  /\ UNCHANGED <<eventChan, written, peer, requestVars, poolVars, mainVars>>

(* A client stops reading, goes on, or closes its stream.                  *)
PeerChanges(s) ==
  /\ Running
  /\ s \in Fickle
  /\ stream[s] # "none" /\ peer[s] # "gone"
  /\ \E p \in {"reading", "stalled", "gone"} \ {peer[s]} :
       peer' = [peer EXCEPT ![s] = p]
  /\ UNCHANGED <<sessions, stream, eventChan, written, requestVars, poolVars, mainVars>>

-----------------------------------------------------------------------------
(* What a tool reads from the table                                        *)

Is(field, wanted) == wanted \in {"", field}

Matching(kind, c) ==
  {i \in DOMAIN table :
     /\ table[i].kind = kind /\ table[i].symbol = c.symbol
     /\ Is(table[i].exchange, c.exchange) /\ Is(table[i].type, c.type)}

(* The window of the tools that have one begins with row c.since.          *)
Since(rows, c) == {i \in rows : i >= c.since}

(* An exchange must be named: without one there are no rows.               *)
OfExchange(rows, c) == {i \in rows : table[i].exchange = c.exchange}

(* ORDER BY time DESC LIMIT.                                               *)
Latest(rows, limit) == {i \in rows : Cardinality({j \in rows : j > i}) < limit}

(* A limit below zero is refused.                                          *)
GetLimited(kind, c) ==
  IF c.limit < 0 THEN Other ELSE Rows(Latest(Since(Matching(kind, c), c), c.limit))

GetTrades(c) == GetLimited("trade", c)

GetLiquidations(c) == GetLimited("liquidation", c)

(* DISTINCT ON (exchange) ... ORDER BY exchange, time DESC; the type is    *)
(* not looked at.                                                          *)
GetLatestMarketStats(c) ==
  LET m == Matching("stat", [c EXCEPT !.type = ""])
  IN Rows({i \in m : ~\E j \in m : j > i /\ table[j].exchange = table[i].exchange})

(* The rows of the newest time among "all", of the type that is asked for. *)
AtLatest(all, c) ==
  Rows({i \in OfExchange(Matching("snapshot", c), c) : \A j \in all : j <= i})

(* Variant with a defect: the newest time of the symbol on any exchange.   *)
GetLatestOrderbookAnywhere(c) ==
  AtLatest(Matching("snapshot", [c EXCEPT !.exchange = "", !.type = ""]), c)

(* The rows of the newest time of the symbol on the exchange, whatever its *)
(* type.                                                                   *)
GetLatestOrderbook(c) ==
  AtLatest(OfExchange(Matching("snapshot", [c EXCEPT !.type = ""]), c), c)

(* With a market type, the statement numbers it and the limit alike and is *)
(* refused. The oldest rows of the window are cut off.                     *)
ComputeHeatmap(c) ==
  IF c.type # "" THEN Other
  ELSE Rows(Latest(OfExchange(Since(Matching("snapshot", c), c), c), HeatmapLimit))

Result(c) ==
  CASE c.tool = "get_trades" -> GetTrades(c)
    [] c.tool = "get_liquidations" -> GetLiquidations(c)
    [] c.tool = "get_market_stats" -> GetLatestMarketStats(c)
    [] c.tool = "get_orderbook" -> GetLatestOrderbook(c)
    [] c.tool = "get_heatmap" -> ComputeHeatmap(c)

-----------------------------------------------------------------------------
(* handleMessage                                                           *)

(* A client that was told the address posts; the session is looked up.     *)
Post(r, s, c) ==
  /\ at[r] = "unsent"
  /\ main \in {"running", "hub", "rest"}
  /\ written[s] # <<>>
  /\ at' = [at EXCEPT ![r] = IF s \in sessions THEN "decoding" ELSE "invalid session"]
  /\ to' = [to EXCEPT ![r] = s]
  /\ call' = [call EXCEPT ![r] = c]
  /\ UNCHANGED <<answer, sessionVars, poolVars, mainVars>>

Answered(r, a) ==
  /\ at' = [at EXCEPT ![r] = "sending"]
  /\ answer' = [answer EXCEPT ![r] = a]
  /\ call' = [call EXCEPT ![r] = NoCall]
  /\ UNCHANGED to

(* The tool is a query, for which a connection is needed.                  *)
CallTool(r) ==
  /\ Running
  /\ at[r] = "decoding"
  /\ at' = [at EXCEPT ![r] = "waiting"]
  /\ queue' = Append(queue, r)
  /\ UNCHANGED <<to, call, answer, sessionVars, held, hub, table, mainVars>>

(* The body cannot be decoded, or asks for no tool: that is answered too.  *)
Decline(r) ==
  /\ Running
  /\ at[r] = "decoding"
  /\ Answered(r, Other)
  /\ UNCHANGED <<sessionVars, poolVars, mainVars>>

(* Variant with a defect: only rows that were read are closed.             *)
QueryLeaks(r) ==
  /\ Running
  /\ at[r] = "querying"
  /\ \E a \in {Result(call[r]), Other} :
       /\ Answered(r, a)
       /\ held' = IF a.kind = "rows" THEN held \ {r} ELSE held
  /\ UNCHANGED <<sessionVars, queue, hub, table, mainVars>>

(* The statement ends, with its rows or an error, and the connection goes  *)
(* back to the pool. Nothing ends it early: its context is never done.     *)
Query(r) ==
  /\ Running
  /\ at[r] = "querying"
  /\ \E a \in {Result(call[r]), Other} : Answered(r, a)
  /\ held' = held \ {r}
  /\ UNCHANGED <<sessionVars, queue, hub, table, mainVars>>

(* A member of the queue leaves it.                                        *)
Leave(q) ==
  \E i \in DOMAIN queue :
    /\ queue[i] = q
    /\ queue' = SubSeq(queue, 1, i - 1) \o SubSeq(queue, i + 1, Len(queue))

(* The pool is closed: who waits for a connection gets an error.           *)
QueryRefused(r) ==
  /\ main = "closing"
  /\ at[r] = "waiting"
  /\ Answered(r, Other)
  /\ Leave(r)
  /\ UNCHANGED <<sessionVars, held, hub, table, mainVars>>

(* The post is accepted, and the answer goes out of scope.                 *)
Return(r) ==
  /\ at' = [at EXCEPT ![r] = "accepted"]
  /\ answer' = [answer EXCEPT ![r] = NoAnswer]

(* Variant with a defect: an answer that finds the channel full is gone.   *)
SendResponseOrDrop(r) ==
  /\ Running
  /\ at[r] = "sending"
  /\ eventChan' = IF Len(eventChan[to[r]]) < ChanCap
                    THEN [eventChan EXCEPT ![to[r]] = Append(@, r)] ELSE eventChan
  /\ Return(r)
  /\ UNCHANGED <<sessions, stream, written, peer, to, call, poolVars, mainVars>>

(* The answer goes into the channel, whether its session still is in the   *)
(* map or not.                                                             *)
SendResponse(r) ==
  /\ Running
  /\ at[r] = "sending"
  /\ Len(eventChan[to[r]]) < ChanCap
  /\ eventChan' = [eventChan EXCEPT ![to[r]] = Append(@, r)]
  /\ Return(r)
  /\ UNCHANGED <<sessions, stream, written, peer, to, call, poolVars, mainVars>>

-----------------------------------------------------------------------------
(* The pool and the hub                                                    *)

(* Who has waited longest gets the connection that is free.                *)
Grant ==
  /\ main \notin {"closing", "exited"}
  /\ queue # <<>>
  /\ Cardinality(held) < MaxConns
  /\ held' = held \cup {Head(queue)}
  /\ queue' = Tail(queue)
  /\ IF Head(queue) = "hub"
       THEN hub' = "inserting" /\ UNCHANGED at
       ELSE at' = [at EXCEPT ![Head(queue)] = "querying"] /\ UNCHANGED hub
  /\ UNCHANGED <<to, call, answer, sessionVars, table, mainVars>>

(* An event of a connector, or the ticker, makes the hub insert.           *)
HubBegins ==
  /\ main = "running"
  /\ hub = "idle" /\ Len(table) < Len(Stored) + MaxRows
  /\ hub' = "waiting"
  /\ queue' = Append(queue, "hub")
  /\ UNCHANGED <<held, table, sessionVars, requestVars, mainVars>>

(* The insert ends, with the row in the table or without.                  *)
HubEnds ==
  /\ Running
  /\ hub = "inserting"
  /\ \/ \E row \in Incoming : table' = Append(table, row)
     \/ UNCHANGED table
  /\ hub' = "idle"
  /\ held' = held \ {"hub"}
  /\ UNCHANGED <<queue, sessionVars, requestVars, mainVars>>

(* The context of the hub is cancelled while it waits.                     *)
HubGivesUp ==
  /\ main = "hub"
  /\ hub = "waiting"
  /\ hub' = "idle"
  /\ Leave("hub")
  /\ UNCHANGED <<held, table, sessionVars, requestVars, mainVars>>

-----------------------------------------------------------------------------
(* main, after the signal                                                  *)

Phase(from, next) ==
  /\ main = from
  /\ main' = next
  /\ UNCHANGED <<deadline, sessionVars, requestVars, poolVars>>

Signal == Phase("running", "hub")

(* h.Stop returns when its goroutines have; what they wait for ends with   *)
(* their context.                                                          *)
HubStopped == hub = "idle" /\ Phase("hub", "rest")

(* Once its requests are answered, which may be at any time or never, or   *)
(* the deadline has passed.                                                *)
RestStopped == Phase("rest", "mcp")

(* An open stream counts as a request under way.                           *)
Drained ==
  /\ \A s \in Sessions : stream[s] \in {"none", "ended"}
  /\ \A r \in Requests : at[r] \in {"unsent", "accepted", "invalid session"}

(* The servers are stopped and shutdownCtx goes.                           *)
Closing ==
  /\ main = "mcp"
  /\ main' = "closing" /\ deadline' = FALSE
  /\ UNCHANGED <<sessionVars, requestVars, poolVars>>

(* Variant with a defect: the wait for the requests has no deadline.       *)
McpStoppedDrained == Drained /\ Closing

McpStopped == (Drained \/ deadline) /\ Closing

(* s.Close waits for the connections that are in use; then main returns.   *)
StoreClosed == held = {} /\ Phase("closing", "exited")

(* The five seconds of shutdownCtx are over.                               *)
Expire ==
  /\ main \in {"rest", "mcp"} /\ ~deadline
  /\ deadline' = TRUE
  /\ UNCHANGED <<main, sessionVars, requestVars, poolVars>>

-----------------------------------------------------------------------------

StreamStep(s) == TakeEvent(s) \/ Written(s) \/ EndStream(s)

RequestStep(r) == CallTool(r) \/ Decline(r) \/ Query(r) \/ QueryRefused(r) \/ SendResponse(r)

MainStep == HubStopped \/ (deadline /\ RestStopped) \/ McpStopped \/ StoreClosed

Next ==
  \/ \E s \in Sessions : Connect(s) \/ StreamStep(s) \/ PeerChanges(s)
  \/ \E r \in Requests : (\E s \in Sessions, c \in Calls[r] : Post(r, s, c)) \/ RequestStep(r)
  \/ Grant
  \/ HubBegins \/ HubEnds \/ HubGivesUp
  \/ Signal \/ MainStep \/ RestStopped \/ Expire

(* The runtime schedules every goroutine, the pool hands on what is free,  *)
(* a statement ends some time and so do five seconds. Nothing is assumed   *)
(* of the clients, of the REST server or of who sends the signal.          *)
Fairness ==
  /\ \A s \in Sessions : WF_vars(StreamStep(s))
  /\ \A r \in Requests : WF_vars(RequestStep(r))
  /\ WF_vars(Grant)
  /\ WF_vars(HubEnds \/ HubGivesUp)
  /\ WF_vars(MainStep \/ Expire)

Spec == Init /\ [][Next]_vars /\ Fairness

-----------------------------------------------------------------------------
(* Properties                                                              *)

Events == Requests \cup {"endpoint"}

StreamsTyped ==
  /\ stream \in [Sessions -> {"none", "select", "writing", "ended"}]
  /\ sessions = {s \in Sessions : stream[s] \notin {"none", "ended"}}
  /\ eventChan \in [Sessions -> Seq(Events)]
  /\ \A s \in Sessions : Len(eventChan[s]) <= ChanCap
  /\ written \in [Sessions -> Seq(Events)]
  /\ peer \in [Sessions -> {"reading", "stalled", "gone"}]

RequestsTyped ==
  /\ at \in [Requests -> {"unsent", "invalid session", "decoding", "waiting", "querying",
                          "sending", "accepted"}]
  /\ to \in [Requests -> Sessions \cup {"nobody"}]
  /\ call \in [Requests -> Call \cup {NoCall}]
  /\ answer \in [Requests -> [kind : {"none", "rows", "other"}, rows : SUBSET DOMAIN table]]

Waiting == {r \in Requests : at[r] = "waiting"} \cup (IF hub = "waiting" THEN {"hub"} ELSE {})

Holding == {r \in Requests : at[r] = "querying"} \cup (IF hub = "inserting" THEN {"hub"} ELSE {})

PoolTyped ==
  /\ queue \in Seq(Requests \cup {"hub"})
  /\ {queue[i] : i \in DOMAIN queue} = Waiting
  /\ held = Holding /\ Cardinality(held) <= MaxConns
  /\ hub \in {"idle", "waiting", "inserting"}
  /\ table \in Seq(AnyRow)

(* Every variable has its type; the map has the sessions whose stream is   *)
(* served and no other; who waits is in the queue and who queries has a    *)
(* connection.                                                             *)
TypeOK ==
  /\ StreamsTyped /\ RequestsTyped /\ PoolTyped
  /\ main \in {"running", "hub", "rest", "mcp", "closing", "exited"}
  /\ deadline \in BOOLEAN

(* The stream of a session, as far as it was put into the channel.         *)
Sent(s) == written[s] \o eventChan[s]

(* The first event of a stream is its endpoint; after it come the answers  *)
(* to the requests that named the session, each once, and those of every   *)
(* request that was accepted: none is dropped, doubled or sent elsewhere.  *)
AnsweredOnce ==
  \A s \in Sessions :
    /\ Sent(s) # <<>> => Sent(s)[1] = "endpoint"
    /\ \A i, j \in DOMAIN Sent(s) : Sent(s)[i] = Sent(s)[j] => i = j
    /\ {Sent(s)[i] : i \in DOMAIN Sent(s)} \ {"endpoint"} =
         {r \in Requests : to[r] = s /\ at[r] = "accepted"}

(* The later rows of the same kind and symbol.                             *)
Newer(i) ==
  {j \in DOMAIN table : j > i /\ table[j].kind = table[i].kind /\ table[j].symbol = table[i].symbol}

(* The limit of a tool that has one: its caller's or its own.              *)
LimitOf(c) == IF c.tool = "get_heatmap" THEN HeatmapLimit ELSE c.limit

(* Whether the rows shown make up for row i: it is shown, or a newer one   *)
(* of the market, or as many newer ones as the limit lets through.         *)
Covers(c, shown, i) ==
  LET newer == shown \cap Newer(i) IN
  \/ i \in shown
  \/ c.tool \in {"get_market_stats", "get_orderbook"}
       /\ \E j \in newer : table[j].exchange = table[i].exchange
  \/ c.tool \in {"get_trades", "get_liquidations", "get_heatmap"}
       /\ Cardinality(newer) = LimitOf(c)

KindOf(tool) ==
  CASE tool = "get_trades" -> "trade" [] tool = "get_liquidations" -> "liquidation"
    [] tool = "get_market_stats" -> "stat" [] OTHER -> "snapshot"

(* The rows a call is about; one for snapshots names its exchange.         *)
Asked(c) ==
  LET rows == Since(Matching(KindOf(c.tool), c), c)
  IN IF KindOf(c.tool) = "snapshot" THEN OfExchange(rows, c) ELSE rows

(* The answer to a query is as new as the table it is read from: a row of  *)
(* the market it asks for that it does not show is outdated by those that  *)
(* it shows, whatever is stored of markets with the same symbol elsewhere: *)
(* by one newer row of the exchange for the tools that show the latest, by *)
(* as many newer ones as the limit for those that cut, a heatmap included, *)
(* which shows its whole window only up to HeatmapLimit rows.              *)
FreshAnswers ==
  [][\A r \in Requests : at[r] = "querying" /\ answer'[r].kind = "rows" =>
       \A i \in Asked(call[r]) : Covers(call[r], answer'[r].rows, i)]_vars

Received(r) == \E s \in Sessions : \E i \in DOMAIN written[s] : written[s][i] = r

(* Tool queries keep neither one another nor the hub from the connections  *)
(* of the pool: the hub gets one whenever it waits, a request is answered  *)
(* on the stream while its client reads, and the session of a client that  *)
(* closed its stream is released.                                          *)
EveryoneIsServed ==
  /\ hub = "waiting" ~> hub # "waiting"
  /\ \A r \in Requests :
       at[r] = "decoding" ~>
         (Received(r) \/ (\E s \in Sessions : to[r] = s /\ peer[s] # "reading") \/ main # "running")
  /\ \A s \in Fickle :
       (peer[s] = "gone") ~> (stream[s] = "ended" \/ main = "exited")

(* The process ends after a signal, whatever its streams, their clients    *)
(* and the requests under way do.                                          *)
SignalEnds == main = "hub" ~> main = "exited"
=============================================================================
