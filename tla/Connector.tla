----------------------------- MODULE Connector -----------------------------
(***************************************************************************)
(* The life of a connector of internal/exchange: Run, its socket loops     *)
(* (connectAndStream), the reconnect delays and the runtime status that    *)
(* all loops of a connector share (runtime.go, backoff.go).                *)
(*                                                                         *)
(* Most connectors have one loop, which is Run itself. Those of Bybit and  *)
(* Kraken start one goroutine per subscription group and Run only waits    *)
(* for the cancellation. Some start a goroutine for each connection that   *)
(* writes pings to it.                                                     *)
(***************************************************************************)
EXTENDS Integers, FiniteSets

CONSTANTS
  Group,          \* names of subscription groups
  Connectors,     \* the connectors that are looked at
  MaxReconnects   \* bound: lost connections, by the number of groups

(* What one connector does and another does not.                           *)
Convention ==
  [own : BOOLEAN,         \* Run is the loop of the only group
   subscribes : BOOLEAN,  \* requests are written before MarkConnected
   marks : BOOLEAN,       \* a failed request is marked
   pings : BOOLEAN,       \* a goroutine writes pings
   answers : BOOLEAN]     \* handleMessage writes to the connection

ASSUME ConnectorAssumption ==
  /\ IsFiniteSet(Group)
  /\ Connectors \subseteq Convention
  /\ MaxReconnects \in [1..Cardinality(Group) -> Nat]

VARIABLES
  groups,       \* the groups Connect set up
  conn,         \* which connector it is
  ctxDone,      \* the context of the connector is cancelled
  run,          \* "idle", "running", "returned"
  loop,         \* where the loop of each group is
  delay,        \* the delay each loop was given last
  pinger,       \* the goroutine that pings the connection of each group
  stale,        \* how many such goroutines have lost their connection
  crashed,      \* a goroutine panicked, and the process has ended
  \* ConnectorRuntime, shared by the loops
  downtime,     \* downtimeSince is set
  reason,       \* statusReason
  backoff,      \* backoff.current in seconds
  reconnects,   \* how many reconnects were scheduled
  \* observer
  failed        \* failures of each group since its connection was last made

fixedVars == <<groups, conn>>
runtimeVars == <<downtime, reason, backoff, reconnects>>
pingVars == <<pinger, stale>>
vars == <<fixedVars, ctxDone, run, loop, delay, pingVars, crashed, runtimeVars, failed>>

(* The loop is between MarkConnected and the end of its session.           *)
InSession == {"check", "reading", "handling", "answering"}

Init ==
  /\ groups \in SUBSET Group \ {{}}
  /\ conn \in Connectors /\ (conn.own => Cardinality(groups) = 1)
  /\ ctxDone = FALSE
  /\ run = "idle"
  /\ loop = [g \in Group |-> "absent"]
  /\ delay = [g \in Group |-> 0]
  /\ pinger = [g \in Group |-> "none"]
  /\ stale = [g \in Group |-> 0]
  /\ crashed = FALSE
  /\ downtime = FALSE
  /\ reason = "none"
  /\ backoff = 0
  /\ reconnects = 0
  /\ failed = [g \in Group |-> 0]

-----------------------------------------------------------------------------
(* The connectors                                                          *)

Plain == [own |-> TRUE, subscribes |-> TRUE, marks |-> TRUE, pings |-> FALSE,
          answers |-> FALSE]

(* The streams of Binance are in the address that is dialled.              *)
Binance == [Plain EXCEPT !.subscribes = FALSE]
BinanceFutures == [Plain EXCEPT !.subscribes = FALSE]
Bitfinex == [Plain EXCEPT !.marks = FALSE]
Bitget == [Plain EXCEPT !.marks = FALSE, !.pings = TRUE]
Bitmex == Plain
Bitstamp == Plain
Bybit == [Plain EXCEPT !.own = FALSE, !.pings = TRUE]
Coinbase == Plain
Deribit == [Plain EXCEPT !.pings = TRUE, !.answers = TRUE]
Dydx == Plain
Hyperliquid == [Plain EXCEPT !.marks = FALSE]
Kraken == [Plain EXCEPT !.own = FALSE]
OKX == [Plain EXCEPT !.pings = TRUE]

Grouped == {Bybit, Kraken}
AllConnectors ==
  Grouped \cup {Binance, BinanceFutures, Bitfinex, Bitget, Bitmex, Bitstamp,
                Coinbase, Deribit, Dydx, Hyperliquid, OKX}

-----------------------------------------------------------------------------
(* backoff.go                                                              *)

initialBackoff == 1
maxBackoff == 30

AtMost(bound, n) == IF n > bound THEN bound ELSE n

(* Variant with a defect: the delay is not capped.                         *)
NextDelayUncapped == IF backoff = 0 THEN initialBackoff ELSE backoff * 2

(* Backoff.Next                                                            *)
NextDelay ==
  IF backoff = 0 THEN initialBackoff ELSE AtMost(maxBackoff, backoff * 2)

-----------------------------------------------------------------------------
(* runtime.go: each is one critical section.                               *)

MarkConnecting ==
  /\ downtime' = TRUE
  /\ reason' = "connecting"
  /\ UNCHANGED <<backoff, reconnects>>

MarkReconnectScheduled ==
  /\ downtime' = TRUE
  /\ reconnects' = reconnects + 1
  /\ reason' = "reconnect_scheduled"
  /\ backoff' = NextDelay

MarkConnected ==
  /\ backoff' = 0
  /\ downtime' = FALSE
  /\ reason' = "connected"
  /\ UNCHANGED reconnects

MarkMessageReceived ==
  /\ downtime' = FALSE
  /\ reason' = IF reason \in {"none", "connecting"} THEN "live" ELSE reason
  /\ UNCHANGED <<backoff, reconnects>>

MarkTrade ==
  /\ downtime' = FALSE
  /\ reason' = "live"
  /\ UNCHANGED <<backoff, reconnects>>

(* Variant with a defect: only the reason is recorded.                     *)
MarkDisconnectedReason(why) ==
  /\ reason' = why
  /\ UNCHANGED <<downtime, backoff, reconnects>>

MarkDisconnected(why) ==
  /\ downtime' = TRUE
  /\ reason' = why
  /\ UNCHANGED <<backoff, reconnects>>

-----------------------------------------------------------------------------
(* Run and the loops.                                                      *)

(* Run marks the connector and starts its loops.                           *)
RunStarts ==
  /\ run = "idle"
  /\ run' = "running"
  /\ MarkConnecting
  /\ loop' = [g \in Group |-> IF g \in groups THEN "start" ELSE "absent"]
  /\ UNCHANGED <<fixedVars, ctxDone, delay, pingVars, crashed, failed>>

Goto(g, place) == loop' = [loop EXCEPT ![g] = place]

(* The head of the loop: leave when cancelled, dial otherwise.             *)
Iterate(g) ==
  /\ loop[g] = "start"
  /\ Goto(g, IF ctxDone THEN "exited" ELSE "dialing")
  /\ UNCHANGED <<fixedVars, ctxDone, run, delay, pingVars, crashed, runtimeVars, failed>>

(* Bound on the failures of the network.                                   *)
MayLose ==
  reconnects + Cardinality({g \in groups : loop[g] = "failed"})
    < MaxReconnects[Cardinality(groups)]

DialFails(g) ==
  /\ loop[g] = "dialing" /\ MayLose
  /\ MarkDisconnected("dial_error")
  /\ Goto(g, "failed")
  /\ UNCHANGED <<fixedVars, ctxDone, run, delay, pingVars, crashed, failed>>

(* Variant with a defect: pings are written while requests are.            *)
DialStartsPings(g) ==
  /\ loop[g] = "dialing"
  /\ Goto(g, "subscribing")
  /\ pinger' = IF conn.pings THEN [pinger EXCEPT ![g] = "idle"] ELSE pinger
  /\ UNCHANGED <<fixedVars, ctxDone, run, delay, stale, crashed, runtimeVars, failed>>

(* Dial is not given the context: it ends by itself.                       *)
DialSucceeds(g) ==
  /\ loop[g] = "dialing"
  /\ Goto(g, "subscribing")
  /\ UNCHANGED <<fixedVars, ctxDone, run, delay, pingVars, crashed, runtimeVars, failed>>

SubscribeFails(g) ==
  /\ conn.subscribes
  /\ loop[g] = "subscribing" /\ MayLose
  /\ IF conn.marks THEN MarkDisconnected("subscribe_error") ELSE UNCHANGED runtimeVars
  /\ Goto(g, "failed")
  /\ UNCHANGED <<fixedVars, ctxDone, run, delay, pingVars, crashed, failed>>

SubscribeSucceeds(g) ==
  /\ loop[g] = "subscribing"
  /\ MarkConnected
  /\ Goto(g, "check")
  /\ pinger' = IF conn.pings THEN [pinger EXCEPT ![g] = "idle"] ELSE pinger
  /\ failed' = [failed EXCEPT ![g] = 0]
  /\ UNCHANGED <<fixedVars, ctxDone, run, delay, stale, crashed>>

(* connectAndStream returns and closes the connection. The goroutine that  *)
(* pings it is not told.                                                   *)
CloseConnection(g) ==
  IF pinger[g] = "none" THEN UNCHANGED pingVars
  ELSE /\ pinger' = [pinger EXCEPT ![g] = "none"]
       /\ stale' = [stale EXCEPT ![g] = @ + 1]

(* Variant with a defect: the cancellation is looked for only when a read  *)
(* fails.                                                                  *)
CheckNever(g) ==
  /\ loop[g] = "check"
  /\ Goto(g, "reading")
  /\ UNCHANGED <<fixedVars, ctxDone, run, delay, pingVars, crashed, runtimeVars, failed>>

(* The head of the read loop: connectAndStream returns nil when cancelled. *)
Check(g) ==
  /\ loop[g] = "check"
  /\ IF ctxDone THEN Goto(g, "start") /\ CloseConnection(g)
     ELSE Goto(g, "reading") /\ UNCHANGED pingVars
  /\ UNCHANGED <<fixedVars, ctxDone, run, delay, crashed, runtimeVars, failed>>

ReadSucceeds(g) ==
  /\ loop[g] = "reading"
  /\ MarkMessageReceived
  /\ Goto(g, "handling")
  /\ UNCHANGED <<fixedVars, ctxDone, run, delay, pingVars, crashed, failed>>

(* The read ends with an error, at its deadline at the latest.             *)
ReadFails(g) ==
  /\ loop[g] = "reading"
  /\ IF ctxDone
     THEN Goto(g, "start") /\ UNCHANGED runtimeVars
     ELSE MayLose /\ MarkDisconnected("read_error") /\ Goto(g, "failed")
  /\ CloseConnection(g)
  /\ UNCHANGED <<fixedVars, ctxDone, run, delay, crashed, failed>>

(* handleMessage: a message with trades marks each of them.                *)
Handle(g) ==
  /\ loop[g] = "handling"
  /\ MarkTrade \/ UNCHANGED runtimeVars
  /\ Goto(g, "check")
  /\ UNCHANGED <<fixedVars, ctxDone, run, delay, pingVars, crashed, failed>>

(* handleMessage of Deribit: a heartbeat is answered,                      *)
AnswerBegins(g) ==
  /\ conn.answers
  /\ loop[g] = "handling"
  /\ Goto(g, "answering")
  /\ UNCHANGED <<fixedVars, ctxDone, run, delay, pingVars, crashed, runtimeVars, failed>>

(* and an answer that cannot be written is only logged.                    *)
AnswerEnds(g) ==
  /\ loop[g] = "answering"
  /\ Goto(g, "check")
  /\ UNCHANGED <<fixedVars, ctxDone, run, delay, pingVars, crashed, runtimeVars, failed>>

(* connectAndStream returned an error.                                     *)
Schedule(g) ==
  /\ loop[g] = "failed"
  /\ MarkReconnectScheduled
  /\ delay' = [delay EXCEPT ![g] = NextDelay]
  /\ failed' = [failed EXCEPT ![g] = @ + 1]
  /\ Goto(g, "waiting")
  /\ UNCHANGED <<fixedVars, ctxDone, run, pingVars, crashed>>

(* Variant with a defect: the loop gives up after a failure.               *)
WaitGivesUp(g) ==
  /\ loop[g] = "waiting"
  /\ Goto(g, "exited")
  /\ UNCHANGED <<fixedVars, ctxDone, run, delay, pingVars, crashed, runtimeVars, failed>>

(* The delay passes, or the cancellation ends the loop.                    *)
Wait(g) ==
  /\ loop[g] = "waiting"
  /\ \/ Goto(g, "start")
     \/ ctxDone /\ Goto(g, "exited")
  /\ UNCHANGED <<fixedVars, ctxDone, run, delay, pingVars, crashed, runtimeVars, failed>>

Cancel ==
  /\ run # "idle" /\ ~ctxDone
  /\ ctxDone' = TRUE
  /\ UNCHANGED <<fixedVars, run, loop, delay, pingVars, crashed, runtimeVars, failed>>

(* Run returns: at the end of its own loop, or at the cancellation.        *)
RunReturns ==
  /\ run = "running" /\ ctxDone
  /\ conn.own => \A g \in groups : loop[g] = "exited"
  /\ run' = "returned"
  /\ UNCHANGED <<fixedVars, ctxDone, loop, delay, pingVars, crashed, runtimeVars, failed>>

-----------------------------------------------------------------------------
(* pingLoop, heartbeatLoop                                                 *)

sessionVars == <<fixedVars, ctxDone, run, loop, delay, runtimeVars, failed>>

PingBegins(g) ==
  /\ pinger[g] = "idle"
  /\ pinger' = [pinger EXCEPT ![g] = "writing"]
  /\ UNCHANGED <<sessionVars, stale, crashed>>

(* A ping that cannot be written ends the goroutine.                       *)
PingEnds(g) ==
  /\ pinger[g] = "writing"
  /\ \E next \in {"idle", "none"} : pinger' = [pinger EXCEPT ![g] = next]
  /\ UNCHANGED <<sessionVars, stale, crashed>>

PingLoopCancelled(g) ==
  /\ pinger[g] = "idle" /\ ctxDone
  /\ pinger' = [pinger EXCEPT ![g] = "none"]
  /\ UNCHANGED <<sessionVars, stale, crashed>>

(* On a closed connection the next ping fails.                             *)
StaleEnds(g) ==
  /\ stale[g] > 0
  /\ stale' = [stale EXCEPT ![g] = @ - 1]
  /\ UNCHANGED <<sessionVars, pinger, crashed>>

(* The goroutines that are writing to the connection of g.                 *)
Writers(g) ==
  {w \in {"loop", "pinger"} :
     \/ w = "loop" /\ loop[g] = "answering"
     \/ w = "loop" /\ loop[g] = "subscribing" /\ conn.subscribes
     \/ w = "pinger" /\ pinger[g] = "writing"}

(* gorilla/websocket panics when it notices two writers; nothing recovers. *)
Panic(g) ==
  /\ Cardinality(Writers(g)) > 1
  /\ crashed' = TRUE
  /\ UNCHANGED <<sessionVars, pingVars>>

-----------------------------------------------------------------------------
Step(g) ==
  \/ Iterate(g)
  \/ DialFails(g) \/ DialSucceeds(g)
  \/ SubscribeFails(g) \/ SubscribeSucceeds(g)
  \/ Check(g) \/ ReadSucceeds(g) \/ ReadFails(g)
  \/ Handle(g) \/ AnswerBegins(g) \/ AnswerEnds(g)
  \/ Schedule(g) \/ Wait(g)

PingStep(g) == PingBegins(g) \/ PingEnds(g) \/ PingLoopCancelled(g) \/ StaleEnds(g)

Next ==
  /\ ~crashed
  /\ \/ RunStarts \/ Cancel \/ RunReturns
     \/ \E g \in groups : Step(g) \/ PingStep(g) \/ Panic(g)

(* Goroutines are scheduled, a dial and a read end (each has a time        *)
(* limit), requests are small enough for the buffers of the socket, and    *)
(* delays pass. A ping need not end while its connection is open.          *)
Fairness ==
  /\ WF_vars(~crashed /\ RunStarts)
  /\ WF_vars(~crashed /\ RunReturns)
  /\ \A g \in Group :
       /\ WF_vars(~crashed /\ g \in groups /\ Step(g))
       /\ WF_vars(~crashed /\ PingLoopCancelled(g))
       /\ WF_vars(~crashed /\ StaleEnds(g))

Spec == Init /\ [][Next]_vars /\ Fairness

-----------------------------------------------------------------------------
(* Properties.                                                             *)

(* Every variable has its type, and no delay exceeds maxBackoff.           *)
TypeOK ==
  /\ groups \in SUBSET Group
  /\ conn \in Connectors
  /\ ctxDone \in BOOLEAN
  /\ run \in {"idle", "running", "returned"}
  /\ loop \in [Group -> InSession \cup {"absent", "start", "dialing",
                 "subscribing", "failed", "waiting", "exited"}]
  /\ delay \in [Group -> 0..maxBackoff]
  /\ pinger \in [Group -> {"none", "idle", "writing"}]
  /\ stale \in [Group -> Nat]
  /\ crashed \in BOOLEAN
  /\ downtime \in BOOLEAN
  /\ reason \in {"none", "connecting", "reconnect_scheduled", "connected",
                 "live", "dial_error", "subscribe_error", "read_error"}
  /\ backoff \in 0..maxBackoff
  /\ reconnects \in Nat
  /\ failed \in [Group -> Nat]

(* However many sockets a connector has, it never looks up while all of    *)
(* them are down: downtimeSince is set when no loop is in a session. A     *)
(* connector with one socket also never looks down while it is in one, and *)
(* its reason agrees.                                                      *)
StatusTruthful ==
  run # "idle" /\ ~ctxDone =>
    /\ (\A g \in groups : loop[g] \notin InSession) => downtime
    /\ \A g \in groups :
         groups = {g} /\ loop[g] \in InSession =>
           ~downtime /\ reason \in {"connected", "live"}

(* The delay after the n-th failure in a row.                              *)
Expected(n) == <<1, 2, 4, 8, 16, maxBackoff>>[AtMost(6, n)]

(* PLAN.md:109: a connection that fails again and again is tried after 1,  *)
(* 2, 4 .. 30 seconds, and from the start after it was made.               *)
BackoffDoubles ==
  \A g \in groups : loop[g] = "waiting" => delay[g] = Expected(failed[g])

(* The same for connectors with one socket.                                *)
AloneBackoffDoubles ==
  Cardinality(groups) = 1 => BackoffDoubles

(* No two goroutines write to a connection at the same time, where only    *)
(* the loop and the goroutine that pings do: the one has finished when the *)
(* other is started, and each connection has a goroutine of its own.       *)
OneWriter ==
  ~conn.answers => \A g \in groups : Cardinality(Writers(g)) <= 1

(* A loop that lost its connection reads from a new one in the end, unless *)
(* the connector is cancelled; losses are bounded.                         *)
Recovers ==
  \A g \in Group : loop[g] = "failed" ~> (loop[g] = "reading" \/ ctxDone \/ crashed)

(* The steps that a loop has left at most, from each place, once the       *)
(* connector is cancelled.                                                 *)
StepsLeft ==
  [dialing |-> 5, reading |-> 5, subscribing |-> 4, handling |-> 4, failed |-> 3,
   answering |-> 3, check |-> 2, waiting |-> 2, start |-> 1, exited |-> 0, absent |-> 0]

(* After the cancellation a loop that moves gets nearer to its end, on     *)
(* every path: a dial that was under way may still end in a session and a  *)
(* lost connection in a delay, but no loop dials, or reads, once more.     *)
CancelledLoopsDescend ==
  [][ctxDone => \A g \in groups :
       loop'[g] # loop[g] => StepsLeft[loop'[g]] < StepsLeft[loop[g]]]_vars

(* After the cancellation Run returns, and every loop ends, those included *)
(* that Run does not wait for, and so do the goroutines that ping.         *)
CancelEndsLoops ==
  ctxDone ~>
    \/ crashed
    \/ /\ run = "returned"
       /\ \A g \in groups : loop[g] = "exited" /\ pinger[g] = "none" /\ stale[g] = 0
=============================================================================
