-------------------------- MODULE Connector_proofs --------------------------
(***************************************************************************)
(* Proofs about Connector, for any connectors, any finite set of groups    *)
(* and any number of lost connections.                                     *)
(***************************************************************************)
EXTENDS Connector, FiniteSetTheorems, TLAPS

USE ConnectorAssumption DEF ConnectorAssumption

(* Before Run there is no loop, and nothing to cancel.                     *)
LoopsFollowRun ==
  run = "idle" => ~ctxDone /\ \A g \in Group : loop[g] = "absent"

(* A goroutine pings the connection of a session only, and only a          *)
(* connector that answers is ever at it.                                   *)
PingsInSession ==
  \A g \in groups :
    /\ pinger[g] # "none" => loop[g] \in InSession
    /\ loop[g] = "answering" => conn.answers

(* Alone, a loop has the whole backoff to itself.                          *)
BackoffIsMine ==
  \A g \in groups : groups = {g} =>
    /\ backoff = IF failed[g] = 0 THEN 0 ELSE Expected(failed[g])
    /\ loop[g] = "waiting" => failed[g] > 0 /\ delay[g] = backoff

IInv ==
  TypeOK /\ LoopsFollowRun /\ StatusTruthful /\ PingsInSession /\ BackoffIsMine

-----------------------------------------------------------------------------
(* The backoff                                                             *)

(* It starts with a second, doubles, and stays at thirty.                  *)
LEMMA ExpectedDoubles ==
  /\ Expected(1) = initialBackoff
  /\ \A n \in Nat \ {0} :
       /\ Expected(n) \in 1..maxBackoff
       /\ Expected(n + 1) = AtMost(maxBackoff, Expected(n) * 2)
<1>1. Expected(1) = initialBackoff
  BY DEF Expected, AtMost, initialBackoff
<1>2. ASSUME NEW n \in Nat \ {0}
      PROVE  /\ Expected(n) \in 1..maxBackoff
             /\ Expected(n + 1) = AtMost(maxBackoff, Expected(n) * 2)
  <2>1. CASE n = 1
    BY <2>1 DEF Expected, AtMost, maxBackoff
  <2>2. CASE n = 2
    BY <2>2 DEF Expected, AtMost, maxBackoff
  <2>3. CASE n = 3
    BY <2>3 DEF Expected, AtMost, maxBackoff
  <2>4. CASE n = 4
    BY <2>4 DEF Expected, AtMost, maxBackoff
  <2>5. CASE n = 5
    BY <2>5 DEF Expected, AtMost, maxBackoff
  <2>6. CASE n > 5
    <3>1. AtMost(6, n) = 6 /\ AtMost(6, n + 1) = 6
      BY <2>6 DEF AtMost
    <3> QED BY <3>1 DEF Expected, AtMost, maxBackoff
  <2> QED BY <2>1, <2>2, <2>3, <2>4, <2>5, <2>6
<1> QED BY <1>1, <1>2

(* Next gives the delay after one more failure.                            *)
LEMMA NextIsExpected ==
  ASSUME NEW n \in Nat, backoff = IF n = 0 THEN 0 ELSE Expected(n)
  PROVE  NextDelay = Expected(n + 1)
<1>1. CASE n = 0
  BY <1>1, ExpectedDoubles DEF NextDelay
<1>2. CASE n # 0
  <2>1. /\ backoff = Expected(n) /\ Expected(n) \in 1..maxBackoff
        /\ Expected(n + 1) = AtMost(maxBackoff, Expected(n) * 2)
    BY <1>2, ExpectedDoubles
  <2>2. Expected(n) # 0
    <3> DEFINE e == Expected(n)
    <3>1. e \in 1..maxBackoff
      BY <2>1
    <3> HIDE DEF e
    <3>2. e # 0
      BY <3>1
    <3> QED BY <3>2 DEF e
  <2> QED BY Zenon, <2>1, <2>2 DEF NextDelay
<1> QED BY <1>1, <1>2

(* Every delay is one that backoff.go has.                                 *)
LEMMA NextDelayBounded ==
  ASSUME backoff \in 0..maxBackoff
  PROVE  NextDelay \in 0..maxBackoff
BY DEF NextDelay, AtMost, initialBackoff, maxBackoff

-----------------------------------------------------------------------------
(* Steps                                                                   *)

(* A loop that moves leaves the others where they are.                     *)
LEMMA GotoMoves ==
  ASSUME TypeOK, NEW g \in groups, NEW place, Goto(g, place)
  PROVE  /\ g \in Group /\ groups \subseteq Group
         /\ loop'[g] = place
         /\ \A h \in Group \ {g} : loop'[h] = loop[h]
BY DEF TypeOK, Goto

(* Before Run nothing is marked.                                           *)
LEMMA InitInv == Init => IInv
<1> SUFFICES ASSUME Init PROVE IInv
  OBVIOUS
<1>1. TypeOK
  <2>1. groups \in SUBSET Group /\ conn \in Connectors
    BY DEF Init
  <2>2. loop \in [Group -> {"absent"}] /\ pinger \in [Group -> {"none"}]
    BY DEF Init
  <2>3. /\ delay \in [Group -> 0..maxBackoff] /\ backoff \in 0..maxBackoff
        /\ stale \in [Group -> Nat] /\ failed \in [Group -> Nat] /\ reconnects \in Nat
    BY DEF Init, maxBackoff
  <2>4. ctxDone \in BOOLEAN /\ crashed \in BOOLEAN /\ downtime \in BOOLEAN
    BY Zenon DEF Init
  <2>5. run = "idle" /\ reason = "none"
    BY DEF Init
  <2> QED BY <2>1, <2>2, <2>3, <2>4, <2>5 DEF TypeOK
<1>2. LoopsFollowRun
  BY DEF Init, LoopsFollowRun
<1>3. StatusTruthful
  BY DEF Init, StatusTruthful
<1>4. PingsInSession
  BY DEF Init, PingsInSession
<1>5. BackoffIsMine
  BY DEF Init, BackoffIsMine
<1> QED BY <1>1, <1>2, <1>3, <1>4, <1>5 DEF IInv

-----------------------------------------------------------------------------
(* Types                                                                   *)

(* A closed connection has no goroutine that pings, and one more that has  *)
(* lost its connection.                                                    *)
LEMMA CloseEffects ==
  ASSUME TypeOK, NEW g \in Group, CloseConnection(g)
  PROVE  /\ pinger' \in [Group -> {"none", "idle", "writing"}] /\ stale' \in [Group -> Nat]
         /\ pinger'[g] = "none"
         /\ \A h \in Group \ {g} : pinger'[h] = pinger[h]
<1>1. pinger \in [Group -> {"none", "idle", "writing"}] /\ stale \in [Group -> Nat]
  BY DEF TypeOK
<1>2. CASE pinger[g] = "none"
  BY <1>1, <1>2 DEF CloseConnection, pingVars
<1>3. CASE pinger[g] # "none"
  <2>1. /\ pinger' = [pinger EXCEPT ![g] = "none"]
        /\ stale' = [stale EXCEPT ![g] = stale[g] + 1]
    BY <1>3 DEF CloseConnection
  <2>2. stale[g] + 1 \in Nat
    BY <1>1
  <2> QED BY <1>1, <2>1, <2>2
<1> QED BY <1>2, <1>3

(* Each step of a loop keeps the types.                                    *)
LEMMA StepTypes == ASSUME TypeOK, NEW g \in groups, Step(g) PROVE TypeOK'
<1> USE DEF fixedVars, pingVars, runtimeVars
<1>1. g \in Group
  BY DEF TypeOK
<1>2. CASE Iterate(g)
  BY <1>1, <1>2 DEF TypeOK, Iterate, Goto
<1>3. CASE DialFails(g)
  BY <1>1, <1>3 DEF TypeOK, DialFails, Goto, MarkDisconnected
<1>4. CASE DialSucceeds(g)
  BY <1>1, <1>4 DEF TypeOK, DialSucceeds, Goto
<1>5. CASE SubscribeFails(g)
  BY <1>1, <1>5 DEF TypeOK, SubscribeFails, Goto, MarkDisconnected
<1>6. CASE SubscribeSucceeds(g)
  <2>1. pinger' \in [Group -> {"none", "idle", "writing"}] /\ UNCHANGED stale
    BY <1>1, <1>6 DEF TypeOK, SubscribeSucceeds
  <2>2. failed' \in [Group -> Nat] /\ backoff' \in 0..maxBackoff
    BY <1>1, <1>6 DEF TypeOK, SubscribeSucceeds, MarkConnected, maxBackoff
  <2>3. loop' = [loop EXCEPT ![g] = "check"]
    BY <1>6 DEF SubscribeSucceeds, Goto
  <2>4. /\ downtime' = FALSE /\ reason' = "connected"
        /\ UNCHANGED <<groups, conn, ctxDone, run, delay, crashed, reconnects>>
    BY <1>6 DEF SubscribeSucceeds, MarkConnected
  <2> QED BY <1>1, <2>1, <2>2, <2>3, <2>4 DEF TypeOK, InSession
<1>7. CASE Check(g)
  <2>1. pinger' \in [Group -> {"none", "idle", "writing"}] /\ stale' \in [Group -> Nat]
    BY <1>1, <1>7, CloseEffects DEF TypeOK, Check
  <2>2. \E place \in {"start", "reading"} : loop' = [loop EXCEPT ![g] = place]
    BY <1>7 DEF Check, Goto
  <2>3. UNCHANGED <<groups, conn, ctxDone, run, delay, crashed, downtime, reason, backoff,
                    reconnects, failed>>
    BY <1>7 DEF Check
  <2> QED BY <1>1, <2>1, <2>2, <2>3 DEF TypeOK, InSession
<1>8. CASE ReadSucceeds(g)
  BY <1>1, <1>8 DEF TypeOK, ReadSucceeds, Goto, MarkMessageReceived, InSession
<1>9. CASE ReadFails(g)
  <2>1. pinger' \in [Group -> {"none", "idle", "writing"}] /\ stale' \in [Group -> Nat]
    BY <1>1, <1>9, CloseEffects DEF ReadFails
  <2>2. \E place \in {"start", "failed"} : loop' = [loop EXCEPT ![g] = place]
    BY <1>9 DEF ReadFails, Goto
  <2>3. \/ UNCHANGED <<downtime, reason>>
        \/ downtime' = TRUE /\ reason' = "read_error"
    BY <1>9 DEF ReadFails, MarkDisconnected
  <2>4. UNCHANGED <<groups, conn, ctxDone, run, delay, crashed, backoff, reconnects, failed>>
    BY <1>9 DEF ReadFails, MarkDisconnected
  <2> QED BY <1>1, <2>1, <2>2, <2>3, <2>4 DEF TypeOK
<1>10. CASE Handle(g)
  BY <1>1, <1>10 DEF TypeOK, Handle, Goto, MarkTrade, InSession
<1>11. CASE AnswerBegins(g)
  BY <1>1, <1>11 DEF TypeOK, AnswerBegins, Goto, InSession
<1>12. CASE AnswerEnds(g)
  BY <1>1, <1>12 DEF TypeOK, AnswerEnds, Goto, InSession
<1>13. CASE Schedule(g)
  BY <1>1, <1>13, NextDelayBounded DEF TypeOK, Schedule, Goto, MarkReconnectScheduled
<1>14. CASE Wait(g)
  BY <1>1, <1>14 DEF TypeOK, Wait, Goto
<1> QED BY <1>2, <1>3, <1>4, <1>5, <1>6, <1>7, <1>8, <1>9, <1>10, <1>11, <1>12,
           <1>13, <1>14 DEF Step

(* So does a step of a goroutine that pings.                               *)
LEMMA PingStepTypes == ASSUME TypeOK, NEW g \in groups, PingStep(g) PROVE TypeOK'
<1> USE DEF fixedVars, runtimeVars, sessionVars
<1>1. g \in Group
  BY DEF TypeOK
<1>2. CASE PingBegins(g)
  BY <1>1, <1>2 DEF TypeOK, PingBegins
<1>3. CASE PingEnds(g)
  BY <1>1, <1>3 DEF TypeOK, PingEnds
<1>4. CASE PingLoopCancelled(g)
  BY <1>1, <1>4 DEF TypeOK, PingLoopCancelled
<1>5. CASE StaleEnds(g)
  BY <1>1, <1>5 DEF TypeOK, StaleEnds
<1> QED BY <1>2, <1>3, <1>4, <1>5 DEF PingStep

(* And the steps of the connector as a whole.                              *)
LEMMA RunTypes ==
  ASSUME TypeOK,
         RunStarts \/ Cancel \/ RunReturns \/ (\E g \in groups : Panic(g)) \/ UNCHANGED vars
  PROVE  TypeOK'
<1> USE DEF fixedVars, pingVars, runtimeVars, sessionVars
<1>1. CASE RunStarts
  BY <1>1 DEF TypeOK, RunStarts, MarkConnecting
<1>2. CASE Cancel
  BY <1>2 DEF TypeOK, Cancel
<1>3. CASE RunReturns
  BY <1>3 DEF TypeOK, RunReturns
<1>4. CASE \E g \in groups : Panic(g)
  BY <1>4 DEF TypeOK, Panic
<1>5. CASE UNCHANGED vars
  BY <1>5 DEF TypeOK, vars
<1> QED BY <1>1, <1>2, <1>3, <1>4, <1>5

-----------------------------------------------------------------------------
(* The other parts                                                         *)

(* Each step of a loop keeps them: Run has started, the loop of the step   *)
(* is where it goes, and a session begins and ends with its marks.         *)
LEMMA StepStatus ==
  ASSUME TypeOK, LoopsFollowRun, StatusTruthful, NEW g \in groups, Step(g)
  PROVE  LoopsFollowRun' /\ StatusTruthful'
<1> USE DEF fixedVars, runtimeVars, InSession
<1>1. g \in Group /\ groups \subseteq Group
  BY DEF TypeOK
<1>2. run # "idle" /\ UNCHANGED <<groups, run, ctxDone>> /\ LoopsFollowRun'
  <2>1. loop[g] # "absent"
    BY DEF Step, Iterate, DialFails, DialSucceeds, SubscribeFails, SubscribeSucceeds, Check,
           ReadSucceeds, ReadFails, Handle, AnswerBegins, AnswerEnds, Schedule, Wait
  <2>2. UNCHANGED <<groups, run, ctxDone>>
    BY DEF Step, Iterate, DialFails, DialSucceeds, SubscribeFails, SubscribeSucceeds, Check,
           ReadSucceeds, ReadFails, Handle, AnswerBegins, AnswerEnds, Schedule, Wait
  <2> QED BY <1>1, <2>1, <2>2 DEF LoopsFollowRun
<1> SUFFICES ASSUME ~ctxDone PROVE StatusTruthful'
  BY <1>2 DEF StatusTruthful
<1>3. CASE Iterate(g)
  BY <1>1, <1>2, <1>3, GotoMoves DEF StatusTruthful, Iterate
<1>4. CASE DialFails(g)
  BY <1>1, <1>2, <1>4, GotoMoves DEF StatusTruthful, DialFails, MarkDisconnected
<1>5. CASE DialSucceeds(g)
  BY <1>1, <1>2, <1>5, GotoMoves DEF StatusTruthful, DialSucceeds
<1>6. CASE SubscribeFails(g)
  BY <1>1, <1>2, <1>6, GotoMoves DEF StatusTruthful, SubscribeFails, MarkDisconnected
<1>7. CASE SubscribeSucceeds(g)
  BY <1>1, <1>2, <1>7, GotoMoves DEF StatusTruthful, SubscribeSucceeds, MarkConnected
<1>8. CASE Check(g)
  BY <1>1, <1>2, <1>8, GotoMoves DEF StatusTruthful, Check
<1>9. CASE ReadSucceeds(g)
  BY <1>1, <1>2, <1>9, GotoMoves DEF StatusTruthful, ReadSucceeds, MarkMessageReceived
<1>10. CASE ReadFails(g)
  BY <1>1, <1>2, <1>10, GotoMoves DEF StatusTruthful, ReadFails, MarkDisconnected
<1>11. CASE Handle(g)
  BY <1>1, <1>2, <1>11, GotoMoves DEF StatusTruthful, Handle, MarkTrade
<1>12. CASE AnswerBegins(g)
  BY <1>1, <1>2, <1>12, GotoMoves DEF StatusTruthful, AnswerBegins
<1>13. CASE AnswerEnds(g)
  BY <1>1, <1>2, <1>13, GotoMoves DEF StatusTruthful, AnswerEnds
<1>14. CASE Schedule(g)
  BY <1>1, <1>2, <1>14, GotoMoves DEF StatusTruthful, Schedule, MarkReconnectScheduled
<1>15. CASE Wait(g)
  BY <1>1, <1>2, <1>15, GotoMoves DEF StatusTruthful, Wait
<1> QED BY <1>3, <1>4, <1>5, <1>6, <1>7, <1>8, <1>9, <1>10, <1>11, <1>12, <1>13,
           <1>14, <1>15 DEF Step

(* A goroutine that pings starts after the subscriptions and loses its     *)
(* connection when the session ends.                                       *)
LEMMA StepPings ==
  ASSUME TypeOK, PingsInSession, NEW g \in groups, Step(g)
  PROVE  PingsInSession'
<1> USE DEF fixedVars, pingVars, runtimeVars, InSession
<1>1. g \in Group /\ groups \subseteq Group
  BY DEF TypeOK
<1>2. CASE Iterate(g)
  BY <1>1, <1>2, GotoMoves DEF PingsInSession, Iterate
<1>3. CASE DialFails(g)
  BY <1>1, <1>3, GotoMoves DEF PingsInSession, DialFails
<1>4. CASE DialSucceeds(g)
  BY <1>1, <1>4, GotoMoves DEF PingsInSession, DialSucceeds
<1>5. CASE SubscribeFails(g)
  BY <1>1, <1>5, GotoMoves DEF PingsInSession, SubscribeFails
<1>6. CASE SubscribeSucceeds(g)
  BY <1>1, <1>6, GotoMoves DEF TypeOK, PingsInSession, SubscribeSucceeds
<1>7. CASE Check(g)
  BY <1>1, <1>7, GotoMoves, CloseEffects DEF PingsInSession, Check
<1>8. CASE ReadSucceeds(g)
  BY <1>1, <1>8, GotoMoves DEF PingsInSession, ReadSucceeds
<1>9. CASE ReadFails(g)
  BY <1>1, <1>9, GotoMoves, CloseEffects DEF PingsInSession, ReadFails
<1>10. CASE Handle(g)
  BY <1>1, <1>10, GotoMoves DEF PingsInSession, Handle
<1>11. CASE AnswerBegins(g)
  BY <1>1, <1>11, GotoMoves DEF PingsInSession, AnswerBegins
<1>12. CASE AnswerEnds(g)
  BY <1>1, <1>12, GotoMoves DEF PingsInSession, AnswerEnds
<1>13. CASE Schedule(g)
  BY <1>1, <1>13, GotoMoves DEF PingsInSession, Schedule
<1>14. CASE Wait(g)
  BY <1>1, <1>14, GotoMoves DEF PingsInSession, Wait
<1> QED BY <1>2, <1>3, <1>4, <1>5, <1>6, <1>7, <1>8, <1>9, <1>10, <1>11, <1>12,
           <1>13, <1>14 DEF Step

(* The backoff of a loop that is alone counts its failures.                *)
LEMMA StepBackoff ==
  ASSUME TypeOK, BackoffIsMine, NEW g \in groups, Step(g)
  PROVE  BackoffIsMine'
<1> USE DEF fixedVars, runtimeVars
<1>1. g \in Group /\ groups \subseteq Group /\ groups' = groups
  BY DEF TypeOK, Step, Iterate, DialFails, DialSucceeds, SubscribeFails, SubscribeSucceeds,
         Check, ReadSucceeds, ReadFails, Handle, AnswerBegins, AnswerEnds, Schedule, Wait
<1> SUFFICES ASSUME groups = {g}
             PROVE  /\ backoff' = IF failed'[g] = 0 THEN 0 ELSE Expected(failed'[g])
                    /\ loop'[g] = "waiting" => failed'[g] > 0 /\ delay'[g] = backoff'
  BY <1>1 DEF BackoffIsMine, Expected
<1>2. /\ backoff = IF failed[g] = 0 THEN 0 ELSE Expected(failed[g])
      /\ loop[g] = "waiting" => failed[g] > 0 /\ delay[g] = backoff
  BY DEF BackoffIsMine
<1>3. CASE SubscribeSucceeds(g)
  BY <1>1, <1>3, GotoMoves DEF TypeOK, SubscribeSucceeds, MarkConnected
<1>4. CASE Schedule(g)
  <2>1. failed'[g] = failed[g] + 1 /\ failed[g] \in Nat
    BY <1>1, <1>4 DEF TypeOK, Schedule
  <2>2. backoff' = NextDelay /\ delay'[g] = NextDelay
    BY <1>1, <1>4 DEF TypeOK, Schedule, MarkReconnectScheduled
  <2>3. NextDelay = Expected(failed[g] + 1)
    BY <1>2, <2>1, NextIsExpected
  <2>4. failed'[g] > 0 /\ failed'[g] # 0
    BY <2>1
  <2>5. Expected(failed'[g]) = Expected(failed[g] + 1)
    BY Zenon, <2>1
  <2> QED BY Zenon, <2>2, <2>3, <2>4, <2>5
<1>5. CASE ~SubscribeSucceeds(g) /\ ~Schedule(g)
  <2>1. UNCHANGED <<backoff, failed, delay>>
    BY <1>5 DEF Step, Iterate, DialFails, DialSucceeds, SubscribeFails, Check, ReadSucceeds,
         ReadFails, Handle, AnswerBegins, AnswerEnds, Wait, MarkDisconnected,
         MarkMessageReceived, MarkTrade
  <2>2. loop'[g] # "waiting"
    BY <1>1, <1>5, GotoMoves DEF Step, Iterate, DialFails, DialSucceeds, SubscribeFails, Check,
         ReadSucceeds, ReadFails, Handle, AnswerBegins, AnswerEnds, Wait
  <2>3. Expected(failed'[g]) = Expected(failed[g])
    BY Zenon, <2>1
  <2> QED BY Zenon, <1>2, <2>1, <2>2, <2>3
<1> QED BY <1>3, <1>4, <1>5

(* A goroutine that pings, and a panic, disturb no loop and no mark.       *)
LEMMA PingStepInv == ASSUME IInv, NEW g \in groups, PingStep(g) \/ Panic(g) PROVE IInv'
<1>1. TypeOK'
  BY PingStepTypes, RunTypes DEF IInv
<1>2. UNCHANGED sessionVars
  BY DEF PingStep, PingBegins, PingEnds, PingLoopCancelled, StaleEnds, Panic
<1>3. LoopsFollowRun' /\ StatusTruthful'
  BY <1>2 DEF IInv, LoopsFollowRun, StatusTruthful, sessionVars, fixedVars, runtimeVars
<1>4. PingsInSession'
  <2>1. \A h \in groups : pinger'[h] # "none" => pinger[h] # "none"
    BY DEF IInv, TypeOK, PingStep, PingBegins, PingEnds, PingLoopCancelled, StaleEnds, Panic,
           pingVars
  <2> QED BY <1>2, <2>1 DEF IInv, PingsInSession, sessionVars, fixedVars
<1>5. BackoffIsMine'
  BY <1>2 DEF IInv, BackoffIsMine, Expected, sessionVars, fixedVars, runtimeVars
<1> QED BY <1>1, <1>3, <1>4, <1>5 DEF IInv

(* Run starts when nothing runs, and the cancellation and the end of Run   *)
(* leave the loops alone.                                                  *)
LEMMA RunInv ==
  ASSUME IInv, RunStarts \/ Cancel \/ RunReturns \/ UNCHANGED vars
  PROVE  IInv'
<1> USE DEF fixedVars, pingVars, runtimeVars
<1>1. TypeOK' /\ groups \subseteq Group
  BY RunTypes DEF IInv, TypeOK
<1>2. CASE RunStarts
  <2>1. /\ loop' = [g \in Group |-> IF g \in groups THEN "start" ELSE "absent"]
        /\ downtime' = TRUE /\ run = "idle" /\ run' = "running"
        /\ UNCHANGED <<groups, conn, delay, pinger, backoff, failed>>
    BY <1>2 DEF RunStarts, MarkConnecting
  <2>2. \A g \in groups : loop'[g] = "start" /\ loop[g] = "absent"
    BY <1>1, <2>1 DEF IInv, LoopsFollowRun
  <2>3. LoopsFollowRun' /\ StatusTruthful'
    BY <2>1, <2>2 DEF LoopsFollowRun, StatusTruthful, InSession
  <2>4. PingsInSession'
    BY <2>1, <2>2 DEF IInv, PingsInSession, InSession
  <2>5. BackoffIsMine'
    BY <2>1, <2>2 DEF IInv, BackoffIsMine, Expected
  <2> QED BY <1>1, <2>3, <2>4, <2>5 DEF IInv
<1>3. CASE Cancel \/ RunReturns \/ UNCHANGED vars
  <2>1. /\ UNCHANGED <<groups, conn, loop, delay, pinger, downtime, reason, backoff, failed>>
        /\ run' = "idle" => run = "idle" /\ UNCHANGED ctxDone
        /\ ~ctxDone' => ~ctxDone
        /\ run' # "idle" => run # "idle"
    BY <1>3 DEF Cancel, RunReturns, vars
  <2>2. LoopsFollowRun' /\ StatusTruthful'
    BY <2>1 DEF IInv, LoopsFollowRun, StatusTruthful
  <2>3. PingsInSession'
    BY <2>1 DEF IInv, PingsInSession
  <2>4. BackoffIsMine'
    BY <2>1 DEF IInv, BackoffIsMine, Expected
  <2> QED BY <1>1, <2>2, <2>3, <2>4 DEF IInv
<1> QED BY <1>2, <1>3

-----------------------------------------------------------------------------
(* Theorems                                                                *)

(* Every step keeps the strengthened invariant.                            *)
LEMMA NextInv == IInv /\ [Next]_vars => IInv'
<1> SUFFICES ASSUME IInv, [Next]_vars PROVE IInv'
  OBVIOUS
<1>1. ASSUME NEW g \in groups, Step(g) PROVE IInv'
  BY <1>1, StepTypes, StepStatus, StepPings, StepBackoff DEF IInv
<1>2. ASSUME NEW g \in groups, PingStep(g) \/ Panic(g) PROVE IInv'
  BY <1>2, PingStepInv
<1>3. CASE RunStarts \/ Cancel \/ RunReturns \/ UNCHANGED vars
  BY <1>3, RunInv
<1> QED BY <1>1, <1>2, <1>3 DEF Next

(* The strengthened invariant holds.                                       *)
THEOREM Invariance == Spec => []IInv
BY InitInv, NextInv, PTL DEF Spec

(* Every variable keeps its type, and no delay exceeds maxBackoff.         *)
THEOREM TypeCorrect == Spec => []TypeOK
<1>1. IInv => TypeOK
  BY DEF IInv
<1> QED BY <1>1, Invariance, PTL

(* The status never says up while every socket is down, whatever the loops *)
(* of a connector interleave.                                              *)
THEOREM StatusIsTruthful == Spec => []StatusTruthful
<1>1. IInv => StatusTruthful
  BY DEF IInv
<1> QED BY <1>1, Invariance, PTL

(* A connector with one socket waits for 1, 2, 4 .. 30 seconds.            *)
THEOREM AloneDoubles == Spec => []AloneBackoffDoubles
<1>1. ASSUME IInv PROVE AloneBackoffDoubles
  <2> SUFFICES ASSUME Cardinality(groups) = 1, NEW g \in groups, loop[g] = "waiting"
               PROVE  delay[g] = Expected(failed[g])
    BY DEF AloneBackoffDoubles, BackoffDoubles
  <2>1. IsFiniteSet(groups)
    BY <1>1, FS_Subset DEF IInv, TypeOK
  <2>2. groups = {g}
    <3>1. \E x : groups = {x}
      BY <2>1, FS_Singleton
    <3> QED BY <3>1
  <2>3. /\ backoff = IF failed[g] = 0 THEN 0 ELSE Expected(failed[g])
        /\ failed[g] > 0 /\ delay[g] = backoff
    BY <1>1, <2>2 DEF IInv, BackoffIsMine
  <2>4. g \in Group /\ failed[g] \in Nat
    BY <1>1 DEF IInv, TypeOK
  <2>5. failed[g] # 0
    BY <2>3, <2>4
  <2> QED BY Zenon, <2>3, <2>5
<1> QED BY <1>1, Invariance, PTL

(* A connection of a connector that does not answer has one writer at a    *)
(* time.                                                                   *)
THEOREM WritersAreSerial == Spec => []OneWriter
<1>1. ASSUME IInv PROVE OneWriter
  <2> SUFFICES ASSUME ~conn.answers, NEW g \in groups
               PROVE  Cardinality(Writers(g)) <= 1
    BY DEF OneWriter
  <2>1. loop[g] # "answering"
    BY <1>1 DEF IInv, PingsInSession
  <2>2. loop[g] = "subscribing" => pinger[g] = "none"
    BY <1>1 DEF IInv, PingsInSession, InSession
  <2>3. \E w \in {"loop", "pinger"} : Writers(g) \subseteq {w}
    BY <2>1, <2>2 DEF Writers
  <2>4. PICK w \in {"loop", "pinger"} : Writers(g) \subseteq {w}
    BY <2>3
  <2>5. IsFiniteSet({w}) /\ Cardinality({w}) = 1
    BY FS_Singleton
  <2>6. Cardinality(Writers(g)) <= Cardinality({w})
    BY <2>4, <2>5, FS_Subset
  <2> QED BY <2>5, <2>6
<1> QED BY <1>1, Invariance, PTL

(* Only the loop that takes a step moves.                                  *)
LEMMA StepIsOfLoop ==
  ASSUME TypeOK, NEW g \in groups, Step(g)
  PROVE  \A h \in Group \ {g} : loop'[h] = loop[h]
BY GotoMoves
DEF Step, Iterate, DialFails, DialSucceeds, SubscribeFails, SubscribeSucceeds, Check,
    ReadSucceeds, ReadFails, Handle, AnswerBegins, AnswerEnds, Schedule, Wait

(* After the cancellation every step of a loop takes it nearer to its end. *)
LEMMA StepDescends ==
  ASSUME TypeOK, ctxDone, NEW g \in groups, Step(g)
  PROVE  StepsLeft[loop'[g]] < StepsLeft[loop[g]]
<1>1. g \in Group /\ loop \in [Group -> InSession \cup {"absent", "start", "dialing",
                 "subscribing", "failed", "waiting", "exited"}]
  BY DEF TypeOK
<1>2. \/ loop[g] = "start" /\ loop'[g] = "exited"
      \/ loop[g] = "dialing" /\ loop'[g] \in {"failed", "subscribing"}
      \/ loop[g] = "subscribing" /\ loop'[g] \in {"failed", "check"}
      \/ loop[g] = "check" /\ loop'[g] = "start"
      \/ loop[g] = "reading" /\ loop'[g] \in {"handling", "start"}
      \/ loop[g] = "handling" /\ loop'[g] \in {"check", "answering"}
      \/ loop[g] = "answering" /\ loop'[g] = "check"
      \/ loop[g] = "failed" /\ loop'[g] = "waiting"
      \/ loop[g] = "waiting" /\ loop'[g] \in {"start", "exited"}
  BY <1>1, ZenonT(20), GotoMoves
  DEF Step, Iterate, DialFails, DialSucceeds, SubscribeFails, SubscribeSucceeds, Check,
      ReadSucceeds, ReadFails, Handle, AnswerBegins, AnswerEnds, Schedule, Wait
<1> QED BY <1>2 DEF StepsLeft

(* No other step moves a loop then: Run cannot start once cancelled.       *)
LEMMA NextDescends ==
  ASSUME IInv, Next, ctxDone, NEW g \in groups, loop'[g] # loop[g]
  PROVE  StepsLeft[loop'[g]] < StepsLeft[loop[g]]
<1>1. TypeOK /\ ~RunStarts
  BY DEF IInv, LoopsFollowRun, RunStarts
<1>2. PICK h \in groups : Step(h)
  <2>1. Cancel \/ RunReturns => UNCHANGED loop
    BY DEF Cancel, RunReturns
  <2>2. ASSUME NEW h \in groups, PingStep(h) \/ Panic(h) PROVE UNCHANGED loop
    BY <2>2 DEF PingStep, PingBegins, PingEnds, PingLoopCancelled, StaleEnds, Panic,
                sessionVars
  <2> QED BY <1>1, <2>1, <2>2 DEF Next
<1>3. h = g
  BY <1>1, <1>2, StepIsOfLoop DEF TypeOK
<1> QED BY <1>1, <1>2, <1>3, StepDescends

(* However many groups a connector has and whatever the network does, a    *)
(* cancelled loop takes five steps at most: only fairness is left for it   *)
(* to end.                                                                 *)
THEOREM CancelledDescend == Spec => CancelledLoopsDescend
<1>1. IInv /\ [Next]_vars
        => [ctxDone => \A g \in groups :
              loop'[g] # loop[g] => StepsLeft[loop'[g]] < StepsLeft[loop[g]]]_vars
  BY NextDescends
<1> QED BY <1>1, Invariance, PTL DEF Spec, CancelledLoopsDescend
=============================================================================
