------------------------------ MODULE Metrics ------------------------------
(***************************************************************************)
(* The sliding windows of internal/metrics: one over all trades, one for   *)
(* every exchange and market type, and the same for liquidations. Socket   *)
(* loops record events (RecordTrade, RecordLiquidation) while the          *)
(* WebSocket hub and REST requests read all windows (SnapshotAll).         *)
(*                                                                         *)
(* Every window has a lock that is held for one Add or one Snapshot, so    *)
(* each of these is one step. The registry's lock r.mu is held by          *)
(* SnapshotAll for its whole length and by a recorder only while it looks  *)
(* a window up.                                                            *)
(***************************************************************************)
EXTENDS Integers, Sequences, FiniteSets, FiniteSetsExt

CONSTANTS
  Source,      \* goroutines that record
  Reader,      \* goroutines that call SnapshotAll
  Key,         \* exchanges with market type
  All,         \* names the windows over all exchanges
  Width,       \* the width of every window, in units of time
  Skew,        \* how far the time an exchange stamps may be from ours
  MaxTime,     \* bound: the time that passes
  MaxEvents    \* bound: the events that are recorded

ASSUME MetricsAssumption ==
  /\ All \notin Key
  /\ Width \in Nat /\ MaxTime \in Nat /\ MaxEvents \in Nat
  /\ Skew \subseteq Int

Kind == {"trade", "liquidation"}
Window == Kind \X (Key \cup {All})

VARIABLES
  now,        \* the clock
  evts,       \* the events in each window
  windows,    \* the windows of exchanges that the registry has made
  pc,         \* where each source is
  event,      \* the event it records, or None
  holds,      \* the readers that hold r.mu
  unread,     \* the windows a reader has still to look at
  counted,    \* what it counted in the others
  \* observers: every event that was added to a window; the cutoff that
  \* a reader's look at a window had
  recorded, cutoffs

windowVars == <<evts, recorded>>
sourceVars == <<pc, event>>
readerVars == <<holds, unread, counted, cutoffs>>
vars == <<now, windowVars, windows, sourceVars, readerVars>>

None == [id |-> 0]
Event == [id : 1..MaxEvents, kind : Kind, key : Key, ts : Int]

Elements(q) == {q[i] : i \in DOMAIN q}

Init ==
  /\ now = 0
  /\ evts = [w \in Window |-> <<>>]
  /\ windows = {}
  /\ pc = [s \in Source |-> "idle"]
  /\ event = [s \in Source |-> None]
  /\ holds = {}
  /\ unread = [r \in Reader |-> {}]
  /\ counted = [r \in Reader |-> [w \in Window |-> {}]]
  /\ recorded = [w \in Window |-> <<>>]
  /\ cutoffs = [r \in Reader |-> [w \in Window |-> 0]]

-----------------------------------------------------------------------------
(* Windows                                                                 *)

Expired(e) == e.ts < now - Width

(* (A prune that drops every event up to the last expired one.)            *)
PruneToLast(q) ==
  LET expired == {i \in DOMAIN q : Expired(q[i])}
  IN  SubSeq(q, Max(expired \cup {0}) + 1, Len(q))

(* The events from the first that is not expired on.                       *)
Prune(q) ==
  LET fresh == {i \in DOMAIN q : ~Expired(q[i])}
  IN  SubSeq(q, Min(fresh \cup {Len(q) + 1}), Len(q))

Add(w, e) ==
  /\ evts' = [evts EXCEPT ![w] = Append(Prune(@), e)]
  /\ recorded' = [recorded EXCEPT ![w] = Append(@, e)]

(* What Snapshot counts: the expired events are left out one by one.       *)
Snapshot(w) == {e \in Elements(evts[w]) : ~Expired(e)}

-----------------------------------------------------------------------------
(* Recorders                                                               *)

Recorded == Len(recorded[<<"trade", All>>]) + Len(recorded[<<"liquidation", All>>])

(* RecordTrade or RecordLiquidation of an event that its exchange stamped: *)
(* the window over all exchanges comes first.                              *)
RecordGlobal(s) ==
  /\ pc[s] = "idle"
  /\ Recorded < MaxEvents
  /\ \E kind \in Kind, key \in Key, d \in Skew :
       LET e == [id |-> Recorded + 1, kind |-> kind, key |-> key, ts |-> now + d]
       IN  /\ event' = [event EXCEPT ![s] = e]
           /\ Add(<<kind, All>>, e)
  /\ pc' = [pc EXCEPT ![s] = "lookup"]
  /\ UNCHANGED <<now, windows, readerVars>>

(* (A lookup that does not wait for the readers.)                          *)
LookupUnlocked(s) ==
  /\ pc[s] = "lookup"
  /\ windows' = windows \cup {<<event[s].kind, event[s].key>>}
  /\ pc' = [pc EXCEPT ![s] = "add"]
  /\ UNCHANGED <<now, windowVars, event, readerVars>>

(* (A lookup that does not put the window it makes into the map.)          *)
LookupForgets(s) ==
  /\ pc[s] = "lookup"
  /\ holds = {}
  /\ pc' = [pc EXCEPT ![s] = "add"]
  /\ UNCHANGED <<now, windowVars, windows, event, readerVars>>

(* cvdWindow or liqWindow makes the window if there is none, under r.mu.   *)
Lookup(s) ==
  /\ pc[s] = "lookup"
  /\ holds = {}
  /\ windows' = windows \cup {<<event[s].kind, event[s].key>>}
  /\ pc' = [pc EXCEPT ![s] = "add"]
  /\ UNCHANGED <<now, windowVars, event, readerVars>>

RecordKey(s) ==
  /\ pc[s] = "add"
  /\ Add(<<event[s].kind, event[s].key>>, event[s])
  /\ pc' = [pc EXCEPT ![s] = "idle"]
  /\ event' = [event EXCEPT ![s] = None]
  /\ UNCHANGED <<now, windows, readerVars>>

-----------------------------------------------------------------------------
(* SnapshotAll                                                             *)

(* All trades, the trades and the liquidations of each exchange, all       *)
(* liquidations.                                                           *)
Rank(w) ==
  IF w[2] = All THEN (IF w[1] = "trade" THEN 1 ELSE 4)
  ELSE IF w[1] = "trade" THEN 2 ELSE 3

(* Takes r.mu for reading. No window is made until it is given back.       *)
Start(r) ==
  /\ r \notin holds
  /\ holds' = holds \cup {r}
  /\ unread' = [unread EXCEPT ![r] = windows \cup (Kind \X {All})]
  /\ UNCHANGED <<now, windowVars, windows, sourceVars, counted, cutoffs>>

Read(r, w) ==
  /\ r \in holds
  /\ w \in unread[r]
  /\ \A v \in unread[r] : Rank(w) <= Rank(v)
  /\ counted' = [counted EXCEPT ![r][w] = Snapshot(w)]
  /\ cutoffs' = [cutoffs EXCEPT ![r][w] = now - Width]
  /\ unread' = [unread EXCEPT ![r] = @ \ {w}]
  /\ UNCHANGED <<now, windowVars, windows, sourceVars, holds>>

(* (A return that keeps r.mu.)                                             *)
ReturnLocked(r) ==
  /\ r \in holds
  /\ unread[r] = {}
  /\ counted' = [counted EXCEPT ![r] = [w \in Window |-> {}]]
  /\ cutoffs' = [cutoffs EXCEPT ![r] = [w \in Window |-> 0]]
  /\ UNCHANGED <<now, windowVars, windows, sourceVars, holds, unread>>

(* The answer goes to the caller.                                          *)
Return(r) ==
  /\ r \in holds
  /\ unread[r] = {}
  /\ holds' = holds \ {r}
  /\ counted' = [counted EXCEPT ![r] = [w \in Window |-> {}]]
  /\ cutoffs' = [cutoffs EXCEPT ![r] = [w \in Window |-> 0]]
  /\ UNCHANGED <<now, windowVars, windows, sourceVars, unread>>

-----------------------------------------------------------------------------
Tick ==
  /\ now < MaxTime
  /\ now' = now + 1
  /\ UNCHANGED <<windowVars, windows, sourceVars, readerVars>>

Next ==
  \/ \E s \in Source : RecordGlobal(s) \/ Lookup(s) \/ RecordKey(s)
  \/ \E r \in Reader : Start(r) \/ (\E w \in Window : Read(r, w)) \/ Return(r)
  \/ Tick

(* The goroutines are scheduled; sync.RWMutex lets a writer that waits go  *)
(* before readers that come later.                                         *)
Fairness ==
  /\ \A s \in Source : SF_vars(Lookup(s)) /\ WF_vars(RecordKey(s))
  /\ \A r \in Reader : WF_vars(\E w \in Window : Read(r, w)) /\ WF_vars(Return(r))

Spec == Init /\ [][Next]_vars /\ Fairness

-----------------------------------------------------------------------------
(* Properties                                                              *)

(* Types; the registry has a window before an event is added to it, and a  *)
(* reader looks at windows that are there.                                 *)
TypeOK ==
  /\ now \in 0..MaxTime
  /\ evts \in [Window -> Seq(Event)]
  /\ recorded \in [Window -> Seq(Event)]
  /\ windows \subseteq Kind \X Key
  /\ pc \in [Source -> {"idle", "lookup", "add"}]
  /\ DOMAIN event = Source
  /\ \A s \in Source : pc[s] # "idle" => event[s] \in Event
  /\ \A s \in Source :
       pc[s] = "add" => <<event[s].kind, event[s].key>> \in windows
  /\ holds \subseteq Reader
  /\ unread \in [Reader -> SUBSET Window]
  /\ \A r \in Reader : unread[r] \subseteq windows \cup (Kind \X {All})
  /\ counted \in [Reader -> [Window -> SUBSET Event]]
  /\ cutoffs \in [Reader -> [Window -> Int]]

(* What a window still holds are the last events that were added, and      *)
(* those before are expired. Events arrive with the stamps of many         *)
(* exchanges, in no order.                                                 *)
LastAreHeld ==
  \A w \in Window :
    LET added == recorded[w]
        dropped == Len(added) - Len(evts[w])
    IN  /\ dropped >= 0
        /\ evts[w] = SubSeq(added, dropped + 1, Len(added))
        /\ \A i \in 1..dropped : Expired(added[i])

(* A snapshot of a window counts exactly the events that were ever added   *)
(* to it and are not expired.                                              *)
SnapshotsAreExact ==
  \A w \in Window : Snapshot(w) = {e \in Elements(recorded[w]) : ~Expired(e)}

(* Pruning cannot be seen, neither in what is held nor in what is counted. *)
PruningIsInvisible == LastAreHeld /\ SnapshotsAreExact

(* A trade that SnapshotAll counts for an exchange it also counts for all  *)
(* exchanges, although trades are recorded and time passes meanwhile: all  *)
(* are looked at first, and until the end no recorder that comes later     *)
(* gets to the window of its exchange.                                     *)
TradesWithinGlobal ==
  \A r \in Reader, k \in Key :
    counted[r][<<"trade", k>>] \subseteq counted[r][<<"trade", All>>]

(* All liquidations are looked at last: one that is counted for an         *)
(* exchange and not for all has expired in between.                        *)
LiquidationsWithinGlobal ==
  \A r \in Reader, k \in Key :
    r \in holds /\ unread[r] = {} =>
      \A e \in counted[r][<<"liquidation", k>>] :
        e \in counted[r][<<"liquidation", All>>]
          \/ e.ts < cutoffs[r][<<"liquidation", All>>]

(* Both kinds of events that SnapshotAll counts.                           *)
WithinGlobal == TradesWithinGlobal /\ LiquidationsWithinGlobal

(* A recorder gets through whatever the readers do.                        *)
RecordsReturn == \A s \in Source : pc[s] = "lookup" ~> pc[s] = "idle"
=============================================================================
