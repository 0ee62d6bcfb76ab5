SPECIFICATION Spec
CONSTANTS
  Sessions = {s1, s2}
  Fickle = {s1}
  r1 = r1
  r2 = r2
  Requests = {r1, r2}
  Calls <- MCCalls
  Listing <- MCListing
  Stored <- MCStored
  Incoming <- MCIncoming
  ChanCap = 1
  MaxConns = 1
  HeatmapLimit = 1
  MaxRows = 1
INVARIANTS TypeOK AnsweredOnce
PROPERTIES FreshAnswers EveryoneIsServed SignalEnds
CHECK_DEADLOCK FALSE
