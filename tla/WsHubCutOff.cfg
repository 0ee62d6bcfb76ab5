SPECIFICATION Spec
CONSTANTS
  Client = {c1}
  Type = {"trade"}
  Channel = {"trade"}
  BroadcastCapacity = 1
  SendCapacity = 1
  MaxMessages = 2
INVARIANTS OnlySlowIsDropped
CHECK_DEADLOCK FALSE
