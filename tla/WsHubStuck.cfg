SPECIFICATION Spec
CONSTANTS
  Client = {c1}
  Type = {"trade"}
  Channel = {"trade"}
  BroadcastCapacity = 1
  SendCapacity = 1
  MaxMessages = 2
PROPERTIES SlowIsDropped
CHECK_DEADLOCK FALSE
