SPECIFICATION Spec
CONSTANTS
  Client = {c1}
  Type = {"trade"}
  Channel = {"trade", "all"}
  BroadcastCapacity = 1
  SendCapacity = 1
  MaxMessages = 2
INVARIANTS TypeOK KnownIsOpen
PROPERTIES FeedIsOrdered WrittenWhileSubscribed GoneIsReleased
CHECK_DEADLOCK FALSE
