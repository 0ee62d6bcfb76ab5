SPECIFICATION Spec
CONSTANTS
  okx = okx
  bybit = bybit
  Source <- MCSource
  Detached <- MCDetached
  EventsOf <- OneEach
  RingCapacity = 1
  BroadcastCapacity = 1
  MaxLostAcks = 1
PROPERTIES BuffersAreLogs StopTerminates EventuallyStored
