SPECIFICATION Spec
CONSTANTS
  okx = okx
  bybit = bybit
  Source <- MCSource
  Detached <- MCDetached
  EventsOf <- TwoAndOne
  RingCapacity = 2
  BroadcastCapacity = 1
  MaxLostAcks = 1
INVARIANTS TypeOK Conserved StoredAsAccepted ObservedIsAccepted
PROPERTIES LastFlushStoresNothing
