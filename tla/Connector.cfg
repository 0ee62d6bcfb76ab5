SPECIFICATION Spec
CONSTANTS
  Group = {"spot", "perp"}
  Connectors <- AllConnectors
  MaxReconnects <- SixOrThree
INVARIANTS TypeOK StatusTruthful AloneBackoffDoubles OneWriter
PROPERTIES Recovers CancelEndsLoops
CHECK_DEADLOCK FALSE
