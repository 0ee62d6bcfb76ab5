SPECIFICATION Spec
CONSTANTS
  Connectors <- AllConnectors
  Pairs <- MCPairs
  Samples <- MCSamples
  Numbers = {n1, n2}
  MaxTape = 2
  MaxDials = 2
  MaxWire = 1
SYMMETRY Alike
INVARIANTS TypeOK Insertable  OnceInOrder SoundArrive
CHECK_DEADLOCK FALSE
