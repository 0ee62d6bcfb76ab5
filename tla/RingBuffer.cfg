SPECIFICATION Spec
CONSTANTS
  Item = {a, b, c}
  NoItem = none
  Capacity = 4
INVARIANTS TypeOK ReadersAgree
PROPERTIES ImplementsRecentLog
