SPECIFICATION Spec
CONSTANTS
  Source = {s1, s2}
  Reader = {r1}
  Key = {k1}
  All = All
  Width = 1
  Skew <- OldOrGrowingOld
  MaxTime = 1
  MaxEvents = 3
INVARIANTS TypeOK PruningIsInvisible WithinGlobal
PROPERTIES RecordsReturn
