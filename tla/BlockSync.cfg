SPECIFICATION LiveSpec
CONSTANTS
  BatchSize = 2
  MaxHeight = 4
  StartHeights <- MCStartHeights
INVARIANTS
  TypeOK
  IndexedSinceStart
  NoHoleFromStart
PROPERTIES
  DaoMonotone
  SyncCatchesUp
  CatchUpKeepsUp
