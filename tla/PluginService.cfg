SPECIFICATION LiveSpec
CONSTANTS
  a = a
  b = b
  c1 = c1
  NoRunner = NoRunner
  Plugins = {a, b}
  Workers = {b}
  Clients = {c1}
  Shutdown = TRUE
  MaxRunners = 2
INVARIANTS
  TypeOK
  NoOrphan
PROPERTIES
  NoPutAfterStop
  LoadedIsStarted
CHECK_DEADLOCK FALSE
