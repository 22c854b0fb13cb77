SPECIFICATION LiveSpec
CONSTANTS
  a = a
  b = b
  c1 = c1
  NoRunner = NoRunner
  Plugins = {a}
  Workers = {}
  Clients = {c1}
  Shutdown = FALSE
  MaxRunners = 1
PROPERTIES
  UnloadStops
CHECK_DEADLOCK FALSE
