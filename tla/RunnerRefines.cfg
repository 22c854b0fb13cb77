SPECIFICATION LiveSpec
CONSTANTS
  block = block
  meta = meta
  income = income
  supply = supply
  NoHeight = NoHeight
  Plugins = {income, supply}
  BatchPlugins = {income, supply}
  FailingPlugins = {supply}
  Faults = {"read", "put", "insert", "lostack", "stop", "crash"}
  MaxHeight = 3
  Deps <- MCDeps
  Write <- MCWrite
INVARIANTS
  AtMostOnce
PROPERTIES
  ImplementsIndexer
  CatchUp
