SPECIFICATION Spec
CONSTANTS
  block = block
  meta = meta
  income = income
  supply = supply
  NoHeight = NoHeight
  Plugins = {block, meta}
  BatchPlugins = {block, meta}
  FailingPlugins = {meta}
  Faults = {"read", "put", "insert", "commit", "lostack", "stop", "crash"}
  MaxHeight = 3
  Deps <- MCDeps
  Write <- MCWrite
INVARIANTS
  TypeOK
  LossAccounted
  NothingEarly
  CacheAhead
  DependencyGate
PROPERTIES
  HeightMonotone
