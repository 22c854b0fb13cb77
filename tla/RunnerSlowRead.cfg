SPECIFICATION Spec
CONSTANTS
  block = block
  meta = meta
  income = income
  supply = supply
  NoHeight = NoHeight
  Plugins = {block, meta}
  BatchPlugins = {block}
  FailingPlugins = {meta}
  Faults = {"put", "insert", "commit", "lostack", "stop", "crash", "slowread"}
  MaxHeight = 2
  Deps <- MCDeps
  Write <- MCWrite
INVARIANTS
  LossAccounted
