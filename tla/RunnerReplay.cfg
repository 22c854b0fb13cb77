SPECIFICATION Spec
CONSTANTS
  block = block
  meta = meta
  income = income
  supply = supply
  NoHeight = NoHeight
  Plugins = {block}
  BatchPlugins = {block}
  FailingPlugins = {}
  Faults = {"commit"}
  MaxHeight = 2
  Deps <- MCDeps
  Write <- MCWrite
INVARIANTS
  ReplayedVerbatim
