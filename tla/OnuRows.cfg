SPECIFICATION Spec
CONSTANTS
  Onus = {o1, o2}
  Located = {o1}
  Own = {"optical"}
  Writers = {w1}
  MaxFaults = 1
  MaxLosses = 1
CHECK_DEADLOCK FALSE
INVARIANTS
  TypeOK
PROPERTIES
  RowsGoOnlyWhenGone
  GhostsHaveTwoSources
  StatusesConverge
