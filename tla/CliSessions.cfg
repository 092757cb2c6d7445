SPECIFICATION FairSpec
CONSTANTS
  None = None
  Calls = {c1, c2, c3}
  Olts = {o1, o2}
  Ssh = {o1}
  Impatient = {c1, c2}
CHECK_DEADLOCK FALSE
INVARIANTS
  OneSessionPerOlt
  LockFollowsHelper
PROPERTIES
  EveryCallEnds
  LockComesBackUnlessStuck
