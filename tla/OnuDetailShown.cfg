SPECIFICATION Spec
CONSTANTS
  Onus = {o1}
  Watched = none
  Changes = 2
  Workers = {w1, w2}
  Applies = {"snmp", "verified", "blind"}
  Ssh = FALSE
  Lifetime = 2
  Timeout = 1
  MaxConfig <- OneChanges
INVARIANTS
  AppliedIsShown
