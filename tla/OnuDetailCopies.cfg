SPECIFICATION FairSpec
CONSTANTS
  Onus = {o1, o2}
  Watched = o2
  Changes = 1
  Workers = {w1, w2}
  Applies = {"snmp", "verified", "blind"}
  Ssh = TRUE
  Lifetime = 2
  Timeout = 1
  MaxConfig <- OneChanges
INVARIANTS
  OneFetchPerOlt
  
PROPERTIES
  FetchComesBack
  PanelsCatchUp
