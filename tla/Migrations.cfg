SPECIFICATION FairSpec
CONSTANTS
  Runners = {r1, r2}
  Versions = {1, 2, 3}
  a = a
  b = b
  Contents = {a, b}
  Releases <- MCReleases
  ClassOf <- MCClassOf
  CreatedBy <- MCCreatedBy
  Tables <- MCTables
  Absent = Absent
  Null = Null
  Unknown = Unknown
  Nobody = Nobody
  MaxStarts = 3
CHECK_DEADLOCK FALSE
INVARIANTS
  AppliedOnce
  VerifiedStaysTrue
PROPERTIES
  SuccessMeansReady
  EveryRunEnds
