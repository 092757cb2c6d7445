SPECIFICATION Spec
CONSTANTS
  Onus = {o1}
  Port = port
  Numbered = {o1}
  Refreshes = {r1, r2}
  Tables = {"private", "interface"}
  Wide = 4
  Narrow = 2
  MaxColumn = 2
  FirstOctets = {2}
  MaxOctets = 2
  MaxUpdates = 3
  MaxEvents = 1
SYMMETRY Alike
CHECK_DEADLOCK FALSE
INVARIANTS
  TypeOK
  PeaksCoverRates
PROPERTIES
  RatesAreTrue
