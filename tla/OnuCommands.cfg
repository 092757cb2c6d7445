SPECIFICATION Spec
CONSTANTS
  Serials = {s1, s2}
  NoSerial = NoSerial
  Ops = {a, b}
  NoOp = NoOp
  Vlans = {v1, v2}
  NoVlan = NoVlan
  Before = {NoVlan}
  MaxId = 2
  Preambles = 2
  Candidates = 1
  MaxRequests = 3
  MaxDoubts = 1
  MaxLines = 3
SYMMETRY Interchangeable
CHECK_DEADLOCK FALSE
INVARIANTS
  ResetsComeBack
  OwnDescriptions
  SuccessMeansDone
  OffersAreApart
