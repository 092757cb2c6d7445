SPECIFICATION FairSpec
CONSTANTS
  None = None
  FreePeriod = free
  Tx = {t1, t2}
  Services = {s1, s2}
  Periods = {jan}
  PaymentIds = {p1, p2}
  Amounts = {1, 2}
  Total <- TwoUnits
  Ops <- EveryOp
INVARIANTS
  TypeOK
  NumbersGapFree
  ChecksStayTrue
  CandidatesStayUnbilled
PROPERTIES
  ClosedTakesNoPayment
  VoidIsFinal
  EveryRequestEnds
