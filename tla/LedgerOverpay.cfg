SPECIFICATION Spec
CONSTANTS
  None = None
  FreePeriod = free
  Tx = {t1, t2}
  Services = {s1}
  Periods = {jan}
  PaymentIds = {p1, p2}
  Amounts = {1, 2}
  Total <- TwoUnits
  Ops <- Paying
INVARIANTS
  NoOverpayment
