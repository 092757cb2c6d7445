SPECIFICATION Spec
CONSTANTS
  None = None
  FreePeriod = free
  Tx = {t1, t2}
  Services = {s1}
  Periods = {jan, free}
  PaymentIds = {p1, p2, p3}
  Amounts = {1, 2}
  Total <- SomeFree
  Ops <- EveryOp
CONSTRAINT OneRequestPerInvoice
SYMMETRY Interchangeable
INVARIANTS
  StatusMatchesPayments
  NoOverpayment
  VoidHoldsNoPayment
PROPERTIES
  ImplementsLedger
