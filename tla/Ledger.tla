------------------------------- MODULE Ledger -------------------------------
(***************************************************************************)
(* What billing promises a clerk: invoices are issued, paid, cancelled and *)
(* payments taken back, each in one step, on figures that are current.     *)
(* InvoiceLedger is the program; this is what it is held to.               *)
(***************************************************************************)
EXTENDS Naturals, FiniteSets, FiniteSetsExt

CONSTANTS Services, Periods, PaymentIds, Amounts, Total, None

VARIABLES bill,     \* the status of the invoice of a service and a period
          receipt   \* the payments: status, invoice, amount

Invoices == Services \X Periods
Unused   == [status |-> "absent", key |-> None, amount |-> 0]

Posted(k, receipts) ==
  {p \in PaymentIds : receipts[p].status = "posted" /\ receipts[p].key = k}
PaidBy(k, receipts) == MapThenSumSet(LAMBDA p : receipts[p].amount, Posted(k, receipts))

Standing(k, receipts) ==
  CASE PaidBy(k, receipts) >= Total[k] -> "paid"
    [] PaidBy(k, receipts) \in 1 .. (Total[k] - 1) -> "partial"
    [] OTHER -> "unpaid"

Init ==
  /\ bill = [k \in Invoices |-> "absent"]
  /\ receipt = [p \in PaymentIds |-> Unused]

(* Bills for services that had none in the period.                         *)
Issue(K) ==
  /\ \A k \in K : bill[k] = "absent"
  /\ bill' = [k \in Invoices |-> IF k \in K THEN "unpaid" ELSE bill[k]]
  /\ UNCHANGED receipt

(* A payment within what is still owed on an open invoice.                 *)
Receive(p, k, a) ==
  /\ receipt[p] = Unused
  /\ bill[k] \in {"unpaid", "partial"}
  /\ PaidBy(k, receipt) + a <= Total[k]
  /\ receipt' = [receipt EXCEPT ![p] = [status |-> "posted", key |-> k, amount |-> a]]
  /\ bill' = [bill EXCEPT ![k] = Standing(k, receipt')]

(* A payment taken back: the invoice owes its amount again.                *)
TakeBack(p) ==
  /\ receipt[p].status = "posted"
  /\ receipt' = [receipt EXCEPT ![p].status = "voided"]
  /\ bill' = [bill EXCEPT ![receipt[p].key] = Standing(receipt[p].key, receipt')]

(* An invoice nobody has paid anything on is cancelled.                    *)
Cancel(k) ==
  /\ bill[k] \notin {"absent", "void"}
  /\ Posted(k, receipt) = {}
  /\ bill' = [bill EXCEPT ![k] = "void"]
  /\ UNCHANGED receipt

Next ==
  \/ \E K \in SUBSET Invoices : Issue(K)
  \/ \E p \in PaymentIds, k \in Invoices, a \in Amounts : Receive(p, k, a)
  \/ \E p \in PaymentIds : TakeBack(p)
  \/ \E k \in Invoices : Cancel(k)

Spec == Init /\ [][Next]_<<bill, receipt>>
=============================================================================
