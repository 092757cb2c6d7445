---------------------------- MODULE InvoiceLedger ----------------------------
(***************************************************************************)
(* Invoices and payments of one tenant, as the four transactions of        *)
(* internal/postgres change them: BillingRepository.Generate and .Void,    *)
(* PaymentRepository.Create and .Void.  They run at READ COMMITTED:        *)
(*   - every statement reads the rows committed when it starts (its        *)
(*     snapshot) and the transaction's own writes;                         *)
(*   - SELECT ... FOR UPDATE OF i and UPDATE ... i first wait for the row  *)
(*     lock of i, then re-read the columns of i and nothing else: a        *)
(*     subquery over payments keeps the value of the snapshot;             *)
(*   - row locks are held to the commit or the rollback.                   *)
(* A statement that waits is therefore two steps here, its snapshot and    *)
(* the moment it gets the lock.  Writes are visible to others only at the  *)
(* commit, so they appear in the committing step.                          *)
(***************************************************************************)
EXTENDS Naturals, FiniteSets, FiniteSetsExt

CONSTANTS
  Tx,          \* the connections of the pgx pools; each runs one transaction at a time
  Services,    \* the tenant's services
  Periods,     \* the billing periods <<period_start, period_end>> asked for
  PaymentIds,  \* the row ids payments can get: bounds the payments ever made
  Amounts,     \* the amounts clients ask to pay, in the smallest unit
  Total,       \* the total of the invoice of a service and a period
  Ops,         \* the requests clients send
  None         \* the absent owner of a lock, the absent field of a row

(* UNIQUE (tenant_id, service_id, period_start, period_end): a service and *)
(* a period name an invoice, whatever its status.                          *)
Key == Services \X Periods

AllOps == {"generate", "void_invoice", "create_payment", "void_payment"}

ASSUME LedgerConstants ==
  /\ Amounts \subseteq Nat \ {0}
  /\ Total \in [Key -> Nat]
  /\ Ops \subseteq AllOps
  /\ None \notin Tx \cup Key \cup PaymentIds

VARIABLES
  invoice,      \* committed rows of invoices: status and number
  payment,      \* committed rows of payments with their single allocation
  counter,      \* committed tenant_counters values
  invoiceLock,  \* who holds the row lock of an invoice
  paymentLock,  \* who holds the row lock of a payment
  counterLock,  \* who holds the row lock of a tenant counter
  pc,           \* the step each transaction is at
  req,          \* what its request names: invoice, payment, amount
  snap,         \* the posted payments its waiting statement saw
  seq,          \* the counter value it read or wrote, not committed
  todo,         \* Generate: candidates still to be inserted
  fresh         \* Generate: numbers of the invoices it inserted, not committed

tables == <<invoice, payment, counter>>
locks  == <<invoiceLock, paymentLock, counterLock>>
locals == <<req, snap, seq, todo, fresh>>
vars   == <<invoice, payment, counter, invoiceLock, paymentLock, counterLock,
            pc, req, snap, seq, todo, fresh>>

-----------------------------------------------------------------------------
InvoiceStatus == {"absent", "unpaid", "partial", "paid", "void"}
PaymentStatus == {"absent", "posted", "voided"}
Counters      == {"invoice_number", "payment_number"}
Steps == {"idle",
          "create_lock", "create_number", "create_insert",
          "void_payment_lock", "void_payment_update", "void_payment_invoice",
          "void_invoice_lock",
          "generate_lock", "generate_insert"}

InvoiceRow == [status : InvoiceStatus, number : Nat]
PaymentRow == [status : PaymentStatus, key : Key \cup {None},
               amount : Nat, number : Nat]
Request    == [key : Key \cup {None}, pay : PaymentIds \cup {None}, amount : Nat]

NoInvoice == [status |-> "absent", number |-> 0]
NoPayment == [status |-> "absent", key |-> None, amount |-> 0, number |-> 0]
NoRequest == [key |-> None, pay |-> None, amount |-> 0]
NoNumbers == [k \in Key |-> 0]

(* The committed rows.                                                     *)
TablesTyped ==
  /\ invoice \in [Key -> InvoiceRow]
  /\ payment \in [PaymentIds -> PaymentRow]
  /\ counter \in [Counters -> Nat]

(* The locks and the transactions' own state.                              *)
SessionsTyped ==
  /\ invoiceLock \in [Key -> Tx \cup {None}]
  /\ paymentLock \in [PaymentIds -> Tx \cup {None}]
  /\ counterLock \in [Counters -> Tx \cup {None}]
  /\ pc \in [Tx -> Steps]
  /\ req \in [Tx -> Request]
  /\ snap \in [Tx -> SUBSET PaymentIds]
  /\ seq \in [Tx -> Nat]
  /\ todo \in [Tx -> SUBSET Key]
  /\ fresh \in [Tx -> [Key -> Nat]]

(* Rows hold the columns and values the schema allows and this code        *)
(* writes; a stored status is never the computed overdue.                  *)
TypeOK == TablesTyped /\ SessionsTyped

Init ==
  /\ invoice = [k \in Key |-> NoInvoice]
  /\ payment = [p \in PaymentIds |-> NoPayment]
  /\ counter = [c \in Counters |-> 0]
  /\ invoiceLock = [k \in Key |-> None]
  /\ paymentLock = [p \in PaymentIds |-> None]
  /\ counterLock = [c \in Counters |-> None]
  /\ pc = [t \in Tx |-> "idle"]
  /\ req = [t \in Tx |-> NoRequest]
  /\ snap = [t \in Tx |-> {}]
  /\ seq = [t \in Tx |-> 0]
  /\ todo = [t \in Tx |-> {}]
  /\ fresh = [t \in Tx |-> NoNumbers]

-----------------------------------------------------------------------------
(* sum(pa.amount) over a set of payments, in the table pays.               *)
SumOf(pays, S) == MapThenSumSet(LAMBDA p : pays[p].amount, S)

(* WHERE pa.invoice_id = i.id AND pay.status = 'posted'.                   *)
PostedOn(k) == {p \in PaymentIds : payment[p].status = "posted" /\ payment[p].key = k}

\* Bug: the status the screens compute, overdue, is written back.
StatusForStoredOverdue(k, paid) ==
  IF paid >= Total[k] THEN "paid" ELSE IF paid > 0 THEN "partial" ELSE "overdue"

(* The CASE of recomputeInvoiceStatus.                                     *)
StatusFor(k, paid) ==
  IF paid >= Total[k] THEN "paid" ELSE IF paid > 0 THEN "partial" ELSE "unpaid"

Idle(t)  == pc[t] = "idle"
Goto(t, step) == pc' = [pc EXCEPT ![t] = step]

(* Commit and rollback release every row lock of the transaction.          *)
Released(lock, t) == [x \in DOMAIN lock |-> IF lock[x] = t THEN None ELSE lock[x]]

EndTx(t) ==
  /\ Goto(t, "idle")
  /\ invoiceLock' = Released(invoiceLock, t)
  /\ paymentLock' = Released(paymentLock, t)
  /\ counterLock' = Released(counterLock, t)
  /\ req'   = [req EXCEPT ![t] = NoRequest]
  /\ snap'  = [snap EXCEPT ![t] = {}]
  /\ seq'   = [seq EXCEPT ![t] = 0]
  /\ todo'  = [todo EXCEPT ![t] = {}]
  /\ fresh' = [fresh EXCEPT ![t] = NoNumbers]

\* Bug: an error return without the deferred rollback.
RefuseKeepingLocks(t) ==
  /\ Goto(t, "idle")
  /\ req'   = [req EXCEPT ![t] = NoRequest]
  /\ snap'  = [snap EXCEPT ![t] = {}]
  /\ seq'   = [seq EXCEPT ![t] = 0]
  /\ todo'  = [todo EXCEPT ![t] = {}]
  /\ fresh' = [fresh EXCEPT ![t] = NoNumbers]
  /\ UNCHANGED <<tables, locks>>

(* defer tx.Rollback after an error return.                                *)
Refuse(t) == EndTx(t) /\ UNCHANGED tables

(* A request that fails between two statements: the client went away, its  *)
(* context ended, the connection broke.                                    *)
Abort(t) == ~Idle(t) /\ Refuse(t)

-----------------------------------------------------------------------------
(* PaymentRepository.Create                                                *)

(* The statement snapshot of the first SELECT.  The id of the row the      *)
(* transaction will insert is a UUID nobody else has.                      *)
CreatePaymentSelect(t, k, p, a) ==
  /\ "create_payment" \in Ops
  /\ Idle(t)
  /\ invoice[k].status # "absent"
  /\ payment[p].status = "absent"
  /\ \A u \in Tx : req[u].pay # p
  /\ req' = [req EXCEPT ![t] = [key |-> k, pay |-> p, amount |-> a]]
  /\ snap' = [snap EXCEPT ![t] = PostedOn(k)]
  /\ Goto(t, "create_lock")
  /\ UNCHANGED <<tables, locks, seq, todo, fresh>>

\* Bug: the amount is compared with the total, not with what is left of it.
PayableUpToTotal(t) ==
  /\ invoice[req[t].key].status \notin {"void", "paid"}
  /\ req[t].amount <= Total[req[t].key]

(* status is read under the lock, outstanding was computed before it.      *)
Payable(t) ==
  /\ invoice[req[t].key].status \notin {"void", "paid"}
  /\ req[t].amount + SumOf(payment, snap[t]) <= Total[req[t].key]

\* Bug: the SELECT lost its FOR UPDATE.
CreatePaymentUnlocked(t) ==
  /\ pc[t] = "create_lock"
  /\ \/ ~Payable(t) /\ Refuse(t)
     \/ Payable(t) /\ Goto(t, "create_number") /\ UNCHANGED <<tables, locks, locals>>

CreatePaymentLock(t) ==
  /\ pc[t] = "create_lock"
  /\ invoiceLock[req[t].key] = None
  /\ \/ /\ ~Payable(t)
        /\ Refuse(t)
     \/ /\ Payable(t)
        /\ invoiceLock' = [invoiceLock EXCEPT ![req[t].key] = t]
        /\ Goto(t, "create_number")
        /\ UNCHANGED <<tables, paymentLock, counterLock, locals>>

\* Bug: the number is read by a plain SELECT and written back later.
CreatePaymentNumberUnlocked(t) ==
  /\ pc[t] = "create_number"
  /\ seq' = [seq EXCEPT ![t] = counter["payment_number"] + 1]
  /\ Goto(t, "create_insert")
  /\ UNCHANGED <<tables, locks, req, snap, todo, fresh>>

(* The upserts of payment_number and receipt_number.  No other code uses   *)
(* either counter and every user takes payment_number first, so one        *)
(* counter stands for both.                                                *)
CreatePaymentNumber(t) ==
  /\ pc[t] = "create_number"
  /\ counterLock["payment_number"] = None
  /\ counterLock' = [counterLock EXCEPT !["payment_number"] = t]
  /\ seq' = [seq EXCEPT ![t] = counter["payment_number"] + 1]
  /\ Goto(t, "create_insert")
  /\ UNCHANGED <<tables, invoiceLock, paymentLock, req, snap, todo, fresh>>

(* Payment, allocation and receipt are inserted, the status recomputed by  *)
(* a statement that sees them, and all of it committed.                    *)
CreatePaymentCommit(t) ==
  LET k == req[t].key
      p == req[t].pay
  IN
  /\ pc[t] = "create_insert"
  /\ payment' = [payment EXCEPT ![p] = [status |-> "posted", key |-> k,
                                        amount |-> req[t].amount, number |-> seq[t]]]
  /\ counter' = [counter EXCEPT !["payment_number"] = seq[t]]
  /\ invoice' = IF invoice[k].status = "void" THEN invoice
                ELSE [invoice EXCEPT ![k].status =
                        StatusFor(k, SumOf(payment', PostedOn(k) \cup {p}))]
  /\ EndTx(t)

-----------------------------------------------------------------------------
(* PaymentRepository.Void                                                  *)

VoidPaymentBegin(t, p) ==
  /\ "void_payment" \in Ops
  /\ Idle(t)
  /\ payment[p].status # "absent"
  /\ req' = [req EXCEPT ![t] = [NoRequest EXCEPT !.key = payment[p].key, !.pay = p]]
  /\ Goto(t, "void_payment_lock")
  /\ UNCHANGED <<tables, locks, snap, seq, todo, fresh>>

VoidPaymentLock(t) ==
  /\ pc[t] = "void_payment_lock"
  /\ paymentLock[req[t].pay] = None
  /\ \/ /\ payment[req[t].pay].status # "posted"
        /\ Refuse(t)
     \/ /\ payment[req[t].pay].status = "posted"
        /\ paymentLock' = [paymentLock EXCEPT ![req[t].pay] = t]
        /\ Goto(t, "void_payment_update")
        /\ UNCHANGED <<tables, invoiceLock, counterLock, locals>>

(* UPDATE payments, then the snapshot of recomputeInvoiceStatus: it sees   *)
(* the transaction's own update and, of the others, what is committed.     *)
(* An invoice that is void in the snapshot is not a target of the UPDATE,  *)
(* which then waits for nothing.                                           *)
VoidPaymentRecompute(t) ==
  LET k == req[t].key
      p == req[t].pay
  IN
  /\ pc[t] = "void_payment_update"
  /\ \/ /\ invoice[k].status = "void"
        /\ payment' = [payment EXCEPT ![p].status = "voided"]
        /\ EndTx(t)
        /\ UNCHANGED <<invoice, counter>>
     \/ /\ invoice[k].status # "void"
        /\ snap' = [snap EXCEPT ![t] = PostedOn(k) \ {p}]
        /\ Goto(t, "void_payment_invoice")
        /\ UNCHANGED <<tables, locks, req, seq, todo, fresh>>

\* Bug: the UPDATE lost its i.status <> 'void'.
VoidPaymentCommitUnchecked(t) ==
  LET k == req[t].key
  IN
  /\ pc[t] = "void_payment_invoice"
  /\ invoiceLock[k] = None
  /\ payment' = [payment EXCEPT ![req[t].pay].status = "voided"]
  /\ invoice' = [invoice EXCEPT ![k].status = StatusFor(k, SumOf(payment, snap[t]))]
  /\ EndTx(t)
  /\ UNCHANGED counter

\* Bug: the payment is voided and the invoice is not recomputed.
VoidPaymentWithoutRecompute(t) ==
  /\ pc[t] = "void_payment_invoice"
  /\ invoiceLock[req[t].key] = None
  /\ payment' = [payment EXCEPT ![req[t].pay].status = "voided"]
  /\ EndTx(t)
  /\ UNCHANGED <<invoice, counter>>

(* The UPDATE gets the invoice row, re-checks i.status <> 'void' on it,    *)
(* writes the status its snapshot gave, and the transaction commits.       *)
VoidPaymentCommit(t) ==
  LET k == req[t].key
  IN
  /\ pc[t] = "void_payment_invoice"
  /\ invoiceLock[k] = None
  /\ payment' = [payment EXCEPT ![req[t].pay].status = "voided"]
  /\ invoice' = IF invoice[k].status = "void" THEN invoice
                ELSE [invoice EXCEPT ![k].status = StatusFor(k, SumOf(payment, snap[t]))]
  /\ EndTx(t)
  /\ UNCHANGED counter

-----------------------------------------------------------------------------
(* BillingRepository.Void                                                  *)

VoidInvoiceSelect(t, k) ==
  /\ "void_invoice" \in Ops
  /\ Idle(t)
  /\ invoice[k].status # "absent"
  /\ req' = [req EXCEPT ![t] = [NoRequest EXCEPT !.key = k]]
  /\ snap' = [snap EXCEPT ![t] = PostedOn(k)]
  /\ Goto(t, "void_invoice_lock")
  /\ UNCHANGED <<tables, locks, seq, todo, fresh>>

\* Bug: only the status is checked, as if paid_amount followed from it.
VoidableByStatus(t) == invoice[req[t].key].status \notin {"void", "paid"}

(* Amounts are positive: the text of the sum is "0" when the snapshot      *)
(* holds no posted payment, and only then.                                 *)
Voidable(t) == invoice[req[t].key].status # "void" /\ snap[t] = {}

VoidInvoiceDecide(t) ==
  /\ pc[t] = "void_invoice_lock"
  /\ invoiceLock[req[t].key] = None
  /\ \/ ~Voidable(t) /\ Refuse(t)
     \/ /\ Voidable(t)
        /\ invoice' = [invoice EXCEPT ![req[t].key].status = "void"]
        /\ EndTx(t)
        /\ UNCHANGED <<payment, counter>>

-----------------------------------------------------------------------------
(* BillingRepository.Generate                                              *)

GenerateBegin(t) ==
  /\ "generate" \in Ops
  /\ Idle(t)
  /\ Goto(t, "generate_lock")
  /\ UNCHANGED <<tables, locks, locals>>

(* NOT EXISTS (an invoice of the service and the period that is not void). *)
Candidates(S, per) ==
  {k \in S \X {per} : invoice[k].status \in {"absent", "void"}}

\* Bug: the counter is read without FOR UPDATE.
GenerateUnlocked(t, S, per) ==
  /\ pc[t] = "generate_lock"
  /\ seq' = [seq EXCEPT ![t] = counter["invoice_number"]]
  /\ todo' = [todo EXCEPT ![t] = Candidates(S, per)]
  /\ Goto(t, "generate_insert")
  /\ UNCHANGED <<tables, locks, req, snap, fresh>>

(* SELECT counter FOR UPDATE, then the candidates query.  Which services   *)
(* are active or isolated, not archived and priced in the period is the    *)
(* business of other tables: any set S of them.                            *)
GenerateLock(t, S, per) ==
  /\ pc[t] = "generate_lock"
  /\ counterLock["invoice_number"] = None
  /\ counterLock' = [counterLock EXCEPT !["invoice_number"] = t]
  /\ seq' = [seq EXCEPT ![t] = counter["invoice_number"]]
  /\ todo' = [todo EXCEPT ![t] = Candidates(S, per)]
  /\ Goto(t, "generate_insert")
  /\ UNCHANGED <<tables, invoiceLock, paymentLock, req, snap, fresh>>

\* Bug: ON CONFLICT DO UPDATE brings the void row back.
GenerateUpsert(t, k) ==
  /\ pc[t] = "generate_insert"
  /\ k \in todo[t]
  /\ seq' = [seq EXCEPT ![t] = @ + 1]
  /\ fresh' = [fresh EXCEPT ![t][k] = seq[t] + 1]
  /\ todo' = [todo EXCEPT ![t] = @ \ {k}]
  /\ UNCHANGED <<tables, locks, pc, req, snap>>

(* One candidate: the counter moves, the invoice and its line are          *)
(* inserted.  A row of that service and period, void ones included,        *)
(* violates the unique constraint and the whole batch is rolled back.      *)
GenerateInsert(t, k) ==
  /\ pc[t] = "generate_insert"
  /\ k \in todo[t]
  /\ \/ /\ invoice[k].status # "absent"
        /\ Refuse(t)
     \/ /\ invoice[k].status = "absent"
        /\ seq' = [seq EXCEPT ![t] = @ + 1]
        /\ fresh' = [fresh EXCEPT ![t][k] = seq[t] + 1]
        /\ todo' = [todo EXCEPT ![t] = @ \ {k}]
        /\ UNCHANGED <<tables, locks, pc, req, snap>>

GenerateCommit(t) ==
  /\ pc[t] = "generate_insert"
  /\ todo[t] = {}
  /\ invoice' = [k \in Key |-> IF fresh[t][k] = 0 THEN invoice[k]
                               ELSE [status |-> "unpaid", number |-> fresh[t][k]]]
  /\ counter' = [counter EXCEPT !["invoice_number"] = seq[t]]
  /\ EndTx(t)
  /\ UNCHANGED payment

-----------------------------------------------------------------------------
Begin(t) ==
  \/ \E k \in Key, p \in PaymentIds, a \in Amounts : CreatePaymentSelect(t, k, p, a)
  \/ \E p \in PaymentIds : VoidPaymentBegin(t, p)
  \/ \E k \in Key : VoidInvoiceSelect(t, k)
  \/ GenerateBegin(t)

(* The statements of an open transaction.                                  *)
Proceed(t) ==
  \/ CreatePaymentLock(t)
  \/ CreatePaymentNumber(t)
  \/ CreatePaymentCommit(t)
  \/ VoidPaymentLock(t)
  \/ VoidPaymentRecompute(t)
  \/ VoidPaymentCommit(t)
  \/ VoidInvoiceDecide(t)
  \/ \E S \in SUBSET Services, per \in Periods : GenerateLock(t, S, per)
  \/ \E k \in Key : GenerateInsert(t, k)
  \/ GenerateCommit(t)

Next == \E t \in Tx : Begin(t) \/ Proceed(t) \/ Abort(t)

Spec == Init /\ [][Next]_vars

(* PostgreSQL queues the waiters of a row lock, so a transaction whose     *)
(* statement can run again and again does run.                             *)
FairSpec == Spec /\ \A t \in Tx : SF_vars(Proceed(t))
-----------------------------------------------------------------------------
(* What the transactions guarantee however they interleave.                *)

Paid(k) == SumOf(payment, PostedOn(k))
Open(k) == invoice[k].status \in {"unpaid", "partial"}
Issued  == {k \in Key : invoice[k].status # "absent"}
Taken   == {p \in PaymentIds : payment[p].status # "absent"}

(* Invoice and payment numbers are handed out without gap or repetition:   *)
(* the counter row is locked from the moment a number is read to the       *)
(* commit that uses it, and a rollback gives the number back.              *)
InvoicesNumbered ==
  /\ \A k \in Issued : invoice[k].number \in 1 .. counter["invoice_number"]
  /\ \A n \in 1 .. counter["invoice_number"] : \E k \in Issued : invoice[k].number = n
  /\ \A k, l \in Issued : invoice[k].number = invoice[l].number => k = l

PaymentsNumbered ==
  /\ \A p \in Taken : payment[p].number \in 1 .. counter["payment_number"]
  /\ \A n \in 1 .. counter["payment_number"] : \E p \in Taken : payment[p].number = n
  /\ \A p, q \in Taken : payment[p].number = payment[q].number => p = q

NumbersGapFree == InvoicesNumbered /\ PaymentsNumbered

(* A row lock is held exactly by the transaction whose step needs it: it   *)
(* is taken once, kept over the steps between, and gone with the commit,   *)
(* the refusal or the abort.                                               *)
LocksAsStep(t) ==
  /\ \A k \in Key : invoiceLock[k] = t <=>
       pc[t] \in {"create_number", "create_insert"} /\ req[t].key = k
  /\ \A p \in PaymentIds : paymentLock[p] = t <=>
       pc[t] \in {"void_payment_update", "void_payment_invoice"} /\ req[t].pay = p
  /\ counterLock["payment_number"] = t <=> pc[t] = "create_insert"
  /\ counterLock["invoice_number"] = t <=> pc[t] = "generate_insert"

LocksMatchSteps == \A t \in Tx : LocksAsStep(t)

(* What a transaction checked stays true of the rows its next statements   *)
(* use: the invoice of a Create is open until it commits, the payment of a *)
(* Void is posted, the id a Create will insert is its own.                 *)
ChecksHold(t) ==
  /\ pc[t] \in {"create_lock", "create_number", "create_insert"} =>
       /\ req[t].key \in Issued
       /\ req[t].pay \in PaymentIds \ Taken
       /\ \A u \in Tx \ {t} : req[u].pay # req[t].pay
  /\ pc[t] \in {"create_number", "create_insert"} => Open(req[t].key)
  /\ pc[t] = "create_insert" => seq[t] = counter["payment_number"] + 1
  /\ pc[t] \in {"void_payment_lock", "void_payment_update", "void_payment_invoice"} =>
       /\ req[t].key \in Issued
       /\ req[t].pay \in Taken
       /\ payment[req[t].pay].key = req[t].key
  /\ pc[t] \in {"void_payment_update", "void_payment_invoice"} =>
       payment[req[t].pay].status = "posted"
  /\ pc[t] = "void_invoice_lock" => req[t].key \in Issued

ChecksStayTrue == \A t \in Tx : ChecksHold(t)

(* A candidate of Generate is never billed by another Generate before its  *)
(* own insert: with the counter locked, only a void invoice of the same    *)
(* service and period can make the insert fail.                            *)
CandidatesStayUnbilled ==
  \A t \in Tx : \A k \in todo[t] : invoice[k].status \in {"absent", "void"}

(* No payment reaches an invoice that is paid or void when it commits: the *)
(* status checked under the row lock still holds at the insert.            *)
ClosedTakesNoPayment ==
  [][\A p \in PaymentIds \ Taken : p \in Taken' => Open(payment'[p].key)]_vars

(* Nothing brings a void invoice or a voided payment back, not even the    *)
(* recomputation of a transaction that saw the invoice before it was void. *)
VoidIsFinal ==
  [][/\ \A k \in Key : invoice[k].status = "void" => invoice'[k] = invoice[k]
     /\ \A p \in PaymentIds : payment[p].status = "voided" => payment'[p] = payment[p]]_vars

(* Every transaction ends: no lock is kept by a request that was refused,  *)
(* and no two transactions wait for each other.                            *)
EveryRequestEnds == \A t \in Tx : ~Idle(t) ~> Idle(t)

-----------------------------------------------------------------------------
(* What they guarantee one at a time, and only then: no two open requests  *)
(* name the same invoice.                                                  *)

OneRequestPerInvoice ==
  \A t, u \in Tx : req[t].key # None /\ req[t].key = req[u].key => t = u

(* The stored status says how much of the total the posted payments cover. *)
(* (An invoice of total 0 is issued unpaid and nothing ever recomputes it.) *)
StatusMatchesPayments ==
  \A k \in Issued : invoice[k].status # "void" /\ Total[k] > 0
                      => invoice[k].status = StatusFor(k, Paid(k))

(* The posted payments of an invoice never exceed its total.               *)
NoOverpayment == \A k \in Issued : Paid(k) <= Total[k]

(* An invoice with a posted payment is not cancelled.                      *)
VoidHoldsNoPayment == \A k \in Issued : invoice[k].status = "void" => PostedOn(k) = {}

(* The ledger a clerk believes in: see module Ledger.                      *)
Atomic == INSTANCE Ledger WITH
            bill <- [k \in Key |-> invoice[k].status],
            receipt <- [p \in PaymentIds |->
                          [status |-> payment[p].status, key |-> payment[p].key,
                           amount |-> payment[p].amount]]

(* A single connection makes every transaction one step of that ledger.    *)
ImplementsLedger == Atomic!Spec
=============================================================================
