------------------------ MODULE InvoiceLedgerProofs ------------------------
(***************************************************************************)
(* Theorems about InvoiceLedger for every set of connections, services,    *)
(* periods, payments, amounts and requests.  The last parts add up the     *)
(* payments, and say what holds of the sums while no two open requests     *)
(* name the same invoice.                                                  *)
(***************************************************************************)
EXTENDS InvoiceLedger, FiniteSetTheorems, WellFoundedInduction, TLAPS

LEMMA StatusForStored ==
  ASSUME NEW k, NEW paid
  PROVE  StatusFor(k, paid) \in {"paid", "partial", "unpaid"}
  BY DEF StatusFor

LEMMA EndTxTyped ==
  ASSUME NEW t \in Tx, SessionsTyped, EndTx(t)
  PROVE  SessionsTyped'
  <1> USE DEF SessionsTyped, EndTx, Released, Goto
  <1>1. /\ invoiceLock' \in [Key -> Tx \cup {None}]
        /\ paymentLock' \in [PaymentIds -> Tx \cup {None}]
        /\ counterLock' \in [Counters -> Tx \cup {None}]
    OBVIOUS
  <1>2. pc' \in [Tx -> Steps]
    BY DEF Steps
  <1>3. req' \in [Tx -> Request]
    BY DEF NoRequest, Request
  <1>4. /\ snap' \in [Tx -> SUBSET PaymentIds]
        /\ seq' \in [Tx -> Nat]
        /\ todo' \in [Tx -> SUBSET Key]
    OBVIOUS
  <1>5. fresh' \in [Tx -> [Key -> Nat]]
    BY DEF NoNumbers
  <1> QED
    BY <1>1, <1>2, <1>3, <1>4, <1>5

LEMMA RefuseTyped ==
  ASSUME NEW t \in Tx, TypeOK, Refuse(t)
  PROVE  TypeOK'
  BY EndTxTyped DEF TypeOK, Refuse, TablesTyped, tables

LEMMA BeginTyped ==
  ASSUME NEW t \in Tx, TypeOK, Begin(t)
  PROVE  TypeOK'
  <1> USE DEF TypeOK, TablesTyped, SessionsTyped, tables, locks, locals, Goto
  <1>1. ASSUME NEW k \in Key, NEW p \in PaymentIds, NEW a \in Amounts,
               CreatePaymentSelect(t, k, p, a)
        PROVE  TypeOK'
    <2>1. [key |-> k, pay |-> p, amount |-> a] \in Request
      BY LedgerConstants DEF Request
    <2>2. PostedOn(k) \subseteq PaymentIds
      BY DEF PostedOn
    <2> QED
      BY <1>1, <2>1, <2>2 DEF CreatePaymentSelect, Steps
  <1>2. ASSUME NEW p \in PaymentIds, VoidPaymentBegin(t, p)
        PROVE  TypeOK'
    <2>1. [NoRequest EXCEPT !.key = payment[p].key, !.pay = p] \in Request
      BY DEF Request, NoRequest, PaymentRow
    <2> QED
      BY <1>2, <2>1 DEF VoidPaymentBegin, Steps
  <1>3. ASSUME NEW k \in Key, VoidInvoiceSelect(t, k)
        PROVE  TypeOK'
    <2>1. [NoRequest EXCEPT !.key = k] \in Request
      BY DEF Request, NoRequest
    <2>2. PostedOn(k) \subseteq PaymentIds
      BY DEF PostedOn
    <2> QED
      BY <1>3, <2>1, <2>2 DEF VoidInvoiceSelect, Steps
  <1>4. ASSUME GenerateBegin(t)
        PROVE  TypeOK'
    BY <1>4 DEF GenerateBegin, Steps
  <1> QED
    BY <1>1, <1>2, <1>3, <1>4 DEF Begin
LEMMA ProceedTyped ==
  ASSUME NEW t \in Tx, TypeOK, Proceed(t)
  PROVE  TypeOK'
  <1> USE DEF TypeOK, TablesTyped, tables, locks, locals, Goto
  <1>1. CASE CreatePaymentLock(t)
    <2>1. CASE ~(Payable(t))
      BY <1>1, <2>1, RefuseTyped DEF CreatePaymentLock
    <2>2. CASE Payable(t)
      <3>1. /\ invoiceLock' = [invoiceLock EXCEPT ![req[t].key] = t]
            /\ pc' = [pc EXCEPT ![t] = "create_number"]
            /\ UNCHANGED <<tables, paymentLock, counterLock, locals>>
        BY <1>1, <2>2 DEF CreatePaymentLock
      <3>2. invoiceLock' \in [Key -> Tx \cup {None}] /\ pc' \in [Tx -> Steps]
        BY <3>1 DEF SessionsTyped, Steps
      <3> QED
        BY <3>1, <3>2 DEF SessionsTyped
    <2> QED
      BY <2>1, <2>2
  <1>2. CASE CreatePaymentNumber(t)
    BY <1>2 DEF CreatePaymentNumber, SessionsTyped, Steps, Counters
  <1>3. CASE CreatePaymentCommit(t)
    <2>1. SessionsTyped'
      BY <1>3, EndTxTyped DEF CreatePaymentCommit
    <2>2. payment' \in [PaymentIds -> PaymentRow]
      BY <1>3 DEF CreatePaymentCommit, SessionsTyped, PaymentRow, PaymentStatus, Request
    <2>3. invoice' \in [Key -> InvoiceRow]
      BY <1>3, StatusForStored DEF CreatePaymentCommit, InvoiceRow, InvoiceStatus
    <2>4. counter' \in [Counters -> Nat]
      BY <1>3 DEF CreatePaymentCommit, SessionsTyped
    <2> QED
      BY <2>1, <2>2, <2>3, <2>4
  <1>4. CASE VoidPaymentLock(t)
    <2>1. CASE ~(payment[req[t].pay].status = "posted")
      BY <1>4, <2>1, RefuseTyped DEF VoidPaymentLock
    <2>2. CASE payment[req[t].pay].status = "posted"
      <3>1. /\ paymentLock' = [paymentLock EXCEPT ![req[t].pay] = t]
            /\ pc' = [pc EXCEPT ![t] = "void_payment_update"]
            /\ UNCHANGED <<tables, invoiceLock, counterLock, locals>>
        BY <1>4, <2>2 DEF VoidPaymentLock
      <3>2. paymentLock' \in [PaymentIds -> Tx \cup {None}] /\ pc' \in [Tx -> Steps]
        BY <3>1 DEF SessionsTyped, Steps
      <3> QED
        BY <3>1, <3>2 DEF SessionsTyped
    <2> QED
      BY <2>1, <2>2
  <1>5. CASE VoidPaymentRecompute(t)
    <2>1. CASE invoice[req[t].key].status = "void"
      <3>1. SessionsTyped'
        BY <1>5, <2>1, EndTxTyped DEF VoidPaymentRecompute
      <3>2. payment' \in [PaymentIds -> PaymentRow]
        BY <1>5, <2>1 DEF VoidPaymentRecompute, PaymentRow, PaymentStatus
      <3> QED
        BY <1>5, <2>1, <3>1, <3>2 DEF VoidPaymentRecompute
    <2>2. CASE invoice[req[t].key].status # "void"
      <3>1. PostedOn(req[t].key) \subseteq PaymentIds
        BY DEF PostedOn
      <3> QED
        BY <1>5, <2>2, <3>1 DEF VoidPaymentRecompute, SessionsTyped, Steps
    <2> QED
      BY <2>1, <2>2
  <1>6. CASE VoidPaymentCommit(t)
    <2>1. SessionsTyped'
      BY <1>6, EndTxTyped DEF VoidPaymentCommit
    <2>2. payment' \in [PaymentIds -> PaymentRow]
      BY <1>6 DEF VoidPaymentCommit, PaymentRow, PaymentStatus
    <2>3. invoice' \in [Key -> InvoiceRow]
      BY <1>6, StatusForStored DEF VoidPaymentCommit, InvoiceRow, InvoiceStatus
    <2> QED
      BY <1>6, <2>1, <2>2, <2>3 DEF VoidPaymentCommit
  <1>7. CASE VoidInvoiceDecide(t)
    <2>1. CASE ~(Voidable(t))
      BY <1>7, <2>1, RefuseTyped DEF VoidInvoiceDecide
    <2>2. CASE Voidable(t)
      <3>1. SessionsTyped'
        BY <1>7, <2>2, EndTxTyped DEF VoidInvoiceDecide
      <3>2. invoice' \in [Key -> InvoiceRow]
        BY <1>7, <2>2 DEF VoidInvoiceDecide, InvoiceRow, InvoiceStatus
      <3> QED
        BY <1>7, <2>2, <3>1, <3>2 DEF VoidInvoiceDecide
    <2> QED
      BY <2>1, <2>2
  <1>8. ASSUME NEW S \in SUBSET Services, NEW per \in Periods, GenerateLock(t, S, per)
        PROVE  TypeOK'
    <2>1. Candidates(S, per) \subseteq Key
      BY DEF Candidates, Key
    <2> QED
      BY <1>8, <2>1 DEF GenerateLock, SessionsTyped, Steps, Counters
  <1>9. ASSUME NEW k \in Key, GenerateInsert(t, k)
        PROVE  TypeOK'
    <2>1. CASE ~(invoice[k].status = "absent")
      BY <1>9, <2>1, RefuseTyped DEF GenerateInsert
    <2>2. CASE invoice[k].status = "absent"
      <3>1. /\ seq' = [seq EXCEPT ![t] = @ + 1]
            /\ fresh' = [fresh EXCEPT ![t][k] = seq[t] + 1]
            /\ todo' = [todo EXCEPT ![t] = @ \ {k}]
            /\ UNCHANGED <<tables, locks, pc, req, snap>>
        BY <1>9, <2>2 DEF GenerateInsert
      <3>2. /\ seq' \in [Tx -> Nat]
            /\ todo' \in [Tx -> SUBSET Key]
            /\ fresh' \in [Tx -> [Key -> Nat]]
        BY <3>1 DEF SessionsTyped
      <3> QED
        BY <3>1, <3>2 DEF SessionsTyped
    <2> QED
      BY <2>1, <2>2
  <1>10. CASE GenerateCommit(t)
    <2>1. SessionsTyped'
      BY <1>10, EndTxTyped DEF GenerateCommit
    <2>2. invoice' \in [Key -> InvoiceRow]
      BY <1>10 DEF GenerateCommit, InvoiceRow, InvoiceStatus, SessionsTyped
    <2>3. counter' \in [Counters -> Nat]
      BY <1>10 DEF GenerateCommit, SessionsTyped
    <2> QED
      BY <1>10, <2>1, <2>2, <2>3 DEF GenerateCommit
  <1> QED
    BY <1>1, <1>2, <1>3, <1>4, <1>5, <1>6, <1>7, <1>8, <1>9, <1>10 DEF Proceed

LEMMA TypedStep ==
  ASSUME TypeOK, [Next]_vars
  PROVE  TypeOK'
  <1>1. ASSUME NEW t \in Tx, Abort(t)
        PROVE  TypeOK'
    BY <1>1, RefuseTyped DEF Abort
  <1>2. CASE UNCHANGED vars
    BY <1>2 DEF TypeOK, TablesTyped, SessionsTyped, vars
  <1> QED
    BY <1>1, <1>2, BeginTyped, ProceedTyped DEF Next

LEMMA TypedInit == Init => TypeOK
  BY DEF Init, TypeOK, TablesTyped, SessionsTyped, InvoiceRow, InvoiceStatus, NoInvoice,
         PaymentRow, PaymentStatus, NoPayment, Request, NoRequest, NoNumbers, Steps

(* The tables keep the schema's columns and values, and every transaction  *)
(* its own state, in every reachable state.                                *)
THEOREM Typed == Spec => []TypeOK
  BY TypedInit, TypedStep, PTL DEF Spec

-----------------------------------------------------------------------------
(* The steps, with the refused branches of every handler put together: a   *)
(* step begins a request, ends one, or moves one on with its locks.        *)

Accepts(t) == CreatePaymentLock(t) /\ Payable(t)
Takes(t) == VoidPaymentLock(t) /\ payment[req[t].pay].status = "posted"
Waits(t) == VoidPaymentRecompute(t) /\ invoice[req[t].key].status # "void"
VoidsAlone(t) == VoidPaymentRecompute(t) /\ invoice[req[t].key].status = "void"
Cancels(t) == VoidInvoiceDecide(t) /\ Voidable(t)
Adds(t, k) == GenerateInsert(t, k) /\ invoice[k].status = "absent"

(* The steps that keep the transaction open.                               *)
MovesOn(t) ==
  \/ Accepts(t)
  \/ CreatePaymentNumber(t)
  \/ Takes(t)
  \/ Waits(t)
  \/ \E S \in SUBSET Services, per \in Periods : GenerateLock(t, S, per)
  \/ \E k \in Key : Adds(t, k)

(* The steps that end it with a commit.                                    *)
Commits(t) ==
  \/ CreatePaymentCommit(t)
  \/ VoidsAlone(t)
  \/ VoidPaymentCommit(t)
  \/ Cancels(t)
  \/ GenerateCommit(t)

LEMMA StepCases ==
  ASSUME NEW t \in Tx, Begin(t) \/ Proceed(t) \/ Abort(t)
  PROVE  Begin(t) \/ MovesOn(t) \/ Commits(t) \/ Refuse(t)
  <1>1. CASE Begin(t)
    BY <1>1
  <1>2. CASE Abort(t)
    BY <1>2 DEF Abort
  <1>3. CASE Proceed(t)
    <2>1. CreatePaymentLock(t) => Accepts(t) \/ Refuse(t)
      BY DEF CreatePaymentLock, Accepts
    <2>2. VoidPaymentLock(t) => Takes(t) \/ Refuse(t)
      BY DEF VoidPaymentLock, Takes
    <2>3. VoidPaymentRecompute(t) => Waits(t) \/ VoidsAlone(t)
      BY DEF Waits, VoidsAlone
    <2>4. VoidInvoiceDecide(t) => Cancels(t) \/ Refuse(t)
      BY DEF VoidInvoiceDecide, Cancels
    <2>5. \A k \in Key : GenerateInsert(t, k) => Adds(t, k) \/ Refuse(t)
      BY DEF GenerateInsert, Adds
    <2> QED
      BY <1>3, <2>1, <2>2, <2>3, <2>4, <2>5 DEF Proceed, MovesOn, Commits
  <1> QED
    BY <1>1, <1>2, <1>3

LEMMA CommitsEnd ==
  ASSUME NEW t \in Tx, Commits(t) \/ Refuse(t)
  PROVE  EndTx(t)
  BY DEF Commits, Refuse, CreatePaymentCommit, VoidsAlone, VoidPaymentRecompute,
         VoidPaymentCommit, Cancels, VoidInvoiceDecide, Voidable, GenerateCommit

(* What the end of a transaction leaves of its own state and of the others'. *)
LEMMA EndTxEffect ==
  ASSUME NEW t \in Tx, TypeOK, EndTx(t)
  PROVE  /\ pc'[t] = "idle" /\ req'[t] = NoRequest /\ todo'[t] = {} /\ fresh'[t] = NoNumbers
         /\ \A u \in Tx \ {t} :
              /\ pc'[u] = pc[u] /\ req'[u] = req[u] /\ seq'[u] = seq[u]
              /\ todo'[u] = todo[u] /\ fresh'[u] = fresh[u]
  BY DEF TypeOK, SessionsTyped, EndTx, Goto

LEMMA EndTxLocks ==
  ASSUME NEW t \in Tx, TypeOK, LocksMatchSteps, EndTx(t)
  PROVE  LocksMatchSteps'
  <1>1. /\ \A k \in Key : invoiceLock'[k] = IF invoiceLock[k] = t THEN None ELSE invoiceLock[k]
        /\ \A p \in PaymentIds : paymentLock'[p] = IF paymentLock[p] = t THEN None ELSE paymentLock[p]
        /\ \A c \in Counters : counterLock'[c] = IF counterLock[c] = t THEN None ELSE counterLock[c]
    BY DEF TypeOK, SessionsTyped, EndTx, Released
  <1>2. None \notin Tx
    BY LedgerConstants
  <1>3. {"payment_number", "invoice_number"} \subseteq Counters
    BY DEF Counters
  <1> QED
    BY <1>1, <1>2, <1>3, EndTxEffect DEF LocksMatchSteps, LocksAsStep
LEMMA BeginEffect ==
  ASSUME NEW t \in Tx, TypeOK, Begin(t)
  PROVE  /\ UNCHANGED <<tables, locks, seq, todo, fresh>>
         /\ pc[t] = "idle"
         /\ pc'[t] \in {"create_lock", "void_payment_lock", "void_invoice_lock", "generate_lock"}
         /\ \A u \in Tx \ {t} : pc'[u] = pc[u] /\ req'[u] = req[u]
  <1> USE DEF TypeOK, SessionsTyped, Goto, Idle
  <1>1. ASSUME NEW k \in Key, NEW p \in PaymentIds, NEW a \in Amounts,
               CreatePaymentSelect(t, k, p, a)
        PROVE  /\ UNCHANGED <<tables, locks, seq, todo, fresh>>
               /\ pc[t] = "idle"
               /\ pc'[t] = "create_lock"
               /\ \A u \in Tx \ {t} : pc'[u] = pc[u] /\ req'[u] = req[u]
    BY <1>1 DEF CreatePaymentSelect
  <1>2. ASSUME NEW p \in PaymentIds, VoidPaymentBegin(t, p)
        PROVE  /\ UNCHANGED <<tables, locks, seq, todo, fresh>>
               /\ pc[t] = "idle"
               /\ pc'[t] = "void_payment_lock"
               /\ \A u \in Tx \ {t} : pc'[u] = pc[u] /\ req'[u] = req[u]
    BY <1>2 DEF VoidPaymentBegin
  <1>3. ASSUME NEW k \in Key, VoidInvoiceSelect(t, k)
        PROVE  /\ UNCHANGED <<tables, locks, seq, todo, fresh>>
               /\ pc[t] = "idle"
               /\ pc'[t] = "void_invoice_lock"
               /\ \A u \in Tx \ {t} : pc'[u] = pc[u] /\ req'[u] = req[u]
    BY <1>3 DEF VoidInvoiceSelect
  <1>4. ASSUME GenerateBegin(t)
        PROVE  /\ UNCHANGED <<tables, locks, seq, todo, fresh>>
               /\ pc[t] = "idle"
               /\ pc'[t] = "generate_lock"
               /\ \A u \in Tx \ {t} : pc'[u] = pc[u] /\ req'[u] = req[u]
    BY <1>4 DEF GenerateBegin, locals
  <1> QED
    BY <1>1, <1>2, <1>3, <1>4 DEF Begin

LEMMA MovesOnEffect ==
  ASSUME NEW t \in Tx, TypeOK, MovesOn(t)
  PROVE  /\ UNCHANGED <<tables, req>>
         /\ \A u \in Tx \ {t} : /\ pc'[u] = pc[u] /\ seq'[u] = seq[u]
                                /\ todo'[u] = todo[u] /\ fresh'[u] = fresh[u]
  <1> USE DEF TypeOK, SessionsTyped, Goto, tables, locals, locks
  <1>1. CASE Accepts(t)
    BY <1>1 DEF Accepts, CreatePaymentLock
  <1>2. CASE CreatePaymentNumber(t)
    BY <1>2 DEF CreatePaymentNumber
  <1>3. CASE Takes(t)
    BY <1>3 DEF Takes, VoidPaymentLock
  <1>4. CASE Waits(t)
    BY <1>4 DEF Waits, VoidPaymentRecompute
  <1>5. CASE \E S \in SUBSET Services, per \in Periods : GenerateLock(t, S, per)
    BY <1>5 DEF GenerateLock
  <1>6. CASE \E k \in Key : Adds(t, k)
    BY <1>6 DEF Adds, GenerateInsert
  <1> QED
    BY <1>1, <1>2, <1>3, <1>4, <1>5, <1>6 DEF MovesOn

(* The lock table, step by step.                                           *)
LEMMA LocksStep ==
  ASSUME TypeOK, LocksMatchSteps, [Next]_vars
  PROVE  LocksMatchSteps'
  <1> USE LedgerConstants DEF TypeOK, SessionsTyped, tables, locks, locals, Goto
  <1>1. ASSUME NEW t \in Tx, Begin(t)
        PROVE  LocksMatchSteps'
    <2>1. /\ UNCHANGED <<invoiceLock, paymentLock, counterLock>>
          /\ pc[t] = "idle"
          /\ pc'[t] \in {"create_lock", "void_payment_lock", "void_invoice_lock", "generate_lock"}
          /\ \A u \in Tx \ {t} : pc'[u] = pc[u] /\ req'[u] = req[u]
      BY <1>1, BeginEffect
    <2>2. ASSUME NEW u \in Tx
          PROVE  LocksAsStep(u)'
      <3>1. CASE u = t
        BY <2>1, <3>1 DEF LocksMatchSteps, LocksAsStep
      <3>2. CASE u # t
        BY <2>1, <3>2 DEF LocksMatchSteps, LocksAsStep
      <3> QED
        BY <3>1, <3>2
    <2> QED
      BY <2>2 DEF LocksMatchSteps
  <1>2. ASSUME NEW t \in Tx, Commits(t) \/ Refuse(t)
        PROVE  LocksMatchSteps'
    BY <1>2, CommitsEnd, EndTxLocks
  <1>3. ASSUME NEW t \in Tx, Accepts(t)
        PROVE  LocksMatchSteps'
    BY <1>3 DEF Accepts, CreatePaymentLock, LocksMatchSteps, LocksAsStep
  <1>4. ASSUME NEW t \in Tx, CreatePaymentNumber(t)
        PROVE  LocksMatchSteps'
    BY <1>4 DEF CreatePaymentNumber, LocksMatchSteps, LocksAsStep, Counters
  <1>5. ASSUME NEW t \in Tx, Takes(t)
        PROVE  LocksMatchSteps'
    BY <1>5 DEF Takes, VoidPaymentLock, LocksMatchSteps, LocksAsStep
  <1>6. ASSUME NEW t \in Tx, Waits(t)
        PROVE  LocksMatchSteps'
    BY <1>6 DEF Waits, VoidPaymentRecompute, LocksMatchSteps, LocksAsStep
  <1>7. ASSUME NEW t \in Tx, NEW S \in SUBSET Services, NEW per \in Periods, GenerateLock(t, S, per)
        PROVE  LocksMatchSteps'
    BY <1>7 DEF GenerateLock, LocksMatchSteps, LocksAsStep, Counters
  <1>8. ASSUME NEW t \in Tx, NEW k \in Key, Adds(t, k)
        PROVE  LocksMatchSteps'
    BY <1>8 DEF Adds, GenerateInsert, LocksMatchSteps, LocksAsStep
  <1>9. CASE UNCHANGED vars
    BY <1>9 DEF vars, LocksMatchSteps, LocksAsStep
  <1> QED
    BY <1>1, <1>2, <1>3, <1>4, <1>5, <1>6, <1>7, <1>8, <1>9, StepCases DEF Next, MovesOn
-----------------------------------------------------------------------------
(* The rest of the inductive invariant.                                    *)

(* A payment is allocated to an invoice that exists.                       *)
ForeignKeys == \A p \in Taken : payment[p].key \in Issued

(* The numbers Generate has given to invoices it has not committed: they   *)
(* continue the counter without gap, each for one unbilled candidate.      *)
DraftNumbered(t) ==
  /\ pc[t] # "generate_insert" => todo[t] = {} /\ fresh[t] = NoNumbers
  /\ pc[t] = "generate_insert" =>
       /\ seq[t] >= counter["invoice_number"]
       /\ \A k \in Key : fresh[t][k] # 0 =>
            /\ k \notin todo[t]
            /\ invoice[k].status = "absent"
            /\ fresh[t][k] \in counter["invoice_number"] + 1 .. seq[t]
       /\ \A k, l \in Key : fresh[t][k] # 0 /\ fresh[t][k] = fresh[t][l] => k = l
       /\ \A n \in counter["invoice_number"] + 1 .. seq[t] : \E k \in Key : fresh[t][k] = n

DraftsNumbered == \A t \in Tx : DraftNumbered(t)

LedgerInvariant ==
  /\ TypeOK
  /\ LocksMatchSteps
  /\ ChecksStayTrue
  /\ ForeignKeys
  /\ DraftsNumbered
  /\ CandidatesStayUnbilled
  /\ NumbersGapFree

(* What a step of t can do to the tables.                                  *)
TablesMoveOn(t) ==
  /\ Issued \subseteq Issued'
  /\ \A p \in Taken : p \in Taken' /\ payment'[p].key = payment[p].key
  /\ \A p \in Taken : payment'[p] # payment[p] => paymentLock[p] = t
  /\ \A p \in Taken' \ Taken : /\ pc[t] = "create_insert" /\ req[t].pay = p
                               /\ payment'[p].key = req[t].key
  /\ \A k \in Key : Open(k) => Open(k)' \/ invoiceLock[k] \in {None, t}
  /\ \A k \in Key : invoice[k].status = "void" => invoice'[k] = invoice[k]
  /\ \A k \in Issued' \ Issued : pc[t] = "generate_insert" /\ fresh[t][k] # 0
  /\ counter'["payment_number"] # counter["payment_number"] => pc[t] = "create_insert"
  /\ counter'["invoice_number"] # counter["invoice_number"] => pc[t] = "generate_insert"

LEMMA CommitTables ==
  ASSUME NEW t \in Tx, LedgerInvariant, Commits(t)
  PROVE  TablesMoveOn(t)
  <1> USE DEF LedgerInvariant, TypeOK, TablesTyped, LocksMatchSteps, LocksAsStep,
              ChecksStayTrue, ChecksHold, Issued, Taken, Open
  <1>1. CASE CreatePaymentCommit(t)
    <2> DEFINE k == req[t].key
               p == req[t].pay
    <2>1. /\ pc[t] = "create_insert"
          /\ payment' = [payment EXCEPT ![p] = [status |-> "posted", key |-> k,
                                                amount |-> req[t].amount, number |-> seq[t]]]
          /\ counter' = [counter EXCEPT !["payment_number"] = seq[t]]
      BY <1>1 DEF CreatePaymentCommit
    <2>2. k \in Key /\ p \in PaymentIds /\ payment[p].status = "absent" /\ Open(k)
          /\ invoiceLock[k] = t
      BY <2>1
    <2>3. PICK st \in {"paid", "partial", "unpaid"} : invoice' = [invoice EXCEPT ![k].status = st]
      <3>1. invoice' = [invoice EXCEPT ![k].status =
                          StatusFor(k, SumOf(payment', PostedOn(k) \cup {p}))]
        BY <1>1, <2>2 DEF CreatePaymentCommit
      <3>2. StatusFor(k, SumOf(payment', PostedOn(k) \cup {p})) \in {"paid", "partial", "unpaid"}
        BY StatusForStored
      <3> QED
        BY <3>1, <3>2
    <2>4. \A x \in Key : x # k => invoice'[x] = invoice[x]
      BY <2>3
    <2>5. \A q \in PaymentIds : q # p => payment'[q] = payment[q]
      BY <2>1
    <2>6. invoice'[k].status # "absent" /\ payment'[p].key = k
      BY <2>1, <2>2, <2>3 DEF InvoiceRow
    <2>7. counter'["invoice_number"] = counter["invoice_number"]
      BY <2>1
    <2> HIDE DEF k, p
    <2> QED
      BY <2>1, <2>2, <2>4, <2>5, <2>6, <2>7 DEF TablesMoveOn, k, p
  <1>2. CASE VoidsAlone(t) \/ VoidPaymentCommit(t)
    <2> DEFINE k == req[t].key
               p == req[t].pay
    <2>1. /\ pc[t] \in {"void_payment_update", "void_payment_invoice"}
          /\ payment' = [payment EXCEPT ![p].status = "voided"]
          /\ counter' = counter
      BY <1>2 DEF VoidsAlone, VoidPaymentRecompute, VoidPaymentCommit
    <2>2. k \in Key /\ p \in PaymentIds /\ invoice[k].status # "absent" /\ paymentLock[p] = t
      BY <2>1
    <2>3. \/ invoice' = invoice
          \/ /\ invoice[k].status # "void"
             /\ invoiceLock[k] = None
             /\ \E st \in {"paid", "partial", "unpaid"} : invoice' = [invoice EXCEPT ![k].status = st]
      BY <1>2, <2>2, StatusForStored DEF VoidsAlone, VoidPaymentRecompute, VoidPaymentCommit
    <2>4. \A x \in Key : x # k => invoice'[x] = invoice[x]
      BY <2>3
    <2>5. \A q \in PaymentIds : q # p => payment'[q] = payment[q]
      BY <2>1
    <2>6. payment'[p].key = payment[p].key /\ payment'[p].status = "voided"
      BY <2>1, <2>2 DEF PaymentRow
    <2>7. invoice'[k].status # "absent" /\ (invoice'[k] = invoice[k] \/
            (invoiceLock[k] = None /\ invoice[k].status # "void"))
      BY <2>2, <2>3 DEF InvoiceRow
    <2> HIDE DEF k, p
    <2> QED
      BY <2>1, <2>2, <2>4, <2>5, <2>6, <2>7 DEF TablesMoveOn
  <1>3. CASE Cancels(t)
    <2> DEFINE k == req[t].key
    <2>1. /\ pc[t] = "void_invoice_lock"
          /\ invoiceLock[k] = None
          /\ invoice[k].status # "void"
          /\ invoice' = [invoice EXCEPT ![k].status = "void"]
          /\ UNCHANGED <<payment, counter>>
      BY <1>3 DEF Cancels, Voidable, VoidInvoiceDecide
    <2>2. k \in Key /\ invoice[k].status # "absent"
      BY <2>1
    <2>3. \A x \in Key : x # k => invoice'[x] = invoice[x]
      BY <2>1
    <2>4. invoice'[k].status = "void"
      BY <2>1, <2>2 DEF InvoiceRow
    <2> HIDE DEF k
    <2> QED
      BY <2>1, <2>2, <2>3, <2>4 DEF TablesMoveOn
  <1>4. CASE GenerateCommit(t)
    BY <1>4 DEF GenerateCommit, TablesMoveOn, DraftsNumbered, DraftNumbered
  <1> QED
    BY <1>1, <1>2, <1>3, <1>4 DEF Commits
LEMMA TablesStep ==
  ASSUME NEW t \in Tx, LedgerInvariant, Begin(t) \/ MovesOn(t) \/ Commits(t) \/ Refuse(t)
  PROVE  TablesMoveOn(t)
  <1>1. CASE Begin(t) \/ MovesOn(t) \/ Refuse(t)
    <2>1. UNCHANGED tables
      BY <1>1, BeginEffect, MovesOnEffect DEF LedgerInvariant, Refuse
    <2> QED
      BY <2>1 DEF tables, TablesMoveOn, Issued, Taken, Open
  <1> QED
    BY <1>1, CommitTables

(* What a transaction checked survives the steps of the others.            *)
LEMMA ChecksSurvive ==
  ASSUME LedgerInvariant, NEW t \in Tx, NEW u \in Tx \ {t}, TablesMoveOn(u),
         pc'[t] = pc[t], req'[t] = req[t], seq'[t] = seq[t],
         \A v \in Tx : v # t => req'[v].pay = req[v].pay
                                \/ req'[v].pay \in Taken \cup {None}
                                \/ \A w \in Tx : req[w].pay # req'[v].pay
  PROVE  ChecksHold(t)'
  <1> USE DEF LedgerInvariant, TypeOK, TablesTyped, SessionsTyped
  <1>1. None \notin Tx /\ None \notin PaymentIds
    BY LedgerConstants
  <1>2. ChecksHold(t) /\ ChecksHold(u) /\ LocksAsStep(t) /\ LocksAsStep(u)
    BY DEF ChecksStayTrue, LocksMatchSteps
  <1>3. ASSUME pc[t] \in {"create_lock", "create_number", "create_insert"}
        PROVE  /\ req[t].key \in Issued'
               /\ req[t].pay \in PaymentIds \ Taken'
               /\ \A v \in Tx \ {t} : req'[v].pay # req[t].pay
    <2>1. req[t].key \in Issued'
      BY <1>2, <1>3 DEF ChecksHold, TablesMoveOn
    <2>2. req[t].pay \in PaymentIds \ Taken'
      BY <1>2, <1>3 DEF ChecksHold, TablesMoveOn
    <2>3. ASSUME NEW v \in Tx \ {t}
          PROVE  req'[v].pay # req[t].pay
      BY <1>1, <1>2, <1>3, <2>3 DEF ChecksHold
    <2> QED
      BY <2>1, <2>2, <2>3
  <1>4. ASSUME pc[t] \in {"create_number", "create_insert"}
        PROVE  Open(req[t].key)'
    <2>1. invoiceLock[req[t].key] = t /\ Open(req[t].key) /\ req[t].key \in Key
      BY <1>2, <1>4 DEF ChecksHold, LocksAsStep, Issued
    <2> QED
      BY <1>1, <2>1 DEF TablesMoveOn, Open
  <1>5. ASSUME pc[t] = "create_insert"
        PROVE  seq[t] = counter'["payment_number"] + 1
    BY <1>2, <1>5 DEF ChecksHold, LocksAsStep, TablesMoveOn
  <1>6. ASSUME pc[t] \in {"void_payment_lock", "void_payment_update", "void_payment_invoice"}
        PROVE  /\ req[t].key \in Issued'
               /\ req[t].pay \in Taken'
               /\ payment'[req[t].pay].key = req[t].key
    BY <1>2, <1>6 DEF ChecksHold, TablesMoveOn
  <1>7. ASSUME pc[t] \in {"void_payment_update", "void_payment_invoice"}
        PROVE  payment'[req[t].pay].status = "posted"
    <2>1. paymentLock[req[t].pay] = t /\ req[t].pay \in Taken
      BY <1>2, <1>7 DEF ChecksHold, LocksAsStep, Taken
    <2> QED
      BY <1>2, <1>7, <2>1 DEF ChecksHold, TablesMoveOn
  <1>8. ASSUME pc[t] = "void_invoice_lock"
        PROVE  req[t].key \in Issued'
    BY <1>2, <1>8 DEF ChecksHold, TablesMoveOn
  <1> QED
    BY <1>3, <1>4, <1>5, <1>6, <1>7, <1>8 DEF ChecksHold, Open
LEMMA BeginChecks ==
  ASSUME LedgerInvariant, NEW t \in Tx, Begin(t)
  PROVE  /\ ChecksHold(t)'
         /\ \/ req'[t].pay = req[t].pay
            \/ req'[t].pay \in Taken \cup {None}
            \/ \A w \in Tx : req[w].pay # req'[t].pay
  <1> USE DEF LedgerInvariant, TypeOK, TablesTyped, SessionsTyped, Goto, tables
  <1>1. ASSUME NEW k \in Key, NEW p \in PaymentIds, NEW a \in Amounts,
               CreatePaymentSelect(t, k, p, a)
        PROVE  /\ ChecksHold(t)'
               /\ \A w \in Tx : req[w].pay # req'[t].pay
    <2>1. /\ pc'[t] = "create_lock"
          /\ req'[t] = [key |-> k, pay |-> p, amount |-> a]
          /\ \A u \in Tx \ {t} : req'[u] = req[u]
          /\ invoice' = invoice /\ payment' = payment
          /\ invoice[k].status # "absent" /\ payment[p].status = "absent"
          /\ \A u \in Tx : req[u].pay # p
      BY <1>1 DEF CreatePaymentSelect
    <2> QED
      BY <2>1 DEF ChecksHold, Issued, Taken
  <1>2. ASSUME NEW p \in PaymentIds, VoidPaymentBegin(t, p)
        PROVE  ChecksHold(t)' /\ req'[t].pay \in Taken
    <2>1. /\ pc'[t] = "void_payment_lock"
          /\ req'[t].key = payment[p].key /\ req'[t].pay = p
          /\ invoice' = invoice /\ payment' = payment
          /\ p \in Taken
      BY <1>2 DEF VoidPaymentBegin, Taken, NoRequest
    <2>2. payment[p].key \in Issued
      BY <2>1 DEF ForeignKeys
    <2> QED
      BY <2>1, <2>2 DEF ChecksHold, Issued, Taken
  <1>3. ASSUME NEW k \in Key, VoidInvoiceSelect(t, k)
        PROVE  ChecksHold(t)' /\ req'[t].pay = None
    <2>1. /\ pc'[t] = "void_invoice_lock"
          /\ req'[t].key = k /\ req'[t].pay = None
          /\ invoice' = invoice
          /\ invoice[k].status # "absent"
      BY <1>3 DEF VoidInvoiceSelect, NoRequest
    <2> QED
      BY <2>1 DEF ChecksHold, Issued
  <1>4. ASSUME GenerateBegin(t)
        PROVE  ChecksHold(t)' /\ req' = req
    BY <1>4 DEF GenerateBegin, ChecksHold, locals
  <1> QED
    BY <1>1, <1>2, <1>3, <1>4 DEF Begin

LEMMA MovesOnChecks ==
  ASSUME LedgerInvariant, NEW t \in Tx, MovesOn(t)
  PROVE  ChecksHold(t)'
  <1> USE DEF LedgerInvariant, TypeOK, TablesTyped, SessionsTyped, Goto, tables, locks, locals
  <1>1. /\ invoice' = invoice /\ payment' = payment /\ counter' = counter /\ req' = req
        /\ Issued' = Issued /\ Taken' = Taken
    BY MovesOnEffect DEF Issued, Taken
  <1>2. ChecksHold(t)
    BY DEF ChecksStayTrue
  <1>3. CASE Accepts(t)
    <2>1. pc[t] = "create_lock" /\ pc'[t] = "create_number"
      BY <1>3 DEF Accepts, CreatePaymentLock, Refuse, EndTx, Payable
    <2>2. Open(req[t].key)
      <3>1. invoice[req[t].key].status \in InvoiceStatus \ {"void", "paid", "absent"}
        BY <1>2, <1>3, <2>1 DEF Accepts, Payable, ChecksHold, Issued, InvoiceRow
      <3> QED
        BY <3>1 DEF Open, InvoiceStatus
    <2> QED
      BY <1>1, <1>2, <2>1, <2>2 DEF ChecksHold, Open
  <1>4. CASE CreatePaymentNumber(t)
    <2>1. /\ pc[t] = "create_number" /\ pc'[t] = "create_insert"
          /\ seq'[t] = counter["payment_number"] + 1
      BY <1>4 DEF CreatePaymentNumber
    <2> QED
      BY <1>1, <1>2, <2>1 DEF ChecksHold, Open
  <1>5. CASE Takes(t)
    <2>1. /\ pc[t] = "void_payment_lock" /\ pc'[t] = "void_payment_update"
          /\ payment[req[t].pay].status = "posted"
      BY <1>5 DEF Takes, VoidPaymentLock
    <2> QED
      BY <1>1, <1>2, <2>1 DEF ChecksHold, Open
  <1>6. CASE Waits(t)
    <2>1. pc[t] = "void_payment_update" /\ pc'[t] = "void_payment_invoice"
      BY <1>6 DEF Waits, VoidPaymentRecompute
    <2> QED
      BY <1>1, <1>2, <2>1 DEF ChecksHold, Open
  <1>7. CASE \E S \in SUBSET Services, per \in Periods : GenerateLock(t, S, per)
    <2>1. pc'[t] = "generate_insert"
      BY <1>7 DEF GenerateLock
    <2> QED
      BY <2>1 DEF ChecksHold
  <1>8. CASE \E k \in Key : Adds(t, k)
    <2>1. pc'[t] = "generate_insert"
      BY <1>8 DEF Adds, GenerateInsert
    <2> QED
      BY <2>1 DEF ChecksHold
  <1> QED
    BY <1>3, <1>4, <1>5, <1>6, <1>7, <1>8 DEF MovesOn

LEMMA ChecksStep ==
  ASSUME LedgerInvariant, [Next]_vars
  PROVE  ChecksStayTrue'
  <1>1. ASSUME NEW u \in Tx, Begin(u) \/ MovesOn(u) \/ Commits(u) \/ Refuse(u),
               NEW t \in Tx
        PROVE  ChecksHold(t)'
    <2>1. TablesMoveOn(u)
      BY <1>1, TablesStep
    <2>2. CASE Begin(u)
      <3>1. CASE t = u
        BY <2>2, <3>1, BeginChecks
      <3>2. CASE t # u
        <4>1. pc'[t] = pc[t] /\ req'[t] = req[t] /\ seq'[t] = seq[t]
          BY <2>2, <3>2, BeginEffect DEF LedgerInvariant
        <4>2. \A v \in Tx : v # t => req'[v].pay = req[v].pay
                                \/ req'[v].pay \in Taken \cup {None}
                                \/ \A w \in Tx : req[w].pay # req'[v].pay
          BY <2>2, BeginEffect, BeginChecks DEF LedgerInvariant
        <4> QED
          BY <2>1, <3>2, <4>1, <4>2, ChecksSurvive
      <3> QED
        BY <3>1, <3>2
    <2>3. CASE MovesOn(u)
      <3>1. CASE t = u
        BY <2>3, <3>1, MovesOnChecks
      <3>2. CASE t # u
        <4>1. pc'[t] = pc[t] /\ req' = req /\ seq'[t] = seq[t]
          BY <2>3, <3>2, MovesOnEffect DEF LedgerInvariant
        <4> QED
          BY <2>1, <3>2, <4>1, ChecksSurvive
      <3> QED
        BY <3>1, <3>2
    <2>4. CASE Commits(u) \/ Refuse(u)
      <3>1. /\ pc'[u] = "idle" /\ req'[u] = NoRequest
            /\ \A v \in Tx \ {u} : pc'[v] = pc[v] /\ req'[v] = req[v] /\ seq'[v] = seq[v]
        BY <2>4, CommitsEnd, EndTxEffect DEF LedgerInvariant
      <3>2. CASE t = u
        BY <3>1, <3>2 DEF ChecksHold
      <3>3. CASE t # u
        <4>1. \A v \in Tx : v # t => req'[v].pay = req[v].pay \/ req'[v].pay \in Taken \cup {None}
          BY <3>1 DEF NoRequest
        <4> QED
          BY <2>1, <3>1, <3>3, <4>1, ChecksSurvive
      <3> QED
        BY <3>2, <3>3
    <2> QED
      BY <1>1, <2>2, <2>3, <2>4
  <1>2. CASE UNCHANGED vars
    BY <1>2 DEF vars, LedgerInvariant, ChecksStayTrue, ChecksHold, Issued, Taken, Open
  <1> QED
    BY <1>1, <1>2, StepCases DEF Next, ChecksStayTrue

LEMMA ForeignKeysStep ==
  ASSUME LedgerInvariant, [Next]_vars
  PROVE  ForeignKeys'
  <1>1. ASSUME NEW u \in Tx, TablesMoveOn(u)
        PROVE  ForeignKeys'
    <2>1. ASSUME NEW p \in Taken'
          PROVE  payment'[p].key \in Issued'
      <3>1. CASE p \in Taken
        BY <1>1, <3>1 DEF LedgerInvariant, ForeignKeys, TablesMoveOn
      <3>2. CASE p \notin Taken
        BY <1>1, <3>2 DEF LedgerInvariant, ChecksStayTrue, ChecksHold, TablesMoveOn
      <3> QED
        BY <3>1, <3>2
    <2> QED
      BY <2>1 DEF ForeignKeys
  <1>2. CASE UNCHANGED vars
    BY <1>2 DEF vars, LedgerInvariant, ForeignKeys, Issued, Taken
  <1> QED
    BY <1>1, <1>2, StepCases, TablesStep DEF Next
LEMMA CandidatesStep ==
  ASSUME LedgerInvariant, [Next]_vars
  PROVE  CandidatesStayUnbilled'
  <1> USE DEF LedgerInvariant, TypeOK, TablesTyped, SessionsTyped
  <1>1. ASSUME NEW u \in Tx, Begin(u) \/ MovesOn(u) \/ Commits(u) \/ Refuse(u),
               NEW t \in Tx, NEW k \in todo'[t]
        PROVE  invoice'[k].status \in {"absent", "void"}
    <2>1. TablesMoveOn(u)
      BY <1>1, TablesStep
    <2>2. CASE k \in todo[t] /\ (t = u => UNCHANGED invoice)
      <3>1. pc[t] = "generate_insert" /\ k \in Key
        BY <2>2 DEF DraftsNumbered, DraftNumbered
      <3>2. invoice[k].status \in {"absent", "void"}
        BY <2>2 DEF CandidatesStayUnbilled
      <3>3. CASE t = u
        BY <2>2, <3>2, <3>3
      <3>4. CASE t # u
        <4>1. pc[u] # "generate_insert"
          BY <3>1, <3>4 DEF LocksMatchSteps, LocksAsStep
        <4> QED
          BY <2>1, <3>1, <3>2, <4>1 DEF TablesMoveOn, Issued
      <3> QED
        BY <3>3, <3>4
    <2>3. CASE Begin(u)
      BY <2>2, <2>3, BeginEffect, <1>1 DEF tables
    <2>4. CASE Commits(u) \/ Refuse(u)
      BY <1>1, <2>2, <2>4, CommitsEnd, EndTxEffect
    <2>5. CASE MovesOn(u) /\ t # u
      BY <1>1, <2>2, <2>5, MovesOnEffect
    <2>6. CASE MovesOn(u) /\ t = u
      <3>1. invoice' = invoice
        BY <2>6, MovesOnEffect DEF tables
      <3>2. CASE k \in todo[t]
        BY <2>2, <3>1, <3>2
      <3>3. CASE k \notin todo[t]
        <4>1. ASSUME NEW S \in SUBSET Services, NEW per \in Periods, GenerateLock(t, S, per)
              PROVE  invoice[k].status \in {"absent", "void"}
          BY <1>1, <4>1 DEF GenerateLock, Candidates
        <4>2. ASSUME NEW l \in Key, Adds(t, l)
              PROVE  FALSE
          BY <1>1, <3>3, <4>2 DEF Adds, GenerateInsert, Refuse, EndTx
        <4>3. Accepts(t) \/ CreatePaymentNumber(t) \/ Takes(t) \/ Waits(t) => todo' = todo
          BY DEF Accepts, CreatePaymentLock, CreatePaymentNumber, Takes, VoidPaymentLock,
                 Waits, VoidPaymentRecompute, locals
        <4> QED
          BY <1>1, <2>6, <3>1, <3>3, <4>1, <4>2, <4>3 DEF MovesOn
      <3> QED
        BY <3>2, <3>3
    <2> QED
      BY <1>1, <2>3, <2>4, <2>5, <2>6
  <1>2. CASE UNCHANGED vars
    BY <1>2 DEF vars, CandidatesStayUnbilled
  <1> QED
    BY <1>1, <1>2, StepCases DEF Next, CandidatesStayUnbilled
LEMMA AddsNumbered ==
  ASSUME LedgerInvariant, NEW t \in Tx, NEW k \in Key, Adds(t, k)
  PROVE  DraftNumbered(t)'
  <1> USE DEF LedgerInvariant, TypeOK, TablesTyped, SessionsTyped
  <1>1. /\ seq' = [seq EXCEPT ![t] = @ + 1]
        /\ fresh' = [fresh EXCEPT ![t][k] = seq[t] + 1]
        /\ todo' = [todo EXCEPT ![t] = @ \ {k}]
        /\ UNCHANGED <<invoice, counter, pc>>
        /\ k \in todo[t] /\ pc[t] = "generate_insert" /\ invoice[k].status = "absent"
    BY DEF Adds, GenerateInsert, Refuse, EndTx, tables
  <1>2. DraftNumbered(t)
    BY DEF DraftsNumbered
  <1> DEFINE last == counter["invoice_number"]
             old == fresh[t]
             new == fresh'[t]
             s == seq[t]
  <1>3. last \in Nat /\ s \in Nat /\ last' = last /\ seq'[t] = s + 1 /\ last <= s
    BY <1>1, <1>2 DEF DraftNumbered, Counters
  <1>4. new[k] = s + 1 /\ \A l \in Key \ {k} : new[l] = old[l]
    BY <1>1
  <1>5. old \in [Key -> Nat] /\ new \in [Key -> Nat]
    BY <1>1
  <1>6. old[k] = 0
    BY <1>1, <1>2 DEF DraftNumbered
  <1>7. \A l \in Key : old[l] # 0 => /\ l \notin todo[t]
                                     /\ invoice[l].status = "absent"
                                     /\ old[l] \in last + 1 .. s
    BY <1>1, <1>2 DEF DraftNumbered
  <1>8. \A l, m \in Key : old[l] # 0 /\ old[l] = old[m] => l = m
    BY <1>1, <1>2 DEF DraftNumbered
  <1>9. \A n \in last + 1 .. s : \E l \in Key : old[l] = n
    BY <1>1, <1>2 DEF DraftNumbered
  <1>10. todo'[t] = todo[t] \ {k}
    BY <1>1
  <1> HIDE DEF last, old, new, s
  <1>11. \A l \in Key : new[l] # 0 => /\ l \notin todo'[t]
                                      /\ invoice[l].status = "absent"
                                      /\ new[l] \in last + 1 .. s + 1
    <2> TAKE l \in Key
    <2>1. CASE l = k
      BY <1>1, <1>3, <1>4, <1>10, <2>1
    <2>2. CASE l # k
      BY <1>3, <1>4, <1>5, <1>7, <1>10, <2>2
    <2> QED
      BY <2>1, <2>2
  <1>12. \A l, m \in Key : new[l] # 0 /\ new[l] = new[m] => l = m
    <2> TAKE l, m \in Key
    <2>1. CASE l # k /\ m # k
      BY <1>4, <1>8, <2>1
    <2>2. CASE l = k /\ m # k
      BY <1>3, <1>4, <1>5, <1>7, <2>2
    <2>3. CASE l # k /\ m = k
      BY <1>3, <1>4, <1>5, <1>7, <2>3
    <2>4. CASE l = k /\ m = k
      BY <2>4
    <2> QED
      BY <2>1, <2>2, <2>3, <2>4
  <1>13. \A n \in last + 1 .. s + 1 : \E l \in Key : new[l] = n
    <2> TAKE n \in last + 1 .. s + 1
    <2>1. CASE n = s + 1
      BY <1>4, <2>1
    <2>2. CASE n # s + 1
      <3>1. n \in last + 1 .. s
        BY <1>3, <2>2
      <3>2. PICK l \in Key : old[l] = n
        BY <1>9, <3>1
      <3>3. l # k
        BY <1>3, <1>6, <3>1, <3>2
      <3> QED
        BY <1>4, <3>2, <3>3
    <2> QED
      BY <2>1, <2>2
  <1> QED
    BY <1>1, <1>3, <1>11, <1>12, <1>13 DEF DraftNumbered, last, new, s

LEMMA DraftsStep ==
  ASSUME LedgerInvariant, [Next]_vars
  PROVE  DraftsNumbered'
  <1> USE DEF LedgerInvariant, TypeOK, TablesTyped, SessionsTyped
  <1>1. ASSUME NEW u \in Tx, Begin(u) \/ MovesOn(u) \/ Commits(u) \/ Refuse(u),
               NEW t \in Tx
        PROVE  DraftNumbered(t)'
    <2>1. DraftNumbered(t)
      BY DEF DraftsNumbered
    <2>2. CASE Begin(u)
      <3>1. UNCHANGED <<invoice, counter, seq, todo, fresh>>
        BY <2>2, BeginEffect DEF tables
      <3>2. pc'[t] = pc[t] \/ (pc[t] # "generate_insert" /\ pc'[t] # "generate_insert")
        BY <2>2, BeginEffect
      <3> QED
        BY <2>1, <3>1, <3>2 DEF DraftNumbered
    <2>3. CASE t # u /\ ~Begin(u)
      <3>1. pc'[t] = pc[t] /\ seq'[t] = seq[t] /\ todo'[t] = todo[t] /\ fresh'[t] = fresh[t]
        BY <1>1, <2>3, MovesOnEffect, CommitsEnd, EndTxEffect
      <3>2. CASE pc[t] # "generate_insert"
        BY <2>1, <3>1, <3>2 DEF DraftNumbered
      <3>3. CASE pc[t] = "generate_insert"
        <4>1. pc[u] # "generate_insert"
          BY <2>3, <3>3 DEF LocksMatchSteps, LocksAsStep
        <4>2. /\ counter'["invoice_number"] = counter["invoice_number"]
              /\ Issued' \subseteq Issued
          BY <1>1, <4>1, TablesStep DEF TablesMoveOn
        <4>3. \A k \in Key : invoice[k].status = "absent" => invoice'[k].status = "absent"
          BY <4>2 DEF Issued
        <4> QED
          BY <2>1, <3>1, <3>3, <4>2, <4>3 DEF DraftNumbered
      <3> QED
        BY <3>2, <3>3
    <2>4. CASE t = u /\ (Commits(u) \/ Refuse(u))
      BY <2>4, CommitsEnd, EndTxEffect DEF DraftNumbered
    <2>5. CASE t = u /\ MovesOn(u)
      <3>1. ASSUME NEW S \in SUBSET Services, NEW per \in Periods, GenerateLock(t, S, per)
            PROVE  DraftNumbered(t)'
        <4>1. /\ pc[t] = "generate_lock" /\ pc'[t] = "generate_insert"
              /\ seq'[t] = counter["invoice_number"]
              /\ fresh' = fresh /\ counter' = counter
          BY <3>1 DEF GenerateLock, Goto, tables
        <4>2. \A k \in Key : fresh'[t][k] = 0
          BY <2>1, <4>1 DEF DraftNumbered, NoNumbers
        <4>3. counter["invoice_number"] \in Nat
          BY DEF Counters
        <4> QED
          BY <4>1, <4>2, <4>3 DEF DraftNumbered
      <3>2. ASSUME NEW k \in Key, Adds(t, k)
            PROVE  DraftNumbered(t)'
        BY <3>2, AddsNumbered
      <3>3. Accepts(t) \/ CreatePaymentNumber(t) \/ Takes(t) \/ Waits(t) => DraftNumbered(t)'
        <4>1. Accepts(t) \/ CreatePaymentNumber(t) \/ Takes(t) \/ Waits(t)
              => /\ todo' = todo /\ fresh' = fresh
                 /\ pc[t] # "generate_insert" /\ pc'[t] # "generate_insert"
          BY DEF Accepts, CreatePaymentLock, CreatePaymentNumber, Takes, VoidPaymentLock,
                 Waits, VoidPaymentRecompute, locals, Goto, Refuse, EndTx
        <4> QED
          BY <2>1, <4>1 DEF DraftNumbered
      <3> QED
        BY <2>5, <3>1, <3>2, <3>3 DEF MovesOn
    <2> QED
      BY <1>1, <2>2, <2>3, <2>4, <2>5
  <1>2. CASE UNCHANGED vars
    BY <1>2 DEF vars, DraftsNumbered, DraftNumbered
  <1> QED
    BY <1>1, <1>2, StepCases DEF Next, DraftsNumbered
LEMMA PaymentsNumberedStep ==
  ASSUME LedgerInvariant, NEW t \in Tx, CreatePaymentCommit(t)
  PROVE  PaymentsNumbered'
  <1> USE DEF LedgerInvariant, TypeOK, TablesTyped, SessionsTyped
  <1> DEFINE p == req[t].pay
             last == counter["payment_number"]
  <1>1. /\ pc[t] = "create_insert" /\ p \in PaymentIds \ Taken /\ seq[t] = last + 1
    BY DEF CreatePaymentCommit, ChecksStayTrue, ChecksHold
  <1>2. /\ payment'[p].number = last + 1 /\ payment'[p].status = "posted"
        /\ \A q \in PaymentIds \ {p} : payment'[q] = payment[q]
        /\ counter'["payment_number"] = last + 1
    BY <1>1 DEF CreatePaymentCommit, Counters
  <1>3. last \in Nat
    BY DEF Counters
  <1>4. Taken' = Taken \cup {p}
    BY <1>1, <1>2 DEF Taken
  <1>5. \A q \in Taken : q # p /\ payment'[q].number = payment[q].number
                         /\ payment[q].number \in 1 .. last
    BY <1>1, <1>2 DEF NumbersGapFree, PaymentsNumbered, Taken
  <1> HIDE DEF p, last
  <1>6. \A q \in Taken' : payment'[q].number \in 1 .. last + 1
    BY <1>2, <1>3, <1>4, <1>5
  <1>7. \A n \in 1 .. last + 1 : \E q \in Taken' : payment'[q].number = n
    <2> TAKE n \in 1 .. last + 1
    <2>1. CASE n = last + 1
      BY <1>2, <1>4, <2>1
    <2>2. CASE n # last + 1
      <3>1. n \in 1 .. last
        BY <1>3, <2>2
      <3>2. PICK q \in Taken : payment[q].number = n
        BY <3>1 DEF NumbersGapFree, PaymentsNumbered, last
      <3> QED
        BY <1>4, <1>5, <3>2
    <2> QED
      BY <2>1, <2>2
  <1>8. \A q, r \in Taken' : payment'[q].number = payment'[r].number => q = r
    <2> TAKE q, r \in Taken'
    <2>1. CASE q \in Taken /\ r \in Taken
      BY <1>5, <2>1 DEF NumbersGapFree, PaymentsNumbered
    <2>2. CASE q = p /\ r \in Taken
      BY <1>2, <1>3, <1>5, <2>2
    <2>3. CASE q \in Taken /\ r = p
      BY <1>2, <1>3, <1>5, <2>3
    <2> QED
      BY <1>4, <2>1, <2>2, <2>3
  <1> QED
    BY <1>2, <1>6, <1>7, <1>8 DEF PaymentsNumbered

LEMMA InvoicesNumberedStep ==
  ASSUME LedgerInvariant, NEW t \in Tx, GenerateCommit(t)
  PROVE  InvoicesNumbered'
  <1> USE DEF LedgerInvariant, TypeOK, TablesTyped, SessionsTyped
  <1> DEFINE new == fresh[t]
             last == counter["invoice_number"]
             s == seq[t]
  <1>1. /\ pc[t] = "generate_insert"
        /\ counter'["invoice_number"] = s
        /\ \A k \in Key : new[k] = 0 => invoice'[k] = invoice[k]
        /\ \A k \in Key : new[k] # 0 => invoice'[k].number = new[k] /\ invoice'[k].status = "unpaid"
    BY DEF GenerateCommit, Counters
  <1>2. /\ last \in Nat /\ s \in Nat /\ last <= s
        /\ new \in [Key -> Nat]
        /\ \A k \in Key : new[k] # 0 => new[k] \in last + 1 .. s /\ invoice[k].status = "absent"
        /\ \A k, l \in Key : new[k] # 0 /\ new[k] = new[l] => k = l
        /\ \A n \in last + 1 .. s : \E k \in Key : new[k] = n
    BY <1>1 DEF DraftsNumbered, DraftNumbered, Counters
  <1>3. /\ \A k \in Issued : invoice[k].number \in 1 .. last
        /\ \A n \in 1 .. last : \E k \in Issued : invoice[k].number = n
        /\ \A k, l \in Issued : invoice[k].number = invoice[l].number => k = l
    BY DEF NumbersGapFree, InvoicesNumbered
  <1> HIDE DEF new, last, s
  <1>4. Issued \subseteq Key /\ \A k \in Issued : new[k] = 0
    BY <1>2 DEF Issued
  <1>5. Issued' = Issued \cup {k \in Key : new[k] # 0}
    BY <1>1, <1>2 DEF Issued
  <1>6. \A k \in Issued : invoice'[k] = invoice[k]
    BY <1>1, <1>4
  <1>7. \A k \in Issued' : invoice'[k].number \in 1 .. s
    BY <1>1, <1>2, <1>3, <1>5, <1>6
  <1>8. \A n \in 1 .. s : \E k \in Issued' : invoice'[k].number = n
    <2> TAKE n \in 1 .. s
    <2>1. CASE n \in 1 .. last
      BY <1>3, <1>5, <1>6, <2>1
    <2>2. CASE n \notin 1 .. last
      <3>1. n \in last + 1 .. s
        BY <1>2, <2>2
      <3>2. PICK k \in Key : new[k] = n
        BY <1>2, <3>1
      <3>3. new[k] # 0
        BY <1>2, <3>1, <3>2
      <3> QED
        BY <1>1, <1>5, <3>2, <3>3
    <2> QED
      BY <2>1, <2>2
  <1>9. \A k, l \in Issued' : invoice'[k].number = invoice'[l].number => k = l
    <2> TAKE k, l \in Issued'
    <2>1. CASE k \in Issued /\ l \in Issued
      BY <1>3, <1>6, <2>1
    <2>2. CASE k \in Issued /\ l \notin Issued
      BY <1>1, <1>2, <1>3, <1>5, <1>6, <2>2
    <2>3. CASE k \notin Issued /\ l \in Issued
      BY <1>1, <1>2, <1>3, <1>5, <1>6, <2>3
    <2>4. CASE k \notin Issued /\ l \notin Issued
      BY <1>1, <1>2, <1>5, <2>4
    <2> QED
      BY <2>1, <2>2, <2>3, <2>4
  <1> QED
    BY <1>1, <1>7, <1>8, <1>9 DEF InvoicesNumbered, s

(* A commit that only changes statuses leaves the numbers as they were.    *)
LEMMA NumbersKept ==
  ASSUME LedgerInvariant,
         Issued' = Issued, \A k \in Issued : invoice'[k].number = invoice[k].number,
         counter'["invoice_number"] = counter["invoice_number"]
  PROVE  InvoicesNumbered'
  BY DEF LedgerInvariant, NumbersGapFree, InvoicesNumbered

LEMMA PaymentNumbersKept ==
  ASSUME LedgerInvariant,
         Taken' = Taken, \A p \in Taken : payment'[p].number = payment[p].number,
         counter'["payment_number"] = counter["payment_number"]
  PROVE  PaymentsNumbered'
  BY DEF LedgerInvariant, NumbersGapFree, PaymentsNumbered

(* Every commit but Generate's writes at most the status of one invoice.   *)
LEMMA StatusWrite ==
  ASSUME LedgerInvariant, NEW t \in Tx,
         CreatePaymentCommit(t) \/ VoidsAlone(t) \/ VoidPaymentCommit(t) \/ Cancels(t)
  PROVE  \A k \in Issued : invoice'[k].number = invoice[k].number
  <1> USE DEF LedgerInvariant, TypeOK, TablesTyped
  <1>1. \/ invoice' = invoice
        \/ \E st : invoice' = [invoice EXCEPT ![req[t].key].status = st]
    <2>1. CASE CreatePaymentCommit(t)
      BY <2>1 DEF CreatePaymentCommit
    <2>2. CASE VoidsAlone(t)
      BY <2>2 DEF VoidsAlone, VoidPaymentRecompute
    <2>3. CASE VoidPaymentCommit(t)
      BY <2>3 DEF VoidPaymentCommit
    <2>4. CASE Cancels(t)
      BY <2>4 DEF Cancels, VoidInvoiceDecide
    <2> QED
      BY <2>1, <2>2, <2>3, <2>4
  <1> QED
    BY <1>1 DEF Issued, InvoiceRow

LEMMA NumbersStep ==
  ASSUME LedgerInvariant, [Next]_vars
  PROVE  NumbersGapFree'
  <1> USE DEF LedgerInvariant, TypeOK, TablesTyped, SessionsTyped
  <1>1. ASSUME NEW t \in Tx, Begin(t) \/ MovesOn(t) \/ Refuse(t)
        PROVE  NumbersGapFree'
    <2>1. UNCHANGED tables
      BY <1>1, BeginEffect, MovesOnEffect DEF Refuse
    <2> QED
      BY <2>1 DEF tables, NumbersGapFree, InvoicesNumbered, PaymentsNumbered, Issued, Taken
  <1>2. ASSUME NEW t \in Tx, Commits(t)
        PROVE  NumbersGapFree'
    <2>1. TablesMoveOn(t)
      BY <1>2, CommitTables
    <2>2. CASE CreatePaymentCommit(t)
      <3>1. pc[t] = "create_insert" /\ counter'["invoice_number"] = counter["invoice_number"]
        BY <2>2 DEF CreatePaymentCommit
      <3>2. Issued' = Issued
        BY <2>1, <3>1 DEF TablesMoveOn
      <3> QED
        BY <2>2, <3>1, <3>2, StatusWrite, NumbersKept, PaymentsNumberedStep DEF NumbersGapFree
    <2>3. CASE VoidsAlone(t) \/ VoidPaymentCommit(t) \/ Cancels(t)
      <3>1. pc[t] \notin {"create_insert", "generate_insert"} /\ counter' = counter
        BY <2>3 DEF VoidsAlone, VoidPaymentRecompute, VoidPaymentCommit, Cancels,
                    VoidInvoiceDecide, Voidable
      <3>2. Issued' = Issued /\ Taken' = Taken
        BY <2>1, <3>1 DEF TablesMoveOn
      <3>3. \/ payment' = payment
            \/ payment' = [payment EXCEPT ![req[t].pay].status = "voided"]
        BY <2>3 DEF VoidsAlone, VoidPaymentRecompute, VoidPaymentCommit, Cancels,
                    VoidInvoiceDecide, Voidable
      <3>4. \A p \in Taken : payment'[p].number = payment[p].number
        <4>1. CASE payment' = payment
          BY <4>1
        <4>2. CASE payment' = [payment EXCEPT ![req[t].pay].status = "voided"]
          <5> TAKE p \in Taken
          <5>1. p \in PaymentIds /\ payment[p] \in PaymentRow
            BY DEF Taken
          <5>2. payment'[p] = payment[p] \/ payment'[p] = [payment[p] EXCEPT !.status = "voided"]
            BY <4>2, <5>1
          <5> QED
            BY <5>1, <5>2 DEF PaymentRow
        <4> QED
          BY <3>3, <4>1, <4>2
      <3> QED
        BY <2>3, <3>1, <3>2, <3>4, StatusWrite, NumbersKept, PaymentNumbersKept DEF NumbersGapFree
    <2>4. CASE GenerateCommit(t)
      <3>1. payment' = payment /\ counter'["payment_number"] = counter["payment_number"]
        BY <2>4 DEF GenerateCommit
      <3>2. Taken' = Taken
        BY <3>1 DEF Taken
      <3> QED
        BY <2>4, <3>1, <3>2, InvoicesNumberedStep, PaymentNumbersKept DEF NumbersGapFree
    <2> QED
      BY <1>2, <2>2, <2>3, <2>4 DEF Commits
  <1>3. CASE UNCHANGED vars
    BY <1>3 DEF vars, NumbersGapFree, InvoicesNumbered, PaymentsNumbered, Issued, Taken
  <1> QED
    BY <1>1, <1>2, <1>3, StepCases DEF Next

-----------------------------------------------------------------------------
LEMMA LedgerInit == Init => LedgerInvariant
  <1> SUFFICES ASSUME Init PROVE LedgerInvariant
    OBVIOUS
  <1> USE DEF Init
  <1>1. TypeOK
    BY TypedInit
  <1>2. LocksMatchSteps
    BY LedgerConstants DEF LocksMatchSteps, LocksAsStep, Counters
  <1>3. Issued = {} /\ Taken = {}
    BY DEF Issued, Taken, NoInvoice, NoPayment
  <1>4. ChecksStayTrue /\ ForeignKeys
    BY <1>3 DEF ChecksStayTrue, ChecksHold, ForeignKeys
  <1>5. DraftsNumbered /\ CandidatesStayUnbilled
    BY DEF DraftsNumbered, DraftNumbered, CandidatesStayUnbilled
  <1>6. NumbersGapFree
    BY <1>3 DEF NumbersGapFree, InvoicesNumbered, PaymentsNumbered, Counters
  <1> QED
    BY <1>1, <1>2, <1>4, <1>5, <1>6 DEF LedgerInvariant

LEMMA LedgerStep ==
  ASSUME LedgerInvariant, [Next]_vars
  PROVE  LedgerInvariant'
  BY TypedStep, LocksStep, ChecksStep, ForeignKeysStep, DraftsStep, CandidatesStep, NumbersStep
     DEF LedgerInvariant

THEOREM LedgerInvariantHolds == Spec => []LedgerInvariant
  BY LedgerInit, LedgerStep, PTL DEF Spec

(* Invoice numbers and payment numbers are exactly 1 .. the counter, each  *)
(* used once, whatever requests overlap, fail or are cut short.            *)
THEOREM NumbersAreGapFree == Spec => []NumbersGapFree
  <1>1. LedgerInvariant => NumbersGapFree
    BY DEF LedgerInvariant
  <1> QED
    BY <1>1, LedgerInvariantHolds, PTL

(* Row locks are held by the transactions whose step needs them, and what  *)
(* those transactions checked still holds at every later statement.        *)
THEOREM LockedRowsStayAsChecked == Spec => [](LocksMatchSteps /\ ChecksStayTrue)
  <1>1. LedgerInvariant => LocksMatchSteps /\ ChecksStayTrue
    BY DEF LedgerInvariant
  <1> QED
    BY <1>1, LedgerInvariantHolds, PTL

(* Two Generates never race for the same service and period.               *)
THEOREM GeneratesDoNotRace == Spec => []CandidatesStayUnbilled
  <1>1. LedgerInvariant => CandidatesStayUnbilled
    BY DEF LedgerInvariant
  <1> QED
    BY <1>1, LedgerInvariantHolds, PTL

(* A payment only ever lands on an invoice that is unpaid or partial at    *)
(* the moment it is committed.                                             *)
THEOREM PaymentsLandOnOpenInvoices == Spec => ClosedTakesNoPayment
  <1>1. LedgerInvariant /\ [Next]_vars
        => [\A p \in PaymentIds \ Taken : p \in Taken' => Open(payment'[p].key)]_vars
    <2> SUFFICES ASSUME LedgerInvariant, Next, NEW p \in PaymentIds \ Taken, p \in Taken'
                 PROVE  Open(payment'[p].key)
      BY DEF Taken
    <2>1. PICK t \in Tx : TablesMoveOn(t)
      BY StepCases, TablesStep DEF Next
    <2>2. pc[t] = "create_insert" /\ payment'[p].key = req[t].key
      BY <2>1 DEF TablesMoveOn
    <2> QED
      BY <2>2 DEF LedgerInvariant, ChecksStayTrue, ChecksHold
  <1> QED
    BY <1>1, LedgerInvariantHolds, PTL DEF Spec, ClosedTakesNoPayment

(* A void invoice and a voided payment keep their rows for ever.           *)
THEOREM VoidsAreFinal == Spec => VoidIsFinal
  <1>1. LedgerInvariant /\ [Next]_vars
        => [/\ \A k \in Key : invoice[k].status = "void" => invoice'[k] = invoice[k]
            /\ \A p \in PaymentIds : payment[p].status = "voided" => payment'[p] = payment[p]]_vars
    <2> SUFFICES ASSUME LedgerInvariant, Next
                 PROVE  /\ \A k \in Key : invoice[k].status = "void" => invoice'[k] = invoice[k]
                        /\ \A p \in PaymentIds : payment[p].status = "voided" => payment'[p] = payment[p]
      OBVIOUS
    <2>1. PICK t \in Tx : TablesMoveOn(t)
      BY StepCases, TablesStep DEF Next
    <2>2. ASSUME NEW p \in PaymentIds, payment[p].status = "voided", payment'[p] # payment[p]
          PROVE  FALSE
      <3>1. p \in Taken /\ paymentLock[p] = t
        BY <2>1, <2>2 DEF TablesMoveOn, Taken
      <3>2. payment[p].status = "posted"
        BY <3>1 DEF LedgerInvariant, LocksMatchSteps, LocksAsStep, ChecksStayTrue, ChecksHold
      <3> QED
        BY <2>2, <3>2
    <2> QED
      BY <2>1, <2>2 DEF TablesMoveOn
  <1> QED
    BY <1>1, LedgerInvariantHolds, PTL DEF Spec, VoidIsFinal

-----------------------------------------------------------------------------
(* The library's induction is used by its least elements: a set of numbers *)
(* has a least one, and so a family of finite sets a smallest one.         *)
Below == {mn \in Nat \X Nat : mn[1] < mn[2]}

LEMMA LeastNumber ==
  ASSUME NEW N \in SUBSET Nat, N # {}
  PROVE  \E n \in N : \A m \in N : n <= m
  <1>1. OpToRel(<, Nat) = Below
    BY DEF OpToRel, Below
  <1>2. IsWellFoundedOn(Below, Nat)
    BY <1>1, NatLessThanWellFounded, Zenon
  <1>3. \E n \in N : \A m \in N : <<m, n>> \notin Below
    BY <1>2, WFMin
  <1>4. PICK n \in N : \A m \in N : <<m, n>> \notin Below
    BY <1>3
  <1>5. ASSUME NEW m \in N
        PROVE  n <= m
    <2>1. m \in Nat /\ n \in Nat /\ <<m, n>> \notin Below
      BY <1>4
    <2>2. ~ (m < n)
      BY <2>1 DEF Below
    <2> QED
      BY <2>1, <2>2
  <1> QED
    BY <1>5

LEMMA SmallestSet ==
  ASSUME NEW F, F # {}, \A S \in F : IsFiniteSet(S)
  PROVE  \E S \in F : \A T \in F : Cardinality(S) <= Cardinality(T)
  <1> DEFINE N == {Cardinality(S) : S \in F}
  <1>1. N \in SUBSET Nat /\ N # {}
    BY FS_CardinalityType
  <1>2. PICK n \in N : \A m \in N : n <= m
    BY <1>1, LeastNumber
  <1> QED
    BY <1>2

(* What SumOf does with a set of payments: it takes them one by one.       *)
Pick(S) == CHOOSE p \in S : TRUE

Solves(pays, F, f) ==
  f = [S \in F |-> IF S = {} THEN 0 ELSE pays[Pick(S)].amount + f[S \ {Pick(S)}]]

Sums(pays, S) == CHOOSE f : Solves(pays, SUBSET S, f)

LEMMA SumOfIs ==
  ASSUME NEW pays, NEW S
  PROVE  SumOf(pays, S) = Sums(pays, S)[S]
  BY DEF SumOf, MapThenSumSet, MapThenFoldSet, Sums, Solves, Pick

LEMMA PickIn ==
  ASSUME NEW S, S # {}
  PROVE  Pick(S) \in S
  BY DEF Pick

LEMMA WithoutPick ==
  ASSUME NEW S, IsFiniteSet(S), S # {}
  PROVE  /\ IsFiniteSet(S \ {Pick(S)})
         /\ Cardinality(S) \in Nat \ {0}
         /\ Cardinality(S \ {Pick(S)}) = Cardinality(S) - 1
  BY PickIn, FS_RemoveElement, FS_EmptySet, FS_CardinalityType

(* The recursion has a solution: one for the sets of up to n payments      *)
(* gives one for those of up to n + 1.                                     *)
LEMMA SumsExist ==
  ASSUME NEW pays, NEW S, IsFiniteSet(S)
  PROVE  \E f : Solves(pays, SUBSET S, f)
  <1> DEFINE Upto(n) == {T \in SUBSET S : Cardinality(T) <= n}
             None0 == {n \in Nat : ~ \E f : Solves(pays, Upto(n), f)}
  <1>1. \A T \in SUBSET S : IsFiniteSet(T) /\ Cardinality(T) \in Nat
    BY FS_Subset, FS_CardinalityType
  <1>2. ASSUME NEW n \in Nat, NEW g, n > 0, Solves(pays, Upto(n - 1), g)
        PROVE  \E f : Solves(pays, Upto(n), f)
    <2> DEFINE f == [T \in Upto(n) |->
                      IF T = {} THEN 0 ELSE pays[Pick(T)].amount + g[T \ {Pick(T)}]]
    <2>1. ASSUME NEW T \in Upto(n), T # {}
          PROVE  f[T \ {Pick(T)}] = g[T \ {Pick(T)}]
      <3>1. T \ {Pick(T)} \in Upto(n - 1) /\ T \ {Pick(T)} \in Upto(n)
        <4>1. Cardinality(T) \in Nat /\ Cardinality(T \ {Pick(T)}) = Cardinality(T) - 1
          BY <1>1, <2>1, WithoutPick
        <4> QED
          BY <4>1, <2>1
      <3> HIDE DEF Upto
      <3>2. f[T \ {Pick(T)}] = IF T \ {Pick(T)} = {} THEN 0
              ELSE pays[Pick(T \ {Pick(T)})].amount
                     + g[(T \ {Pick(T)}) \ {Pick(T \ {Pick(T)})}]
        BY <3>1
      <3>3. g[T \ {Pick(T)}] = IF T \ {Pick(T)} = {} THEN 0
              ELSE pays[Pick(T \ {Pick(T)})].amount
                     + g[(T \ {Pick(T)}) \ {Pick(T \ {Pick(T)})}]
        BY <3>1, <1>2 DEF Solves
      <3> QED
        BY <3>2, <3>3
    <2>2. Solves(pays, Upto(n), f)
      <3> HIDE DEF Upto
      <3> QED
        BY <2>1 DEF Solves
    <2> QED
      BY <2>2
  <1>3. ASSUME NEW n \in None0
        PROVE  \E m \in None0 : m < n
    <2>1. CASE n = 0
      <3> DEFINE f == [T \in Upto(0) |-> 0]
      <3>1. \A T \in Upto(0) : T = {}
        BY <1>1, FS_EmptySet
      <3> HIDE DEF Upto
      <3>2. Solves(pays, Upto(0), f)
        BY <3>1 DEF Solves
      <3> QED
        BY <3>2, <1>3, <2>1
    <2>2. CASE n # 0
      <3> HIDE DEF Upto
      <3>1. n - 1 \in Nat /\ n > 0
        BY <1>3, <2>2
      <3>2. n - 1 \in None0
        BY <1>2, <1>3, <3>1
      <3> QED
        BY <3>1, <3>2
    <2> QED
      BY <2>1, <2>2
  <1>4. None0 = {}
    <2>1. None0 \in SUBSET Nat
      OBVIOUS
    <2> HIDE DEF None0
    <2> QED
      BY <1>3, <2>1, LeastNumber
  <1>5. Cardinality(S) \in Nat /\ Upto(Cardinality(S)) = SUBSET S
    BY <1>1, FS_Subset
  <1>6. \E f : Solves(pays, Upto(Cardinality(S)), f)
    <2> HIDE DEF Upto
    <2> QED
      BY <1>4, <1>5
  <1> QED
    BY <1>5, <1>6, Zenon

LEMMA SumsSolve ==
  ASSUME NEW pays, NEW S, IsFiniteSet(S)
  PROVE  Solves(pays, SUBSET S, Sums(pays, S))
  BY SumsExist DEF Sums

SameAmounts(pays, qays, S) == \A p \in S : pays[p].amount = qays[p].amount

(* Two solutions agree on the sets both know, if the amounts do.           *)
LEMMA SumsAgree ==
  ASSUME NEW pays, NEW qays, NEW S, IsFiniteSet(S), NEW T \in SUBSET S,
         SameAmounts(pays, qays, T)
  PROVE  Sums(pays, S)[T] = Sums(qays, T)[T]
  <1> DEFINE f == Sums(pays, S)
             g == Sums(qays, T)
  <1>0. IsFiniteSet(T) /\ Solves(pays, SUBSET S, f) /\ Solves(qays, SUBSET T, g)
    BY FS_Subset, SumsSolve
  <1> HIDE DEF f, g
  <1> DEFINE Differ == {U \in SUBSET T : f[U] # g[U]}
  <1>1. \A U \in Differ : IsFiniteSet(U) /\ Cardinality(U) \in Nat
    BY <1>0, FS_Subset, FS_CardinalityType
  <1>2. ASSUME NEW U \in Differ
        PROVE  \E V \in Differ : ~ (Cardinality(U) <= Cardinality(V))
    <2>1. /\ f[U] = IF U = {} THEN 0 ELSE pays[Pick(U)].amount + f[U \ {Pick(U)}]
          /\ g[U] = IF U = {} THEN 0 ELSE qays[Pick(U)].amount + g[U \ {Pick(U)}]
      BY <1>0 DEF Solves
    <2>2. U # {}
      BY <2>1
    <2>3. Pick(U) \in T /\ U \ {Pick(U)} \in SUBSET T
      BY <2>2, PickIn
    <2>4. U \ {Pick(U)} \in Differ
      BY <2>1, <2>2, <2>3 DEF SameAmounts
    <2>5. Cardinality(U \ {Pick(U)}) = Cardinality(U) - 1
      BY <1>1, <2>2, WithoutPick
    <2> QED
      BY <1>1, <2>4, <2>5
  <1>3. Differ = {}
    <2> HIDE DEF Differ
    <2> QED
      BY <1>1, <1>2, SmallestSet
  <1> QED
    BY <1>3 DEF f, g

(* SumOf of no payments, of one more, and of the same amounts in another   *)
(* table.                                                                  *)
LEMMA SumOfNone ==
  ASSUME NEW pays
  PROVE  SumOf(pays, {}) = 0
  <1>1. Solves(pays, SUBSET {}, Sums(pays, {}))
    BY SumsSolve, FS_EmptySet
  <1> QED
    BY <1>1, SumOfIs DEF Solves

LEMMA SumOfSame ==
  ASSUME NEW pays, NEW qays, NEW S, IsFiniteSet(S), SameAmounts(pays, qays, S)
  PROVE  SumOf(pays, S) = SumOf(qays, S)
  <1>1. S \in SUBSET S
    OBVIOUS
  <1>2. Sums(pays, S)[S] = Sums(qays, S)[S]
    BY <1>1, SumsAgree
  <1> QED
    BY <1>2, SumOfIs

LEMMA SumOfPick ==
  ASSUME NEW pays, NEW S, IsFiniteSet(S), S # {}
  PROVE  SumOf(pays, S) = pays[Pick(S)].amount + SumOf(pays, S \ {Pick(S)})
  <1> DEFINE T == S \ {Pick(S)}
  <1>1. Sums(pays, S)[S] = pays[Pick(S)].amount + Sums(pays, S)[T]
    <2>1. Solves(pays, SUBSET S, Sums(pays, S))
      BY SumsSolve
    <2> QED
      BY <2>1 DEF Solves
  <1>2. T \in SUBSET S /\ SameAmounts(pays, pays, T)
    BY DEF SameAmounts
  <1> HIDE DEF T
  <1>3. Sums(pays, S)[T] = Sums(pays, T)[T]
    BY <1>2, SumsAgree
  <1> QED
    BY <1>1, <1>3, SumOfIs DEF T

Counted(pays, S) == IsFiniteSet(S) /\ \A p \in S : pays[p].amount \in Nat

LEMMA SumOfNat ==
  ASSUME NEW pays, NEW S, Counted(pays, S)
  PROVE  SumOf(pays, S) \in Nat
  <1> DEFINE Odd == {T \in SUBSET S : SumOf(pays, T) \notin Nat}
  <1>1. \A T \in Odd : IsFiniteSet(T) /\ Cardinality(T) \in Nat
    BY FS_Subset, FS_CardinalityType DEF Counted
  <1>2. ASSUME NEW T \in Odd
        PROVE  \E U \in Odd : ~ (Cardinality(T) <= Cardinality(U))
    <2>1. T # {}
      BY SumOfNone
    <2>2. SumOf(pays, T) = pays[Pick(T)].amount + SumOf(pays, T \ {Pick(T)})
      BY <1>1, <2>1, SumOfPick
    <2>3. pays[Pick(T)].amount \in Nat /\ T \ {Pick(T)} \in SUBSET S
      BY <2>1, PickIn DEF Counted
    <2>4. T \ {Pick(T)} \in Odd
      BY <2>2, <2>3
    <2>5. Cardinality(T \ {Pick(T)}) = Cardinality(T) - 1
      BY <1>1, <2>1, WithoutPick
    <2> QED
      BY <1>1, <2>4, <2>5
  <1>3. Odd = {}
    <2> HIDE DEF Odd
    <2> QED
      BY <1>1, <1>2, SmallestSet
  <1> QED
    BY <1>3

LEMMA SumOfOneMore ==
  ASSUME NEW pays, NEW S, Counted(pays, S), NEW x \in S
  PROVE  SumOf(pays, S) = pays[x].amount + SumOf(pays, S \ {x})
  <1> DEFINE Splits(T, y) == SumOf(pays, T) = pays[y].amount + SumOf(pays, T \ {y})
             Odd == {T \in SUBSET S : \E y \in T : ~Splits(T, y)}
  <1>1. \A T \in SUBSET S : IsFiniteSet(T) /\ Cardinality(T) \in Nat
    BY FS_Subset, FS_CardinalityType DEF Counted
  <1>2. ASSUME NEW T \in Odd
        PROVE  \E U \in Odd : ~ (Cardinality(T) <= Cardinality(U))
    <2>1. PICK y \in T : ~Splits(T, y)
      OBVIOUS
    <2> DEFINE z == Pick(T)
               V == (T \ {y}) \ {z}
    <2>2. T \in SUBSET S /\ IsFiniteSet(T) /\ z \in T
      BY <1>1, <2>1, PickIn
    <2>3. Splits(T, z)
      BY <2>1, <2>2, SumOfPick
    <2> HIDE DEF z
    <2>4. y # z
      BY <2>1, <2>3
    <2>5. V = (T \ {z}) \ {y}
      OBVIOUS
    <2>6. SumOf(pays, V) \in Nat /\ pays[y].amount \in Nat /\ pays[z].amount \in Nat
      <3>1. Counted(pays, V)
        BY <2>2, FS_Subset DEF Counted
      <3> QED
        BY <2>1, <2>2, <3>1, SumOfNat DEF Counted
    <2>7. ~ (Splits(T \ {z}, y) /\ Splits(T \ {y}, z))
      <3> SUFFICES ASSUME Splits(T \ {z}, y), Splits(T \ {y}, z)
                   PROVE  FALSE
        OBVIOUS
      <3>1. /\ SumOf(pays, T) = pays[z].amount + SumOf(pays, T \ {z})
            /\ SumOf(pays, T \ {z}) = pays[y].amount + SumOf(pays, V)
            /\ SumOf(pays, T \ {y}) = pays[z].amount + SumOf(pays, V)
        BY <2>3, <2>5
      <3>2. SumOf(pays, T) = pays[y].amount + SumOf(pays, T \ {y})
        BY <2>6, <3>1
      <3> QED
        BY <2>1, <3>2
    <2>8. T \ {z} \in Odd \/ T \ {y} \in Odd
      BY <2>1, <2>2, <2>4, <2>7
    <2>9. /\ Cardinality(T \ {z}) = Cardinality(T) - 1
          /\ Cardinality(T \ {y}) = Cardinality(T) - 1
      BY <2>1, <2>2, FS_RemoveElement
    <2>10. \A U \in SUBSET S : Cardinality(U) = Cardinality(T) - 1
                               => ~ (Cardinality(T) <= Cardinality(U))
      BY <1>1, <2>2
    <2>11. T \ {z} \in SUBSET S /\ T \ {y} \in SUBSET S
      BY <2>2
    <2> QED
      BY <2>8, <2>9, <2>10, <2>11
  <1>3. Odd = {}
    <2>1. \A T \in Odd : IsFiniteSet(T) /\ Cardinality(T) \in Nat
      BY <1>1
    <2> HIDE DEF Odd
    <2> QED
      BY <1>2, <2>1, SmallestSet
  <1> QED
    BY <1>3

-----------------------------------------------------------------------------
(* What the requests know of their invoices while no two name the same:    *)
(* the posted payments a statement saw are still the posted payments, and  *)
(* an accepted amount is still within what is left to pay.                 *)
Creating == {"create_lock", "create_number", "create_insert"}

SnapshotCurrent(t) ==
  /\ pc[t] \in Creating \cup {"void_invoice_lock"} => snap[t] = PostedOn(req[t].key)
  /\ pc[t] = "void_payment_invoice" => snap[t] = PostedOn(req[t].key) \ {req[t].pay}

Affordable(t) ==
  /\ pc[t] \in Creating => req[t].amount \in Amounts
  /\ pc[t] \in {"create_number", "create_insert"} =>
       req[t].amount + Paid(req[t].key) <= Total[req[t].key]

SessionsCurrent == \A t \in Tx : SnapshotCurrent(t) /\ Affordable(t)

UnusedRows == \A p \in PaymentIds \ Taken : payment[p] = NoPayment

(* The books: finitely many payments, and what they say of each invoice.   *)
Books ==
  /\ IsFiniteSet(Taken)
  /\ UnusedRows
  /\ NoOverpayment
  /\ StatusMatchesPayments
  /\ VoidHoldsNoPayment

SerialInvariant == LedgerInvariant /\ SessionsCurrent /\ Books

-----------------------------------------------------------------------------
(* Sums of posted payments are numbers.                                    *)
LEMMA PostedFinite ==
  ASSUME TypeOK, IsFiniteSet(Taken), NEW k \in Key
  PROVE  /\ PostedOn(k) \subseteq Taken
         /\ Counted(payment, PostedOn(k))
         /\ Paid(k) \in Nat
  <1>1. PostedOn(k) \subseteq Taken
    BY DEF PostedOn, Taken
  <1>2. IsFiniteSet(PostedOn(k))
    BY <1>1, FS_Subset
  <1>3. Counted(payment, PostedOn(k))
    BY <1>2 DEF PostedOn, TypeOK, TablesTyped, PaymentRow, Counted
  <1> QED
    BY <1>1, <1>2, <1>3, SumOfNat DEF Paid

(* What the payments of the invoice l are, and their sum, does not change  *)
(* when no payment on l changes.                                           *)
LEMMA PaidKept ==
  ASSUME TypeOK, IsFiniteSet(Taken), NEW l \in Key, PostedOn(l)' = PostedOn(l),
         \A p \in PostedOn(l) : payment'[p].amount = payment[p].amount
  PROVE  Paid(l)' = Paid(l)
  <1>1. IsFiniteSet(PostedOn(l)) /\ SameAmounts(payment', payment, PostedOn(l))
    BY PostedFinite DEF SameAmounts, Counted
  <1>2. SumOf(payment', PostedOn(l)) = SumOf(payment, PostedOn(l))
    BY <1>1, SumOfSame
  <1> QED
    BY <1>2 DEF Paid

(* A payment posted on k, or taken from it, changes the sum of k by its    *)
(* amount and no other sum.                                                *)
LEMMA OneMorePosted ==
  ASSUME TypeOK, IsFiniteSet(Taken), NEW k \in Key, NEW p \in PaymentIds \ Taken,
         NEW row, row.status = "posted", row.key = k, row.amount \in Nat,
         payment' = [payment EXCEPT ![p] = row]
  PROVE  /\ \A l \in Key \ {k} : PostedOn(l)' = PostedOn(l) /\ Paid(l)' = Paid(l)
         /\ PostedOn(k)' = PostedOn(k) \cup {p}
         /\ Paid(k)' = row.amount + Paid(k)
  <1>1. /\ payment'[p] = row
        /\ \A q \in PaymentIds \ {p} : payment'[q] = payment[q]
    BY DEF TypeOK, TablesTyped
  <1>2. \A l \in Key : p \notin PostedOn(l) /\ PostedOn(l) \subseteq PaymentIds
    BY DEF PostedOn, Taken
  <1>3. PostedOn(k)' = PostedOn(k) \cup {p}
    BY <1>1 DEF PostedOn
  <1>4. \A l \in Key \ {k} : PostedOn(l)' = PostedOn(l)
    BY <1>1, <1>2 DEF PostedOn
  <1>5. \A l \in Key : SameAmounts(payment', payment, PostedOn(l))
    BY <1>1, <1>2 DEF SameAmounts
  <1>6. \A l \in Key : SumOf(payment', PostedOn(l)) = Paid(l)
    BY <1>5, PostedFinite, SumOfSame DEF Paid, Counted
  <1>7. Counted(payment', PostedOn(k) \cup {p})
    BY <1>1, <1>2, PostedFinite, FS_AddElement DEF Counted
  <1>8. (PostedOn(k) \cup {p}) \ {p} = PostedOn(k)
    BY <1>2
  <1>9. SumOf(payment', PostedOn(k) \cup {p})
          = payment'[p].amount + SumOf(payment', (PostedOn(k) \cup {p}) \ {p})
    <2>1. p \in PostedOn(k) \cup {p}
      OBVIOUS
    <2>2. PICK pays : pays = payment'
      OBVIOUS
    <2>3. Counted(pays, PostedOn(k) \cup {p})
      BY <1>7, <2>2
    <2>4. SumOf(pays, PostedOn(k) \cup {p})
            = pays[p].amount + SumOf(pays, (PostedOn(k) \cup {p}) \ {p})
      BY <2>1, <2>3, SumOfOneMore
    <2> QED
      BY <2>2, <2>4
  <1>10. Paid(k)' = row.amount + Paid(k)
    BY <1>1, <1>3, <1>6, <1>8, <1>9 DEF Paid
  <1>11. \A l \in Key \ {k} : Paid(l)' = Paid(l)
    BY <1>4, <1>6 DEF Paid
  <1> QED
    BY <1>3, <1>4, <1>10, <1>11

LEMMA OneLessPosted ==
  ASSUME TypeOK, IsFiniteSet(Taken), NEW k \in Key, NEW p \in PostedOn(k),
         payment' = [payment EXCEPT ![p].status = "voided"]
  PROVE  /\ \A l \in Key \ {k} : PostedOn(l)' = PostedOn(l) /\ Paid(l)' = Paid(l)
         /\ PostedOn(k)' = PostedOn(k) \ {p}
         /\ Paid(k) = payment[p].amount + Paid(k)'
         /\ Paid(k)' = SumOf(payment, PostedOn(k) \ {p})
  <1>1. p \in PaymentIds /\ payment[p].key = k /\ payment[p].status = "posted"
    BY DEF PostedOn
  <1>2. /\ payment'[p].status = "voided"
        /\ \A q \in PaymentIds \ {p} : payment'[q] = payment[q]
    BY <1>1 DEF TypeOK, TablesTyped, PaymentRow
  <1>3. \A l \in Key \ {k} : p \notin PostedOn(l) /\ PostedOn(l) \subseteq PaymentIds
    BY <1>1 DEF PostedOn
  <1>4. PostedOn(k)' = PostedOn(k) \ {p}
    BY <1>1, <1>2 DEF PostedOn
  <1>5. \A l \in Key \ {k} : PostedOn(l)' = PostedOn(l)
    BY <1>1, <1>2, <1>3 DEF PostedOn
  <1>6. ASSUME NEW l \in Key \ {k}
        PROVE  Paid(l)' = Paid(l)
    <2>1. \A q \in PostedOn(l) : payment'[q].amount = payment[q].amount
      BY <1>2, <1>3
    <2> QED
      BY <1>5, <2>1, PaidKept
  <1>7. Counted(payment, PostedOn(k)) /\ PostedOn(k) \subseteq PaymentIds
    BY PostedFinite DEF PostedOn
  <1>8. /\ IsFiniteSet(PostedOn(k) \ {p})
        /\ SameAmounts(payment', payment, PostedOn(k) \ {p})
    BY <1>2, <1>7, FS_Subset DEF Counted, SameAmounts
  <1>9. Paid(k)' = SumOf(payment, PostedOn(k) \ {p})
    BY <1>4, <1>8, SumOfSame DEF Paid
  <1>10. Paid(k) = payment[p].amount + SumOf(payment, PostedOn(k) \ {p})
    BY <1>7, SumOfOneMore DEF Paid
  <1> QED
    BY <1>4, <1>5, <1>6, <1>9, <1>10

(* The commits of a serial state, in the ledger's terms.                   *)
Received(k, p, a, n) ==
  /\ Open(k)
  /\ payment' = [payment EXCEPT ![p] = [status |-> "posted", key |-> k,
                                        amount |-> a, number |-> n]]
  /\ \A l \in Key \ {k} : PostedOn(l)' = PostedOn(l) /\ Paid(l)' = Paid(l)
  /\ PostedOn(k)' = PostedOn(k) \cup {p}
  /\ Paid(k)' = a + Paid(k)
  /\ Paid(k)' <= Total[k]
  /\ invoice' = [invoice EXCEPT ![k].status = StatusFor(k, Paid(k)')]

Receives(t) ==
  \E k \in Key, p \in PaymentIds \ Taken, a \in Amounts, n \in Nat :
    k = req[t].key /\ Received(k, p, a, n)

LEMMA CreateReceives ==
  ASSUME SerialInvariant, NEW t \in Tx, CreatePaymentCommit(t)
  PROVE  Receives(t)
  <1>1. TypeOK /\ IsFiniteSet(Taken)
    BY DEF SerialInvariant, LedgerInvariant, Books
  <1>2. /\ pc[t] = "create_insert" /\ req[t].key \in Key
        /\ req[t].pay \in PaymentIds \ Taken /\ Open(req[t].key)
    BY DEF CreatePaymentCommit, SerialInvariant, LedgerInvariant, ChecksStayTrue, ChecksHold, Issued
  <1>3. /\ req[t].amount \in Amounts /\ seq[t] \in Nat
        /\ req[t].amount + Paid(req[t].key) <= Total[req[t].key]
    BY <1>1, <1>2 DEF SerialInvariant, SessionsCurrent, Affordable, Creating, TypeOK, SessionsTyped
  <1>4. PICK k \in Key, p \in PaymentIds \ Taken, a \in Amounts, n \in Nat :
          k = req[t].key /\ p = req[t].pay /\ a = req[t].amount /\ n = seq[t]
    BY <1>2, <1>3
  <1> DEFINE row == [status |-> "posted", key |-> k, amount |-> a, number |-> n]
  <1>5. payment' = [payment EXCEPT ![p] = row]
    BY <1>4 DEF CreatePaymentCommit
  <1>6. row.status = "posted" /\ row.key = k /\ row.amount = a /\ a \in Nat
    BY LedgerConstants
  <1> HIDE DEF row
  <1>7. /\ \A l \in Key \ {k} : PostedOn(l)' = PostedOn(l) /\ Paid(l)' = Paid(l)
        /\ PostedOn(k)' = PostedOn(k) \cup {p}
        /\ Paid(k)' = a + Paid(k)
    BY <1>1, <1>5, <1>6, OneMorePosted
  <1>8. invoice' = [invoice EXCEPT ![k].status = StatusFor(k, Paid(k)')]
    <2>1. invoice[k].status # "void"
      BY <1>2, <1>4 DEF Open
    <2> QED
      BY <1>4, <1>7, <2>1 DEF CreatePaymentCommit, Paid
  <1>9. Paid(k)' <= Total[k] /\ Open(k)
    BY <1>2, <1>3, <1>4, <1>7
  <1> QED
    BY <1>4, <1>5, <1>7, <1>8, <1>9 DEF Receives, Received, row

TakenBack(k, p) ==
  /\ payment' = [payment EXCEPT ![p].status = "voided"]
  /\ \A l \in Key \ {k} : PostedOn(l)' = PostedOn(l) /\ Paid(l)' = Paid(l)
  /\ PostedOn(k)' = PostedOn(k) \ {p}
  /\ Paid(k) = payment[p].amount + Paid(k)'
  /\ invoice[k].status \notin {"absent", "void"}
  /\ invoice' = [invoice EXCEPT ![k].status = StatusFor(k, Paid(k)')]

TakesBack(t) ==
  \E k \in Key : \E p \in PostedOn(k) : k = req[t].key /\ TakenBack(k, p)

LEMMA VoidTakesBack ==
  ASSUME SerialInvariant, NEW t \in Tx, VoidPaymentCommit(t)
  PROVE  TakesBack(t)
  <1>1. TypeOK /\ IsFiniteSet(Taken)
    BY DEF SerialInvariant, LedgerInvariant, Books
  <1>2. /\ pc[t] = "void_payment_invoice" /\ req[t].key \in Issued /\ req[t].pay \in PaymentIds
        /\ payment[req[t].pay].key = req[t].key /\ payment[req[t].pay].status = "posted"
    BY DEF VoidPaymentCommit, SerialInvariant, LedgerInvariant, ChecksStayTrue, ChecksHold, Taken
  <1>3. PICK k \in Key, p \in PaymentIds : k = req[t].key /\ p = req[t].pay
    BY <1>2 DEF Issued
  <1>4. p \in PostedOn(k) /\ invoice[k].status \notin {"absent", "void"}
    BY <1>2, <1>3 DEF PostedOn, Issued, SerialInvariant, Books, VoidHoldsNoPayment
  <1>5. snap[t] = PostedOn(k) \ {p}
    BY <1>2, <1>3 DEF SerialInvariant, SessionsCurrent, SnapshotCurrent
  <1>6. payment' = [payment EXCEPT ![p].status = "voided"]
    BY <1>3 DEF VoidPaymentCommit
  <1>7. /\ \A l \in Key \ {k} : PostedOn(l)' = PostedOn(l) /\ Paid(l)' = Paid(l)
        /\ PostedOn(k)' = PostedOn(k) \ {p}
        /\ Paid(k) = payment[p].amount + Paid(k)'
        /\ Paid(k)' = SumOf(payment, PostedOn(k) \ {p})
    BY <1>1, <1>4, <1>6, OneLessPosted
  <1>8. invoice' = [invoice EXCEPT ![k].status = StatusFor(k, Paid(k)')]
    BY <1>3, <1>4, <1>5, <1>7 DEF VoidPaymentCommit
  <1> QED
    BY <1>3, <1>4, <1>6, <1>7, <1>8 DEF TakesBack, TakenBack

Cancelled(k) ==
  /\ invoice[k].status # "void"
  /\ PostedOn(k) = {}
  /\ invoice' = [invoice EXCEPT ![k].status = "void"]
  /\ payment' = payment

CancelsIt(t) == \E k \in Issued : k = req[t].key /\ Cancelled(k)

LEMMA CancelsUnpaid ==
  ASSUME SerialInvariant, NEW t \in Tx, Cancels(t)
  PROVE  CancelsIt(t)
  <1>1. /\ pc[t] = "void_invoice_lock" /\ Voidable(t)
        /\ invoice' = [invoice EXCEPT ![req[t].key].status = "void"]
        /\ payment' = payment
    BY DEF Cancels, VoidInvoiceDecide
  <1>2. req[t].key \in Issued /\ snap[t] = PostedOn(req[t].key)
    BY <1>1 DEF SerialInvariant, LedgerInvariant, ChecksStayTrue, ChecksHold,
                SessionsCurrent, SnapshotCurrent
  <1> QED
    BY <1>1, <1>2 DEF CancelsIt, Cancelled, Voidable

Bills(t) ==
  LET K == {k \in Key : fresh[t][k] # 0}
  IN
  /\ \A k \in K : invoice[k].status = "absent"
  /\ \A k \in Key : invoice'[k].status = IF k \in K THEN "unpaid" ELSE invoice[k].status
  /\ invoice' \in [Key -> InvoiceRow]
  /\ payment' = payment

LEMMA GenerateBills ==
  ASSUME SerialInvariant, NEW t \in Tx, GenerateCommit(t)
  PROVE  Bills(t)
  <1>1. /\ pc[t] = "generate_insert" /\ payment' = payment
        /\ invoice' = [k \in Key |-> IF fresh[t][k] = 0 THEN invoice[k]
                               ELSE [status |-> "unpaid", number |-> fresh[t][k]]]
    BY DEF GenerateCommit
  <1>2. \A k \in Key : fresh[t][k] # 0 => invoice[k].status = "absent"
    BY <1>1 DEF SerialInvariant, LedgerInvariant, DraftsNumbered, DraftNumbered
  <1>3. fresh[t] \in [Key -> Nat] /\ invoice \in [Key -> InvoiceRow]
    BY DEF SerialInvariant, LedgerInvariant, TypeOK, TablesTyped, SessionsTyped
  <1>4. invoice' \in [Key -> InvoiceRow]
    BY <1>1, <1>3 DEF InvoiceRow, InvoiceStatus
  <1> QED
    BY <1>1, <1>2, <1>4 DEF Bills

(* Only a payment of a void invoice is voided alone, and there is none.    *)
LEMMA NothingVoidsAlone ==
  ASSUME SerialInvariant, NEW t \in Tx
  PROVE  ~ VoidsAlone(t)
  <1> SUFFICES ASSUME VoidsAlone(t) PROVE FALSE
    OBVIOUS
  <1>1. pc[t] = "void_payment_update" /\ invoice[req[t].key].status = "void"
    BY DEF VoidsAlone, VoidPaymentRecompute
  <1>2. /\ req[t].key \in Issued /\ req[t].pay \in PaymentIds
        /\ payment[req[t].pay].key = req[t].key /\ payment[req[t].pay].status = "posted"
    BY <1>1 DEF SerialInvariant, LedgerInvariant, ChecksStayTrue, ChecksHold, Taken
  <1> QED
    BY <1>1, <1>2 DEF SerialInvariant, Books, VoidHoldsNoPayment, PostedOn

LEMMA SerialCommits ==
  ASSUME SerialInvariant, NEW t \in Tx, Commits(t)
  PROVE  Receives(t) \/ TakesBack(t) \/ CancelsIt(t) \/ Bills(t)
  BY CreateReceives, VoidTakesBack, CancelsUnpaid, GenerateBills, NothingVoidsAlone DEF Commits

-----------------------------------------------------------------------------
(* The books stay right at every commit.                                   *)
LEMMA ReceivesBooks ==
  ASSUME SerialInvariant, NEW t \in Tx, Receives(t)
  PROVE  Books'
  <1> USE DEF SerialInvariant, LedgerInvariant, TypeOK, TablesTyped, Books
  <1>1. PICK k \in Key, p \in PaymentIds \ Taken, a \in Amounts, n \in Nat : Received(k, p, a, n)
    BY DEF Receives
  <1>2. /\ payment'[p].status = "posted"
        /\ \A q \in PaymentIds \ {p} : payment'[q] = payment[q]
        /\ invoice'[k].status = StatusFor(k, Paid(k)')
        /\ \A l \in Key \ {k} : invoice'[l] = invoice[l]
    BY <1>1 DEF Received, InvoiceRow
  <1>3. Taken' = Taken \cup {p}
    BY <1>2 DEF Taken
  <1>4. k \in Issued /\ Issued' = Issued
    BY <1>1, <1>2, StatusForStored DEF Issued, Received, Open
  <1>5. IsFiniteSet(Taken)'
    BY <1>3, FS_AddElement
  <1>6. UnusedRows'
    BY <1>2, <1>3 DEF UnusedRows
  <1>7. NoOverpayment'
    BY <1>1, <1>4 DEF NoOverpayment, Received, Issued
  <1>8. StatusMatchesPayments'
    BY <1>1, <1>2, <1>4 DEF StatusMatchesPayments, Received, Issued
  <1>9. VoidHoldsNoPayment'
    BY <1>1, <1>2, <1>4, StatusForStored DEF VoidHoldsNoPayment, Received, Issued
  <1> QED
    BY <1>5, <1>6, <1>7, <1>8, <1>9

LEMMA TakesBackBooks ==
  ASSUME SerialInvariant, NEW t \in Tx, TakesBack(t)
  PROVE  Books'
  <1> USE DEF SerialInvariant, LedgerInvariant, TypeOK, TablesTyped, Books
  <1>0. PICK k \in Key : \E p \in PostedOn(k) : TakenBack(k, p)
    BY DEF TakesBack
  <1>1. PICK p \in PostedOn(k) : TakenBack(k, p)
    BY <1>0
  <1>2. p \in Taken /\ p \in PaymentIds
    BY DEF PostedOn, Taken
  <1>3. /\ payment'[p].status = "voided"
        /\ \A q \in PaymentIds \ {p} : payment'[q] = payment[q]
        /\ invoice'[k].status = StatusFor(k, Paid(k)')
        /\ \A l \in Key \ {k} : invoice'[l] = invoice[l]
    BY <1>1, <1>2 DEF TakenBack, InvoiceRow, PaymentRow
  <1>4. Taken' = Taken
    BY <1>2, <1>3 DEF Taken
  <1>5. k \in Issued /\ Issued' = Issued
    BY <1>1, <1>3, StatusForStored DEF Issued, TakenBack
  <1>6. UnusedRows'
    BY <1>2, <1>3, <1>4 DEF UnusedRows
  <1>7. Paid(k)' <= Total[k]
    <2>1. Paid(k) \in Nat /\ Paid(k) <= Total[k] /\ Total[k] \in Nat
      BY <1>5, PostedFinite, LedgerConstants DEF NoOverpayment
    <2>2. payment[p].amount \in Nat
      BY <1>2 DEF PaymentRow
    <2>3. PostedOn(k)' = PostedOn(k) \ {p} /\ Paid(k) = payment[p].amount + Paid(k)'
      BY <1>1 DEF TakenBack
    <2>4. Paid(k)' \in Nat
      <3>1. IsFiniteSet(PostedOn(k)')
        BY <2>3, PostedFinite, FS_Subset DEF Counted
      <3>2. \A q \in PostedOn(k)' : payment'[q] = payment[q] /\ payment[q].amount \in Nat
        BY <1>3, <2>3 DEF PostedOn, PaymentRow
      <3>3. Counted(payment', PostedOn(k)')
        BY <3>1, <3>2 DEF Counted
      <3> QED
        BY <3>3, SumOfNat DEF Paid
    <2> QED
      BY <2>1, <2>2, <2>3, <2>4
  <1>8. NoOverpayment'
    BY <1>1, <1>5, <1>7 DEF NoOverpayment, TakenBack, Issued
  <1>9. StatusMatchesPayments'
    BY <1>1, <1>3, <1>5 DEF StatusMatchesPayments, TakenBack, Issued
  <1>10. VoidHoldsNoPayment'
    BY <1>1, <1>3, <1>5, StatusForStored DEF VoidHoldsNoPayment, TakenBack, Issued
  <1> QED
    BY <1>4, <1>6, <1>8, <1>9, <1>10

(* A commit without a payment: the sums stay, and only statuses move.      *)
LEMMA SumsStay ==
  ASSUME payment' = payment
  PROVE  /\ Taken' = Taken
         /\ UnusedRows' = UnusedRows
         /\ \A l \in Key : PostedOn(l)' = PostedOn(l) /\ Paid(l)' = Paid(l)
  BY DEF Taken, UnusedRows, PostedOn, Paid

LEMMA CancelsBooks ==
  ASSUME SerialInvariant, NEW t \in Tx, CancelsIt(t)
  PROVE  Books'
  <1> USE DEF SerialInvariant, LedgerInvariant, TypeOK, TablesTyped, Books
  <1>1. PICK k \in Issued : Cancelled(k)
    BY DEF CancelsIt
  <1>2. /\ k \in Key /\ invoice'[k].status = "void" /\ PostedOn(k) = {}
        /\ \A l \in Key \ {k} : invoice'[l] = invoice[l]
    BY <1>1 DEF Cancelled, InvoiceRow, Issued
  <1>3. Issued' = Issued
    BY <1>1, <1>2 DEF Issued
  <1>4. /\ Taken' = Taken
        /\ UnusedRows' = UnusedRows
        /\ \A l \in Key : PostedOn(l)' = PostedOn(l) /\ Paid(l)' = Paid(l)
    BY <1>1, SumsStay DEF Cancelled
  <1>5. NoOverpayment'
    BY <1>3, <1>4 DEF NoOverpayment, Issued
  <1>6. StatusMatchesPayments'
    BY <1>2, <1>3, <1>4 DEF StatusMatchesPayments, Issued
  <1>7. VoidHoldsNoPayment'
    BY <1>2, <1>3, <1>4 DEF VoidHoldsNoPayment, Issued
  <1> QED
    BY <1>4, <1>5, <1>6, <1>7

LEMMA BillsBooks ==
  ASSUME SerialInvariant, NEW t \in Tx, Bills(t)
  PROVE  Books'
  <1> USE DEF SerialInvariant, LedgerInvariant, TypeOK, TablesTyped, Books
  <1> DEFINE K == {k \in Key : fresh[t][k] # 0}
  <1>1. /\ Taken' = Taken
        /\ UnusedRows' = UnusedRows
        /\ \A l \in Key : PostedOn(l)' = PostedOn(l) /\ Paid(l)' = Paid(l)
    BY SumsStay DEF Bills
  <1>2. /\ \A k \in K : invoice[k].status = "absent"
        /\ \A k \in K : invoice'[k].status = "unpaid"
        /\ \A k \in Key \ K : invoice'[k].status = invoice[k].status
    BY DEF Bills
  <1>3. \A k \in K : Paid(k) = 0 /\ Total[k] \in Nat
    <2> TAKE k \in K
    <2>1. \A p \in PaymentIds : payment[p].status = "posted" => payment[p].key # k
      BY <1>2 DEF ForeignKeys, Taken, Issued
    <2>2. PostedOn(k) = {}
      BY <2>1 DEF PostedOn
    <2> QED
      BY <2>2, SumOfNone, LedgerConstants DEF Paid
  <1> HIDE DEF K
  <1>4. K \subseteq Key /\ Issued' = Issued \cup K
    BY <1>2 DEF Issued, K
  <1>5. NoOverpayment'
    BY <1>1, <1>3, <1>4 DEF NoOverpayment, Issued
  <1>6. StatusMatchesPayments'
    BY <1>1, <1>2, <1>3, <1>4 DEF StatusMatchesPayments, Issued, StatusFor
  <1>7. VoidHoldsNoPayment'
    BY <1>1, <1>2, <1>4 DEF VoidHoldsNoPayment, Issued
  <1> QED
    BY <1>1, <1>5, <1>6, <1>7

LEMMA BooksStep ==
  ASSUME SerialInvariant, [Next]_vars
  PROVE  Books'
  <1>1. ASSUME NEW t \in Tx, Commits(t)
        PROVE  Books'
    BY <1>1, SerialCommits, ReceivesBooks, TakesBackBooks, CancelsBooks, BillsBooks
  <1>2. CASE UNCHANGED <<invoice, payment>>
    BY <1>2, SumsStay DEF SerialInvariant, Books, Issued, NoOverpayment,
       StatusMatchesPayments, VoidHoldsNoPayment
  <1>3. ASSUME NEW t \in Tx, Begin(t) \/ MovesOn(t) \/ Refuse(t)
        PROVE  UNCHANGED <<invoice, payment>>
    BY <1>3, BeginEffect, MovesOnEffect DEF Refuse, tables, SerialInvariant, LedgerInvariant
  <1> QED
    BY <1>1, <1>2, <1>3, StepCases DEF Next, vars

-----------------------------------------------------------------------------
(* A commit leaves the invoices it does not name, and their payments, as   *)
(* they were.                                                              *)
LEMMA OtherInvoices ==
  ASSUME SerialInvariant, NEW t \in Tx, Commits(t), NEW l \in Key, l # req[t].key
  PROVE  PostedOn(l)' = PostedOn(l) /\ Paid(l)' = Paid(l)
  <1>1. CASE Receives(t)
    BY <1>1 DEF Receives, Received
  <1>2. CASE TakesBack(t)
    BY <1>2 DEF TakesBack, TakenBack
  <1>3. CASE CancelsIt(t) \/ Bills(t)
    BY <1>3, SumsStay DEF CancelsIt, Cancelled, Bills
  <1> QED
    BY <1>1, <1>2, <1>3, SerialCommits

(* The steps of one request keep what another knows.                       *)
LEMMA OthersCurrent ==
  ASSUME SerialInvariant, OneRequestPerInvoice, NEW t \in Tx, NEW u \in Tx \ {t},
         Begin(u) \/ MovesOn(u) \/ Commits(u) \/ Refuse(u)
  PROVE  SnapshotCurrent(t)' /\ Affordable(t)'
  <1> USE DEF SerialInvariant, LedgerInvariant
  <1>1. pc'[t] = pc[t] /\ req'[t] = req[t] /\ snap'[t] = snap[t]
    <2>1. CASE Commits(u) \/ Refuse(u)
      BY <2>1, CommitsEnd DEF EndTx, Goto, TypeOK, SessionsTyped
    <2>2. CASE Begin(u)
      BY <2>2 DEF Begin, CreatePaymentSelect, VoidPaymentBegin, VoidInvoiceSelect, GenerateBegin,
                  Goto, locals, TypeOK, SessionsTyped
    <2>3. CASE MovesOn(u)
      BY <2>3 DEF MovesOn, Accepts, CreatePaymentLock, CreatePaymentNumber, Takes, VoidPaymentLock,
                  Waits, VoidPaymentRecompute, GenerateLock, Adds, GenerateInsert, Refuse, EndTx,
                  Goto, locals, TypeOK, SessionsTyped
    <2> QED
      BY <2>1, <2>2, <2>3
  <1>2. SnapshotCurrent(t) /\ Affordable(t) /\ ChecksHold(t)
    BY DEF SessionsCurrent, ChecksStayTrue
  <1>3. CASE pc[t] \in Creating \cup {"void_invoice_lock", "void_payment_invoice"}
    <2>1. PICK k \in Key : k = req[t].key
      BY <1>2, <1>3 DEF ChecksHold, Issued, Creating
    <2>2. PostedOn(k)' = PostedOn(k) /\ Paid(k)' = Paid(k)
      <3>1. CASE Commits(u)
        <4>1. k # req[u].key
          BY <2>1, LedgerConstants DEF OneRequestPerInvoice
        <4> QED
          BY <3>1, <4>1, OtherInvoices
      <3>2. CASE ~ Commits(u)
        <4>1. payment' = payment
          BY <3>2, BeginEffect, MovesOnEffect DEF Refuse, tables
        <4> QED
          BY <4>1, SumsStay
      <3> QED
        BY <3>1, <3>2
    <2>3. k = req'[t].key
      BY <1>1, <2>1
    <2>4. /\ PostedOn(req[t].key) = PostedOn(k) /\ Paid(req[t].key) = Paid(k)
          /\ PostedOn(req[t].key)' = PostedOn(k)' /\ Paid(req[t].key)' = Paid(k)'
      BY <2>1, <2>3 DEF PostedOn, Paid
    <2> QED
      BY <1>1, <1>2, <2>1, <2>2, <2>3, <2>4 DEF SnapshotCurrent, Affordable
  <1>4. CASE pc[t] \notin Creating \cup {"void_invoice_lock", "void_payment_invoice"}
    BY <1>1, <1>4 DEF SnapshotCurrent, Affordable, Creating
  <1> QED
    BY <1>3, <1>4

(* And a request keeps its own knowledge up to date.                       *)
LEMMA OwnCurrent ==
  ASSUME SerialInvariant, NEW t \in Tx,
         Begin(t) \/ MovesOn(t) \/ Commits(t) \/ Refuse(t)
  PROVE  SnapshotCurrent(t)' /\ Affordable(t)'
  <1> USE DEF SerialInvariant, LedgerInvariant, TypeOK, SessionsTyped, TablesTyped, Goto, Creating
  <1>1. CASE Commits(t) \/ Refuse(t)
    <2>1. pc'[t] = "idle"
      BY <1>1, CommitsEnd, EndTxEffect
    <2> QED
      BY <2>1 DEF SnapshotCurrent, Affordable
  <1>2. ASSUME NEW k \in Key, NEW p \in PaymentIds, NEW a \in Amounts,
               CreatePaymentSelect(t, k, p, a)
        PROVE  SnapshotCurrent(t)' /\ Affordable(t)'
    <2>1. /\ pc'[t] = "create_lock" /\ snap'[t] = PostedOn(k) /\ payment' = payment
          /\ req'[t].key = k /\ req'[t].amount = a
      BY <1>2 DEF CreatePaymentSelect, tables
    <2> QED
      BY <2>1 DEF SnapshotCurrent, Affordable, PostedOn
  <1>3. ASSUME NEW k \in Key, VoidInvoiceSelect(t, k)
        PROVE  SnapshotCurrent(t)' /\ Affordable(t)'
    <2>1. /\ pc'[t] = "void_invoice_lock" /\ snap'[t] = PostedOn(k) /\ payment' = payment
          /\ req'[t].key = k
      BY <1>3 DEF VoidInvoiceSelect, tables, NoRequest
    <2> QED
      BY <2>1 DEF SnapshotCurrent, Affordable, PostedOn
  <1>4. ASSUME \/ \E p \in PaymentIds : VoidPaymentBegin(t, p)
               \/ GenerateBegin(t)
               \/ Takes(t)
               \/ \E S \in SUBSET Services, per \in Periods : GenerateLock(t, S, per)
               \/ \E k \in Key : Adds(t, k)
        PROVE  SnapshotCurrent(t)' /\ Affordable(t)'
    <2>1. pc'[t] \in {"void_payment_lock", "generate_lock", "void_payment_update", "generate_insert"}
      BY <1>4 DEF VoidPaymentBegin, GenerateBegin, Takes, VoidPaymentLock, GenerateLock,
                  Adds, GenerateInsert
    <2> QED
      BY <2>1 DEF SnapshotCurrent, Affordable
  <1>5. CASE Accepts(t) \/ CreatePaymentNumber(t)
    <2>1. /\ pc[t] \in {"create_lock", "create_number"}
          /\ pc'[t] \in {"create_number", "create_insert"}
          /\ pc[t] = "create_lock" => Payable(t)
          /\ payment' = payment /\ req' = req /\ snap' = snap
      BY <1>5 DEF Accepts, CreatePaymentLock, CreatePaymentNumber, Refuse, EndTx, tables, locals
    <2>2. snap[t] = PostedOn(req[t].key) /\ req[t].amount \in Amounts
      BY <2>1 DEF SessionsCurrent, SnapshotCurrent, Affordable
    <2>3. req[t].amount + Paid(req[t].key) <= Total[req[t].key]
      BY <2>1, <2>2 DEF SessionsCurrent, Affordable, Payable, Paid
    <2> QED
      BY <2>1, <2>2, <2>3 DEF SnapshotCurrent, Affordable, Paid, PostedOn
  <1>6. CASE Waits(t)
    <2>1. /\ pc'[t] = "void_payment_invoice" /\ payment' = payment /\ req' = req
          /\ snap'[t] = PostedOn(req[t].key) \ {req[t].pay}
      BY <1>6 DEF Waits, VoidPaymentRecompute, tables
    <2> QED
      BY <2>1 DEF SnapshotCurrent, Affordable, PostedOn
  <1> QED
    BY <1>1, <1>2, <1>3, <1>4, <1>5, <1>6 DEF Begin, MovesOn

LEMMA SessionsStep ==
  ASSUME SerialInvariant, OneRequestPerInvoice, [Next]_vars
  PROVE  SessionsCurrent'
  <1>1. ASSUME NEW u \in Tx, Begin(u) \/ MovesOn(u) \/ Commits(u) \/ Refuse(u), NEW t \in Tx
        PROVE  SnapshotCurrent(t)' /\ Affordable(t)'
    BY <1>1, OthersCurrent, OwnCurrent
  <1>2. CASE UNCHANGED vars
    BY <1>2 DEF vars, SerialInvariant, SessionsCurrent, SnapshotCurrent, Affordable,
                PostedOn, Paid
  <1> QED
    BY <1>1, <1>2, StepCases DEF Next, SessionsCurrent

LEMMA SerialInit == Init => SerialInvariant
  <1> SUFFICES ASSUME Init PROVE SerialInvariant
    OBVIOUS
  <1>1. LedgerInvariant
    BY LedgerInit
  <1>2. Issued = {} /\ Taken = {}
    BY DEF Init, Issued, Taken, NoInvoice, NoPayment
  <1>3. SessionsCurrent
    BY DEF Init, SessionsCurrent, SnapshotCurrent, Affordable, Creating
  <1>4. Books
    BY <1>2, FS_EmptySet DEF Init, Books, UnusedRows, NoOverpayment, StatusMatchesPayments,
                             VoidHoldsNoPayment
  <1> QED
    BY <1>1, <1>3, <1>4 DEF SerialInvariant

(* The rows, the locks and what the open requests have read stay in step   *)
(* with the sums at every point between two statements.                    *)
THEOREM SerialInvariantHolds == Spec /\ []OneRequestPerInvoice => []SerialInvariant
  <1>1. SerialInvariant /\ OneRequestPerInvoice /\ [Next]_vars => SerialInvariant'
    BY LedgerStep, SessionsStep, BooksStep DEF SerialInvariant
  <1> QED
    BY <1>1, SerialInit, PTL DEF Spec

(* The figures a clerk reads are right as long as no two open requests     *)
(* name the same invoice: the stored status says what the posted payments  *)
(* cover.                                                                  *)
THEOREM StatusesMatch ==
  Spec /\ []OneRequestPerInvoice => []StatusMatchesPayments
  <1>1. SerialInvariant => StatusMatchesPayments
    BY DEF SerialInvariant, Books
  <1> QED
    BY <1>1, SerialInvariantHolds, PTL

(* The payments posted on an invoice never exceed its total (the check of  *)
(* CreatePayment against what is left to pay).                             *)
THEOREM NothingOverpaid ==
  Spec /\ []OneRequestPerInvoice => []NoOverpayment
  <1>1. SerialInvariant => NoOverpayment
    BY DEF SerialInvariant, Books
  <1> QED
    BY <1>1, SerialInvariantHolds, PTL

(* A void invoice holds no posted payment (VoidInvoice and CreatePayment   *)
(* exclude each other).                                                    *)
THEOREM VoidsUnpaid ==
  Spec /\ []OneRequestPerInvoice => []VoidHoldsNoPayment
  <1>1. SerialInvariant => VoidHoldsNoPayment
    BY DEF SerialInvariant, Books
  <1> QED
    BY <1>1, SerialInvariantHolds, PTL

-----------------------------------------------------------------------------
(* Under the same hypothesis every transaction is one step of the ledger.  *)
AsReceipts(pays) ==
  [p \in PaymentIds |-> [status |-> pays[p].status, key |-> pays[p].key,
                         amount |-> pays[p].amount]]
PostedIn(pays, k) == {p \in PaymentIds : pays[p].status = "posted" /\ pays[p].key = k}

bills    == [k \in Key |-> invoice[k].status]
receipts == AsReceipts(payment)

(* The ledger computes what the program computes, on receipts instead of   *)
(* rows.                                                                   *)
LEMMA LedgerSums ==
  ASSUME NEW rs, NEW k
  PROVE  Atomic!PaidBy(k, rs) = SumOf(rs, Atomic!Posted(k, rs))
  BY DEF Atomic!PaidBy, SumOf, Atomic!MapThenSumSet, Atomic!MapThenFoldSet,
         MapThenSumSet, MapThenFoldSet

LEMMA LedgerFigures ==
  ASSUME NEW pays, NEW k \in Key, Counted(pays, PostedIn(pays, k))
  PROVE  /\ Atomic!Posted(k, AsReceipts(pays)) = PostedIn(pays, k)
         /\ Atomic!PaidBy(k, AsReceipts(pays)) = SumOf(pays, PostedIn(pays, k))
         /\ Atomic!Standing(k, AsReceipts(pays)) = StatusFor(k, SumOf(pays, PostedIn(pays, k)))
  <1>1. Atomic!Posted(k, AsReceipts(pays)) = PostedIn(pays, k)
    BY DEF Atomic!Posted, PostedIn, AsReceipts
  <1>2. SameAmounts(AsReceipts(pays), pays, PostedIn(pays, k))
    BY DEF SameAmounts, PostedIn, AsReceipts
  <1>3. SumOf(AsReceipts(pays), PostedIn(pays, k)) = SumOf(pays, PostedIn(pays, k))
    BY <1>2, SumOfSame DEF Counted
  <1>4. Atomic!PaidBy(k, AsReceipts(pays)) = SumOf(pays, PostedIn(pays, k))
    BY <1>1, <1>3, LedgerSums
  <1>5. SumOf(pays, PostedIn(pays, k)) \in Nat /\ Total[k] \in Nat
    BY SumOfNat, LedgerConstants
  <1>6. Atomic!Standing(k, AsReceipts(pays)) = StatusFor(k, SumOf(pays, PostedIn(pays, k)))
    BY <1>4, <1>5 DEF Atomic!Standing, StatusFor
  <1> QED
    BY <1>1, <1>4, <1>6

LEMMA LedgerNow ==
  ASSUME TypeOK, IsFiniteSet(Taken), NEW k \in Key
  PROVE  /\ Atomic!Posted(k, receipts) = PostedOn(k)
         /\ Atomic!PaidBy(k, receipts) = Paid(k)
  <1>1. PostedIn(payment, k) = PostedOn(k)
    BY DEF PostedIn, PostedOn
  <1>2. Counted(payment, PostedIn(payment, k))
    BY <1>1, PostedFinite
  <1> QED
    BY <1>1, <1>2, LedgerFigures DEF Paid, receipts

LEMMA LedgerThen ==
  ASSUME TypeOK', IsFiniteSet(Taken'), NEW k \in Key
  PROVE  Atomic!Standing(k, receipts') = StatusFor(k, Paid(k)')
  <1>1. PICK pays : pays = payment'
    OBVIOUS
  <1>2. PostedIn(pays, k) = PostedOn(k)' /\ PostedOn(k)' \subseteq Taken'
    BY <1>1 DEF PostedIn, PostedOn, Taken
  <1>3. IsFiniteSet(PostedIn(pays, k))
    BY <1>2, FS_Subset
  <1>4. Counted(pays, PostedIn(pays, k))
    BY <1>1, <1>3 DEF Counted, PostedIn, TypeOK, TablesTyped, PaymentRow
  <1>5. Atomic!Standing(k, AsReceipts(pays)) = StatusFor(k, SumOf(pays, PostedIn(pays, k)))
    BY <1>4, LedgerFigures
  <1>6. receipts' = AsReceipts(pays) /\ Paid(k)' = SumOf(pays, PostedIn(pays, k))
    BY <1>1, <1>2 DEF receipts, AsReceipts, Paid
  <1> QED
    BY <1>5, <1>6

LEMMA AtomicInit == Init => Atomic!Init
  BY DEF Init, Atomic!Init, Atomic!Invoices, Atomic!Unused, Key, NoInvoice, NoPayment

LEMMA AtomicReceive ==
  ASSUME SerialInvariant, SerialInvariant', NEW t \in Tx, Receives(t)
  PROVE  Atomic!Next
  <1> USE DEF SerialInvariant, LedgerInvariant, Books
  <1>1. PICK k \in Key, p \in PaymentIds \ Taken, a \in Amounts, n \in Nat : Received(k, p, a, n)
    BY DEF Receives
  <1>2. receipts[p] = Atomic!Unused
    BY DEF receipts, AsReceipts, Atomic!Unused, UnusedRows, NoPayment
  <1>3. bills[k] \in {"unpaid", "partial"}
    BY <1>1 DEF bills, Received, Open
  <1>4. Atomic!PaidBy(k, receipts) + a <= Total[k]
    <2>1. Paid(k) \in Nat /\ a \in Nat
      BY PostedFinite, LedgerConstants
    <2>2. a + Paid(k) <= Total[k]
      BY <1>1 DEF Received
    <2> QED
      BY <2>1, <2>2, LedgerNow
  <1>5. receipts' = [receipts EXCEPT ![p] = [status |-> "posted", key |-> k, amount |-> a]]
    BY <1>1 DEF Received, receipts, AsReceipts, TypeOK, TablesTyped
  <1>6. bills' = [bills EXCEPT ![k] = Atomic!Standing(k, receipts')]
    <2>1. Atomic!Standing(k, receipts') = StatusFor(k, Paid(k)')
      BY LedgerThen
    <2>2. bills' = [bills EXCEPT ![k] = StatusFor(k, Paid(k)')]
      BY <1>1 DEF Received, bills, TypeOK, TablesTyped, InvoiceRow
    <2> QED
      BY <2>1, <2>2
  <1>7. Atomic!Receive(p, k, a)
    BY <1>2, <1>3, <1>4, <1>5, <1>6 DEF Atomic!Receive, bills, receipts, AsReceipts
  <1> QED
    BY <1>7 DEF Atomic!Next, Atomic!Invoices, Key

LEMMA AtomicTakeBack ==
  ASSUME SerialInvariant, SerialInvariant', NEW t \in Tx, TakesBack(t)
  PROVE  Atomic!Next
  <1> USE DEF SerialInvariant, LedgerInvariant, Books
  <1>1. PICK k \in Key : \E p \in PostedOn(k) : TakenBack(k, p)
    BY DEF TakesBack
  <1>2. PICK p \in PostedOn(k) : TakenBack(k, p)
    BY <1>1
  <1>3. p \in PaymentIds /\ payment[p].key = k /\ payment[p].status = "posted"
    BY DEF PostedOn
  <1>4. receipts[p].key = k /\ receipts[p].status = "posted"
    BY <1>3 DEF receipts, AsReceipts
  <1>5. receipts' = [receipts EXCEPT ![p].status = "voided"]
    BY <1>2, <1>3 DEF TakenBack, receipts, AsReceipts, TypeOK, TablesTyped, PaymentRow
  <1>6. bills' = [bills EXCEPT ![k] = Atomic!Standing(k, receipts')]
    <2>1. Atomic!Standing(k, receipts') = StatusFor(k, Paid(k)')
      BY LedgerThen
    <2>2. bills' = [bills EXCEPT ![k] = StatusFor(k, Paid(k)')]
      BY <1>2 DEF TakenBack, bills, TypeOK, TablesTyped, InvoiceRow
    <2> QED
      BY <2>1, <2>2
  <1>7. Atomic!TakeBack(p)
    BY <1>4, <1>5, <1>6 DEF Atomic!TakeBack, bills, receipts, AsReceipts
  <1> QED
    BY <1>3, <1>7 DEF Atomic!Next

LEMMA AtomicCancel ==
  ASSUME SerialInvariant, NEW t \in Tx, CancelsIt(t)
  PROVE  Atomic!Next
  <1> USE DEF SerialInvariant, LedgerInvariant, Books
  <1>1. PICK k \in Issued : Cancelled(k)
    BY DEF CancelsIt
  <1>2. k \in Key /\ bills[k] \notin {"absent", "void"}
    BY <1>1 DEF Cancelled, Issued, bills
  <1>3. Atomic!Posted(k, receipts) = {}
    BY <1>1, <1>2, LedgerNow DEF Cancelled
  <1>4. bills' = [bills EXCEPT ![k] = "void"] /\ receipts' = receipts
    BY <1>1, <1>2 DEF Cancelled, bills, receipts, AsReceipts, TypeOK, TablesTyped, InvoiceRow
  <1>5. Atomic!Cancel(k)
    BY <1>2, <1>3, <1>4 DEF Atomic!Cancel, bills, receipts, AsReceipts
  <1> QED
    BY <1>2, <1>5 DEF Atomic!Next, Atomic!Invoices, Key

LEMMA AtomicIssue ==
  ASSUME SerialInvariant, NEW t \in Tx, Bills(t)
  PROVE  Atomic!Next
  <1>1. PICK K \in SUBSET Key : K = {k \in Key : fresh[t][k] # 0}
    OBVIOUS
  <1>2. \A k \in K : bills[k] = "absent"
    BY <1>1 DEF Bills, bills
  <1>3. bills' = [k \in Key |-> IF k \in K THEN "unpaid" ELSE bills[k]] /\ receipts' = receipts
    BY <1>1 DEF Bills, bills, receipts, AsReceipts
  <1>4. Atomic!Issue(K)
    BY <1>2, <1>3 DEF Atomic!Issue, Atomic!Invoices, Key, bills, receipts, AsReceipts
  <1> QED
    BY <1>4 DEF Atomic!Next, Atomic!Invoices, Key

LEMMA AtomicStep ==
  ASSUME SerialInvariant, SerialInvariant', [Next]_vars
  PROVE  Atomic!Next \/ UNCHANGED <<bills, receipts>>
  <1>1. ASSUME NEW t \in Tx, Commits(t)
        PROVE  Atomic!Next
    BY <1>1, SerialCommits, AtomicReceive, AtomicTakeBack, AtomicCancel, AtomicIssue
  <1>2. ASSUME NEW t \in Tx, Begin(t) \/ MovesOn(t) \/ Refuse(t)
        PROVE  UNCHANGED <<invoice, payment>>
    BY <1>2, BeginEffect, MovesOnEffect DEF Refuse, tables, SerialInvariant, LedgerInvariant
  <1>3. UNCHANGED <<invoice, payment>> => UNCHANGED <<bills, receipts>>
    BY DEF bills, receipts, AsReceipts
  <1> QED
    BY <1>1, <1>2, <1>3, StepCases DEF Next, vars

(* The transactions of CreatePayment, VoidPayment, VoidInvoice and         *)
(* GenerateInvoices are then the steps of Ledger, the abstract ledger.     *)
THEOREM OneAtATimeImplementsLedger ==
  Spec /\ []OneRequestPerInvoice => ImplementsLedger
  <1>1. SerialInvariant /\ SerialInvariant' /\ [Next]_vars
        => [Atomic!Next]_<<[k \in Key |-> invoice[k].status],
                           [p \in PaymentIds |-> [status |-> payment[p].status, key |-> payment[p].key,
                                                  amount |-> payment[p].amount]]>>
    BY AtomicStep DEF bills, receipts, AsReceipts
  <1> QED
    BY <1>1, AtomicInit, SerialInvariantHolds, PTL DEF Spec, ImplementsLedger, Atomic!Spec

(* With one connection this needs no hypothesis: requests take turns.      *)
COROLLARY OneConnectionImplementsLedger ==
  ASSUME \A t, u \in Tx : t = u
  PROVE  Spec => ImplementsLedger
  <1>1. OneRequestPerInvoice
    BY DEF OneRequestPerInvoice
  <1> QED
    BY <1>1, OneAtATimeImplementsLedger, PTL
=============================================================================
