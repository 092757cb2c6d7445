-------------------------- MODULE MCInvoiceLedger --------------------------
(***************************************************************************)
(* Instances of InvoiceLedger small enough for TLC.                        *)
(***************************************************************************)
EXTENDS InvoiceLedger, TLC

(* Every invoice asks for two units, so that one payment can leave it      *)
(* partial, two can settle it and a third is too much.                     *)
TwoUnits == [k \in Key |-> 2]

(* A free package bills 0: the second period's price is 0.                 *)
CONSTANTS FreePeriod
SomeFree == [k \in Key |-> IF k[2] = FreePeriod THEN 0 ELSE 2]

EveryOp    == AllOps
Paying     == {"generate", "create_payment"}

Interchangeable == Permutations(Tx) \cup Permutations(PaymentIds) \cup Permutations(Services)
=============================================================================
