---------------------------- MODULE MCMigrations ----------------------------
(* Three releases: the first, one with a third file, and one in which a    *)
(* file that may already be applied was edited.  The tables of the classes *)
(* "attempts" and "unlisted" come from the last file, so that they may be  *)
(* created before a first success or after it.                             *)
EXTENDS Migrations, TLC

CONSTANTS a, b

MCReleases  == {1 :> a @@ 2 :> a, 1 :> a @@ 2 :> a @@ 3 :> a, 1 :> a @@ 2 :> b @@ 3 :> a}
MCClassOf   == [registry |-> "registry", invoices |-> "rows", receipts |-> "ledger",
                olts |-> "device", attempts |-> "attempts", roles |-> "unlisted"]
MCCreatedBy == [registry |-> Absent, invoices |-> 1, receipts |-> 2, olts |-> 3,
                attempts |-> 3, roles |-> 3]
MCTables    == DOMAIN MCClassOf
=============================================================================
