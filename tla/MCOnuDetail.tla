---------------------------- MODULE MCOnuDetail ----------------------------
(***************************************************************************)
(* Instances of OnuDetail: one ONU that is changed, and one that is only   *)
(* looked at and competes for the OLT's background job.                    *)
(***************************************************************************)
EXTENDS OnuDetail

CONSTANTS Watched, Changes

OneChanges == [i \in Onus |-> IF i = Watched THEN 0 ELSE Changes]
=============================================================================
