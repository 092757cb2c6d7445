---------------------------- MODULE MCOnuTraffic ----------------------------
(***************************************************************************)
(* An instance of OnuTraffic.  The keys of the refreshes are alike: the    *)
(* specification and what is checked of it treat them in the same way.     *)
(***************************************************************************)
EXTENDS OnuTraffic, TLC

Alike == Permutations(Refreshes)
=============================================================================
