--------------------------- MODULE MCOnuCommands ---------------------------
(* OnuCommands with its requests, serial numbers and VLANs                 *)
(* interchangeable.                                                        *)
EXTENDS OnuCommands

Interchangeable == Permutations(Ops) \cup Permutations(Serials) \cup Permutations(Vlans)
=============================================================================
