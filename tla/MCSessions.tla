----------------------------- MODULE MCSessions ----------------------------
(***************************************************************************)
(* Sessions for TLC: clients can change places.                *)
(***************************************************************************)
EXTENDS Sessions, TLC

Symmetry == Permutations(Clients)
============================================================================
