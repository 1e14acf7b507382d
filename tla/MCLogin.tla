------------------------------- MODULE MCLogin -------------------------------
(***************************************************************************)
(* An instance of Login.                                                   *)
(***************************************************************************)
EXTENDS Login
=============================================================================
