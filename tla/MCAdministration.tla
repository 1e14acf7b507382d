-------------------------- MODULE MCAdministration --------------------------
(***************************************************************************)
(* An instance of Administration.                                          *)
(***************************************************************************)
EXTENDS Administration
=============================================================================
