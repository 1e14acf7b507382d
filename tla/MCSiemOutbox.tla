---------------------------- MODULE MCSiemOutbox ----------------------------
(***************************************************************************)
(* An instance of SiemOutbox.  The number of sends is read by no step and  *)
(* by no property of the runs: states that differ in it alone are one.     *)
(***************************************************************************)
EXTENDS SiemOutbox

withoutSends == <<outbox, copy, heap, made, url, txn, disk, runs, received>>
=============================================================================
