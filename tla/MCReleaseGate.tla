---------------------------- MODULE MCReleaseGate ----------------------------
(***************************************************************************)
(* An instance of ReleaseGate for what the README says of the runbook: one *)
(* attachment, and at most one edit or rerun.  MCReleasePipeline checks    *)
(* the other properties, with the workspace that is one record here.       *)
(***************************************************************************)
EXTENDS ReleaseGate
=============================================================================
