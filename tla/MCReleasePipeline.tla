-------------------------- MODULE MCReleasePipeline --------------------------
(***************************************************************************)
(* An instance of ReleasePipeline: one evidence file and one attachment.   *)
(* In one part of its behaviours the workspace is edited once, at any      *)
(* point of its runbook or of the review that follows, and a second pass   *)
(* is made over its runbook.  In the other part the review is edited and   *)
(* its scripts are run again, out of order and at any point.               *)
(***************************************************************************)
EXTENDS ReleasePipeline

\* Owners have been asked for attachments in an earlier round, and have signed
\* its intake: no other round ends in a release (ReleasesAsDocumented is about
\* it).  The bundle names the target, and the roadmap is closed, until edited.
MCInit ==
    /\ PipelineInit
    /\ file.intake # Absent /\ file.intake.signed
    /\ bundle.status = Target /\ roadmap = 0

\* The bound that makes the two parts.
Sparing ==
    LET spent == edits + progress.reruns
    IN  IF workEdits = 0 THEN runbook.pass = 1 /\ spent <= IF up.sound THEN 2 ELSE 1
        ELSE spent = 0 /\ attach = [i \in Items |-> "clean"]

MCNext == PipelineNext /\ Sparing'

MCSpec == MCInit /\ [][MCNext]_pipeline
=============================================================================
