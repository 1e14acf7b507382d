--------------------------- MODULE ReleasePipeline ---------------------------
(***************************************************************************)
(* A release from the first evidence file to the archive (scripts/): the   *)
(* deployment evidence workspace of DeploymentEvidence under the review    *)
(* and the release gate of ReleaseGate, with people editing both and       *)
(* scripts of either run again at any time.                                *)
(*                                                                         *)
(* ReleaseGate knows the workspace as one record, up, that its two         *)
(* upstream actions change at will.  Here up is what the files of the      *)
(* workspace come to, and the workspace's own scripts and editors are what *)
(* changes it: that they are all among those two actions is the property   *)
(* WorkspaceIsUpstream.                                                    *)
(***************************************************************************)
EXTENDS ReleaseGate

CONSTANTS
    EvidenceItems,      \* the entries of the evidence map of the bundle
    Requested,          \* those that an evidence request names a template for
    HandEdits, Contents, MaxRemaining,      \* as in DeploymentEvidence
    MaxWorkEdits, MaxPasses     \* bounds

ASSUME ReleasePipelineAssumption ==
    /\ IsFiniteSet(EvidenceItems) /\ EvidenceItems # {} /\ "bundle" \notin EvidenceItems
    /\ Requested \subseteq EvidenceItems
    /\ {"placeholder", "final"} \subseteq Contents
    /\ Contents \subseteq {"missing", "placeholder", "pilot", "final", "leaky"}
    /\ BundleStatuses \subseteq {"planned", "pilot", "production", "retired"}
    /\ HandEdits \in BOOLEAN
    /\ {MaxRemaining, MaxWorkEdits, MaxPasses} \subseteq Nat

VARIABLES evidence, bundle, roadmap, reports, covered, workEdits, runbook

workspace == <<evidence, bundle, roadmap, reports, covered, workEdits, runbook>>

Evidence == INSTANCE DeploymentEvidence
                WITH Items <- EvidenceItems, file <- reports, intact <- covered,
                     edits <- workEdits, progress <- runbook, MaxEdits <- MaxWorkEdits

-----------------------------------------------------------------------------
readWith(sound) ==
    [gate |-> IF reports.gate # Absent /\ reports.gate.ready THEN "ready" ELSE "held",
     present |-> \A i \in Requested : evidence[i] # "missing",
     status |-> bundle.status,
     target |-> IF reports.pack = Absent THEN Target ELSE reports.pack.target,
     sound |-> sound]

\* Wrong: the pack and the gate's report are taken as they were written.
upstreamAsPacked ==
    readWith(/\ Evidence!workspaceValid /\ Evidence!bundleValid /\ bundle.status = Target
             /\ Evidence!statusAccepted /\ Evidence!redactionAccepted
             /\ Evidence!readinessAccepted)

\* What the scripts from the action register on read in the workspace, and
\* whether the release gate's checks of it pass.
upstream == readWith(Evidence!releaseChecks)

FillWorkspace ==
    Evidence!Fill /\ up' = upstream' /\ UNCHANGED <<attach, expired, file, intact, source>>
PackEvidence == Evidence!Pack /\ UpstreamWritten(upstream', {"pack"})
ReportGate == Evidence!Gate /\ UpstreamWritten(upstream', {"gate"})

Workspace == (FillWorkspace \/ PackEvidence \/ ReportGate) /\ UNCHANGED <<edits, progress>>

\* The action register, the first of its scripts, is written from the gate's report.
Reviewing == reports.gate # Absent /\ ReviewNext /\ UNCHANGED workspace

pipeline == <<vars, workspace>>

PipelineInit == Evidence!Init /\ up = upstream /\ ReviewInit

PipelineNext == Workspace \/ Reviewing

PipelineSpec == PipelineInit /\ [][PipelineNext]_pipeline

-----------------------------------------------------------------------------
\* What ReleaseGate leaves open about the workspace is what the workspace does:
\* a step that writes neither the pack nor the phase gate's report leaves what
\* is read as it was, or takes the soundness away and touches nothing else
\* than what is present and the bundle's status.
WorkspaceIsUpstream ==
    [][\/ PackEvidence \/ ReportGate
       \/ UNCHANGED up
       \/ \E present \in BOOLEAN, status \in BundleStatuses : UpstreamDrifts(present, status)]_pipeline

\* A pack whose hashes are all current says what the files it hashed say.
PackCopiesAgree == Evidence!PackCopiesAgree

\* A complete workspace whose runbook was run after the last change passes.
CompleteIsAccepted == Evidence!CompleteIsAccepted

\* The workspace passes only on a manifest somebody rewrote by hand, which the
\* README does not ask for.
AcceptedOnlyByHand == Evidence!AcceptedOnlyByHand

\* No change of the evidence or of the bundle leaves the phase gate open,
\* whatever the review does meanwhile.
ChangeClosesGate == Evidence!ChangeClosesGate

\* From end to end: when the release gate's report is accepted, the bundle and
\* the evidence of this moment are what the target needs, and every file an
\* owner was asked for is there and clean, or waived; twenty scripts are
\* between the two, and any may have been run before the last edit.
ReleaseMeansReady ==
    releaseAccepted =>
        /\ bundle = [status |-> Target, placeholders |-> FALSE]
        /\ \A i \in EvidenceItems : evidence[i] \in
               IF Target = "production" THEN {"final"} ELSE {"pilot", "final"}
        /\ \A i \in Items :
               \/ attach[i] = "clean"
               \/ attach[i] = "absent" /\ file.waivers.ruling[i] = "approved" /\ i \notin expired

\* No evidence, bundle or attachment changes under an accepted archive.
ArchiveHoldsEvidence ==
    [][archiveAccepted /\ archiveAccepted' => UNCHANGED <<evidence, bundle, attach>>]_pipeline
=============================================================================
