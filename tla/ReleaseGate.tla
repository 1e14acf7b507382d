----------------------------- MODULE ReleaseGate -----------------------------
(***************************************************************************)
(* From the review bundle to the release (scripts/): the closure archive   *)
(* binds the review to a commit, the production release gate runs every    *)
(* validator and writes what blocks the release, its own validator runs it *)
(* again, and the release archive hashes the last two.  --require-clean is *)
(* given as the runbook gives it.                                          *)
(***************************************************************************)
EXTENDS PhaseReview

closureArchive == [review |-> file.review, source |-> source]

\* Wrong: the commit is not compared.
closureAnyCommit ==
    /\ Exist({"closure", "review"})
    /\ intact.closure = {"review"}
    /\ file.closure.review = file.review
    /\ waiversApproved
    /\ file.closure.source.clean

\* cleanTree is what the archive recorded.
closureValid ==
    /\ Exist({"closure", "review"})
    /\ intact.closure = {"review"}
    /\ file.closure.review = file.review
    /\ waiversApproved
    /\ file.closure.source.head = source.head
    /\ file.closure.source.clean

\* The gate stops with an error, and writes nothing, on a closure archive that
\* names other waived evidence than the review.
GateRuns == Exist({"closure", "review"}) => file.closure.review.waived = file.review.waived

ReleaseChecks == {"upstream", "actions", "gaps", "decision", "signoffs", "intake", "inventory",
                  "waivers", "review", "closure", "missing", "notReady", "notApproved", "target", "dirty"}

releaseBlockers ==
    {c \in ReleaseChecks :
        CASE c = "upstream" -> ~up.sound
          [] c = "actions" -> ~actionsValid
          [] c = "gaps" -> ~gapsValid
          [] c = "decision" -> ~decisionValid
          [] c = "signoffs" -> ~signoffsValid
          [] c = "intake" -> ~intakeValid
          [] c = "inventory" -> ~(inventoryValid /\ redacted)
          [] c = "waivers" -> ~(waiversValid /\ waiversApproved)
          [] c = "review" -> ~(reviewValid /\ waiversApproved)
          [] c = "closure" -> ~closureValid
          [] c = "missing" -> ~Exist(Scripts \ {"release", "archive"})
          [] c = "notReady" -> Exist({"review"}) /\ file.review.gate # "ready"
          [] c = "notApproved" -> Exist({"review"}) /\ ~file.review.decision
          [] c = "target" -> Exist({"closure"}) /\ file.closure.review.target # Target
          [] c = "dirty" -> Exist({"closure"}) /\ ~file.closure.source.clean}

releaseReport ==
    [blockers |-> releaseBlockers,
     waived |-> IF Exist({"closure"}) THEN file.closure.review.waived
                ELSE IF Exist({"review"}) THEN file.review.waived ELSE {}]

\* Wrong: the report is accepted on its own word.
releaseAsWritten == Exist({"release"}) /\ file.release.blockers = {}

\* validate-production-release-gate-report: the gate is run again.
releaseAccepted ==
    /\ Exist({"release"}) /\ GateRuns
    /\ file.release = releaseReport
    /\ file.release.blockers = {}

releaseArchive == [release |-> file.release, closure |-> file.closure]

archiveAccepted ==
    /\ Exist({"archive", "closure", "release"})
    /\ intact.archive = {"closure", "release"}
    /\ file.closure.review.target = Target
    /\ file.archive = releaseArchive
    /\ closureValid
    /\ releaseAccepted

-----------------------------------------------------------------------------
Closure == Exist({"review"}) /\ Write("closure", closureArchive) /\ UNCHANGED expired
Release == GateRuns /\ Write("release", releaseReport) /\ UNCHANGED expired
Archive ==
    /\ Exist({"closure", "release"})
    /\ file.closure.review.target = Target
    /\ Write("archive", releaseArchive)
    /\ UNCHANGED expired

Checkout(head, clean) ==
    /\ Edit
    /\ head \in source.head..MaxCommits
    /\ source' = [head |-> head, clean |-> clean] /\ source' # source
    /\ UNCHANGED <<up, attach, expired, file, intact>>

\* The phase gate has just been run.  The intake folders may be there already,
\* from a round before the gate was ready.
ReviewInit ==
    /\ attach \in [Items -> {"absent", "clean"}]
    /\ expired = {}
    /\ \E intake \in {Absent} \cup [signed : BOOLEAN, byHand : BOOLEAN] :
           /\ intake # Absent => intake.signed = intake.byHand
           /\ file = [s \in Scripts |-> IF s = "intake" THEN intake ELSE Absent]
    /\ intact = [k \in {"inventory", "review", "closure", "archive"} |-> {}]
    /\ source = [head |-> 0, clean |-> TRUE]
    /\ edits = 0
    /\ progress = [at |-> 0, reruns |-> 0]

Init ==
    /\ \E ready \in BOOLEAN :
           up = [gate |-> IF ready THEN "ready" ELSE "held", sound |-> ready,
                 present |-> TRUE, status |-> Target, target |-> Target]
    /\ ReviewInit

ReviewNext ==
    \/ Actions \/ Gaps \/ Decision \/ Signoffs \/ Intake \/ Inventory \/ Waivers \/ Review
    \/ Closure \/ Release \/ Archive
    \/ \E i \in Items : \/ \E c \in Attachments : EditAttachment(i, c)
                        \/ \E r \in Rulings : RuleWaiver(i, r)
                        \/ Expire(i)
    \/ RelabelIntake
    \/ \E head \in 0..MaxCommits, clean \in BOOLEAN : Checkout(head, clean)

UpstreamNext ==
    \/ \E u \in Upstream : RerunUpstream(u)
    \/ \E present \in BOOLEAN, status \in BundleStatuses : Drift(present, status)

Next == ReviewNext \/ UpstreamNext

Spec == Init /\ [][Next]_vars

-----------------------------------------------------------------------------
ReleaseTypeOK ==
    /\ up \in Upstream
    /\ attach \in [Items -> Attachments]
    /\ expired \subseteq Items
    /\ DOMAIN file = Scripts
    /\ file.actions \in {Absent} \cup GateStates
    /\ file.waivers # Absent =>
           /\ file.waivers.ruling \in [Items -> {"none", "proposed"} \cup AllRulings]
           /\ \A i \in expired : file.waivers.ruling[i] = "approved"
    /\ intact.inventory \subseteq Items /\ intact.review \subseteq Reviewed
    /\ intact.closure \subseteq {"review"} /\ intact.archive \subseteq {"closure", "release"}

\* When the release gate's report is accepted, every file an owner was asked
\* for is there without a redaction finding, or is missing under an approved
\* waiver that has not expired: although nothing scans the files again, the
\* hashes lead from the report back to the scan.
ReleasedIsEvidenced ==
    releaseAccepted =>
        /\ up.sound
        /\ \A i \in Items :
               \/ attach[i] = "clean"
               \/ attach[i] = "absent" /\ file.waivers.ruling[i] = "approved" /\ i \notin expired

\* An accepted release archive names the commit that is checked out, and what
\* its closure archive says of the review is what the review says now.
ArchiveIsCurrent ==
    archiveAccepted =>
        /\ file.archive.closure.source.head = source.head
        /\ file.archive.closure.review = reviewManifest

\* Nothing that was archived may change, be written again or expire under an
\* accepted archive.
ChangeClosesArchive ==
    [][archiveAccepted /\ archiveAccepted' =>
           UNCHANGED <<up, attach, expired, source.head, [file EXCEPT !.archive = Absent]>>]_vars

\* Nothing is refused without a reason: a sound workspace, attachments clean or
\* waived, an intake that says what the signoffs say, and every script run
\* since the last change, pass.
RanInOrder ==
    /\ Exist(Scripts)
    /\ actionsValid /\ gapsValid /\ decisionValid /\ signoffsValid /\ intakeValid
    /\ inventoryValid /\ waiversValid /\ reviewValid
    /\ intact.closure = {"review"} /\ file.closure = closureArchive
    /\ file.release = releaseReport
    /\ intact.archive = {"closure", "release"} /\ file.archive = releaseArchive
NothingOpen ==
    /\ up.sound /\ source.clean
    /\ \A i \in Items : \/ attach[i] = "clean"
                        \/ /\ attach[i] = "absent" /\ i \notin expired
                           /\ file.waivers.ruling[i] = "approved"
InOrderIsAccepted == RanInOrder /\ NothingOpen => archiveAccepted

\* What the README says of the runbook: the release gate fails for a workspace
\* of placeholders "until the deployment-specific evidence is replaced or
\* explicitly approved".  Here it is, nothing was written by hand, and every
\* script ran after the last change, or was refused.  The code holds it shut:
\* the intake is refused once the actions are complete, and one written before
\* says blocked.
RanAsDocumented ==
    /\ Exist(Scripts \ {"archive"}) /\ ~file.intake.byHand
    /\ actionsValid /\ gapsValid /\ decisionValid /\ signoffsValid
    /\ inventoryValid /\ waiversValid /\ reviewValid
    /\ intact.closure = {"review"} /\ file.closure = closureArchive
    /\ file.release = releaseReport
ReleasesAsDocumented == RanAsDocumented /\ NothingOpen => releaseAccepted

\* The same as the code has it: the gate never opens on what the scripts wrote.
ReleasedOnlyByHand == releaseAccepted => file.intake.byHand
=============================================================================
