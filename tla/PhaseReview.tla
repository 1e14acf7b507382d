----------------------------- MODULE PhaseReview -----------------------------
(***************************************************************************)
(* From the phase gate of a release to the manifest its reviewers get      *)
(* (scripts/): the action register, gap matrix, decision record, signoff   *)
(* matrix and evidence intake; the inventory of what owners attach; the    *)
(* waivers for what is missing or has a redaction finding; and the review  *)
(* bundle that hashes them all.  Each is written from the others as they   *)
(* are at that moment and checked by a validator of its own.  ReleaseGate  *)
(* goes on from here; what comes before is DeploymentEvidence, of which    *)
(* this module keeps the variable up.                                      *)
(*                                                                         *)
(* A file is what later scripts read in it, and a recorded SHA-256 is      *)
(* whether the file still has the bytes that were hashed: a report carries *)
(* the time it was generated, so writing it again always changes it.  The  *)
(* lists of owners, evidence keys and commands come from one constant in   *)
(* the code and are left out.                                              *)
(***************************************************************************)
EXTENDS Integers, FiniteSets

CONSTANTS
    Items,      \* the files the evidence intake expects
    Target,     \* the --target of the release gate
    BundleStatuses,     \* what the bundle's status may be
    Rulings,    \* what the owner of a waiver may write, of AllRulings
    Absent,     \* a file not written yet
    MaxEdits, MaxReruns, MaxCommits     \* bounds

\* unfounded: called approved, with the reference, the control or the expiry
\* date still the placeholder of the script.
AllRulings == {"approved", "unfounded", "rejected"}

ASSUME PhaseReviewAssumption ==
    /\ IsFiniteSet(Items)
    /\ Target \in {"pilot", "production"} /\ Target \in BundleStatuses
    /\ "approved" \in Rulings /\ Rulings \subseteq AllRulings
    /\ {MaxEdits, MaxReruns, MaxCommits} \subseteq Nat

VARIABLES
    up,         \* the deployment evidence workspace, as far as it is read here
    attach,     \* the files owners put into the intake folders
    expired,    \* the approved waivers whose date has passed
    file,       \* the files the scripts write
    intact,     \* what still has the bytes that each of four files recorded
    source,     \* the Git checkout
    edits,      \* edits so far, bounded by MaxEdits
    progress    \* how far the runbook has come, and what was run again since

vars == <<up, attach, expired, file, intact, source, edits, progress>>

\* The runbook lists the scripts in this order; after its turn a script may be
\* run again at any time, MaxReruns times in all.  The release gate, which wants
\* no file to be there, may be run before its turn.
Order == [actions |-> 1, gaps |-> 2, decision |-> 3, signoffs |-> 4, intake |-> 5,
          inventory |-> 6, waivers |-> 7, review |-> 8, closure |-> 9,
          release |-> 10, archive |-> 11]
Scripts == DOMAIN Order

Reviewed == {"pack", "gate", "actions", "gaps", "decision", "signoffs", "intake",
             "inventory", "waivers"}

\* held: checks of the gate failed, or it counts open items.
GateStates == {"held", "ready"}
Targets == {"pilot", "production"}

\* sound: the release gate's checks of the workspace and of its reports pass.
\* ReleasePipeline says it in terms of DeploymentEvidence (releaseChecks).
Upstream ==
    {u \in [gate : GateStates, present : BOOLEAN, status : BundleStatuses, target : Targets,
            sound : BOOLEAN] :
        u.sound => u.gate = "ready" /\ u.present /\ u.status = Target /\ u.target = Target}

Attachments == {"absent", "clean", "leaky"}

-----------------------------------------------------------------------------
(***************************************************************************)
(* What the scripts write                                                  *)
(***************************************************************************)
Exist(names) == \A n \in names : file[n] # Absent

\* An action is complete when the gate it was written from was ready: the
\* register is that gate.
pendingActions == file.actions # "ready"

gapMatrix == [present |-> up.present, status |-> up.status]

decisionRecord ==
    [gate |-> up.gate, pending |-> pendingActions,
     present |-> file.gaps.present, status |-> file.gaps.status]

approves(d) == d.gate = "ready" /\ ~d.pending /\ d.present

signoffMatrix ==
    [decision |-> approves(file.decision), ready |-> file.decision.gate = "ready",
     status |-> file.decision.status, pending |-> pendingActions]

readyForSignoff(m) == m.decision /\ ~m.pending

scanAttachment(i) ==
    CASE attach[i] = "absent" -> "missing"
      [] attach[i] = "leaky" -> "finding"
      [] OTHER -> "attached"

attachmentInventory == [i \in Items |-> scanAttachment(i)]

needsWaiver(i) == file.inventory[i] # "attached"

waiverRegister ==
    [decision |-> approves(file.decision), kind |-> file.inventory,
     ruling |-> [i \in Items |-> IF needsWaiver(i) THEN "proposed" ELSE "none"]]

waived == {i \in Items : file.waivers.ruling[i] # "none"}

waiverSummary ==
    LET count(rulings) == Cardinality({i \in Items : file.waivers.ruling[i] \in rulings})
    IN  [waivers |-> Cardinality(waived), proposed |-> count({"proposed"}),
         approved |-> count({"approved", "unfounded"}), expired |-> Cardinality(expired)]

reviewManifest ==
    [target |-> up.target, gate |-> up.gate, decision |-> approves(file.decision),
     waiverSummary |-> waiverSummary, waived |-> waived]

-----------------------------------------------------------------------------
(***************************************************************************)
(* The validators                                                          *)
(***************************************************************************)
\* Of the actions themselves only what comes from the requests is compared.
actionsValid == Exist({"actions"}) /\ file.actions = up.gate

\* The status of the bundle is copied and not compared.
gapsValid == Exist({"gaps"}) /\ file.gaps.present = up.present

decisionValid == Exist({"decision", "actions", "gaps"}) /\ file.decision = decisionRecord

signoffsValid == Exist({"signoffs", "decision", "actions"}) /\ file.signoffs = signoffMatrix

\* Wrong: the status is not compared.
intakeAnyStatus == Exist({"intake", "signoffs"})

intakeValid ==
    Exist({"intake", "signoffs"}) /\ file.intake.signed = readyForSignoff(file.signoffs)

\* Wrong: only whether the files are there is compared.
inventoryUnhashed ==
    /\ Exist({"inventory", "intake"})
    /\ \A i \in Items : (attach[i] = "absent") <=> (file.inventory[i] = "missing")

\* The files are hashed again, and not scanned again.
inventoryValid ==
    /\ Exist({"inventory", "intake"})
    /\ \A i \in Items : IF attach[i] = "absent" THEN file.inventory[i] = "missing"
                        ELSE i \in intact.inventory

\* Wrong: --require-complete is given as well.
redactedComplete == \A i \in Items : file.inventory[i] = "attached"

redacted == \A i \in Items : file.inventory[i] # "finding"

\* A waiver is matched with the inventory by path and kind, not by finding.
waiversValid ==
    /\ Exist({"waivers", "inventory", "decision"})
    /\ file.waivers.decision = approves(file.decision)
    /\ file.waivers.kind = file.inventory

waiversApproved ==
    \A i \in waived : file.waivers.ruling[i] = "approved" /\ i \notin expired

reviewValid ==
    /\ Exist({"review"})
    /\ intact.review = Reviewed
    /\ file.review = reviewManifest

-----------------------------------------------------------------------------
(***************************************************************************)
(* The scripts                                                             *)
(***************************************************************************)
\* The intake folders may stem from an earlier round.
Turn(s) ==
    \/ /\ \/ Order[s] = progress.at + 1
          \/ s = "inventory" /\ progress.at = Order.signoffs /\ Exist({"intake"})
       /\ progress' = [progress EXCEPT !.at = Order[s]]
    \/ /\ Order[s] <= progress.at \/ s = "release"
       /\ progress.reruns < MaxReruns
       /\ progress' = [progress EXCEPT !.reruns = @ + 1]

\* What s hashes, if it hashes anything.
Hashes(s) ==
    CASE s = "inventory" -> {i \in Items : attach[i] # "absent"}
      [] s = "review" -> Reviewed
      [] s = "closure" -> {"review"}
      [] s = "archive" -> {"closure", "release"}

\* Names n have other bytes now; s has hashed what it hashes.
Changed(n, s) == intact' = [k \in DOMAIN intact |-> IF k = s THEN Hashes(k) ELSE intact[k] \ n]

\* Script s writes its file over.
Write(s, content) ==
    /\ Turn(s)
    /\ file' = [file EXCEPT ![s] = content]
    /\ Changed({s}, s)
    /\ UNCHANGED <<up, attach, source, edits>>

Actions == Write("actions", up.gate) /\ UNCHANGED expired
Gaps == Write("gaps", gapMatrix) /\ UNCHANGED expired
Decision ==
    Exist({"actions", "gaps"}) /\ Write("decision", decisionRecord) /\ UNCHANGED expired
Signoffs ==
    Exist({"decision", "actions"}) /\ Write("signoffs", signoffMatrix) /\ UNCHANGED expired

\* Asserted: as many pending actions as there are requests.
Intake ==
    /\ Exist({"gaps", "signoffs"})
    /\ file.signoffs.pending
    /\ Write("intake", [signed |-> readyForSignoff(file.signoffs), byHand |-> FALSE])
    /\ UNCHANGED expired

Inventory == Exist({"intake"}) /\ Write("inventory", attachmentInventory) /\ UNCHANGED expired

\* Whatever the owners wrote is gone.
Waivers ==
    /\ Exist({"inventory", "decision"})
    /\ Write("waivers", waiverRegister)
    /\ expired' = {}

Review ==
    /\ Exist({"actions", "gaps", "decision", "signoffs", "intake", "inventory", "waivers"})
    /\ Write("review", reviewManifest)
    /\ UNCHANGED expired

-----------------------------------------------------------------------------
(***************************************************************************)
(* The people, and time                                                    *)
(***************************************************************************)
Edit == edits < MaxEdits /\ edits' = edits + 1 /\ UNCHANGED progress

\* These of the two files of the workspace that the review hashes are written.
UpstreamWritten(u, files) ==
    /\ up' = u
    /\ Changed(files, "none")
    /\ UNCHANGED <<attach, expired, file, source>>

\* Evidence or the bundle is changed, and neither of the two is written.
UpstreamDrifts(present, status) ==
    /\ up' = [up EXCEPT !.present = present, !.status = status, !.sound = FALSE]
    /\ UNCHANGED <<attach, expired, file, intact, source>>

\* The runbook is run again as far as the phase gate.
RerunUpstream(u) == Edit /\ UpstreamWritten(u, {"pack", "gate"})

Drift(present, status) == Edit /\ UpstreamDrifts(present, status) /\ up' # up

EditAttachment(i, c) ==
    /\ Edit /\ c # attach[i]
    /\ attach' = [attach EXCEPT ![i] = c]
    /\ Changed({i}, "none")
    /\ UNCHANGED <<up, expired, file, source>>

RuleWaiver(i, r) ==
    /\ Edit /\ Exist({"waivers"}) /\ i \in waived
    /\ file' = [file EXCEPT !.waivers.ruling[i] = r]
    /\ expired' = expired \ {i}
    /\ Changed({"waivers"}, "none")
    /\ UNCHANGED <<up, attach, source>>

Expire(i) ==
    /\ Edit /\ Exist({"waivers"}) /\ file.waivers.ruling[i] = "approved" /\ i \notin expired
    /\ expired' = expired \cup {i}
    /\ UNCHANGED <<up, attach, file, intact, source>>

\* No script does this: prepare-phase-evidence-intake runs only while every
\* action is pending.
RelabelIntake ==
    /\ Edit /\ Exist({"intake"})
    /\ file' = [file EXCEPT !.intake = [signed |-> ~@.signed, byHand |-> TRUE]]
    /\ Changed({"intake"}, "none")
    /\ UNCHANGED <<up, attach, expired, source>>
=============================================================================
