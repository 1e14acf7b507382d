------------------------- MODULE DeploymentEvidence -------------------------
(***************************************************************************)
(* The deployment evidence workspace of a release (scripts/): the evidence *)
(* files and the bundle that names them, which people edit, and            *)
(* the reports, checklist, pack and phase gate that scripts derive from    *)
(* them one after the other.  Every script reads the files as they are     *)
(* when it runs, so any derived file may be older than what it is about;   *)
(* the validators are what notices.                                        *)
(*                                                                         *)
(* A derived file is modelled by what later scripts read in it, and a      *)
(* recorded SHA-256 by whether the file still has the bytes that were      *)
(* hashed: every report carries the time it was generated, so rewriting    *)
(* one always changes it (the handoff checklist carries none).  Reports    *)
(* are written as the runbook of the README writes them, without           *)
(* --fail-on-blockers.  Markdown copies are part of their report.          *)
(***************************************************************************)
EXTENDS Integers, FiniteSets

CONSTANTS
    Items,          \* the entries of the evidence map of the bundle
    Target,         \* the --target of the readiness report
    HandEdits,      \* TRUE: a person may recompute the hashes of the manifest
    Contents,       \* what an evidence file may be, of AllContents
    BundleStatuses, \* what the bundle's status may be
    Absent,         \* a file not written yet
    MaxRemaining,   \* bounds the open items of the roadmap
    MaxEdits, MaxPasses     \* bounds

Bundle == [status : BundleStatuses, placeholders : BOOLEAN]
Manifest == [status : BundleStatuses, byHand : BOOLEAN]

\* pilot: complete, but without the status production asks for; leaky:
\* complete, with a value the redaction scan reports.  What the constants have
\* to be is ReleasePipelineAssumption.
AllContents == {"missing", "placeholder", "pilot", "final", "leaky"}

VARIABLES
    evidence,   \* the files under evidence/
    bundle,     \* deployment-evidence-bundle.json
    roadmap,    \* open items of docs/architecture/implementation-phases.md
    file,       \* the derived files
    intact,     \* what still has the bytes the manifest and the pack hashed
    edits,      \* edits so far, bounded by MaxEdits
    progress    \* where the operator is in the runbook

vars == <<evidence, bundle, roadmap, file, intact, edits, progress>>

\* The runbook lists the scripts in this order.  The operator takes the first
\* pass without a gap and may start over, until pass MaxPasses, and then skip
\* any of them.
Order == [manifest |-> 1, requests |-> 2, status |-> 3, redaction |-> 4,
          completion |-> 5, readiness |-> 6, handoff |-> 7, pack |-> 8, gate |-> 9]
Scripts == DOMAIN Order

Manifested == Items \cup {"bundle"}
Packed == (Scripts \ {"pack", "gate"}) \cup {"bundle"}

-----------------------------------------------------------------------------
(***************************************************************************)
(* What the reporting scripts write                                        *)
(***************************************************************************)
ItemStatuses == {"missing", "blocked", "mismatch", "ready"}

itemStatus(i) ==
    CASE evidence[i] = "missing" -> "missing"
      [] evidence[i] = "placeholder" -> "blocked"
      [] evidence[i] = "pilot" /\ bundle.status = "production" -> "mismatch"
      [] OTHER -> "ready"

statusReport == [bundle |-> bundle, items |-> [i \in Items |-> itemStatus(i)]]

readyForPilotOrProduction(r) ==
    ~r.bundle.placeholders /\ \A i \in Items : r.items[i] = "ready"

Findings == {"missing", "clean", "finding"}

scanEvidence(i) ==
    CASE evidence[i] = "missing" -> "missing"
      [] evidence[i] = "leaky" -> "finding"
      [] OTHER -> "clean"

redactionReport ==
    [status |-> bundle.status, items |-> [i \in Items |-> scanEvidence(i)]]

readyForRelease(r) == \A i \in Items : r.items[i] = "clean"

\* Strict validation: environment and owner are no placeholders.
requestsValid == file.requests # Absent /\ file.requests.concrete

readinessReport ==
    [target |-> Target, requestsValid |-> requestsValid, report |-> statusReport]

wrongStatus(r) == r.target = "production" /\ r.report.bundle.status # "production"

readinessReady(r) ==
    readyForPilotOrProduction(r.report) /\ r.requestsValid /\ ~wrongStatus(r)

\* The blockers of a readiness report, by gate.
blockerSummary(r) ==
    [status |-> ~readyForPilotOrProduction(r.report),
     items |-> Cardinality({i \in Items : r.report.items[i] # "ready"}),
     requests |-> ~r.requestsValid,
     production |-> wrongStatus(r)]

handoffChecklist ==
    [target |-> file.readiness.target, status |-> file.readiness.report.bundle.status,
     ready |-> readinessReady(file.readiness), summary |-> blockerSummary(file.readiness)]

tally(items, kinds) == [k \in kinds |-> Cardinality({i \in Items : items[i] = k})]

\* What the pack manifest copies out of the files it hashes.
packSummary ==
    [target |-> file.readiness.target, status |-> file.readiness.report.bundle.status,
     ready |-> readinessReady(file.readiness), blockers |-> blockerSummary(file.readiness),
     remaining |-> file.completion.remaining,
     evidence |-> tally(file.status.items, ItemStatuses),
     redaction |-> tally(file.redaction.items, Findings)]

-----------------------------------------------------------------------------
(***************************************************************************)
(* The validators                                                          *)
(***************************************************************************)
Exist(names) == \A n \in names : file[n] # Absent

\* Wrong: only the status is compared.
workspaceByStatus == file.manifest.status = bundle.status

workspaceValid ==
    intact.manifest = Manifested /\ file.manifest.status = bundle.status

bundleValid ==
    /\ \A i \in Items : evidence[i] # "missing"
    /\ bundle.status \in {"pilot", "production"} => ~bundle.placeholders
    /\ bundle.status = "production" => \A i \in Items : evidence[i] \in {"final", "leaky"}

statusAccepted == file.status = statusReport /\ readyForPilotOrProduction(file.status)

redactionAccepted == file.redaction = redactionReport /\ readyForRelease(file.redaction)

\* The counts are recomputed from the audit itself: only the headings are
\* compared with the roadmap.
completionValid == Exist({"completion", "requests"})

\* Wrong: made again for the target the script defaults to.
readinessForPilot ==
    file.readiness = [readinessReport EXCEPT !.target = "pilot"] /\ readinessReady(file.readiness)

readinessAccepted == file.readiness = readinessReport /\ readinessReady(file.readiness)

\* The checklist is searched for the lines the readiness report asks for.
\* (Counts below ten, so no line is the beginning of another.)
handoffValid ==
    /\ Exist({"handoff", "readiness", "requests"})
    /\ file.readiness.requestsValid
    /\ LET h == file.handoff
           r == blockerSummary(file.readiness)
       IN  /\ h.target = file.readiness.target
           /\ h.status = file.readiness.report.bundle.status
           /\ h.ready = readinessReady(file.readiness)
           /\ r.status => h.summary.status
           /\ r.production => h.summary.production
           /\ r.items # 0 => h.summary.items = r.items

packConsistent == file.manifest.status = file.readiness.report.bundle.status

packValid ==
    /\ file.pack # Absent
    /\ intact.pack = Packed
    /\ packConsistent
    /\ file.pack = packSummary

\* The checks of the phase gate that fail.  It reads the readiness report, and
\* leaves validating it to the release gate.
failedChecks ==
    {c \in {"workspace", "requests", "completion", "handoff", "pack"} :
        CASE c = "workspace" -> ~workspaceValid
          [] c = "requests" -> ~requestsValid
          [] c = "completion" -> ~completionValid
          [] c = "handoff" -> ~handoffValid
          [] c = "pack" -> ~packValid}

gateReport ==
    [failed |-> failedChecks,
     ready |-> /\ failedChecks = {}
               /\ readinessReady(file.readiness)
               /\ file.completion.remaining = 0,
     blockers |-> blockerSummary(file.readiness),
     remaining |-> file.completion.remaining]

\* validate-phase-gate-report: runs the gate again, which exits with an error
\* when a check fails.
gateReportValid == file.gate # Absent /\ failedChecks = {} /\ file.gate = gateReport

\* What the production release gate asks of this part of the workspace.
releaseChecks ==
    /\ Exist(Scripts)
    /\ workspaceValid /\ bundleValid /\ bundle.status = Target
    /\ statusAccepted /\ redactionAccepted /\ requestsValid /\ readinessAccepted
    /\ completionValid /\ file.completion.remaining = 0
    /\ handoffValid /\ packValid
    /\ gateReportValid /\ file.gate.ready

-----------------------------------------------------------------------------
(***************************************************************************)
(* The scripts                                                             *)
(***************************************************************************)
Turn(s) ==
    \/ /\ progress.at < Order[s]
       /\ progress.pass = 1 => Order[s] = progress.at + 1
       /\ progress' = [progress EXCEPT !.at = Order[s]]
    \/ /\ progress.at >= Order[s] /\ progress.pass < MaxPasses
       /\ progress' = [pass |-> progress.pass + 1, at |-> Order[s]]

\* Wrong: the pack counts the new file as the one it hashed.
WriteAsHashed(s, content) ==
    /\ Turn(s)
    /\ file' = [file EXCEPT ![s] = content]
    /\ UNCHANGED <<evidence, bundle, roadmap, intact, edits>>

\* Script s writes its file over.
Write(s, content) ==
    /\ Turn(s)
    /\ file' = [file EXCEPT ![s] = content]
    /\ intact' = IF content = file[s] /\ s = "handoff" THEN intact
                 ELSE [intact EXCEPT !.pack = @ \ {s}]
    /\ UNCHANGED <<evidence, bundle, roadmap, edits>>

Requests == \E c \in BOOLEAN : Write("requests", [concrete |-> c])
Status == Write("status", statusReport)
Redaction == Write("redaction", redactionReport)
Completion == file.requests # Absent /\ Write("completion", [remaining |-> roadmap])
Readiness == Write("readiness", readinessReport)

\* Refused unless the script counts of the two agree: a readiness report whose
\* request pack was not valid counts none.
Handoff ==
    /\ Exist({"readiness", "requests"})
    /\ file.readiness.requestsValid
    /\ Write("handoff", handoffChecklist)

Pack ==
    /\ Exist(Packed \ {"bundle"})
    /\ packConsistent
    /\ Turn("pack")
    /\ file' = [file EXCEPT !.pack = packSummary]
    /\ intact' = [intact EXCEPT !.pack = Packed]
    /\ UNCHANGED <<evidence, bundle, roadmap, edits>>

\* The report is written even when checks fail.
Gate ==
    /\ Exist({"manifest", "requests", "completion", "readiness", "handoff", "pack"})
    /\ Write("gate", gateReport)

\* Every template is copied over its evidence file.
Prepare(status) ==
    /\ Turn("manifest")
    /\ evidence' = [i \in Items |-> "placeholder"]
    /\ bundle' = [status |-> status, placeholders |-> TRUE]
    /\ file' = [file EXCEPT !.manifest = [status |-> status, byHand |-> FALSE]]
    /\ intact' = [manifest |-> Manifested, pack |-> intact.pack \ {"manifest", "bundle"}]
    /\ UNCHANGED <<roadmap, edits>>

-----------------------------------------------------------------------------
(***************************************************************************)
(* The people who fill the workspace                                       *)
(***************************************************************************)
Edit == edits < MaxEdits /\ edits' = edits + 1 /\ UNCHANGED progress

EditEvidence(i, c) ==
    /\ Edit /\ c # evidence[i]
    /\ evidence' = [evidence EXCEPT ![i] = c]
    /\ intact' = [intact EXCEPT !.manifest = @ \ {i}]
    /\ UNCHANGED <<bundle, roadmap, file>>

EditBundle(b) ==
    /\ Edit /\ b # bundle
    /\ bundle' = b
    /\ intact' = [manifest |-> intact.manifest \ {"bundle"}, pack |-> intact.pack \ {"bundle"}]
    /\ UNCHANGED <<evidence, roadmap, file>>

EditRoadmap(n) ==
    /\ Edit /\ n # roadmap
    /\ roadmap' = n
    /\ UNCHANGED <<evidence, bundle, file, intact>>

\* No script does this: prepare-deployment-evidence-workspace starts over.
\* Every file the manifest names must be there to be hashed.
RecutManifest ==
    /\ Edit /\ HandEdits
    /\ \A i \in Items : evidence[i] # "missing"
    /\ file' = [file EXCEPT !.manifest = [status |-> bundle.status, byHand |-> TRUE]]
    /\ intact' = [manifest |-> Manifested, pack |-> intact.pack \ {"manifest"}]
    /\ UNCHANGED <<evidence, bundle, roadmap>>

-----------------------------------------------------------------------------
\* A workspace as prepare-deployment-evidence-workspace leaves it, or as people
\* have completed it since, before any report was run.
Init ==
    /\ \E m \in Manifest, completed \in BOOLEAN :
           /\ m.byHand => HandEdits /\ completed
           /\ evidence = [i \in Items |-> IF completed THEN "final" ELSE "placeholder"]
           /\ bundle = [status |-> m.status, placeholders |-> ~completed]
           /\ file = [n \in Scripts |-> IF n = "manifest" THEN m ELSE Absent]
           /\ intact = [pack |-> {},
                        manifest |-> IF completed /\ ~m.byHand THEN {} ELSE Manifested]
    /\ roadmap \in 0..MaxRemaining
    /\ edits = 0
    /\ progress = [pass |-> 1, at |-> 1]

\* What writes neither the pack nor the gate's report.
Fill ==
    \/ \E s \in BundleStatuses : Prepare(s)
    \/ Requests \/ Status \/ Redaction \/ Completion \/ Readiness \/ Handoff
    \/ \E i \in Items, c \in Contents : EditEvidence(i, c)
    \/ \E b \in Bundle : EditBundle(b)
    \/ \E n \in 0..MaxRemaining : EditRoadmap(n)
    \/ RecutManifest

Next == Fill \/ Pack \/ Gate

Spec == Init /\ [][Next]_vars

-----------------------------------------------------------------------------
EvidenceTypeOK ==
    /\ evidence \in [Items -> Contents]
    /\ bundle \in Bundle
    /\ roadmap \in 0..MaxRemaining
    /\ DOMAIN file = Scripts
    /\ intact.manifest \subseteq Manifested /\ intact.pack \subseteq Packed
    /\ file.manifest \in Manifest

\* A pack whose hashes are all current says what its files say: what
\* package-phase-evidence copied cannot drift from what it hashed, whichever
\* scripts and edits come in between.
PackCopiesAgree ==
    file.pack # Absent /\ intact.pack = Packed =>
        packConsistent /\ file.pack = packSummary

\* When the release gate accepts this part of the workspace, the evidence of
\* this moment is what a production release needs, however old the files are
\* that say so.
ReleaseChecksMeanReady ==
    releaseChecks =>
        /\ bundle = [status |-> Target, placeholders |-> FALSE]
        /\ \A i \in Items : evidence[i] \in
               IF Target = "production" THEN {"final"} ELSE {"pilot", "final"}

\* Nothing is refused without a reason: complete evidence, an approved bundle,
\* a closed roadmap, a manifest of the files as they are, and the runbook run
\* after the last change, pass.
NothingElseMissing ==
    /\ \A i \in Items : evidence[i] = "final"
    /\ bundle = [status |-> Target, placeholders |-> FALSE]
    /\ roadmap = 0
Rerun ==
    /\ Exist(Scripts)
    /\ requestsValid
    /\ file.status = statusReport /\ file.redaction = redactionReport
    /\ file.completion.remaining = roadmap
    /\ file.readiness = readinessReport
    /\ file.handoff = handoffChecklist
    /\ packValid
    /\ file.gate = gateReport
CompleteIsAccepted == NothingElseMissing /\ Rerun /\ workspaceValid => releaseChecks

\* No sequence of scripts and edits makes the release gate accept this part on
\* a manifest of the script's own, which hashes the bundle with its placeholders:
\* somebody rewrites it by hand.  The README, and the one the script puts into
\* the workspace, say that it is enough to replace the placeholders.
AcceptedOnlyByHand == releaseChecks => file.manifest.byHand

\* No change of the evidence or of the bundle leaves the phase gate open.
ChangeClosesGate ==
    [][evidence' # evidence \/ bundle' # bundle => ~gateReportValid']_vars
=============================================================================
