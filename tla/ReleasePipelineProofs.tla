------------------------ MODULE ReleasePipelineProofs ------------------------
(***************************************************************************)
(* Machine-checked proofs about a release: about ReleaseGate, about        *)
(* DeploymentEvidence and about the two composed by ReleasePipeline, for   *)
(* any evidence and attachments, any target, and any number of edits,      *)
(* passes, reruns and commits.                                             *)
(*                                                                         *)
(* Of the review, the invariant says three things that no single file      *)
(* shows: an inventory whose hash still stands says what a scan of the     *)
(* file would say now, a register has a waiver exactly for what was not    *)
(* attached, and an intake that calls itself signed was relabelled by      *)
(* hand.  Of the workspace, it says what the hashes still cover: a bundle  *)
(* that a manifest of the script's own still covers has its placeholders,  *)
(* and a pack that still covers every file it hashed says what those files *)
(* say.  The composition adds that what the review reads of the workspace  *)
(* is what the workspace's files come to.                                  *)
(***************************************************************************)
EXTENDS ReleasePipeline, TLAPS

-----------------------------------------------------------------------------
(***************************************************************************)
(* The review and the release gate                                         *)
(***************************************************************************)
Ruled == {"none", "proposed"} \cup AllRulings

WaiversMatch ==
    file.waivers # Absent =>
        /\ "ruling" \in DOMAIN file.waivers
        /\ file.waivers.ruling \in [Items -> Ruled]
        /\ \A i \in Items : file.waivers.kind[i] # "attached" <=> file.waivers.ruling[i] # "none"
        /\ \A i \in expired : file.waivers.ruling[i] = "approved"

ScansStand ==
    /\ intact.inventory \subseteq Items
    /\ file.inventory # Absent =>
           \A i \in intact.inventory : /\ attach[i] # "absent"
                                       /\ file.inventory[i] = scanAttachment(i)

SignedByHand == file.intake # Absent => (file.intake.signed => file.intake.byHand)

Shapes ==
    /\ up \in Upstream
    /\ attach \in [Items -> Attachments]
    /\ expired \subseteq Items
    /\ DOMAIN file = Scripts
    /\ file.actions \in {Absent} \cup GateStates
    /\ DOMAIN intact = {"inventory", "review", "closure", "archive"}
    /\ intact.review \subseteq Reviewed
    /\ intact.closure \subseteq {"review"} /\ intact.archive \subseteq {"closure", "release"}

ReleaseInv == Shapes /\ WaiversMatch /\ ScansStand /\ SignedByHand

LEMMA ScriptNames ==
    Scripts = {"actions", "gaps", "decision", "signoffs", "intake", "inventory", "waivers",
               "review", "closure", "release", "archive"}
BY DEF Scripts, Order

\* What becomes of the four lists of hashes when s has been written.
LEMMA HashesAfter ==
    ASSUME Shapes, NEW n, NEW s \in Scripts \cup {"none"}, Changed(n, s)
    PROVE  /\ DOMAIN intact' = DOMAIN intact
           /\ intact'.review = IF s = "review" THEN Reviewed ELSE intact.review \ n
           /\ intact'.closure = IF s = "closure" THEN {"review"} ELSE intact.closure \ n
           /\ intact'.archive = IF s = "archive" THEN {"closure", "release"} ELSE intact.archive \ n
           /\ intact'.inventory = IF s = "inventory" THEN {i \in Items : attach[i] # "absent"}
                                  ELSE intact.inventory \ n
BY DEF Changed, Hashes, Shapes

\* Writing any script's file keeps the shapes, and what it does not touch.
LEMMA Written ==
    ASSUME ReleaseInv, NEW s \in Scripts, NEW content, Write(s, content),
           expired' = expired \/ expired' = {},
           s = "actions" => content \in GateStates
    PROVE  /\ Shapes'
           /\ file'[s] = content /\ \A t \in Scripts \ {s} : file'[t] = file[t]
           /\ attach' = attach
           /\ s # "inventory" => ScansStand'
           /\ s # "intake" => SignedByHand'
           /\ s # "waivers" /\ expired' = expired => WaiversMatch'
<1>1. /\ file' = [file EXCEPT ![s] = content] /\ UNCHANGED <<up, attach, source, edits>>
      /\ Changed({s}, s)
  BY DEF Write
<1>2. file'[s] = content /\ DOMAIN file' = Scripts /\ \A t \in Scripts \ {s} : file'[t] = file[t]
  BY <1>1 DEF ReleaseInv, Shapes
<1>3. Shapes'
  BY <1>1, <1>2, HashesAfter, ScriptNames DEF ReleaseInv, Shapes, Reviewed
<1>4. ASSUME s # "inventory" PROVE ScansStand'
  <2>1. file'.inventory = file.inventory /\ intact'.inventory \subseteq intact.inventory
    BY <1>1, <1>2, <1>4, HashesAfter, ScriptNames DEF ReleaseInv
  <2>. QED
    BY <1>1, <2>1 DEF ReleaseInv, ScansStand, scanAttachment
<1>5. ASSUME s # "intake" PROVE SignedByHand'
  BY <1>2, <1>5, ScriptNames DEF ReleaseInv, SignedByHand
<1>6. ASSUME s # "waivers", expired' = expired PROVE WaiversMatch'
  <2>1. file'.waivers = file.waivers
    BY <1>2, <1>6, ScriptNames
  <2>. QED
    BY <1>6, <2>1 DEF ReleaseInv, WaiversMatch
<1>. QED
  BY <1>1, <1>2, <1>3, <1>4, <1>5, <1>6

LEMMA ReviewInitInv ==
    ASSUME ReviewInit, up \in Upstream
    PROVE  ReleaseInv
<1>1. Shapes
  <2>1. attach \in [Items -> Attachments] /\ expired \subseteq Items
    BY DEF ReviewInit, Attachments
  <2>2. DOMAIN file = Scripts /\ file.actions = Absent
    BY ScriptNames DEF ReviewInit
  <2>. QED
    BY <2>1, <2>2 DEF ReviewInit, Shapes
<1>2. WaiversMatch /\ ScansStand
  BY ScriptNames DEF ReviewInit, WaiversMatch, ScansStand
<1>3. SignedByHand
  BY ScriptNames DEF ReviewInit, SignedByHand
<1>. QED
  BY <1>1, <1>2, <1>3 DEF ReleaseInv

LEMMA InitInv ==
    ASSUME Init
    PROVE  ReleaseInv
<1>1. Target \in Targets /\ Target \in BundleStatuses
  BY PhaseReviewAssumption DEF Targets
<1>2. PICK ready \in BOOLEAN :
          up = [gate |-> IF ready THEN "ready" ELSE "held", sound |-> ready,
                present |-> TRUE, status |-> Target, target |-> Target]
  BY DEF Init
<1>3. up \in Upstream
  <2>1. CASE ready
    BY <1>1, <1>2, <2>1 DEF Upstream, GateStates
  <2>2. CASE ~ready
    BY <1>1, <1>2, <2>2 DEF Upstream, GateStates
  <2>. QED
    BY <2>1, <2>2
<1>. QED
  BY <1>3, ReviewInitInv DEF Init

-----------------------------------------------------------------------------
\* The scripts that touch neither inventory, waivers nor intake.
LEMMA PlainScripts ==
    ASSUME ReleaseInv,
           \/ Actions \/ Gaps \/ Decision \/ Signoffs \/ Review \/ Closure \/ Release \/ Archive
    PROVE  ReleaseInv'
<1>1. CASE Actions
  <2>. up.gate \in GateStates
    BY DEF ReleaseInv, Shapes, Upstream
  <2>. QED
    BY <1>1, Written, ScriptNames DEF Actions, ReleaseInv
<1>2. CASE Gaps
  BY <1>2, Written, ScriptNames DEF Gaps, ReleaseInv
<1>3. CASE Decision
  BY <1>3, Written, ScriptNames DEF Decision, ReleaseInv
<1>4. CASE Signoffs
  BY <1>4, Written, ScriptNames DEF Signoffs, ReleaseInv
<1>5. CASE Review
  BY <1>5, Written, ScriptNames DEF Review, ReleaseInv
<1>6. CASE Closure
  BY <1>6, Written, ScriptNames DEF Closure, ReleaseInv
<1>7. CASE Release
  BY <1>7, Written, ScriptNames DEF Release, ReleaseInv
<1>8. CASE Archive
  BY <1>8, Written, ScriptNames DEF Archive, ReleaseInv
<1>. QED
  BY <1>1, <1>2, <1>3, <1>4, <1>5, <1>6, <1>7, <1>8

LEMMA IntakeInv ==
    ASSUME ReleaseInv, Intake
    PROVE  ReleaseInv'
<1>. DEFINE content == [signed |-> readyForSignoff(file.signoffs), byHand |-> FALSE]
<1>1. Write("intake", content) /\ expired' = expired /\ file.signoffs.pending
  BY DEF Intake
<1>2. ~readyForSignoff(file.signoffs)
  BY <1>1 DEF readyForSignoff
<1>3. ~content.signed
  BY <1>2
<1>. HIDE DEF content
<1>4. Shapes' /\ file'.intake = content /\ ScansStand' /\ WaiversMatch'
  BY <1>1, Written, ScriptNames
<1>. QED
  BY <1>3, <1>4 DEF ReleaseInv, SignedByHand

LEMMA InventoryInv ==
    ASSUME ReleaseInv, Inventory
    PROVE  ReleaseInv'
<1>1. Write("inventory", attachmentInventory) /\ expired' = expired
  BY DEF Inventory
<1>2. /\ Shapes' /\ SignedByHand' /\ WaiversMatch'
      /\ file'.inventory = attachmentInventory /\ attach' = attach
  BY <1>1, Written, ScriptNames
<1>3. intact'.inventory = {i \in Items : attach[i] # "absent"}
  BY <1>1, HashesAfter, ScriptNames DEF Write, ReleaseInv
<1>4. ScansStand'
  BY <1>2, <1>3 DEF ScansStand, attachmentInventory, scanAttachment
<1>. QED
  BY <1>2, <1>4 DEF ReleaseInv

LEMMA WaiversInv ==
    ASSUME ReleaseInv, Waivers
    PROVE  ReleaseInv'
<1>1. Write("waivers", waiverRegister) /\ expired' = {}
  BY DEF Waivers
<1>2. Shapes' /\ SignedByHand' /\ ScansStand' /\ file'.waivers = waiverRegister
  BY <1>1, Written, ScriptNames
<1>3. WaiversMatch'
  BY <1>1, <1>2 DEF WaiversMatch, waiverRegister, needsWaiver, Ruled
<1>. QED
  BY <1>2, <1>3 DEF ReleaseInv

\* The workspace moves under the review, whoever moves it.
LEMMA UpstreamMoves ==
    ASSUME ReleaseInv, up' \in Upstream,
           \/ \E files : UpstreamWritten(up', files)
           \/ UNCHANGED <<attach, expired, file, intact>>
    PROVE  ReleaseInv'
<1>1. /\ DOMAIN intact' = DOMAIN intact
      /\ \A k \in {"review", "closure", "archive", "inventory"} : intact'[k] \subseteq intact[k]
  BY DEF UpstreamWritten, ReleaseInv, Shapes, Changed
<1>2. UNCHANGED <<attach, expired, file>>
  BY DEF UpstreamWritten
<1>3. Shapes'
  BY <1>1, <1>2 DEF ReleaseInv, Shapes
<1>. QED
  BY <1>1, <1>2, <1>3 DEF ReleaseInv, WaiversMatch, ScansStand, SignedByHand, scanAttachment

LEMMA DriftsWithin ==
    ASSUME up \in Upstream, NEW present \in BOOLEAN, NEW status \in BundleStatuses,
           UpstreamDrifts(present, status)
    PROVE  up' \in Upstream
<1>1. up \in [gate : GateStates, present : BOOLEAN, status : BundleStatuses, target : Targets,
              sound : BOOLEAN]
  BY DEF Upstream
<1>. QED
  BY <1>1 DEF Upstream, UpstreamDrifts

LEMMA PeopleInv ==
    ASSUME ReleaseInv,
           \/ UpstreamNext
           \/ \E i \in Items, c \in Attachments : EditAttachment(i, c)
           \/ \E head \in 0..MaxCommits, clean \in BOOLEAN : Checkout(head, clean)
    PROVE  ReleaseInv'
<1>1. ASSUME NEW u \in Upstream, RerunUpstream(u) PROVE ReleaseInv'
  <2>1. up' = u /\ UpstreamWritten(up', {"pack", "gate"})
    BY <1>1 DEF RerunUpstream, UpstreamWritten
  <2>. QED
    BY <2>1, UpstreamMoves
<1>2. ASSUME NEW present \in BOOLEAN, NEW status \in BundleStatuses, Drift(present, status)
      PROVE  ReleaseInv'
  <2>1. UpstreamDrifts(present, status)
    BY <1>2 DEF Drift
  <2>2. UNCHANGED <<attach, expired, file, intact>>
    BY <2>1 DEF UpstreamDrifts
  <2>. QED
    BY <2>1, <2>2, DriftsWithin, UpstreamMoves DEF ReleaseInv, Shapes
<1>3. CASE \E i \in Items, c \in Attachments : EditAttachment(i, c)
  <2>1. PICK i \in Items, c \in Attachments : EditAttachment(i, c)
    BY <1>3
  <2>2. /\ attach' = [attach EXCEPT ![i] = c] /\ Changed({i}, "none")
        /\ UNCHANGED <<up, expired, file>>
    BY <2>1 DEF EditAttachment
  <2>3. Shapes' /\ intact'.inventory = intact.inventory \ {i}
    BY <2>2, HashesAfter DEF ReleaseInv, Shapes
  <2>4. ScansStand'
    BY <2>2, <2>3 DEF ReleaseInv, Shapes, ScansStand, scanAttachment
  <2>. QED
    BY <2>2, <2>3, <2>4 DEF ReleaseInv, WaiversMatch, SignedByHand
<1>4. CASE \E head \in 0..MaxCommits, clean \in BOOLEAN : Checkout(head, clean)
  <2>. UNCHANGED <<up, attach, expired, file, intact>>
    BY <1>4 DEF Checkout
  <2>. QED
    BY DEF ReleaseInv, Shapes, WaiversMatch, ScansStand, SignedByHand, scanAttachment
<1>. QED
  BY <1>1, <1>2, <1>3, <1>4 DEF UpstreamNext

LEMMA RulingInv ==
    ASSUME ReleaseInv, NEW i \in Items,
           (\E r \in Rulings : RuleWaiver(i, r)) \/ Expire(i)
    PROVE  ReleaseInv'
<1>1. CASE \E r \in Rulings : RuleWaiver(i, r)
  <2>1. PICK r \in Rulings : RuleWaiver(i, r)
    BY <1>1
  <2>2. /\ file.waivers # Absent /\ file.waivers.ruling[i] # "none"
        /\ file' = [file EXCEPT !.waivers.ruling[i] = r]
        /\ expired' = expired \ {i} /\ Changed({"waivers"}, "none") /\ UNCHANGED <<up, attach>>
    BY <2>1 DEF RuleWaiver, Exist, waived
  <2>3. /\ DOMAIN file' = DOMAIN file
        /\ \A s \in Scripts \ {"waivers"} : file'[s] = file[s]
        /\ file'.waivers = [file.waivers EXCEPT !.ruling = [@ EXCEPT ![i] = r]]
    BY <2>2, ScriptNames DEF ReleaseInv, Shapes
  <2>4. Shapes' /\ intact'.inventory \subseteq intact.inventory
    BY <2>2, <2>3, ScriptNames, HashesAfter DEF ReleaseInv, Shapes
  <2>5. ScansStand' /\ SignedByHand'
    BY <2>2, <2>3, <2>4, ScriptNames DEF ReleaseInv, ScansStand, SignedByHand, scanAttachment
  <2>6. WaiversMatch'
    <3>1. r \in AllRulings /\ r # "none"
      BY PhaseReviewAssumption DEF AllRulings
    <3>2. /\ "ruling" \in DOMAIN file.waivers /\ file.waivers.ruling \in [Items -> Ruled]
          /\ \A j \in Items : file.waivers.kind[j] # "attached" <=> file.waivers.ruling[j] # "none"
          /\ \A j \in expired : file.waivers.ruling[j] = "approved"
      BY <2>2 DEF ReleaseInv, WaiversMatch
    <3>3. file'.waivers.kind = file.waivers.kind
      BY <2>3
    <3>4. /\ "ruling" \in DOMAIN file'.waivers
          /\ file'.waivers.ruling = [file.waivers.ruling EXCEPT ![i] = r]
      BY <2>3, <3>2
    <3>5. file'.waivers.ruling \in [Items -> Ruled]
      BY <3>1, <3>2, <3>4 DEF Ruled
    <3>6. \A j \in Items : file'.waivers.ruling[j] = IF j = i THEN r ELSE file.waivers.ruling[j]
      BY <3>2, <3>4
    <3>7. \A j \in expired' : file'.waivers.ruling[j] = "approved"
      BY <2>2, <3>2, <3>6 DEF ReleaseInv, Shapes
    <3>8. \A j \in Items : file'.waivers.kind[j] # "attached" <=> file'.waivers.ruling[j] # "none"
      BY <2>2, <3>1, <3>2, <3>3, <3>6
    <3>. QED
      BY <3>4, <3>5, <3>7, <3>8 DEF WaiversMatch
  <2>. QED
    BY <2>4, <2>5, <2>6 DEF ReleaseInv
<1>2. CASE Expire(i)
  <2>. /\ file.waivers # Absent /\ file.waivers.ruling[i] = "approved"
       /\ expired' = expired \cup {i} /\ UNCHANGED <<up, attach, file, intact>>
    BY <1>2 DEF Expire, Exist
  <2>. QED
    BY DEF ReleaseInv, Shapes, WaiversMatch, ScansStand, SignedByHand, scanAttachment
<1>. QED
  BY <1>1, <1>2

LEMMA RelabelInv ==
    ASSUME ReleaseInv, RelabelIntake
    PROVE  ReleaseInv'
<1>1. /\ file' = [file EXCEPT !.intake = [signed |-> ~@.signed, byHand |-> TRUE]]
      /\ Changed({"intake"}, "none") /\ UNCHANGED <<up, attach, expired>>
  BY DEF RelabelIntake
<1>2. /\ DOMAIN file' = DOMAIN file /\ \A s \in Scripts \ {"intake"} : file'[s] = file[s]
      /\ file'.intake.byHand
  BY <1>1, ScriptNames DEF ReleaseInv, Shapes
<1>3. Shapes' /\ intact'.inventory \subseteq intact.inventory
  BY <1>1, <1>2, ScriptNames, HashesAfter DEF ReleaseInv, Shapes
<1>. QED
  BY <1>1, <1>2, <1>3, ScriptNames
  DEF ReleaseInv, ScansStand, SignedByHand, WaiversMatch, scanAttachment

LEMMA InvStep ==
    ASSUME ReleaseInv, [Next]_vars
    PROVE  ReleaseInv'
<1>1. CASE UNCHANGED vars
  BY <1>1 DEF vars, ReleaseInv, Shapes, WaiversMatch, ScansStand, SignedByHand, scanAttachment
<1>. QED
  BY <1>1, PlainScripts, IntakeInv, InventoryInv, WaiversInv, PeopleInv, RulingInv, RelabelInv
  DEF Next, ReviewNext

LEMMA InvHolds == Spec => []ReleaseInv
BY InitInv, InvStep, PTL DEF Spec

\* What the files and the four lists of hashes hold, for any files asked for.
THEOREM ReleaseTypeCorrect == Spec => []ReleaseTypeOK
<1>1. ReleaseInv => ReleaseTypeOK
  BY DEF ReleaseInv, Shapes, WaiversMatch, ScansStand, ReleaseTypeOK, Ruled
<1>. QED
  BY <1>1, InvHolds, PTL

-----------------------------------------------------------------------------
(***************************************************************************)
(* What an accepted report and an accepted archive say                     *)
(***************************************************************************)
LEMMA NoBlockers ==
    ASSUME releaseAccepted
    PROVE  /\ Exist(Scripts \ {"release", "archive"}) /\ up.sound
           /\ actionsValid /\ decisionValid /\ signoffsValid /\ intakeValid
           /\ inventoryValid /\ redacted /\ waiversValid /\ waiversApproved
           /\ reviewValid /\ closureValid /\ file.review.decision
<1>1. releaseBlockers = {}
  BY DEF releaseAccepted, releaseReport
<1>. DEFINE blocks(c) ==
        CASE c = "upstream" -> ~up.sound
          [] c = "actions" -> ~actionsValid
          [] c = "gaps" -> ~gapsValid
          [] c = "decision" -> ~decisionValid
          [] c = "signoffs" -> ~signoffsValid
          [] c = "intake" -> ~intakeValid
          [] c = "inventory" -> ~(inventoryValid /\ redacted)
          [] c = "waivers" -> ~(waiversValid /\ waiversApproved)
          [] c = "review" -> ~(reviewValid /\ waiversApproved)
          [] c = "closure" -> ~closureValid
          [] c = "missing" -> ~Exist(Scripts \ {"release", "archive"})
          [] c = "notReady" -> Exist({"review"}) /\ file.review.gate # "ready"
          [] c = "notApproved" -> Exist({"review"}) /\ ~file.review.decision
          [] c = "target" -> Exist({"closure"}) /\ file.closure.review.target # Target
          [] c = "dirty" -> Exist({"closure"}) /\ ~file.closure.source.clean
<1>2. \A c \in ReleaseChecks : ~blocks(c)
  BY <1>1 DEF releaseBlockers
<1>3. /\ ~blocks("upstream") /\ ~blocks("actions") /\ ~blocks("decision") /\ ~blocks("signoffs")
      /\ ~blocks("intake") /\ ~blocks("inventory") /\ ~blocks("waivers") /\ ~blocks("review")
      /\ ~blocks("closure") /\ ~blocks("missing") /\ ~blocks("notApproved")
  BY <1>2 DEF ReleaseChecks
<1>4. "review" \in Scripts \ {"release", "archive"}
  BY ScriptNames
<1>. QED
  BY <1>1, <1>3, <1>4 DEF Exist

LEMMA AcceptedIsEvidenced == ReleaseInv => ReleasedIsEvidenced
<1>1. ASSUME ReleaseInv, releaseAccepted, NEW i \in Items
      PROVE  \/ attach[i] = "clean"
             \/ attach[i] = "absent" /\ file.waivers.ruling[i] = "approved" /\ i \notin expired
  <2>1. /\ file.inventory # Absent /\ file.waivers # Absent
        /\ inventoryValid /\ redacted /\ waiversValid /\ waiversApproved
    BY <1>1, NoBlockers, ScriptNames DEF Exist
  <2>2. CASE attach[i] = "absent"
    <3>1. file.waivers.kind[i] = "missing"
      BY <2>1, <2>2 DEF inventoryValid, waiversValid
    <3>2. i \in waived
      BY <1>1, <2>1, <3>1 DEF ReleaseInv, WaiversMatch, waived
    <3>. QED
      BY <2>1, <2>2, <3>2 DEF waiversApproved
  <2>3. CASE attach[i] # "absent"
    <3>1. i \in intact.inventory /\ file.inventory[i] # "finding"
      BY <2>1, <2>3 DEF inventoryValid, redacted
    <3>2. file.inventory[i] = scanAttachment(i)
      BY <1>1, <2>1, <3>1 DEF ReleaseInv, ScansStand
    <3>. QED
      BY <1>1, <2>3, <3>1, <3>2 DEF scanAttachment, ReleaseInv, Shapes, Attachments
  <2>. QED
    BY <2>2, <2>3
<1>. QED
  BY <1>1, NoBlockers DEF ReleasedIsEvidenced

\* The report of the gate is accepted only while every file asked for is there
\* and clean, or missing under an approved waiver that has not run out.
THEOREM Evidenced == Spec => []ReleasedIsEvidenced
BY AcceptedIsEvidenced, InvHolds, PTL

\* The gate opens only on an intake that was relabelled by hand: the script
\* writes one while actions are pending, and a report is accepted only when
\* none is.
THEOREM ReleaseByHand == Spec => []ReleasedOnlyByHand
<1>1. ASSUME ReleaseInv, releaseAccepted
      PROVE  file.intake.byHand
  <2>1. /\ file.intake # Absent /\ up.sound /\ actionsValid /\ signoffsValid /\ intakeValid
        /\ reviewValid /\ file.review.decision
    BY <1>1, NoBlockers, ScriptNames DEF Exist
  <2>2. ~pendingActions
    BY <1>1, <2>1 DEF ReleaseInv, Shapes, Upstream, actionsValid, pendingActions
  <2>3. approves(file.decision)
    BY <2>1 DEF reviewValid, reviewManifest
  <2>4. file.signoffs.decision /\ ~file.signoffs.pending
    BY <2>1, <2>2, <2>3 DEF signoffsValid, signoffMatrix
  <2>5. file.intake.signed
    BY <2>1, <2>4 DEF intakeValid, readyForSignoff
  <2>. QED
    BY <1>1, <2>1, <2>5 DEF ReleaseInv, SignedByHand
<1>2. ReleaseInv => ReleasedOnlyByHand
  BY <1>1 DEF ReleasedOnlyByHand
<1>. QED
  BY <1>2, InvHolds, PTL

\* An accepted archive is about the commit that is checked out and about the
\* review as it would be written now.
THEOREM Current == Spec => []ArchiveIsCurrent
<1>1. ASSUME archiveAccepted
      PROVE  /\ file.archive.closure.source.head = source.head
             /\ file.archive.closure.review = reviewManifest
  <2>1. closureValid /\ reviewValid /\ file.archive.closure = file.closure
    BY <1>1, NoBlockers DEF archiveAccepted, releaseArchive
  <2>. QED
    BY <2>1 DEF closureValid, reviewValid
<1>2. ArchiveIsCurrent
  BY <1>1 DEF ArchiveIsCurrent
<1>. QED
  BY <1>2, PTL

WhatArchived ==
    /\ intact.review = Reviewed /\ intact.closure = {"review"}
    /\ intact.archive = {"closure", "release"}
    /\ file.closure.source.head = source.head
    /\ file.inventory # Absent /\ file.waivers # Absent
    /\ up.sound /\ inventoryValid /\ waiversApproved

LEMMA AcceptedArchive == archiveAccepted => WhatArchived
<1>. SUFFICES ASSUME archiveAccepted PROVE WhatArchived
  OBVIOUS
<1>1. releaseAccepted /\ closureValid /\ intact.archive = {"closure", "release"}
  BY DEF archiveAccepted
<1>2. /\ reviewValid /\ inventoryValid /\ waiversApproved /\ up.sound
      /\ Exist(Scripts \ {"release", "archive"})
  BY <1>1, NoBlockers
<1>. QED
  BY <1>1, <1>2, ScriptNames DEF WhatArchived, reviewValid, closureValid, Exist

LEMMA AcceptedNext == archiveAccepted' => WhatArchived'
BY AcceptedArchive, PTL

\* A script other than the last writes something the archive or the review
\* has hashed.
LEMMA WritingCloses ==
    ASSUME Shapes, NEW s \in Scripts \ {"archive"}, NEW content, Write(s, content),
           archiveAccepted
    PROVE  ~archiveAccepted'
<1>1. Changed({s}, s)
  BY DEF Write
<1>2. /\ intact'.review = IF s = "review" THEN Reviewed ELSE intact.review \ {s}
      /\ intact'.closure = IF s = "closure" THEN {"review"} ELSE intact.closure \ {s}
      /\ intact'.archive = intact.archive \ {s}
  BY <1>1, HashesAfter
<1>3. CASE s \in {"closure", "release"}
  <2>1. s \notin intact'.archive
    BY <1>2
  <2>. QED
    BY <1>3, <2>1, AcceptedNext DEF WhatArchived
<1>4. CASE s = "review"
  <2>1. s \notin intact'.closure
    BY <1>2, <1>4
  <2>. QED
    BY <1>4, <2>1, AcceptedNext DEF WhatArchived
<1>5. CASE s \notin {"closure", "release", "review"}
  <2>1. s \in Reviewed /\ s \notin intact'.review
    BY <1>2, <1>5, ScriptNames DEF Reviewed
  <2>. QED
    BY <2>1, AcceptedNext DEF WhatArchived
<1>. QED
  BY <1>3, <1>4, <1>5

LEMMA Unhashed ==
    ASSUME Shapes, NEW n, Changed(n, "none")
    PROVE  /\ intact'.review = intact.review \ n
           /\ intact'.inventory = intact.inventory \ n
BY DEF Changed, Shapes

\* Time runs out, the intake is relabelled, evidence drifts or is attached
\* anew: each is noticed by a check the archive rests on.
LEMMA PeopleClose ==
    ASSUME ReleaseInv, archiveAccepted,
           \/ UpstreamNext
           \/ \E i \in Items : \/ \E c \in Attachments : EditAttachment(i, c)
                               \/ \E r \in Rulings : RuleWaiver(i, r)
                               \/ Expire(i)
           \/ RelabelIntake
    PROVE  ~archiveAccepted'
<1>1. ASSUME NEW n, n \cap Reviewed # {}, Changed(n, "none")
      PROVE  ~archiveAccepted'
  <2>1. intact'.review = intact.review \ n
    BY <1>1, Unhashed DEF ReleaseInv
  <2>. QED
    BY <1>1, <2>1, AcceptedNext DEF WhatArchived
<1>2. ASSUME NEW u \in Upstream, RerunUpstream(u) PROVE ~archiveAccepted'
  <2>1. {"pack", "gate"} \cap Reviewed # {} /\ Changed({"pack", "gate"}, "none")
    BY <1>2 DEF RerunUpstream, UpstreamWritten, Reviewed
  <2>. QED
    BY <1>1, <2>1
<1>3. ASSUME NEW present, NEW status, Drift(present, status) PROVE ~archiveAccepted'
  BY <1>3, AcceptedNext DEF Drift, UpstreamDrifts, WhatArchived, ReleaseInv, Shapes, Upstream
<1>4. ASSUME NEW i \in Items, NEW c \in Attachments, EditAttachment(i, c)
      PROVE  ~archiveAccepted'
  <2>1. /\ c # attach[i] /\ attach' = [attach EXCEPT ![i] = c] /\ file' = file
        /\ Changed({i}, "none")
    BY <1>4 DEF EditAttachment
  <2>2. attach'[i] = c /\ i \notin intact'.inventory
    BY <2>1, Unhashed DEF ReleaseInv, Shapes
  <2>3. ASSUME archiveAccepted'
        PROVE  attach'[i] = "absent" /\ file.inventory[i] = "missing"
    BY <2>1, <2>2, <2>3, AcceptedNext DEF WhatArchived, inventoryValid
  <2>4. attach[i] # "absent" => file.inventory[i] # "missing"
    BY AcceptedArchive DEF WhatArchived, inventoryValid, ReleaseInv, ScansStand, scanAttachment
  <2>. QED
    BY <2>1, <2>2, <2>3, <2>4
<1>5. ASSUME NEW i \in Items, NEW r, RuleWaiver(i, r) PROVE ~archiveAccepted'
  <2>1. {"waivers"} \cap Reviewed # {} /\ Changed({"waivers"}, "none")
    BY <1>5 DEF RuleWaiver, Reviewed
  <2>. QED
    BY <1>1, <2>1
<1>6. ASSUME NEW i \in Items, Expire(i) PROVE ~archiveAccepted'
  <2>1. i \in waived' /\ i \in expired'
    BY <1>6 DEF Expire, waived
  <2>. QED
    BY <2>1, AcceptedNext DEF WhatArchived, waiversApproved
<1>7. ASSUME RelabelIntake PROVE ~archiveAccepted'
  <2>1. {"intake"} \cap Reviewed # {} /\ Changed({"intake"}, "none")
    BY <1>7 DEF RelabelIntake, Reviewed
  <2>. QED
    BY <1>1, <2>1
<1>. QED
  BY <1>2, <1>3, <1>4, <1>5, <1>6, <1>7 DEF UpstreamNext

\* While an archive is and stays accepted, nothing it is about changes: no
\* script writes its file again, no evidence, waiver or commit moves.
THEOREM ArchiveClosing == Spec => ChangeClosesArchive
<1>1. ASSUME ReleaseInv, Next, archiveAccepted, archiveAccepted'
      PROVE  UNCHANGED <<up, attach, expired, source.head, [file EXCEPT !.archive = Absent]>>
  <2>1. Archive \/ \E head \in 0..MaxCommits, clean \in BOOLEAN : Checkout(head, clean)
    <3>1. ~(Actions \/ Gaps \/ Decision \/ Signoffs \/ Intake \/ Inventory \/ Waivers \/ Review
            \/ Closure \/ Release)
      BY <1>1, WritingCloses, ScriptNames
      DEF ReleaseInv, Actions, Gaps, Decision, Signoffs, Intake, Inventory, Waivers, Review,
          Closure, Release
    <3>. QED
      BY <1>1, <3>1, PeopleClose DEF Next, ReviewNext
  <2>2. CASE Archive
    BY <2>2 DEF Archive, Write
  <2>3. ASSUME NEW head, NEW clean, Checkout(head, clean)
        PROVE  UNCHANGED <<up, attach, expired, source.head, [file EXCEPT !.archive = Absent]>>
    <3>1. UNCHANGED <<up, attach, expired, file>>
      BY <2>3 DEF Checkout
    <3>2. source'.head = source.head
      BY <1>1, <3>1, AcceptedArchive, AcceptedNext DEF WhatArchived
    <3>. QED
      BY <3>1, <3>2
  <2>. QED
    BY <2>1, <2>2, <2>3
<1>2. ASSUME ReleaseInv, [Next]_vars
      PROVE  [archiveAccepted /\ archiveAccepted' =>
                  UNCHANGED <<up, attach, expired, source.head,
                              [file EXCEPT !.archive = Absent]>>]_vars
  BY <1>1, <1>2
<1>. QED
  BY <1>2, InvHolds, PTL DEF Spec, ChangeClosesArchive

\* Nothing is refused without a reason: what was run in the order of the
\* runbook, with nothing open, is accepted.
THEOREM ArchiveAccepting == Spec => []InOrderIsAccepted
<1>1. ASSUME ReleaseInv, RanInOrder, NothingOpen PROVE archiveAccepted
  <2>1. /\ actionsValid /\ gapsValid /\ decisionValid /\ signoffsValid /\ intakeValid
        /\ inventoryValid /\ waiversValid /\ reviewValid /\ Exist(Scripts)
        /\ file.review = reviewManifest /\ file.closure = closureArchive
        /\ up.sound /\ up.gate = "ready" /\ up.present = TRUE /\ up.target = Target
    BY <1>1 DEF RanInOrder, NothingOpen, reviewValid, ReleaseInv, Shapes, Upstream
  <2>2. ASSUME NEW i \in Items
        PROVE  \/ file.inventory[i] = "attached"
               \/ /\ file.inventory[i] = "missing" /\ i \notin expired
                  /\ file.waivers.ruling[i] = "approved"
    BY <1>1, <2>1, ScriptNames
    DEF NothingOpen, inventoryValid, ReleaseInv, ScansStand, scanAttachment, Exist
  <2>3. redacted
    BY <2>2 DEF redacted
  <2>4. waiversApproved
    BY <1>1, <2>1, <2>2, ScriptNames
    DEF waiversApproved, waived, waiversValid, ReleaseInv, WaiversMatch, Exist
  <2>5. approves(file.decision)
    <3>1. ~pendingActions /\ file.gaps.present = TRUE /\ file.decision = decisionRecord
      BY <2>1 DEF pendingActions, actionsValid, gapsValid, decisionValid
    <3>2. decisionRecord.pending = FALSE
      BY <3>1 DEF decisionRecord
    <3>. QED
      BY <2>1, <3>1, <3>2 DEF approves, decisionRecord
  <2>6. /\ file.review.target = Target /\ file.review.gate = "ready" /\ file.review.decision
        /\ file.closure.review = file.review /\ file.closure.source = source
    BY <2>1, <2>5 DEF reviewManifest, closureArchive
  <2>7. closureValid
    BY <1>1, <2>1, <2>4, <2>6, ScriptNames
    DEF closureValid, RanInOrder, NothingOpen, Exist
  <2>8. releaseBlockers = {}
    <3>1. Exist(Scripts \ {"release", "archive"})
      BY <2>1 DEF Exist
    <3>. QED
      BY <1>1, <2>1, <2>3, <2>4, <2>6, <2>7, <3>1
      DEF releaseBlockers, ReleaseChecks, NothingOpen
  <2>9. releaseAccepted
    BY <1>1, <2>1, <2>6, <2>8, ScriptNames
    DEF releaseAccepted, releaseReport, GateRuns, RanInOrder, Exist
  <2>. QED
    BY <1>1, <2>6, <2>7, <2>9, ScriptNames DEF archiveAccepted, RanInOrder, Exist
<1>2. ReleaseInv => InOrderIsAccepted
  BY <1>1 DEF InOrderIsAccepted
<1>. QED
  BY <1>2, InvHolds, PTL

-----------------------------------------------------------------------------
(***************************************************************************)
(* The deployment evidence workspace                                       *)
(***************************************************************************)
LEMMA EvidenceAssumption ==
    /\ IsFiniteSet(EvidenceItems) /\ EvidenceItems # {} /\ "bundle" \notin EvidenceItems
    /\ Target \in {"pilot", "production"}
    /\ {"placeholder", "final"} \subseteq Contents /\ Contents \subseteq Evidence!AllContents
    /\ BundleStatuses \subseteq {"planned", "pilot", "production", "retired"}
    /\ HandEdits \in BOOLEAN
    /\ {MaxRemaining, MaxWorkEdits, MaxPasses} \subseteq Nat
BY ReleasePipelineAssumption, PhaseReviewAssumption DEF Evidence!AllContents

BundleAsPrepared ==
    "bundle" \in covered.manifest /\ ~reports.manifest.byHand => bundle.placeholders

TargetKept ==
    \A s \in {"readiness", "pack"} : reports[s] # Absent => reports[s].target = Target

EvidenceInv ==
    /\ Evidence!EvidenceTypeOK
    /\ DOMAIN covered = {"manifest", "pack"}
    /\ BundleAsPrepared
    /\ Evidence!PackCopiesAgree
    /\ TargetKept

LEMMA WorkspaceScripts ==
    /\ Evidence!Scripts = {"manifest", "requests", "status", "redaction", "completion",
                           "readiness", "handoff", "pack", "gate"}
    /\ Evidence!Packed = {"manifest", "requests", "status", "redaction", "completion",
                          "readiness", "handoff", "bundle"}
BY DEF Evidence!Scripts, Evidence!Order, Evidence!Packed

LEMMA WorkspaceInit ==
    ASSUME Evidence!Init
    PROVE  EvidenceInv
<1>. PICK m \in Evidence!Manifest, completed \in BOOLEAN :
         /\ m.byHand => HandEdits /\ completed
         /\ evidence = [i \in EvidenceItems |-> IF completed THEN "final" ELSE "placeholder"]
         /\ bundle = [status |-> m.status, placeholders |-> ~completed]
         /\ reports = [n \in Evidence!Scripts |-> IF n = "manifest" THEN m ELSE Absent]
         /\ covered = [pack |-> {},
                      manifest |-> IF completed /\ ~m.byHand THEN {} ELSE Evidence!Manifested]
  BY DEF Evidence!Init
<1>1. evidence \in [EvidenceItems -> Contents] /\ bundle \in Evidence!Bundle
  BY EvidenceAssumption DEF Evidence!Bundle, Evidence!Manifest
<1>2. DOMAIN reports = Evidence!Scripts /\ reports.manifest = m /\ reports.pack = Absent
  BY WorkspaceScripts
<1>3. Evidence!EvidenceTypeOK
  BY <1>1, <1>2 DEF Evidence!Init, Evidence!EvidenceTypeOK
<1>4. BundleAsPrepared
  BY <1>2 DEF BundleAsPrepared, Evidence!Manifest
<1>5. TargetKept
  BY WorkspaceScripts DEF TargetKept
<1>. QED
  BY <1>2, <1>3, <1>4, <1>5, WorkspaceScripts DEF EvidenceInv, Evidence!PackCopiesAgree

-----------------------------------------------------------------------------
(***************************************************************************)
(* What the steps keep                                                     *)
(***************************************************************************)
\* What a pack says depends on four files, and whether it is consistent on one
\* more.
PackSaysTheSame ==
    /\ Evidence!packSummary' = Evidence!packSummary
    /\ Evidence!packConsistent' <=> Evidence!packConsistent

LEMMA SamePack ==
    ASSUME \A s \in {"manifest", "status", "redaction", "completion", "readiness"} :
               reports'[s] = reports[s]
    PROVE  PackSaysTheSame
<1>. /\ reports'.manifest = reports.manifest /\ reports'.status = reports.status
     /\ reports'.redaction = reports.redaction /\ reports'.completion = reports.completion
     /\ reports'.readiness = reports.readiness
  OBVIOUS
<1>. QED
  BY DEF PackSaysTheSame, Evidence!packSummary, Evidence!packConsistent

\* The files and the hashes stay, and what is edited keeps its shape.
LEMMA FilesStay ==
    ASSUME EvidenceInv, reports' = reports,
           covered'.manifest \subseteq covered.manifest, covered'.pack \subseteq covered.pack,
           DOMAIN covered' = {"manifest", "pack"},
           evidence' \in [EvidenceItems -> Contents], bundle' \in Evidence!Bundle,
           roadmap' \in 0..MaxRemaining,
           bundle' = bundle \/ "bundle" \notin covered'.manifest
    PROVE  EvidenceInv'
<1>1. PackSaysTheSame
  BY SamePack
<1>2. Evidence!EvidenceTypeOK'
  BY DEF EvidenceInv, Evidence!EvidenceTypeOK
<1>3. BundleAsPrepared' /\ TargetKept'
  BY DEF EvidenceInv, BundleAsPrepared, TargetKept
<1>4. Evidence!PackCopiesAgree'
  BY <1>1 DEF PackSaysTheSame, EvidenceInv, Evidence!EvidenceTypeOK, Evidence!PackCopiesAgree
<1>. QED
  BY <1>2, <1>3, <1>4 DEF EvidenceInv

\* A script writes a report: the pack no longer covers it, or it is the
\* checklist as it was, or the phase gate's, which no pack covers.
LEMMA ReportWritten ==
    ASSUME EvidenceInv, NEW s \in Evidence!Scripts \ {"manifest", "pack"}, NEW content,
           Evidence!Write(s, content), s = "readiness" => content.target = Target
    PROVE  EvidenceInv'
<1>1. /\ reports' = [reports EXCEPT ![s] = content]
      /\ covered' = IF content = reports[s] /\ s = "handoff" THEN covered
                   ELSE [covered EXCEPT !.pack = @ \ {s}]
      /\ UNCHANGED <<evidence, bundle, roadmap>>
  BY DEF Evidence!Write
<1>2. /\ DOMAIN reports' = Evidence!Scripts
      /\ \A t \in Evidence!Scripts \ {s} : reports'[t] = reports[t]
  BY <1>1 DEF EvidenceInv, Evidence!EvidenceTypeOK
<1>3. /\ DOMAIN covered' = {"manifest", "pack"} /\ covered'.manifest = covered.manifest
      /\ covered'.pack \subseteq covered.pack
      /\ s \notin covered'.pack \/ s = "handoff"
  BY <1>1 DEF EvidenceInv
<1>4. Evidence!EvidenceTypeOK'
  BY <1>1, <1>2, <1>3, WorkspaceScripts DEF EvidenceInv, Evidence!EvidenceTypeOK
<1>5. BundleAsPrepared'
  BY <1>1, <1>2, <1>3, WorkspaceScripts DEF EvidenceInv, BundleAsPrepared
<1>6. Evidence!PackCopiesAgree'
  <2>1. CASE s \in {"gate", "handoff"}
    <3>1. PackSaysTheSame
      BY <1>2, <2>1, SamePack, WorkspaceScripts
    <3>2. /\ reports'.pack = reports.pack
          /\ covered'.pack = Evidence!Packed => covered.pack = Evidence!Packed
      BY <1>2, <1>3, <2>1, WorkspaceScripts DEF EvidenceInv, Evidence!EvidenceTypeOK
    <3>. QED
      BY <3>1, <3>2 DEF PackSaysTheSame, EvidenceInv, Evidence!PackCopiesAgree
  <2>2. CASE s \notin {"gate", "handoff"}
    <3>1. s \in Evidence!Packed /\ s \notin covered'.pack
      BY <1>3, <2>2, WorkspaceScripts
    <3>. QED
      BY <3>1 DEF Evidence!PackCopiesAgree
  <2>. QED
    BY <2>1, <2>2
<1>7. TargetKept'
  BY <1>1, <1>2, WorkspaceScripts DEF EvidenceInv, Evidence!EvidenceTypeOK, TargetKept
<1>. QED
  BY <1>3, <1>4, <1>5, <1>6, <1>7 DEF EvidenceInv

LEMMA PackWritten ==
    ASSUME EvidenceInv, Evidence!Pack
    PROVE  EvidenceInv'
<1>1. /\ Evidence!packConsistent /\ reports' = [reports EXCEPT !.pack = Evidence!packSummary]
      /\ covered' = [covered EXCEPT !.pack = Evidence!Packed]
      /\ UNCHANGED <<evidence, bundle, roadmap>>
  BY DEF Evidence!Pack
<1>2. /\ DOMAIN reports' = Evidence!Scripts /\ reports'.pack = Evidence!packSummary
      /\ \A t \in Evidence!Scripts \ {"pack"} : reports'[t] = reports[t]
  BY <1>1, WorkspaceScripts DEF EvidenceInv, Evidence!EvidenceTypeOK
<1>3. /\ DOMAIN covered' = {"manifest", "pack"} /\ covered'.manifest = covered.manifest
      /\ covered'.pack = Evidence!Packed
  BY <1>1 DEF EvidenceInv
<1>4. PackSaysTheSame
  BY <1>2, SamePack, WorkspaceScripts
<1>5. TargetKept'
  <2>1. reports.readiness # Absent
    BY WorkspaceScripts DEF Evidence!Pack, Evidence!Exist
  <2>. QED
    BY <1>2, <2>1, WorkspaceScripts DEF EvidenceInv, TargetKept, Evidence!packSummary
<1>. QED
  BY <1>1, <1>2, <1>3, <1>4, <1>5, WorkspaceScripts
  DEF PackSaysTheSame, EvidenceInv, Evidence!EvidenceTypeOK, BundleAsPrepared,
      Evidence!PackCopiesAgree

\* A new manifest is of the script's making, over a bundle with placeholders,
\* or of somebody's hand.
LEMMA ManifestWritten ==
    ASSUME EvidenceInv,
           (\E s \in BundleStatuses : Evidence!Prepare(s)) \/ Evidence!RecutManifest
    PROVE  EvidenceInv'
<1>1. PICK m \in Evidence!Manifest :
          /\ reports' = [reports EXCEPT !.manifest = m]
          /\ covered'.manifest = Evidence!Manifested /\ DOMAIN covered' = {"manifest", "pack"}
          /\ covered'.pack \subseteq covered.pack \ {"manifest"}
          /\ m.byHand \/ bundle'.placeholders
          /\ evidence' \in [EvidenceItems -> Contents] /\ bundle' \in Evidence!Bundle
          /\ roadmap' = roadmap
  <2>1. ASSUME NEW s \in BundleStatuses, Evidence!Prepare(s)
        PROVE  /\ [status |-> s, byHand |-> FALSE] \in Evidence!Manifest
               /\ evidence' \in [EvidenceItems -> Contents] /\ bundle' \in Evidence!Bundle
               /\ bundle'.placeholders
    BY <2>1, EvidenceAssumption DEF Evidence!Prepare, Evidence!Manifest, Evidence!Bundle
  <2>2. CASE \E s \in BundleStatuses : Evidence!Prepare(s)
    <3>1. PICK s \in BundleStatuses : Evidence!Prepare(s)
      BY <2>2
    <3>2. /\ reports' = [reports EXCEPT !.manifest = [status |-> s, byHand |-> FALSE]]
          /\ covered'.manifest = Evidence!Manifested /\ DOMAIN covered' = {"manifest", "pack"}
          /\ covered'.pack \subseteq covered.pack \ {"manifest"} /\ roadmap' = roadmap
      BY <3>1 DEF Evidence!Prepare
    <3>. QED
      BY <2>1, <3>1, <3>2
  <2>3. CASE Evidence!RecutManifest
    <3>1. [status |-> bundle.status, byHand |-> TRUE] \in Evidence!Manifest
      BY DEF EvidenceInv, Evidence!EvidenceTypeOK, Evidence!Bundle, Evidence!Manifest
    <3>. QED
      BY <2>3, <3>1 DEF Evidence!RecutManifest, EvidenceInv, Evidence!EvidenceTypeOK
  <2>. QED
    BY <2>2, <2>3
<1>2. /\ DOMAIN reports' = Evidence!Scripts /\ reports'.manifest = m
      /\ \A t \in Evidence!Scripts \ {"manifest"} : reports'[t] = reports[t]
  BY <1>1, WorkspaceScripts DEF EvidenceInv, Evidence!EvidenceTypeOK
<1>3. Evidence!EvidenceTypeOK'
  BY <1>1, <1>2 DEF EvidenceInv, Evidence!EvidenceTypeOK
<1>4. covered'.pack # Evidence!Packed
  BY <1>1, WorkspaceScripts
<1>5. TargetKept'
  BY <1>2, WorkspaceScripts DEF EvidenceInv, TargetKept
<1>. QED
  BY <1>1, <1>2, <1>3, <1>4, <1>5 DEF EvidenceInv, BundleAsPrepared, Evidence!PackCopiesAgree

\* Edits of the evidence and of the bundle are no longer covered.
LEMMA WorkspaceEdited ==
    ASSUME EvidenceInv,
           \/ \E i \in EvidenceItems, c \in Contents : Evidence!EditEvidence(i, c)
           \/ \E b \in Evidence!Bundle : Evidence!EditBundle(b)
           \/ \E n \in 0..MaxRemaining : Evidence!EditRoadmap(n)
    PROVE  EvidenceInv'
<1>1. ASSUME NEW i \in EvidenceItems, NEW c \in Contents, Evidence!EditEvidence(i, c)
      PROVE  EvidenceInv'
  <2>. /\ UNCHANGED <<bundle, roadmap, reports>> /\ evidence' \in [EvidenceItems -> Contents]
       /\ covered'.pack = covered.pack /\ covered'.manifest \subseteq covered.manifest
       /\ DOMAIN covered' = {"manifest", "pack"}
    BY <1>1 DEF Evidence!EditEvidence, EvidenceInv, Evidence!EvidenceTypeOK
  <2>. QED
    BY FilesStay DEF EvidenceInv, Evidence!EvidenceTypeOK
<1>2. ASSUME NEW b \in Evidence!Bundle, Evidence!EditBundle(b) PROVE EvidenceInv'
  <2>. /\ UNCHANGED <<evidence, roadmap, reports>> /\ bundle' \in Evidence!Bundle
       /\ covered'.manifest = covered.manifest \ {"bundle"}
       /\ covered'.pack = covered.pack \ {"bundle"}
       /\ DOMAIN covered' = {"manifest", "pack"}
    BY <1>2 DEF Evidence!EditBundle
  <2>. QED
    BY FilesStay DEF EvidenceInv, Evidence!EvidenceTypeOK
<1>3. ASSUME NEW n \in 0..MaxRemaining, Evidence!EditRoadmap(n) PROVE EvidenceInv'
  <2>. UNCHANGED <<evidence, bundle, reports, covered>> /\ roadmap' \in 0..MaxRemaining
    BY <1>3 DEF Evidence!EditRoadmap
  <2>. QED
    BY FilesStay DEF EvidenceInv, Evidence!EvidenceTypeOK
<1>. QED
  BY <1>1, <1>2, <1>3

LEMMA WorkspaceStep ==
    ASSUME EvidenceInv, [Evidence!Next]_Evidence!vars
    PROVE  EvidenceInv'
<1>1. CASE UNCHANGED Evidence!vars
  <2>. UNCHANGED <<evidence, bundle, roadmap, reports, covered>>
    BY <1>1 DEF Evidence!vars
  <2>. QED
    BY FilesStay DEF EvidenceInv, Evidence!EvidenceTypeOK
<1>2. CASE \/ Evidence!Requests \/ Evidence!Status \/ Evidence!Redaction \/ Evidence!Completion
           \/ Evidence!Readiness \/ Evidence!Handoff \/ Evidence!Gate
  BY <1>2, ReportWritten, WorkspaceScripts
  DEF Evidence!Requests, Evidence!Status, Evidence!Redaction, Evidence!Completion,
      Evidence!Readiness, Evidence!readinessReport, Evidence!Handoff, Evidence!Gate
<1>. QED
  BY <1>1, <1>2, PackWritten, ManifestWritten, WorkspaceEdited DEF Evidence!Next, Evidence!Fill

LEMMA WorkspaceHolds == Evidence!Spec => []EvidenceInv
BY WorkspaceInit, WorkspaceStep, PTL DEF Evidence!Spec

-----------------------------------------------------------------------------
\* The files and the hashes have the shapes the scripts give them.
THEOREM EvidenceTypeCorrect == Evidence!Spec => []Evidence!EvidenceTypeOK
BY WorkspaceHolds, PTL DEF EvidenceInv

\* A pack whose hashes are all current agrees with the files it hashed.
THEOREM CopiesAgree == Evidence!Spec => []PackCopiesAgree
BY WorkspaceHolds, PTL DEF EvidenceInv, PackCopiesAgree

\* The release gate's checks pass only on a manifest somebody rewrote by hand:
\* the script's own stands only over a bundle with placeholders.
THEOREM EvidenceByHand == Evidence!Spec => []AcceptedOnlyByHand
<1>1. ASSUME EvidenceInv, Evidence!releaseChecks PROVE reports.manifest.byHand
  <2>1. "bundle" \in covered.manifest /\ bundle.status = Target /\ Evidence!bundleValid
    BY <1>1 DEF Evidence!releaseChecks, Evidence!workspaceValid, Evidence!Manifested
  <2>2. ~bundle.placeholders
    BY <2>1, EvidenceAssumption DEF Evidence!bundleValid
  <2>. QED
    BY <1>1, <2>1, <2>2 DEF EvidenceInv, BundleAsPrepared
<1>2. EvidenceInv => AcceptedOnlyByHand
  BY <1>1 DEF AcceptedOnlyByHand, Evidence!AcceptedOnlyByHand
<1>. QED
  BY <1>2, WorkspaceHolds, PTL

LEMMA ChecksMeanReady == EvidenceInv => Evidence!ReleaseChecksMeanReady
<1>1. ASSUME EvidenceInv, Evidence!releaseChecks
      PROVE  /\ bundle = [status |-> Target, placeholders |-> FALSE]
             /\ \A i \in EvidenceItems : evidence[i] \in
                    IF Target = "production" THEN {"final"} ELSE {"pilot", "final"}
  <2>1. /\ Evidence!bundleValid /\ bundle.status = Target
        /\ Evidence!statusAccepted /\ Evidence!redactionAccepted
    BY <1>1 DEF Evidence!releaseChecks
  <2>2. ~bundle.placeholders
    BY <2>1, EvidenceAssumption DEF Evidence!bundleValid
  <2>3. bundle = [status |-> Target, placeholders |-> FALSE]
    BY <1>1, <2>1, <2>2 DEF EvidenceInv, Evidence!EvidenceTypeOK, Evidence!Bundle
  <2>4. ASSUME NEW i \in EvidenceItems
        PROVE  /\ evidence[i] \in Evidence!AllContents
               /\ Evidence!itemStatus(i) = "ready" /\ Evidence!scanEvidence(i) = "clean"
               /\ Target = "production" => evidence[i] \in {"final", "leaky"}
    <3>1. evidence[i] \in Evidence!AllContents
      BY <1>1, EvidenceAssumption DEF EvidenceInv, Evidence!EvidenceTypeOK
    <3>2. Evidence!itemStatus(i) = "ready"
      BY <2>1
      DEF Evidence!statusAccepted, Evidence!statusReport, Evidence!readyForPilotOrProduction
    <3>3. Evidence!scanEvidence(i) = "clean"
      BY <2>1
      DEF Evidence!redactionAccepted, Evidence!redactionReport, Evidence!readyForRelease
    <3>. QED
      BY <2>1, <3>1, <3>2, <3>3 DEF Evidence!bundleValid
  <2>5. ASSUME NEW i \in EvidenceItems
        PROVE  evidence[i] \in IF Target = "production" THEN {"final"} ELSE {"pilot", "final"}
    BY <2>4 DEF Evidence!itemStatus, Evidence!scanEvidence, Evidence!AllContents
  <2>. QED
    BY <2>3, <2>5
<1>. QED
  BY <1>1 DEF Evidence!ReleaseChecksMeanReady

\* When the release gate's checks pass, the evidence of this moment is what
\* the target needs.
THEOREM MeansReady == Evidence!Spec => []Evidence!ReleaseChecksMeanReady
BY ChecksMeanReady, WorkspaceHolds, PTL

\* Complete evidence, and every script run since the last change, pass.
THEOREM EvidenceAccepting == Evidence!Spec => []CompleteIsAccepted
<1>1. ASSUME Evidence!NothingElseMissing, Evidence!Rerun, Evidence!workspaceValid
      PROVE  Evidence!releaseChecks
  <2>1. /\ Evidence!Exist(Evidence!Scripts) /\ Evidence!requestsValid /\ Evidence!packValid
        /\ bundle.status = Target
        /\ reports.status = Evidence!statusReport
        /\ reports.redaction = Evidence!redactionReport
        /\ reports.completion.remaining = 0 /\ reports.readiness = Evidence!readinessReport
        /\ reports.handoff = Evidence!handoffChecklist /\ reports.gate = Evidence!gateReport
    BY <1>1 DEF Evidence!NothingElseMissing, Evidence!Rerun
  <2>2. Evidence!bundleValid
    BY <1>1 DEF Evidence!NothingElseMissing, Evidence!bundleValid
  <2>3. /\ Evidence!readyForPilotOrProduction(Evidence!statusReport)
        /\ Evidence!readyForRelease(Evidence!redactionReport)
    BY <1>1
    DEF Evidence!NothingElseMissing, Evidence!readyForPilotOrProduction,
        Evidence!statusReport, Evidence!itemStatus,
        Evidence!readyForRelease, Evidence!redactionReport, Evidence!scanEvidence
  <2>4. Evidence!readinessReady(Evidence!readinessReport)
    BY <1>1, <2>1, <2>3
    DEF Evidence!NothingElseMissing, Evidence!readinessReady, Evidence!readinessReport,
        Evidence!wrongStatus, Evidence!statusReport
  <2>5. Evidence!completionValid /\ Evidence!handoffValid
    <3>1. /\ Evidence!Exist({"handoff", "readiness", "requests", "completion"})
          /\ reports.readiness.requestsValid
      BY <2>1, WorkspaceScripts DEF Evidence!Exist, Evidence!readinessReport
    <3>. QED
      BY <2>1, <3>1
      DEF Evidence!completionValid, Evidence!handoffValid, Evidence!handoffChecklist,
          Evidence!Exist
  <2>6. Evidence!failedChecks = {}
    BY <1>1, <2>1, <2>5 DEF Evidence!failedChecks
  <2>7. Evidence!gateReportValid /\ reports.gate.ready
    <3>1. reports.gate # Absent
      BY <2>1, WorkspaceScripts DEF Evidence!Exist
    <3>2. /\ Evidence!failedChecks = {} /\ Evidence!readinessReady(reports.readiness)
          /\ reports.completion.remaining = 0
      BY <2>1, <2>4, <2>6
    <3>3. reports.gate.ready
      BY <2>1, <3>2 DEF Evidence!gateReport
    <3>. QED
      BY <2>1, <2>6, <3>1, <3>3 DEF Evidence!gateReportValid
  <2>. QED
    BY <1>1, <2>1, <2>2, <2>3, <2>4, <2>5, <2>7
    DEF Evidence!releaseChecks, Evidence!statusAccepted, Evidence!redactionAccepted,
        Evidence!readinessAccepted
<1>2. CompleteIsAccepted
  BY <1>1 DEF CompleteIsAccepted, Evidence!CompleteIsAccepted
<1>. QED
  BY <1>2, PTL

\* Whatever changes the evidence or the bundle leaves no valid report of the
\* phase gate.
THEOREM EvidenceClosing == Evidence!Spec => ChangeClosesGate
<1>1. ASSUME EvidenceInv, Evidence!Next, evidence' # evidence \/ bundle' # bundle
      PROVE  ~Evidence!gateReportValid'
  <2>1. ~Evidence!workspaceValid' \/ ~Evidence!packValid' => ~Evidence!gateReportValid'
    BY DEF Evidence!gateReportValid, Evidence!failedChecks
  <2>2. ASSUME NEW s \in BundleStatuses, Evidence!Prepare(s) PROVE ~Evidence!packValid'
    BY <2>2, WorkspaceScripts DEF Evidence!Prepare, Evidence!packValid
  <2>3. ASSUME NEW i \in EvidenceItems, NEW c \in Contents, Evidence!EditEvidence(i, c)
        PROVE  ~Evidence!workspaceValid'
    <3>1. i \notin covered'.manifest
      BY <2>3 DEF Evidence!EditEvidence, EvidenceInv
    <3>. QED
      BY <3>1 DEF Evidence!workspaceValid, Evidence!Manifested
  <2>4. ASSUME NEW b \in Evidence!Bundle, Evidence!EditBundle(b) PROVE ~Evidence!packValid'
    BY <2>4, WorkspaceScripts DEF Evidence!EditBundle, Evidence!packValid
  <2>5. \/ \E s \in BundleStatuses : Evidence!Prepare(s)
        \/ \E i \in EvidenceItems, c \in Contents : Evidence!EditEvidence(i, c)
        \/ \E b \in Evidence!Bundle : Evidence!EditBundle(b)
    BY <1>1
    DEF Evidence!Next, Evidence!Fill, Evidence!Requests, Evidence!Status, Evidence!Redaction,
        Evidence!Completion, Evidence!Readiness, Evidence!Handoff, Evidence!Pack,
        Evidence!Gate, Evidence!Write,
        Evidence!EditRoadmap, Evidence!RecutManifest
  <2>. QED
    BY <2>1, <2>2, <2>3, <2>4, <2>5
<1>2. ASSUME EvidenceInv, [Evidence!Next]_Evidence!vars
      PROVE  [evidence' # evidence \/ bundle' # bundle
                  => ~Evidence!gateReportValid']_Evidence!vars
  BY <1>1, <1>2
<1>. QED
  BY <1>2, WorkspaceHolds, PTL
  DEF Evidence!Spec, ChangeClosesGate, Evidence!ChangeClosesGate

-----------------------------------------------------------------------------
(***************************************************************************)
(* The two together                                                        *)
(***************************************************************************)
\* What is read is what ReleaseGate takes it for: sound only with a ready
\* gate, every requested file there, and the bundle and the pack of the target.
LEMMA UpstreamMember == EvidenceInv => upstream \in Upstream
<1>. SUFFICES ASSUME EvidenceInv PROVE upstream \in Upstream
  OBVIOUS
<1>1. /\ upstream.gate \in GateStates /\ upstream.present \in BOOLEAN
      /\ upstream.status \in BundleStatuses /\ upstream.target \in Targets
      /\ upstream.sound = Evidence!releaseChecks
  BY PhaseReviewAssumption, WorkspaceScripts
  DEF upstream, readWith, GateStates, Targets, EvidenceInv, Evidence!EvidenceTypeOK,
      Evidence!Bundle, TargetKept
<1>2. upstream.sound \in BOOLEAN
  BY <1>1 DEF Evidence!releaseChecks
<1>3. ASSUME Evidence!releaseChecks
      PROVE  /\ upstream.gate = "ready" /\ upstream.present
             /\ upstream.status = Target /\ upstream.target = Target
  <2>1. /\ Evidence!bundleValid /\ bundle.status = Target
        /\ reports.gate # Absent /\ reports.gate.ready /\ reports.pack # Absent
    BY <1>3 DEF Evidence!releaseChecks, Evidence!gateReportValid, Evidence!packValid
  <2>2. reports.pack.target = Target
    BY <2>1 DEF EvidenceInv, TargetKept
  <2>3. \A i \in Requested : evidence[i] # "missing"
    BY <2>1, ReleasePipelineAssumption DEF Evidence!bundleValid
  <2>. QED
    BY <2>1, <2>2, <2>3 DEF upstream, readWith
<1>4. upstream = [gate |-> upstream.gate, present |-> upstream.present,
                  status |-> upstream.status, target |-> upstream.target,
                  sound |-> upstream.sound]
  BY DEF upstream, readWith
<1>. QED
  BY <1>1, <1>2, <1>3, <1>4 DEF Upstream

LEMMA UpstreamMemberNext == EvidenceInv' => (upstream \in Upstream)'
BY UpstreamMember, PTL

FilesTheSame ==
    UNCHANGED <<evidence, bundle, covered>> /\ \A s \in Evidence!Scripts : reports'[s] = reports[s]

\* Nothing but the files and the hashes is read.
LEMMA ReadTheSame ==
    ASSUME FilesTheSame
    PROVE  upstream' = upstream
<1>. /\ UNCHANGED <<evidence, bundle, covered>>
     /\ UNCHANGED <<reports.manifest, reports.requests, reports.status>>
     /\ UNCHANGED <<reports.redaction, reports.completion, reports.readiness>>
     /\ UNCHANGED <<reports.handoff, reports.pack, reports.gate>>
  BY WorkspaceScripts DEF FilesTheSame
<1>1. /\ Evidence!statusReport' = Evidence!statusReport
      /\ Evidence!redactionReport' = Evidence!redactionReport
      /\ Evidence!requestsValid' = Evidence!requestsValid
  BY DEF Evidence!statusReport, Evidence!itemStatus, Evidence!redactionReport,
         Evidence!scanEvidence, Evidence!requestsValid
<1>2. Evidence!readinessReport' = Evidence!readinessReport
  BY <1>1 DEF Evidence!readinessReport
<1>3. /\ Evidence!workspaceValid' = Evidence!workspaceValid
      /\ Evidence!bundleValid' = Evidence!bundleValid
      /\ Evidence!completionValid' = Evidence!completionValid
  BY DEF Evidence!workspaceValid, Evidence!bundleValid, Evidence!completionValid, Evidence!Exist
<1>4. /\ Evidence!statusAccepted' = Evidence!statusAccepted
      /\ Evidence!redactionAccepted' = Evidence!redactionAccepted
      /\ Evidence!readinessAccepted' = Evidence!readinessAccepted
  BY <1>1, <1>2
  DEF Evidence!statusAccepted, Evidence!redactionAccepted, Evidence!readinessAccepted,
      Evidence!readyForPilotOrProduction, Evidence!readyForRelease, Evidence!readinessReady,
      Evidence!wrongStatus
<1>5. Evidence!handoffValid' = Evidence!handoffValid
  BY DEF Evidence!handoffValid, Evidence!Exist, Evidence!blockerSummary,
         Evidence!readinessReady, Evidence!readyForPilotOrProduction, Evidence!wrongStatus
<1>6. Evidence!packValid' = Evidence!packValid
  BY SamePack DEF PackSaysTheSame, Evidence!packValid
<1>7. Evidence!failedChecks' = Evidence!failedChecks
  BY <1>1, <1>3, <1>5, <1>6 DEF Evidence!failedChecks
<1>8. Evidence!gateReport' = Evidence!gateReport
  BY <1>7
  DEF Evidence!gateReport, Evidence!blockerSummary, Evidence!readinessReady,
      Evidence!readyForPilotOrProduction, Evidence!wrongStatus
<1>9. Evidence!gateReportValid' = Evidence!gateReportValid
  BY <1>7, <1>8 DEF Evidence!gateReportValid
<1>10. Evidence!Exist(Evidence!Scripts)' = Evidence!Exist(Evidence!Scripts)
  BY DEF FilesTheSame, Evidence!Exist, Evidence!Scripts, Evidence!Order
<1>11. Evidence!releaseChecks' = Evidence!releaseChecks
  BY <1>1, <1>3, <1>4, <1>5, <1>6, <1>9, <1>10 DEF Evidence!releaseChecks
<1>. QED
  BY <1>11 DEF upstream, readWith

\* A step that writes neither the pack nor the gate's report leaves what the
\* review reads alone, or a hash that the pack or the manifest recorded is of
\* a file that is no longer the same, so that the checks fail.
LEMMA FillDrifts ==
    ASSUME EvidenceInv, Evidence!Fill
    PROVE  \/ FilesTheSame
           \/ ~Evidence!releaseChecks' /\ UNCHANGED <<reports.gate, reports.pack>>
<1>1. ~Evidence!workspaceValid' \/ ~Evidence!packValid' => ~Evidence!releaseChecks'
  BY DEF Evidence!releaseChecks
<1>2. ASSUME NEW s \in Evidence!Scripts \ {"manifest", "pack", "gate"}, NEW content,
             Evidence!Write(s, content)
      PROVE  \/ FilesTheSame
             \/ ~Evidence!releaseChecks' /\ UNCHANGED <<reports.gate, reports.pack>>
  <2>1. UNCHANGED <<evidence, bundle, reports.gate, reports.pack>>
    BY <1>2, WorkspaceScripts DEF Evidence!Write, EvidenceInv, Evidence!EvidenceTypeOK
  <2>2. CASE content = reports[s] /\ s = "handoff"
    BY <1>2, <2>1, <2>2 DEF Evidence!Write, EvidenceInv, Evidence!EvidenceTypeOK, FilesTheSame
  <2>3. CASE ~(content = reports[s] /\ s = "handoff")
    <3>1. s \notin covered'.pack /\ s \in Evidence!Packed
      BY <1>2, <2>3, WorkspaceScripts DEF Evidence!Write, EvidenceInv
    <3>. QED
      BY <1>1, <2>1, <3>1 DEF Evidence!packValid
  <2>. QED
    BY <2>2, <2>3
<1>3. ASSUME (\E s \in BundleStatuses : Evidence!Prepare(s)) \/ Evidence!RecutManifest
      PROVE  ~Evidence!releaseChecks' /\ UNCHANGED <<reports.gate, reports.pack>>
  <2>1. "manifest" \notin covered'.pack
    BY <1>3 DEF Evidence!Prepare, Evidence!RecutManifest
  <2>2. UNCHANGED <<reports.gate, reports.pack>>
    BY <1>3, WorkspaceScripts
    DEF Evidence!Prepare, Evidence!RecutManifest, EvidenceInv, Evidence!EvidenceTypeOK
  <2>. QED
    BY <1>1, <2>1, <2>2, WorkspaceScripts DEF Evidence!packValid
<1>4. ASSUME NEW i \in EvidenceItems, NEW c \in Contents, Evidence!EditEvidence(i, c)
      PROVE  ~Evidence!releaseChecks' /\ reports' = reports
  <2>1. i \notin covered'.manifest /\ reports' = reports
    BY <1>4 DEF Evidence!EditEvidence, EvidenceInv
  <2>. QED
    BY <1>1, <2>1 DEF Evidence!workspaceValid, Evidence!Manifested
<1>5. ASSUME NEW b \in Evidence!Bundle, Evidence!EditBundle(b)
      PROVE  ~Evidence!releaseChecks' /\ reports' = reports
  BY <1>1, <1>5, WorkspaceScripts DEF Evidence!EditBundle, Evidence!packValid
<1>6. ASSUME NEW n, Evidence!EditRoadmap(n)
      PROVE  FilesTheSame
  BY <1>6 DEF Evidence!EditRoadmap, FilesTheSame
<1>7. ASSUME \/ Evidence!Requests \/ Evidence!Status \/ Evidence!Redaction
             \/ Evidence!Completion \/ Evidence!Readiness \/ Evidence!Handoff
      PROVE  \/ FilesTheSame
             \/ ~Evidence!releaseChecks' /\ UNCHANGED <<reports.gate, reports.pack>>
  BY <1>2, <1>7, WorkspaceScripts
  DEF Evidence!Requests, Evidence!Status, Evidence!Redaction, Evidence!Completion,
      Evidence!Readiness, Evidence!Handoff
<1>. QED
  BY <1>3, <1>4, <1>5, <1>6, <1>7 DEF Evidence!Fill

LEMMA ReviewLeavesUpstream ==
    ASSUME ReviewNext
    PROVE  UNCHANGED up
BY DEF ReviewNext, Write, Actions, Gaps, Decision, Signoffs, Intake, Inventory, Waivers, Review,
       Closure, Release, Archive, EditAttachment, RuleWaiver, Expire, RelabelIntake, Checkout

UpstreamOK == up \in Upstream /\ up = upstream

PipelineInv == ReleaseInv /\ EvidenceInv /\ UpstreamOK

LEMMA PipelineInitInv ==
    ASSUME PipelineInit
    PROVE  PipelineInv
<1>1. EvidenceInv
  BY WorkspaceInit DEF PipelineInit
<1>2. up = upstream /\ upstream \in Upstream
  BY <1>1, UpstreamMember DEF PipelineInit
<1>3. ReleaseInv
  BY <1>2, ReviewInitInv DEF PipelineInit
<1>. QED
  BY <1>1, <1>2, <1>3 DEF PipelineInv, UpstreamOK

\* A step of the pipeline is one of the workspace or leaves it alone, and up
\* goes with it.
LEMMA UpstreamFollows ==
    ASSUME PipelineInv, [PipelineNext]_pipeline
    PROVE  EvidenceInv' /\ up' = upstream' /\ up' \in Upstream
<1>1. CASE Workspace
  <2>1. Evidence!Next /\ up' = upstream'
    BY <1>1
    DEF Workspace, FillWorkspace, PackEvidence, ReportGate, UpstreamWritten, Evidence!Next
  <2>2. EvidenceInv'
    BY <2>1, WorkspaceStep DEF PipelineInv
  <2>. QED
    BY <2>1, <2>2, UpstreamMemberNext
<1>2. CASE Reviewing \/ UNCHANGED pipeline
  <2>1. UNCHANGED Evidence!vars /\ FilesTheSame
    BY <1>2 DEF Reviewing, pipeline, workspace, Evidence!vars, FilesTheSame
  <2>2. up' = up
    BY <1>2, ReviewLeavesUpstream DEF Reviewing, pipeline, vars
  <2>3. upstream' = upstream /\ EvidenceInv'
    BY <2>1, ReadTheSame, WorkspaceStep DEF PipelineInv
  <2>. QED
    BY <2>2, <2>3 DEF PipelineInv, UpstreamOK
<1>. QED
  BY <1>1, <1>2 DEF PipelineNext

LEMMA PipelineStep ==
    ASSUME PipelineInv, [PipelineNext]_pipeline
    PROVE  PipelineInv'
<1>1. EvidenceInv' /\ UpstreamOK'
  BY UpstreamFollows DEF UpstreamOK
<1>2. ReleaseInv'
  <2>1. CASE Workspace
    <3>1. up' \in Upstream
      BY UpstreamFollows
    <3>2. \/ \E files : UpstreamWritten(up', files)
          \/ UNCHANGED <<attach, expired, file, intact>>
      BY <2>1 DEF Workspace, FillWorkspace, PackEvidence, ReportGate, UpstreamWritten
    <3>. QED
      BY <3>1, <3>2, UpstreamMoves DEF PipelineInv
  <2>2. CASE Reviewing
    BY <2>2, InvStep DEF PipelineInv, Reviewing, Next
  <2>3. CASE UNCHANGED pipeline
    BY <2>3, InvStep DEF PipelineInv, pipeline
  <2>. QED
    BY <2>1, <2>2, <2>3 DEF PipelineNext
<1>. QED
  BY <1>1, <1>2 DEF PipelineInv

LEMMA PipelineHolds == PipelineSpec => []PipelineInv
BY PipelineInitInv, PipelineStep, PTL DEF PipelineSpec

\* The workspace of a pipeline behaves as DeploymentEvidence says, so that all
\* that is proved of it holds under the review.
THEOREM WorkspaceRefined == PipelineSpec => Evidence!Spec
<1>1. PipelineInit => Evidence!Init
  BY DEF PipelineInit
<1>2. [PipelineNext]_pipeline => [Evidence!Next]_Evidence!vars
  BY DEF PipelineNext, Workspace, FillWorkspace, PackEvidence, ReportGate, Evidence!Next,
         Reviewing, pipeline, workspace, Evidence!vars
<1>. QED
  BY <1>1, <1>2, PTL DEF PipelineSpec, Evidence!Spec

\* What the review reads of the workspace changes only as ReleaseGate lets it:
\* the pack or the gate's report is written, or the soundness goes.
THEOREM UpstreamAllowed == PipelineSpec => WorkspaceIsUpstream
<1>1. ASSUME PipelineInv, PipelineNext
      PROVE  \/ PackEvidence \/ ReportGate
             \/ UNCHANGED up
             \/ \E present \in BOOLEAN, status \in BundleStatuses :
                    UpstreamDrifts(present, status)
  <2>1. CASE FillWorkspace
    <3>1. /\ up = upstream /\ up' = upstream' /\ up' \in Upstream
          /\ UNCHANGED <<attach, expired, file, intact, source>>
      BY <1>1, <2>1, UpstreamFollows DEF PipelineInv, UpstreamOK, FillWorkspace
    <3>2. CASE FilesTheSame
      BY <3>1, <3>2, ReadTheSame
    <3>3. CASE ~Evidence!releaseChecks' /\ UNCHANGED <<reports.gate, reports.pack>>
      <4>1. up'.sound = FALSE /\ up'.gate = up.gate /\ up'.target = up.target
        BY <3>1, <3>3 DEF upstream, readWith
      <4>2. up'.present \in BOOLEAN /\ up'.status \in BundleStatuses
        BY <3>1 DEF Upstream
      <4>3. up' = [up EXCEPT !.present = up'.present, !.status = up'.status, !.sound = FALSE]
        BY <1>1, <3>1, <4>1 DEF Upstream, PipelineInv, UpstreamOK
      <4>. QED
        BY <3>1, <4>2, <4>3 DEF UpstreamDrifts
    <3>. QED
      BY <1>1, <2>1, <3>2, <3>3, FillDrifts DEF FillWorkspace, PipelineInv
  <2>2. CASE Reviewing
    BY <2>2, ReviewLeavesUpstream DEF Reviewing
  <2>. QED
    BY <1>1, <2>1, <2>2 DEF PipelineNext, Workspace
<1>2. ASSUME PipelineInv, [PipelineNext]_pipeline
      PROVE  [\/ PackEvidence \/ ReportGate
              \/ UNCHANGED up
              \/ \E present \in BOOLEAN, status \in BundleStatuses :
                     UpstreamDrifts(present, status)]_pipeline
  BY <1>1, <1>2
<1>. QED
  BY <1>2, PipelineHolds, PTL DEF PipelineSpec, WorkspaceIsUpstream

\* Whatever was run or edited in between, the report of the release gate is
\* accepted only over evidence and attachments that are ready now.
THEOREM ReadyThroughout == PipelineSpec => []ReleaseMeansReady
<1>1. ASSUME PipelineInv, releaseAccepted
      PROVE  Evidence!releaseChecks
  BY <1>1, NoBlockers DEF PipelineInv, UpstreamOK, upstream, readWith
<1>2. PipelineInv => ReleaseMeansReady
  BY <1>1, ChecksMeanReady, AcceptedIsEvidenced
  DEF PipelineInv, ReleaseMeansReady, Evidence!ReleaseChecksMeanReady, ReleasedIsEvidenced
<1>. QED
  BY <1>2, PipelineHolds, PTL

\* While an archive is and stays accepted, no evidence file, no bundle and no
\* attachment changes.
THEOREM EvidenceHeld == PipelineSpec => ArchiveHoldsEvidence
<1>1. ASSUME PipelineInv, PipelineNext, archiveAccepted, archiveAccepted'
      PROVE  UNCHANGED <<evidence, bundle, attach>>
  <2>1. CASE FillWorkspace
    <3>1. Evidence!releaseChecks'
      BY <1>1, UpstreamFollows, AcceptedNext DEF WhatArchived, upstream, readWith
    <3>. QED
      BY <1>1, <2>1, <3>1, FillDrifts DEF FillWorkspace, PipelineInv, FilesTheSame
  <2>2. CASE PackEvidence \/ ReportGate
    BY <2>2
    DEF PackEvidence, ReportGate, UpstreamWritten, Evidence!Pack, Evidence!Gate, Evidence!Write
  <2>3. CASE Reviewing
    <3>1. UNCHANGED <<evidence, bundle>> /\ ReviewNext
      BY <2>3 DEF Reviewing, workspace
    <3>2. attach' = attach
      BY <1>1, <3>1, PeopleClose
      DEF PipelineInv, ReviewNext, Write, Actions, Gaps, Decision, Signoffs, Intake, Inventory,
          Waivers, Review, Closure, Release, Archive, Checkout
    <3>. QED
      BY <3>1, <3>2
  <2>. QED
    BY <1>1, <2>1, <2>2, <2>3 DEF PipelineNext, Workspace
<1>2. ASSUME PipelineInv, [PipelineNext]_pipeline
      PROVE  [archiveAccepted /\ archiveAccepted' => UNCHANGED <<evidence, bundle, attach>>]_pipeline
  BY <1>1, <1>2
<1>. QED
  BY <1>2, PipelineHolds, PTL DEF PipelineSpec, ArchiveHoldsEvidence
=============================================================================
