-------------------------- MODULE SecretLifecycle --------------------------
(***************************************************************************)
(* The secrets of one vault and the imports into it: vaultService.mjs from *)
(* createSecret to rotateSecret, and secretImportService.mjs.  No handler  *)
(* moves a secret to another vault, so that vaults do not meet here.       *)
(*                                                                         *)
(* A password is abstracted to a material, its fingerprint and its         *)
(* ciphertext; equal fingerprints mean equal materials.  Names, notes and  *)
(* tags are left out, and with them updates that change no password.       *)
(* Whoever acts has access to the vault (JitAccess models who has).        *)
(*                                                                         *)
(* Every handler is atomic.  That a transaction can be rolled back and the *)
(* process can die is modelled in TxnStore: the whole state is replaced by *)
(* an earlier one, of which the invariants below hold as well.             *)
(***************************************************************************)
EXTENDS Naturals, Sequences, FiniteSets

CONSTANTS
  Users,        \* those who submit and decide imports
  Entered,      \* materials people type
  Length,       \* how long each of them is
  GeneratedLength, \* how long what generateCredential returns is, 27 in the code
  Minimums,     \* what policies.minimumLength can be, 12 to 128 in the code
  Ratings,      \* pairs of risk and approvalsRequired an import entry can have
  HistoryLimit, \* former versions kept, 10 in the code
  MaxEntries,   \* entries of a batch, 100 in the code
  MaxSecrets,   \* bound: secrets
  MaxBatches,   \* bound: import batches
  MaxClock      \* bound: steps that date something

ASSUME SecretLifecycleAssumption ==
  /\ Entered \cap Nat = {} /\ Length \in [Entered -> Nat]
  /\ GeneratedLength \in Nat /\ Minimums \subseteq Nat \ {0}
  /\ Ratings \subseteq {"low", "high"} \X BOOLEAN
  /\ HistoryLimit \in Nat \ {0} /\ MaxEntries \in Nat /\ MaxSecrets \in Nat
  /\ MaxBatches \in Nat /\ MaxClock \in Nat

VARIABLES
  secrets,  \* store.state.secrets of the vault, by order of creation
  batches,  \* store.state.secretImports of the vault, likewise
  minimumLength, \* store.state.policies.minimumLength
  clock     \* the time, counted in steps that date something

vars == <<secrets, batches, minimumLength, clock>>
----------------------------------------------------------------------------
Now == clock + 1

\* generateCredential never gives the same twice: it is named by its time.
Material == Entered \cup Nat

Version == [material : Material, at : Nat]

\* at is rotatedAt, batch the import it came with, or 0.  The last three are
\* not in the code.  since: when it became live with its material; checked:
\* the material was compared with the vault's then, or generated; rated: the
\* minimum length in force when risk and approvalsRequired were set for the
\* material, or 0 if they were not.
Secret == [material : Material, at : Nat, history : Seq(Version),
           deleted : BOOLEAN, risk : {"low", "high"}, approvals : BOOLEAN,
           batch : Nat, since : Nat, checked : BOOLEAN, rated : Nat]

Entry == [material : Entered, rating : Ratings]

\* duplicates: the report was not empty.
Batch == [status : {"pending", "approved", "denied"}, entries : Seq(Entry),
          duplicates : BOOLEAN, requestedBy : Users, decidedBy : Users \cup {0},
          requestedAt : Nat, decidedAt : Nat]

Elements(s) == {s[i] : i \in DOMAIN s}
Live(s) == ~secrets[s].deleted

\* A new vault, under any policy.
Init ==
  /\ secrets = << >>
  /\ batches = << >>
  /\ minimumLength \in Minimums
  /\ clock = 0

Dated ==
  /\ clock < MaxClock
  /\ clock' = Now
----------------------------------------------------------------------------
(* History.                                                                *)

Current(x) == [material |-> x.material, at |-> x.at]

Sliced(h) == SubSeq(h, 1, IF Len(h) < HistoryLimit THEN Len(h) ELSE HistoryLimit)

Unshifted(x) == <<Current(x)>> \o x.history

\* Wrong: forgets that the list has moved by one.
WithoutUnmoved(h, i) == [j \in 1 .. Len(h) - 1 |-> IF j < i THEN h[j] ELSE h[j + 1]]

\* The list without what was at position i before the unshift.
Without(h, i) == [j \in 1 .. Len(h) - 1 |-> IF j <= i THEN h[j] ELSE h[j + 1]]

LengthOf(m) == IF m \in Entered THEN Length[m] ELSE GeneratedLength
Short(m) == LengthOf(m) < minimumLength
Risk(m) == IF Short(m) THEN "high" ELSE "low"

\* x with material m, and what it had before at the front of its history.
Stored(x, m, risk) ==
  [x EXCEPT !.material = m, !.at = Now, !.history = Sliced(Unshifted(x)),
            !.risk = risk, !.approvals = (risk = "high"),
            !.since = Now, !.checked = TRUE, !.rated = minimumLength]

\* Wrong: a stronger password does not lift the need for approvals.
ReplacedKeepsApprovals(x, m) ==
  [Stored(x, m, Risk(m)) EXCEPT !.approvals = @ \/ x.approvals]

Replaced(x, m) == Stored(x, m, Risk(m))

\* What is generated is never compared with the minimum length.
Rotated(x) == Stored(x, Now, "low")

\* Neither compared with the other secrets nor rated.
VersionRestored(x, i) ==
  [x EXCEPT !.material = x.history[i].material, !.at = Now,
            !.history = Sliced(Without(Unshifted(x), i)), !.deleted = FALSE,
            !.since = Now, !.checked = FALSE, !.rated = 0]

Becomes(s, x) ==
  /\ secrets' = [secrets EXCEPT ![s] = x]
  /\ UNCHANGED batches
----------------------------------------------------------------------------
(* vaultService.mjs                                                        *)

\* Compared with deleted secrets too, but not with former versions.
createSecret(m) ==
  /\ Len(secrets) < MaxSecrets
  /\ \A s \in DOMAIN secrets : secrets[s].material # m
  /\ Dated
  /\ secrets' = Append(secrets,
       [material |-> m, at |-> Now, history |-> << >>, deleted |-> FALSE,
        risk |-> Risk(m), approvals |-> Short(m), batch |-> 0,
        since |-> Now, checked |-> TRUE, rated |-> minimumLength])
  /\ UNCHANGED batches

\* Wrong: any other secret's material is accepted.
ReusedNot(s, m) == FALSE

\* Compared with live secrets only, and not with its own former versions.
Reused(s, m) ==
  \E t \in DOMAIN secrets \ {s} : Live(t) /\ secrets[t].material = m

updateSecret(s, m) ==
  /\ Live(s)
  /\ ~Reused(s, m)
  /\ Dated
  /\ Becomes(s, Replaced(secrets[s], m))

\* A deleted secret can be rotated and stays deleted.
rotateSecret(s) ==
  /\ Dated
  /\ Becomes(s, Rotated(secrets[s]))

deleteSecret(s) ==
  /\ Becomes(s, [secrets[s] EXCEPT !.deleted = TRUE])
  /\ UNCHANGED clock

restoreDeletedSecret(s) ==
  /\ secrets[s].deleted
  /\ Dated
  /\ Becomes(s, [secrets[s] EXCEPT !.deleted = FALSE, !.since = Now, !.checked = FALSE])

restoreSecretVersion(s, i) ==
  /\ i \in DOMAIN secrets[s].history
  /\ Dated
  /\ Becomes(s, VersionRestored(secrets[s], i))

\* The secrets keep the rating they have.
updatePolicies(n) ==
  /\ minimumLength' = n
  /\ UNCHANGED <<secrets, batches, clock>>
----------------------------------------------------------------------------
(* secretImportService.mjs                                                 *)

\* Wrong: entries are not compared with each other.
duplicatesExisting(entries) ==
  \E i \in DOMAIN entries, s \in DOMAIN secrets :
    Live(s) /\ secrets[s].material = entries[i].material

\* Whether an entry has the material of a live secret or of an earlier entry.
duplicateReport(entries) ==
  \E i \in DOMAIN entries :
    \/ \E s \in DOMAIN secrets : Live(s) /\ secrets[s].material = entries[i].material
    \/ \E j \in 1 .. i - 1 : entries[j].material = entries[i].material

createSecretImport(u, entries, allowDuplicates) ==
  /\ Len(batches) < MaxBatches
  /\ Len(entries) \in 1 .. MaxEntries
  /\ duplicateReport(entries) => allowDuplicates
  /\ Dated
  /\ batches' = Append(batches,
       [status |-> "pending", entries |-> entries,
        duplicates |-> duplicateReport(entries), requestedBy |-> u,
        decidedBy |-> 0, requestedAt |-> Now, decidedAt |-> 0])
  /\ UNCHANGED secrets

\* Wrong: a batch can be decided again.
DecidableAgain(u, b) == batches[b].requestedBy # u

Decidable(u, b) == batches[b].status = "pending" /\ batches[b].requestedBy # u

Decided(u, b, status) ==
  batches' = [batches EXCEPT ![b].status = status, ![b].decidedBy = u, ![b].decidedAt = Now]

Imported(entry, b) ==
  [material |-> entry.material, at |-> Now, history |-> << >>, deleted |-> FALSE,
   risk |-> entry.rating[1], approvals |-> entry.rating[2], batch |-> b,
   since |-> Now, checked |-> FALSE, rated |-> 0]

\* Duplicates are not looked for again.
approveSecretImport(u, b) ==
  LET entries == batches[b].entries IN
  /\ Decidable(u, b)
  /\ Len(secrets) + Len(entries) <= MaxSecrets
  /\ Dated
  /\ secrets' = secrets \o [i \in 1 .. Len(entries) |-> Imported(entries[i], b)]
  /\ Decided(u, b, "approved")

denySecretImport(u, b) ==
  /\ Decidable(u, b)
  /\ Dated
  /\ Decided(u, b, "denied")
  /\ UNCHANGED secrets

SecretStep ==
  \/ \E m \in Entered : createSecret(m)
  \/ \E s \in DOMAIN secrets :
       \/ \E m \in Entered : updateSecret(s, m)
       \/ rotateSecret(s) \/ deleteSecret(s) \/ restoreDeletedSecret(s)
       \/ \E i \in 1 .. HistoryLimit : restoreSecretVersion(s, i)
  \/ \E u \in Users, allowDuplicates \in BOOLEAN :
       \E n \in 1 .. MaxEntries : \E entries \in [1 .. n -> Entry] :
          createSecretImport(u, entries, allowDuplicates)
  \/ \E u \in Users, b \in DOMAIN batches :
       approveSecretImport(u, b) \/ denySecretImport(u, b)

Next ==
  \/ SecretStep /\ UNCHANGED minimumLength
  \/ \E n \in Minimums : updatePolicies(n)

Spec == Init /\ [][Next]_vars
----------------------------------------------------------------------------
(* Properties.                                                             *)

\* The types; a secret has no more former versions than the limit, and names
\* a batch that exists.
TypeOK ==
  /\ secrets \in Seq(Secret)
  /\ batches \in Seq(Batch)
  /\ minimumLength \in Minimums
  /\ clock \in 0 .. MaxClock
  /\ \A s \in DOMAIN secrets : Len(secrets[s].history) <= HistoryLimit
  /\ \A s \in DOMAIN secrets : secrets[s].batch \in 0 .. Len(batches)

\* The history is what the index in the URL of a version counts on: newest
\* first, without a version twice, and older than the current one, whatever
\* was updated, rotated and restored before.
HistoryNewestFirst ==
  \A s \in DOMAIN secrets :
    LET h == secrets[s].history IN
    /\ \A i \in DOMAIN h : h[i].at < secrets[s].at
    /\ \A i, j \in DOMAIN h : i < j => h[j].at < h[i].at

\* No handler loses a material a secret had, but for the oldest of a full
\* history: restoring a version takes it out of the history and puts the
\* current one in.
VersionsKept ==
  [][\A s \in DOMAIN secrets :
       LET x == secrets[s]
           kept == {v.material : v \in Elements(Unshifted(secrets'[s]))}
       IN \A i \in DOMAIN Unshifted(x) :
            \/ Unshifted(x)[i].material \in kept
            \/ i = HistoryLimit + 1]_vars

\* Reuse: of two live secrets with one material, the one that came live later
\* had been deleted, is an earlier version brought back, or was imported.
\* (createSecret looks at deleted secrets and updateSecret does not, and a
\* secret can be given its own material again.)
ReuseOnlyUnchecked ==
  \A s, t \in DOMAIN secrets :
    (/\ s # t /\ Live(s) /\ Live(t)
     /\ secrets[s].material = secrets[t].material
     /\ secrets[s].since <= secrets[t].since) => ~secrets[t].checked

\* Risk and the need for approvals say whether the material of now is shorter
\* than the policy of now asks for, through updates, deletions and rotations.
\* They do not if they were set under another policy or not for this material
\* (it was imported or brought back), or if the material was generated and the
\* policy asks for more than the generator gives: that is rated low all the same.
RatedAsItIs ==
  \A s \in DOMAIN secrets :
    LET x == secrets[s] IN
    (~(x.risk = "high" <=> Short(x.material)) \/ ~(x.approvals <=> Short(x.material))) =>
       \/ x.rated # minimumLength
       \/ x.material \notin Entered /\ x.risk = "low" /\ ~x.approvals

\* An import that reported no duplicates duplicates at most what came live
\* after it was submitted: the report is not repeated at the approval.
ImportRepeatsOnlyNewer ==
  \A s, t \in DOMAIN secrets :
    LET b == secrets[t].batch IN
    (/\ s # t /\ Live(s) /\ Live(t)
     /\ b # 0 /\ secrets[t].since = batches[b].decidedAt /\ ~batches[b].duplicates
     /\ secrets[s].material = secrets[t].material)
    => /\ secrets[s].since > batches[b].requestedAt
       /\ secrets[s].batch = b => secrets[s].since > batches[b].decidedAt

\* Escrow: a batch's entries are in the vault once if it was approved, by
\* another user than the one who submitted it, and else not at all.
ImportedOnce ==
  \A b \in DOMAIN batches :
    LET x == batches[b]
        count == Cardinality({s \in DOMAIN secrets : secrets[s].batch = b})
    IN /\ count = IF x.status = "approved" THEN Len(x.entries) ELSE 0
       /\ x.status # "pending" => x.decidedBy \in Users \ {x.requestedBy}
============================================================================
