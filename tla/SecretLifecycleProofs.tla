----------------------- MODULE SecretLifecycleProofs -----------------------
(***************************************************************************)
(* Proofs about SecretLifecycle, for all values of its constants.          *)
(***************************************************************************)
EXTENDS SecretLifecycle, FiniteSetTheorems, TLAPS

(***************************************************************************)
(* The history.                                                            *)
(***************************************************************************)
\* What unshift does to the history of a secret.
LEMMA UnshiftedList ==
  ASSUME NEW x \in Secret
  PROVE  /\ Unshifted(x) \in Seq(Version)
         /\ Len(Unshifted(x)) = Len(x.history) + 1
         /\ Unshifted(x)[1].material = x.material
         /\ Unshifted(x)[1].at = x.at
         /\ \A i \in DOMAIN x.history : Unshifted(x)[i + 1] = x.history[i]
<1>1. Current(x) \in Version /\ x.history \in Seq(Version)
  BY DEF Secret, Version, Current
<1>2. Current(x).material = x.material /\ Current(x).at = x.at
  BY DEF Current
<1>. QED
  BY <1>1, <1>2 DEF Unshifted

\* What slice does to a list.
LEMMA SlicedList ==
  ASSUME NEW h \in Seq(Version)
  PROVE  /\ Sliced(h) \in Seq(Version)
         /\ Len(Sliced(h)) <= HistoryLimit
         /\ Len(Sliced(h)) <= Len(h)
         /\ Len(h) <= HistoryLimit => Len(Sliced(h)) = Len(h)
         /\ Len(h) > HistoryLimit => Len(Sliced(h)) = HistoryLimit
         /\ \A i \in DOMAIN Sliced(h) : Sliced(h)[i] = h[i]
<1>. DEFINE n == IF Len(h) < HistoryLimit THEN Len(h) ELSE HistoryLimit
<1>1. n \in 0 .. Len(h) /\ n <= HistoryLimit
  BY SecretLifecycleAssumption
<1>2. Len(SubSeq(h, 1, n)) = n /\ SubSeq(h, 1, n) \in Seq(Version)
  BY <1>1
<1>3. \A i \in 1 .. n : SubSeq(h, 1, n)[i] = h[i]
  BY <1>1
<1>. QED
  BY <1>1, <1>2, <1>3, SecretLifecycleAssumption DEF Sliced

\* What filter does to a list: one element less, the others in order.
LEMMA WithoutList ==
  ASSUME NEW h \in Seq(Version), NEW i \in 1 .. Len(h) - 1
  PROVE  /\ Without(h, i) \in Seq(Version)
         /\ Len(Without(h, i)) = Len(h) - 1
         /\ \A j \in DOMAIN Without(h, i) :
              Without(h, i)[j] = IF j <= i THEN h[j] ELSE h[j + 1]
<1>1. Len(h) - 1 \in Nat
  OBVIOUS
<1>2. \A j \in 1 .. Len(h) - 1 : (IF j <= i THEN h[j] ELSE h[j + 1]) \in Version
  OBVIOUS
<1>. QED
  BY <1>1, <1>2 DEF Without

(***************************************************************************)
(* What the handlers make of a secret.                                     *)
(***************************************************************************)
\* Newest first, as HistoryNewestFirst says of each secret.
Ordered(x) ==
  /\ \A i \in DOMAIN x.history : x.history[i].at < x.at
  /\ \A i, j \in DOMAIN x.history : i < j => x.history[j].at < x.history[i].at

\* Nothing of x is dated later than c, generated materials included.
Past(x, c) ==
  /\ x.at <= c /\ x.since <= c
  /\ x.material \in Nat => x.material <= c
  /\ \A i \in DOMAIN x.history :
       x.history[i].material \in Nat => x.history[i].material <= c

\* No material of x is lost by y, but for the oldest of a full history.
Keeps(x, y) ==
  \A i \in DOMAIN Unshifted(x) :
    \/ Unshifted(x)[i].material \in {v.material : v \in Elements(Unshifted(y))}
    \/ i = HistoryLimit + 1

\* x was rated against the minimum length x.rated, or is a generated one that is
\* rated low.
RatedFor(x, minimum) ==
  \/ /\ x.risk = "high" <=> LengthOf(x.material) < minimum
     /\ x.approvals <=> LengthOf(x.material) < minimum
  \/ x.material \notin Entered /\ x.risk = "low" /\ ~x.approvals

Rated(x) == x.rated # 0 => RatedFor(x, x.rated)

\* A secret whose material is replaced by one of this moment, typed or generated.
LEMMA StoredSecret ==
  ASSUME NEW x \in Secret, NEW m \in Material, clock \in Nat, minimumLength \in Nat,
         NEW risk \in {"low", "high"}, risk = Risk(m) \/ (m \notin Entered /\ risk = "low"),
         Len(x.history) <= HistoryLimit
  PROVE  LET y == Stored(x, m, risk) IN
         /\ y \in Secret
         /\ Len(y.history) <= HistoryLimit
         /\ y.history = Sliced(Unshifted(x))
         /\ y.material = m /\ y.at = Now /\ y.since = Now /\ y.checked
         /\ y.deleted = x.deleted /\ y.batch = x.batch
         /\ Rated(y)
<1>. DEFINE y == Stored(x, m, risk)
<1>1. /\ Sliced(Unshifted(x)) \in Seq(Version)
      /\ Len(Sliced(Unshifted(x))) <= HistoryLimit
  BY UnshiftedList, SlicedList
<1>2. Now \in Nat
  BY DEF Now
<1>3. /\ y.material = m /\ y.at = Now /\ y.history = Sliced(Unshifted(x))
      /\ y.since = Now /\ y.checked = TRUE /\ y.rated = minimumLength
      /\ y.deleted = x.deleted /\ y.batch = x.batch
      /\ y.risk = risk /\ y.approvals = (risk = "high")
  BY DEF Stored, Secret
<1>4. y \in Secret
  <2>1. (risk = "high") \in BOOLEAN
    OBVIOUS
  <2>. QED
    BY <1>1, <1>2, <2>1 DEF Stored, Secret
<1>5. Rated(y)
  <2>1. CASE risk = Risk(m)
    BY <1>3, <2>1 DEF Rated, RatedFor, Risk, Short
  <2>2. CASE m \notin Entered /\ risk = "low"
    BY <1>3, <2>2 DEF Rated, RatedFor
  <2>. QED
    BY <2>1, <2>2
<1>. QED
  BY <1>1, <1>3, <1>4, <1>5

\* A secret to which a former version is restored.
LEMMA RestoredSecret ==
  ASSUME NEW x \in Secret, NEW i \in DOMAIN x.history, clock \in Nat,
         Len(x.history) <= HistoryLimit
  PROVE  LET y == VersionRestored(x, i) IN
         /\ y \in Secret
         /\ Len(y.history) = Len(x.history)
         /\ \A j \in DOMAIN y.history :
              y.history[j] = IF j <= i THEN Unshifted(x)[j] ELSE Unshifted(x)[j + 1]
         /\ y.material = x.history[i].material
         /\ y.at = Now /\ y.since = Now /\ ~y.checked /\ y.rated = 0
         /\ y.deleted = FALSE /\ y.batch = x.batch
<1>. DEFINE y == VersionRestored(x, i)
            u == Unshifted(x)
            w == Without(u, i)
<1>1. x.history \in Seq(Version) /\ x.history[i] \in Version
  BY DEF Secret
<1>2. u \in Seq(Version) /\ Len(u) = Len(x.history) + 1
  BY UnshiftedList
<1>3. i \in 1 .. Len(u) - 1
  BY <1>1, <1>2
<1>4. /\ w \in Seq(Version) /\ Len(w) = Len(x.history)
      /\ \A j \in DOMAIN w : w[j] = IF j <= i THEN u[j] ELSE u[j + 1]
  BY <1>1, <1>2, <1>3, WithoutList
<1>5. /\ Sliced(w) \in Seq(Version) /\ Len(Sliced(w)) = Len(w)
      /\ \A j \in DOMAIN Sliced(w) : Sliced(w)[j] = w[j]
  BY <1>4, SlicedList
<1>6. /\ y.material = x.history[i].material /\ y.at = Now /\ y.since = Now
      /\ y.history = Sliced(w) /\ y.checked = FALSE /\ y.rated = 0
      /\ y.deleted = FALSE /\ y.batch = x.batch
  BY DEF VersionRestored, Secret
<1>7. Now \in Nat /\ x.history[i].material \in Material
  BY <1>1 DEF Now, Version
<1>8. y \in Secret
  BY <1>5, <1>7 DEF VersionRestored, Secret
<1>9. \A j \in DOMAIN Sliced(w) : j \in DOMAIN w
  BY <1>4, <1>5
<1>. QED
  BY <1>4, <1>5, <1>6, <1>8, <1>9

(***************************************************************************)
(* The steps.                                                              *)
(***************************************************************************)
\* A secret of a new record at the end of the list, or several.
Joined(new) ==
  /\ secrets' = secrets \o new
  /\ Len(secrets') = Len(secrets) + Len(new)
  /\ \A s \in DOMAIN secrets : s \in DOMAIN secrets' /\ secrets'[s] = secrets[s]
  /\ \A s \in DOMAIN secrets' \ DOMAIN secrets :
       s - Len(secrets) \in DOMAIN new /\ secrets'[s] = new[s - Len(secrets)]

LEMMA Joins ==
  ASSUME secrets \in Seq(Secret), NEW new \in Seq(Secret), secrets' = secrets \o new
  PROVE  Joined(new) /\ secrets' \in Seq(Secret)
BY DEF Joined

\* A secret becomes another one: every other stays.
Changed(s, x) ==
  /\ DOMAIN secrets' = DOMAIN secrets /\ Len(secrets') = Len(secrets)
  /\ secrets'[s] = x
  /\ \A t \in DOMAIN secrets \ {s} : secrets'[t] = secrets[t]

LEMMA Changes ==
  ASSUME secrets \in Seq(Secret), NEW s \in DOMAIN secrets, NEW x \in Secret, Becomes(s, x)
  PROVE  Changed(s, x) /\ secrets' \in Seq(Secret) /\ batches' = batches
BY DEF Changed, Becomes

\* A new secret as createSecret makes it.
Created(m) ==
  [material |-> m, at |-> Now, history |-> << >>, deleted |-> FALSE,
   risk |-> Risk(m), approvals |-> Short(m), batch |-> 0,
   since |-> Now, checked |-> TRUE, rated |-> minimumLength]

LEMMA CreatedSecret ==
  ASSUME TypeOK, NEW m \in Entered
  PROVE  /\ Created(m) \in Secret
         /\ Created(m).material = m /\ Created(m).at = Now /\ Created(m).since = Now
         /\ Created(m).history = << >> /\ Created(m).batch = 0
         /\ Created(m).checked /\ Rated(Created(m))
<1>1. /\ Created(m).material = m /\ Created(m).at = Now /\ Created(m).since = Now
      /\ Created(m).history = << >> /\ Created(m).batch = 0
      /\ Created(m).risk = Risk(m) /\ Created(m).approvals = Short(m)
      /\ Created(m).checked = TRUE /\ Created(m).rated = minimumLength
  BY DEF Created
<1>2. Created(m) \in Secret
  <2>1. Risk(m) \in {"low", "high"}
    BY DEF Risk
  <2>2. Short(m) \in BOOLEAN
    BY DEF Short
  <2>3. Now \in Nat
    BY DEF Now, TypeOK
  <2>4. minimumLength \in Nat
    BY SecretLifecycleAssumption DEF TypeOK
  <2>5. m \in Material
    BY DEF Material
  <2>6. << >> \in Seq(Version)
    OBVIOUS
  <2>. QED
    BY <2>1, <2>2, <2>3, <2>4, <2>5, <2>6 DEF Created, Secret
<1>3. Rated(Created(m))
  BY <1>1 DEF Rated, RatedFor, Risk, Short
<1>. QED
  BY <1>1, <1>2, <1>3

\* The secrets approveSecretImport makes of a batch.
Imports(b) ==
  [i \in 1 .. Len(batches[b].entries) |-> Imported(batches[b].entries[i], b)]

LEMMA ImportedSecrets ==
  ASSUME batches \in Seq(Batch), NEW b \in DOMAIN batches, clock \in Nat
  PROVE  /\ Imports(b) \in Seq(Secret)
         /\ Len(Imports(b)) = Len(batches[b].entries)
         /\ \A i \in DOMAIN Imports(b) :
              LET x == Imports(b)[i] IN
              /\ i \in DOMAIN batches[b].entries
              /\ x.material = batches[b].entries[i].material /\ x.material \in Entered
              /\ x.at = Now /\ x.since = Now /\ x.history = << >> /\ x.batch = b
              /\ ~x.checked /\ x.rated = 0
<1>. DEFINE entries == batches[b].entries
<1>1. entries \in Seq(Entry) /\ b \in Nat /\ Now \in Nat
  <2>1. batches[b] \in Batch /\ b \in Nat
    OBVIOUS
  <2>. QED
    BY <2>1 DEF Batch, Now
<1>2. ASSUME NEW i \in 1 .. Len(entries)
      PROVE  LET x == Imported(entries[i], b) IN
             /\ x \in Secret
             /\ x.material = entries[i].material /\ x.material \in Entered
             /\ x.at = Now /\ x.since = Now /\ x.history = << >> /\ x.batch = b
             /\ x.checked = FALSE /\ x.rated = 0
  <2>1. entries[i] \in Entry
    BY <1>1
  <2>2. entries[i].material \in Entered /\ entries[i].rating \in {"low", "high"} \X BOOLEAN
    BY <2>1, SecretLifecycleAssumption DEF Entry
  <2>3. entries[i].rating[1] \in {"low", "high"} /\ entries[i].rating[2] \in BOOLEAN
    BY <2>2
  <2>4. << >> \in Seq(Version) /\ entries[i].material \in Material
    BY <2>2 DEF Material
  <2>. QED
    BY <1>1, <2>2, <2>3, <2>4 DEF Imported, Secret
<1>3. \A i \in 1 .. Len(entries) : Imports(b)[i] = Imported(entries[i], b)
  BY DEF Imports
<1>4. Imports(b) \in Seq(Secret) /\ Len(Imports(b)) = Len(entries)
  <2>1. \A i \in 1 .. Len(entries) : Imported(entries[i], b) \in Secret
    BY <1>2
  <2>2. Len(entries) \in Nat
    BY <1>1
  <2>. QED
    BY <2>1, <2>2 DEF Imports
<1>5. ASSUME NEW i \in DOMAIN Imports(b)
      PROVE  LET x == Imports(b)[i] IN
             /\ i \in DOMAIN entries
             /\ x.material = entries[i].material /\ x.material \in Entered
             /\ x.at = Now /\ x.since = Now /\ x.history = << >> /\ x.batch = b
             /\ x.checked = FALSE /\ x.rated = 0
  <2>1. i \in 1 .. Len(entries) /\ Imports(b)[i] = Imported(entries[i], b)
    BY <1>3, <1>4
  <2>2. i \in DOMAIN entries
    BY <2>1, <1>1
  <2>. QED
    BY <2>1, <2>2, <1>2
<1>. QED
  BY <1>4, <1>5

(***************************************************************************)
(* Type correctness.                                                       *)
(***************************************************************************)
\* What a step leaves alone or does to the batches.
LEMMA BatchSubmitted ==
  ASSUME TypeOK, NEW u \in Users, NEW n \in 1 .. MaxEntries,
         NEW entries \in [1 .. n -> Entry], NEW allow \in BOOLEAN,
         createSecretImport(u, entries, allow)
  PROVE  /\ batches' \in Seq(Batch) /\ Len(batches') = Len(batches) + 1
         /\ \A b \in DOMAIN batches : b \in DOMAIN batches' /\ batches'[b] = batches[b]
         /\ LET x == batches'[Len(batches) + 1] IN
            /\ x.status = "pending" /\ x.entries = entries
            /\ x.duplicates = duplicateReport(entries)
            /\ x.requestedAt = Now /\ x.decidedAt = 0
<1>. DEFINE x == [status |-> "pending", entries |-> entries,
        duplicates |-> duplicateReport(entries), requestedBy |-> u,
        decidedBy |-> 0, requestedAt |-> Now, decidedAt |-> 0]
<1>1. entries \in Seq(Entry) /\ Now \in Nat /\ duplicateReport(entries) \in BOOLEAN
  <2>1. n \in Nat /\ Now \in Nat
    BY SecretLifecycleAssumption DEF Now, TypeOK
  <2>2. duplicateReport(entries) \in BOOLEAN
    BY DEF duplicateReport
  <2>. QED
    BY <2>1, <2>2
<1>2. x \in Batch
  BY <1>1 DEF Batch
<1>3. batches \in Seq(Batch) /\ batches' = Append(batches, x)
  BY DEF TypeOK, createSecretImport
<1>4. /\ batches' \in Seq(Batch) /\ Len(batches') = Len(batches) + 1
      /\ batches'[Len(batches) + 1] = x
      /\ \A b \in DOMAIN batches : b \in DOMAIN batches' /\ batches'[b] = batches[b]
  BY <1>2, <1>3
<1>. QED
  BY <1>4

LEMMA BatchDecided ==
  ASSUME TypeOK, NEW u \in Users, NEW b \in DOMAIN batches, Decidable(u, b),
         NEW status \in {"approved", "denied"}, Decided(u, b, status)
  PROVE  /\ batches' \in Seq(Batch) /\ DOMAIN batches' = DOMAIN batches
         /\ Len(batches') = Len(batches)
         /\ \A c \in DOMAIN batches \ {b} : batches'[c] = batches[c]
         /\ batches[b].status = "pending" /\ batches'[b].status = status
         /\ batches'[b].decidedBy = u /\ u # batches[b].requestedBy
         /\ batches'[b].decidedAt = Now
         /\ batches'[b].requestedBy = batches[b].requestedBy
         /\ batches'[b].entries = batches[b].entries
         /\ batches'[b].duplicates = batches[b].duplicates
         /\ batches'[b].requestedAt = batches[b].requestedAt
<1>. DEFINE x == [batches[b] EXCEPT !.status = status, !.decidedBy = u, !.decidedAt = Now]
<1>1. batches \in Seq(Batch) /\ batches[b] \in Batch /\ Now \in Nat
  BY DEF TypeOK, Now
<1>2. batches' = [batches EXCEPT ![b] = x]
  BY <1>1 DEF Decided, Batch
<1>3. /\ x \in Batch /\ x.status = status /\ x.decidedBy = u /\ x.decidedAt = Now
      /\ x.requestedBy = batches[b].requestedBy /\ x.entries = batches[b].entries
      /\ x.duplicates = batches[b].duplicates /\ x.requestedAt = batches[b].requestedAt
  BY <1>1 DEF Batch
<1>4. /\ batches' \in Seq(Batch) /\ DOMAIN batches' = DOMAIN batches
      /\ Len(batches') = Len(batches) /\ batches'[b] = x
      /\ \A c \in DOMAIN batches \ {b} : batches'[c] = batches[c]
  BY <1>1, <1>2, <1>3
<1>. QED
  BY <1>3, <1>4 DEF Decidable

(***************************************************************************)
(* The kinds of step, by what they do to a secret.                         *)
(***************************************************************************)
Creates(m) ==
  /\ \A s \in DOMAIN secrets : secrets[s].material # m
  /\ Joined(<<Created(m)>>)
  /\ batches' = batches /\ clock' = Now

Replaces(s, m) ==
  LET x == secrets[s]
      y == secrets'[s]
  IN /\ Changed(s, y) /\ batches' = batches /\ clock' = Now
     /\ y.history = Sliced(Unshifted(x))
     /\ y.material = m /\ y.at = Now /\ y.since = Now /\ y.checked
     /\ y.deleted = x.deleted /\ y.batch = x.batch
     /\ Rated(y)
     /\ m # Now => m \in Entered /\ ~Reused(s, m)

Deletes(s) ==
  LET x == secrets[s]
      y == secrets'[s]
  IN /\ Changed(s, y) /\ batches' = batches /\ clock' = clock
     /\ y.deleted
     /\ y.material = x.material /\ y.at = x.at /\ y.history = x.history
     /\ y.risk = x.risk /\ y.approvals = x.approvals /\ y.batch = x.batch
     /\ y.since = x.since /\ y.checked = x.checked /\ y.rated = x.rated

Undeletes(s) ==
  LET x == secrets[s]
      y == secrets'[s]
  IN /\ Changed(s, y) /\ batches' = batches /\ clock' = Now
     /\ y.material = x.material /\ y.at = x.at /\ y.history = x.history
     /\ y.risk = x.risk /\ y.approvals = x.approvals /\ y.batch = x.batch
     /\ y.since = Now /\ ~y.checked /\ y.rated = x.rated

Reinstates(s, i) ==
  LET x == secrets[s]
      y == secrets'[s]
  IN /\ Changed(s, y) /\ batches' = batches /\ clock' = Now
     /\ Len(y.history) = Len(x.history)
     /\ \A j \in DOMAIN y.history :
          y.history[j] = IF j <= i THEN Unshifted(x)[j] ELSE Unshifted(x)[j + 1]
     /\ y.material = x.history[i].material
     /\ y.at = Now /\ y.since = Now /\ ~y.checked /\ y.rated = 0 /\ y.batch = x.batch

Submits ==
  LET n == Len(batches) + 1
  IN /\ secrets' = secrets /\ clock' = Now
     /\ Len(batches') = n
     /\ \A b \in DOMAIN batches : b \in DOMAIN batches' /\ batches'[b] = batches[b]
     /\ batches'[n].status = "pending"
     /\ batches'[n].requestedAt = Now /\ batches'[n].decidedAt = 0
     /\ batches'[n].duplicates = duplicateReport(batches'[n].entries)

Decides(b, status) ==
  /\ clock' = Now
  /\ DOMAIN batches' = DOMAIN batches /\ Len(batches') = Len(batches)
  /\ \A c \in DOMAIN batches \ {b} : batches'[c] = batches[c]
  /\ batches[b].status = "pending" /\ batches'[b].status = status
  /\ batches'[b].decidedBy \in Users \ {batches[b].requestedBy}
  /\ batches'[b].decidedAt = Now
  /\ batches'[b].requestedBy = batches[b].requestedBy
  /\ batches'[b].entries = batches[b].entries
  /\ batches'[b].duplicates = batches[b].duplicates
  /\ batches'[b].requestedAt = batches[b].requestedAt

Approves(b) == Decides(b, "approved") /\ Joined(Imports(b))
Denies(b) == Decides(b, "denied") /\ secrets' = secrets

Kinds ==
  \/ \E m \in Entered : Creates(m)
  \/ \E s \in DOMAIN secrets :
       \/ \E m \in Material : Replaces(s, m)
       \/ Deletes(s) \/ Undeletes(s)
       \/ \E i \in DOMAIN secrets[s].history : Reinstates(s, i)
  \/ Submits
  \/ \E b \in DOMAIN batches : Approves(b) \/ Denies(b)
  \/ UNCHANGED <<secrets, batches, clock>>

\* A secret that becomes another keeps the types.
LEMMA BecomesTyped ==
  ASSUME TypeOK, NEW s \in DOMAIN secrets, NEW x \in Secret, Becomes(s, x),
         Len(x.history) <= HistoryLimit, x.batch = secrets[s].batch,
         clock' \in 0 .. MaxClock, minimumLength' \in Minimums
  PROVE  TypeOK' /\ Changed(s, x) /\ secrets'[s] = x /\ batches' = batches
<1>1. Changed(s, x) /\ secrets' \in Seq(Secret) /\ batches' = batches
  BY Changes DEF TypeOK
<1>2. secrets'[s] = x
  BY <1>1 DEF Changed
<1>3. \A t \in DOMAIN secrets' :
        Len(secrets'[t].history) <= HistoryLimit /\ secrets'[t].batch \in 0 .. Len(batches')
  BY <1>1, <1>2 DEF Changed, TypeOK
<1>. QED
  BY <1>1, <1>2, <1>3 DEF TypeOK

LEMMA StepKind ==
  ASSUME TypeOK, [Next]_vars
  PROVE  TypeOK' /\ Kinds
<1>. USE DEF TypeOK
<1>a. clock \in Nat /\ Now \in Nat /\ (Dated => clock' \in 0 .. MaxClock)
  BY SecretLifecycleAssumption DEF Now, Dated
<1>b. \A s \in DOMAIN secrets : secrets[s] \in Secret
  OBVIOUS
<1>c. minimumLength' \in Minimums /\ minimumLength \in Nat
  BY SecretLifecycleAssumption DEF Next, updatePolicies, vars
<1>1. ASSUME NEW m \in Entered, createSecret(m)
      PROVE  TypeOK' /\ Kinds
  <2>1. Created(m) \in Secret /\ Created(m).history = << >> /\ Created(m).batch = 0
    BY <1>a, <1>c, CreatedSecret
  <2>2. secrets' = secrets \o <<Created(m)>> /\ batches' = batches
    <3>1. secrets' = Append(secrets, Created(m)) /\ batches' = batches
      BY <1>1, Zenon DEF createSecret, Created
    <3>2. ASSUME NEW r \in Secret PROVE Append(secrets, r) = secrets \o <<r>>
      OBVIOUS
    <3>. QED
      BY <2>1, <3>1, <3>2
  <2>3. Joined(<<Created(m)>>) /\ secrets' \in Seq(Secret)
    <3>1. <<Created(m)>> \in Seq(Secret)
      BY <2>1
    <3>. QED
      BY <2>2, <3>1, Joins
  <2>4. Creates(m)
    BY <1>1, <2>2, <2>3 DEF Creates, createSecret, Dated
  <2>5. ASSUME NEW t \in DOMAIN secrets', t \notin DOMAIN secrets
        PROVE  secrets'[t] = Created(m)
    BY <2>1, <2>2, <2>3, <2>5 DEF Joined
  <2>6. \A t \in DOMAIN secrets' :
          Len(secrets'[t].history) <= HistoryLimit /\ secrets'[t].batch \in 0 .. Len(batches')
    <3>1. Len(<< >>) = 0 /\ Len(batches') \in Nat
      BY <2>2
    <3>2. \A t \in DOMAIN secrets : secrets'[t] = secrets[t]
      BY <2>3 DEF Joined
    <3>. QED
      BY <2>1, <2>2, <2>5, <3>1, <3>2, SecretLifecycleAssumption
  <2>7. clock' \in 0 .. MaxClock
    BY <1>1, <1>a DEF createSecret
  <2>. QED
    BY <1>c, <2>2, <2>3, <2>4, <2>6, <2>7 DEF Kinds
<1>2. ASSUME NEW s \in DOMAIN secrets, NEW m \in Material, Dated,
             NEW risk \in {"low", "high"}, Becomes(s, Stored(secrets[s], m, risk)),
             risk = Risk(m) \/ (m \notin Entered /\ risk = "low"),
             m # Now => m \in Entered /\ ~Reused(s, m)
      PROVE  TypeOK' /\ Kinds
  <2>. DEFINE y == Stored(secrets[s], m, risk)
  <2>1. /\ y \in Secret /\ Len(y.history) <= HistoryLimit
        /\ y.history = Sliced(Unshifted(secrets[s]))
        /\ y.material = m /\ y.at = Now /\ y.since = Now /\ y.checked
        /\ y.deleted = secrets[s].deleted /\ y.batch = secrets[s].batch
        /\ Rated(y)
    BY <1>2, <1>a, <1>b, <1>c, StoredSecret
  <2>2. TypeOK' /\ Changed(s, y) /\ secrets'[s] = y /\ batches' = batches
    BY <1>2, <1>a, <1>c, <2>1, BecomesTyped DEF Dated
  <2>3. Replaces(s, m)
    BY <1>2, <2>1, <2>2 DEF Replaces, Dated
  <2>. QED
    BY <2>2, <2>3 DEF Kinds
<1>3. ASSUME NEW s \in DOMAIN secrets, NEW m \in Entered, updateSecret(s, m)
      PROVE  TypeOK' /\ Kinds
  <2>1. Risk(m) \in {"low", "high"} /\ m \in Material
    BY DEF Risk, Material
  <2>. QED
    BY <1>2, <1>3, <2>1 DEF updateSecret, Replaced
<1>4. ASSUME NEW s \in DOMAIN secrets, rotateSecret(s)
      PROVE  TypeOK' /\ Kinds
  <2>1. Now \in Material /\ Now \notin Entered
    BY <1>a, SecretLifecycleAssumption DEF Material
  <2>. QED
    BY <1>2, <1>4, <2>1 DEF rotateSecret, Rotated
<1>5. ASSUME NEW s \in DOMAIN secrets, deleteSecret(s)
      PROVE  TypeOK' /\ Kinds
  <2>. DEFINE y == [secrets[s] EXCEPT !.deleted = TRUE]
  <2>1. /\ y \in Secret /\ y.deleted = TRUE /\ y.material = secrets[s].material
        /\ y.at = secrets[s].at /\ y.history = secrets[s].history
        /\ y.risk = secrets[s].risk /\ y.approvals = secrets[s].approvals
        /\ y.batch = secrets[s].batch /\ y.since = secrets[s].since
        /\ y.checked = secrets[s].checked /\ y.rated = secrets[s].rated
    BY <1>b DEF Secret
  <2>2. Len(y.history) <= HistoryLimit /\ clock' \in 0 .. MaxClock
    BY <1>5, <2>1 DEF deleteSecret
  <2>3. TypeOK' /\ Changed(s, y) /\ secrets'[s] = y /\ batches' = batches
    BY <1>5, <1>c, <2>1, <2>2, BecomesTyped DEF deleteSecret
  <2>4. Deletes(s)
    BY <1>5, <2>1, <2>3 DEF Deletes, deleteSecret
  <2>. QED
    BY <2>3, <2>4 DEF Kinds
<1>6. ASSUME NEW s \in DOMAIN secrets, restoreDeletedSecret(s)
      PROVE  TypeOK' /\ Kinds
  <2>. DEFINE y == [secrets[s] EXCEPT !.deleted = FALSE, !.since = Now, !.checked = FALSE]
  <2>1. /\ y \in Secret /\ y.material = secrets[s].material
        /\ y.at = secrets[s].at /\ y.history = secrets[s].history
        /\ y.risk = secrets[s].risk /\ y.approvals = secrets[s].approvals
        /\ y.batch = secrets[s].batch /\ y.since = Now
        /\ y.checked = FALSE /\ y.rated = secrets[s].rated
    BY <1>a, <1>b DEF Secret
  <2>2. Len(y.history) <= HistoryLimit /\ clock' \in 0 .. MaxClock
    BY <1>6, <1>a, <2>1 DEF restoreDeletedSecret
  <2>3. TypeOK' /\ Changed(s, y) /\ secrets'[s] = y /\ batches' = batches
    BY <1>6, <1>c, <2>1, <2>2, BecomesTyped DEF restoreDeletedSecret
  <2>4. Undeletes(s)
    BY <1>6, <2>1, <2>3 DEF Undeletes, restoreDeletedSecret, Dated
  <2>. QED
    BY <2>3, <2>4 DEF Kinds
<1>7. ASSUME NEW s \in DOMAIN secrets, NEW i \in DOMAIN secrets[s].history,
             restoreSecretVersion(s, i)
      PROVE  TypeOK' /\ Kinds
  <2>. DEFINE y == VersionRestored(secrets[s], i)
  <2>1. /\ y \in Secret /\ Len(y.history) = Len(secrets[s].history)
        /\ \A j \in DOMAIN y.history :
             y.history[j] = IF j <= i THEN Unshifted(secrets[s])[j]
                                      ELSE Unshifted(secrets[s])[j + 1]
        /\ y.material = secrets[s].history[i].material
        /\ y.at = Now /\ y.since = Now /\ ~y.checked /\ y.rated = 0
        /\ y.batch = secrets[s].batch
    BY <1>a, <1>b, RestoredSecret
  <2>2. Len(y.history) <= HistoryLimit /\ clock' \in 0 .. MaxClock
    BY <1>7, <1>a, <2>1 DEF restoreSecretVersion
  <2>3. TypeOK' /\ Changed(s, y) /\ secrets'[s] = y /\ batches' = batches
    BY <1>7, <1>c, <2>1, <2>2, BecomesTyped DEF restoreSecretVersion
  <2>4. Reinstates(s, i)
    BY <1>7, <2>1, <2>3 DEF Reinstates, restoreSecretVersion, Dated
  <2>. QED
    BY <2>3, <2>4 DEF Kinds
<1>8. ASSUME NEW u \in Users, NEW n \in 1 .. MaxEntries, NEW entries \in [1 .. n -> Entry],
             NEW allow \in BOOLEAN, createSecretImport(u, entries, allow)
      PROVE  TypeOK' /\ Kinds
  <2>1. /\ batches' \in Seq(Batch) /\ Len(batches') = Len(batches) + 1
        /\ \A b \in DOMAIN batches : b \in DOMAIN batches' /\ batches'[b] = batches[b]
        /\ batches'[Len(batches) + 1].status = "pending"
        /\ batches'[Len(batches) + 1].entries = entries
        /\ batches'[Len(batches) + 1].duplicates = duplicateReport(entries)
        /\ batches'[Len(batches) + 1].requestedAt = Now
        /\ batches'[Len(batches) + 1].decidedAt = 0
    BY <1>8, BatchSubmitted
  <2>2. secrets' = secrets /\ clock' = Now /\ clock' \in 0 .. MaxClock
    BY <1>8, <1>a DEF createSecretImport, Dated
  <2>3. Submits
    BY <2>1, <2>2 DEF Submits
  <2>4. \A s \in DOMAIN secrets : secrets[s].batch \in 0 .. Len(batches')
    BY <2>1
  <2>. QED
    BY <1>c, <2>1, <2>2, <2>3, <2>4 DEF Kinds
<1>9. ASSUME NEW u \in Users, NEW b \in DOMAIN batches, NEW status \in {"approved", "denied"},
             Decidable(u, b), Dated, Decided(u, b, status)
      PROVE  Decides(b, status) /\ batches' \in Seq(Batch) /\ clock' \in 0 .. MaxClock
  <2>1. clock' = Now /\ clock' \in 0 .. MaxClock
    BY <1>9, <1>a DEF Dated
  <2>. QED
    BY <1>9, <2>1, BatchDecided DEF Decides
<1>10. ASSUME NEW u \in Users, NEW b \in DOMAIN batches, approveSecretImport(u, b)
       PROVE  TypeOK' /\ Kinds
  <2>1. Decides(b, "approved") /\ batches' \in Seq(Batch) /\ clock' \in 0 .. MaxClock
    BY <1>9, <1>10 DEF approveSecretImport
  <2>2. /\ Imports(b) \in Seq(Secret)
        /\ \A i \in DOMAIN Imports(b) : Imports(b)[i].history = << >> /\ Imports(b)[i].batch = b
    BY <1>a, ImportedSecrets
  <2>3. secrets' = secrets \o Imports(b)
    BY <1>10 DEF approveSecretImport, Imports
  <2>4. Joined(Imports(b)) /\ secrets' \in Seq(Secret)
    BY <2>2, <2>3, Joins
  <2>5. \A t \in DOMAIN secrets' :
          Len(secrets'[t].history) <= HistoryLimit /\ secrets'[t].batch \in 0 .. Len(batches')
    <3>1. SUFFICES ASSUME NEW t \in DOMAIN secrets'
          PROVE  Len(secrets'[t].history) <= HistoryLimit
                 /\ secrets'[t].batch \in 0 .. Len(batches')
      OBVIOUS
    <3>2. CASE t \in DOMAIN secrets
      BY <3>2, <2>1, <2>4 DEF Joined, Decides
    <3>3. CASE t \notin DOMAIN secrets
      <4>1. secrets'[t].history = << >> /\ secrets'[t].batch = b
        BY <3>3, <2>2, <2>4 DEF Joined
      <4>. QED
        BY <4>1, <2>1, SecretLifecycleAssumption DEF Decides
    <3>. QED
      BY <3>2, <3>3
  <2>. QED
    BY <1>c, <2>1, <2>4, <2>5 DEF Kinds, Approves
<1>11. ASSUME NEW u \in Users, NEW b \in DOMAIN batches, denySecretImport(u, b)
       PROVE  TypeOK' /\ Kinds
  <2>1. Decides(b, "denied") /\ batches' \in Seq(Batch) /\ clock' \in 0 .. MaxClock
    BY <1>9, <1>11 DEF denySecretImport
  <2>2. secrets' = secrets
    BY <1>11 DEF denySecretImport
  <2>. QED
    BY <1>c, <2>1, <2>2 DEF Kinds, Denies, Decides
<1>12. CASE UNCHANGED vars
  BY <1>12 DEF vars, Kinds
<1>14. ASSUME NEW n \in Minimums, updatePolicies(n)
       PROVE  TypeOK' /\ Kinds
  BY <1>14 DEF updatePolicies, Kinds
<1>13. \A s \in DOMAIN secrets, i \in 1 .. HistoryLimit :
         restoreSecretVersion(s, i) => i \in DOMAIN secrets[s].history
  BY DEF restoreSecretVersion
<1>. QED
  BY <1>1, <1>3, <1>4, <1>5, <1>6, <1>7, <1>8, <1>10, <1>11, <1>12, <1>13, <1>14 DEF Next, SecretStep

\* The types, the limit of the history and the batches secrets name.
THEOREM TypeCorrect == Spec => []TypeOK
<1>1. Init => TypeOK
  BY SecretLifecycleAssumption DEF Init, TypeOK
<1>2. TypeOK /\ [Next]_vars => TypeOK'
  BY StepKind
<1>. QED
  BY <1>1, <1>2, PTL DEF Spec

(***************************************************************************)
(* The order of the history.                                               *)
(***************************************************************************)
\* Unshift keeps the order, since what it puts in front is the newest.
LEMMA UnshiftedOrdered ==
  ASSUME NEW x \in Secret, Ordered(x)
  PROVE  /\ \A i \in DOMAIN Unshifted(x) : Unshifted(x)[i].at \in Nat
         /\ \A i \in DOMAIN Unshifted(x) : Unshifted(x)[i].at <= x.at
         /\ \A i, j \in DOMAIN Unshifted(x) :
              i < j => Unshifted(x)[j].at < Unshifted(x)[i].at
<1>. DEFINE u == Unshifted(x)
<1>1. /\ u \in Seq(Version) /\ Len(u) = Len(x.history) + 1 /\ u[1].at = x.at
      /\ \A i \in DOMAIN x.history : u[i + 1] = x.history[i]
  BY UnshiftedList
<1>2. x.history \in Seq(Version) /\ x.at \in Nat
  BY DEF Secret
<1>3. ASSUME NEW i \in DOMAIN u, i # 1
      PROVE  i - 1 \in DOMAIN x.history /\ u[i] = x.history[i - 1]
  <2>1. i - 1 \in DOMAIN x.history
    BY <1>1, <1>2, <1>3
  <2>2. u[(i - 1) + 1] = x.history[i - 1]
    BY <1>1, <2>1
  <2>. QED
    BY <2>1, <2>2, <1>1
<1>4. \A i \in DOMAIN u : u[i].at \in Nat
  <2>1. \A i \in DOMAIN u : u[i] \in Version
    BY <1>1
  <2>. QED
    BY <2>1 DEF Version
<1>5. \A i \in DOMAIN u : i # 1 => u[i].at < x.at
  BY <1>3 DEF Ordered
<1>6. ASSUME NEW i \in DOMAIN u, NEW j \in DOMAIN u, i < j
      PROVE  u[j].at < u[i].at
  <2>1. i \in Nat /\ j \in Nat /\ i >= 1 /\ j # 1
    BY <1>1, <1>6
  <2>2. CASE i = 1
    BY <2>1, <2>2, <1>1, <1>5
  <2>3. CASE i # 1
    <3>1. u[i] = x.history[i - 1] /\ u[j] = x.history[j - 1]
          /\ i - 1 \in DOMAIN x.history /\ j - 1 \in DOMAIN x.history /\ i - 1 < j - 1
      BY <2>1, <2>3, <1>3, <1>6
    <3>. QED
      BY <3>1 DEF Ordered
  <2>. QED
    BY <2>2, <2>3
<1>7. \A i \in DOMAIN u : u[i].at <= x.at
  BY <1>1, <1>2, <1>4, <1>5
<1>. QED
  BY <1>4, <1>6, <1>7

\* The property together with what makes it inductive: time does not go back.
OrderInv ==
  \A s \in DOMAIN secrets : Ordered(secrets[s]) /\ secrets[s].at <= clock

LEMMA OrderStep ==
  ASSUME TypeOK, OrderInv, TypeOK', Kinds
  PROVE  OrderInv'
<1>. SUFFICES ASSUME NEW t \in DOMAIN secrets'
     PROVE  Ordered(secrets'[t]) /\ secrets'[t].at <= clock'
  BY DEF OrderInv
<1>. DEFINE x == secrets[t]
            y == secrets'[t]
            u == Unshifted(x)
<1>a. clock \in Nat /\ clock' \in Nat /\ Now = clock + 1
  BY DEF TypeOK, Now
<1>b. ASSUME NEW s \in DOMAIN secrets
      PROVE  /\ secrets[s] \in Secret /\ secrets[s].at \in Nat
             /\ Ordered(secrets[s]) /\ secrets[s].at <= clock
  <2>1. secrets[s] \in Secret
    BY DEF TypeOK
  <2>. QED
    BY <2>1 DEF OrderInv, Secret
<1>c. ASSUME t \in DOMAIN secrets, y.history = x.history, y.at = x.at, clock' \in {clock, Now}
      PROVE  Ordered(y) /\ y.at <= clock'
  BY <1>a, <1>b, <1>c DEF Ordered
<1>d. ASSUME t \in DOMAIN secrets, clock' = Now, y.at = Now
      PROVE  /\ \A i \in DOMAIN u : u[i].at \in Nat /\ u[i].at < y.at
             /\ \A i, j \in DOMAIN u : i < j => u[j].at < u[i].at
  BY <1>a, <1>b, <1>d, UnshiftedOrdered
<1>e. ASSUME t \in DOMAIN secrets
      PROVE  /\ u \in Seq(Version) /\ Len(u) = Len(x.history) + 1
             /\ x.history \in Seq(Version) /\ y \in Secret
  <2>1. y \in Secret
    BY DEF TypeOK
  <2>. QED
    BY <1>b, <1>e, <2>1, UnshiftedList DEF Secret
<1>1. ASSUME NEW m \in Entered, Creates(m)
      PROVE  Ordered(y) /\ y.at <= clock'
  <2>1. CASE t \in DOMAIN secrets
    BY <1>1, <2>1, <1>c DEF Creates, Joined
  <2>2. CASE t \notin DOMAIN secrets
    <3>1. y = Created(m) /\ clock' = Now
      BY <1>1, <2>2 DEF Creates, Joined
    <3>2. y.at = Now /\ y.history = << >>
      BY <3>1, <1>a, CreatedSecret
    <3>. QED
      BY <3>1, <3>2, <1>a DEF Ordered
  <2>. QED
    BY <2>1, <2>2
<1>2. ASSUME NEW s \in DOMAIN secrets, NEW m \in Material, Replaces(s, m)
      PROVE  Ordered(y) /\ y.at <= clock'
  <2>1. t \in DOMAIN secrets /\ clock' = Now
    BY <1>2 DEF Replaces, Changed
  <2>2. CASE t = s
    <3>1. y.history = Sliced(u) /\ y.at = Now
      BY <1>2, <2>2 DEF Replaces
    <3>2. \A i \in DOMAIN Sliced(u) : i \in DOMAIN u /\ Sliced(u)[i] = u[i]
      BY <1>e, <2>1, SlicedList
    <3>. QED
      BY <3>1, <3>2, <2>1, <1>a, <1>d DEF Ordered
  <2>3. CASE t # s
    BY <1>2, <1>c, <2>1, <2>3 DEF Replaces, Changed
  <2>. QED
    BY <2>2, <2>3
<1>3. ASSUME NEW s \in DOMAIN secrets, Deletes(s) \/ Undeletes(s)
      PROVE  Ordered(y) /\ y.at <= clock'
  <2>1. /\ t \in DOMAIN secrets /\ clock' \in {clock, Now}
        /\ t # s => y = x
        /\ t = s => y.history = x.history /\ y.at = x.at
    BY <1>3 DEF Deletes, Undeletes, Changed
  <2>. QED
    BY <2>1, <1>c
<1>4. ASSUME NEW s \in DOMAIN secrets, NEW i \in DOMAIN secrets[s].history, Reinstates(s, i)
      PROVE  Ordered(y) /\ y.at <= clock'
  <2>1. t \in DOMAIN secrets /\ clock' = Now
    BY <1>4 DEF Reinstates, Changed
  <2>2. CASE t = s
    <3>1. /\ Len(y.history) = Len(x.history) /\ y.at = Now
          /\ \A j \in DOMAIN y.history : y.history[j] = IF j <= i THEN u[j] ELSE u[j + 1]
      BY <1>4, <2>2 DEF Reinstates
    <3>2. i \in Nat /\ y.history \in Seq(Version)
      BY <1>e, <2>1, <2>2 DEF Secret
    <3>. DEFINE from(j) == IF j <= i THEN j ELSE j + 1
    <3>3. \A j \in DOMAIN y.history : from(j) \in DOMAIN u /\ y.history[j] = u[from(j)]
      BY <3>1, <3>2, <1>e, <2>1
    <3>4. \A j, k \in DOMAIN y.history : j < k => from(j) < from(k)
      BY <3>2
    <3>. HIDE DEF from
    <3>. QED
      BY <3>1, <3>3, <3>4, <2>1, <1>a, <1>d DEF Ordered
  <2>3. CASE t # s
    BY <1>4, <1>c, <2>1, <2>3 DEF Reinstates, Changed
  <2>. QED
    BY <2>2, <2>3
<1>5. ASSUME NEW b \in DOMAIN batches, Approves(b)
      PROVE  Ordered(y) /\ y.at <= clock'
  <2>1. clock' = Now
    BY <1>5 DEF Approves, Decides
  <2>2. CASE t \in DOMAIN secrets
    BY <1>5, <2>1, <2>2, <1>c DEF Approves, Joined
  <2>3. CASE t \notin DOMAIN secrets
    <3>1. \E i \in DOMAIN Imports(b) : y = Imports(b)[i]
      BY <1>5, <2>3 DEF Approves, Joined
    <3>2. batches \in Seq(Batch)
      BY DEF TypeOK
    <3>3. y.at = Now /\ y.history = << >>
      BY <3>1, <3>2, <1>a, ImportedSecrets
    <3>. QED
      BY <3>3, <2>1, <1>a DEF Ordered
  <2>. QED
    BY <2>2, <2>3
<1>6. ASSUME secrets' = secrets, clock' \in {clock, Now}
      PROVE  Ordered(y) /\ y.at <= clock'
  BY <1>6, <1>c
<1>. QED
  BY <1>1, <1>2, <1>3, <1>4, <1>5, <1>6 DEF Kinds, Submits, Denies, Decides, vars

\* The history of a secret is newest first, and all of it is older than the
\* current version.
THEOREM NewestFirst == Spec => []HistoryNewestFirst
<1>1. Init => OrderInv
  BY DEF Init, OrderInv
<1>2. TypeOK /\ OrderInv /\ [Next]_vars => OrderInv'
  BY StepKind, OrderStep
<1>3. OrderInv => HistoryNewestFirst
  BY DEF OrderInv, Ordered, HistoryNewestFirst
<1>. QED
  BY <1>1, <1>2, <1>3, TypeCorrect, PTL DEF Spec

(***************************************************************************)
(* Risk and approvals.                                                     *)
(***************************************************************************)
RatedInv == \A s \in DOMAIN secrets : Rated(secrets[s])

LEMMA RatedStep ==
  ASSUME TypeOK, RatedInv, Kinds
  PROVE  RatedInv'
<1>. SUFFICES ASSUME NEW t \in DOMAIN secrets'
     PROVE  Rated(secrets'[t])
  BY DEF RatedInv
<1>a. clock \in Nat /\ batches \in Seq(Batch)
  BY DEF TypeOK
<1>b. t \in DOMAIN secrets => Rated(secrets[t])
  BY DEF RatedInv
<1>1. ASSUME NEW m \in Entered, Creates(m)
      PROVE  Rated(secrets'[t])
  <2>1. CASE t \in DOMAIN secrets
    BY <1>1, <2>1, <1>b DEF Creates, Joined
  <2>2. CASE t \notin DOMAIN secrets
    <3>1. secrets'[t] = Created(m)
      BY <1>1, <2>2 DEF Creates, Joined
    <3>2. Rated(Created(m))
      BY <1>a, CreatedSecret
    <3>. QED
      BY <3>1, <3>2
  <2>. QED
    BY <2>1, <2>2
<1>2. ASSUME NEW s \in DOMAIN secrets, NEW m \in Material, Replaces(s, m)
      PROVE  Rated(secrets'[t])
  BY <1>2, <1>b DEF Replaces, Changed
<1>3. ASSUME NEW s \in DOMAIN secrets, Deletes(s) \/ Undeletes(s)
      PROVE  Rated(secrets'[t])
  <2>1. /\ t \in DOMAIN secrets
        /\ t # s => secrets'[t] = secrets[t]
        /\ t = s => /\ secrets'[t].material = secrets[t].material
                    /\ secrets'[t].risk = secrets[t].risk
                    /\ secrets'[t].approvals = secrets[t].approvals
                    /\ secrets'[t].rated = secrets[t].rated
    BY <1>3, Zenon DEF Deletes, Undeletes, Changed
  <2>. QED
    BY <2>1, <1>b, Zenon DEF Rated, RatedFor
<1>4. ASSUME NEW s \in DOMAIN secrets, NEW i \in DOMAIN secrets[s].history, Reinstates(s, i)
      PROVE  Rated(secrets'[t])
  BY <1>4, <1>b DEF Reinstates, Changed, Rated
<1>5. ASSUME NEW b \in DOMAIN batches, Approves(b)
      PROVE  Rated(secrets'[t])
  <2>1. CASE t \in DOMAIN secrets
    BY <1>5, <2>1, <1>b DEF Approves, Joined
  <2>2. CASE t \notin DOMAIN secrets
    <3>1. PICK i \in DOMAIN Imports(b) : secrets'[t] = Imports(b)[i]
      BY <1>5, <2>2 DEF Approves, Joined
    <3>2. Imports(b)[i].rated = 0
      BY <1>a, ImportedSecrets
    <3>. QED
      BY <3>1, <3>2 DEF Rated
  <2>. QED
    BY <2>1, <2>2
<1>6. ASSUME secrets' = secrets
      PROVE  Rated(secrets'[t])
  BY <1>6, <1>b
<1>. QED
  BY <1>1, <1>2, <1>3, <1>4, <1>5, <1>6 DEF Kinds, Submits, Denies, vars

\* Risk and approvals say how the material compares with the policy they were
\* set under, unless it was imported or is a former version brought back, or was
\* generated: then they are low whatever the policy asks for.
THEOREM Rating == Spec => []RatedAsItIs
<1>1. Init => RatedInv
  BY DEF Init, RatedInv
<1>2. TypeOK /\ RatedInv /\ [Next]_vars => RatedInv'
  BY StepKind, RatedStep
<1>3. TypeOK /\ RatedInv => RatedAsItIs
  <2>. SUFFICES ASSUME TypeOK, RatedInv, NEW s \in DOMAIN secrets,
                       secrets[s].rated = minimumLength
       PROVE  \/ /\ secrets[s].risk = "high" <=> Short(secrets[s].material)
                 /\ secrets[s].approvals <=> Short(secrets[s].material)
              \/ /\ secrets[s].material \notin Entered
                 /\ secrets[s].risk = "low" /\ ~secrets[s].approvals
    BY Zenon DEF RatedAsItIs
  <2>1. minimumLength # 0
    BY SecretLifecycleAssumption DEF TypeOK
  <2>2. RatedFor(secrets[s], minimumLength)
    BY <2>1, Zenon DEF RatedInv, Rated
  <2>. QED
    BY <2>2, Zenon DEF RatedFor, Short
<1>. QED
  BY <1>1, <1>2, <1>3, TypeCorrect, PTL DEF Spec

(***************************************************************************)
(* Reuse.                                                                  *)
(***************************************************************************)
\* Nothing is dated, and no material generated, later than now.
PastInv == \A s \in DOMAIN secrets : Past(secrets[s], clock)

LEMMA PastStep ==
  ASSUME TypeOK, PastInv, TypeOK', Kinds
  PROVE  PastInv'
<1>. SUFFICES ASSUME NEW t \in DOMAIN secrets'
     PROVE  Past(secrets'[t], clock')
  BY DEF PastInv
<1>. DEFINE x == secrets[t]
            y == secrets'[t]
            u == Unshifted(x)
<1>a. clock \in Nat /\ clock' \in Nat /\ Now = clock + 1 /\ batches \in Seq(Batch)
  BY DEF TypeOK, Now
<1>b. ASSUME NEW s \in DOMAIN secrets
      PROVE  /\ secrets[s] \in Secret /\ Past(secrets[s], clock)
             /\ secrets[s].at \in Nat /\ secrets[s].since \in Nat
  <2>1. secrets[s] \in Secret
    BY DEF TypeOK
  <2>. QED
    BY <2>1 DEF PastInv, Secret
<1>. DEFINE Older(h) == \A i \in DOMAIN h : h[i].material \in Nat => h[i].material <= clock
<1>d. ASSUME t \in DOMAIN secrets
      PROVE  Older(u)
  <2>1. /\ u \in Seq(Version) /\ Len(u) = Len(x.history) + 1 /\ u[1].material = x.material
        /\ \A i \in DOMAIN x.history : u[i + 1] = x.history[i]
        /\ x.history \in Seq(Version)
    BY <1>b, <1>d, UnshiftedList DEF Secret
  <2>2. ASSUME NEW i \in DOMAIN u, i # 1
        PROVE  i - 1 \in DOMAIN x.history /\ u[i] = x.history[i - 1]
    <3>1. i - 1 \in DOMAIN x.history
      BY <2>1, <2>2
    <3>2. u[(i - 1) + 1] = x.history[i - 1]
      BY <2>1, <3>1
    <3>. QED
      BY <2>1, <3>1, <3>2
  <2>. QED
    BY <2>1, <2>2, <1>b, <1>d DEF Past
<1>e. y \in Secret
  BY DEF TypeOK
<1>f. y.at \in Nat /\ y.since \in Nat /\ y.history \in Seq(Version) /\ Entered \cap Nat = {}
  BY <1>e, SecretLifecycleAssumption DEF Secret
<1>g. ASSUME t \in DOMAIN secrets, y = x, clock' \in {clock, Now}
      PROVE  Past(secrets'[t], clock')
  BY <1>a, <1>b, <1>g DEF Past
<1>1. ASSUME NEW m \in Entered, Creates(m)
      PROVE  Past(secrets'[t], clock')
  <2>1. CASE t \in DOMAIN secrets
    BY <1>1, <2>1, <1>g DEF Creates, Joined
  <2>2. CASE t \notin DOMAIN secrets
    <3>1. y = Created(m) /\ clock' = Now
      BY <1>1, <2>2 DEF Creates, Joined
    <3>2. y.at = Now /\ y.since = Now /\ y.history = << >> /\ y.material = m
      BY <3>1, <1>a, CreatedSecret
    <3>. QED
      BY <3>1, <3>2, <1>a, <1>f DEF Past
  <2>. QED
    BY <2>1, <2>2
<1>2. ASSUME NEW s \in DOMAIN secrets, NEW m \in Material, Replaces(s, m)
      PROVE  Past(secrets'[t], clock')
  <2>1. t \in DOMAIN secrets /\ clock' = Now
    BY <1>2 DEF Replaces, Changed
  <2>2. CASE t = s
    <3>1. /\ y.history = Sliced(u) /\ y.at = Now /\ y.since = Now /\ y.material = m
          /\ m # Now => m \in Entered
      BY <1>2, <2>2 DEF Replaces
    <3>2. u \in Seq(Version)
      BY <1>b, <2>1, UnshiftedList
    <3>3. \A i \in DOMAIN Sliced(u) : i \in DOMAIN u /\ Sliced(u)[i] = u[i]
      BY <3>2, SlicedList
    <3>4. Older(y.history)
      BY <3>1, <3>3, <1>d, <2>1
    <3>. QED
      BY <3>1, <3>4, <2>1, <1>a, <1>f DEF Past
  <2>3. CASE t # s
    BY <1>2, <1>g, <2>1, <2>3 DEF Replaces, Changed
  <2>. QED
    BY <2>2, <2>3
<1>3. ASSUME NEW s \in DOMAIN secrets, Deletes(s) \/ Undeletes(s)
      PROVE  Past(secrets'[t], clock')
  <2>1. /\ t \in DOMAIN secrets /\ clock' \in {clock, Now}
        /\ t # s => y = x
        /\ t = s => /\ y.history = x.history /\ y.at = x.at /\ y.material = x.material
                    /\ y.since = x.since \/ (y.since = Now /\ clock' = Now)
    BY <1>3 DEF Deletes, Undeletes, Changed
  <2>2. CASE t = s
    BY <2>1, <2>2, <1>a, <1>b DEF Past
  <2>3. CASE t # s
    BY <2>1, <2>3, <1>g
  <2>. QED
    BY <2>2, <2>3
<1>4. ASSUME NEW s \in DOMAIN secrets, NEW i \in DOMAIN secrets[s].history, Reinstates(s, i)
      PROVE  Past(secrets'[t], clock')
  <2>1. t \in DOMAIN secrets /\ clock' = Now
    BY <1>4 DEF Reinstates, Changed
  <2>2. CASE t = s
    <3>1. /\ Len(y.history) = Len(x.history) /\ y.at = Now /\ y.since = Now
          /\ \A j \in DOMAIN y.history : y.history[j] = IF j <= i THEN u[j] ELSE u[j + 1]
          /\ y.material = x.history[i].material
      BY <1>4, <2>2 DEF Reinstates
    <3>2. /\ u \in Seq(Version) /\ Len(u) = Len(x.history) + 1 /\ x.history \in Seq(Version)
      BY <1>b, <2>1, UnshiftedList DEF Secret
    <3>3. \A j \in DOMAIN y.history : \E k \in DOMAIN u : y.history[j] = u[k]
      <4>1. i \in Nat
        BY <3>2, <2>2
      <4>2. ASSUME NEW j \in DOMAIN y.history
            PROVE  \E k \in DOMAIN u : y.history[j] = u[k]
        <5>1. j \in DOMAIN u /\ j + 1 \in DOMAIN u
          BY <1>f, <3>1, <3>2
        <5>. QED
          BY <3>1, <5>1
      <4>. QED
        BY <4>2
    <3>4. Older(y.history)
      BY <3>3, <1>d, <2>1
    <3>5. x.history[i].material \in Nat => x.history[i].material <= clock
      BY <1>b, <2>1, <2>2 DEF Past
    <3>. QED
      BY <3>1, <3>4, <3>5, <2>1, <1>a, <1>f DEF Past
  <2>3. CASE t # s
    BY <1>4, <1>g, <2>1, <2>3 DEF Reinstates, Changed
  <2>. QED
    BY <2>2, <2>3
<1>5. ASSUME NEW b \in DOMAIN batches, Approves(b)
      PROVE  Past(secrets'[t], clock')
  <2>1. clock' = Now
    BY <1>5 DEF Approves, Decides
  <2>2. CASE t \in DOMAIN secrets
    BY <1>5, <2>1, <2>2, <1>g DEF Approves, Joined
  <2>3. CASE t \notin DOMAIN secrets
    <3>1. PICK i \in DOMAIN Imports(b) : y = Imports(b)[i]
      BY <1>5, <2>3 DEF Approves, Joined
    <3>2. y.at = Now /\ y.since = Now /\ y.history = << >> /\ y.material \in Entered
      BY <3>1, <1>a, ImportedSecrets
    <3>. QED
      BY <3>2, <2>1, <1>a, <1>f DEF Past
  <2>. QED
    BY <2>2, <2>3
<1>6. ASSUME secrets' = secrets, clock' \in {clock, Now}
      PROVE  Past(secrets'[t], clock')
  BY <1>6, <1>g
<1>. QED
  BY <1>1, <1>2, <1>3, <1>4, <1>5, <1>6 DEF Kinds, Submits, Denies, Decides, vars

\* Secret t came live with the material of a live secret s at the same time
\* or later.
Repeats(s, t) ==
  /\ s # t /\ Live(s) /\ Live(t)
  /\ secrets[s].material = secrets[t].material
  /\ secrets[s].since <= secrets[t].since

LEMMA ReuseStep ==
  ASSUME TypeOK, PastInv, ReuseOnlyUnchecked, Kinds
  PROVE  ReuseOnlyUnchecked'
<1>. SUFFICES ASSUME NEW s \in DOMAIN secrets', NEW t \in DOMAIN secrets', Repeats(s, t)'
     PROVE  ~secrets'[t].checked
  BY DEF ReuseOnlyUnchecked, Repeats
<1>. DEFINE Old(r) == r \in DOMAIN secrets /\ secrets'[r] = secrets[r]
<1>a. clock \in Nat /\ Now = clock + 1 /\ batches \in Seq(Batch)
  BY DEF TypeOK, Now
<1>b. ASSUME NEW r \in DOMAIN secrets
      PROVE  /\ secrets[r].since \in Nat /\ secrets[r].since <= clock
             /\ secrets[r].material # Now
  <2>1. secrets[r] \in Secret
    BY DEF TypeOK
  <2>2. Past(secrets[r], clock)
    BY DEF PastInv
  <2>. QED
    BY <2>1, <2>2, <1>a DEF Past, Secret
<1>c. /\ s # t /\ ~secrets'[s].deleted /\ ~secrets'[t].deleted
      /\ secrets'[s].material = secrets'[t].material
      /\ secrets'[s].since <= secrets'[t].since
  BY DEF Repeats, Live
<1>d. ASSUME Old(s), Old(t)
      PROVE  ~secrets'[t].checked
  BY <1>c, <1>d DEF ReuseOnlyUnchecked, Live
<1>e. ASSUME Old(t), secrets'[s].since = Now
      PROVE  FALSE
  BY <1>a, <1>b, <1>c, <1>e
<1>1. ASSUME NEW m \in Entered, Creates(m)
      PROVE  ~secrets'[t].checked
  <2>1. \A r \in DOMAIN secrets : Old(r) /\ secrets'[r].material # m
    BY <1>1 DEF Creates, Joined
  <2>2. ASSUME NEW r \in DOMAIN secrets', r \notin DOMAIN secrets
        PROVE  /\ r = Len(secrets) + 1 /\ secrets'[r].material = m
               /\ secrets'[r].since = Now
    <3>1. secrets'[r] = Created(m) /\ r - Len(secrets) \in DOMAIN <<Created(m)>>
      BY <1>1, <2>2 DEF Creates, Joined
    <3>2. r \in Nat /\ Len(secrets) \in Nat
      BY <1>1 DEF Creates, Joined, TypeOK
    <3>. QED
      BY <3>1, <3>2, <1>a, CreatedSecret
  <2>. QED
    BY <2>1, <2>2, <1>c, <1>d
<1>2. ASSUME NEW r \in DOMAIN secrets, NEW m \in Material, Replaces(r, m)
      PROVE  ~secrets'[t].checked
  <2>1. /\ \A q \in DOMAIN secrets \ {r} : Old(q)
        /\ DOMAIN secrets' = DOMAIN secrets
        /\ secrets'[r].material = m /\ secrets'[r].since = Now
        /\ m # Now => ~Reused(r, m)
    BY <1>2 DEF Replaces, Changed
  <2>2. ASSUME NEW q \in DOMAIN secrets \ {r}, ~secrets'[q].deleted
        PROVE  secrets'[q].material # m
    <3>1. CASE m = Now
      BY <2>1, <2>2, <3>1, <1>b
    <3>2. CASE m # Now
      BY <2>1, <2>2, <3>2 DEF Reused, Live
    <3>. QED
      BY <3>1, <3>2
  <2>. QED
    BY <2>1, <2>2, <1>c, <1>d
<1>3. ASSUME NEW r \in DOMAIN secrets, Deletes(r)
      PROVE  ~secrets'[t].checked
  BY <1>3, <1>c, <1>d DEF Deletes, Changed
<1>4. ASSUME NEW r \in DOMAIN secrets, Changed(r, secrets'[r]),
             secrets'[r].since = Now, ~secrets'[r].checked
      PROVE  ~secrets'[t].checked
  BY <1>4, <1>c, <1>d, <1>e DEF Changed
<1>5. ASSUME NEW b \in DOMAIN batches, Approves(b)
      PROVE  ~secrets'[t].checked
  <2>1. \A r \in DOMAIN secrets : Old(r)
    BY <1>5 DEF Approves, Joined
  <2>2. ASSUME NEW r \in DOMAIN secrets', r \notin DOMAIN secrets
        PROVE  secrets'[r].since = Now /\ ~secrets'[r].checked
    <3>1. PICK i \in DOMAIN Imports(b) : secrets'[r] = Imports(b)[i]
      BY <1>5, <2>2 DEF Approves, Joined
    <3>. QED
      BY <3>1, <1>a, ImportedSecrets
  <2>. QED
    BY <2>1, <2>2, <1>d, <1>e
<1>6. ASSUME secrets' = secrets
      PROVE  ~secrets'[t].checked
  BY <1>6, <1>d
<1>. QED
  BY <1>1, <1>2, <1>3, <1>4, <1>5, <1>6
  DEF Kinds, Undeletes, Reinstates, Submits, Denies, vars

\* Of two live secrets with one material the later one was not checked.
THEOREM Reuse == Spec => []ReuseOnlyUnchecked
<1>1. Init => PastInv /\ ReuseOnlyUnchecked
  BY DEF Init, PastInv, ReuseOnlyUnchecked
<1>2. TypeOK /\ PastInv /\ ReuseOnlyUnchecked /\ [Next]_vars
        => PastInv' /\ ReuseOnlyUnchecked'
  BY StepKind, PastStep, ReuseStep
<1>. QED
  BY <1>1, <1>2, TypeCorrect, PTL DEF Spec

(***************************************************************************)
(* No version is lost.                                                     *)
(***************************************************************************)
LEMMA KeptByReplacing ==
  ASSUME NEW x \in Secret, NEW y \in Secret, y.history = Sliced(Unshifted(x)),
         Len(x.history) <= HistoryLimit
  PROVE  Keeps(x, y)
<1>. DEFINE u == Unshifted(x)
            w == Unshifted(y)
<1>1. /\ u \in Seq(Version) /\ Len(u) = Len(x.history) + 1 /\ x.history \in Seq(Version)
      /\ HistoryLimit \in Nat
  BY UnshiftedList, SecretLifecycleAssumption DEF Secret
<1>2. /\ Len(w) = Len(y.history) + 1 /\ w \in Seq(Version)
      /\ \A i \in DOMAIN y.history : w[i + 1] = y.history[i]
  BY UnshiftedList
<1>3. ASSUME NEW i \in DOMAIN u, i # HistoryLimit + 1
      PROVE  i \in DOMAIN y.history /\ y.history[i] = u[i]
  <2>1. i \in 1 .. Len(y.history)
    BY <1>1, <1>3, SlicedList
  <2>2. Sliced(u) \in Seq(Version)
    BY <1>1, SlicedList
  <2>. QED
    BY <1>1, <2>1, <2>2, SlicedList
<1>4. ASSUME NEW i \in DOMAIN y.history
      PROVE  i + 1 \in DOMAIN w /\ w[i + 1] = y.history[i]
  <2>1. y.history \in Seq(Version)
    BY DEF Secret
  <2>. QED
    BY <1>2, <2>1
<1>. QED
  BY <1>3, <1>4 DEF Keeps, Elements

LEMMA KeptByRestoring ==
  ASSUME NEW x \in Secret, NEW y \in Secret, NEW i \in DOMAIN x.history,
         Len(y.history) = Len(x.history),
         \A j \in DOMAIN y.history :
            y.history[j] = IF j <= i THEN Unshifted(x)[j] ELSE Unshifted(x)[j + 1],
         y.material = x.history[i].material
  PROVE  Keeps(x, y)
<1>. DEFINE u == Unshifted(x)
            w == Unshifted(y)
<1>1. /\ u \in Seq(Version) /\ Len(u) = Len(x.history) + 1
      /\ x.history \in Seq(Version) /\ y.history \in Seq(Version)
      /\ \A j \in DOMAIN x.history : u[j + 1] = x.history[j]
  BY UnshiftedList DEF Secret
<1>2. /\ Len(w) = Len(y.history) + 1 /\ w \in Seq(Version) /\ w[1].material = y.material
      /\ \A j \in DOMAIN y.history : w[j + 1] = y.history[j]
  BY UnshiftedList
<1>3. ASSUME NEW j \in DOMAIN u
      PROVE  \E k \in DOMAIN w : w[k].material = u[j].material
  <2>0. j \in Nat /\ i \in Nat /\ j \in 1 .. Len(x.history) + 1 /\ i <= Len(x.history)
    BY <1>1
  <2>1. CASE j = i + 1
    <3>1. w[1].material = u[j].material
      BY <1>1, <1>2, <2>1
    <3>2. 1 \in DOMAIN w
      BY <1>1, <1>2
    <3>. QED
      BY <3>1, <3>2
  <2>2. CASE j <= i
    <3>1. j \in DOMAIN y.history /\ j + 1 \in DOMAIN w
      BY <1>1, <1>2, <2>0, <2>2
    <3>2. w[j + 1] = y.history[j] /\ y.history[j] = u[j]
      BY <3>1, <1>2, <2>2
    <3>3. w[j + 1].material = u[j].material
      BY <3>2
    <3>. QED
      BY <3>1, <3>3
  <2>3. CASE j > i + 1
    <3>1. j - 1 \in DOMAIN y.history /\ j \in DOMAIN w /\ ~(j - 1 <= i) /\ (j - 1) + 1 = j
      BY <1>1, <1>2, <2>0, <2>3
    <3>2. w[(j - 1) + 1] = y.history[j - 1] /\ y.history[j - 1] = u[(j - 1) + 1]
      BY <3>1, <1>2
    <3>3. w[j].material = u[j].material
      BY <3>1, <3>2
    <3>. QED
      BY <3>1, <3>3
  <2>. QED
    BY <2>0, <2>1, <2>2, <2>3
<1>. QED
  BY <1>3 DEF Keeps, Elements

LEMMA KeptBySame ==
  ASSUME NEW x \in Secret, NEW y \in Secret, y.history = x.history,
         y.material = x.material, y.at = x.at
  PROVE  Keeps(x, y)
<1>1. Unshifted(y) = Unshifted(x)
  BY DEF Unshifted, Current
<1>. QED
  BY <1>1 DEF Keeps, Elements

\* No handler loses a former material, but for the oldest of a full history.
THEOREM Kept == Spec => VersionsKept
<1>. DEFINE AllKept == \A s \in DOMAIN secrets : Keeps(secrets[s], secrets'[s])
<1>1. ASSUME TypeOK, [Next]_vars, NEW s \in DOMAIN secrets
      PROVE  Keeps(secrets[s], secrets'[s])
  <2>0. TypeOK' /\ Kinds
    BY <1>1, StepKind
  <2>a. secrets[s] \in Secret /\ Len(secrets[s].history) <= HistoryLimit
    BY <1>1 DEF TypeOK
  <2>b. s \in DOMAIN secrets' => secrets'[s] \in Secret
    BY <2>0 DEF TypeOK
  <2>c. ASSUME s \in DOMAIN secrets', secrets'[s] = secrets[s]
        PROVE  Keeps(secrets[s], secrets'[s])
    BY <2>a, <2>b, <2>c, KeptBySame
  <2>1. ASSUME NEW new, Joined(new)
        PROVE  Keeps(secrets[s], secrets'[s])
    BY <2>1, <2>c DEF Joined
  <2>2. ASSUME NEW r \in DOMAIN secrets, NEW m \in Material, Replaces(r, m)
        PROVE  Keeps(secrets[s], secrets'[s])
    <3>1. /\ s \in DOMAIN secrets'
          /\ s # r => secrets'[s] = secrets[s]
          /\ s = r => secrets'[s].history = Sliced(Unshifted(secrets[s]))
      BY <2>2 DEF Replaces, Changed
    <3>2. CASE s = r
      BY <3>1, <3>2, <2>a, <2>b, KeptByReplacing
    <3>. QED
      BY <3>1, <3>2, <2>c
  <2>3. ASSUME NEW r \in DOMAIN secrets, Deletes(r) \/ Undeletes(r)
        PROVE  Keeps(secrets[s], secrets'[s])
    <3>1. /\ s \in DOMAIN secrets'
          /\ s # r => secrets'[s] = secrets[s]
          /\ s = r => /\ secrets'[s].history = secrets[s].history
                      /\ secrets'[s].material = secrets[s].material
                      /\ secrets'[s].at = secrets[s].at
      BY <2>3 DEF Deletes, Undeletes, Changed
    <3>2. CASE s = r
      BY <3>1, <3>2, <2>a, <2>b, KeptBySame
    <3>. QED
      BY <3>1, <3>2, <2>c
  <2>4. ASSUME NEW r \in DOMAIN secrets, NEW i \in DOMAIN secrets[r].history, Reinstates(r, i)
        PROVE  Keeps(secrets[s], secrets'[s])
    <3>1. s \in DOMAIN secrets' /\ (s # r => secrets'[s] = secrets[s])
      BY <2>4 DEF Reinstates, Changed
    <3>2. CASE s = r
      BY <3>1, <3>2, <2>4, <2>a, <2>b, KeptByRestoring DEF Reinstates
    <3>. QED
      BY <3>1, <3>2, <2>c
  <2>5. ASSUME secrets' = secrets
        PROVE  Keeps(secrets[s], secrets'[s])
    BY <2>5, <2>c
  <2>. QED
    BY <2>0, <2>1, <2>2, <2>3, <2>4, <2>5
    DEF Kinds, Creates, Submits, Approves, Denies, vars
<1>2. TypeOK /\ [Next]_vars => AllKept
  BY <1>1
<1>3. TypeOK /\ [Next]_vars =>
        \A s \in DOMAIN secrets :
          LET x == secrets[s]
              kept == {v.material : v \in Elements(Unshifted(secrets'[s]))}
          IN \A i \in DOMAIN Unshifted(x) :
               \/ Unshifted(x)[i].material \in kept
               \/ i = HistoryLimit + 1
  BY <1>2 DEF Keeps
<1>. QED
  BY <1>3, TypeCorrect, PTL DEF Spec, VersionsKept

(***************************************************************************)
(* Imports.                                                                *)
(***************************************************************************)
From(b) == {s \in DOMAIN secrets : secrets[s].batch = b}

OnceInv ==
  \A b \in DOMAIN batches :
    /\ batches[b].status # "approved" => From(b) = {}
    /\ batches[b].status = "approved" => Cardinality(From(b)) = Len(batches[b].entries)
    /\ batches[b].status # "pending" => batches[b].decidedBy \in Users \ {batches[b].requestedBy}

\* Handlers that import nothing leave what came with a batch.
LEMMA FromKept ==
  ASSUME TypeOK, Kinds, NEW b \in DOMAIN batches,
         \A c \in DOMAIN batches : ~Approves(c)
  PROVE  From(b)' = From(b)
<1>a. clock \in Nat /\ b # 0
  BY DEF TypeOK
<1>. SUFFICES ASSUME NEW s
     PROVE  s \in DOMAIN secrets' /\ secrets'[s].batch = b
            <=> s \in DOMAIN secrets /\ secrets[s].batch = b
  BY Zenon DEF From
<1>1. ASSUME NEW m \in Entered, Creates(m)
      PROVE  s \in DOMAIN secrets' /\ secrets'[s].batch = b
             <=> s \in DOMAIN secrets /\ secrets[s].batch = b
  <2>1. ASSUME s \in DOMAIN secrets', s \notin DOMAIN secrets
        PROVE  secrets'[s].batch = 0
    <3>1. secrets'[s] = Created(m)
      BY <1>1, <2>1 DEF Creates, Joined
    <3>. QED
      BY <3>1, <1>a, CreatedSecret
  <2>. QED
    BY <1>1, <1>a, <2>1 DEF Creates, Joined
<1>2. ASSUME NEW r \in DOMAIN secrets, Changed(r, secrets'[r]),
             secrets'[r].batch = secrets[r].batch
      PROVE  s \in DOMAIN secrets' /\ secrets'[s].batch = b
             <=> s \in DOMAIN secrets /\ secrets[s].batch = b
  BY <1>2 DEF Changed
<1>. QED
  BY <1>1, <1>2 DEF Kinds, Replaces, Deletes, Undeletes, Reinstates, Submits, Denies, vars

LEMMA FromImported ==
  ASSUME TypeOK, OnceInv, NEW b \in DOMAIN batches, Approves(b)
  PROVE  /\ From(b) = {} /\ Cardinality(From(b)') = Len(batches[b].entries)
         /\ \A c \in DOMAIN batches \ {b} : From(c)' = From(c)
<1>. DEFINE n == Len(secrets)
            k == Len(batches[b].entries)
<1>a. /\ clock \in Nat /\ batches \in Seq(Batch) /\ secrets \in Seq(Secret)
      /\ n \in Nat /\ DOMAIN secrets = 1 .. n
  BY DEF TypeOK
<1>b. Joined(Imports(b)) /\ batches[b].status = "pending"
  BY DEF Approves, Decides
<1>c. From(b) = {}
  BY <1>b DEF OnceInv
<1>d. k \in Nat
  <2>1. batches[b] \in Batch
    BY <1>a
  <2>. QED
    BY <2>1 DEF Batch
<1>1. /\ Imports(b) \in Seq(Secret) /\ Len(Imports(b)) = k
      /\ \A i \in DOMAIN Imports(b) : Imports(b)[i].batch = b
  BY <1>a, ImportedSecrets
<1>2. DOMAIN secrets' = 1 .. n + k
  BY <1>a, <1>b, <1>1 DEF Joined
<1>3. \A s \in 1 .. n : secrets'[s] = secrets[s]
  BY <1>a, <1>b DEF Joined
<1>4. \A s \in (n + 1) .. (n + k) : secrets'[s].batch = b
  <2>1. ASSUME NEW s \in (n + 1) .. (n + k)
        PROVE  s \in DOMAIN secrets' \ DOMAIN secrets
    BY <1>a, <1>2, <1>d
  <2>. QED
    BY <2>1, <1>b, <1>1 DEF Joined
<1>5. From(b)' = (n + 1) .. (n + k)
  <2>1. \A s \in 1 .. n : secrets'[s].batch # b
    BY <1>3, <1>a, <1>c DEF From
  <2>2. From(b)' = {s \in 1 .. n + k : secrets'[s].batch = b}
    BY <1>2 DEF From
  <2>3. \A s : s \in 1 .. n + k <=> s \in 1 .. n \/ s \in (n + 1) .. (n + k)
    BY <1>a, <1>d
  <2>. QED
    BY <2>1, <2>2, <2>3, <1>4
<1>6. Cardinality((n + 1) .. (n + k)) = k
  <2>1. n + 1 \in Int /\ n + k \in Int
    BY <1>a, <1>d
  <2>2. Cardinality((n + 1) .. (n + k)) = IF n + 1 > n + k THEN 0 ELSE (n + k) - (n + 1) + 1
    BY <2>1, FS_Interval
  <2>. QED
    BY <2>2, <1>a, <1>d
<1>7. ASSUME NEW c \in DOMAIN batches \ {b}
      PROVE  From(c)' = From(c)
  <2>1. From(c)' = {s \in 1 .. n + k : secrets'[s].batch = c}
    BY <1>2 DEF From
  <2>2. From(c) = {s \in 1 .. n : secrets[s].batch = c}
    BY <1>a DEF From
  <2>3. \A s : s \in 1 .. n + k <=> s \in 1 .. n \/ s \in (n + 1) .. (n + k)
    BY <1>a, <1>d
  <2>. QED
    BY <2>1, <2>2, <2>3, <1>3, <1>4
<1>. QED
  BY <1>c, <1>5, <1>6, <1>7

LEMMA OnceStep ==
  ASSUME TypeOK, OnceInv, TypeOK', Kinds
  PROVE  OnceInv'
<1>. SUFFICES ASSUME NEW c \in DOMAIN batches'
     PROVE  /\ batches'[c].status # "approved" => From(c)' = {}
            /\ batches'[c].status = "approved"
                 => Cardinality(From(c)') = Len(batches'[c].entries)
            /\ batches'[c].status # "pending"
                 => batches'[c].decidedBy \in Users \ {batches'[c].requestedBy}
  BY DEF OnceInv
<1>1. ASSUME c \in DOMAIN batches, batches'[c] = batches[c], From(c)' = From(c)
      PROVE  /\ batches'[c].status # "approved" => From(c)' = {}
             /\ batches'[c].status = "approved"
                  => Cardinality(From(c)') = Len(batches'[c].entries)
             /\ batches'[c].status # "pending"
                  => batches'[c].decidedBy \in Users \ {batches'[c].requestedBy}
  BY <1>1 DEF OnceInv
<1>2. ASSUME NEW b \in DOMAIN batches, Approves(b)
      PROVE  /\ batches'[c].status # "approved" => From(c)' = {}
             /\ batches'[c].status = "approved"
                  => Cardinality(From(c)') = Len(batches'[c].entries)
             /\ batches'[c].status # "pending"
                  => batches'[c].decidedBy \in Users \ {batches'[c].requestedBy}
  <2>1. Decides(b, "approved")
    BY <1>2 DEF Approves
  <2>2. CASE c = b
    BY <1>2, <2>1, <2>2, FromImported DEF Decides
  <2>3. CASE c # b
    <3>1. c \in DOMAIN batches /\ batches'[c] = batches[c]
      BY <2>1, <2>3 DEF Decides
    <3>2. From(c)' = From(c)
      BY <1>2, <2>3, <3>1, FromImported
    <3>. QED
      BY <3>1, <3>2, <1>1
  <2>. QED
    BY <2>2, <2>3
<1>3. ASSUME \A b \in DOMAIN batches : ~Approves(b)
      PROVE  /\ batches'[c].status # "approved" => From(c)' = {}
             /\ batches'[c].status = "approved"
                  => Cardinality(From(c)') = Len(batches'[c].entries)
             /\ batches'[c].status # "pending"
                  => batches'[c].decidedBy \in Users \ {batches'[c].requestedBy}
  <2>1. \A b \in DOMAIN batches : From(b)' = From(b)
    BY <1>3, FromKept
  <2>2. CASE batches' = batches
    BY <2>1, <2>2, <1>1
  <2>3. CASE Submits
    <3>1. CASE c \in DOMAIN batches
      BY <2>1, <2>3, <3>1, <1>1 DEF Submits
    <3>2. CASE c \notin DOMAIN batches
      <4>1. c = Len(batches) + 1 /\ batches'[c].status = "pending"
        BY <2>3, <3>2 DEF Submits, TypeOK
      <4>2. \A s \in DOMAIN secrets' : secrets'[s].batch # c
        BY <4>1, <2>3 DEF Submits, TypeOK
      <4>. QED
        BY <4>1, <4>2 DEF From
    <3>. QED
      BY <3>1, <3>2
  <2>4. ASSUME NEW b \in DOMAIN batches, Denies(b)
        PROVE  /\ batches'[c].status # "approved" => From(c)' = {}
               /\ batches'[c].status = "approved"
                    => Cardinality(From(c)') = Len(batches'[c].entries)
               /\ batches'[c].status # "pending"
                    => batches'[c].decidedBy \in Users \ {batches'[c].requestedBy}
    <3>1. Decides(b, "denied")
      BY <2>4 DEF Denies
    <3>2. CASE c = b
      BY <2>1, <3>1, <3>2 DEF Decides, OnceInv
    <3>3. CASE c # b
      BY <2>1, <3>1, <3>3, <1>1 DEF Decides
    <3>. QED
      BY <3>2, <3>3
  <2>. QED
    BY <1>3, <2>2, <2>3, <2>4
    DEF Kinds, Creates, Replaces, Deletes, Undeletes, Reinstates, vars
<1>. QED
  BY <1>2, <1>3

\* An approved batch is in the vault once, and no other at all.
THEOREM Escrow == Spec => []ImportedOnce
<1>1. Init => OnceInv
  BY DEF Init, OnceInv
<1>2. TypeOK /\ OnceInv /\ [Next]_vars => OnceInv'
  BY StepKind, OnceStep
<1>3. OnceInv => ImportedOnce
  <2>1. Cardinality({}) = 0
    BY FS_EmptySet
  <2>. QED
    BY <2>1 DEF OnceInv, ImportedOnce, From
<1>. QED
  BY <1>1, <1>2, <1>3, TypeCorrect, PTL DEF Spec

\* What a pending batch without duplicates can count on until its approval,
\* and when batches were submitted and decided.
PendingInv ==
  \A b \in DOMAIN batches :
    /\ batches[b].requestedAt <= clock /\ batches[b].decidedAt <= clock
    /\ batches[b].status = "pending" /\ ~batches[b].duplicates =>
         /\ \A i, j \in DOMAIN batches[b].entries :
              i # j => batches[b].entries[i].material # batches[b].entries[j].material
         /\ \A i \in DOMAIN batches[b].entries, s \in DOMAIN secrets :
              Live(s) /\ secrets[s].material = batches[b].entries[i].material
                => secrets[s].since > batches[b].requestedAt

\* Every live secret was live already, unchanged, or comes live now.
LEMMA LiveKind ==
  ASSUME TypeOK, Kinds, NEW s \in DOMAIN secrets', ~secrets'[s].deleted
  PROVE  \/ s \in DOMAIN secrets /\ Live(s) /\ secrets'[s] = secrets[s]
         \/ secrets'[s].since = Now /\ clock' = Now
<1>. DEFINE Goal == \/ s \in DOMAIN secrets /\ Live(s) /\ secrets'[s] = secrets[s]
                    \/ secrets'[s].since = Now /\ clock' = Now
<1>a. clock \in Nat /\ batches \in Seq(Batch)
  BY DEF TypeOK
<1>b. s \in DOMAIN secrets /\ secrets'[s] = secrets[s] => Goal
  BY DEF Live
<1>1. ASSUME NEW m \in Entered, Creates(m)
      PROVE  Goal
  <2>1. CASE s \in DOMAIN secrets
    BY <1>1, <2>1, <1>b DEF Creates, Joined
  <2>2. CASE s \notin DOMAIN secrets
    <3>1. secrets'[s] = Created(m) /\ clock' = Now
      BY <1>1, <2>2 DEF Creates, Joined
    <3>. QED
      BY <3>1, <1>a, CreatedSecret
  <2>. QED
    BY <2>1, <2>2
<1>2. ASSUME NEW r \in DOMAIN secrets, Changed(r, secrets'[r]),
             secrets'[r].deleted \/ (secrets'[r].since = Now /\ clock' = Now)
      PROVE  Goal
  BY <1>2, <1>b DEF Changed
<1>3. ASSUME NEW b \in DOMAIN batches, Approves(b)
      PROVE  Goal
  <2>1. CASE s \in DOMAIN secrets
    BY <1>3, <2>1, <1>b DEF Approves, Joined
  <2>2. CASE s \notin DOMAIN secrets
    <3>1. PICK i \in DOMAIN Imports(b) : secrets'[s] = Imports(b)[i]
      BY <1>3, <2>2 DEF Approves, Joined
    <3>2. Imports(b)[i].since = Now
      BY <1>a, ImportedSecrets
    <3>3. clock' = Now
      BY <1>3 DEF Approves, Decides
    <3>. QED
      BY <3>1, <3>2, <3>3
  <2>. QED
    BY <2>1, <2>2
<1>4. secrets' = secrets => Goal
  BY <1>b
<1>. QED
  BY <1>1, <1>2, <1>3, <1>4
  DEF Kinds, Replaces, Deletes, Undeletes, Reinstates, Submits, Denies, vars

\* Every batch stays, is decided now, or is submitted now.
LEMMA BatchKind ==
  ASSUME TypeOK, Kinds, NEW b \in DOMAIN batches'
  PROVE  \/ b \in DOMAIN batches /\ batches'[b] = batches[b] /\ clock' \in {clock, Now}
         \/ b \in DOMAIN batches /\ Approves(b)
         \/ b \in DOMAIN batches /\ Denies(b)
         \/ b = Len(batches) + 1 /\ Submits
<1>1. CASE batches' = batches
  BY <1>1 DEF Kinds, Creates, Replaces, Deletes, Undeletes, Reinstates, Submits,
              Approves, Denies, Decides, vars
<1>2. CASE Submits
  BY <1>2 DEF Submits, TypeOK
<1>3. ASSUME NEW c \in DOMAIN batches, Approves(c) \/ Denies(c)
      PROVE  \/ b \in DOMAIN batches /\ batches'[b] = batches[b] /\ clock' \in {clock, Now}
             \/ b \in DOMAIN batches /\ Approves(b)
             \/ b \in DOMAIN batches /\ Denies(b)
  <2>1. CASE b = c
    BY <1>3, <2>1
  <2>2. CASE b # c
    BY <1>3, <2>2 DEF Approves, Denies, Decides
  <2>. QED
    BY <2>1, <2>2
<1>. QED
  BY <1>1, <1>2, <1>3 DEF Kinds, Creates, Replaces, Deletes, Undeletes, Reinstates, vars

LEMMA PendingStep ==
  ASSUME TypeOK, PendingInv, TypeOK', Kinds
  PROVE  PendingInv'
<1>. SUFFICES ASSUME NEW b \in DOMAIN batches'
     PROVE  /\ batches'[b].requestedAt <= clock' /\ batches'[b].decidedAt <= clock'
            /\ batches'[b].status = "pending" /\ ~batches'[b].duplicates =>
                 /\ \A i, j \in DOMAIN batches'[b].entries :
                      i # j => batches'[b].entries[i].material # batches'[b].entries[j].material
                 /\ \A i \in DOMAIN batches'[b].entries, s \in DOMAIN secrets' :
                      ~secrets'[s].deleted
                      /\ secrets'[s].material = batches'[b].entries[i].material
                        => secrets'[s].since > batches'[b].requestedAt
  BY DEF PendingInv, Live
<1>a. clock \in Nat /\ clock' \in Nat /\ Now = clock + 1
  BY DEF TypeOK, Now
<1>b. ASSUME NEW c \in DOMAIN batches
      PROVE  batches[c].requestedAt \in Nat /\ batches[c].decidedAt \in Nat
  <2>1. batches[c] \in Batch
    BY DEF TypeOK
  <2>. QED
    BY <2>1 DEF Batch
<1>1. CASE b \in DOMAIN batches /\ batches'[b] = batches[b] /\ clock' \in {clock, Now}
  <2>1. batches[b].requestedAt <= clock' /\ batches[b].decidedAt <= clock'
    BY <1>1, <1>a, <1>b DEF PendingInv
  <2>2. ASSUME batches[b].status = "pending", ~batches[b].duplicates,
               NEW i \in DOMAIN batches[b].entries, NEW s \in DOMAIN secrets',
               ~secrets'[s].deleted, secrets'[s].material = batches[b].entries[i].material
        PROVE  secrets'[s].since > batches[b].requestedAt
    <3>1. CASE s \in DOMAIN secrets /\ Live(s) /\ secrets'[s] = secrets[s]
      BY <1>1, <2>2, <3>1 DEF PendingInv
    <3>2. CASE secrets'[s].since = Now
      BY <1>1, <3>2, <1>a, <1>b DEF PendingInv
    <3>. QED
      BY <2>2, <3>1, <3>2, LiveKind
  <2>. QED
    BY <1>1, <2>1, <2>2 DEF PendingInv
<1>2. CASE b \in DOMAIN batches /\ (Approves(b) \/ Denies(b))
  <2>1. /\ batches'[b].requestedAt = batches[b].requestedAt
        /\ batches'[b].decidedAt = Now /\ clock' = Now
        /\ batches'[b].status # "pending"
    BY <1>2 DEF Approves, Denies, Decides
  <2>. QED
    BY <1>2, <2>1, <1>a, <1>b DEF PendingInv
<1>3. CASE b = Len(batches) + 1 /\ Submits
  <2>. DEFINE entries == batches'[b].entries
  <2>1. /\ batches'[b].requestedAt = Now /\ batches'[b].decidedAt = 0 /\ clock' = Now
        /\ batches'[b].duplicates = duplicateReport(entries) /\ secrets' = secrets
    BY <1>3 DEF Submits
  <2>2. DOMAIN entries = 1 .. Len(entries) /\ Len(entries) \in Nat
    <3>1. batches'[b] \in Batch
      BY DEF TypeOK
    <3>. QED
      BY <3>1 DEF Batch
  <2>3. ASSUME ~duplicateReport(entries)
        PROVE  /\ \A i, j \in DOMAIN entries : j < i => entries[j].material # entries[i].material
               /\ \A i \in DOMAIN entries, s \in DOMAIN secrets :
                    Live(s) => secrets[s].material # entries[i].material
    BY <2>2, <2>3 DEF duplicateReport
  <2>4. ASSUME ~duplicateReport(entries), NEW i \in DOMAIN entries, NEW j \in DOMAIN entries, i # j
        PROVE  entries[i].material # entries[j].material
    <3>1. i < j \/ j < i
      BY <2>2, <2>4
    <3>. QED
      BY <3>1, <2>3, <2>4
  <2>. QED
    BY <2>1, <2>3, <2>4, <1>a DEF Live
<1>. QED
  BY <1>1, <1>2, <1>3, BatchKind

LEMMA ImportStep ==
  ASSUME TypeOK, PastInv, OnceInv, PendingInv, ImportRepeatsOnlyNewer, TypeOK', Kinds
  PROVE  ImportRepeatsOnlyNewer'
<1>. SUFFICES
       ASSUME NEW s \in DOMAIN secrets', NEW t \in DOMAIN secrets', NEW b,
              b = secrets'[t].batch,
              s # t, ~secrets'[s].deleted, ~secrets'[t].deleted,
              b # 0, secrets'[t].since = batches'[b].decidedAt, ~batches'[b].duplicates,
              secrets'[s].material = secrets'[t].material
       PROVE  /\ secrets'[s].since > batches'[b].requestedAt
              /\ secrets'[s].batch = b => secrets'[s].since > batches'[b].decidedAt
  BY DEF ImportRepeatsOnlyNewer, Live
<1>a. /\ clock \in Nat /\ Now = clock + 1 /\ batches \in Seq(Batch)
      /\ b \in DOMAIN batches'
  BY DEF TypeOK, Now
<1>b. ASSUME NEW c \in DOMAIN batches
      PROVE  /\ batches[c].requestedAt \in Nat /\ batches[c].decidedAt \in Nat
             /\ batches[c].requestedAt < Now /\ batches[c].decidedAt < Now
  <2>1. batches[c] \in Batch
    BY DEF TypeOK
  <2>2. batches[c].requestedAt \in Nat /\ batches[c].decidedAt \in Nat
    BY <2>1 DEF Batch
  <2>. QED
    BY <2>2, <1>a DEF PendingInv
<1>. DEFINE Old(r) == r \in DOMAIN secrets /\ Live(r) /\ secrets'[r] = secrets[r]
<1>d. /\ Old(s) \/ (secrets'[s].since = Now /\ clock' = Now)
      /\ Old(t) \/ (secrets'[t].since = Now /\ clock' = Now)
  BY LiveKind
<1>1. CASE b \in DOMAIN batches /\ batches'[b] = batches[b]
  <2>1. Old(t)
    BY <1>1, <1>b, <1>d
  <2>2. CASE Old(s)
    BY <1>1, <2>1, <2>2 DEF ImportRepeatsOnlyNewer
  <2>3. CASE secrets'[s].since = Now
    BY <1>1, <2>3, <1>b
  <2>. QED
    BY <1>d, <2>2, <2>3
<1>2. CASE b \in DOMAIN batches /\ Approves(b)
  <2>. DEFINE entries == batches[b].entries
  <2>1. /\ batches[b].status = "pending" /\ ~batches[b].duplicates
        /\ batches'[b].requestedAt = batches[b].requestedAt
        /\ batches'[b].decidedAt = Now /\ Joined(Imports(b))
    BY <1>2 DEF Approves, Decides
  <2>2. From(b) = {}
    BY <1>2, FromImported
  <2>3. ASSUME NEW r \in DOMAIN secrets', secrets'[r].batch = b
        PROVE  /\ r \notin DOMAIN secrets /\ r - Len(secrets) \in DOMAIN entries
               /\ secrets'[r].material = entries[r - Len(secrets)].material
    <3>1. r \notin DOMAIN secrets
      BY <2>1, <2>2, <2>3 DEF Joined, From
    <3>2. r - Len(secrets) \in DOMAIN Imports(b) /\ secrets'[r] = Imports(b)[r - Len(secrets)]
      BY <2>1, <2>3, <3>1 DEF Joined
    <3>. QED
      BY <3>1, <3>2, <1>2, <1>a, ImportedSecrets
  <2>4. CASE secrets'[s].batch = b
    <3>1. s - Len(secrets) # t - Len(secrets)
      <4>1. s \in Nat /\ t \in Nat /\ Len(secrets) \in Nat
        BY DEF TypeOK
      <4>. QED
        BY <4>1
    <3>. QED
      BY <1>2, <2>1, <2>3, <2>4, <3>1 DEF PendingInv
  <2>5. CASE secrets'[s].batch # b
    <3>1. CASE Old(s)
      BY <1>2, <2>1, <2>3, <2>5, <3>1 DEF PendingInv
    <3>2. CASE secrets'[s].since = Now
      BY <1>2, <2>1, <2>5, <3>2, <1>b
    <3>. QED
      BY <1>d, <3>1, <3>2
  <2>. QED
    BY <2>4, <2>5
<1>3. ASSUME Denies(b), b \in DOMAIN batches
      PROVE  FALSE
  <2>1. batches[b].status = "pending" /\ secrets' = secrets
    BY <1>3 DEF Denies, Decides
  <2>2. From(b) = {}
    BY <1>3, <2>1 DEF OnceInv
  <2>. QED
    BY <2>1, <2>2 DEF From
<1>4. ASSUME b = Len(batches) + 1, Submits
      PROVE  FALSE
  <2>1. secrets' = secrets
    BY <1>4 DEF Submits
  <2>. QED
    BY <2>1, <1>4 DEF TypeOK
<1>. QED
  BY <1>1, <1>2, <1>3, <1>4, <1>a, BatchKind

\* An import without reported duplicates duplicates at most what came live
\* after it was submitted.
THEOREM Importing == Spec => []ImportRepeatsOnlyNewer
<1>1. Init => PastInv /\ OnceInv /\ PendingInv /\ ImportRepeatsOnlyNewer
  BY DEF Init, PastInv, OnceInv, PendingInv, ImportRepeatsOnlyNewer
<1>2. TypeOK /\ (PastInv /\ OnceInv /\ PendingInv /\ ImportRepeatsOnlyNewer) /\ [Next]_vars
        => (PastInv /\ OnceInv /\ PendingInv /\ ImportRepeatsOnlyNewer)'
  BY StepKind, PastStep, OnceStep, PendingStep, ImportStep
<1>. QED
  BY <1>1, <1>2, TypeCorrect, PTL DEF Spec

=============================================================================
