# Sentinel Vault: models and proofs

This directory holds TLA+ modules that model the server of Sentinel Vault and the pipeline
of scripts that leads a release to its archive, the TLC configurations that check them, and
proofs checked by the TLA+ proof system. `PROJECT.json`
is the index: which lines each definition stands for, what each run checks, which mutant
of the code each property would notice, and which hazards are covered.

    tlc -workers 2 -config TxnFaults.cfg TxnStore.tla     # any run of PROJECT.json
    tlapm JitAccessProofs.tla                             # any module with theorems

Server paths below are relative to `src/src/server/`, script names to `src/scripts/`.

## The system

### The server

One Node.js process serves a web console and an API over one in-memory object,
`store.state`, that is saved whole to a JSON file or a SQLite row. Handlers run one at a
time up to their first `await`; only a few await anything. That makes most steps atomic and
the exceptions interesting.

| Component | State it keeps | Operations | What makes it correct |
|---|---|---|---|
| Repository (`src/server/data/store.mjs`) | `state`; `transactionDepth`, `transactionSnapshot`, `transactionSaveRequested`, `transactionAfterCommit`; the file or row; backups | `withTransaction`, `save`, `afterCommit`, load at start, backups and restore drills | a failed handler leaves nothing, a successful one is durable, state and audit move together |
| Audit (`auditService.mjs`) | `state.audit`, hash-chained; `audit-ledger.jsonl` | `audit`, `verifyAuditChain`, signed export | the chain is never broken, the ledger follows the trail |
| Just-in-time access (`vaultService.mjs`, `consoleRoutes.mjs`) | `state.accessRequests` | request (awaits the ITSM ticket), approve, deny, revoke | one pending request per pair, quorum, no extended grants |
| Secret lifecycle (`vaultService.mjs`) | `state.secrets` with history | create, update, rotate, delete, restore, restore a version, share, reveal | no reuse of material, history capped, risk and approvals follow the policy |
| Secret imports (`secretImportService.mjs`) | `state.secretImports` | submit, approve, deny | independent approval, no reuse |
| Integrations (`integrationService.mjs`) | `state.integrationOutbox` | enqueue, delivery worker, ticket lookup, work notes, configuration | every event delivered or failed, attempts bounded |
| Sessions (`sessionService.mjs`, `middleware/auth.mjs`) | sessions (memory only), devices, refresh tokens | create, resolve, refresh, revoke | one-time refresh tokens, replay revokes the family |
| Login (`authRoutes.mjs`, `identityService.mjs`) | login failures (saved with the state, emptied at a start), pending federated logins (memory) | login, lockout, federated start and callback, direct ID token | wrong guesses a lockout apart, one session for each state, of who signed in |
| Rate limit (`middleware/rateLimit.mjs`) | a counter for each address and path | the fixed window in front of login and other routes | a bound on any stretch of the window's length |
| Administration (`adminService.mjs`) | tenants, vaults, users | create, update, metadata export and import | tenant tree without cycles, also after half an import |
| Service tokens (`serviceTokenService.mjs`, `devopsRoutes.mjs`) | hashed tokens | create, rotate, revoke, present | a rotated or revoked token is dead, also after a restart, once the change is saved |
| Offline cache, compliance, crypto, configuration, logging, headers | little or none | | |
| Browser extension, Windows companion, React console | clients outside the server | | |

How they interact: every handler that changes something calls `audit`, which builds an event
on the newest one, queues an outbox item, puts off or makes the ledger append (`afterCommit`)
and saves. Secret, access-request and policy handlers do so inside `withTransaction`; the
administrative, session, import and token handlers do not. `requestSecretAccess` awaits the
ticket lookup *inside* `withTransaction`, and since the transaction is global, every handler
that runs in the meantime becomes part of it.

### The release pipeline

Some forty scripts take a release from a workspace of evidence files to an archive. Each reads
the JSON files earlier ones wrote, writes one of its own, and has a validator that compares it
with its sources again; none holds a lock or a state beyond its file. People fill the workspace,
attach files, rule on waivers and commit, at any moment in between.

| Part | Files | Scripts | What makes it correct |
|---|---|---|---|
| Evidence workspace and phase gate | evidence, bundle, manifest, requests, status, redaction, completion, readiness, handoff, pack, gate | `prepare-deployment-evidence-workspace` to `validate-phase-gate-report` | copies agree with what was hashed; what passes was ready; a change closes the gate |
| Phase review and release gate | actions, gaps, decision, signoffs, intake, inventory, waivers, review, closure, release, archive | `prepare-phase-action-register` to `validate-production-release-archive` | a release rests on clean or validly waived evidence, and on the commit that is checked out |

### What is hard

What is hard: the overlap of handlers through that one transaction; saves and ledger appends that
fail; crashes between the ledger and the save; state that a rollback replaces while somebody awaits;
lists that are cut at a limit; retries and late answers; handlers without a transaction that throw
half way; federated callbacks that overlap between their awaits; and, in the pipeline, files that
are older than what they are about. `PROJECT.json` lists these hazards at the lines where they bite.

## Modules

| Module | Models | Checked by | Proved in |
|---|---|---|---|
| `TxnStore` | transactions, save, ledger, load and restart | the `Txn*.cfg` runs | `TxnStoreProofs` |
| `AtomicStore` | abstract: what is durable grows by operations with their audit events, and is never taken back; remnants of failed ones may come with them | refinement from `TxnStore` | `TxnStoreProofs` |
| `JitAccess`, `MCJitAccess` | access requests and decisions | `JitOverlap.cfg` | `JitAccessProofs` |
| `SiemOutbox`, `MCSiemOutbox` | the integration outbox and its delivery worker | `Siem.cfg` | `SiemOutboxProofs` |
| `Sessions`, `MCSessions` | sessions, refresh tokens, devices, disabled users | `Sessions.cfg` | `SessionsProofs` |
| `SecretLifecycle`, `MCSecretLifecycle` | secrets of a vault, their history, imports | `SecretLifecycle.cfg` | `SecretLifecycleProofs` |
| `Login`, `MCLogin` | password and federated login, lockout, rate limit | `Login.cfg` | `LoginProofs` |
| `Administration`, `MCAdministration` | tenants, vaults, metadata import, service tokens | `Administration.cfg` | `AdministrationProofs` |
| `DeploymentEvidence` | the evidence workspace up to the phase gate | an instance in `ReleasePipeline` | `ReleasePipelineProofs` |
| `PhaseReview` | from the action register to the review bundle | extended by `ReleaseGate` | `ReleasePipelineProofs` |
| `ReleaseGate`, `MCReleaseGate` | closure archive, release gate, release archive | `ReleaseRunbook.cfg`, and in `ReleasePipeline` | `ReleasePipelineProofs` |
| `ReleasePipeline`, `MCReleasePipeline` | the two composed: an instance of `DeploymentEvidence` under `ReleaseGate` | `ReleasePipeline.cfg` | `ReleasePipelineProofs` |

How the modules fit together: `TxnStore` has the transaction and its faults in full, with records
that are only names. `JitAccess`, `SiemOutbox`, `Sessions`, `Login` and `Administration` each have
the part of the state they are about, and of the transaction what it does to that part: it puts off
saves, and a rollback goes back to a snapshot. `TxnStore`'s `DurableBase` is what allows them to do
so. `DeploymentEvidence` and `ReleaseGate` meet in one variable, `up`: what the scripts from the
action register on read of the workspace. Alone, `ReleaseGate` lets it change at will within
`Upstream`; `ReleasePipeline` makes it what the files of an instance of `DeploymentEvidence` come to
(`upstream`), `up.sound` being that module's `releaseChecks`.

Definitions whose comment starts with "Wrong:" are variants with a plausible bug. They are not
part of any specification; they show which property would notice the bug.

### TxnStore

*State.* `mem` is `store.state`, `disk` the saved state, `ledger` the ledger file, `depth`,
`snapshot`, `saveRequested` and `hooks` the four module variables of the transaction manager,
`status` what each caller was told. A record is abstracted to the operation that wrote it:
`rows` are operations whose records are there, `torn` those that changed half a record. An
audit event is its operation and the event whose hash it names. Sessions stand for what is
never persisted.

*Actions.* `OpenAccess` is `requestSecretAccess` up to its await; `AccessRecorded`,
`AccessExisting` and `AccessRefused` are its three ends, each with the `finish` or `fail` of
`withTransaction` and, at depth 1, the whole commit or rollback. `EditOk` and `EditThrows` are
synchronous transactional handlers, `PlainWrite` those without a transaction. `Crash` can
happen between any two handlers, `CrashInCommit` after a commit's save with ledger appends
still to run, `CrashInWriteThrough` between a ledger append and the save that follows it.

*Faults.* `"unwritten"`: the save throws and the disk is as before; `"written"`: it throws
after the SQLite COMMIT; `"ledger"`: a ledger append throws. The runs choose which can happen.

*Abstract.* `AtomicStore` has three variables: the operations whose records are durable, their
audit events, and `remnants`, the failed operations of which a part is durable
(`remnants <- disk.torn`). A remnant comes with a save of other operations, stays, and has no
event. The abstract specification has to allow this because the code does it: `updateSecret` sets
fields before its reuse check throws (`vaultService.mjs` 286-298), a nested throw rolls nothing
back, and the outer commit saves the half. `docs/architecture/storage-roadmap.md` (line 45) has
mutations and audit events succeed or roll back together; the divergence is a finding.

*Runs.* `txn_interleaved` (no faults, two crashes) shows that the disk is what a rollback returns
to and implements `AtomicStore`, that the ledger file and the appends still queued spell the
trail, that an acknowledged operation vanishes only when a request was refused or the process
died, that answers hold (`AnswersHold`: success is in memory and on disk and stays there, an
error leaves nothing) as long as no request has opened a transaction, and that put-off appends
are not put off for ever. `txn_faults` (every way a save or an append can throw) shows that the
hash chain never breaks.

*What the code does otherwise.* Two runs end in a violation, each a real trace of the code
(`PROJECT.json`, findings): an acknowledged edit undone by another user's refused ticket
(`txn_refusal_undoes`); a depth of -1 after a failed save, after which nothing is rolled back any
more (`txn_depth_leak`). Two further causes break `FailedLeavesNothing` and have no run of their
own, but the model contains them: a nested handler that throws after changing fields leaves them to
the outer commit, as above, and a backup that fails after the SQLite COMMIT (`store.mjs` 403-406)
rolls memory back from under a saved disk.

*Bounds.* Two access requests are enough for nesting in both orders of ending and for a second
request that finds the first one pending; two edits for one operation before and one after a
failure; one login and one admin write for each kind of plain handler (the admin write is left out
where saves throw: it does there what the login does); two crashes, one before and one after an
operation, one where saves throw, because a restart resets everything but disk and ledger. Every
operation runs once, so the runs end by themselves: they do not check for deadlock.

*Fairness.* Only that an access request whose ticket is being looked up is answered: the
lookup catches every error, and the HTTP client gives up by its own default time limit since
the code sets none. No handler is forced to arrive. `HooksDrain` holds because requests are
finitely many; a stream of overlapping requests without end would starve the commit, a hazard
of the code that this bound hides.

### JitAccess

*State.* `db` is the part of `store.state` concerned: requests (oldest first, so that an index names
a request), roles, vault members, users a secret is shared with, and whether a secret requires
approvals. A request's `grantedUntil` is history: the end its approval gave, which a denial and a
revocation overwrite in `expiresAt`. `snapshot` is the transaction's, `calls` the
`requestSecretAccess` calls in flight, `now` a clock. Saves succeed here, so the disk is not a
variable of its own: `TxnStore`'s `DurableBase` says it equals the snapshot, or the memory if none
is open.

*Actions.* `RequestOpens`, then `RequestRecorded`, `RequestExisting` or `RequestRefused`;
`Approve`, `Deny`, `Revoke`; the surroundings `SetRole`, `SetMembers`, `Share`,
`ReplaceMaterial`; `Tick`; `Crash`. A handler that throws before changing anything is no
action. Deny and revoke look at no status, as in the code.

*Properties.* One pending request for each pair of user and secret (`OnePendingPerPair`); nothing
approved without its quorum (`GrantedByQuorum`); and `GrantNeverExtended`: only an approval of a
pending request grants it, and whatever else leaves a request approved, be it a second decision, a
rollback or a restart that brings back a grant revoked in the transaction, leaves it with the end
that approval gave. A denied or revoked request is open or in force again only if the
transaction it was closed in is rolled back or lost.

*Run.* `jit_overlap` has a security admin, an operator and an auditor without vault access, who
can be promoted, one secret, two requests, two calls in flight, two later moments and one
administrative change. Two calls suffice for a duplicate, three users for a quorum of two that is
not the requester's, one change of role, membership or risk for a quorum judged under changed
rules, two later moments for a decision and a late or repeated one. `Symmetry` permutes the
calls, whose identity no definition looks at.

### SiemOutbox

*State.* `outbox` is the array `store.state.integrationOutbox`, newest event first; `heap` holds
the item objects. A rollback or a restart replaces the state by a copy of other objects, which
`copy` counts: a delivery run that still awaits an answer goes on with the objects it has, and
what it writes to them is lost. `runs` are the delivery runs: the array each iterates, its
position, the item whose answer it awaits. `unshift` works on the very array a run iterates, so
that its position then points at the item before; the cut that follows makes a new array, after
which the run walks the old one (`Shifted`). `txn` and `disk` are the open transaction's snapshot
and the saved outbox; `received` and `sends` count what the receiver saw.

*Actions.* `AuditedHandler` and `updateIntegrationConfig` queue an event, `TxnOpens`,
`TxnRecords`, `TxnEnds` and `rollbackTransaction` are the transaction that awaits a ticket (the
last one also a synchronous handler that throws), `Start` is a firing of the timer with something
to send, `Answer` everything from one answer to the next call of `fetch` or the end of the run,
`DelayElapses` the passing of `nextAttemptAt`, `Crash` a restart.

*Run.* `siem` has two runs of the worker, changes of the webhook, a rollback or crash and an outbox
of one event, so that it overflows: what any copy of the state calls delivered was received, a run
never sends an item twice although the array moves under it, and no event waits for ever while a
webhook is configured: again and again, every event in the outbox has been delivered or given up.
Without a webhook at start (`UrlAtStart = FALSE`) there is no worker, and `QueuedIsSettled` fails
for a webhook configured later. Overlapping runs try an item more often than
`SIEM_MAX_ATTEMPTS`, and so does a rollback that replaces the items by copies; `AttemptsBounded`,
proved, says by how much at most. The run's VIEW leaves out `sends`, which no step and no checked
property reads.

*Bounds.* Two runs overlap in every way two answers can; two events suffice for an array moved
under a run and for the cut at one; one replacement of the state for a run on old objects.

*Fairness.* The interval timer goes on firing, `nextAttemptAt` passes, and a request that is out is
answered, since the HTTP client gives up by its own default time limit. Each of the three is weak
fairness of the action for *some* run or event, as the code has one timer, one clock and one event
loop and favours none. Events need not arrive, the administrator need not act, and an answer need
never be a success.

*Abstracted.* The worker's saves succeed (`TxnStore` has the failing ones). An item queued
without a webhook is `"local"` and never sent. The retry delay has no length. The configured
number of attempts is constant.

### Sessions

*State.* A session and the refresh token issued with it share a number. `db` holds the tokens
that have a record, the used and the revoked ones, the live sessions, disabled users, each
device's last session and the revoked devices; `disk` and `snapshot` are of the same form,
sessions never reach the disk. `issued` says whose the n-th token is, which a client remembers
whatever the server forgets. `exchanged`, `replayed`, `ended` and `restores` are history: what
was exchanged, which families had a replay and which sessions an end that was acknowledged while
no transaction was open, and how often the state was replaced.

*Actions.* `FederatedLogin`; the refresh route as `RefreshRotates`, `RefreshReplayed`,
`RefreshDisabled` and `Refused`; `Request` and `SessionExpires` of the middleware; `Logout`,
`RevokeLive` and `RevokeDead` of the two routes that end a session; `Disable` and `Enable`;
`TxnOpens`, `TxnCommits`, `rollbackTransaction` for another user's access request, which has no
part in this state but to put off saves and to restore it; `Crash`.

*Run.* `sessions` checks five invariants: one exchange of a token for each time the state went back,
replay ends the family, an acknowledged end is final, a disabled user has no session, a revoked
device is gone. They speak of memory, disk and snapshot alike where each of those can become the
state. `ExchangedOncePerRestore` is tight: a rollback or a
crash before the save takes the mark of use back and the same token is exchanged again.

*Bounds.* One user and two clients, hence two devices; three sessions and a limit of two tokens,
so that a record is cut off; two restores, so that a rollback and a restart can both happen.
`Symmetry` permutes the clients, which no definition tells apart. There is no liveness: a session
need not end.

*What the code does, by design or not.* A detected replay revokes the tokens of the family, not
its sessions. A token whose record was cut off is unknown, so its replay is not detected. Ending
a session that is not live revokes its token in memory but is answered with 404 and not saved.
The device inventory's limit of 250 and the lengths of time are left out.

### SecretLifecycle

*State.* `secrets` are the secrets of one vault in the order of their creation, `batches` the
imports into it, `minimumLength` that field of the policies, `clock` a time that every dating step
advances. A password is a material; equal materials have equal fingerprints, and a generated one is
named by its time, hence never equal to another. `since`, `checked` and `rated` of a secret are not
in the code: when it came live with its material, whether the material was compared with the vault's
then, and the minimum length that risk and approvals were set under. A material has a length; a
generated one has `GeneratedLength`, 27 in the code.

*Actions.* One for each function: `createSecret`, `updateSecret` (of the password), `rotateSecret`,
`deleteSecret`, `restoreDeletedSecret`, `restoreSecretVersion`, `createSecretImport`,
`approveSecretImport`, `denySecretImport`, `updatePolicies` (of the minimum length). `rotateSecret`
rates what it generates as low under any policy, as the code does. The reuse checks are modelled as
they differ: against all secrets at creation, the other live ones at an update, the live ones at the
submission of an import, none at a restore or an approval. `Unshifted`, `Without` and `Sliced` are
the three list operations of a history in the order the code makes them.

*Run.* `secret_lifecycle`. `ReuseOnlyUnchecked` and `ImportRepeatsOnlyNewer` say how far the
prevention of reuse goes: a material gets into two live secrets only by a restore or an import, and
an import that reported no duplicates can still repeat what came live between its submission and its
approval. `ImportedOnce` says that a batch is decided once, by another user, and in the vault
exactly if approved. (`docs/architecture/bulk-secret-import.md` says that duplicates are rejected
unless `allowDuplicates` is set.) `RatedAsItIs` says that risk and the need for approvals tell
whether the material is shorter than the policy asks for, with the code's exceptions named: a policy
changed since, a restored version, which keeps the risk of the version it replaces, an import, whose
risk is what the entry says, and a rotation under a policy that asks for more than 27 characters,
which ends in a secret that is too short, rated low and without approvals (`vaultService.mjs`
382-383).

*Bounds.* Two materials and two policies: one lets everything pass, the other asks for more than the
shorter material and more than what is generated. Three secrets, two imports of one or two entries,
a history of two versions, four dated steps, policy changes at any point: enough to fill a history
and lose its oldest version, to restore from a full history, for reuse through each unchecked way,
and for two imports of the same material. `Symmetry` permutes the two users.

*Abstracted.* Access to the vault is `JitAccess`'s subject. Rollbacks and crashes replace the
whole state by an earlier one and are left to `TxnStore`: the invariants hold of an earlier state
as well. The other policies change nothing this module keeps.

### Login

*State.* `failure` and `users` are what `store.state` keeps; `bucket` is one bucket of the rate
limiter; `pending` is `pendingFederatedLogins`; `calls` are the federated requests between their
awaits: `"exchange"` awaits the provider's token endpoint, `"keys"` its signing keys. `txn` is
what an open access request's rollback would restore. `provider` (who signed in, for which
state), `opened`, `judged`, `admitted` and `forgotten` are history.

*Actions.* `TooMany` and `Admitted` are the limiter in front of each handler; `Login` is
`POST /login` with `recordLoginFailure` and `clearLoginFailure`; `Start`, `Callback`,
`Exchanged`, `Validated` and `CallFails` the federated login up to and after each await;
`Direct` an ID token posted without a state; `SignIn` is the external provider's side.
`UpdateUser`, the transaction, `Restart` and `Tick` are the surroundings. A provider may answer
with a code of another state's sign-in: PKCE is not relied on, the nonce is.

*Run.* `login`: wrong passwords beyond the limit are a lockout apart (`GuessesSpaced`; the lock is
renewed by each further failure since the count is not reset), the limiter admits at most twice
its limit in any window (`AdmittedPerWindow`), a state opens one session at most, and a session
is of who signed in for its state, enabled and in that role at that moment
(`SessionIsWhoSignedIn`). `GuessesSpaced` has an exception that is the code's: a failure is
forgotten when the save of its audit event throws before it is stored
(`authRoutes.mjs` 77) or when a refused access request takes the state back.

*Bounds.* One address (failures of two never meet), a limit of two and a lockout of two ticks, so
that it runs out and is renewed within four; two states and two calls, so that callbacks overlap
and codes are swapped; a window of one tick and two requests, so that two windows meet. One
change of a user between two awaits, one restart.

### Administration

*State.* `mem`, `disk` and `snapshot` have the order and parents of the tenants, the tenant of each
vault, and the service tokens; a token is its raw value, the version and key of its hash, whether it
is revoked, and the secrets its scope admits. `keyVersion` is `VAULT_KEY_VERSION`, which the hash is
keyed with. `retired` are raw tokens that an answered call rotated out or revoked, for good;
`retiring` those whose call was answered within a transaction that is still open, so that its save
was put off.

*Actions.* Each handler as it is: without a transaction of its own, so that what was changed before
an exception stays in memory (`SaveThrows`) and is written by the next save of any other handler;
but while an access request awaits its ticket, `save` only notes that it was asked for
(`Answered`). `OpenTransaction` to `RollbackTransaction` are that request's: the commit saves, and
may throw before or after; the refusal goes back to the snapshot; `Restart` to the disk. `Import` is
`importAdminMetadata`, one record after the other, the records before a refused one staying.
`Present` is a DevOps request: a hash from before version 2 is replaced in memory before the token
is looked at and saved only if it serves.

*Run.* `administration`: in memory and on disk the tenants form a tree that
`validateTenantParent`'s walk can climb to its root, every vault's tenant is there
(`HierarchySound`), and a retired token never serves again (`RetiredNeverServes`). This has an
exception that is the code's: a revocation or rotation answered while a transaction is open holds
until that transaction ends, and is final only if it commits. A refused ticket, a commit that
throws or a crash brings the old token back, although its revocation was answered with success
(`store.mjs` 399-402, 433-438; the cause is that of the finding of `txn_refusal_undoes`).

*Bounds.* Three tenants make a cycle longer than a direct one; an import of one tenant and one
vault is one that can be refused after its first record; two tokens, three raw values, four
changes and one restart with or without another key version; opening a transaction is a change,
ending it is not, so that it can be ended after any of them. Requests that overlap are one
transaction.

*Not claimed.* A metadata export cannot always be imported again: new tenants are put first and
exported so, while the import refuses a parent it has not met. A change of `VAULT_KEY_VERSION`,
which `docs/operations/kms-hsm-key-ceremony.md` describes, silently invalidates every service
token of version 2. Neither contradicts something the repository promises.

### DeploymentEvidence

*State.* `evidence`, `bundle` and `roadmap` are what people edit; `file` the derived files, each by
what later scripts read in it; `intact` what still has the bytes the manifest and the pack hashed.
A report carries its time, so that writing it again changes its hash; the checklist carries none.

*Actions.* One for each script, in the order of the runbook at first and in any order after
(`Turn`), each reading the files as they are; edits of evidence, bundle and roadmap; and
`RecutManifest`, a person who recomputes the manifest. The validators are operators, and
`releaseChecks` is what the release gate asks of this part.

*Run.* `release_pipeline`, where the workspace stands under the review: a pack whose hashes stand
agrees with its files (`PackCopiesAgree`); what is complete and rerun passes
(`CompleteIsAccepted`); every change closes the gate (`ChangeClosesGate`); and,
`AcceptedOnlyByHand`, it passes only on a manifest somebody rewrote:
`prepare-deployment-evidence-workspace` hashes templates with placeholders, starts over when it is
run again, and no script recomputes the manifest of a workspace that has been filled. The
repository's `README.md` (line 325) and the one written into the workspace say that replacing the
placeholders is enough; the divergence is a finding. That what
passes is ready at that moment, however old the files that say so (`ReleaseChecksMeanReady`), is
proved, and checked as a part of `ReleaseMeansReady`.

*Bounds.* One evidence file (an item's checks look at no other), a production target, one edit and
two passes: a gate that was ready goes stale and any part of it is written again. The proofs hold
for any number.

### PhaseReview and ReleaseGate

*State.* `up` is the workspace, `attach` what owners put into the intake folders, `expired` the
approved waivers whose date has passed, `file` and `intact` as above, `source` the Git checkout.

*Actions.* One for each script up to the release archive; `RerunUpstream` and `Drift` are the
workspace run again or changed; `EditAttachment`, `RuleWaiver`, `Expire`, `RelabelIntake` and
`Checkout` the people and time. The gate's validator runs the gate again and compares.

The release gate runs on whatever there is: a file that is missing is a blocker of the report it
writes. It only stops, writing nothing, on a closure archive that names other waived evidence than
the review (`GateRuns`). It may be run before its turn.

*Runs.* `release_pipeline`, under the workspace: an accepted report means that each file asked for
is there and was clean when scanned, still with the same bytes, or is missing under an approved
waiver that has not run out (`ReleasedIsEvidenced`); an accepted archive is of the commit that is
checked out (`ArchiveIsCurrent`); nothing it is about changes under it (`ChangeClosesArchive`);
what was run in order with nothing open is accepted (`InOrderIsAccepted`).

`release_runbook` ends in a violation, a finding: `README.md` (lines 296-325) presents the scripts
in their order as leading to an open gate once the evidence is replaced or approved. With a sound
workspace, clean attachments and every script run in that order, the gate is still blocked, by the
intake: `prepare-phase-evidence-intake` runs only while actions are pending, writes `blocked` then,
and the gate asks for an intake that says what the signoffs say when none is. No other order helps:
`ReleasedOnlyByHand`, proved, says that an accepted report rests on an intake relabelled by hand.

*Bounds.* One attachment, one commit beyond the first; two edits and one rerun in
`release_pipeline` (see `Sparing` there), one of each in `release_runbook`; the proofs hold for any
number.

*Abstracted.* Lists of owners, keys and commands that come from one constant; Markdown copies;
`--require-clean` is given, as in the runbook.

### ReleasePipeline

*State.* That of both modules; the files of the workspace are called `reports`, what their hashes
cover `covered`. `Requested` are the entries of the evidence map that an evidence request names a
template for; the others the gap matrix does not ask about.

*Actions.* `FillWorkspace`, `PackEvidence` and `ReportGate` are the steps of `DeploymentEvidence`
(all of them, the pack, the phase gate's report), each with the `up` that results; writing the
pack or the report takes away the hash the review has of it. `Reviewing` is any step of the
review, once the phase gate has been run. `ReleaseGate`'s own `RerunUpstream` and `Drift` are
gone: the workspace takes their place.

*Run.* `release_pipeline`. `WorkspaceIsUpstream` is the assumption `ReleaseGate` is built on: what
changes under the review without the pack or the gate's report being written makes the checks
fail, and touches no more than what is present and the bundle's status. `ReleaseMeansReady` puts
the two modules' promises together, over twenty scripts: an accepted report rests on a bundle,
evidence and attachments that are ready now. That nothing of it changes under an accepted archive
(`ArchiveHoldsEvidence`) is proved.

*Bounds.* One evidence file and one attachment; a second pass over the workspace's scripts after its
edit, which may be made while the review is under way; at most one open item of the roadmap.
`Sparing` makes two parts of the behaviours, whose product would be too large. In one the workspace
is edited once, at any point, so that this happens before the pack, between the two halves and after
the release, its scripts are run a second time, and the review stands, its attachments clean. In the
other the review is edited and rerun, its files, waivers, intake and commits: at most two such
steps, one if the workspace is not sound. `MCInit` starts with the intake folders of a round before,
signed: the review opens for nothing else. The status of the bundle is the target, of rulings on
waivers there are an approving one and an unfounded one. That is enough for the report and the
archive to be accepted and to be overtaken by an edit of either half afterwards. The proofs hold for
any number and for all initial states.

## What is proved

For all values of the constants, by tlapm, from the assumptions named in the modules:

* `TxnStoreProofs`: types and `SnapshotWhileOpen`, inductive together; each action is shown to have
  one of a few *shapes* (enter, leave without commit, commit, write-through, restart) and the
  invariant is proved once for each shape. `AuditChainsLinked`, inductive only together with the
  chain of the snapshot and the fact that the queued callbacks extend the snapshot's trail to the
  one in memory (`HooksMatchAudit`, proved too). `DurableBase`, assuming no save fails
  (`Faults = {}`), and the refinement of `AtomicStore`, assuming that no save fails after its data
  reached the disk: without that assumption it is false, a backup failing after the COMMIT being the
  case. The refinement needs that every event is recorded once and that rows and trail name the same
  operations, in memory, snapshot and disk, and that what a failed handler leaves behind is of none
  of them. `LedgerFollowsAudit`, assuming no ledger append fails, rests on `LedgerBase`: until a
  crash the file is what a rollback would return to. `AcknowledgedUnlessRefused` and `AnswersHold`,
  assuming no save fails: only a refusal takes records out of memory, and before the first access
  request the depth is zero between handlers.
* `JitAccessProofs`: `TypeCorrect`, `OnePending`, `Quorum`, `GrantsNeverExtended`. `StepKind`
  reduces every action to what it does to the list of requests. A property of the list must hold of
  the snapshot too, since a refusal returns to it. `GrantsNeverExtended` needs `ForwardInv`: the
  list of the database follows from the snapshot's by steps forward only, and an approved request of
  either runs until its `grantedUntil`, which no step changes later, so that going back cannot
  lengthen a grant. `Quorum` needs that nobody is listed twice as an approver and never the
  requester.
* `SiemOutboxProofs`: `TypeCorrect`, `Received`, `GivenUp`, `Attempts`, `OneTryPerRun`. The bound on
  attempts is not inductive alone: `BoundInv` says that attempts beyond the last but one belong to
  runs that now await the item, for each copy of the state.
* `SessionsProofs`: `TypeCorrect`, `Rotation`, `OneExchange`, `Replay`, `Ending`, `Disabling`,
  `DeviceRevocation`. `StepKind` reduces every action to narrowing a state, logging in, rotating or
  restoring; what must hold of the state must hold of disk and snapshot, which `StatesKept` carries.
  `OneExchange` needs that a token exchanged as often as the state was replaced is marked as used
  wherever it can come back from.
* `SecretLifecycleProofs`: all properties of the run, the types and `HistoryNewestFirst`
  (`TypeCorrect`, `NewestFirst`, `Kept`, `Rating`, `Reuse`, `Escrow`, `Importing`). `StepKind` says
  for each action what it does to the secret concerned and that the others stay. `Reuse` needs
  `PastInv` (a generated material is newer than all there are), `Rating` that a secret rated under
  some policy is rated as that policy asks, unless its material was generated, `Escrow` that no
  secret names a batch before its approval, `Importing` what a pending batch can count on
  (`PendingInv`).

* `LoginProofs`: `LoginTypeOK`, `GuessesSpaced`, `AdmittedPerWindow`, `StateUsedOnce`,
  `SessionIsWhoSignedIn`. Spacing needs that the lock of an address nothing was forgotten of reaches
  a lockout beyond the last wrong password as soon as the limit is reached. The limiter needs that
  of the admitted requests the last ones, as many as the bucket counts, fall into its window, those
  before them came more than a window before its end, and those more than a limit before these more
  than two. One session for a state needs that a state is held by its pending entry, by one call, or
  by one session, and by one of these only.
* `AdministrationProofs`: `TypeCorrect`, `HierarchyStaysSound`, `RetiredStaysRetired`. That the walk
  from a tenant to its root never meets it again is stated with a recursive function (`lineage`),
  and the import folds over its records. The library's induction theorems are out of the provers'
  reach, so induction is derived here from the well-ordering of the naturals (`LeastNatural`): that
  the recursive function exists (`RecursionExists`), that a walk which ends ends after the least
  number of steps, that changing the parent of a tenant outside the walk leaves the walk alone
  (`SetParent`), and that a fold keeps what each record keeps. A token is never served again because
  the raw values retired and the values of tokens not revoked are apart, in memory, on disk and in
  the snapshot, whichever save failed; of a token that is being retired in an open transaction this
  holds in memory only, until the commit writes it.
* `ReleasePipelineProofs`: all properties of `release_pipeline` and the types. Of the workspace
  (`EvidenceInv`): a bundle that a manifest of the script's own still covers has its placeholders, a
  pack that covers all its files says what they say, and the target of a readiness report or pack is
  the one of the run. Of the review (`ReleaseInv`): an inventory whose hash stands says what a scan
  of the file would say now (`ScansStand`), a register has a waiver exactly for what was not
  attached (`WaiversMatch`), an intake that calls itself signed was relabelled (`SignedByHand`).
  `ArchiveClosing` goes through the hashes: every script but the last writes something that the
  review, the closure or the archive has hashed, and every edit falls to a check the archive rests
  on. Together (`PipelineInv`): `up` is what the workspace's files come to. `WorkspaceRefined` is
  the refinement of `DeploymentEvidence`'s specification; `FillDrifts` says that a step which writes
  neither pack nor report leaves what is read alone or takes a hash away that the checks ask for,
  and carries `UpstreamAllowed` and `EvidenceHeld`.

Stated and proved, and not part of a run: the type invariants of most modules,
`ReleaseChecksMeanReady`, `ArchiveHoldsEvidence`, `ReleasedOnlyByHand`, `SnapshotWhileOpen`,
`HooksMatchAudit`, `GivenUpAfterMax`, `AttemptsBounded`, `UsableIsNewest`, `HistoryNewestFirst`.

Only model-checked: `HooksDrain` and `QueuedIsSettled`, since liveness under fairness is beyond
the prover, and that the actions of a run are reached at all.

## Not modelled, and why

Encryption, hashes, signatures and tokens are opaque: two different inputs have different
results. Wording, validation of single fields and read-only reports (compliance, metadata and
audit exports, the status of an integration) change no state. Backups, restore drills and the
relational mirror tables are I/O beside the state. The offline cache is an export without a state
of its own, work notes are sent after the fact and forgotten. The web console, the browser
extension and the Windows companion are clients of the API. Generators and validators of a single
evidence document (TLS, connectors, drills), preflight probes, the one-shot migration from JSON to
SQLite and the packaging for deployment are functions of their arguments: no state of theirs
outlives a run. Two instances of the server over one database are not supported by the code, which
holds the state in memory, and are not modelled.

## Plan

1. An abstract outbox that `SiemOutbox` refines: an event is queued, then delivered, given up,
   dropped or lost to a restore; an abstract vault, whose live materials differ, that
   `SecretLifecycle` refines while nothing is restored or imported.
2. The migration from JSON to SQLite with a crash between its steps; the extension's lock and fill
   race.
