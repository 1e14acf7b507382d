--------------------------- MODULE Administration ---------------------------
(***************************************************************************)
(* What administrators change without a transaction of their own: tenants, *)
(* vaults and their metadata import (services/adminService.mjs) and the    *)
(* service tokens of the DevOps API (services/serviceTokenService.mjs and  *)
(* routes/devopsRoutes.mjs of src/src/server).                             *)
(*                                                                         *)
(* Each handler changes records in memory, audits and so saves the whole   *)
(* state, and answers.  A handler that throws half way, or whose save      *)
(* throws, leaves what it did in memory: the next save of any other        *)
(* handler writes it, a restart drops it.  While an access request awaits  *)
(* its ticket the transaction of data/store.mjs is open: saves are put     *)
(* off, and the end of the transaction writes or takes back what the       *)
(* handlers did.  Access requests that overlap are one transaction, from   *)
(* the start of the first to the end of the last.  TxnStore has all of     *)
(* that; members and users are in JitAccess and Sessions.                  *)
(*                                                                         *)
(* A name that is refused is refused before anything this module keeps is  *)
(* changed, and is left out.  A token's scope is the set of secrets that   *)
(* both of its lists admit, empty when both lists are.                     *)
(***************************************************************************)
EXTENDS Integers, Sequences, FiniteSets

CONSTANTS
    Tenants, Vaults, Tokens,    \* ids; the first tenant is there from the start
    FirstTenant, OldToken,      \* OldToken's hash is from before version 2
    Secrets,                    \* what a service token may be presented for
    Top,                        \* parentId null, tenantId null
    Absent,                     \* a record that is not there
    NoSnapshot,                 \* transactionSnapshot === null
    MaxImport, MaxRaw, MaxChanges, MaxRestarts      \* bounds

ASSUME AdministrationAssumption ==
    /\ IsFiniteSet(Tenants)
    /\ FirstTenant \in Tenants /\ OldToken \in Tokens
    /\ {Top, Absent} \cap (Tenants \cup Vaults \cup Tokens) = {} /\ Top # Absent
    /\ {MaxImport, MaxRaw, MaxChanges, MaxRestarts} \subseteq Nat /\ MaxRaw > 0

VARIABLES
    mem,        \* store.state: order and parent of the tenants, vaults, tokens
    disk,       \* the saved state
    snapshot,   \* transactionSnapshot
    saveRequested, \* transactionSaveRequested
    keyVersion, \* config.vaultKeyVersion, which tokenHashKey contains
    expired,    \* tokens whose expiresAt has passed
    issued,     \* raw service tokens so far; they are numbered
    retired,    \* those that an answered call has rotated out or revoked
    retiring,   \* the same, as long as the transaction open then is still open
    changes, restarts

vars == <<mem, disk, snapshot, saveRequested, keyVersion, expired, issued, retired,
          retiring, changes, restarts>>

Token == [raw : 1..MaxRaw, version : {"v2", "legacy"}, key : Nat, revoked : BOOLEAN,
          scope : SUBSET Secrets]
State == [order : Seq(Tenants), parent : [Tenants -> Tenants \cup {Top, Absent}],
          vaults : [Vaults -> Tenants \cup {Top, Absent}],
          tokens : [Tokens -> {Absent} \cup Token]]

ASSUME SnapshotAssumption == NoSnapshot \notin State

exists(m, t) == t \in Tenants /\ m.parent[t] # Absent

-----------------------------------------------------------------------------
(***************************************************************************)
(* The two helpers every tenant and vault goes through                     *)
(***************************************************************************)
\* t and what validateTenantParent's cursor visits from t upwards.
lineage(m, t) ==
    LET up[n \in 0..Cardinality(Tenants)] ==
            IF n = 0 THEN {t}
            ELSE up[n - 1] \cup {m.parent[x] : x \in up[n - 1] \ {Top}}
    IN  up[Cardinality(Tenants)] \ {Top}

\* Wrong: the cursor stops at the first parent.
validDirectParent(m, id, parentId) ==
    parentId = Top \/ (exists(m, parentId) /\ parentId # id /\ m.parent[parentId] # id)

validTenantParent(m, id, parentId) ==
    parentId = Top \/ (exists(m, parentId) /\ id \notin lineage(m, parentId))

validTenant(m, t) == t = Top \/ exists(m, t)

withParent(m, id, parentId) == [m EXCEPT !.parent[id] = parentId]

\* importAdminMetadata's two upserts; acc.ok says whether one has thrown.
upsertTenant(acc, r) ==
    LET m == acc.m
        order == IF exists(m, r.id) THEN m.order ELSE Append(m.order, r.id)
    IN  IF ~acc.ok \/ ~validTenantParent(m, r.id, r.parent) THEN [acc EXCEPT !.ok = FALSE]
        ELSE [acc EXCEPT !.m = [withParent(m, r.id, r.parent) EXCEPT !.order = order]]
upsertVault(acc, r) ==
    LET tenant == IF r.tenant = Top THEN Head(acc.m.order) ELSE r.tenant
    IN  IF ~acc.ok \/ ~exists(acc.m, tenant) THEN [acc EXCEPT !.ok = FALSE]
        ELSE [acc EXCEPT !.m.vaults[r.id] = tenant]
withTenants(m, records) ==
    LET after[n \in 0..Len(records)] ==
            IF n = 0 THEN [m |-> m, ok |-> TRUE] ELSE upsertTenant(after[n - 1], records[n])
    IN  after[Len(records)]
withVaults(acc, records) ==
    LET after[n \in 0..Len(records)] ==
            IF n = 0 THEN acc ELSE upsertVault(after[n - 1], records[n])
    IN  after[Len(records)]
imported(m, tenants, vaults) == withVaults(withTenants(m, tenants), vaults)

\* matchesTokenHash: the hash is keyed from version 2 on.
matches(token, raw) ==
    token # Absent /\ token.raw = raw /\ (token.version = "legacy" \/ token.key = keyVersion)

upgraded(m, raw) ==
    [m EXCEPT !.tokens = [k \in Tokens |->
        IF matches(@[k], raw) /\ @[k].version = "legacy"
        THEN [@[k] EXCEPT !.version = "v2", !.key = keyVersion] ELSE @[k]]]

-----------------------------------------------------------------------------
Change == changes < MaxChanges /\ changes' = changes + 1 /\ UNCHANGED restarts

Open == snapshot # NoSnapshot

\* The handler leaves m in memory, audits, saves and answers; an open
\* transaction puts the save off.
Answered(m) ==
    /\ mem' = m
    /\ IF Open THEN saveRequested' = TRUE /\ UNCHANGED disk
       ELSE disk' = m /\ UNCHANGED saveRequested

\* The save throws, before the data reached the disk or after, and the caller
\* gets an error.
SaveThrows(m) == ~Open /\ mem' = m /\ disk' \in {disk, m} /\ UNCHANGED saveRequested

Finished(m) == Answered(m) \/ SaveThrows(m)

\* The handler throws, or ends, without a save.
LeftUnsaved(m) == mem' = m /\ UNCHANGED <<disk, saveRequested>>

others == <<snapshot, keyVersion, expired, issued, retired, retiring>>

CreateTenant(t, parent) ==
    /\ Change /\ ~exists(mem, t)
    /\ validTenantParent(mem, Absent, parent)
    /\ Finished([withParent(mem, t, parent) EXCEPT !.order = <<t>> \o @])
    /\ UNCHANGED others

UpdateTenant(t, parent) ==
    /\ Change /\ exists(mem, t)
    /\ validTenantParent(mem, t, parent)
    /\ Finished(withParent(mem, t, parent))
    /\ UNCHANGED others

CreateVault(v, tenant) ==
    /\ Change /\ mem.vaults[v] = Absent
    /\ validTenant(mem, tenant)
    /\ Finished([mem EXCEPT !.vaults[v] = IF tenant = Top THEN Head(mem.order) ELSE tenant])
    /\ UNCHANGED others

UpdateVault(v, tenant) ==
    /\ Change /\ mem.vaults[v] # Absent
    /\ validTenant(mem, tenant)
    /\ Finished([mem EXCEPT !.vaults[v] = tenant])
    /\ UNCHANGED others

\* A record that is refused ends the import; the records before it stay.
Import(tenants, vaults) ==
    LET outcome == imported(mem, tenants, vaults)
    IN  /\ Change
        /\ IF outcome.ok THEN Finished(outcome.m) ELSE LeftUnsaved(outcome.m)
        /\ UNCHANGED others

-----------------------------------------------------------------------------
NewRaw == issued < MaxRaw /\ issued' = issued + 1

CreateToken(k, scope) ==
    /\ Change /\ NewRaw /\ mem.tokens[k] = Absent
    /\ Finished([mem EXCEPT !.tokens[k] =
           [raw |-> issued', version |-> "v2", key |-> keyVersion, revoked |-> FALSE,
            scope |-> scope]])
    /\ UNCHANGED <<snapshot, keyVersion, expired, retired, retiring>>

\* What a caller may rely on once the call has been answered.
Retiring(k, m) ==
    \/ /\ Answered(m)
       /\ IF Open THEN retiring' = retiring \cup {mem.tokens[k].raw} /\ UNCHANGED retired
          ELSE retired' = retired \cup {mem.tokens[k].raw} /\ UNCHANGED retiring
    \/ SaveThrows(m) /\ UNCHANGED <<retired, retiring>>

\* Wrong: the audit, and with it the save, comes before revokedAt is set.
RevokeAfterAudit(k) ==
    /\ Change /\ mem.tokens[k] # Absent /\ ~Open
    /\ disk' = mem
    /\ mem' = [mem EXCEPT !.tokens[k].revoked = TRUE]
    /\ retired' = retired \cup {mem.tokens[k].raw}
    /\ UNCHANGED <<snapshot, saveRequested, keyVersion, expired, issued, retiring>>

RevokeToken(k) ==
    /\ Change /\ mem.tokens[k] # Absent
    /\ Retiring(k, [mem EXCEPT !.tokens[k].revoked = TRUE])
    /\ UNCHANGED <<snapshot, keyVersion, expired, issued>>

\* expiresAt is not renewed.
RotateToken(k) ==
    /\ Change /\ NewRaw /\ mem.tokens[k] # Absent /\ ~mem.tokens[k].revoked
    /\ Retiring(k, [mem EXCEPT !.tokens[k] =
           [@ EXCEPT !.raw = issued', !.version = "v2", !.key = keyVersion]])
    /\ UNCHANGED <<snapshot, keyVersion, expired>>

serves(m, k, raw, s) ==
    /\ matches(m.tokens[k], raw)
    /\ ~m.tokens[k].revoked /\ k \notin expired
    /\ s \in m.tokens[k].scope

\* GET /devops/secrets/:id.  A hash from before version 2 is replaced before the
\* token is looked at, and only saved if it serves.
Present(raw, s) ==
    /\ Change
    /\ IF \E k \in Tokens : serves(mem, k, raw, s) THEN Finished(upgraded(mem, raw))
       ELSE LeftUnsaved(upgraded(mem, raw))
    /\ <<mem, disk, saveRequested>>' # <<mem, disk, saveRequested>>
    /\ UNCHANGED others

Expire(k) ==
    /\ Change /\ mem.tokens[k] # Absent /\ k \notin expired
    /\ expired' = expired \cup {k}
    /\ UNCHANGED <<mem, disk, snapshot, saveRequested, keyVersion, issued, retired, retiring>>

-----------------------------------------------------------------------------
(***************************************************************************)
(* The transaction of the access requests that await their tickets         *)
(***************************************************************************)
OpenTransaction ==
    /\ Change /\ ~Open
    /\ snapshot' = mem /\ saveRequested' = FALSE
    /\ UNCHANGED <<mem, disk, keyVersion, expired, issued, retired, retiring>>

Ended == snapshot' = NoSnapshot /\ saveRequested' = FALSE

\* The last request is recorded, or an answered handler has asked for a save.
CommitTransaction ==
    /\ Open
    /\ \/ disk' = mem /\ retired' = retired \cup retiring /\ UNCHANGED mem
       \/ disk' \in {disk, mem} /\ mem' = snapshot /\ UNCHANGED retired
    /\ Ended /\ retiring' = {}
    /\ UNCHANGED <<keyVersion, expired, issued, changes, restarts>>

\* The last request finds an equal one, and nobody has asked for a save.
LeaveUnsaved ==
    /\ Open /\ ~saveRequested
    /\ Ended
    /\ UNCHANGED <<mem, disk, keyVersion, expired, issued, retired, retiring, changes, restarts>>

\* The last ticket is refused.
RollbackTransaction ==
    /\ Open
    /\ mem' = snapshot
    /\ Ended /\ retiring' = {}
    /\ UNCHANGED <<disk, keyVersion, expired, issued, retired, changes, restarts>>

\* A restart, after a crash or to put another key version into effect.
Restart(version) ==
    /\ restarts < MaxRestarts /\ restarts' = restarts + 1
    /\ mem' = disk
    /\ keyVersion' = version
    /\ Ended /\ retiring' = {}
    /\ UNCHANGED <<disk, expired, issued, retired, changes>>

Init ==
    /\ mem = [order |-> <<FirstTenant>>,
              parent |-> [t \in Tenants |-> IF t = FirstTenant THEN Top ELSE Absent],
              vaults |-> [v \in Vaults |-> Absent],
              tokens |-> [k \in Tokens |-> IF k # OldToken THEN Absent ELSE
                  [raw |-> 1, version |-> "legacy", key |-> 0, revoked |-> FALSE,
                   scope |-> Secrets]]]
    /\ disk = mem
    /\ snapshot = NoSnapshot /\ saveRequested = FALSE
    /\ keyVersion = 1
    /\ expired = {} /\ issued = 1 /\ retired = {} /\ retiring = {}
    /\ changes = 0 /\ restarts = 0

TenantRecords == [id : Tenants, parent : Tenants \cup {Top}]
VaultRecords == [id : Vaults, tenant : Tenants \cup {Top}]

Next ==
    \/ \E t \in Tenants, parent \in Tenants \cup {Top} :
           CreateTenant(t, parent) \/ UpdateTenant(t, parent)
    \/ \E v \in Vaults, tenant \in Tenants \cup {Top} :
           CreateVault(v, tenant) \/ UpdateVault(v, tenant)
    \/ \E tenants \in UNION {[1..n -> TenantRecords] : n \in 0..MaxImport},
          vaults \in UNION {[1..n -> VaultRecords] : n \in 0..1} : Import(tenants, vaults)
    \/ \E k \in Tokens :
           \/ \E scope \in SUBSET Secrets : CreateToken(k, scope)
           \/ RevokeToken(k) \/ RotateToken(k) \/ Expire(k)
    \/ \E raw \in 1..issued, s \in Secrets : Present(raw, s)
    \/ OpenTransaction \/ CommitTransaction \/ LeaveUnsaved \/ RollbackTransaction
    \/ \E version \in keyVersion..(keyVersion + 1) : Restart(version)

Spec == Init /\ [][Next]_vars

-----------------------------------------------------------------------------
\* The states that the server uses or can come back to.
Copies == {mem, disk} \cup ({snapshot} \ {NoSnapshot})

\* They hold records of the shapes the services write, and a hash of version 2,
\* and no other, was made under a key version there has been.
AdminTypeOK ==
    /\ mem \in State /\ disk \in State /\ snapshot \in State \cup {NoSnapshot}
    /\ saveRequested \in BOOLEAN
    /\ \A m \in Copies : \A k \in Tokens :
           m.tokens[k] # Absent =>
               /\ m.tokens[k].raw <= issued /\ m.tokens[k].key <= keyVersion
               /\ m.tokens[k].key = 0 <=> m.tokens[k].version = "legacy"

\* In memory, on disk and in what a refused access request returns to, whatever
\* was refused half way, not saved or saved by another call: the tenants are
\* listed once each, every parent is one of them, no chain of parents comes back
\* to its start (validateTenantParent walks them and would not end), and every
\* vault's tenant is there.
HierarchySound ==
    \A m \in Copies :
        /\ {m.order[i] : i \in DOMAIN m.order} = {t \in Tenants : exists(m, t)}
        /\ Cardinality({t \in Tenants : exists(m, t)}) = Len(m.order)
        /\ \A t \in Tenants : m.parent[t] \notin {Absent, Top} =>
               exists(m, m.parent[t]) /\ t \notin lineage(m, m.parent[t])
        /\ \A v \in Vaults : m.vaults[v] \notin {Absent, Top} => exists(m, m.vaults[v])

\* A raw token that an answered call rotated out or revoked retrieves no secret
\* any more, with one exception.  If the call was answered while no access
\* request awaited its ticket, or the transaction open then was committed, it
\* never does, whatever failed meanwhile, is rolled back or restarted later.
\* While that transaction is open, no call but its end brings the token back; a
\* refusal, a save that throws at the commit, or a crash may.
RetiredNeverServes ==
    /\ \A m \in Copies, k \in Tokens, raw \in retired, s \in Secrets : ~serves(m, k, raw, s)
    /\ \A k \in Tokens, raw \in retiring, s \in Secrets : ~serves(mem, k, raw, s)
    /\ retiring # {} => Open /\ saveRequested
=============================================================================
