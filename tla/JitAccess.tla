------------------------------ MODULE JitAccess ------------------------------
(***************************************************************************)
(* Just-in-time access to the secrets of one vault (vaultService.mjs):     *)
(* requests, approvals by other users, denial, revocation and expiry, with *)
(* the changes of role, membership, sharing and secret risk that happen    *)
(* around them.                                                            *)
(*                                                                         *)
(* requestSecretAccess awaits the ITSM ticket lookup inside the global     *)
(* transaction of the store, so several calls can be in flight, every      *)
(* other handler runs nested in their transaction, and the last call to be *)
(* refused rolls all of it back.  Saves succeed here (TxnStore covers the  *)
(* failing ones), so transactionDepth is the number of calls in flight and *)
(* the disk is what a rollback returns to.                                 *)
(*                                                                         *)
(* A handler that throws before it changes anything has no action.  Time   *)
(* is a counter; expiresAt = 0 stands for null.                            *)
(***************************************************************************)
EXTENDS Integers, Sequences, FiniteSets

CONSTANTS
    Users, Secrets,
    Calls,          \* bounds the requestSecretAccess calls in flight
    Minutes,        \* the times to live an approver may choose
    InitialRole,    \* seeded roles
    InitialMembers, \* seeded members of the vault
    NoCall, NoSnapshot,
    MaxRequests, MaxClock, MaxAdminSteps    \* bounds

Roles == {"SECURITY_ADMIN", "VAULT_OPERATOR", "AUDITOR"}
Statuses == {"pending", "approved", "denied", "revoked"}

\* Two history fields: the request was approved on a security admin's word
\* alone, because the secret required approvals (byAdmin); the end its approval
\* gave it, which a denial and a revocation overwrite in expiresAt (grantedUntil).
Request == [secret : Secrets, requester : Users, status : Statuses,
            approvals : Seq(Users), requiredApprovals : {1, 2},
            expiresAt : Nat, grantedUntil : Nat, byAdmin : BOOLEAN]

State == [requests : Seq(Request), role : [Users -> Roles],
          members : SUBSET Users, sharedWith : [Secrets -> SUBSET Users],
          approvalsRequired : [Secrets -> BOOLEAN]]

ASSUME JitAccessAssumption ==
    /\ Minutes \subseteq Nat \ {0}
    /\ InitialRole \in [Users -> Roles] /\ InitialMembers \subseteq Users
    /\ NoSnapshot \notin State
    /\ NoCall \notin [user : Users, secret : Secrets]
    /\ {MaxRequests, MaxClock, MaxAdminSteps} \subseteq Nat

VARIABLES
    db,         \* store.state
    snapshot,   \* transactionSnapshot
    calls,      \* the requestSecretAccess calls that await their ticket
    now,        \* the clock
    adminSteps  \* administrative changes so far, bounded by MaxAdminSteps

vars == <<db, snapshot, calls, now, adminSteps>>

InFlight == {c \in Calls : calls[c] # NoCall}

Init ==
    /\ \E required \in [Secrets -> BOOLEAN] :
           db = [requests |-> <<>>, role |-> InitialRole, members |-> InitialMembers,
                 sharedWith |-> [s \in Secrets |-> {}], approvalsRequired |-> required]
    /\ snapshot = NoSnapshot
    /\ calls = [c \in Calls |-> NoCall]
    /\ now = 1
    /\ adminSteps = 0

-----------------------------------------------------------------------------
canAccessVault(u) == u \in db.members \/ db.role[u] = "SECURITY_ADMIN"
canAccessSecret(u, s) == canAccessVault(u) \/ u \in db.sharedWith[s]
mayShare(u) == db.role[u] \in {"SECURITY_ADMIN", "VAULT_OPERATOR"}

Ids == 1..Len(db.requests)

pendingFor(u, s) ==
    {i \in Ids : /\ db.requests[i].status = "pending"
                 /\ db.requests[i].secret = s /\ db.requests[i].requester = u}

\* The request requestSecretAccess unshifts once its ticket is valid.
newRequest(u, s) ==
    [secret |-> s, requester |-> u, status |-> "pending", approvals |-> <<>>,
     requiredApprovals |-> IF db.approvalsRequired[s] THEN 2 ELSE 1,
     expiresAt |-> 0, grantedUntil |-> 0, byAdmin |-> FALSE]

\* Wrong: an approver may approve twice.
approvalsWithRepeats(r, u) == Append(r.approvals, u)

approvalsWith(r, u) ==
    IF \E k \in 1..Len(r.approvals) : r.approvals[k] = u
    THEN r.approvals ELSE Append(r.approvals, u)

privilegedApproval(u, s) == db.role[u] = "SECURITY_ADMIN" /\ db.approvalsRequired[s]

\* A request after user u approved it for the given minutes.
approved(r, u, minutes) ==
    LET given == approvalsWith(r, u)
        privileged == privilegedApproval(u, r.secret)
        enough == Len(given) >= r.requiredApprovals
    IN  IF privileged \/ enough
        THEN [r EXCEPT !.approvals = given, !.status = "approved",
                       !.expiresAt = now + minutes, !.grantedUntil = now + minutes,
                       !.byAdmin = privileged /\ ~enough]
        ELSE [r EXCEPT !.approvals = given]

denied(r) == [r EXCEPT !.status = "denied", !.expiresAt = 0]
revoked(r) == [r EXCEPT !.status = "revoked", !.expiresAt = now]

\* A synchronous handler: nested in the open transaction, or its own.
Write(state) == db' = state /\ UNCHANGED <<snapshot, calls, now>>

-----------------------------------------------------------------------------
(***************************************************************************)
(* requestSecretAccess                                                     *)
(***************************************************************************)
RequestOpens(c, u, s) ==
    /\ calls[c] = NoCall
    /\ ~canAccessSecret(u, s)
    /\ calls' = [calls EXCEPT ![c] = [user |-> u, secret |-> s]]
    /\ snapshot' = IF InFlight = {} THEN db ELSE snapshot
    /\ UNCHANGED <<db, now, adminSteps>>

\* The transaction of call c ends; the last one to end commits.
Settle(c) ==
    /\ calls' = [calls EXCEPT ![c] = NoCall]
    /\ snapshot' = IF InFlight = {c} THEN NoSnapshot ELSE snapshot

\* Wrong: no second look for a pending request once the ticket is back.
RequestRecordedUnseen(c) ==
    /\ c \in InFlight
    /\ Len(db.requests) < MaxRequests
    /\ db' = [db EXCEPT !.requests = Append(@, newRequest(calls[c].user, calls[c].secret))]
    /\ Settle(c)
    /\ UNCHANGED <<now, adminSteps>>

RequestRecorded(c) ==
    /\ c \in InFlight
    /\ pendingFor(calls[c].user, calls[c].secret) = {}
    /\ Len(db.requests) < MaxRequests
    /\ db' = [db EXCEPT !.requests = Append(@, newRequest(calls[c].user, calls[c].secret))]
    /\ Settle(c)
    /\ UNCHANGED <<now, adminSteps>>

RequestExisting(c) ==
    /\ c \in InFlight
    /\ pendingFor(calls[c].user, calls[c].secret) # {}
    /\ Settle(c)
    /\ UNCHANGED <<db, now, adminSteps>>

RequestRefused(c) ==
    /\ c \in InFlight
    /\ db' = IF InFlight = {c} THEN snapshot ELSE db
    /\ Settle(c)
    /\ UNCHANGED <<now, adminSteps>>

-----------------------------------------------------------------------------
(***************************************************************************)
(* Decisions on a request, by a user with vault:share and vault access.    *)
(***************************************************************************)
Decides(u, i) == i \in Ids /\ mayShare(u) /\ canAccessVault(u)

\* Wrong: the status is not looked at.
mayApproveDecided(u, i) == Decides(u, i) /\ db.requests[i].requester # u

mayApprove(u, i) ==
    /\ Decides(u, i)
    /\ db.requests[i].requester # u
    /\ db.requests[i].status = "pending"

Approve(u, i, minutes) ==
    /\ mayApprove(u, i)
    /\ Write([db EXCEPT !.requests[i] = approved(@, u, minutes)])
    /\ UNCHANGED adminSteps

Deny(u, i) ==
    /\ Decides(u, i)
    /\ Write([db EXCEPT !.requests[i] = denied(@)])
    /\ UNCHANGED adminSteps

Revoke(u, i) ==
    /\ Decides(u, i)
    /\ Write([db EXCEPT !.requests[i] = revoked(@)])
    /\ UNCHANGED adminSteps

-----------------------------------------------------------------------------
(***************************************************************************)
(* What changes around the requests: the administrator edits roles and     *)
(* members; a user with vault access shares a secret or replaces its       *)
(* material, which decides anew whether approvals are required.            *)
(***************************************************************************)
AdminStep(state) ==
    /\ adminSteps < MaxAdminSteps
    /\ adminSteps' = adminSteps + 1
    /\ Write(state)

SetRole(a, u, r) ==
    /\ db.role[a] = "SECURITY_ADMIN"
    /\ AdminStep([db EXCEPT !.role[u] = r])

SetMembers(a, members) ==
    /\ db.role[a] = "SECURITY_ADMIN"
    /\ AdminStep([db EXCEPT !.members = members])

Share(a, s, u) ==
    /\ mayShare(a) /\ canAccessVault(a)
    /\ AdminStep([db EXCEPT !.sharedWith[s] = @ \cup {u}])

\* updateSecret with a new password, weak or not; rotateSecret, which never asks
\* for approvals.
ReplaceMaterial(a, s, weak) ==
    /\ canAccessVault(a) /\ mayShare(a)
    /\ AdminStep([db EXCEPT !.approvalsRequired[s] = weak])

Tick ==
    /\ now < MaxClock
    /\ now' = now + 1
    /\ UNCHANGED <<db, snapshot, calls, adminSteps>>

\* The process restarts from the disk, where nothing of an open transaction is.
Crash ==
    /\ db' = IF InFlight = {} THEN db ELSE snapshot
    /\ snapshot' = NoSnapshot
    /\ calls' = [c \in Calls |-> NoCall]
    /\ UNCHANGED <<now, adminSteps>>

Next ==
    \/ \E c \in Calls, u \in Users, s \in Secrets : RequestOpens(c, u, s)
    \/ \E c \in Calls : RequestRecorded(c) \/ RequestExisting(c) \/ RequestRefused(c)
    \/ \E u \in Users, i \in Ids :
           \/ \E minutes \in Minutes : Approve(u, i, minutes)
           \/ Deny(u, i) \/ Revoke(u, i)
    \/ \E a, u \in Users : \E r \in Roles : SetRole(a, u, r)
    \/ \E a \in Users, members \in SUBSET Users : SetMembers(a, members)
    \/ \E a, u \in Users, s \in Secrets : Share(a, s, u)
    \/ \E a \in Users, s \in Secrets, weak \in BOOLEAN : ReplaceMaterial(a, s, weak)
    \/ Tick \/ Crash

Spec == Init /\ [][Next]_vars

-----------------------------------------------------------------------------
(***************************************************************************)
(* Properties                                                              *)
(***************************************************************************)

\* Every variable holds what the code keeps in it, and a snapshot exists
\* exactly while a call is in flight.
TypeOK ==
    /\ db \in State
    /\ snapshot \in State \cup {NoSnapshot}
    /\ calls \in [Calls -> [user : Users, secret : Secrets] \cup {NoCall}]
    /\ (snapshot = NoSnapshot) <=> (InFlight = {})
    /\ now \in Nat /\ adminSteps \in Nat

\* However calls of one user interleave with each other, with decisions and
\* with rollbacks, that user has at most one pending request for a secret.
OnePendingPerPair ==
    \A i, j \in Ids :
        LET r == db.requests[i]
            q == db.requests[j]
        IN  r.status = "pending" /\ q.status = "pending"
                /\ r.secret = q.secret /\ r.requester = q.requester => i = j

Approvers(r) == {r.approvals[k] : k \in 1..Len(r.approvals)}

\* An approved request was approved by as many different users other than the
\* requester as it asked for when it was made, or by a security admin alone
\* when the secret required approvals.
GrantedByQuorum ==
    \A i \in Ids :
        LET r == db.requests[i]
        IN  r.status = "approved" =>
                \/ Cardinality(Approvers(r) \ {r.requester}) >= r.requiredApprovals
                \/ r.byAdmin /\ Approvers(r) \ {r.requester} # {}

\* A request is granted once.  Only an approval of a pending request grants it;
\* whatever else leaves it approved, a second decision, a rollback, a restart,
\* leaves it with the end that approval gave.  A request that was denied or
\* revoked is open or in force again only when the transaction it was closed in
\* is rolled back or lost in a crash.
GrantNeverExtended ==
    [][\A i \in Ids \cap Ids' :
           LET r == db.requests[i]
               x == db'.requests[i]
           IN  /\ x.status = "approved" =>
                       \/ r.status = "pending" /\ snapshot' = snapshot
                       \/ r.status # "pending" /\ x.expiresAt = r.grantedUntil
               /\ r.status \in {"denied", "revoked"} /\ x.status \notin {"denied", "revoked"}
                       => db' = snapshot /\ snapshot' = NoSnapshot]_vars
=============================================================================
