--------------------------- MODULE JitAccessProofs ---------------------------
(***************************************************************************)
(* Machine-checked proofs about JitAccess, for any users, secrets, calls,  *)
(* times to live and bounds.                                               *)
(***************************************************************************)
EXTENDS JitAccess, FiniteSetTheorems, TLAPS

-----------------------------------------------------------------------------
(***************************************************************************)
(* Types.                                                                  *)
(***************************************************************************)
LEMMA NewRequestType ==
    ASSUME db \in State, NEW u \in Users, NEW s \in Secrets
    PROVE  newRequest(u, s) \in Request
<1>1. <<>> \in Seq(Users)
  OBVIOUS
<1>2. (IF db.approvalsRequired[s] THEN 2 ELSE 1) \in {1, 2}
  OBVIOUS
<1>. QED
  BY <1>1, <1>2 DEF newRequest, Request, Statuses

LEMMA ApprovalsType ==
    ASSUME NEW r \in Request, NEW u \in Users
    PROVE  approvalsWith(r, u) \in Seq(Users)
BY DEF approvalsWith, Request

LEMMA ApprovedType ==
    ASSUME now \in Nat, NEW r \in Request, NEW u \in Users, NEW m \in Minutes
    PROVE  approved(r, u, m) \in Request
<1>. DEFINE given == approvalsWith(r, u)
            byAdmin == privilegedApproval(u, r.secret) /\ ~(Len(given) >= r.requiredApprovals)
<1>1. given \in Seq(Users)
  BY ApprovalsType
<1>2. now + m \in Nat
  BY JitAccessAssumption
<1>3. byAdmin \in BOOLEAN
  OBVIOUS
<1>. HIDE DEF given, byAdmin
<1>4. [r EXCEPT !.approvals = given, !.status = "approved",
                !.expiresAt = now + m, !.grantedUntil = now + m,
                !.byAdmin = byAdmin] \in Request
  BY <1>1, <1>2, <1>3 DEF Request, Statuses
<1>5. [r EXCEPT !.approvals = given] \in Request
  BY <1>1 DEF Request
<1>. QED
  BY <1>4, <1>5 DEF approved, given, byAdmin

\* A call that settles leaves the calls in flight; the last one takes the
\* snapshot with it.
LEMMA SettleType ==
    ASSUME TypeOK, NEW c \in InFlight, Settle(c)
    PROVE  /\ calls' \in [Calls -> [user : Users, secret : Secrets] \cup {NoCall}]
           /\ snapshot' \in State \cup {NoSnapshot}
           /\ (snapshot' = NoSnapshot) <=> (InFlight' = {})
<1>1. InFlight' = InFlight \ {c}
  BY DEF TypeOK, Settle, InFlight
<1>. QED
  BY <1>1 DEF TypeOK, Settle, InFlight

\* A call in flight is a user's call for a secret.
LEMMA InFlightType ==
    ASSUME TypeOK, NEW c \in InFlight
    PROVE  calls[c].user \in Users /\ calls[c].secret \in Secrets /\ snapshot \in State
BY DEF TypeOK, InFlight

\* What a synchronous handler leaves alone.
LEMMA WriteType ==
    ASSUME TypeOK, NEW state \in State, Write(state), adminSteps' \in Nat
    PROVE  TypeOK'
BY DEF TypeOK, Write, InFlight

\* Replacing one request leaves the state well typed.
LEMMA DecisionType ==
    ASSUME db \in State, NEW i \in Ids, NEW r \in Request
    PROVE  [db EXCEPT !.requests[i] = r] \in State
<1>1. [db.requests EXCEPT ![i] = r] \in Seq(Request)
  BY DEF State, Ids
<1>. QED
  BY <1>1 DEF State

\* Every variable holds what the code keeps in it, and the snapshot of the open
\* transaction exists exactly while a requestSecretAccess call is in flight.
THEOREM TypeCorrect == Spec => []TypeOK
<1>1. Init => TypeOK
  <2>. SUFFICES ASSUME Init PROVE TypeOK
    OBVIOUS
  <2>1. <<>> \in Seq(Request)
    OBVIOUS
  <2>2. db \in State
    BY <2>1, JitAccessAssumption DEF Init, State
  <2>3. InFlight = {}
    BY DEF Init, InFlight
  <2>. QED
    BY <2>2, <2>3 DEF Init, TypeOK
<1>2. TypeOK /\ [Next]_vars => TypeOK'
  <2>. SUFFICES ASSUME TypeOK, [Next]_vars PROVE TypeOK'
    OBVIOUS
  <2>0. db \in State /\ now \in Nat /\ adminSteps \in Nat
    BY DEF TypeOK
  <2>1. ASSUME NEW c \in Calls, NEW u \in Users, NEW s \in Secrets, RequestOpens(c, u, s)
        PROVE  TypeOK'
    <3>1. calls' \in [Calls -> [user : Users, secret : Secrets] \cup {NoCall}]
      BY <2>1 DEF RequestOpens, TypeOK
    <3>2. calls'[c] # NoCall
      BY <2>1, JitAccessAssumption DEF RequestOpens, TypeOK
    <3>3. snapshot' \in State /\ snapshot' # NoSnapshot
      BY <2>0, <2>1, JitAccessAssumption DEF RequestOpens, TypeOK
    <3>. QED
      BY <2>1, <3>1, <3>2, <3>3 DEF RequestOpens, TypeOK, InFlight
  <2>2. ASSUME NEW c \in Calls, RequestRecorded(c)
        PROVE  TypeOK'
    <3>1. c \in InFlight /\ Settle(c)
      BY <2>2 DEF RequestRecorded
    <3>2. newRequest(calls[c].user, calls[c].secret) \in Request
      BY <2>0, <3>1, InFlightType, NewRequestType
    <3>3. Append(db.requests, newRequest(calls[c].user, calls[c].secret)) \in Seq(Request)
      BY <2>0, <3>2 DEF State
    <3>4. db' \in State
      BY <2>0, <2>2, <3>3 DEF RequestRecorded, State
    <3>. QED
      BY <2>2, <3>1, <3>4, SettleType DEF RequestRecorded, TypeOK
  <2>3. ASSUME NEW c \in Calls, RequestExisting(c)
        PROVE  TypeOK'
    BY <2>3, SettleType DEF RequestExisting, TypeOK
  <2>4. ASSUME NEW c \in Calls, RequestRefused(c)
        PROVE  TypeOK'
    <3>1. c \in InFlight /\ Settle(c) /\ db' \in State
      BY <2>0, <2>4, InFlightType DEF RequestRefused
    <3>. QED
      BY <2>4, <3>1, SettleType DEF RequestRefused, TypeOK
  <2>5. ASSUME NEW u \in Users, NEW i \in Ids, NEW m \in Minutes, Approve(u, i, m)
        PROVE  TypeOK'
    <3>1. db.requests[i] \in Request
      BY <2>0 DEF State, Ids
    <3>2. approved(db.requests[i], u, m) \in Request
      BY <2>0, <3>1, ApprovedType
    <3>. DEFINE state == [db EXCEPT !.requests[i] = approved(db.requests[i], u, m)]
    <3>3. state \in State
      BY <2>0, <3>2, DecisionType
    <3>4. Write(state) /\ adminSteps' \in Nat
      BY <2>0, <2>5 DEF Approve
    <3>. HIDE DEF state
    <3>. QED
      BY <3>3, <3>4, WriteType
  <2>6. ASSUME NEW u \in Users, NEW i \in Ids, Deny(u, i) \/ Revoke(u, i)
        PROVE  TypeOK'
    <3>1. db.requests[i] \in Request
      BY <2>0 DEF State, Ids
    <3>2. denied(db.requests[i]) \in Request /\ revoked(db.requests[i]) \in Request
      BY <2>0, <3>1 DEF denied, revoked, Request, Statuses
    <3>. DEFINE state1 == [db EXCEPT !.requests[i] = denied(db.requests[i])]
                state2 == [db EXCEPT !.requests[i] = revoked(db.requests[i])]
    <3>3. state1 \in State /\ state2 \in State
      BY <2>0, <3>2, DecisionType
    <3>4. (Write(state1) \/ Write(state2)) /\ adminSteps' \in Nat
      BY <2>0, <2>6 DEF Deny, Revoke
    <3>. HIDE DEF state1, state2
    <3>. QED
      BY <3>3, <3>4, WriteType
  <2>7. ASSUME NEW a \in Users, NEW u \in Users, NEW r \in Roles, SetRole(a, u, r)
        PROVE  TypeOK'
    <3>1. [db EXCEPT !.role[u] = r] \in State
      BY <2>0 DEF State
    <3>. QED
      BY <2>0, <2>7, <3>1, WriteType DEF SetRole, AdminStep
  <2>8. ASSUME NEW a \in Users, NEW members \in SUBSET Users, SetMembers(a, members)
        PROVE  TypeOK'
    <3>1. [db EXCEPT !.members = members] \in State
      BY <2>0 DEF State
    <3>. QED
      BY <2>0, <2>8, <3>1, WriteType DEF SetMembers, AdminStep
  <2>9. ASSUME NEW a \in Users, NEW u \in Users, NEW s \in Secrets, Share(a, s, u)
        PROVE  TypeOK'
    <3>1. [db EXCEPT !.sharedWith[s] = @ \cup {u}] \in State
      BY <2>0 DEF State
    <3>. QED
      BY <2>0, <2>9, <3>1, WriteType DEF Share, AdminStep
  <2>10. ASSUME NEW a \in Users, NEW s \in Secrets, NEW weak \in BOOLEAN,
                ReplaceMaterial(a, s, weak)
         PROVE  TypeOK'
    <3>1. [db EXCEPT !.approvalsRequired[s] = weak] \in State
      BY <2>0, Zenon DEF State
    <3>. QED
      BY <2>0, <2>10, <3>1, WriteType DEF ReplaceMaterial, AdminStep
  <2>11. CASE Tick
    BY <2>11 DEF Tick, TypeOK, InFlight
  <2>12. CASE Crash
    <3>1. db' \in State
      BY <2>0, <2>12 DEF Crash, TypeOK
    <3>. QED
      BY <2>12, <3>1 DEF Crash, TypeOK, InFlight
  <2>13. CASE UNCHANGED vars
    BY <2>13 DEF vars, TypeOK, InFlight
  <2>. QED
    BY <2>1, <2>2, <2>3, <2>4, <2>5, <2>6, <2>7, <2>8, <2>9, <2>10, <2>11, <2>12, <2>13
    DEF Next
<1>. QED
  BY <1>1, <1>2, PTL DEF Spec

-----------------------------------------------------------------------------
(***************************************************************************)
(* What a step does to the list of requests: nothing, one more request,    *)
(* one request decided, or the return to the snapshot.                     *)
(***************************************************************************)
Same == db'.requests = db.requests

Records == \E u \in Users, s \in Secrets :
    /\ pendingFor(u, s) = {}
    /\ db'.requests = Append(db.requests, newRequest(u, s))

Approves == \E i \in Ids, u \in Users, m \in Minutes :
    /\ mayApprove(u, i)
    /\ db'.requests = [db.requests EXCEPT ![i] = approved(db.requests[i], u, m)]
    /\ snapshot' = snapshot

Closes == \E i \in Ids :
    \/ db'.requests = [db.requests EXCEPT ![i] = denied(db.requests[i])]
    \/ db'.requests = [db.requests EXCEPT ![i] = revoked(db.requests[i])]

Reverts == snapshot # NoSnapshot /\ db' = snapshot /\ snapshot' = NoSnapshot

SnapshotSteps == snapshot' \in {snapshot, NoSnapshot} \/ (snapshot' = db /\ db' = db)

LEMMA StepKind ==
    ASSUME TypeOK, [Next]_vars
    PROVE  /\ Same \/ Records \/ Approves \/ Closes \/ Reverts
           /\ SnapshotSteps
<1>0. db \in State
  BY DEF TypeOK
<1>1. ASSUME NEW c \in Calls, NEW u \in Users, NEW s \in Secrets, RequestOpens(c, u, s)
      PROVE  Same /\ SnapshotSteps
  BY <1>1 DEF RequestOpens, Same, SnapshotSteps
<1>2. ASSUME NEW c \in Calls, RequestRecorded(c)
      PROVE  Records /\ SnapshotSteps
  <2>1. c \in InFlight
    BY <1>2 DEF RequestRecorded
  <2>2. calls[c].user \in Users /\ calls[c].secret \in Secrets
    BY <2>1, InFlightType
  <2>3. db'.requests = Append(db.requests, newRequest(calls[c].user, calls[c].secret))
    BY <1>0, <1>2 DEF RequestRecorded, State
  <2>. QED
    BY <1>2, <2>2, <2>3 DEF RequestRecorded, Settle, Records, SnapshotSteps
<1>3. ASSUME NEW c \in Calls, RequestExisting(c)
      PROVE  Same /\ SnapshotSteps
  BY <1>3 DEF RequestExisting, Settle, Same, SnapshotSteps
<1>4. ASSUME NEW c \in Calls, RequestRefused(c)
      PROVE  (Same \/ Reverts) /\ SnapshotSteps
  BY <1>4 DEF RequestRefused, Settle, Same, Reverts, SnapshotSteps, TypeOK
<1>5. ASSUME NEW u \in Users, NEW i \in Ids, NEW m \in Minutes, Approve(u, i, m)
      PROVE  Approves /\ SnapshotSteps
  <2>1. db'.requests = [db.requests EXCEPT ![i] = approved(db.requests[i], u, m)]
    BY <1>0, <1>5 DEF Approve, Write, State
  <2>. QED
    BY <1>5, <2>1 DEF Approve, Write, Approves, SnapshotSteps
<1>6. ASSUME NEW u \in Users, NEW i \in Ids, Deny(u, i) \/ Revoke(u, i)
      PROVE  Closes /\ SnapshotSteps
  <2>1. \/ db'.requests = [db.requests EXCEPT ![i] = denied(db.requests[i])]
        \/ db'.requests = [db.requests EXCEPT ![i] = revoked(db.requests[i])]
    BY <1>0, <1>6 DEF Deny, Revoke, Write, State
  <2>. QED
    BY <1>6, <2>1 DEF Deny, Revoke, Write, Closes, SnapshotSteps
<1>7. ASSUME NEW a \in Users, NEW u \in Users, NEW r \in Roles, SetRole(a, u, r)
      PROVE  Same /\ SnapshotSteps
  BY <1>0, <1>7 DEF SetRole, AdminStep, Write, Same, SnapshotSteps, State
<1>8. ASSUME NEW a \in Users, NEW members \in SUBSET Users, SetMembers(a, members)
      PROVE  Same /\ SnapshotSteps
  BY <1>0, <1>8 DEF SetMembers, AdminStep, Write, Same, SnapshotSteps, State
<1>9. ASSUME NEW a \in Users, NEW u \in Users, NEW s \in Secrets, Share(a, s, u)
      PROVE  Same /\ SnapshotSteps
  BY <1>0, <1>9 DEF Share, AdminStep, Write, Same, SnapshotSteps, State
<1>10. ASSUME NEW a \in Users, NEW s \in Secrets, NEW weak \in BOOLEAN, ReplaceMaterial(a, s, weak)
       PROVE  Same /\ SnapshotSteps
  BY <1>0, <1>10 DEF ReplaceMaterial, AdminStep, Write, Same, SnapshotSteps, State
<1>11. CASE Tick \/ UNCHANGED vars
  BY <1>11 DEF Tick, vars, Same, SnapshotSteps
<1>12. CASE Crash
  BY <1>12 DEF Crash, Same, Reverts, SnapshotSteps, TypeOK
<1>. QED
  BY <1>1, <1>2, <1>3, <1>4, <1>5, <1>6, <1>7, <1>8, <1>9, <1>10, <1>11, <1>12 DEF Next

\* The lists of requests are sequences, and an approval is of a pending request.
LEMMA ListTypes ==
    ASSUME TypeOK
    PROVE  db.requests \in Seq(Request) /\ Ids = 1..Len(db.requests)
BY DEF TypeOK, State, Ids

\* A decision on request r of the list makes it x.
Decision(r, x) ==
    \/ \E u \in Users, m \in Minutes :
           r.status = "pending" /\ r.requester # u /\ x = approved(r, u, m)
    \/ x = denied(r) \/ x = revoked(r)

LEMMA DecisionStep ==
    ASSUME TypeOK, Approves \/ Closes
    PROVE  \E i \in Ids, x \in Request :
               /\ Decision(db.requests[i], x)
               /\ db'.requests = [db.requests EXCEPT ![i] = x]
<1>0. db.requests \in Seq(Request) /\ Ids = 1..Len(db.requests) /\ now \in Nat
  BY ListTypes DEF TypeOK
<1>1. CASE Approves
  <2>1. PICK i \in Ids, u \in Users, m \in Minutes :
            /\ mayApprove(u, i)
            /\ db'.requests = [db.requests EXCEPT ![i] = approved(db.requests[i], u, m)]
    BY <1>1 DEF Approves
  <2>2. db.requests[i] \in Request
    BY <1>0
  <2>3. approved(db.requests[i], u, m) \in Request
    BY <1>0, <2>2, ApprovedType
  <2>. QED
    BY <2>1, <2>3 DEF mayApprove, Decision
<1>2. CASE Closes
  <2>1. PICK i \in Ids :
            \/ db'.requests = [db.requests EXCEPT ![i] = denied(db.requests[i])]
            \/ db'.requests = [db.requests EXCEPT ![i] = revoked(db.requests[i])]
    BY <1>2 DEF Closes
  <2>2. db.requests[i] \in Request
    BY <1>0
  <2>3. denied(db.requests[i]) \in Request /\ revoked(db.requests[i]) \in Request
    BY <1>0, <2>2 DEF denied, revoked, Request, Statuses
  <2>. QED
    BY <2>1, <2>3 DEF Decision
<1>. QED
  BY <1>1, <1>2

\* A decision leaves the secret and the requester of a request alone, and makes
\* no request pending.
LEMMA DecisionFrame ==
    ASSUME NEW r \in Request, NEW x \in Request, Decision(r, x)
    PROVE  /\ x.secret = r.secret /\ x.requester = r.requester
           /\ x.status = "pending" => r.status = "pending"
BY DEF Decision, approved, denied, revoked, Request

\* A recorded request is a new one at the end of the list.
LEMMA RecordStep ==
    ASSUME TypeOK, Records
    PROVE  \E u \in Users, s \in Secrets :
               LET n == Len(db.requests)
               IN  /\ n \in Nat /\ Len(db'.requests) = n + 1
                   /\ 1..(n + 1) = 1..n \cup {n + 1}
                   /\ \A i \in 1..n : db'.requests[i] = db.requests[i]
                   /\ db'.requests[n + 1] = newRequest(u, s)
                   /\ newRequest(u, s) \in Request
                   /\ pendingFor(u, s) = {}
<1>0. db.requests \in Seq(Request) /\ db \in State
  BY ListTypes DEF TypeOK
<1>1. PICK u \in Users, s \in Secrets :
          /\ pendingFor(u, s) = {}
          /\ db'.requests = Append(db.requests, newRequest(u, s))
  BY DEF Records
<1>. DEFINE new == newRequest(u, s)
            n == Len(db.requests)
<1>2. new \in Request
  BY <1>0, NewRequestType
<1>. HIDE DEF new
<1>3. /\ n \in Nat /\ Len(db'.requests) = n + 1
      /\ \A i \in 1..n : db'.requests[i] = db.requests[i]
      /\ db'.requests[n + 1] = new
  BY <1>0, <1>1 DEF new
<1>4. 1..(n + 1) = 1..n \cup {n + 1}
  BY <1>3
<1>. QED
  BY <1>1, <1>2, <1>3, <1>4 DEF new

-----------------------------------------------------------------------------
(***************************************************************************)
(* One pending request for each requester and secret.                      *)
(***************************************************************************)
Unique(requests) ==
    \A i, j \in 1..Len(requests) :
        (/\ requests[i].status = "pending" /\ requests[j].status = "pending"
         /\ requests[i].secret = requests[j].secret
         /\ requests[i].requester = requests[j].requester) => i = j

UniqueInv == Unique(db.requests) /\ (snapshot # NoSnapshot => Unique(snapshot.requests))

LEMMA UniqueKept ==
    ASSUME TypeOK, Unique(db.requests), Same \/ Records \/ Approves \/ Closes
    PROVE  Unique(db'.requests)
<1>0. db.requests \in Seq(Request) /\ Ids = 1..Len(db.requests)
  BY ListTypes
<1>1. CASE Same
  BY <1>1 DEF Same
<1>2. CASE Records
  <2>. DEFINE n == Len(db.requests)
  <2>1. PICK u \in Users, s \in Secrets :
            /\ n \in Nat /\ Len(db'.requests) = n + 1
            /\ 1..(n + 1) = 1..n \cup {n + 1}
            /\ \A i \in 1..n : db'.requests[i] = db.requests[i]
            /\ db'.requests[n + 1] = newRequest(u, s)
            /\ pendingFor(u, s) = {}
    BY <1>2, RecordStep
  <2>2. db'.requests[n + 1].secret = s /\ db'.requests[n + 1].requester = u
    BY <2>1 DEF newRequest
  <2>3. \A i \in 1..n : ~(/\ db'.requests[i].status = "pending"
                          /\ db'.requests[i].secret = s /\ db'.requests[i].requester = u)
    BY <1>0, <2>1 DEF pendingFor
  <2>. SUFFICES ASSUME NEW i \in 1..(n + 1), NEW j \in 1..(n + 1),
                       db'.requests[i].status = "pending", db'.requests[j].status = "pending",
                       db'.requests[i].secret = db'.requests[j].secret,
                       db'.requests[i].requester = db'.requests[j].requester
                PROVE  i = j
    BY <2>1 DEF Unique
  <2>4. CASE i \in 1..n /\ j \in 1..n
    BY <2>1, <2>4 DEF Unique
  <2>5. CASE i = n + 1 \/ j = n + 1
    BY <2>1, <2>2, <2>3, <2>5
  <2>. QED
    BY <2>1, <2>4, <2>5
<1>3. CASE Approves \/ Closes
  <2>1. PICK i \in Ids, x \in Request :
            /\ Decision(db.requests[i], x)
            /\ db'.requests = [db.requests EXCEPT ![i] = x]
    BY <1>3, DecisionStep
  <2>2. db.requests[i] \in Request
    BY <1>0
  <2>3. /\ x.secret = db.requests[i].secret /\ x.requester = db.requests[i].requester
        /\ x.status = "pending" => db.requests[i].status = "pending"
    BY <2>1, <2>2, DecisionFrame
  <2>. QED
    BY <1>0, <2>1, <2>3 DEF Unique
<1>. QED
  BY <1>1, <1>2, <1>3

\* However calls of one user interleave with each other, with decisions and
\* with rollbacks, that user has at most one pending request for a secret:
\* requestSecretAccess looks for one after its ticket is back.
THEOREM OnePending == Spec => []OnePendingPerPair
<1>1. Init => UniqueInv
  BY DEF Init, UniqueInv, Unique
<1>2. UniqueInv /\ TypeOK /\ [Next]_vars => UniqueInv'
  <2>. SUFFICES ASSUME UniqueInv, TypeOK, [Next]_vars PROVE UniqueInv'
    OBVIOUS
  <2>1. Unique(db'.requests)
    BY StepKind, UniqueKept DEF Reverts, UniqueInv
  <2>. QED
    BY <2>1, StepKind DEF UniqueInv, SnapshotSteps
<1>3. UniqueInv => OnePendingPerPair
  BY DEF UniqueInv, Unique, OnePendingPerPair, Ids
<1>. QED
  BY <1>1, <1>2, <1>3, TypeCorrect, PTL DEF Spec

-----------------------------------------------------------------------------
(***************************************************************************)
(* Requests only move forward, from the list of the snapshot to the list   *)
(* of the database and from each list to the next, until a rollback.       *)
(***************************************************************************)
Closed == {"denied", "revoked"}

Follows(r, x) ==
    /\ r.status \in Closed => x.status \in Closed
    /\ r.status # "pending" => x.status # "pending" /\ x.grantedUntil = r.grantedUntil

Forward(p, q) ==
    /\ Len(p) <= Len(q)
    /\ \A i \in 1..Len(p) : Follows(p[i], q[i])

\* A request in force ends when its approval said.
EndKept(r) == r.status = "approved" => r.expiresAt = r.grantedUntil

EndsKept(p) == \A i \in 1..Len(p) : EndKept(p[i])

ForwardInv ==
    /\ EndsKept(db.requests)
    /\ snapshot # NoSnapshot =>
           EndsKept(snapshot.requests) /\ Forward(snapshot.requests, db.requests)

LEMMA ForwardReflexive ==
    ASSUME NEW p \in Seq(Request)
    PROVE  Forward(p, p)
<1>1. \A i \in 1..Len(p) : p[i] \in Request
  OBVIOUS
<1>. QED
  BY <1>1 DEF Forward, Follows

LEMMA ForwardTransitive ==
    ASSUME NEW p \in Seq(Request), NEW q \in Seq(Request), NEW r \in Seq(Request),
           Forward(p, q), Forward(q, r)
    PROVE  Forward(p, r)
<1>1. Len(p) \in Nat /\ Len(q) \in Nat /\ Len(r) \in Nat
  OBVIOUS
<1>2. Len(p) <= Len(r)
  BY <1>1 DEF Forward
<1>3. ASSUME NEW i \in 1..Len(p)
      PROVE  Follows(p[i], r[i])
  <2>1. i \in 1..Len(q)
    BY <1>1 DEF Forward
  <2>2. Follows(p[i], q[i]) /\ Follows(q[i], r[i])
    BY <2>1 DEF Forward
  <2>. QED
    BY <2>2, Zenon DEF Follows
<1>. QED
  BY <1>2, <1>3 DEF Forward

\* Recording and deciding move the list of the database forward.
LEMMA ForwardStep ==
    ASSUME TypeOK, Same \/ Records \/ Approves \/ Closes
    PROVE  Forward(db.requests, db'.requests)
<1>0. db.requests \in Seq(Request) /\ Ids = 1..Len(db.requests)
  BY ListTypes
<1>1. CASE Same
  BY <1>0, <1>1, ForwardReflexive DEF Same
<1>2. CASE Records
  <2>. DEFINE n == Len(db.requests)
  <2>1. /\ n \in Nat /\ Len(db'.requests) = n + 1
        /\ \A i \in 1..n : db'.requests[i] = db.requests[i]
    BY <1>2, RecordStep
  <2>2. \A i \in 1..n : Follows(db.requests[i], db.requests[i])
    BY <1>0, ForwardReflexive DEF Forward
  <2>. QED
    BY <2>1, <2>2 DEF Forward
<1>3. CASE Approves \/ Closes
  <2>1. PICK i \in Ids, x \in Request :
            /\ Decision(db.requests[i], x)
            /\ db'.requests = [db.requests EXCEPT ![i] = x]
    BY <1>3, DecisionStep
  <2>2. db.requests[i] \in Request
    BY <1>0
  <2>3. Follows(db.requests[i], x)
    BY <2>1, <2>2 DEF Decision, Follows, Closed, approved, denied, revoked, Request
  <2>4. \A k \in Ids : Follows(db.requests[k], db.requests[k])
    BY <1>0, ForwardReflexive DEF Forward
  <2>5. /\ Len(db'.requests) = Len(db.requests)
        /\ db'.requests[i] = x
        /\ \A k \in Ids \ {i} : db'.requests[k] = db.requests[k]
    BY <1>0, <2>1
  <2>. QED
    BY <1>0, <2>3, <2>4, <2>5 DEF Forward
<1>. QED
  BY <1>1, <1>2, <1>3

\* No decision moves the end of a request in force.
LEMMA EndsStep ==
    ASSUME TypeOK, EndsKept(db.requests), Same \/ Records \/ Approves \/ Closes
    PROVE  EndsKept(db'.requests)
<1>0. db.requests \in Seq(Request) /\ Ids = 1..Len(db.requests)
  BY ListTypes
<1>1. CASE Same
  BY <1>1 DEF Same
<1>2. CASE Records
  <2>. DEFINE n == Len(db.requests)
  <2>1. PICK u \in Users, s \in Secrets :
            /\ n \in Nat /\ Len(db'.requests) = n + 1
            /\ 1..(n + 1) = 1..n \cup {n + 1}
            /\ \A i \in 1..n : db'.requests[i] = db.requests[i]
            /\ db'.requests[n + 1] = newRequest(u, s)
    BY <1>2, RecordStep
  <2>2. EndKept(newRequest(u, s))
    BY DEF newRequest, EndKept
  <2>. QED
    BY <2>1, <2>2 DEF EndsKept
<1>3. CASE Approves \/ Closes
  <2>1. PICK i \in Ids, x \in Request :
            /\ Decision(db.requests[i], x)
            /\ db'.requests = [db.requests EXCEPT ![i] = x]
    BY <1>3, DecisionStep
  <2>2. db.requests[i] \in Request /\ EndKept(db.requests[i])
    BY <1>0 DEF EndsKept
  <2>3. EndKept(x)
    BY <2>1, <2>2 DEF Decision, EndKept, approved, denied, revoked, Request
  <2>4. /\ Len(db'.requests) = Len(db.requests)
        /\ db'.requests[i] = x
        /\ \A k \in Ids \ {i} : db'.requests[k] = db.requests[k]
    BY <1>0, <2>1
  <2>. QED
    BY <1>0, <2>3, <2>4 DEF EndsKept
<1>. QED
  BY <1>1, <1>2, <1>3

\* What does not approve, and is no rollback, leaves no pending request approved.
LEMMA GrantStep ==
    ASSUME TypeOK, Same \/ Records \/ Closes, NEW i \in Ids,
           db.requests[i].status = "pending"
    PROVE  db'.requests[i].status # "approved"
<1>0. db.requests \in Seq(Request) /\ Ids = 1..Len(db.requests)
  BY ListTypes
<1>1. CASE Same
  BY <1>1 DEF Same
<1>2. CASE Records
  BY <1>0, <1>2, RecordStep
<1>3. CASE Closes
  <2>1. PICK k \in Ids :
            \/ db'.requests = [db.requests EXCEPT ![k] = denied(db.requests[k])]
            \/ db'.requests = [db.requests EXCEPT ![k] = revoked(db.requests[k])]
    BY <1>3 DEF Closes
  <2>2. db.requests[k] \in Request
    BY <1>0
  <2>3. denied(db.requests[k]).status # "approved" /\ revoked(db.requests[k]).status # "approved"
    BY <2>2 DEF denied, revoked, Request
  <2>. QED
    BY <1>0, <2>1, <2>3
<1>. QED
  BY <1>1, <1>2, <1>3

LEMMA ForwardInvariant == Spec => [](TypeOK /\ ForwardInv)
<1>1. Init => ForwardInv
  BY DEF Init, ForwardInv, EndsKept
<1>2. TypeOK /\ TypeOK' /\ ForwardInv /\ [Next]_vars => ForwardInv'
  <2>. SUFFICES ASSUME TypeOK, TypeOK', ForwardInv, [Next]_vars
                PROVE  ForwardInv'
    OBVIOUS
  <2>0. db.requests \in Seq(Request) /\ db'.requests \in Seq(Request)
    BY DEF TypeOK, State
  <2>1. EndsKept(db'.requests)
    BY StepKind, EndsStep DEF Reverts, ForwardInv
  <2>2. ASSUME snapshot' # NoSnapshot
        PROVE  EndsKept(snapshot'.requests) /\ Forward(snapshot'.requests, db'.requests)
    <3>1. CASE snapshot' = db /\ db' = db
      BY <2>0, <3>1, ForwardReflexive DEF ForwardInv
    <3>2. CASE snapshot' = snapshot
      <4>1. snapshot.requests \in Seq(Request)
        BY <2>2, <3>2 DEF TypeOK, State
      <4>2. Forward(db.requests, db'.requests)
        BY <2>2, <3>2, StepKind, ForwardStep DEF Reverts
      <4>. QED
        BY <2>0, <2>2, <3>2, <4>1, <4>2, ForwardTransitive DEF ForwardInv
    <3>. QED
      BY <2>2, <3>1, <3>2, StepKind DEF SnapshotSteps
  <2>. QED
    BY <2>1, <2>2 DEF ForwardInv
<1>. QED
  BY <1>1, <1>2, TypeCorrect, PTL DEF Spec

GrantKept(r, x) ==
    /\ x.status = "approved" =>
           \/ r.status = "pending" /\ snapshot' = snapshot
           \/ r.status # "pending" /\ x.expiresAt = r.grantedUntil
    /\ r.status \in Closed /\ x.status \notin Closed
           => db' = snapshot /\ snapshot' = NoSnapshot

\* A request is granted once: no second decision, rollback or restart moves the
\* end its approval gave, and a request that was denied or revoked is open or in
\* force again only when the transaction it was closed in is undone.
THEOREM GrantsNeverExtended == Spec => GrantNeverExtended
<1>1. ASSUME TypeOK, ForwardInv, [Next]_vars, NEW i \in Ids \cap Ids'
      PROVE  GrantKept(db.requests[i], db'.requests[i])
  <2>. DEFINE r == db.requests[i]
              x == db'.requests[i]
  <2>1. i \in 1..Len(db.requests) /\ i \in 1..Len(db'.requests)
    BY <1>1 DEF Ids
  <2>2. EndKept(x)
    BY <1>1, <2>1, StepKind, EndsStep DEF Reverts, ForwardInv, EndsKept
  <2>3. CASE Same \/ Records \/ Approves \/ Closes
    <3>1. Follows(r, x)
      BY <1>1, <2>1, <2>3, ForwardStep DEF Forward
    <3>2. r.status = "pending" /\ x.status = "approved" => snapshot' = snapshot
      BY <1>1, <2>3, GrantStep DEF Approves
    <3>. QED
      BY <2>2, <3>1, <3>2 DEF Follows, EndKept, GrantKept
  <2>4. CASE Reverts
    <3>1. Follows(x, r)
      BY <1>1, <2>1, <2>4 DEF Reverts, ForwardInv, Forward
    <3>. QED
      BY <2>2, <2>4, <3>1 DEF Follows, EndKept, GrantKept, Reverts
  <2>. QED
    BY <1>1, <2>3, <2>4, StepKind
<1>. DEFINE Step == \A i \in Ids \cap Ids' : GrantKept(db.requests[i], db'.requests[i])
<1>2. TypeOK /\ ForwardInv /\ [Next]_vars => [Step]_vars
  BY <1>1
<1>. QED
  BY <1>2, ForwardInvariant, PTL DEF Spec, GrantNeverExtended, GrantKept, Closed

-----------------------------------------------------------------------------
(***************************************************************************)
(* Grants by quorum.                                                       *)
(***************************************************************************)
QuorumOK(r) ==
    /\ IsFiniteSet(Approvers(r)) /\ Cardinality(Approvers(r)) = Len(r.approvals)
    /\ r.requester \notin Approvers(r)
    /\ r.status = "approved" =>
           \/ Len(r.approvals) >= r.requiredApprovals
           \/ r.byAdmin /\ Approvers(r) # {}

QuorumInv ==
    /\ \A i \in 1..Len(db.requests) : QuorumOK(db.requests[i])
    /\ snapshot # NoSnapshot =>
           \A i \in 1..Len(snapshot.requests) : QuorumOK(snapshot.requests[i])

LEMMA NewQuorum ==
    ASSUME NEW u \in Users, NEW s \in Secrets
    PROVE  QuorumOK(newRequest(u, s))
<1>1. /\ newRequest(u, s).approvals = <<>> /\ newRequest(u, s).status = "pending"
  BY DEF newRequest
<1>2. Approvers(newRequest(u, s)) = {} /\ Len(<<>>) = 0
  BY <1>1 DEF Approvers
<1>. QED
  BY <1>1, <1>2, FS_EmptySet DEF QuorumOK

\* Another user's approval counts once.
LEMMA ApprovalCounts ==
    ASSUME NEW r \in Request, NEW u \in Users, QuorumOK(r), r.requester # u,
           NEW x \in Request, x.requester = r.requester,
           x.approvals = approvalsWith(r, u)
    PROVE  /\ IsFiniteSet(Approvers(x)) /\ Cardinality(Approvers(x)) = Len(x.approvals)
           /\ x.requester \notin Approvers(x) /\ Approvers(x) # {}
<1>0. r.approvals \in Seq(Users)
  BY DEF Request
<1>1. CASE \E k \in 1..Len(r.approvals) : r.approvals[k] = u
  <2>1. Approvers(x) = Approvers(r) /\ u \in Approvers(r)
    BY <1>1 DEF approvalsWith, Approvers
  <2>. QED
    BY <1>1, <2>1 DEF QuorumOK, approvalsWith
<1>2. CASE ~(\E k \in 1..Len(r.approvals) : r.approvals[k] = u)
  <2>1. x.approvals = Append(r.approvals, u)
    BY <1>2 DEF approvalsWith
  <2>. DEFINE n == Len(r.approvals)
  <2>2. /\ n \in Nat /\ Len(x.approvals) = n + 1
        /\ 1..(n + 1) = 1..n \cup {n + 1}
        /\ \A k \in 1..n : x.approvals[k] = r.approvals[k]
        /\ x.approvals[n + 1] = u
    BY <1>0, <2>1
  <2>3. Approvers(x) = Approvers(r) \cup {u}
    BY <2>2 DEF Approvers
  <2>4. u \notin Approvers(r)
    BY <1>2 DEF Approvers
  <2>5. /\ IsFiniteSet(Approvers(x))
        /\ Cardinality(Approvers(x)) = Cardinality(Approvers(r)) + 1
    BY <2>3, <2>4, FS_AddElement DEF QuorumOK
  <2>. QED
    BY <2>2, <2>3, <2>5 DEF QuorumOK
<1>. QED
  BY <1>1, <1>2

LEMMA DecisionQuorum ==
    ASSUME NEW r \in Request, NEW x \in Request, QuorumOK(r), Decision(r, x)
    PROVE  QuorumOK(x)
<1>1. CASE x = denied(r) \/ x = revoked(r)
  <2>1. /\ x.approvals = r.approvals /\ x.requester = r.requester
        /\ x.status # "approved"
    BY <1>1 DEF denied, revoked, Request
  <2>. QED
    BY <2>1 DEF QuorumOK, Approvers
<1>2. ASSUME NEW u \in Users, NEW m \in Minutes,
             r.status = "pending", r.requester # u, x = approved(r, u, m)
      PROVE  QuorumOK(x)
  <2>. DEFINE given == approvalsWith(r, u)
              enough == Len(given) >= r.requiredApprovals
              privileged == privilegedApproval(u, r.secret)
  <2>1. /\ x.approvals = given /\ x.requester = r.requester
        /\ x.requiredApprovals = r.requiredApprovals
    BY <1>2 DEF approved, Request
  <2>2. x.status = "approved" => enough \/ x.byAdmin
    <3>. SUFFICES ASSUME x.status = "approved", ~enough PROVE x.byAdmin
      OBVIOUS
    <3>. HIDE DEF given
    <3>1. CASE privileged
      BY <1>2, <3>1, Zenon DEF approved, given, Request
    <3>2. CASE ~privileged
      BY <1>2, <3>2 DEF approved, given, Request
    <3>. QED
      BY <3>1, <3>2
  <2>3. /\ IsFiniteSet(Approvers(x)) /\ Cardinality(Approvers(x)) = Len(x.approvals)
        /\ x.requester \notin Approvers(x) /\ Approvers(x) # {}
    BY <1>2, <2>1, ApprovalCounts
  <2>4. Len(x.approvals) >= x.requiredApprovals <=> enough
    BY <2>1
  <2>. HIDE DEF enough, given
  <2>. QED
    BY <2>2, <2>3, <2>4, Zenon DEF QuorumOK
<1>. QED
  BY <1>1, <1>2 DEF Decision

\* An approved request was approved by as many different users other than the
\* requester as it asked for, or on the word of a security admin while its
\* secret required approvals.
THEOREM Quorum == Spec => []GrantedByQuorum
<1>1. Init => QuorumInv
  BY DEF Init, QuorumInv
<1>2. TypeOK /\ QuorumInv /\ [Next]_vars => QuorumInv'
  <2>. SUFFICES ASSUME TypeOK, QuorumInv, [Next]_vars PROVE QuorumInv'
    OBVIOUS
  <2>0. db.requests \in Seq(Request) /\ Ids = 1..Len(db.requests)
    BY ListTypes
  <2>1. \A i \in 1..Len(db'.requests) : QuorumOK(db'.requests[i])
    <3>1. CASE Same
      BY <3>1 DEF Same, QuorumInv
    <3>2. CASE Records
      <4>. DEFINE n == Len(db.requests)
      <4>1. PICK u \in Users, s \in Secrets :
                /\ n \in Nat /\ Len(db'.requests) = n + 1
                /\ 1..(n + 1) = 1..n \cup {n + 1}
                /\ \A i \in 1..n : db'.requests[i] = db.requests[i]
                /\ db'.requests[n + 1] = newRequest(u, s)
        BY <3>2, RecordStep
      <4>. QED
        BY <4>1, NewQuorum DEF QuorumInv
    <3>3. CASE Approves \/ Closes
      <4>1. PICK i \in Ids, x \in Request :
                /\ Decision(db.requests[i], x)
                /\ db'.requests = [db.requests EXCEPT ![i] = x]
        BY <3>3, DecisionStep
      <4>2. QuorumOK(x)
        BY <2>0, <4>1, DecisionQuorum DEF QuorumInv
      <4>3. /\ Len(db'.requests) = Len(db.requests)
            /\ db'.requests[i] = x
            /\ \A k \in Ids \ {i} : db'.requests[k] = db.requests[k]
        BY <2>0, <4>1
      <4>. QED
        BY <2>0, <4>2, <4>3 DEF QuorumInv
    <3>4. CASE Reverts
      BY <3>4 DEF Reverts, QuorumInv
    <3>. QED
      BY <3>1, <3>2, <3>3, <3>4, StepKind
  <2>. QED
    BY <2>1, StepKind DEF QuorumInv, SnapshotSteps
<1>3. TypeOK /\ QuorumInv => GrantedByQuorum
  <2>. SUFFICES ASSUME TypeOK, QuorumInv, NEW i \in Ids, db.requests[i].status = "approved"
                PROVE  LET r == db.requests[i]
                       IN  \/ Cardinality(Approvers(r) \ {r.requester}) >= r.requiredApprovals
                           \/ r.byAdmin /\ Approvers(r) \ {r.requester} # {}
    BY DEF GrantedByQuorum
  <2>. DEFINE r == db.requests[i]
  <2>1. QuorumOK(r)
    BY ListTypes DEF QuorumInv
  <2>2. Approvers(r) \ {r.requester} = Approvers(r)
    BY <2>1 DEF QuorumOK
  <2>. QED
    BY <2>1, <2>2 DEF QuorumOK
<1>. QED
  BY <1>1, <1>2, <1>3, TypeCorrect, PTL DEF Spec
=============================================================================
