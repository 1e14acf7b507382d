-------------------------------- MODULE Login --------------------------------
(***************************************************************************)
(* How a session begins (routes/authRoutes.mjs, services/identityService   *)
(* and middleware/rateLimit of src/src/server): a password with its count  *)
(* of failures and lockout, or an external identity provider with a state, *)
(* a nonce and two awaited answers; and the fixed window that limits both. *)
(*                                                                         *)
(* A handler is one action up to its await.  Time is counted in ticks of   *)
(* any length.  The limiter has a bucket for each address and route, all    *)
(* alike; one is kept, for the requests of one address to LimitedPath.     *)
(* The count of failures and the users are in store.state, which a refused *)
(* access request rolls back (TxnStore); the pending states and the        *)
(* buckets are not, and none of them but the users outlives the process.   *)
(* What becomes of a session is in Sessions.  Signatures, the MFA claim,   *)
(* expiry and malformed tokens are one way to fail (CallFails).            *)
(***************************************************************************)
EXTENDS Integers, Sequences, FiniteSets

CONSTANTS
    Emails,             \* addresses people try; users are some of them
    Roles,
    Flows,              \* values of "state", each drawn once
    Calls,              \* federated requests, each made once
    FailedLoginLimit, Lockout,      \* config.failedLoginLimit, loginLockoutMinutes
    PendingTtl,                     \* pendingLoginTtlMs
    LimitedPath, Window, MaxPerWindow,  \* rateLimit({ windowMs, max }) and its path
    MaxTime, MaxEdits, MaxRestarts, \* bounds
    None

Bucket == [count : Nat, resetAt : Nat]

ASSUME LoginAssumption ==
    /\ IsFiniteSet(Emails)
    /\ {FailedLoginLimit, Lockout, Window, MaxPerWindow} \subseteq Nat \ {0}
    /\ {PendingTtl, MaxTime, MaxEdits, MaxRestarts} \subseteq Nat
    /\ {None, "undrawn"} \cap (Flows \cup Emails) = {} /\ None # "undrawn"
    /\ None \notin Bucket

VARIABLES
    mode,       \* config.identityProvider.mode: local, or one of the others
    now,
    users,      \* store.state.users by address, None when there is no such user
    failure,    \* store.state.loginFailures; lockedUntil 0 is null
    bucket,     \* rateLimit's bucket, None before the first request
    pending,    \* pendingFederatedLogins: createdAt by state, None when gone
    calls,      \* federated requests between their awaits
    txn,        \* what a rollback would restore, None with no open transaction
    provider,   \* external: who signed in at the provider, by state
    opened,     \* the federated sessions there were
    judged,     \* when a wrong password was compared, since the last success
    forgotten,  \* addresses of which a failed save or a rollback lost a failure
    admitted,   \* when a request passed the limiter
    edits, restarts

kept == <<users, failure>>
counted == <<judged, forgotten>>
federation == <<pending, calls, provider, opened>>
bounds == <<edits, restarts>>
vars == <<mode, now, kept, bucket, federation, txn, counted, admitted, bounds>>

Failure == [count : Nat, lockedUntil : Nat]
noFailure == [count |-> 0, lockedUntil |-> 0]
User == [enabled : BOOLEAN, role : Roles]

-----------------------------------------------------------------------------
\* Wrong: the window begins anew and its end stays where it was.
bucketKeepsEnd ==
    CASE bucket = None -> [count |-> 0, resetAt |-> now + Window]
      [] OTHER -> IF now > bucket.resetAt THEN [bucket EXCEPT !.count = 0] ELSE bucket

\* The bucket as a request finds it.
currentBucket ==
    CASE bucket = None -> [count |-> 0, resetAt |-> now + Window]
      [] OTHER -> IF now > bucket.resetAt THEN [count |-> 0, resetAt |-> now + Window]
                  ELSE bucket

\* rateLimit counts a request whether or not it lets it through; of those it
\* refuses in one window only the first is taken, which bounds the count.
Counted(passes) ==
    /\ (currentBucket.count < MaxPerWindow) = passes
    /\ passes \/ currentBucket.count = MaxPerWindow
    /\ bucket' = [currentBucket EXCEPT !.count = @ + 1]
    /\ admitted' = IF passes THEN Append(admitted, now) ELSE admitted

Admitted(path) ==
    IF path = LimitedPath THEN Counted(TRUE) ELSE UNCHANGED <<bucket, admitted>>

isLocked(f) == f.lockedUntil > now

\* Wrong: only the failure that reaches the limit locks.
failureAtLimit(f) ==
    [count |-> f.count + 1,
     lockedUntil |-> IF f.count + 1 = FailedLoginLimit THEN now + Lockout ELSE f.lockedUntil]

nextFailure(f) ==
    [count |-> f.count + 1,
     lockedUntil |-> IF f.count + 1 >= FailedLoginLimit THEN now + Lockout ELSE f.lockedUntil]

\* recordLoginFailure audits, and so saves, before it stores; a save is put off
\* while a transaction is open.
recordLoginFailure(e) ==
    /\ judged' = [judged EXCEPT ![e] = Append(@, now)]
    /\ \/ /\ failure' = [failure EXCEPT ![e] = nextFailure(@)]
          /\ UNCHANGED forgotten
       \/ /\ txn = None
          /\ users[e] # None \/ nextFailure(failure[e]).count >= FailedLoginLimit
          /\ forgotten' = forgotten \cup {e}
          /\ UNCHANGED failure

clearLoginFailure(e) ==
    /\ failure' = [failure EXCEPT ![e] = noFailure]
    /\ judged' = [judged EXCEPT ![e] = <<>>]
    /\ forgotten' = forgotten \ {e}

-----------------------------------------------------------------------------
\* The limiter stands before every one of the four handlers; a handler of the
\* other mode answers with an error at once and is left out.
TooMany ==
    /\ Counted(FALSE)
    /\ UNCHANGED <<mode, now, kept, federation, txn, counted, bounds>>

isDisabled(e) == users[e] # None /\ ~users[e].enabled
isRight(e, right) == users[e] # None /\ right

\* POST /login
Login(e, right) ==
    /\ mode = "local" /\ Admitted("/login")
    /\ CASE isLocked(failure[e]) \/ isDisabled(e) -> UNCHANGED <<failure, counted>>
         [] OTHER -> IF isRight(e, right) THEN clearLoginFailure(e) ELSE recordLoginFailure(e)
    /\ UNCHANGED <<mode, now, users, federation, txn, bounds>>

\* POST /login/federated/start, after discovery has answered.
Start(f) ==
    /\ mode = "external" /\ Admitted("/login/federated/start")
    /\ provider[f] = "undrawn"
    /\ pending' = [pending EXCEPT ![f] = now]
    /\ provider' = [provider EXCEPT ![f] = None]
    /\ UNCHANGED <<mode, now, kept, calls, opened, txn, counted, bounds>>

\* External: someone follows the authorization URL and signs in.
SignIn(f, e) ==
    /\ provider[f] = None
    /\ provider' = [provider EXCEPT ![f] = e]
    /\ UNCHANGED <<mode, now, kept, bucket, pending, calls, opened, txn, counted, admitted, bounds>>

\* POST /login/federated: an ID token and no state; the keys are awaited.
Direct(k, e, role) ==
    /\ mode = "external" /\ Admitted("/login/federated")
    /\ calls[k] = None
    /\ calls' = [calls EXCEPT ![k] = [stage |-> "keys", flow |-> None, who |-> e, role |-> role]]
    /\ UNCHANGED <<mode, now, kept, pending, provider, opened, txn, counted, bounds>>

\* Wrong: a state is taken out when its exchange has succeeded.
takenLater(f) == UNCHANGED pending

taken(f) == pending' = [pending EXCEPT ![f] = None]

\* POST /login/federated/callback up to the exchange, with the code of a sign-in
\* that may belong to another state.
Callback(k, f, code, sameUri) ==
    /\ mode = "external" /\ Admitted("/login/federated/callback")
    /\ calls[k] = None
    /\ provider[code] \in Emails
    /\ taken(f)
    /\ calls' = [calls EXCEPT ![k] =
           IF pending[f] # None /\ now - pending[f] <= PendingTtl /\ sameUri
           THEN [stage |-> "exchange", flow |-> f, code |-> code]
           ELSE [stage |-> "done"]]
    /\ UNCHANGED <<mode, now, kept, provider, opened, txn, counted, bounds>>

\* Wrong: the nonce of the ID token is not looked at.
anyNonce(call) == TRUE

\* The nonce is the one of the authorization request whose code it was.
nonceMatches(call) == call.code = call.flow

\* exchangeAuthorizationCode answers; the provider is not relied on to check
\* the PKCE verifier.  validateExternalIdentityToken goes as far as the keys.
Exchanged(k, role) ==
    /\ calls[k] # None /\ calls[k].stage = "exchange"
    /\ calls' = [calls EXCEPT ![k] =
           IF nonceMatches(calls[k])
           THEN [stage |-> "keys", flow |-> calls[k].flow, who |-> provider[calls[k].code],
                 role |-> role]
           ELSE [stage |-> "done"]]
    /\ UNCHANGED <<mode, now, kept, bucket, pending, provider, opened, txn, counted, admitted, bounds>>

CallFails(k) ==
    /\ calls[k] # None /\ calls[k].stage # "done"
    /\ calls' = [calls EXCEPT ![k] = [stage |-> "done"]]
    /\ UNCHANGED <<mode, now, kept, bucket, pending, provider, opened, txn, counted, admitted, bounds>>

provisioned(call) ==
    users[call.who] # None /\ users[call.who].enabled /\ users[call.who].role = call.role

\* The keys are there and the signature is good: the local user decides, and
\* createFederatedSessionResponse follows without an await.
Validated(k) ==
    /\ calls[k] # None /\ calls[k].stage = "keys"
    /\ calls' = [calls EXCEPT ![k] = [stage |-> "done"]]
    /\ IF provisioned(calls[k])
       THEN /\ opened' = opened \cup {[user |-> calls[k].who, flow |-> calls[k].flow,
                                       role |-> calls[k].role, call |-> k]}
            /\ clearLoginFailure(calls[k].who)
       ELSE UNCHANGED <<opened, failure, counted>>
    /\ UNCHANGED <<mode, now, users, bucket, pending, provider, txn, admitted, bounds>>

-----------------------------------------------------------------------------
Tick ==
    /\ now < MaxTime /\ now' = now + 1
    /\ UNCHANGED <<mode, kept, bucket, federation, txn, counted, admitted, bounds>>

\* updateUser of adminService, as far as it is read here.
UpdateUser(e, u) ==
    /\ edits < MaxEdits /\ edits' = edits + 1
    /\ users[e] # None /\ users' = [users EXCEPT ![e] = u] /\ users' # users
    /\ UNCHANGED <<mode, now, failure, bucket, federation, txn, counted, admitted, restarts>>

\* requestSecretAccess opens the transaction of store.mjs and awaits a ticket.
OpenTransaction ==
    /\ txn = None
    /\ txn' = [users |-> users, failure |-> failure]
    /\ UNCHANGED <<mode, now, kept, bucket, federation, counted, admitted, bounds>>

Commit ==
    /\ txn # None /\ txn' = None
    /\ UNCHANGED <<mode, now, kept, bucket, federation, counted, admitted, bounds>>

restoreState(before) ==
    /\ users' = before.users
    /\ failure' = before.failure
    /\ forgotten' = forgotten \cup {e \in Emails : failure[e] # before.failure[e]}

\* The ticket is refused, or the save of the commit throws.
Rollback ==
    /\ txn # None /\ txn' = None
    /\ restoreState(txn)
    /\ UNCHANGED <<mode, now, bucket, federation, judged, admitted, bounds>>

\* normalizeState: loginFailures starts empty.
Restart ==
    /\ restarts < MaxRestarts /\ restarts' = restarts + 1
    /\ users' = IF txn = None THEN users ELSE txn.users
    /\ failure' = [e \in Emails |-> noFailure]
    /\ bucket' = None
    /\ pending' = [f \in Flows |-> None]
    /\ calls' = [k \in Calls |-> IF calls[k] = None THEN None ELSE [stage |-> "done"]]
    /\ txn' = None
    /\ judged' = [e \in Emails |-> <<>>] /\ forgotten' = {}
    /\ admitted' = <<>>
    /\ UNCHANGED <<mode, now, provider, opened, edits>>

Init ==
    /\ mode \in {"local", "external"}
    /\ now = 0
    /\ users \in [Emails -> {None} \cup [enabled : {TRUE}, role : Roles]]
    /\ failure = [e \in Emails |-> noFailure]
    /\ bucket = None
    /\ pending = [f \in Flows |-> None]
    /\ calls = [k \in Calls |-> None]
    /\ txn = None
    /\ provider = [f \in Flows |-> "undrawn"]
    /\ opened = {}
    /\ judged = [e \in Emails |-> <<>>] /\ forgotten = {}
    /\ admitted = <<>>
    /\ edits = 0 /\ restarts = 0

Next ==
    \/ TooMany
    \/ \E e \in Emails, right \in BOOLEAN : Login(e, right)
    \/ \E f \in Flows : Start(f) \/ \E e \in Emails : SignIn(f, e)
    \/ \E k \in Calls :
           \/ \E e \in Emails, role \in Roles : Direct(k, e, role)
           \/ \E f, code \in Flows, sameUri \in BOOLEAN : Callback(k, f, code, sameUri)
           \/ \E role \in Roles : Exchanged(k, role)
           \/ CallFails(k) \/ Validated(k)
    \/ Tick
    \/ \E e \in Emails, u \in User : UpdateUser(e, u)
    \/ OpenTransaction \/ Commit \/ Rollback \/ Restart

Spec == Init /\ [][Next]_vars

-----------------------------------------------------------------------------
\* The maps of the two modules hold what their code puts into them, and a
\* lockout is at most Lockout ahead.
LoginTypeOK ==
    /\ now \in 0..MaxTime
    /\ users \in [Emails -> {None} \cup User]
    /\ failure \in [Emails -> Failure]
    /\ \A e \in Emails : failure[e].lockedUntil <= now + Lockout
    /\ pending \in [Flows -> {None} \cup 0..MaxTime]
    /\ bucket # None => bucket.count \in 1..(MaxPerWindow + 1) /\ bucket.resetAt <= now + Window
    /\ forgotten \subseteq Emails

\* From the FailedLoginLimit-th wrong password for an address on, the next one
\* is compared only after a whole lockout has passed, and again after each:
\* the count is not reset when a lock runs out.  A failure that a failed save
\* or a rollback has taken away is the exception.
GuessesSpaced ==
    \A e \in Emails \ forgotten :
        \A i \in FailedLoginLimit..(Len(judged[e]) - 1) :
            judged[e][i + 1] >= judged[e][i] + Lockout

\* A process lets at most 2 * MaxPerWindow requests of an address through a
\* route in any stretch of Window: the window begins with the first request
\* after the last one's end, so two full ones may meet.
AdmittedPerWindow ==
    \A i \in 1..(Len(admitted) - 2 * MaxPerWindow) :
        admitted[i + 2 * MaxPerWindow] > admitted[i] + Window

\* Of all callbacks with one state, however their awaits interleave, one opens
\* a session at most.
StateUsedOnce ==
    \A s, t \in opened : s.flow = t.flow /\ s.flow # None => s = t

\* A session opened through a state belongs to whoever signed in at the
\* provider for that state, and to a user who at that moment is enabled and
\* has the role the token maps to, whatever was changed while the answers of
\* the provider were awaited.
SessionIsWhoSignedIn ==
    [][\A s \in opened' \ opened :
           /\ s.flow # None => provider[s.flow] = s.user
           /\ users[s.user] \in [enabled : {TRUE}, role : {s.role}]]_vars
=============================================================================
