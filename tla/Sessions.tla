------------------------------ MODULE Sessions -----------------------------
(***************************************************************************)
(* Access sessions, refresh tokens and the device inventory: the code of   *)
(* sessionService.mjs and of the routes that call it, with an external     *)
(* identity provider and refresh tokens enabled.                           *)
(*                                                                         *)
(* A session and the refresh token issued with it share a number, given in *)
(* the order of issue; secrets, hashes and cookies are abstracted to it. A *)
(* client remembers what it was given whatever the server forgets, so      *)
(* "issued" is never rolled back.                                          *)
(*                                                                         *)
(* Another user's access request may hold the one global transaction open  *)
(* (TxnStore): saves are put off meanwhile, and its refusal restores the   *)
(* state it began with.  Saves succeed here.                               *)
(*                                                                         *)
(* Time is abstracted: a session may pass its TTL at any moment and a      *)
(* usable token may be refused as expired at any moment.                   *)
(***************************************************************************)
EXTENDS Naturals, FiniteSets, Sequences

CONSTANTS
  Users,       \* users the identity provider knows
  Clients,     \* pairs of source address and user agent
  TokenLimit,  \* refresh token records kept, 500 in the code
  MaxIssued,   \* bound: sessions ever created
  MaxRestores, \* bound: rollbacks and restarts
  NoSnapshot   \* no transaction is open

ASSUME SessionsAssumption ==
  TokenLimit \in Nat \ {0} /\ MaxIssued \in Nat /\ MaxRestores \in Nat

VARIABLES
  db,         \* store.state
  disk,       \* what was saved last
  snapshot,   \* transactionSnapshot, or NoSnapshot
  issued,     \* whose the n-th session and token are
  exchanged,  \* how often the n-th token was exchanged successfully
  replayed,   \* families whose replay was answered with no transaction open
  ended,      \* sessions whose end was acknowledged with no transaction open
  restores    \* rollbacks and restarts so far

vars == <<db, disk, snapshot, issued, exchanged, replayed, ended, restores>>
history == <<issued, exchanged, replayed, ended>>

Numbers == 1 .. MaxIssued
Devices == Users \X Clients

\* Whose a session is, where it was opened, and the family of its token.
Owner == [user : Users, client : Clients, family : Numbers]

\* known: refresh tokens with a record; used, revoked: those with usedAt and
\* revokedAt; live: the sessions; disabled: users with enabled = false; seen:
\* a device's lastSessionId, 0 if it has no record; gone: devices with
\* revokedAt.
State == [known : SUBSET Numbers, used : SUBSET Numbers, revoked : SUBSET Numbers,
          live : SUBSET Numbers, disabled : SUBSET Users,
          seen : [Devices -> 0 .. MaxIssued], gone : SUBSET Devices]

Init ==
  /\ db = [known |-> {}, used |-> {}, revoked |-> {}, live |-> {},
           disabled |-> {}, seen |-> [v \in Devices |-> 0], gone |-> {}]
  /\ disk = db
  /\ snapshot = NoSnapshot
  /\ issued = << >>
  /\ exchanged = [n \in Numbers |-> 0]
  /\ replayed = {}
  /\ ended = {}
  /\ restores = 0

----------------------------------------------------------------------------
(* The store.                                                              *)

\* Sessions are never persisted.
toPersistedState(d) == [d EXCEPT !.live = {}]

\* The state becomes d; audit saves it unless a transaction is open.
Saved(d) ==
  /\ db' = d
  /\ disk' = IF snapshot = NoSnapshot THEN toPersistedState(d) ELSE disk
  /\ UNCHANGED <<snapshot, restores>>

Unsaved(d) == db' = d /\ UNCHANGED <<disk, snapshot, restores>>

\* Another user's access request begins to wait for its ticket.
TxnOpens ==
  /\ snapshot = NoSnapshot
  /\ snapshot' = db
  /\ UNCHANGED <<db, disk, restores, history>>

TxnCommits ==
  /\ snapshot # NoSnapshot
  /\ disk' = toPersistedState(db)
  /\ snapshot' = NoSnapshot
  /\ UNCHANGED <<db, restores, history>>

rollbackTransaction ==
  /\ snapshot # NoSnapshot
  /\ restores < MaxRestores
  /\ db' = snapshot
  /\ snapshot' = NoSnapshot
  /\ restores' = restores + 1
  /\ UNCHANGED <<disk, history>>

Crash ==
  /\ restores < MaxRestores
  /\ db' = disk
  /\ snapshot' = NoSnapshot
  /\ restores' = restores + 1
  /\ UNCHANGED <<disk, history>>

----------------------------------------------------------------------------
(* sessionService.mjs                                                      *)

NextNumber == Len(issued) + 1
Device(n) == <<issued[n].user, issued[n].client>>
Family(d, n) == {m \in d.known : issued[m].family = issued[n].family}
Usable(d) == d.known \ (d.used \cup d.revoked)

\* Wrong: a device stays revoked when it is seen again.
rememberDeviceRevoked(d, n, v) == [d EXCEPT !.seen[v] = n]

\* Session n is seen on device v, which is not revoked any more.
rememberDevice(d, n, v) ==
  [d EXCEPT !.seen[v] = n, !.gone = @ \ {v}]

createSession(d, n, v) ==
  rememberDevice([d EXCEPT !.live = @ \cup {n}], n, v)

\* The newest TokenLimit records.
Newest(K) == {n \in K : Cardinality({m \in K : m > n}) < TokenLimit}

createRefreshTokenRecord(d, n) ==
  LET kept == Newest(d.known \cup {n}) IN
  [d EXCEPT !.known = kept, !.used = @ \cap kept, !.revoked = @ \cap kept]

createSessionBundle(d, n, v) ==
  createRefreshTokenRecord(createSession(d, n, v), n)

\* Wrong: the exchanged token is not marked.
markUsedNot(d, n) == d

markUsed(d, n) == [d EXCEPT !.used = @ \cup {n}]

\* Wrong: a replay revokes only the token presented.
revokeRefreshTokenOnly(d, n) == [d EXCEPT !.revoked = @ \cup {n}]

revokeRefreshTokenFamily(d, n) ==
  [d EXCEPT !.revoked = @ \cup Family(d, n)]

revokeRefreshTokensForSession(d, n) ==
  [d EXCEPT !.revoked = @ \cup (d.known \cap {n})]

\* Wrong: ending a session leaves its token.
revokeSessionOnly(d, n) ==
  [d EXCEPT !.live = @ \ {n}, !.gone = @ \cup {v \in Devices : d.seen[v] = n}]

\* The device is the one whose last session this is, if there is one.
revokeSession(d, n) ==
  revokeRefreshTokensForSession(
    [d EXCEPT !.live = @ \ {n}, !.gone = @ \cup {v \in Devices : d.seen[v] = n}], n)

\* A new session and token, number NextNumber, in the given family.
Issue(u, c, family) ==
  /\ Len(issued) < MaxIssued
  /\ issued' = Append(issued, [user |-> u, client |-> c, family |-> family])

\* createFederatedSessionResponse: the provider has authenticated the user and
\* the user is enabled (both looked at after the last await).
FederatedLogin(u, c) ==
  /\ u \notin db.disabled
  /\ Issue(u, c, NextNumber)
  /\ Saved(createSessionBundle(db, NextNumber, <<u, c>>))
  /\ UNCHANGED <<exchanged, replayed, ended>>

\* The refresh route, for any token ever issued: exchanged for a new session
\* and token. The session it came with is left as it is.
RefreshRotates(n, c) ==
  LET u == issued[n].user IN
  /\ n \in Usable(db)
  /\ u \notin db.disabled
  /\ Issue(u, c, issued[n].family)
  /\ Saved(createSessionBundle(markUsed(db, n), NextNumber, <<u, c>>))
  /\ exchanged' = [exchanged EXCEPT ![n] = @ + 1]
  /\ UNCHANGED <<replayed, ended>>

RefreshReplayed(n) ==
  /\ n \in db.used
  /\ Saved(revokeRefreshTokenFamily(db, n))
  /\ replayed' = IF snapshot = NoSnapshot
                 THEN replayed \cup {issued[n].family} ELSE replayed
  /\ UNCHANGED <<issued, exchanged, ended>>

RefreshDisabled(n) ==
  /\ n \in Usable(db)
  /\ issued[n].user \in db.disabled
  /\ Saved(revokeRefreshTokenFamily(db, n))
  /\ UNCHANGED history

\* Refused as unknown, revoked or expired: the refusal is audited, and that
\* saves. So does every other audited handler.
Refused ==
  /\ Saved(db)
  /\ UNCHANGED history

\* A request with session n.
Request(n) ==
  /\ n \in db.live
  /\ Unsaved(rememberDevice(db, n, Device(n)))
  /\ UNCHANGED history

\* A request with session n finds it past its TTL.
SessionExpires(n) ==
  /\ n \in db.live
  /\ Unsaved([db EXCEPT !.live = @ \ {n}])
  /\ UNCHANGED history

Ends(n) ==
  /\ ended' = IF snapshot = NoSnapshot THEN ended \cup {n} ELSE ended
  /\ UNCHANGED <<issued, exchanged, replayed>>

\* The auth middleware sees the session before the route ends it.
Logout(n) ==
  /\ n \in db.live
  /\ Saved(revokeSession(rememberDevice(db, n, Device(n)), n))
  /\ Ends(n)

\* The administrator's route, for a session that is live, and for one that is
\* not: tokens are revoked, but it is answered with 404 and nothing is saved.
RevokeLive(n) ==
  /\ n \in db.live
  /\ Saved(revokeSession(db, n))
  /\ Ends(n)

RevokeDead(n) ==
  /\ n \notin db.live
  /\ Unsaved(revokeRefreshTokensForSession(db, n))
  /\ UNCHANGED history

\* Wrong: a disabled user keeps the sessions there are.
DisableKeepsSessions(u) ==
  /\ Saved([db EXCEPT !.disabled = @ \cup {u}])
  /\ UNCHANGED history

Disable(u) ==
  /\ Saved([db EXCEPT !.disabled = @ \cup {u},
                      !.live = {n \in @ : issued[n].user # u}])
  /\ UNCHANGED history

Enable(u) ==
  /\ Saved([db EXCEPT !.disabled = @ \ {u}])
  /\ UNCHANGED history

Next ==
  \/ TxnOpens \/ TxnCommits \/ rollbackTransaction \/ Crash \/ Refused
  \/ \E u \in Users : Disable(u) \/ Enable(u) \/ \E c \in Clients : FederatedLogin(u, c)
  \/ \E n \in 1 .. Len(issued) :
       \/ \E c \in Clients : RefreshRotates(n, c)
       \/ RefreshReplayed(n) \/ RefreshDisabled(n)
       \/ Request(n) \/ SessionExpires(n) \/ Logout(n)
       \/ RevokeLive(n) \/ RevokeDead(n)

Spec == Init /\ [][Next]_vars

----------------------------------------------------------------------------
(* Properties.                                                             *)

\* db, what is on disk, and the snapshot if there is one.
States == {db, disk} \cup (IF snapshot = NoSnapshot THEN {} ELSE {snapshot})

\* A state refers to sessions and tokens that were issued.
Fits(d) ==
  /\ d \in State
  /\ d.live \cup d.known \subseteq 1 .. Len(issued)
  /\ d.used \cup d.revoked \subseteq d.known

\* Types: sessions, records and promises are of what was issued, a family is
\* named by its first token, and no session reaches the disk.
TypeOK ==
  /\ issued \in Seq(Owner)
  /\ Len(issued) <= MaxIssued
  /\ \A n \in 1 .. Len(issued) : issued[n].family <= n
  /\ \A d \in States : Fits(d)
  /\ disk.live = {}
  /\ exchanged \in [Numbers -> Nat]
  /\ replayed \subseteq 1 .. Len(issued) /\ ended \subseteq 1 .. Len(issued)
  /\ restores \in 0 .. MaxRestores

\* Rotation: only the newest token of a family can be exchanged, so a family
\* never has two usable tokens, in memory, on disk or in the snapshot.
UsableIsNewest ==
  \A d \in States : \A n \in Usable(d) : \A m \in Family(d, n) : m <= n

\* One-time rotation: a token is exchanged once, and once more at most for
\* each rollback or restart.
ExchangedOncePerRestore == \A n \in Numbers : exchanged[n] <= 1 + restores

\* Replay: after a detected replay no token of the family can be exchanged,
\* across restarts, later rollbacks, and the refreshes that race with it.
ReplayEndsFamily ==
  \A d \in States : \A n \in Usable(d) : issued[n].family \notin replayed

\* Logout and revocation: a session ended is never live again and its own
\* token is never exchanged again.
EndedStaysEnded ==
  \A d \in States : ended \cap (d.live \cup Usable(d)) = {}

\* A disabled user has no session, whatever login, refresh or rollback did.
DisabledHasNoSession ==
  \A d \in States : \A n \in d.live : issued[n].user \notin d.disabled

\* A device shown as revoked is not one whose last session is live.
RevokedDeviceIsGone ==
  \A d \in States : \A v \in d.gone : d.seen[v] \notin d.live
============================================================================
