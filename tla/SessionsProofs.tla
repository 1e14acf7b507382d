--------------------------- MODULE SessionsProofs --------------------------
(***************************************************************************)
(* Machine-checked proofs about Sessions, for any users, clients, limits   *)
(* and bounds.                                                             *)
(***************************************************************************)
EXTENDS Sessions, TLAPS

(***************************************************************************)
(* What each operation does to a state that fits.  N is the number to be   *)
(* issued.                                                                 *)
(***************************************************************************)
LEMMA SavedFits ==
  ASSUME NEW d, Fits(d)
  PROVE  Fits(toPersistedState(d)) /\ toPersistedState(d).live = {}
BY DEF Fits, State, toPersistedState

LEMMA Counts ==
  ASSUME TypeOK
  PROVE  Len(issued) \in Nat /\ MaxIssued \in Nat /\ Len(issued) <= MaxIssued
         /\ issued \in Seq(Owner)
BY SessionsAssumption DEF TypeOK

LEMMA DeviceType ==
  ASSUME TypeOK, NEW n \in 1 .. Len(issued)
  PROVE  Device(n) \in Devices /\ n \in Numbers /\ issued[n] \in Owner
<1>1. issued[n] \in Owner
  BY Counts
<1>2. n \in Numbers
  BY Counts DEF Numbers
<1>. QED
  BY <1>1, <1>2 DEF Device, Devices, Owner

LEMMA RememberFits ==
  ASSUME TypeOK, NEW d, Fits(d), NEW n \in 1 .. Len(issued), NEW v \in Devices
  PROVE  Fits(rememberDevice(d, n, v))
<1>1. n \in 0 .. MaxIssued
  BY Counts
<1>. QED
  BY <1>1 DEF Fits, State, rememberDevice

LEMMA RevokeFits ==
  ASSUME TypeOK, NEW d, Fits(d), NEW n \in 1 .. Len(issued)
  PROVE  /\ Fits(revokeRefreshTokenFamily(d, n))
         /\ Fits(revokeRefreshTokensForSession(d, n))
         /\ Fits(revokeSession(d, n))
<1>1. Fits(revokeRefreshTokenFamily(d, n))
  BY DEF Fits, State, revokeRefreshTokenFamily, Family
<1>2. ASSUME NEW e, Fits(e) PROVE Fits(revokeRefreshTokensForSession(e, n))
  BY <1>2 DEF Fits, State, revokeRefreshTokensForSession
<1>. DEFINE e == [d EXCEPT !.live = @ \ {n}, !.gone = @ \cup {v \in Devices : d.seen[v] = n}]
<1>3. Fits(e)
  BY DEF Fits, State
<1>. QED
  BY <1>1, <1>2, <1>3 DEF revokeSession

\* The state after a session and a token were issued, field by field.
Bundled(d, e, n) ==
  /\ e.known \subseteq d.known \cup {n}
  /\ e.used = d.used \cap e.known
  /\ e.revoked = d.revoked \cap e.known
  /\ e.live = d.live \cup {n}
  /\ e.disabled = d.disabled

LEMMA BundleFields ==
  ASSUME NEW d \in State, NEW n \in Numbers, NEW v \in Devices,
         NEW e, e = createSessionBundle(d, n, v)
  PROVE  /\ e \in State
         /\ Bundled(d, e, n)
         /\ e.seen = [d.seen EXCEPT ![v] = n]
         /\ e.gone = d.gone \ {v}
<1>0. n \in 0 .. MaxIssued /\ n \in Numbers
  BY SessionsAssumption DEF Numbers
<1>. DEFINE f == createSession(d, n, v)
            K == Newest(f.known \cup {n})
<1>1. /\ f \in State /\ f.known = d.known /\ f.used = d.used /\ f.revoked = d.revoked
      /\ f.live = d.live \cup {n} /\ f.disabled = d.disabled
      /\ f.seen = [d.seen EXCEPT ![v] = n] /\ f.gone = d.gone \ {v}
  BY <1>0 DEF State, createSession, rememberDevice
<1>2. K \subseteq f.known \cup {n}
  BY DEF Newest
<1>. HIDE DEF f, K
<1>3. e = [f EXCEPT !.known = K, !.used = @ \cap K, !.revoked = @ \cap K]
  BY DEF createSessionBundle, createRefreshTokenRecord, f, K
<1>4. /\ e.known = K /\ e.used = f.used \cap K /\ e.revoked = f.revoked \cap K
      /\ e.live = f.live /\ e.disabled = f.disabled /\ e.seen = f.seen /\ e.gone = f.gone
  BY <1>1, <1>3 DEF State
<1>5. Bundled(d, e, n)
  BY <1>1, <1>2, <1>4 DEF Bundled
<1>6. /\ K \in SUBSET Numbers
      /\ f.used \cap K \in SUBSET Numbers /\ f.revoked \cap K \in SUBSET Numbers
  BY <1>0, <1>1, <1>2 DEF State
<1>7. e \in State
  BY <1>1, <1>3, <1>6 DEF State
<1>. QED
  BY <1>1, <1>4, <1>5, <1>7

(***************************************************************************)
(* After a step every state is the one in memory, that one as it is saved, *)
(* or one there was before, and then no promise was added: promises are    *)
(* made only by handlers whose save takes effect at once.                  *)
(***************************************************************************)
StatesKept ==
  \A d \in States' : \/ d = db' \/ d = toPersistedState(db')
                     \/ d \in States /\ replayed' = replayed /\ ended' = ended

LEMMA SavedStates ==
  ASSUME NEW x, Saved(x)
  PROVE  /\ db' = x /\ restores' = restores
         /\ \/ snapshot = NoSnapshot /\ States' \subseteq {db', toPersistedState(db')}
            \/ snapshot # NoSnapshot /\ States' \subseteq {db'} \cup States
BY DEF Saved, States

LEMMA UnsavedStates ==
  ASSUME NEW x, Unsaved(x)
  PROVE  db' = x /\ restores' = restores /\ States' \subseteq {db'} \cup States
BY DEF Unsaved, States

(***************************************************************************)
(* Three kinds of steps, by what they do to the state in memory.           *)
(***************************************************************************)
\* Tokens can only be revoked, and sessions only end.
Narrows ==
  /\ db' \in State
  /\ db'.known = db.known /\ db'.used = db.used
  /\ db.revoked \subseteq db'.revoked /\ db'.revoked \subseteq db'.known
  /\ db'.live \subseteq db.live
  /\ \A n \in db'.live : issued[n].user \in db'.disabled => issued[n].user \in db.disabled
  /\ issued' = issued /\ exchanged' = exchanged /\ restores' = restores

\* Session and token NextNumber are issued to u, the state being x before.
Issues(x, u, c, f) ==
  /\ u \in Users /\ c \in Clients /\ f \in 1 .. NextNumber
  /\ u \notin db.disabled
  /\ Len(issued) < MaxIssued
  /\ issued' = Append(issued, [user |-> u, client |-> c, family |-> f])
  /\ db' = createSessionBundle(x, NextNumber, <<u, c>>)
  /\ replayed' = replayed /\ ended' = ended /\ restores' = restores

LogsIn == \E u \in Users, c \in Clients :
  Issues(db, u, c, NextNumber) /\ exchanged' = exchanged

Rotates(n) == \E c \in Clients :
  /\ n \in Usable(db)
  /\ Issues(markUsed(db, n), issued[n].user, c, issued[n].family)
  /\ exchanged' = [exchanged EXCEPT ![n] = @ + 1]

\* A state there was is back.
Restores ==
  /\ db' \in States
  /\ restores' = restores + 1 /\ restores' <= MaxRestores
  /\ UNCHANGED history

LEMMA NarrowKinds ==
  ASSUME TypeOK, NEW n \in 1 .. Len(issued),
         \/ RefreshReplayed(n) \/ RefreshDisabled(n) \/ Request(n) \/ SessionExpires(n)
         \/ Logout(n) \/ RevokeLive(n) \/ RevokeDead(n)
  PROVE  Narrows /\ Fits(db')
<1>1. Fits(db) /\ Device(n) \in Devices
  BY DeviceType DEF TypeOK, States
<1>. DEFINE x == rememberDevice(db, n, Device(n))
<1>2. /\ Fits(x) /\ x.known = db.known /\ x.used = db.used /\ x.revoked = db.revoked
      /\ x.live = db.live /\ x.disabled = db.disabled
  BY <1>1, RememberFits DEF rememberDevice, Fits, State
<1>. HIDE DEF x
<1>3. ASSUME NEW d, Fits(d)
      PROVE  LET e == revokeSession(d, n) IN
             /\ Fits(e) /\ e.known = d.known /\ e.used = d.used /\ d.revoked \subseteq e.revoked
             /\ e.live \subseteq d.live /\ e.disabled = d.disabled
  BY <1>3, RevokeFits DEF revokeSession, revokeRefreshTokensForSession, Fits, State
<1>4. /\ Fits(revokeRefreshTokenFamily(db, n))
      /\ revokeRefreshTokenFamily(db, n) = [db EXCEPT !.revoked = @ \cup Family(db, n)]
  BY <1>1, RevokeFits DEF revokeRefreshTokenFamily
<1>5. CASE RefreshReplayed(n) \/ RefreshDisabled(n)
  <2>1. db' = revokeRefreshTokenFamily(db, n) /\ restores' = restores
        /\ issued' = issued /\ exchanged' = exchanged
    BY <1>5, SavedStates DEF RefreshReplayed, RefreshDisabled, history
  <2>. QED
    BY <1>1, <1>4, <2>1 DEF Narrows, Fits, State
<1>6. CASE Request(n)
  <2>1. db' = x /\ restores' = restores /\ issued' = issued /\ exchanged' = exchanged
    BY <1>6, UnsavedStates DEF Request, history, x
  <2>. QED
    BY <1>2, <2>1 DEF Narrows, Fits
<1>7. CASE SessionExpires(n)
  <2>1. db' = [db EXCEPT !.live = @ \ {n}] /\ restores' = restores
        /\ issued' = issued /\ exchanged' = exchanged
    BY <1>7, UnsavedStates DEF SessionExpires, history
  <2>. QED
    BY <1>1, <2>1 DEF Narrows, Fits, State
<1>8. CASE Logout(n)
  <2>1. db' = revokeSession(x, n) /\ restores' = restores /\ issued' = issued /\ exchanged' = exchanged
    BY <1>8, SavedStates DEF Logout, Ends, x
  <2>. QED
    BY <1>2, <1>3, <2>1 DEF Narrows, Fits
<1>9. CASE RevokeLive(n)
  <2>1. db' = revokeSession(db, n) /\ restores' = restores /\ issued' = issued /\ exchanged' = exchanged
    BY <1>9, SavedStates DEF RevokeLive, Ends
  <2>. QED
    BY <1>1, <1>3, <2>1 DEF Narrows, Fits
<1>10. CASE RevokeDead(n)
  <2>1. db' = revokeRefreshTokensForSession(db, n) /\ restores' = restores
        /\ issued' = issued /\ exchanged' = exchanged
    BY <1>10, UnsavedStates DEF RevokeDead, history
  <2>2. Fits(db')
    BY <1>1, <2>1, RevokeFits
  <2>. QED
    BY <1>1, <2>1, <2>2 DEF Narrows, Fits, State, revokeRefreshTokensForSession
<1>. QED
  BY <1>5, <1>6, <1>7, <1>8, <1>9, <1>10

LEMMA AdminKinds ==
  ASSUME TypeOK,
         \/ Refused \/ TxnOpens \/ TxnCommits \/ UNCHANGED vars
         \/ \E u \in Users : Disable(u) \/ Enable(u)
  PROVE  Narrows /\ Fits(db') /\ UNCHANGED history
<1>1. Fits(db)
  BY DEF TypeOK, States
<1>2. CASE Refused \/ TxnOpens \/ TxnCommits \/ UNCHANGED vars
  <2>1. db' = db /\ restores' = restores /\ UNCHANGED history
    BY <1>2, SavedStates DEF Refused, TxnOpens, TxnCommits, vars, history
  <2>. QED
    BY <1>1, <2>1 DEF Narrows, Fits, history
<1>3. ASSUME NEW u \in Users, Disable(u)
      PROVE  Narrows /\ Fits(db') /\ UNCHANGED history
  <2>1. /\ db' = [db EXCEPT !.disabled = @ \cup {u},
                           !.live = {n \in @ : issued[n].user # u}]
        /\ restores' = restores /\ UNCHANGED history
    BY <1>3, SavedStates DEF Disable
  <2>2. /\ db'.disabled = db.disabled \cup {u} /\ db'.live = {n \in db.live : issued[n].user # u}
        /\ db'.known = db.known /\ db'.used = db.used /\ db'.revoked = db.revoked
    BY <1>1, <2>1 DEF Fits, State
  <2>3. db.disabled \cup {u} \in SUBSET Users /\ {n \in db.live : issued[n].user # u} \in SUBSET Numbers
    BY <1>1 DEF Fits, State
  <2>4. db' \in State
    BY <1>1, <2>1, <2>3 DEF Fits, State
  <2>. QED
    BY <1>1, <2>1, <2>2, <2>4 DEF Narrows, Fits, history
<1>4. ASSUME NEW u \in Users, Enable(u)
      PROVE  Narrows /\ Fits(db') /\ UNCHANGED history
  <2>1. db' = [db EXCEPT !.disabled = @ \ {u}] /\ restores' = restores /\ UNCHANGED history
    BY <1>4, SavedStates DEF Enable
  <2>. QED
    BY <1>1, <2>1 DEF Narrows, Fits, State, history
<1>. QED
  BY <1>2, <1>3, <1>4

LEMMA IssueKinds ==
  ASSUME TypeOK
  PROVE  /\ (\E u \in Users, c \in Clients : FederatedLogin(u, c)) => LogsIn
         /\ \A n \in 1 .. Len(issued) :
              (\E c \in Clients : RefreshRotates(n, c)) => Rotates(n)
<1>1. NextNumber \in 1 .. NextNumber
  BY Counts DEF NextNumber
<1>2. ASSUME NEW u \in Users, NEW c \in Clients, FederatedLogin(u, c)
      PROVE  LogsIn
  <2>1. db' = createSessionBundle(db, NextNumber, <<u, c>>) /\ restores' = restores
    BY <1>2, SavedStates DEF FederatedLogin
  <2>2. Issues(db, u, c, NextNumber) /\ exchanged' = exchanged
    BY <1>1, <1>2, <2>1 DEF FederatedLogin, Issue, Issues
  <2>. QED
    BY <2>2 DEF LogsIn
<1>3. ASSUME NEW n \in 1 .. Len(issued), NEW c \in Clients, RefreshRotates(n, c)
      PROVE  Rotates(n)
  <2>1. /\ db' = createSessionBundle(markUsed(db, n), NextNumber, <<issued[n].user, c>>)
        /\ restores' = restores
    BY <1>3, SavedStates DEF RefreshRotates
  <2>2. issued[n].user \in Users /\ issued[n].family \in 1 .. NextNumber
    <3>1. issued[n].user \in Users /\ issued[n].family \in 1 .. MaxIssued
      BY DeviceType DEF Owner, Numbers
    <3>2. issued[n].family <= n
      BY DEF TypeOK
    <3>. QED
      BY <3>1, <3>2, Counts DEF NextNumber
  <2>3. Issues(markUsed(db, n), issued[n].user, c, issued[n].family)
    BY <1>3, <2>1, <2>2 DEF RefreshRotates, Issue, Issues
  <2>. QED
    BY <1>3, <2>3 DEF RefreshRotates, Rotates
<1>. QED
  BY <1>2, <1>3

LEMMA RestoreKinds ==
  ASSUME TypeOK, rollbackTransaction \/ Crash
  PROVE  Restores
BY SessionsAssumption DEF TypeOK, rollbackTransaction, Crash, Restores, States, history

LEMMA StepKind ==
  ASSUME TypeOK, [Next]_vars
  PROVE  \/ Narrows /\ Fits(db')
         \/ LogsIn
         \/ \E n \in 1 .. Len(issued) : Rotates(n)
         \/ Restores
BY NarrowKinds, AdminKinds, IssueKinds, RestoreKinds DEF Next

LEMMA KeepsStates ==
  ASSUME TypeOK, [Next]_vars
  PROVE  StatesKept
<1>1. CASE TxnOpens \/ TxnCommits \/ rollbackTransaction \/ Crash \/ UNCHANGED vars
  BY <1>1 DEF TxnOpens, TxnCommits, rollbackTransaction, Crash, vars, history, States, StatesKept
<1>2. ASSUME NEW x, Saved(x), snapshot # NoSnapshot => replayed' = replayed /\ ended' = ended
      PROVE  StatesKept
  BY <1>2, SavedStates DEF StatesKept
<1>3. ASSUME NEW x, Unsaved(x), replayed' = replayed, ended' = ended
      PROVE  StatesKept
  BY <1>3, UnsavedStates DEF StatesKept
<1>4. CASE Refused
  BY <1>2, <1>4 DEF Refused, history
<1>5. ASSUME NEW u \in Users, Disable(u) \/ Enable(u) \/ \E c \in Clients : FederatedLogin(u, c)
      PROVE  StatesKept
  BY <1>2, <1>5 DEF Disable, Enable, FederatedLogin, history
<1>6. ASSUME NEW n \in 1 .. Len(issued),
             \/ \E c \in Clients : RefreshRotates(n, c)
             \/ RefreshReplayed(n) \/ RefreshDisabled(n) \/ Logout(n) \/ RevokeLive(n)
      PROVE  StatesKept
  BY <1>2, <1>6 DEF RefreshRotates, RefreshReplayed, RefreshDisabled, Logout, RevokeLive, Ends, history
<1>7. ASSUME NEW n \in 1 .. Len(issued), Request(n) \/ SessionExpires(n) \/ RevokeDead(n)
      PROVE  StatesKept
  BY <1>3, <1>7 DEF Request, SessionExpires, RevokeDead, history
<1>. QED
  BY <1>1, <1>4, <1>5, <1>6, <1>7 DEF Next

(***************************************************************************)
(* Type correctness.                                                       *)
(***************************************************************************)
\* A new owner is appended; the old ones stay.
LEMMA Appended ==
  ASSUME TypeOK, NEW x, NEW u, NEW c, NEW f, Issues(x, u, c, f)
  PROVE  /\ issued' \in Seq(Owner) /\ Len(issued') = NextNumber /\ NextNumber <= MaxIssued
         /\ NextNumber \in Numbers /\ <<u, c>> \in Devices
         /\ NextNumber \in Nat /\ NextNumber = Len(issued) + 1 /\ Len(issued) \in Nat
         /\ \A n \in 1 .. Len(issued) : n < NextNumber /\ issued'[n] = issued[n]
         /\ issued'[NextNumber].user = u /\ issued'[NextNumber].client = c
         /\ issued'[NextNumber].family = f
<1>. DEFINE o == [user |-> u, client |-> c, family |-> f]
<1>1. o \in Owner /\ <<u, c>> \in Devices
  <2>1. f \in Numbers
    BY Counts DEF Issues, NextNumber, Numbers
  <2>. QED
    BY <2>1 DEF Issues, Owner, Devices
<1>2. issued' = Append(issued, o) /\ Len(issued) < MaxIssued
  BY DEF Issues
<1>. HIDE DEF o
<1>3. /\ issued' \in Seq(Owner) /\ Len(issued') = NextNumber /\ issued'[NextNumber] = o
      /\ \A n \in 1 .. Len(issued) : n < NextNumber /\ issued'[n] = issued[n]
  BY <1>1, <1>2, Counts DEF NextNumber
<1>4. NextNumber \in Numbers /\ NextNumber <= MaxIssued
  BY <1>2, Counts DEF NextNumber, Numbers
<1>5. NextNumber \in Nat /\ NextNumber = Len(issued) + 1 /\ Len(issued) \in Nat
  BY Counts DEF NextNumber
<1>. QED
  BY <1>1, <1>2, <1>3, <1>4, <1>5 DEF o

\* The state a token is issued in, before and after.
LEMMA IssuedFields ==
  ASSUME TypeOK, NEW x, NEW u, NEW c, NEW f, Issues(x, u, c, f), Fits(x)
  PROVE  /\ db' \in State /\ Bundled(x, db', NextNumber)
         /\ db'.seen = [x.seen EXCEPT ![<<u, c>>] = NextNumber]
         /\ db'.gone = x.gone \ {<<u, c>>}
<1>1. x \in State /\ db' = createSessionBundle(x, NextNumber, <<u, c>>)
  BY DEF Fits, Issues
<1>2. NextNumber \in Numbers /\ <<u, c>> \in Devices
  BY Appended
<1>3. \A v \in Devices : \A e : e = createSessionBundle(x, NextNumber, v) =>
        /\ e \in State /\ Bundled(x, e, NextNumber)
        /\ e.seen = [x.seen EXCEPT ![v] = NextNumber] /\ e.gone = x.gone \ {v}
  BY <1>1, <1>2, BundleFields
<1>. QED
  BY <1>1, <1>2, <1>3

LEMMA MarkedFits ==
  ASSUME NEW n, n \in Usable(db), Fits(db)
  PROVE  /\ Fits(markUsed(db, n)) /\ n \in 1 .. Len(issued)
         /\ markUsed(db, n).known = db.known /\ markUsed(db, n).used = db.used \cup {n}
         /\ markUsed(db, n).revoked = db.revoked /\ markUsed(db, n).live = db.live
         /\ markUsed(db, n).disabled = db.disabled
         /\ markUsed(db, n).seen = db.seen /\ markUsed(db, n).gone = db.gone
<1>1. n \in db.known /\ n \in 1 .. Len(issued) /\ n \in Numbers
  BY DEF Usable, Fits, State
<1>2. markUsed(db, n) = [db EXCEPT !.used = @ \cup {n}] /\ db.used \cup {n} \in SUBSET Numbers
  BY <1>1 DEF markUsed, Fits, State
<1>3. markUsed(db, n) \in State
  BY <1>2 DEF Fits, State
<1>. QED
  BY <1>1, <1>2, <1>3 DEF Fits, State

LEMMA DiskKept ==
  ASSUME [Next]_vars
  PROVE  disk' = disk \/ disk' = toPersistedState(db')
<1>1. ASSUME NEW x, Saved(x) \/ Unsaved(x) PROVE disk' = disk \/ disk' = toPersistedState(db')
  BY <1>1 DEF Saved, Unsaved
<1>. QED
  BY <1>1 DEF Next, vars, TxnOpens, TxnCommits, rollbackTransaction, Crash, Refused, Disable,
              Enable, FederatedLogin, RefreshRotates, RefreshReplayed, RefreshDisabled, Request,
              SessionExpires, Logout, RevokeLive, RevokeDead

\* Promises are about what was issued.
LEMMA PromisesKept ==
  ASSUME TypeOK, [Next]_vars
  PROVE  replayed' \cup ended' \subseteq 1 .. Len(issued)
<1>1. replayed \cup ended \subseteq 1 .. Len(issued)
  BY DEF TypeOK
<1>2. ASSUME NEW n \in 1 .. Len(issued)
      PROVE  issued[n].family \in 1 .. Len(issued)
  <2>1. issued[n].family \in 1 .. MaxIssued
    BY DeviceType DEF Owner, Numbers
  <2>. QED
    BY <2>1, Counts DEF TypeOK
<1>3. CASE UNCHANGED <<replayed, ended>>
  BY <1>1, <1>3
<1>4. ASSUME NEW n \in 1 .. Len(issued), RefreshReplayed(n) \/ Logout(n) \/ RevokeLive(n)
      PROVE  replayed' \cup ended' \subseteq 1 .. Len(issued)
  BY <1>1, <1>2, <1>4 DEF RefreshReplayed, Logout, RevokeLive, Ends
<1>. QED
  BY <1>3, <1>4 DEF Next, vars, history, TxnOpens, TxnCommits, rollbackTransaction, Crash, Refused,
              Disable, Enable, FederatedLogin, RefreshRotates, RefreshDisabled, Request,
              SessionExpires, RevokeDead

LEMMA TypeInductive == TypeOK /\ [Next]_vars => TypeOK'
<1>. SUFFICES ASSUME TypeOK, [Next]_vars
     PROVE  TypeOK'
  OBVIOUS
<1>1. Fits(db) /\ \A d \in States : Fits(d)
  BY DEF TypeOK, States
<1>. DEFINE FitsNow(d) == /\ d \in State
                         /\ d.live \cup d.known \subseteq 1 .. Len(issued')
                         /\ d.used \cup d.revoked \subseteq d.known
<1>2. ASSUME /\ issued' \in Seq(Owner) /\ Len(issued') <= MaxIssued
             /\ \A n \in 1 .. Len(issued') : issued'[n].family <= n
             /\ Len(issued) <= Len(issued')
             /\ FitsNow(db')
             /\ exchanged' \in [Numbers -> Nat] /\ restores' \in 0 .. MaxRestores
      PROVE  TypeOK'
  <2>1. \A d \in States : FitsNow(d)
    BY <1>1, <1>2, Counts DEF Fits
  <2>2. FitsNow(toPersistedState(db')) 
    BY <1>2 DEF State, toPersistedState
  <2>3. \A d \in States' : FitsNow(d)
    BY <1>2, <2>1, <2>2, KeepsStates DEF StatesKept
  <2>4. disk'.live = {}
    <3>1. disk.live = {} /\ toPersistedState(db').live = {}
      BY <1>2 DEF TypeOK, State, toPersistedState
    <3>. QED
      BY <3>1, DiskKept
  <2>5. replayed' \cup ended' \subseteq 1 .. Len(issued')
    BY <1>2, PromisesKept, Counts
  <2>. QED
    BY <1>2, <2>3, <2>4, <2>5 DEF TypeOK, Fits
<1>3. /\ exchanged \in [Numbers -> Nat] /\ restores \in 0 .. MaxRestores
      /\ issued \in Seq(Owner) /\ Len(issued) <= MaxIssued /\ Len(issued) \in Nat
      /\ \A n \in 1 .. Len(issued) : issued[n].family <= n
  BY Counts DEF TypeOK
<1>4. CASE Narrows /\ Fits(db')
  BY <1>2, <1>3, <1>4 DEF Narrows, Fits
<1>5. CASE Restores
  <2>1. restores' \in 0 .. MaxRestores
    BY <1>3, <1>5, SessionsAssumption DEF Restores
  <2>2. FitsNow(db') /\ issued' = issued /\ exchanged' = exchanged
    BY <1>1, <1>5 DEF Restores, Fits, history
  <2>. QED
    BY <1>2, <1>3, <2>1, <2>2
<1>6. ASSUME NEW x, NEW u, NEW c, NEW f, Issues(x, u, c, f), Fits(x),
             exchanged' \in [Numbers -> Nat]
      PROVE  TypeOK'
  <2>1. db' \in State /\ Bundled(x, db', NextNumber)
    BY <1>6, IssuedFields
  <2>2. /\ issued' \in Seq(Owner) /\ Len(issued') = NextNumber /\ NextNumber <= MaxIssued
        /\ NextNumber = Len(issued) + 1
    BY <1>6, Appended DEF NextNumber
  <2>3. FitsNow(db')
    BY <1>3, <1>6, <2>1, <2>2 DEF Bundled, Fits
  <2>4. \A n \in 1 .. Len(issued') : issued'[n].family <= n
    <3>1. issued'[NextNumber].family <= NextNumber
      BY <1>6, Appended DEF Issues
    <3>2. ASSUME NEW n \in 1 .. Len(issued) PROVE issued'[n].family <= n
      BY <1>3, <1>6, Appended
    <3>. QED
      BY <1>3, <2>2, <3>1, <3>2
  <2>5. restores' \in 0 .. MaxRestores
    BY <1>3, <1>6 DEF Issues
  <2>. QED
    BY <1>2, <1>3, <1>6, <2>2, <2>3, <2>4, <2>5
<1>7. CASE LogsIn
  BY <1>1, <1>3, <1>6, <1>7 DEF LogsIn
<1>8. ASSUME NEW n \in 1 .. Len(issued), Rotates(n)
      PROVE  TypeOK'
  <2>1. exchanged' \in [Numbers -> Nat]
    BY <1>3, <1>8, DeviceType DEF Rotates
  <2>. QED
    BY <1>1, <1>6, <1>8, <2>1, MarkedFits DEF Rotates
<1>. QED
  BY <1>4, <1>5, <1>7, <1>8, StepKind

\* Sessions, token records and promises are always of what was issued, and
\* sessions never reach the disk.
THEOREM TypeCorrect == Spec => []TypeOK
<1>1. Init => TypeOK
  BY SessionsAssumption DEF Init, TypeOK, States, Fits, State, Numbers
<1>. QED
  BY <1>1, TypeInductive, PTL DEF Spec

(***************************************************************************)
(* Owners are never rewritten.                                             *)
(***************************************************************************)
LEMMA OwnersKept ==
  ASSUME TypeOK, [Next]_vars
  PROVE  /\ Len(issued) <= Len(issued') /\ Len(issued) \in Nat
         /\ \A n \in 1 .. Len(issued) : n \in 1 .. Len(issued') /\ issued'[n] = issued[n]
<1>1. CASE issued' = issued
  BY <1>1, Counts
<1>2. ASSUME NEW x, NEW u, NEW c, NEW f, Issues(x, u, c, f)
      PROVE  /\ Len(issued) <= Len(issued') /\ Len(issued) \in Nat
             /\ \A n \in 1 .. Len(issued) : n \in 1 .. Len(issued') /\ issued'[n] = issued[n]
  <2>1. /\ Len(issued') = NextNumber /\ NextNumber = Len(issued) + 1 /\ Len(issued) \in Nat
        /\ \A n \in 1 .. Len(issued) : issued'[n] = issued[n]
    BY <1>2, Appended
  <2>2. Len(issued') = Len(issued) + 1
    BY <2>1
  <2>. QED
    BY <2>1, <2>2
<1>. QED
  BY <1>1, <1>2, StepKind DEF Narrows, Restores, history, LogsIn, Rotates

(***************************************************************************)
(* What can be used after a step: nothing but what could be used before,   *)
(* the new token, or the tokens of a state that is back.                   *)
(***************************************************************************)
LEMMA UsableAfterIssue ==
  ASSUME NEW x, NEW e, NEW n, Bundled(x, e, n)
  PROVE  Usable(e) \subseteq Usable(x) \cup {n}
BY DEF Bundled, Usable

LEMMA UsableAfterMark ==
  ASSUME Fits(db), NEW n \in Usable(db)
  PROVE  Usable(markUsed(db, n)) = Usable(db) \ {n}
BY MarkedFits DEF Usable

LEMMA UsableNarrows ==
  ASSUME Narrows
  PROVE  Usable(db') \subseteq Usable(db) /\ db'.known = db.known
BY DEF Narrows, Usable

LEMMA UsableSaved ==
  ASSUME NEW d \in State
  PROVE  /\ Usable(toPersistedState(d)) = Usable(d)
         /\ toPersistedState(d).known = d.known /\ toPersistedState(d).live = {}
         /\ toPersistedState(d).gone = d.gone
BY DEF State, toPersistedState, Usable

(***************************************************************************)
(* Rotation.                                                               *)
(***************************************************************************)
NewestOnly(d) ==
  \A n \in Usable(d) : \A m \in d.known : issued[m].family = issued[n].family => m <= n

LEMMA NewestInductive == TypeOK /\ UsableIsNewest /\ [Next]_vars => UsableIsNewest'
<1>. SUFFICES ASSUME TypeOK, UsableIsNewest, [Next]_vars
     PROVE  UsableIsNewest'
  OBVIOUS
<1>. DEFINE After(d) == \A n \in Usable(d) : \A m \in d.known :
                          issued'[m].family = issued'[n].family => m <= n
<1>1. \A d \in States : Fits(d) /\ NewestOnly(d)
  BY DEF TypeOK, UsableIsNewest, NewestOnly, Family
<1>2. \A d \in States : After(d)
  <2>. SUFFICES ASSUME NEW d \in States, NEW n \in Usable(d), NEW m \in d.known,
                       issued'[m].family = issued'[n].family
       PROVE  m <= n
    OBVIOUS
  <2>1. n \in 1 .. Len(issued) /\ m \in 1 .. Len(issued)
    BY <1>1 DEF Fits, Usable
  <2>2. issued[m].family = issued[n].family
    BY <2>1, OwnersKept
  <2>. QED
    BY <1>1, <2>2 DEF NewestOnly
<1>3. Fits(db) /\ NewestOnly(db) /\ Fits(db)'
  BY <1>1, TypeInductive DEF States, TypeOK
<1>4. ASSUME NEW x, NEW u, NEW c, NEW f, Issues(x, u, c, f), Fits(x),
             x.known = db.known, Usable(x) \subseteq Usable(db),
             \A n \in Usable(x) : issued[n].family # f
      PROVE  After(db')
  <2>1. /\ Bundled(x, db', NextNumber) /\ Usable(db') \subseteq Usable(x) \cup {NextNumber}
        /\ db'.known \subseteq db.known \cup {NextNumber}
    BY <1>4, IssuedFields, UsableAfterIssue DEF Bundled
  <2>2. db.known \subseteq 1 .. Len(issued) /\ Usable(x) \subseteq 1 .. Len(issued)
    BY <1>3, <1>4 DEF Fits, Usable
  <2>3. /\ issued'[NextNumber].family = f /\ NextNumber \in Nat
        /\ \A k \in 1 .. Len(issued) : k < NextNumber /\ issued'[k] = issued[k]
    <3>1. Issues(x, u, c, f)
      BY <1>4
    <3>2. issued'[NextNumber].family = f /\ NextNumber \in Nat
      BY <3>1, Appended
    <3>3. \A k \in 1 .. Len(issued) : k < NextNumber /\ issued'[k] = issued[k]
      BY <3>1, Appended
    <3>. QED
      BY <3>2, <3>3
  <2>. SUFFICES ASSUME NEW n \in Usable(db'), NEW m \in db'.known,
                       issued'[m].family = issued'[n].family
       PROVE  m <= n
    OBVIOUS
  <2>4. CASE n = NextNumber
    BY <2>1, <2>2, <2>3, <2>4, Counts
  <2>5. CASE n \in Usable(x) /\ m = NextNumber
    BY <1>4, <2>2, <2>3, <2>5
  <2>6. CASE n \in Usable(x) /\ m \in db.known
    <3>1. issued[m].family = issued[n].family
      BY <2>2, <2>3, <2>6
    <3>. QED
      BY <1>3, <1>4, <2>6, <3>1 DEF NewestOnly
  <2>. QED
    BY <2>1, <2>4, <2>5, <2>6
<1>5. After(db')
  <2>1. CASE Narrows
    <3>1. Usable(db') \subseteq Usable(db) /\ db'.known = db.known /\ issued' = issued
      BY <2>1, UsableNarrows DEF Narrows
    <3>. QED
      BY <1>3, <3>1 DEF NewestOnly
  <2>2. CASE LogsIn
    <3>1. \A n \in Usable(db) : issued[n].family # NextNumber
      <4>1. ASSUME NEW n \in Usable(db) PROVE n \in 1 .. Len(issued)
        BY <1>3 DEF Fits, Usable
      <4>2. ASSUME NEW n \in 1 .. Len(issued) PROVE issued[n].family # NextNumber
        <5>1. issued[n].family \in Numbers /\ issued[n].family <= n /\ Len(issued) \in Nat
          BY DeviceType, Counts DEF TypeOK, Owner
        <5>. QED
          BY <5>1 DEF NextNumber, Numbers
      <4>. QED
        BY <4>1, <4>2
    <3>. QED
      BY <1>3, <1>4, <2>2, <3>1 DEF LogsIn
  <2>3. ASSUME NEW n \in 1 .. Len(issued), Rotates(n)
        PROVE  After(db')
    <3>1. n \in Usable(db)
      BY <2>3 DEF Rotates
    <3>2. /\ Fits(markUsed(db, n)) /\ markUsed(db, n).known = db.known
          /\ Usable(markUsed(db, n)) = Usable(db) \ {n}
      BY <1>3, <3>1, MarkedFits, UsableAfterMark
    <3>3. ASSUME NEW k \in Usable(db) \ {n}, issued[k].family = issued[n].family
          PROVE  FALSE
      <4>1. k <= n /\ n <= k /\ k \in Nat /\ n \in Nat
        BY <1>3, <3>1, <3>3 DEF NewestOnly, Usable, Fits
      <4>. QED
        BY <3>3, <4>1
    <3>. QED
      BY <1>4, <2>3, <3>2, <3>3 DEF Rotates
  <2>4. CASE Restores
    BY <1>2, <2>4 DEF Restores
  <2>. QED
    BY <2>1, <2>2, <2>3, <2>4, StepKind
<1>6. After(toPersistedState(db'))
  BY <1>3, <1>5, UsableSaved DEF Fits
<1>7. \A d \in States' : After(d)
  BY <1>2, <1>5, <1>6, KeepsStates DEF StatesKept
<1>. QED
  BY <1>7 DEF UsableIsNewest, Family, Usable

\* In memory, on disk and in a snapshot, only the newest token of a family can
\* be exchanged.
THEOREM Rotation == Spec => []UsableIsNewest
<1>1. Init => UsableIsNewest
  BY DEF Init, UsableIsNewest, States, Usable
<1>. QED
  BY <1>1, TypeCorrect, NewestInductive, PTL DEF Spec

(***************************************************************************)
(* One exchange, and one more for each restore: a token that can be used   *)
(* was exchanged no more often than the state was restored.                *)
(***************************************************************************)
ExchangeInv ==
  \A n \in Numbers : /\ exchanged[n] <= 1 + restores
                     /\ n \in Usable(db) => exchanged[n] <= restores
                     /\ n > Len(issued) => exchanged[n] = 0

LEMMA ExchangeInductive == TypeOK /\ ExchangeInv /\ [Next]_vars => ExchangeInv'
<1>. SUFFICES ASSUME TypeOK, ExchangeInv, [Next]_vars
     PROVE  ExchangeInv'
  OBVIOUS
<1>1. /\ Fits(db) /\ exchanged \in [Numbers -> Nat] /\ restores \in Nat
      /\ Len(issued) \in Nat /\ Len(issued) <= Len(issued') /\ Len(issued') \in Nat
  BY OwnersKept, TypeInductive, Counts, SessionsAssumption DEF TypeOK, States
<1>2. \A n \in Numbers : n \in Nat
  BY DEF Numbers
<1>3. CASE Narrows
  BY <1>1, <1>2, <1>3, UsableNarrows DEF ExchangeInv, Narrows
<1>4. CASE Restores
  BY <1>1, <1>2, <1>4 DEF ExchangeInv, Restores, history
<1>5. ASSUME NEW x, NEW u, NEW c, NEW f, Issues(x, u, c, f), Fits(x)
      PROVE  /\ restores' = restores /\ Len(issued') = NextNumber /\ NextNumber = Len(issued) + 1
             /\ Usable(db') \subseteq Usable(x) \cup {NextNumber}
  <2>1. Len(issued') = NextNumber /\ NextNumber = Len(issued) + 1
    BY <1>5, Appended
  <2>2. Bundled(x, db', NextNumber)
    BY <1>5, IssuedFields
  <2>. QED
    BY <1>5, <2>1, <2>2, UsableAfterIssue DEF Issues
<1>6. CASE LogsIn
  <2>1. /\ exchanged' = exchanged
        /\ restores' = restores /\ Len(issued') = NextNumber /\ NextNumber = Len(issued) + 1
        /\ Usable(db') \subseteq Usable(db) \cup {NextNumber}
    BY <1>1, <1>5, <1>6 DEF LogsIn
  <2>. QED
    BY <1>1, <1>2, <2>1 DEF ExchangeInv
<1>7. ASSUME NEW k \in 1 .. Len(issued), Rotates(k)
      PROVE  ExchangeInv'
  <2>1. k \in Usable(db) /\ exchanged' = [exchanged EXCEPT ![k] = @ + 1] /\ k \in Numbers
    BY <1>7, DeviceType DEF Rotates
  <2>2. Fits(markUsed(db, k)) /\ Usable(markUsed(db, k)) = Usable(db) \ {k}
    BY <1>1, <2>1, MarkedFits, UsableAfterMark
  <2>3. /\ restores' = restores /\ Len(issued') = NextNumber /\ NextNumber = Len(issued) + 1
        /\ Usable(db') \subseteq (Usable(db) \ {k}) \cup {NextNumber}
    BY <1>5, <1>7, <2>2 DEF Rotates
  <2>4. ASSUME NEW n \in Numbers, n # k
        PROVE  exchanged'[n] = exchanged[n]
    BY <1>1, <2>1, <2>4
  <2>5. exchanged'[k] = exchanged[k] + 1 /\ exchanged[k] <= restores /\ exchanged[k] \in Nat
    BY <1>1, <2>1 DEF ExchangeInv
  <2>6. k <= Len(issued) /\ k # NextNumber
    BY <1>1, <2>3
  <2>7. ASSUME NEW n \in Numbers
        PROVE  /\ exchanged'[n] <= 1 + restores'
               /\ n \in Usable(db') => exchanged'[n] <= restores'
               /\ n > Len(issued') => exchanged'[n] = 0
    <3>1. CASE n = k
      BY <1>1, <2>3, <2>5, <2>6, <3>1
    <3>2. CASE n # k
      <4>1. /\ exchanged[n] <= 1 + restores /\ exchanged[n] \in Nat /\ n \in Nat
            /\ n \in Usable(db) => exchanged[n] <= restores
            /\ n > Len(issued) => exchanged[n] = 0
        BY <1>1, <1>2 DEF ExchangeInv
      <4>. QED
        BY <1>1, <2>3, <2>4, <3>2, <4>1
    <3>. QED
      BY <3>1, <3>2
  <2>. QED
    BY <2>7 DEF ExchangeInv
<1>. QED
  BY <1>3, <1>4, <1>6, <1>7, StepKind

\* A token is exchanged once, and once more at most for each restore.
THEOREM OneExchange == Spec => []ExchangedOncePerRestore
<1>1. Init => ExchangeInv
  BY DEF Init, ExchangeInv, Usable
<1>2. ExchangeInv => ExchangedOncePerRestore
  BY DEF ExchangeInv, ExchangedOncePerRestore
<1>. QED
  BY <1>1, <1>2, TypeCorrect, ExchangeInductive, PTL DEF Spec

(***************************************************************************)
(* Promises.  One is added only when no transaction is open, and the step  *)
(* that adds it makes it true of the state in memory.                      *)
(***************************************************************************)
LEMMA ReplayedStep ==
  ASSUME TypeOK, [Next]_vars
  PROVE  \/ replayed' = replayed
         \/ \E n \in 1 .. Len(issued) :
              /\ db' = revokeRefreshTokenFamily(db, n)
              /\ issued' = issued
              /\ replayed' = replayed \cup {issued[n].family}
<1>1. ASSUME NEW n \in 1 .. Len(issued), RefreshReplayed(n)
      PROVE  \/ replayed' = replayed
             \/ /\ db' = revokeRefreshTokenFamily(db, n)
                /\ issued' = issued
                /\ replayed' = replayed \cup {issued[n].family}
  BY <1>1, SavedStates DEF RefreshReplayed
<1>. QED
  BY <1>1 DEF Next, vars, history, TxnOpens, TxnCommits, rollbackTransaction, Crash, Refused,
              Disable, Enable, FederatedLogin, RefreshRotates, RefreshDisabled, Request,
              SessionExpires, Logout, RevokeLive, RevokeDead, Ends

LEMMA EndedStep ==
  ASSUME TypeOK, [Next]_vars
  PROVE  \/ ended' = ended
         \/ \E n \in 1 .. Len(issued) : \E d :
              /\ Fits(d) /\ d.known = db.known /\ d.used = db.used /\ d.revoked = db.revoked
              /\ d.live = db.live
              /\ db' = revokeSession(d, n)
              /\ ended' = ended \cup {n}
<1>1. ASSUME NEW n \in 1 .. Len(issued), Logout(n) \/ RevokeLive(n)
      PROVE  \E d : /\ Fits(d) /\ d.known = db.known /\ d.used = db.used
                    /\ d.revoked = db.revoked /\ d.live = db.live
                    /\ db' = revokeSession(d, n)
  <2>1. Fits(db) /\ Device(n) \in Devices
    BY DeviceType DEF TypeOK, States
  <2>. DEFINE x == rememberDevice(db, n, Device(n))
  <2>2. /\ Fits(x) /\ x.known = db.known /\ x.used = db.used /\ x.revoked = db.revoked
        /\ x.live = db.live
    BY <2>1, RememberFits DEF rememberDevice, Fits, State
  <2>3. db' = revokeSession(x, n) \/ db' = revokeSession(db, n)
    BY <1>1, SavedStates DEF Logout, RevokeLive
  <2>. QED
    BY <2>1, <2>2, <2>3
<1>2. ASSUME NEW n \in 1 .. Len(issued), Logout(n) \/ RevokeLive(n)
      PROVE  ended' = ended \/ ended' = ended \cup {n}
  BY <1>2 DEF Logout, RevokeLive, Ends
<1>3. CASE \E n \in 1 .. Len(issued) : Logout(n) \/ RevokeLive(n)
  BY <1>1, <1>2, <1>3
<1>4. CASE ~ \E n \in 1 .. Len(issued) : Logout(n) \/ RevokeLive(n)
  BY <1>4 DEF Next, vars, history, TxnOpens, TxnCommits, rollbackTransaction, Crash, Refused,
              Disable, Enable, FederatedLogin, RefreshRotates, RefreshReplayed, RefreshDisabled,
              Request, SessionExpires, RevokeDead
<1>. QED
  BY <1>3, <1>4

(***************************************************************************)
(* Replay.                                                                 *)
(***************************************************************************)
LEMMA ReplayInductive == TypeOK /\ ReplayEndsFamily /\ [Next]_vars => ReplayEndsFamily'
<1>. SUFFICES ASSUME TypeOK, ReplayEndsFamily, [Next]_vars
     PROVE  ReplayEndsFamily'
  OBVIOUS
<1>. DEFINE After(d) == \A n \in Usable(d) : issued'[n].family \notin replayed'
<1>1. /\ Fits(db) /\ Fits(db)' /\ Usable(db) \subseteq 1 .. Len(issued)
      /\ \A n \in Usable(db) : issued[n].family \notin replayed
  BY TypeInductive DEF TypeOK, States, ReplayEndsFamily, Fits, Usable
<1>2. ASSUME NEW d \in States, replayed' = replayed
      PROVE  After(d)
  <2>1. \A n \in Usable(d) : n \in 1 .. Len(issued) /\ issued[n].family \notin replayed
    BY DEF TypeOK, Fits, Usable, ReplayEndsFamily
  <2>. QED
    BY <1>2, <2>1, OwnersKept
<1>3. ASSUME NEW x, NEW u, NEW c, NEW f, Issues(x, u, c, f), Fits(x),
             Usable(x) \subseteq Usable(db), f \notin replayed
      PROVE  After(db')
  <2>1. Bundled(x, db', NextNumber)
    BY <1>3, IssuedFields
  <2>2. Usable(db') \subseteq Usable(db) \cup {NextNumber}
    BY <1>3, <2>1, UsableAfterIssue
  <2>3. Issues(x, u, c, f) /\ replayed' = replayed
    BY <1>3 DEF Issues
  <2>4. issued'[NextNumber].family = f
    BY <2>3, Appended
  <2>. QED
    BY <1>1, <1>3, <2>2, <2>3, <2>4, OwnersKept
<1>4. After(db')
  <2>1. CASE Narrows
    <3>1. Usable(db') \subseteq Usable(db) /\ db'.known = db.known /\ issued' = issued
      BY <2>1, UsableNarrows DEF Narrows
    <3>2. CASE replayed' = replayed
      BY <1>1, <3>1, <3>2
    <3>3. ASSUME NEW n \in 1 .. Len(issued), db' = revokeRefreshTokenFamily(db, n),
                 replayed' = replayed \cup {issued[n].family}
          PROVE  After(db')
      <4>1. \A m \in Usable(db') : m \in db.known /\ issued[m].family # issued[n].family
        BY <1>1, <3>3 DEF revokeRefreshTokenFamily, Family, Usable, Fits, State
      <4>. QED
        BY <1>1, <3>1, <3>3, <4>1
    <3>. QED
      BY <3>2, <3>3, ReplayedStep
  <2>2. CASE LogsIn
    <3>1. NextNumber \notin replayed
      BY Counts DEF TypeOK, NextNumber
    <3>. QED
      BY <1>1, <1>3, <2>2, <3>1 DEF LogsIn
  <2>3. ASSUME NEW n \in 1 .. Len(issued), Rotates(n)
        PROVE  After(db')
    <3>1. n \in Usable(db)
      BY <2>3 DEF Rotates
    <3>2. Fits(markUsed(db, n)) /\ Usable(markUsed(db, n)) \subseteq Usable(db)
      BY <1>1, <3>1, MarkedFits, UsableAfterMark
    <3>. QED
      BY <1>1, <1>3, <2>3, <3>1, <3>2 DEF Rotates
  <2>4. CASE Restores
    BY <1>2, <2>4 DEF Restores, history
  <2>. QED
    BY <2>1, <2>2, <2>3, <2>4, StepKind
<1>5. After(toPersistedState(db'))
  BY <1>1, <1>4, UsableSaved DEF Fits
<1>6. \A d \in States' : After(d)
  BY <1>2, <1>4, <1>5, KeepsStates DEF StatesKept
<1>. QED
  BY <1>6 DEF ReplayEndsFamily, Usable

\* After a detected replay the family is over, across restarts and rollbacks.
THEOREM Replay == Spec => []ReplayEndsFamily
<1>1. Init => ReplayEndsFamily
  BY DEF Init, ReplayEndsFamily, States, Usable
<1>. QED
  BY <1>1, TypeCorrect, ReplayInductive, PTL DEF Spec

(***************************************************************************)
(* Logout and revocation.                                                  *)
(***************************************************************************)
LEMMA EndedInductive == TypeOK /\ EndedStaysEnded /\ [Next]_vars => EndedStaysEnded'
<1>. SUFFICES ASSUME TypeOK, EndedStaysEnded, [Next]_vars
     PROVE  EndedStaysEnded'
  OBVIOUS
<1>. DEFINE After(d) == ended' \cap (d.live \cup Usable(d)) = {}
<1>1. /\ Fits(db) /\ Fits(db)' /\ ended \subseteq 1 .. Len(issued)
      /\ ended \cap (db.live \cup Usable(db)) = {}
  BY TypeInductive DEF TypeOK, States, EndedStaysEnded
<1>2. ASSUME NEW d \in States, ended' = ended
      PROVE  After(d)
  BY <1>2 DEF EndedStaysEnded
<1>3. ASSUME NEW x, NEW u, NEW c, NEW f, Issues(x, u, c, f), Fits(x),
             Usable(x) \subseteq Usable(db), x.live = db.live
      PROVE  After(db')
  <2>1. Bundled(x, db', NextNumber)
    BY <1>3, IssuedFields
  <2>2. Usable(db') \subseteq Usable(db) \cup {NextNumber} /\ db'.live = db.live \cup {NextNumber}
    BY <1>3, <2>1, UsableAfterIssue DEF Bundled
  <2>3. NextNumber \notin ended
    BY <1>1, Counts DEF NextNumber
  <2>4. ended' = ended
    BY <1>3 DEF Issues
  <2>. QED
    BY <1>1, <2>2, <2>3, <2>4
<1>4. After(db')
  <2>1. CASE Narrows
    <3>1. Usable(db') \subseteq Usable(db) /\ db'.live \subseteq db.live
      BY <2>1, UsableNarrows DEF Narrows
    <3>2. CASE ended' = ended
      BY <1>1, <3>1, <3>2
    <3>3. ASSUME NEW n \in 1 .. Len(issued), NEW d, Fits(d), d.known = db.known, d.used = db.used,
                 d.revoked = db.revoked, d.live = db.live,
                 db' = revokeSession(d, n), ended' = ended \cup {n}
          PROVE  After(db')
      <4>1. n \notin db'.live /\ n \notin Usable(db')
        BY <3>3 DEF revokeSession, revokeRefreshTokensForSession, Usable, Fits, State
      <4>. QED
        BY <1>1, <3>1, <3>3, <4>1
    <3>. QED
      BY <3>2, <3>3, EndedStep
  <2>2. CASE LogsIn
    BY <1>1, <1>3, <2>2 DEF LogsIn
  <2>3. ASSUME NEW n \in 1 .. Len(issued), Rotates(n)
        PROVE  After(db')
    <3>1. n \in Usable(db)
      BY <2>3 DEF Rotates
    <3>2. /\ Fits(markUsed(db, n)) /\ Usable(markUsed(db, n)) \subseteq Usable(db)
          /\ markUsed(db, n).live = db.live
      BY <1>1, <3>1, MarkedFits, UsableAfterMark
    <3>. QED
      BY <1>3, <2>3, <3>2 DEF Rotates
  <2>4. CASE Restores
    BY <1>2, <2>4 DEF Restores, history
  <2>. QED
    BY <2>1, <2>2, <2>3, <2>4, StepKind
<1>5. After(toPersistedState(db'))
  BY <1>1, <1>4, UsableSaved DEF Fits
<1>6. \A d \in States' : After(d)
  BY <1>2, <1>4, <1>5, KeepsStates DEF StatesKept
<1>. QED
  BY <1>6 DEF EndedStaysEnded, Usable

\* A session whose end was acknowledged does not come back, nor its token.
THEOREM Ending == Spec => []EndedStaysEnded
<1>1. Init => EndedStaysEnded
  BY DEF Init, EndedStaysEnded, States, Usable
<1>. QED
  BY <1>1, TypeCorrect, EndedInductive, PTL DEF Spec

(***************************************************************************)
(* Disabled users.                                                         *)
(***************************************************************************)
LEMMA DisabledInductive == TypeOK /\ DisabledHasNoSession /\ [Next]_vars => DisabledHasNoSession'
<1>. SUFFICES ASSUME TypeOK, DisabledHasNoSession, [Next]_vars
     PROVE  DisabledHasNoSession'
  OBVIOUS
<1>. DEFINE After(d) == \A n \in d.live : issued'[n].user \notin d.disabled
<1>1. /\ Fits(db) /\ Fits(db)'
      /\ \A n \in db.live : n \in 1 .. Len(issued) /\ issued[n].user \notin db.disabled
  BY TypeInductive DEF TypeOK, States, DisabledHasNoSession, Fits
<1>2. \A d \in States : After(d)
  <2>1. \A d \in States : \A n \in d.live :
          n \in 1 .. Len(issued) /\ issued[n].user \notin d.disabled
    BY DEF TypeOK, Fits, DisabledHasNoSession
  <2>. QED
    BY <2>1, OwnersKept
<1>3. ASSUME NEW x, NEW u, NEW c, NEW f, Issues(x, u, c, f), Fits(x),
             x.live = db.live, x.disabled = db.disabled
      PROVE  After(db')
  <2>1. Bundled(x, db', NextNumber)
    BY <1>3, IssuedFields
  <2>2. db'.live = db.live \cup {NextNumber} /\ db'.disabled = db.disabled
    BY <1>3, <2>1 DEF Bundled
  <2>3. issued'[NextNumber].user = u
    BY <1>3, Appended
  <2>4. u \notin db.disabled
    BY <1>3 DEF Issues
  <2>. QED
    BY <1>1, <2>2, <2>3, <2>4, OwnersKept
<1>4. After(db')
  <2>1. CASE Narrows
    BY <1>1, <2>1 DEF Narrows
  <2>2. CASE LogsIn
    BY <1>1, <1>3, <2>2 DEF LogsIn
  <2>3. ASSUME NEW n \in 1 .. Len(issued), Rotates(n)
        PROVE  After(db')
    <3>1. n \in Usable(db)
      BY <2>3 DEF Rotates
    <3>2. /\ Fits(markUsed(db, n)) /\ markUsed(db, n).live = db.live
          /\ markUsed(db, n).disabled = db.disabled
      BY <1>1, <3>1, MarkedFits
    <3>. QED
      BY <1>3, <2>3, <3>2 DEF Rotates
  <2>4. CASE Restores
    BY <1>2, <2>4 DEF Restores
  <2>. QED
    BY <2>1, <2>2, <2>3, <2>4, StepKind
<1>5. After(toPersistedState(db'))
  BY <1>1, UsableSaved DEF Fits
<1>6. \A d \in States' : After(d)
  BY <1>2, <1>4, <1>5, KeepsStates DEF StatesKept
<1>. QED
  BY <1>6 DEF DisabledHasNoSession

\* No session of a disabled user, in memory or in what a rollback returns to.
THEOREM Disabling == Spec => []DisabledHasNoSession
<1>1. Init => DisabledHasNoSession
  BY DEF Init, DisabledHasNoSession, States
<1>. QED
  BY <1>1, TypeCorrect, DisabledInductive, PTL DEF Spec

(***************************************************************************)
(* Devices.  A device names a session that was issued, so a new session is *)
(* never the one a revoked device names.                                   *)
(***************************************************************************)
DeviceInv(d, last) ==
  /\ \A v \in d.gone : d.seen[v] \notin d.live
  /\ \A v \in Devices : d.seen[v] <= last

LEMMA DeviceNarrows ==
  ASSUME TypeOK, [Next]_vars, Narrows, DeviceInv(db, Len(issued))
  PROVE  DeviceInv(db', Len(issued))
<1>1. Fits(db) /\ Len(issued) \in Nat
  BY Counts DEF TypeOK, States
<1>2. ASSUME NEW d, Fits(d), DeviceInv(d, Len(issued)), NEW n \in 1 .. Len(issued)
      PROVE  /\ DeviceInv(rememberDevice(d, n, Device(n)), Len(issued))
             /\ DeviceInv(revokeSession(d, n), Len(issued))
             /\ DeviceInv(revokeRefreshTokensForSession(d, n), Len(issued))
             /\ DeviceInv(revokeRefreshTokenFamily(d, n), Len(issued))
  <2>1. Device(n) \in Devices /\ n \in Nat /\ n <= Len(issued)
    BY <1>1, DeviceType
  <2>2. DeviceInv(rememberDevice(d, n, Device(n)), Len(issued))
    <3>. DEFINE x == rememberDevice(d, n, Device(n))
    <3>1. /\ x.seen = [d.seen EXCEPT ![Device(n)] = n] /\ x.gone = d.gone \ {Device(n)}
          /\ x.live = d.live
      BY <1>2, <2>1 DEF rememberDevice, Fits, State
    <3>2. d.seen \in [Devices -> 0 .. MaxIssued] /\ d.gone \subseteq Devices
      BY <1>2 DEF Fits, State
    <3>. HIDE DEF x
    <3>. QED
      BY <1>2, <2>1, <3>1, <3>2 DEF DeviceInv, x
  <2>3. DeviceInv(revokeSession(d, n), Len(issued))
    <3>. DEFINE x == revokeSession(d, n)
    <3>1. /\ x.seen = d.seen /\ x.gone = d.gone \cup {v \in Devices : d.seen[v] = n}
          /\ x.live = d.live \ {n}
      BY <1>2 DEF revokeSession, revokeRefreshTokensForSession, Fits, State
    <3>. HIDE DEF x
    <3>. QED
      BY <1>2, <3>1 DEF DeviceInv, x
  <2>4. /\ DeviceInv(revokeRefreshTokensForSession(d, n), Len(issued))
        /\ DeviceInv(revokeRefreshTokenFamily(d, n), Len(issued))
    BY <1>2 DEF revokeRefreshTokensForSession, revokeRefreshTokenFamily, DeviceInv, Fits, State
  <2>. QED
    BY <2>2, <2>3, <2>4
<1>3. CASE db' = db
  BY <1>3
<1>4. ASSUME NEW u \in Users, Disable(u) \/ Enable(u)
      PROVE  DeviceInv(db', Len(issued))
  <2>1. \/ db' = [db EXCEPT !.disabled = @ \cup {u}, !.live = {n \in @ : issued[n].user # u}]
        \/ db' = [db EXCEPT !.disabled = @ \ {u}]
    BY <1>4, SavedStates DEF Disable, Enable
  <2>. QED
    BY <1>1, <2>1 DEF DeviceInv, Fits, State
<1>5. ASSUME NEW n \in 1 .. Len(issued),
             \/ RefreshReplayed(n) \/ RefreshDisabled(n) \/ Request(n) \/ RevokeLive(n) \/ RevokeDead(n)
      PROVE  DeviceInv(db', Len(issued))
  <2>1. db' \in {revokeRefreshTokenFamily(db, n), rememberDevice(db, n, Device(n)),
                 revokeSession(db, n), revokeRefreshTokensForSession(db, n)}
    BY <1>5, SavedStates, UnsavedStates
       DEF RefreshReplayed, RefreshDisabled, Request, RevokeLive, RevokeDead
  <2>. QED
    BY <1>1, <1>2, <2>1
<1>6. ASSUME NEW n \in 1 .. Len(issued), SessionExpires(n)
      PROVE  DeviceInv(db', Len(issued))
  <2>1. db' = [db EXCEPT !.live = @ \ {n}]
    BY <1>6, UnsavedStates DEF SessionExpires
  <2>. QED
    BY <1>1, <2>1 DEF DeviceInv, Fits, State
<1>7. ASSUME NEW n \in 1 .. Len(issued), Logout(n)
      PROVE  DeviceInv(db', Len(issued))
  <2>1. db' = revokeSession(rememberDevice(db, n, Device(n)), n)
    BY <1>7, SavedStates DEF Logout
  <2>2. Fits(rememberDevice(db, n, Device(n)))
    BY <1>1, DeviceType, RememberFits
  <2>. QED
    BY <1>1, <1>2, <2>1, <2>2
<1>8. ASSUME NEW u \in Users, NEW c \in Clients, FederatedLogin(u, c)
      PROVE  FALSE
  BY <1>1, <1>8 DEF Narrows, FederatedLogin, Issue, NextNumber
<1>9. ASSUME NEW n \in 1 .. Len(issued), NEW c \in Clients, RefreshRotates(n, c)
      PROVE  FALSE
  BY <1>1, <1>9 DEF Narrows, RefreshRotates, Issue, NextNumber
<1>10. CASE rollbackTransaction \/ Crash
  BY <1>10 DEF TypeOK, rollbackTransaction, Crash, Narrows
<1>11. CASE TxnOpens \/ TxnCommits \/ Refused \/ UNCHANGED vars
  BY <1>3, <1>11, SavedStates DEF TxnOpens, TxnCommits, Refused, vars
<1>. QED
  BY <1>4, <1>5, <1>6, <1>7, <1>8, <1>9, <1>10, <1>11 DEF Next

DevicesInv == \A d \in States : DeviceInv(d, Len(issued))

LEMMA DevicesInductive == TypeOK /\ DevicesInv /\ [Next]_vars => DevicesInv'
<1>. SUFFICES ASSUME TypeOK, DevicesInv, [Next]_vars
     PROVE  DevicesInv'
  OBVIOUS
<1>1. /\ Fits(db) /\ Fits(db)' /\ DeviceInv(db, Len(issued))
      /\ Len(issued) \in Nat /\ Len(issued') \in Nat /\ Len(issued) <= Len(issued')
      /\ \A d \in States : d.seen \in [Devices -> 0 .. MaxIssued]
  <2>1. Fits(db) /\ Fits(db)' /\ \A d \in States : Fits(d)
    BY TypeInductive DEF TypeOK, States
  <2>2. Len(issued') \in Nat
    BY TypeInductive DEF TypeOK
  <2>3. DeviceInv(db, Len(issued))
    BY DEF DevicesInv, States
  <2>4. ASSUME NEW d, Fits(d) PROVE d.seen \in [Devices -> 0 .. MaxIssued]
    BY <2>4 DEF Fits, State
  <2>. QED
    BY <2>1, <2>2, <2>3, <2>4, OwnersKept
<1>2. ASSUME NEW d, d.seen \in [Devices -> 0 .. MaxIssued], DeviceInv(d, Len(issued))
      PROVE  DeviceInv(d, Len(issued'))
  BY <1>1, <1>2 DEF DeviceInv
<1>3. ASSUME NEW x, NEW u, NEW c, NEW f, Issues(x, u, c, f), Fits(x),
             x.live = db.live, x.seen = db.seen, x.gone = db.gone
      PROVE  DeviceInv(db', Len(issued'))
  <2>1. Bundled(x, db', NextNumber)
    BY <1>3, IssuedFields
  <2>2. db'.seen = [db.seen EXCEPT ![<<u, c>>] = NextNumber] /\ db'.gone = db.gone \ {<<u, c>>}
    BY <1>3, IssuedFields
  <2>3. db'.live = db.live \cup {NextNumber}
    BY <1>3, <2>1 DEF Bundled
  <2>4. <<u, c>> \in Devices /\ Len(issued') = NextNumber /\ NextNumber = Len(issued) + 1
    BY <1>3, Appended
  <2>. DEFINE v0 == <<u, c>>
              k == NextNumber
  <2>. HIDE DEF v0, k
  <2>5. db'.seen = [db.seen EXCEPT ![v0] = k] /\ db'.gone = db.gone \ {v0}
        /\ db'.live = db.live \cup {k} /\ v0 \in Devices /\ Len(issued') = k /\ k = Len(issued) + 1
    BY <2>2, <2>3, <2>4 DEF v0, k
  <2>6. db.seen \in [Devices -> 0 .. MaxIssued] /\ db.gone \subseteq Devices
    BY <1>1 DEF Fits, State
  <2>. QED
    BY <1>1, <2>5, <2>6 DEF DeviceInv
<1>4. DeviceInv(db', Len(issued'))
  <2>1. CASE Narrows
    BY <1>1, <2>1, DeviceNarrows DEF Narrows
  <2>2. CASE LogsIn
    BY <1>1, <1>3, <2>2 DEF LogsIn
  <2>3. ASSUME NEW n \in 1 .. Len(issued), Rotates(n)
        PROVE  DeviceInv(db', Len(issued'))
    <3>1. n \in Usable(db)
      BY <2>3 DEF Rotates
    <3>2. /\ Fits(markUsed(db, n)) /\ markUsed(db, n).live = db.live
          /\ markUsed(db, n).seen = db.seen /\ markUsed(db, n).gone = db.gone
      BY <1>1, <3>1, MarkedFits
    <3>. QED
      BY <1>3, <2>3, <3>2 DEF Rotates
  <2>4. CASE Restores
    BY <1>1, <1>2, <2>4 DEF Restores, DevicesInv
  <2>. QED
    BY <2>1, <2>2, <2>3, <2>4, StepKind
<1>5. DeviceInv(toPersistedState(db'), Len(issued'))
  BY <1>1, <1>4 DEF DeviceInv, toPersistedState, Fits, State
<1>6. \A d \in States' : DeviceInv(d, Len(issued'))
  BY <1>1, <1>2, <1>4, <1>5, KeepsStates DEF StatesKept, DevicesInv
<1>. QED
  BY <1>6 DEF DevicesInv

\* A device shown as revoked never names a live session.
THEOREM DeviceRevocation == Spec => []RevokedDeviceIsGone
<1>1. Init => DevicesInv
  BY DEF Init, DevicesInv, DeviceInv, States
<1>2. DevicesInv => RevokedDeviceIsGone
  BY DEF DevicesInv, DeviceInv, RevokedDeviceIsGone
<1>. QED
  BY <1>1, <1>2, TypeCorrect, DevicesInductive, PTL DEF Spec
=============================================================================
