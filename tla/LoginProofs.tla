----------------------------- MODULE LoginProofs -----------------------------
(***************************************************************************)
(* Machine-checked proofs about Login, for any addresses, states, requests *)
(* and limits: types, whom a federated session belongs to, that a state    *)
(* opens one session, how guesses are spaced and how many requests pass.   *)
(***************************************************************************)
EXTENDS Login, SequenceTheorems, TLAPS

Done == [stage : {"done"}]
Exchange == [stage : {"exchange"}, flow : Flows, code : Flows]
Keys == [stage : {"keys"}, flow : Flows \cup {None}, who : Emails, role : Roles]
Session == [user : Emails, flow : Flows \cup {None}, role : Roles, call : Calls]

Kept == [users : [Emails -> {None} \cup User], failure : [Emails -> Failure]]

(***************************************************************************)
(* The types of the users, the clock and the failures, with what a         *)
(* rollback would restore.                                                 *)
(***************************************************************************)
NoLockAhead(f) == \A e \in Emails : f[e].lockedUntil <= now + Lockout

KeptTypes ==
    /\ now \in 0..MaxTime
    /\ users \in [Emails -> {None} \cup User]
    /\ failure \in [Emails -> Failure] /\ NoLockAhead(failure)
    /\ txn # None => txn \in Kept /\ NoLockAhead(txn.failure)
    /\ judged \in [Emails -> Seq(Nat)]
    /\ forgotten \subseteq Emails

LEMMA FailureTypes ==
    ASSUME NEW f \in Failure, now \in Nat, f.lockedUntil <= now + Lockout
    PROVE  nextFailure(f) \in Failure /\ nextFailure(f).lockedUntil <= now + Lockout
BY LoginAssumption DEF nextFailure, Failure

LEMMA RecordTypes ==
    ASSUME KeptTypes, NEW e \in Emails, recordLoginFailure(e)
    PROVE  /\ failure' \in [Emails -> Failure]
           /\ NoLockAhead(failure')
           /\ judged' \in [Emails -> Seq(Nat)]
           /\ forgotten' \subseteq Emails
<1>1. now \in Nat /\ nextFailure(failure[e]) \in Failure
      /\ nextFailure(failure[e]).lockedUntil <= now + Lockout
  BY FailureTypes, LoginAssumption DEF KeptTypes, NoLockAhead
<1>2. Append(judged[e], now) \in Seq(Nat)
  BY <1>1 DEF KeptTypes
<1>. QED
  BY <1>1, <1>2 DEF KeptTypes, NoLockAhead, recordLoginFailure

LEMMA ClearTypes ==
    ASSUME KeptTypes, NEW e \in Emails, clearLoginFailure(e)
    PROVE  /\ failure' \in [Emails -> Failure]
           /\ NoLockAhead(failure')
           /\ judged' \in [Emails -> Seq(Nat)]
           /\ forgotten' \subseteq Emails
<1>1. noFailure \in Failure /\ noFailure.lockedUntil <= now + Lockout
  BY LoginAssumption DEF noFailure, Failure, KeptTypes
<1>2. << >> \in Seq(Nat)
  OBVIOUS
<1>. QED
  BY <1>1, <1>2 DEF KeptTypes, NoLockAhead, clearLoginFailure

-----------------------------------------------------------------------------
(***************************************************************************)
(* Federated logins.  A state that was drawn is in one place: pending, in  *)
(* one request that is under way, or behind one session.                   *)
(***************************************************************************)
In(k, stage) == calls[k] # None /\ calls[k] \in stage
Under(k, f) == In(k, Exchange \cup Keys) /\ calls[k].flow = f

FlowTypes ==
    /\ pending \in [Flows -> {None} \cup Nat]
    /\ provider \in [Flows -> {"undrawn", None} \cup Emails]
    /\ calls \in [Calls -> {None} \cup Done \cup Exchange \cup Keys]
    /\ opened \subseteq Session

DrawnOnce ==
    /\ \A f \in Flows : pending[f] # None => provider[f] # "undrawn"
    /\ \A k \in Calls, f \in Flows : Under(k, f) => pending[f] = None /\ provider[f] # "undrawn"
    /\ \A k, l \in Calls, f \in Flows : Under(k, f) /\ Under(l, f) => k = l
    /\ \A s \in opened : s.flow # None =>
           /\ pending[s.flow] = None /\ provider[s.flow] # "undrawn"
           /\ \A k \in Calls : ~Under(k, s.flow)
    /\ StateUsedOnce

SignedIn ==
    \A k \in Calls :
        /\ In(k, Exchange) => provider[calls[k].code] \in Emails
        /\ In(k, Keys) /\ calls[k].flow # None => provider[calls[k].flow] = calls[k].who

FlowInv == FlowTypes /\ DrawnOnce /\ SignedIn

LEMMA Stages ==
    /\ \A c \in Done : c.stage = "done"
    /\ \A c \in Exchange : c.stage = "exchange" /\ c.flow \in Flows /\ c.code \in Flows
    /\ \A c \in Keys : /\ c.stage = "keys" /\ c.flow \in Flows \cup {None}
                       /\ c.who \in Emails /\ c.role \in Roles
BY DEF Done, Exchange, Keys

\* Taking the requests that are under way out of the way, one or all.
LEMMA CallsEnd ==
    ASSUME FlowInv, UNCHANGED <<provider, opened>>,
           \A f \in Flows : pending'[f] \in {None, pending[f]},
           pending' \in [Flows -> {None} \cup Nat],
           calls' \in [Calls -> {None} \cup Done \cup Exchange \cup Keys],
           \A k \in Calls : calls'[k] \in {calls[k], None, [stage |-> "done"]}
    PROVE  FlowInv'
<1>. [stage |-> "done"] \notin Exchange \cup Keys
  BY Stages
<1>1. \A k \in Calls : In(k, Exchange \cup Keys)' => In(k, Exchange \cup Keys) /\ calls'[k] = calls[k]
  BY DEF In, FlowInv, FlowTypes
<1>2. FlowTypes'
  BY DEF FlowInv, FlowTypes
<1>3. \A k \in Calls, f \in Flows \cup {None} : Under(k, f)' => Under(k, f)
  BY <1>1 DEF Under
<1>4. DrawnOnce'
  <2>1. StateUsedOnce'
    BY DEF FlowInv, DrawnOnce, StateUsedOnce
  <2>2. \A f \in Flows : pending'[f] # None => provider'[f] # "undrawn"
    BY DEF FlowInv, DrawnOnce
  <2>3. \A k \in Calls, f \in Flows :
           Under(k, f)' => pending'[f] = None /\ provider'[f] # "undrawn"
    BY <1>3 DEF FlowInv, DrawnOnce
  <2>4. \A k, l \in Calls, f \in Flows : Under(k, f)' /\ Under(l, f)' => k = l
    BY <1>3 DEF FlowInv, DrawnOnce
  <2>5. \A s \in opened' : s.flow # None =>
           /\ pending'[s.flow] = None /\ provider'[s.flow] # "undrawn"
           /\ \A k \in Calls : ~Under(k, s.flow)'
    BY <1>3 DEF FlowInv, DrawnOnce, FlowTypes, Session
  <2>. QED
    BY <2>1, <2>2, <2>3, <2>4, <2>5 DEF DrawnOnce
<1>5. SignedIn'
  BY <1>1 DEF FlowInv, SignedIn, In
<1>. QED
  BY <1>2, <1>4, <1>5 DEF FlowInv
LEMMA FlowKeeps ==
    ASSUME FlowInv, UNCHANGED federation
    PROVE  FlowInv'
BY DEF FlowInv, FlowTypes, DrawnOnce, SignedIn, Under, In, StateUsedOnce, federation

LEMMA StartFlow ==
    ASSUME FlowInv, now \in Nat, NEW f \in Flows, Start(f)
    PROVE  FlowInv'
<1>. /\ provider[f] = "undrawn" /\ pending' = [pending EXCEPT ![f] = now]
     /\ provider' = [provider EXCEPT ![f] = None]
     /\ calls' = calls /\ opened' = opened
  BY DEF Start
<1>. None # "undrawn" /\ "undrawn" \notin Emails
  BY LoginAssumption
<1>1. FlowTypes'
  BY DEF FlowInv, FlowTypes
<1>2. \A g \in Flows : g # f => pending'[g] = pending[g] /\ provider'[g] = provider[g]
  BY DEF FlowInv, FlowTypes
<1>3. provider'[f] # "undrawn"
  BY DEF FlowInv, FlowTypes
<1>4. \A k \in Calls : ~Under(k, f)
  BY DEF FlowInv, DrawnOnce
<1>5. \A s \in opened : s.flow # f
  BY LoginAssumption DEF FlowInv, DrawnOnce
<1>6. \A k \in Calls, g \in Flows : Under(k, g)' <=> Under(k, g)
  BY DEF Under, In
<1>7. DrawnOnce'
  BY <1>2, <1>3, <1>4, <1>5, <1>6 DEF FlowInv, FlowTypes, Session, DrawnOnce, StateUsedOnce
<1>8. SignedIn'
  <2>1. ASSUME NEW k \in Calls, In(k, Exchange)
        PROVE  provider'[calls'[k].code] \in Emails
    <3>1. calls[k].code \in Flows /\ provider[calls[k].code] \in Emails
      BY <2>1, Stages DEF FlowInv, SignedIn, In
    <3>. QED
      BY <3>1, <1>2
  <2>2. ASSUME NEW k \in Calls, In(k, Keys), calls[k].flow # None
        PROVE  provider'[calls'[k].flow] = calls'[k].who
    <3>1. calls[k].flow \in Flows /\ calls[k].who \in Emails
          /\ provider[calls[k].flow] = calls[k].who
      BY <2>2, Stages DEF FlowInv, SignedIn, In
    <3>. QED
      BY <3>1, <1>2
  <2>. QED
    BY <2>1, <2>2 DEF SignedIn, In
<1>. QED
  BY <1>1, <1>7, <1>8 DEF FlowInv

LEMMA SignInFlow ==
    ASSUME FlowInv, NEW f \in Flows, NEW e \in Emails, SignIn(f, e)
    PROVE  FlowInv'
<1>. /\ provider[f] = None /\ provider' = [provider EXCEPT ![f] = e]
     /\ pending' = pending /\ calls' = calls /\ opened' = opened
  BY DEF SignIn
<1>. None \notin Emails /\ "undrawn" \notin Emails
  BY LoginAssumption
<1>1. FlowTypes'
  BY DEF FlowInv, FlowTypes
<1>2. \A g \in Flows : g # f => provider'[g] = provider[g]
  BY DEF FlowInv, FlowTypes
<1>3. provider'[f] # "undrawn"
  BY DEF FlowInv, FlowTypes
<1>4. DrawnOnce'
  BY <1>2, <1>3 DEF FlowInv, FlowTypes, Session, DrawnOnce, StateUsedOnce, Under, In
<1>5. SignedIn'
  BY <1>2, Stages DEF FlowInv, SignedIn, In
<1>. QED
  BY <1>1, <1>4, <1>5 DEF FlowInv

\* A request that is under way for no state, or for one taken out just now.
LEMMA CallBegins ==
    ASSUME FlowInv, NEW k \in Calls, NEW call \in Exchange \cup Keys, ~In(k, Exchange \cup Keys),
           calls' = [calls EXCEPT ![k] = call], UNCHANGED <<provider, opened>>,
           \/ call.flow = None /\ pending' = pending
           \/ pending[call.flow] # None /\ pending' = [pending EXCEPT ![call.flow] = None],
           call \in Exchange => provider[call.code] \in Emails,
           call \in Keys => call.flow = None
    PROVE  FlowInv'
<1>. call.flow \in Flows \cup {None} /\ None \notin Flows
  BY Stages, LoginAssumption
<1>1. FlowTypes'
  BY DEF FlowInv, FlowTypes
<1>2. \A l \in Calls : l # k => calls'[l] = calls[l]
  BY DEF FlowInv, FlowTypes
<1>3. calls'[k] = call
  BY DEF FlowInv, FlowTypes
<1>4. \A l \in Calls, f \in Flows : Under(l, f)' => (Under(l, f) /\ l # k) \/ (l = k /\ f = call.flow)
  BY <1>2, <1>3 DEF Under, In
<1>5. \A f \in Flows : pending'[f] = IF f = call.flow THEN None ELSE pending[f]
  BY DEF FlowInv, FlowTypes
<1>6. call.flow \in Flows => /\ pending[call.flow] # None
                             /\ provider[call.flow] # "undrawn"
                             /\ \A l \in Calls : ~Under(l, call.flow)
                             /\ \A s \in opened : s.flow # call.flow
  BY DEF FlowInv, DrawnOnce
<1>7. DrawnOnce'
  <2>1. StateUsedOnce' /\ \A f \in Flows : pending'[f] # None => provider'[f] # "undrawn"
    BY <1>5 DEF FlowInv, DrawnOnce, StateUsedOnce
  <2>2. \A l \in Calls, f \in Flows : Under(l, f)' => pending'[f] = None /\ provider'[f] # "undrawn"
    BY <1>4, <1>5, <1>6 DEF FlowInv, DrawnOnce
  <2>3. \A l, n \in Calls, f \in Flows : Under(l, f)' /\ Under(n, f)' => l = n
    BY <1>4, <1>6 DEF FlowInv, DrawnOnce
  <2>4. \A s \in opened' : s.flow # None =>
           /\ pending'[s.flow] = None /\ provider'[s.flow] # "undrawn"
           /\ \A l \in Calls : ~Under(l, s.flow)'
    BY <1>4, <1>5, <1>6 DEF FlowInv, FlowTypes, Session, DrawnOnce
  <2>. QED
    BY <2>1, <2>2, <2>3, <2>4 DEF DrawnOnce
<1>8. SignedIn'
  BY <1>2, <1>3, Stages DEF FlowInv, SignedIn, In
<1>. QED
  BY <1>1, <1>7, <1>8 DEF FlowInv
LEMMA CallbackFlow ==
    ASSUME FlowInv, NEW k \in Calls, NEW f \in Flows, NEW code \in Flows, NEW sameUri,
           Callback(k, f, code, sameUri)
    PROVE  FlowInv'
<1>. /\ provider[code] \in Emails /\ calls[k] = None
     /\ pending' = [pending EXCEPT ![f] = None]
     /\ provider' = provider /\ opened' = opened
  BY DEF Callback, taken
<1>1. CASE calls' = [calls EXCEPT ![k] = [stage |-> "done"]]
  <2>1. [stage |-> "done"] \in Done
    BY DEF Done
  <2>2. /\ pending' \in [Flows -> {None} \cup Nat]
        /\ \A g \in Flows : pending'[g] \in {None, pending[g]}
        /\ calls' \in [Calls -> {None} \cup Done \cup Exchange \cup Keys]
        /\ \A l \in Calls : calls'[l] \in {calls[l], None, [stage |-> "done"]}
    BY <1>1, <2>1 DEF FlowInv, FlowTypes
  <2>. QED
    BY <2>2, CallsEnd
<1>2. CASE /\ pending[f] # None
           /\ calls' = [calls EXCEPT ![k] = [stage |-> "exchange", flow |-> f, code |-> code]]
  <2>. DEFINE call == [stage |-> "exchange", flow |-> f, code |-> code]
  <2>1. call \in Exchange /\ call \notin Keys /\ call.flow = f /\ call.code = code
    BY DEF Exchange, Keys
  <2>2. ~In(k, Exchange \cup Keys)
    BY DEF In
  <2>. HIDE DEF call
  <2>3. calls' = [calls EXCEPT ![k] = call]
    BY <1>2 DEF call
  <2>. QED
    BY <1>2, <2>1, <2>2, <2>3, CallBegins
<1>. QED
  BY <1>1, <1>2 DEF Callback

LEMMA DirectFlow ==
    ASSUME FlowInv, NEW k \in Calls, NEW e \in Emails, NEW role \in Roles, Direct(k, e, role)
    PROVE  FlowInv'
<1>. DEFINE call == [stage |-> "keys", flow |-> None, who |-> e, role |-> role]
<1>1. call \in Keys /\ call \notin Exchange /\ call.flow = None
  BY DEF Exchange, Keys
<1>2. ~In(k, Exchange \cup Keys) /\ UNCHANGED <<pending, provider, opened>>
  BY DEF In, Direct
<1>3. calls' = [calls EXCEPT ![k] = call]
  BY DEF Direct
<1>. HIDE DEF call
<1>. QED
  BY <1>1, <1>2, <1>3, CallBegins

\* One request ends and nothing else of the federated logins changes.
LEMMA CallDone ==
    ASSUME FlowInv, NEW k \in Calls, calls' = [calls EXCEPT ![k] = [stage |-> "done"]],
           UNCHANGED <<pending, provider, opened>>
    PROVE  FlowInv'
<1>1. [stage |-> "done"] \in Done
  BY DEF Done
<1>2. /\ pending' \in [Flows -> {None} \cup Nat]
      /\ \A g \in Flows : pending'[g] \in {None, pending[g]}
      /\ calls' \in [Calls -> {None} \cup Done \cup Exchange \cup Keys]
      /\ \A l \in Calls : calls'[l] \in {calls[l], None, [stage |-> "done"]}
  BY <1>1 DEF FlowInv, FlowTypes
<1>. QED
  BY <1>2, CallsEnd

LEMMA ExchangedFlow ==
    ASSUME FlowInv, NEW k \in Calls, NEW role \in Roles, Exchanged(k, role)
    PROVE  FlowInv'
<1>. /\ calls[k] # None /\ calls[k].stage = "exchange"
     /\ UNCHANGED <<pending, provider, opened>>
  BY DEF Exchanged
<1>1. In(k, Exchange)
  BY Stages DEF FlowInv, FlowTypes, In
<1>2. CASE calls' = [calls EXCEPT ![k] = [stage |-> "done"]]
  BY <1>2, CallDone
<1>3. CASE /\ nonceMatches(calls[k])
           /\ calls' = [calls EXCEPT ![k] =
                 [stage |-> "keys", flow |-> calls[k].flow, who |-> provider[calls[k].code],
                  role |-> role]]
  <2>. DEFINE call == [stage |-> "keys", flow |-> calls[k].flow, who |-> provider[calls[k].code],
                       role |-> role]
  <2>1. calls[k].flow \in Flows /\ calls[k].code = calls[k].flow
        /\ provider[calls[k].code] \in Emails
    BY <1>1, <1>3, Stages DEF nonceMatches, FlowInv, SignedIn, In
  <2>2. /\ call \in Keys /\ call \notin Exchange /\ call.flow = calls[k].flow
        /\ provider[call.flow] = call.who
    BY <2>1 DEF Keys, Exchange
  <2>. HIDE DEF call
  <2>3. calls' = [calls EXCEPT ![k] = call]
    BY <1>3 DEF call
  <2>4. \A l \in Calls : calls'[l] = IF l = k THEN call ELSE calls[l]
    BY <2>3 DEF FlowInv, FlowTypes
  <2>5. \A l \in Calls, f \in Flows : Under(l, f)' => Under(l, f)
    BY <2>2, <2>4, <1>1 DEF Under, In
  <2>6. FlowTypes'
    BY <2>2, <2>3 DEF FlowInv, FlowTypes
  <2>7. DrawnOnce'
    BY <2>5 DEF FlowInv, DrawnOnce, StateUsedOnce, FlowTypes, Session
  <2>8. SignedIn'
    BY <2>2, <2>4 DEF FlowInv, SignedIn, In
  <2>. QED
    BY <2>6, <2>7, <2>8 DEF FlowInv
<1>. QED
  BY <1>2, <1>3 DEF Exchanged

LEMMA ValidatedFlow ==
    ASSUME FlowInv, NEW k \in Calls, Validated(k)
    PROVE  FlowInv'
<1>. /\ calls[k] # None /\ calls[k].stage = "keys"
     /\ calls' = [calls EXCEPT ![k] = [stage |-> "done"]]
     /\ UNCHANGED <<pending, provider>>
  BY DEF Validated
<1>1. CASE opened' = opened
  BY <1>1, CallDone
<1>2. CASE opened' = opened \cup {[user |-> calls[k].who, flow |-> calls[k].flow,
                                   role |-> calls[k].role, call |-> k]}
  <2>1. In(k, Keys)
    BY Stages DEF FlowInv, FlowTypes, In
  <2>2. [user |-> calls[k].who, flow |-> calls[k].flow, role |-> calls[k].role, call |-> k]
            \in Session
    BY <2>1, Stages DEF Session, In
  <2>3. PICK s \in Session : s.flow = calls[k].flow /\ opened' = opened \cup {s}
    BY <1>2, <2>2
  <2>4. [stage |-> "done"] \in Done /\ [stage |-> "done"] \notin Exchange \cup Keys
    BY Stages DEF Done
  <2>5. /\ calls' \in [Calls -> {None} \cup Done \cup Exchange \cup Keys]
        /\ \A l \in Calls : calls'[l] = IF l = k THEN [stage |-> "done"] ELSE calls[l]
    BY <2>4 DEF FlowInv, FlowTypes
  <2>6. \A l \in Calls : In(l, Exchange \cup Keys)' => l # k /\ calls'[l] = calls[l]
                                                     /\ In(l, Exchange \cup Keys)
    BY <2>4, <2>5 DEF In
  <2>7. \A l \in Calls, f \in Flows : Under(l, f)' => l # k /\ Under(l, f)
    BY <2>6 DEF Under
  <2>8. s.flow \in Flows => Under(k, s.flow)
    BY <2>1, <2>3 DEF Under, In
  <2>9. FlowTypes'
    BY <2>3, <2>5 DEF FlowInv, FlowTypes
  <2>10. s.flow \in Flows => \A t \in opened : t.flow # s.flow
    BY <2>8, LoginAssumption DEF FlowInv, DrawnOnce
  <2>11. s.flow \in Flows \cup {None}
    BY DEF Session
  <2>12. StateUsedOnce'
    BY <2>3, <2>10, <2>11 DEF FlowInv, DrawnOnce, StateUsedOnce
  <2>13. \A t \in opened' : t.flow # None =>
           /\ pending'[t.flow] = None /\ provider'[t.flow] # "undrawn"
           /\ \A l \in Calls : ~Under(l, t.flow)'
    <3>1. \A t \in opened : t.flow # None =>
             /\ pending'[t.flow] = None /\ provider'[t.flow] # "undrawn"
             /\ \A l \in Calls : ~Under(l, t.flow)'
      BY <2>7 DEF FlowInv, FlowTypes, Session, DrawnOnce
    <3>2. s.flow # None =>
             /\ pending'[s.flow] = None /\ provider'[s.flow] # "undrawn"
             /\ \A l \in Calls : ~Under(l, s.flow)'
      BY <2>7, <2>8, <2>11 DEF FlowInv, DrawnOnce
    <3>. QED
      BY <3>1, <3>2, <2>3
  <2>14. DrawnOnce'
    BY <2>7, <2>12, <2>13 DEF FlowInv, DrawnOnce
  <2>15. SignedIn'
    BY <2>4, <2>5 DEF FlowInv, SignedIn, In
  <2>. QED
    BY <2>9, <2>14, <2>15 DEF FlowInv
<1>. QED
  BY <1>1, <1>2 DEF Validated

LEMMA RestartFlow ==
    ASSUME FlowInv, Restart
    PROVE  FlowInv'
<1>1. [stage |-> "done"] \in Done
  BY DEF Done
<1>2. /\ pending' \in [Flows -> {None} \cup Nat]
      /\ \A g \in Flows : pending'[g] \in {None, pending[g]}
      /\ calls' \in [Calls -> {None} \cup Done \cup Exchange \cup Keys]
      /\ \A l \in Calls : calls'[l] \in {calls[l], None, [stage |-> "done"]}
      /\ UNCHANGED <<provider, opened>>
  BY <1>1 DEF Restart, FlowInv, FlowTypes
<1>. QED
  BY <1>2, CallsEnd

LEMMA FlowStep ==
    ASSUME FlowInv, now \in Nat, [Next]_vars
    PROVE  FlowInv'
<1>1. CASE UNCHANGED vars
  BY <1>1, FlowKeeps DEF vars
<1>2. CASE \/ TooMany \/ Tick \/ OpenTransaction \/ Commit \/ Rollback
           \/ \E e \in Emails, right \in BOOLEAN : Login(e, right)
           \/ \E e \in Emails, u \in User : UpdateUser(e, u)
  <2>. UNCHANGED federation
    BY <1>2 DEF TooMany, Tick, OpenTransaction, Commit, Rollback, Login, UpdateUser
  <2>. QED
    BY FlowKeeps
<1>3. CASE \E f \in Flows : Start(f)
  BY <1>3, StartFlow
<1>4. CASE \E f \in Flows, e \in Emails : SignIn(f, e)
  BY <1>4, SignInFlow
<1>5. CASE \E k \in Calls, e \in Emails, role \in Roles : Direct(k, e, role)
  BY <1>5, DirectFlow
<1>6. CASE \E k \in Calls, f, code \in Flows, sameUri \in BOOLEAN : Callback(k, f, code, sameUri)
  BY <1>6, CallbackFlow
<1>7. CASE \E k \in Calls, role \in Roles : Exchanged(k, role)
  BY <1>7, ExchangedFlow
<1>8. CASE \E k \in Calls : CallFails(k)
  BY <1>8, CallDone DEF CallFails
<1>9. CASE \E k \in Calls : Validated(k)
  BY <1>9, ValidatedFlow
<1>10. CASE Restart
  BY <1>10, RestartFlow
<1>. QED
  BY <1>1, <1>2, <1>3, <1>4, <1>5, <1>6, <1>7, <1>8, <1>9, <1>10 DEF Next
-----------------------------------------------------------------------------
(***************************************************************************)
(* What the count of failures says of the guesses, while no failure was    *)
(* lost: it is their number, and the lock runs from the last of them.      *)
(***************************************************************************)
Follows(e) ==
    /\ failure[e].count = Len(judged[e])
    /\ Len(judged[e]) >= FailedLoginLimit =>
           failure[e].lockedUntil = judged[e][Len(judged[e])] + Lockout
    /\ \A i \in FailedLoginLimit..(Len(judged[e]) - 1) :
           judged[e][i + 1] >= judged[e][i] + Lockout

Guesses == \A e \in Emails \ forgotten : Follows(e)

LEMMA RecordFollows ==
    ASSUME KeptTypes, Guesses, NEW e \in Emails, ~isLocked(failure[e]), recordLoginFailure(e)
    PROVE  Guesses'
<1>. /\ FailedLoginLimit \in Nat \ {0} /\ Lockout \in Nat /\ now \in Nat
     /\ judged[e] \in Seq(Nat) /\ failure[e] \in Failure
  BY LoginAssumption DEF KeptTypes
<1>1. /\ judged'[e] = Append(judged[e], now)
      /\ \A d \in Emails : d # e => judged'[d] = judged[d] /\ failure'[d] = failure[d]
  BY DEF recordLoginFailure, KeptTypes
<1>2. \A d \in Emails \ forgotten' : d # e => Follows(d)'
  BY <1>1 DEF Guesses, Follows, recordLoginFailure
<1>3. CASE e \in forgotten'
  BY <1>2, <1>3 DEF Guesses
<1>4. CASE e \notin forgotten'
  <2>1. /\ failure'[e] = nextFailure(failure[e])
        /\ e \notin forgotten
    BY <1>4 DEF recordLoginFailure, KeptTypes
  <2>2. Follows(e)
    BY <2>1 DEF Guesses
  <2>3. /\ Len(judged'[e]) = Len(judged[e]) + 1
        /\ judged'[e][Len(judged[e]) + 1] = now
        /\ \A i \in 1..Len(judged[e]) : judged'[e][i] = judged[e][i]
    BY <1>1
  <2>4. failure[e].lockedUntil <= now
    BY DEF isLocked, Failure
  <2>5. Len(judged[e]) \in Nat
    OBVIOUS
  <2>6. failure'[e].count = Len(judged'[e])
    BY <2>1, <2>2, <2>3 DEF nextFailure, Follows
  <2>7. Len(judged'[e]) >= FailedLoginLimit =>
            failure'[e].lockedUntil = judged'[e][Len(judged'[e])] + Lockout
    BY <2>1, <2>2, <2>3, <2>5 DEF nextFailure, Follows
  <2>8. ASSUME NEW i \in FailedLoginLimit..(Len(judged'[e]) - 1)
        PROVE  judged'[e][i + 1] >= judged'[e][i] + Lockout
    <3>1. i \in Nat /\ i >= FailedLoginLimit /\ i <= Len(judged[e]) /\ i >= 1
      BY <2>3, <2>5
    <3>2. CASE i = Len(judged[e])
      <4>1. failure[e].lockedUntil = judged[e][i] + Lockout
        BY <2>2, <3>1, <3>2 DEF Follows
      <4>2. judged'[e][i] = judged[e][i] /\ judged'[e][i + 1] = now
        BY <2>3, <3>1, <3>2
      <4>. QED
        BY <4>1, <4>2, <2>4
    <3>3. CASE i # Len(judged[e])
      <4>1. i \in FailedLoginLimit..(Len(judged[e]) - 1) /\ i \in 1..Len(judged[e])
            /\ i + 1 \in 1..Len(judged[e])
        BY <2>5, <3>1, <3>3
      <4>2. judged[e][i + 1] >= judged[e][i] + Lockout
        BY <4>1, <2>2 DEF Follows
      <4>. QED
        BY <4>1, <4>2, <2>3
    <3>. QED
      BY <3>2, <3>3
  <2>9. Follows(e)'
    BY <2>6, <2>7, <2>8 DEF Follows
  <2>. QED
    BY <1>2, <2>9 DEF Guesses
<1>. QED
  BY <1>3, <1>4

LEMMA ClearFollows ==
    ASSUME KeptTypes, Guesses, NEW e \in Emails, clearLoginFailure(e)
    PROVE  Guesses'
<1>. FailedLoginLimit \in Nat \ {0}
  BY LoginAssumption
<1>1. /\ judged'[e] = << >> /\ failure'[e] = noFailure
      /\ \A d \in Emails : d # e => judged'[d] = judged[d] /\ failure'[d] = failure[d]
      /\ forgotten' = forgotten \ {e}
  BY DEF clearLoginFailure, KeptTypes
<1>2. \A d \in Emails \ forgotten' : d # e => Follows(d)'
  BY <1>1 DEF Guesses, Follows
<1>3. Len(judged'[e]) = 0
  BY <1>1
<1>4. Follows(e)'
  BY <1>1, <1>3 DEF Follows, noFailure
<1>. QED
  BY <1>2, <1>4 DEF Guesses

KeptInv == KeptTypes /\ Guesses

LEMMA KeptStep ==
    ASSUME KeptInv, FlowInv, [Next]_vars
    PROVE  KeptInv'
<1>. USE DEF KeptInv
<1>. now \in Nat /\ Lockout \in Nat /\ MaxTime \in Nat /\ FailedLoginLimit \in Nat \ {0}
  BY LoginAssumption DEF KeptTypes
<1>1. CASE UNCHANGED <<kept, counted, now, txn>>
  BY <1>1 DEF kept, counted, KeptTypes, NoLockAhead, Guesses, Follows
<1>2. CASE \E e \in Emails, right \in BOOLEAN : Login(e, right)
  <2>1. PICK e \in Emails : \E right \in BOOLEAN : Login(e, right)
    BY <1>2
  <2>2. UNCHANGED <<now, users, txn>>
    BY <2>1 DEF Login
  <2>3. CASE UNCHANGED <<failure, counted>>
    BY <1>1, <2>2, <2>3 DEF kept
  <2>4. CASE clearLoginFailure(e)
    BY <2>2, <2>4, ClearTypes, ClearFollows DEF KeptTypes, NoLockAhead
  <2>5. CASE ~isLocked(failure[e]) /\ recordLoginFailure(e)
    BY <2>2, <2>5, RecordTypes, RecordFollows DEF KeptTypes, NoLockAhead
  <2>. QED
    BY <2>1, <2>3, <2>4, <2>5 DEF Login
<1>3. CASE \E k \in Calls : Validated(k)
  <2>1. PICK k \in Calls : Validated(k)
    BY <1>3
  <2>2. UNCHANGED <<now, users, txn>>
    BY <2>1 DEF Validated
  <2>3. calls[k].who \in Emails
    BY <2>1, Stages DEF Validated, FlowInv, FlowTypes
  <2>4. CASE UNCHANGED <<failure, counted>>
    BY <1>1, <2>2, <2>4 DEF kept
  <2>5. CASE clearLoginFailure(calls[k].who)
    <3>1. PICK e \in Emails : clearLoginFailure(e)
      BY <2>3, <2>5
    <3>. QED
      BY <2>2, <3>1, ClearTypes, ClearFollows DEF KeptTypes, NoLockAhead
  <2>. QED
    BY <2>1, <2>4, <2>5 DEF Validated
<1>4. CASE Tick
  BY <1>4 DEF Tick, kept, counted, KeptTypes, NoLockAhead, Guesses, Follows, Kept, Failure
<1>5. CASE \E e \in Emails, u \in User : UpdateUser(e, u)
  BY <1>5 DEF UpdateUser, counted, KeptTypes, NoLockAhead, Guesses, Follows
<1>6. CASE OpenTransaction
  BY <1>6 DEF OpenTransaction, kept, counted, KeptTypes, NoLockAhead, Guesses, Follows, Kept
<1>7. CASE Commit
  BY <1>7 DEF Commit, kept, counted, KeptTypes, NoLockAhead, Guesses, Follows
<1>8. CASE Rollback
  <2>1. /\ users' = txn.users /\ failure' = txn.failure
        /\ forgotten' = forgotten \cup {e \in Emails : failure[e] # txn.failure[e]}
        /\ txn # None /\ txn' = None /\ UNCHANGED <<now, judged>>
    BY <1>8 DEF Rollback, restoreState
  <2>2. KeptTypes'
    BY <2>1 DEF KeptTypes, Kept, NoLockAhead
  <2>3. Guesses'
    BY <2>1 DEF Guesses, Follows
  <2>. QED
    BY <2>2, <2>3
<1>9. CASE Restart
  <2>1. /\ users' = IF txn = None THEN users ELSE txn.users
        /\ failure' = [e \in Emails |-> noFailure]
        /\ txn' = None /\ judged' = [e \in Emails |-> <<>>] /\ forgotten' = {}
        /\ now' = now
    BY <1>9 DEF Restart
  <2>2. noFailure \in Failure /\ noFailure.lockedUntil <= now + Lockout /\ noFailure.count = 0
    BY DEF noFailure, Failure
  <2>3. << >> \in Seq(Nat) /\ Len(<< >>) = 0
    OBVIOUS
  <2>4. KeptTypes'
    BY <2>1, <2>2, <2>3 DEF KeptTypes, Kept, NoLockAhead
  <2>5. Guesses'
    BY <2>1, <2>2, <2>3 DEF Guesses, Follows
  <2>. QED
    BY <2>4, <2>5
<1>. QED
  BY <1>1, <1>2, <1>3, <1>4, <1>5, <1>6, <1>7, <1>8, <1>9
  DEF Next, vars, TooMany, Start, SignIn, Direct, Callback, Exchanged, CallFails, kept, counted
-----------------------------------------------------------------------------
(***************************************************************************)
(* The limiter.  Of the admitted requests the last ones fall into the      *)
(* window of the bucket, those before them into earlier windows, of which  *)
(* each has MaxPerWindow at most.                                          *)
(***************************************************************************)
passed == IF bucket.count < MaxPerWindow THEN bucket.count ELSE MaxPerWindow

Windows ==
    /\ bucket \in Bucket /\ bucket.resetAt <= now + Window
    /\ passed <= Len(admitted)
    /\ \A i \in 1..Len(admitted) :
           /\ admitted[i] <= bucket.resetAt
           /\ i <= Len(admitted) - passed => admitted[i] + Window < bucket.resetAt
           /\ i <= Len(admitted) - passed - MaxPerWindow =>
                  admitted[i] + Window + Window < bucket.resetAt

WindowInv ==
    /\ now \in Nat /\ admitted \in Seq(Nat)
    /\ IF bucket = None THEN admitted = <<>> ELSE Windows
    /\ AdmittedPerWindow

LEMMA CountedStep ==
    ASSUME WindowInv, NEW passes \in BOOLEAN, Counted(passes), now' = now
    PROVE  WindowInv'
<1>. /\ now \in Nat /\ Window \in Nat \ {0} /\ MaxPerWindow \in Nat \ {0} /\ None \notin Bucket
     /\ admitted \in Seq(Nat) /\ Len(admitted) \in Nat
  BY LoginAssumption DEF WindowInv
<1>. DEFINE n == Len(admitted)
<1>1. bucket # None => /\ bucket \in Bucket /\ bucket.count \in Nat /\ bucket.resetAt \in Nat
                       /\ passed \in Nat /\ passed <= MaxPerWindow
  BY DEF WindowInv, Windows, Bucket, passed
<1>2. currentBucket \in Bucket
  BY <1>1 DEF currentBucket, Bucket
<1>3. /\ bucket' \in Bucket /\ bucket' # None
      /\ bucket'.count = currentBucket.count + 1 /\ bucket'.resetAt = currentBucket.resetAt
  BY <1>2 DEF Counted, Bucket
<1>4. CASE ~passes
  <2>1. /\ currentBucket.count = MaxPerWindow /\ admitted' = admitted
    BY <1>4 DEF Counted
  <2>2. bucket # None /\ currentBucket = bucket
    BY <2>1 DEF currentBucket
  <2>3. passed' = passed
    BY <1>3, <2>1, <2>2 DEF passed
  <2>. QED
    BY <1>3, <2>1, <2>2, <2>3 DEF WindowInv, Windows, AdmittedPerWindow
<1>5. CASE passes
  <2>1. /\ currentBucket.count < MaxPerWindow /\ admitted' = Append(admitted, now)
    BY <1>5 DEF Counted
  <2>2. /\ admitted' \in Seq(Nat) /\ Len(admitted') = n + 1 /\ admitted'[n + 1] = now
        /\ \A i \in 1..n : admitted'[i] = admitted[i] /\ admitted[i] \in Nat
    BY <2>1
  <2>3. passed' = currentBucket.count + 1
    BY <1>2, <1>3, <2>1 DEF passed, Bucket
  <2>4. Windows'
    <3>1. CASE bucket = None
      <4>1. n = 0 /\ currentBucket = [count |-> 0, resetAt |-> now + Window]
        BY <3>1 DEF WindowInv, currentBucket
      <4>. QED
        BY <4>1, <1>3, <2>2, <2>3 DEF Windows
    <3>2. CASE bucket # None /\ now > bucket.resetAt
      <4>1. currentBucket = [count |-> 0, resetAt |-> now + Window]
        BY <3>2 DEF currentBucket
      <4>2. bucket'.resetAt = now + Window /\ passed' = 1
        BY <4>1, <1>3, <2>3
      <4>3. Windows
        BY <3>2 DEF WindowInv
      <4>4. ASSUME NEW i \in 1..n
            PROVE  /\ admitted'[i] \in Nat /\ admitted'[i] < now
                   /\ i <= n - MaxPerWindow => admitted'[i] + Window < now
        <5>1. /\ admitted'[i] = admitted[i] /\ admitted[i] \in Nat
              /\ admitted[i] <= bucket.resetAt
              /\ i <= n - passed => admitted[i] + Window < bucket.resetAt
          BY <2>2, <4>3 DEF Windows
        <5>. QED
          BY <5>1, <3>2, <1>1
      <4>5. ASSUME NEW i \in 1..(n + 1)
            PROVE  /\ admitted'[i] <= bucket'.resetAt
                   /\ i <= n + 1 - passed' => admitted'[i] + Window < bucket'.resetAt
                   /\ i <= n + 1 - passed' - MaxPerWindow =>
                          admitted'[i] + Window + Window < bucket'.resetAt
        <5>1. CASE i = n + 1
          BY <5>1, <4>2, <2>2
        <5>2. CASE i # n + 1
          <6>1. i \in 1..n
            BY <5>2
          <6>2. /\ admitted'[i] \in Nat /\ admitted'[i] < now
                /\ i <= n - MaxPerWindow => admitted'[i] + Window < now
            BY <6>1, <4>4
          <6>3. admitted'[i] <= bucket'.resetAt
            BY <6>2, <4>2
          <6>4. admitted'[i] + Window < bucket'.resetAt
            BY <6>2, <4>2
          <6>5. i <= n - MaxPerWindow => admitted'[i] + Window + Window < bucket'.resetAt
            BY <6>2, <4>2
          <6>6. n + 1 - passed' - MaxPerWindow = n - MaxPerWindow
            BY <4>2
          <6>. QED
            BY <6>3, <6>4, <6>5, <6>6
        <5>. QED
          BY <5>1, <5>2
      <4>. QED
        BY <4>2, <4>5, <1>3, <2>2 DEF Windows
    <3>3. CASE bucket # None /\ ~(now > bucket.resetAt)
      <4>1. currentBucket = bucket
        BY <3>3 DEF currentBucket
      <4>2. bucket'.resetAt = bucket.resetAt /\ passed' = passed + 1
        BY <4>1, <1>1, <1>3, <2>1, <2>3 DEF passed
      <4>3. Windows
        BY <3>3 DEF WindowInv
      <4>4. ASSUME NEW i \in 1..(n + 1)
            PROVE  /\ admitted'[i] <= bucket'.resetAt
                   /\ i <= n + 1 - passed' => admitted'[i] + Window < bucket'.resetAt
                   /\ i <= n + 1 - passed' - MaxPerWindow =>
                          admitted'[i] + Window + Window < bucket'.resetAt
        <5>1. CASE i = n + 1
          BY <5>1, <3>3, <4>2, <2>2, <1>1
        <5>2. CASE i # n + 1
          <6>1. i \in 1..n
            BY <5>2
          <6>2. n + 1 - passed' = n - passed
            BY <4>2, <1>1, <3>3
          <6>3. /\ admitted[i] <= bucket.resetAt
                /\ i <= n - passed => admitted[i] + Window < bucket.resetAt
                /\ i <= n - passed - MaxPerWindow => admitted[i] + Window + Window < bucket.resetAt
            BY <6>1, <4>3 DEF Windows
          <6>4. admitted'[i] = admitted[i]
            BY <6>1, <2>2
          <6>. QED
            BY <6>2, <6>3, <6>4, <4>2
        <5>. QED
          BY <5>1, <5>2
      <4>5. bucket'.resetAt <= now' + Window
        BY <4>2, <4>3 DEF Windows
      <4>6. passed' <= Len(admitted')
        BY <4>2, <4>3, <2>2, <1>1, <3>3 DEF Windows
      <4>7. passed' \in Nat /\ bucket'.resetAt \in Nat
        BY <4>2, <1>1, <3>3
      <4>. QED
        <5>1. Len(admitted') = n + 1
          BY <2>2
        <5>2. \A i \in 1..Len(admitted') :
                 /\ admitted'[i] <= bucket'.resetAt
                 /\ i <= Len(admitted') - passed' => admitted'[i] + Window < bucket'.resetAt
                 /\ i <= Len(admitted') - passed' - MaxPerWindow =>
                        admitted'[i] + Window + Window < bucket'.resetAt
          BY <5>1, <4>4, <4>7
        <5>. QED
          BY <5>2, <4>5, <4>6, <1>3, Zenon DEF Windows
    <3>. QED
      BY <3>1, <3>2, <3>3
  <2>5. AdmittedPerWindow'
    <3>. SUFFICES ASSUME NEW i \in 1..(n + 1 - 2 * MaxPerWindow)
                  PROVE  admitted'[i + 2 * MaxPerWindow] > admitted'[i] + Window
      BY <2>2 DEF AdmittedPerWindow
    <3>1. CASE i + 2 * MaxPerWindow <= n
      <4>1. i \in 1..(n - 2 * MaxPerWindow) /\ i \in 1..n /\ i + 2 * MaxPerWindow \in 1..n
        BY <3>1
      <4>. QED
        BY <4>1, <2>2 DEF WindowInv, AdmittedPerWindow
    <3>2. CASE i + 2 * MaxPerWindow = n + 1
      <4>1. i \in 1..(n + 1) /\ i <= n + 1 - passed' - MaxPerWindow
        BY <3>2, <1>2, <2>1, <2>3 DEF Bucket
      <4>2. admitted'[i] + Window + Window < bucket'.resetAt /\ bucket'.resetAt <= now + Window
        <5>1. Len(admitted') = n + 1
          BY <2>2
        <5>2. passed' \in Nat /\ bucket'.resetAt \in Nat
          BY <1>2, <1>3, <2>3 DEF Bucket
        <5>3. i \in 1..Len(admitted') /\ i <= Len(admitted') - passed' - MaxPerWindow
          BY <5>1, <5>2, <4>1
        <5>4. admitted'[i] + Window + Window < bucket'.resetAt
          BY <5>3, <2>4, Zenon DEF Windows
        <5>5. bucket'.resetAt <= now + Window
          BY <2>4 DEF Windows
        <5>. QED
          BY <5>4, <5>5
      <4>3. admitted'[i] \in Nat
        <5>1. i \in 1..Len(admitted')
          BY <4>1, <2>2
        <5>. QED
          BY <5>1, <2>2, ElementOfSeq
      <4>4. bucket'.resetAt \in Nat
        BY <1>3 DEF Bucket
      <4>. QED
        <5>1. admitted'[i + 2 * MaxPerWindow] = now
          BY <3>2, <2>2
        <5>2. now > admitted'[i] + Window
          BY <4>2, <4>3, <4>4
        <5>. QED
          BY <5>1, <5>2
    <3>. QED
      BY <3>1, <3>2
  <2>. QED
    BY <1>3, <2>2, <2>4, <2>5 DEF WindowInv
<1>. QED
  BY <1>4, <1>5

LEMMA WindowKeeps ==
    ASSUME WindowInv, UNCHANGED <<bucket, admitted>>, now' = now \/ now' = now + 1
    PROVE  WindowInv'
<1>1. now' \in Nat /\ admitted' \in Seq(Nat) /\ AdmittedPerWindow'
  BY DEF WindowInv, AdmittedPerWindow
<1>2. CASE bucket = None
  BY <1>1, <1>2 DEF WindowInv
<1>3. CASE bucket # None
  <2>1. Windows /\ passed' = passed /\ now \in Nat /\ Window \in Nat /\ bucket.resetAt \in Nat
    BY <1>3, LoginAssumption DEF WindowInv, Windows, Bucket, passed
  <2>2. bucket'.resetAt <= now' + Window
    BY <2>1 DEF Windows
  <2>3. Windows'
    BY <2>1, <2>2 DEF Windows
  <2>. QED
    BY <1>1, <1>3, <2>3 DEF WindowInv
<1>. QED
  BY <1>2, <1>3

LEMMA WindowStep ==
    ASSUME WindowInv, [Next]_vars
    PROVE  WindowInv'
<1>1. CASE UNCHANGED <<now, bucket, admitted>>
  BY <1>1, WindowKeeps
<1>2. CASE TooMany
  BY <1>2, CountedStep DEF TooMany
<1>4. CASE Tick
  BY <1>4, WindowKeeps DEF Tick
<1>5. CASE Restart
  <2>1. /\ bucket' = None /\ admitted' = <<>> /\ now' = now
        /\ Len(<<>>) = 0 /\ MaxPerWindow \in Nat \ {0}
    BY <1>5, LoginAssumption DEF Restart
  <2>2. <<>> \in Seq(Nat)
    OBVIOUS
  <2>3. AdmittedPerWindow'
    BY <2>1 DEF AdmittedPerWindow
  <2>. QED
    BY <2>1, <2>2, <2>3 DEF WindowInv
<1>6. CASE UNCHANGED vars
  BY <1>1, <1>6 DEF vars
<1>7. CASE \/ \E e \in Emails, right \in BOOLEAN : Login(e, right)
           \/ \E f \in Flows : Start(f)
           \/ \E k \in Calls, e \in Emails, role \in Roles : Direct(k, e, role)
           \/ \E k \in Calls, f, code \in Flows, sameUri \in BOOLEAN : Callback(k, f, code, sameUri)
  <2>1. now' = now /\ (Counted(TRUE) \/ UNCHANGED <<bucket, admitted>>)
    BY <1>7 DEF Login, Start, Direct, Callback, Admitted
  <2>. QED
    BY <1>1, <2>1, CountedStep
<1>8. CASE \/ \E f \in Flows, e \in Emails : SignIn(f, e)
           \/ \E k \in Calls, role \in Roles : Exchanged(k, role)
           \/ \E k \in Calls : CallFails(k) \/ Validated(k)
           \/ \E e \in Emails, u \in User : UpdateUser(e, u)
           \/ OpenTransaction \/ Commit \/ Rollback
  <2>. UNCHANGED <<now, bucket, admitted>>
    BY <1>8 DEF SignIn, Exchanged, CallFails, Validated, UpdateUser, OpenTransaction, Commit, Rollback
  <2>. QED
    BY <1>1
<1>. QED
  BY <1>2, <1>4, <1>5, <1>6, <1>7, <1>8 DEF Next

-----------------------------------------------------------------------------
(***************************************************************************)
(* The last facts about types: the two bounds LoginTypeOK adds.             *)
(***************************************************************************)
Bounded ==
    /\ pending \in [Flows -> {None} \cup 0..MaxTime]
    /\ bucket # None => bucket.count \in 1..(MaxPerWindow + 1)

LEMMA BoundedStep ==
    ASSUME Bounded, KeptInv, WindowInv, [Next]_vars
    PROVE  Bounded'
<1>. now \in 0..MaxTime /\ MaxPerWindow \in Nat \ {0} /\ None \notin Bucket
  BY LoginAssumption DEF KeptInv, KeptTypes
<1>1. ASSUME NEW passes \in BOOLEAN, Counted(passes)
      PROVE  bucket'.count \in 1..(MaxPerWindow + 1)
  <2>1. currentBucket \in Bucket /\ currentBucket.count <= MaxPerWindow
    BY <1>1, LoginAssumption DEF Counted, currentBucket, Bucket, WindowInv, Windows
  <2>2. bucket'.count = currentBucket.count + 1
    BY <1>1, <2>1 DEF Counted, Bucket
  <2>. QED
    BY <2>1, <2>2 DEF Bucket
<1>2. CASE UNCHANGED <<pending, bucket>>
  BY <1>2 DEF Bounded
<1>3. CASE Restart
  BY <1>3 DEF Restart, Bounded
<1>4. CASE \E passes \in BOOLEAN : Counted(passes) /\ pending' = pending
  BY <1>1, <1>4 DEF Bounded
<1>5. CASE /\ Counted(TRUE) \/ bucket' = bucket
           /\ \E f \in Flows : pending' = [pending EXCEPT ![f] = now]
  BY <1>1, <1>5 DEF Bounded
<1>6. CASE /\ Counted(TRUE) \/ bucket' = bucket
           /\ \E f \in Flows : pending' = [pending EXCEPT ![f] = None]
  BY <1>1, <1>6 DEF Bounded
<1>7. CASE TooMany
  BY <1>4, <1>7 DEF TooMany, federation
<1>8. CASE \/ \E e \in Emails, right \in BOOLEAN : Login(e, right)
           \/ \E k \in Calls, e \in Emails, role \in Roles : Direct(k, e, role)
  <2>. pending' = pending /\ (Counted(TRUE) \/ bucket' = bucket)
    BY <1>8 DEF Login, Direct, Admitted, federation
  <2>. QED
    BY <1>2, <1>4
<1>9. CASE \E f \in Flows : Start(f)
  BY <1>5, <1>9 DEF Start, Admitted
<1>10. CASE \E k \in Calls, f, code \in Flows, sameUri \in BOOLEAN : Callback(k, f, code, sameUri)
  BY <1>6, <1>10 DEF Callback, Admitted, taken
<1>11. CASE \/ UNCHANGED vars \/ Tick \/ OpenTransaction \/ Commit \/ Rollback
            \/ \E f \in Flows, e \in Emails : SignIn(f, e)
            \/ \E k \in Calls, role \in Roles : Exchanged(k, role)
            \/ \E k \in Calls : CallFails(k) \/ Validated(k)
            \/ \E e \in Emails, u \in User : UpdateUser(e, u)
  <2>. UNCHANGED <<pending, bucket>>
    BY <1>11 DEF SignIn, Exchanged, CallFails, Validated, UpdateUser, OpenTransaction, Commit,
                 Rollback, Tick, vars, federation
  <2>. QED
    BY <1>2
<1>. QED
  BY <1>3, <1>7, <1>8, <1>9, <1>10, <1>11 DEF Next

-----------------------------------------------------------------------------
LoginInv == KeptInv /\ FlowInv /\ WindowInv /\ Bounded

LEMMA InitInv ==
    ASSUME Init
    PROVE  LoginInv
<1>. MaxTime \in Nat /\ Lockout \in Nat \ {0} /\ FailedLoginLimit \in Nat \ {0}
     /\ MaxPerWindow \in Nat \ {0} /\ None # "undrawn"
  BY LoginAssumption
<1>. << >> \in Seq(Nat) /\ Len(<< >>) = 0
  OBVIOUS
<1>1. KeptTypes
  <2>1. users \in [Emails -> {None} \cup User]
    BY DEF Init, User
  <2>2. noFailure \in Failure /\ noFailure.lockedUntil = 0
    BY DEF noFailure, Failure
  <2>3. failure \in [Emails -> Failure] /\ NoLockAhead(failure)
    BY <2>2 DEF Init, NoLockAhead
  <2>. QED
    BY <2>1, <2>3 DEF Init, KeptTypes
<1>2. Guesses
  BY DEF Init, Guesses, Follows, noFailure
<1>3. FlowInv
  BY DEF Init, FlowInv, FlowTypes, DrawnOnce, SignedIn, StateUsedOnce, Under, In
<1>4. WindowInv
  BY DEF Init, WindowInv, AdmittedPerWindow
<1>5. Bounded
  BY DEF Init, Bounded
<1>. QED
  BY <1>1, <1>2, <1>3, <1>4, <1>5 DEF LoginInv, KeptInv

LEMMA InvHolds == Spec => []LoginInv
<1>1. ASSUME LoginInv, [Next]_vars
      PROVE  LoginInv'
  <2>1. now \in Nat
    BY <1>1 DEF LoginInv, WindowInv
  <2>. QED
    BY <1>1, <2>1, FlowStep, KeptStep, WindowStep, BoundedStep DEF LoginInv
<1>. QED
  BY <1>1, InitInv, PTL DEF Spec

\* The values the maps of the two modules hold, for any number of addresses,
\* states and requests.
THEOREM TypeCorrect == Spec => []LoginTypeOK
<1>1. LoginInv => LoginTypeOK
  BY DEF LoginInv, KeptInv, KeptTypes, NoLockAhead, WindowInv, Windows, Bounded, LoginTypeOK
<1>. QED
  BY <1>1, InvHolds, PTL

\* Wrong passwords from the FailedLoginLimit-th on are a whole lockout apart,
\* as long as no failure was lost: the count is the number of the guesses and
\* the lock runs from the last of them.
THEOREM Spacing == Spec => []GuessesSpaced
<1>1. LoginInv => GuessesSpaced
  BY DEF LoginInv, KeptInv, Guesses, Follows, GuessesSpaced
<1>. QED
  BY <1>1, InvHolds, PTL

\* Two full windows that meet are the most a stretch of Window can take of
\* one address, for any limit and any length of the window.
THEOREM Limiting == Spec => []AdmittedPerWindow
<1>1. LoginInv => AdmittedPerWindow
  BY DEF LoginInv, WindowInv
<1>. QED
  BY <1>1, InvHolds, PTL

\* A state opens one session at most, however many callbacks with it are
\* awaiting the provider at once.
THEOREM OneSession == Spec => []StateUsedOnce
<1>1. LoginInv => StateUsedOnce
  BY DEF LoginInv, FlowInv, DrawnOnce
<1>. QED
  BY <1>1, InvHolds, PTL

\* A session opened through a state belongs to who signed in for it, a user
\* who is enabled and has that role when it opens.
THEOREM Identity == Spec => SessionIsWhoSignedIn
<1>1. ASSUME LoginInv, [Next]_vars
      PROVE  [\A s \in opened' \ opened :
                  /\ s.flow # None => provider[s.flow] = s.user
                  /\ users[s.user] \in [enabled : {TRUE}, role : {s.role}]]_vars
  <2>1. CASE opened' = opened
    BY <2>1
  <2>2. CASE \E k \in Calls : Validated(k) /\ provisioned(calls[k])
    <3>1. PICK k \in Calls : Validated(k) /\ provisioned(calls[k])
      BY <2>2
    <3>2. calls[k] \in Keys /\ In(k, Keys)
      BY <1>1, <3>1, Stages DEF Validated, LoginInv, FlowInv, FlowTypes, In
    <3>3. calls[k].flow # None => provider[calls[k].flow] = calls[k].who
      BY <1>1, <3>2 DEF LoginInv, FlowInv, SignedIn
    <3>4. users[calls[k].who] \in User
      BY <1>1, <3>1, <3>2, Stages DEF provisioned, LoginInv, KeptInv, KeptTypes
    <3>5. users[calls[k].who] \in [enabled : {TRUE}, role : {calls[k].role}]
      BY <3>1, <3>4 DEF provisioned, User
    <3>6. \A s \in opened' \ opened :
              s.user = calls[k].who /\ s.flow = calls[k].flow /\ s.role = calls[k].role
      BY <3>1 DEF Validated
    <3>. QED
      BY <3>3, <3>5, <3>6
  <2>. QED
    BY <1>1, <2>1, <2>2
    DEF Next, vars, TooMany, Login, Start, SignIn, Direct, Callback, Exchanged, CallFails,
        Validated, Tick, UpdateUser, OpenTransaction, Commit, Rollback, Restart, federation
<1>. QED
  BY <1>1, InvHolds, PTL DEF Spec, SessionIsWhoSignedIn
=============================================================================
