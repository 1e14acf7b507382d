---------------------------- MODULE SiemOutbox ----------------------------
(***************************************************************************)
(* The SIEM outbox: audit events queue in state.integrationOutbox, newest  *)
(* first and cut at a limit, and an interval timer starts runs of the      *)
(* delivery worker.  A run walks the array it found when it started and    *)
(* awaits the receiver's answer for one item after the other.  Meanwhile   *)
(* handlers queue events, other runs start, a transaction that awaits a    *)
(* ticket commits or rolls back, and the process may die.                  *)
(* Nothing keeps a run from starting while another one still awaits.       *)
(***************************************************************************)
EXTENDS Naturals, Sequences, FiniteSets

CONSTANTS Runs,         \* delivery runs that can be under way together
          OutboxLimit,  \* config.integrations.outboxLimit
          MaxAttempts,  \* config.integrations.siemMaxAttempts
          UrlAtStart,   \* whether the environment names a webhook
          Reconfigured, \* whether an administrator changes the webhook
          MaxEvents,    \* bound: audit events
          MaxRestores,  \* bound: rollbacks and crashes
          Idle,         \* no run under way
          NoTxn         \* no transaction open

VARIABLES
  outbox,    \* store.state.integrationOutbox: events, newest first
  copy,      \* how often the objects of the state were replaced by copies
  heap,      \* the item objects; a run may hold those of an older copy
  made,      \* audit events so far, each with a fresh id
  url,       \* config.integrations.siemWebhookUrl is set
  txn,       \* what a rollback returns to, and whether a save was asked for
  disk,      \* the saved outbox
  runs,      \* the delivery runs
  received,  \* events the receiver accepted
  sends      \* calls of fetch for each event

vars == <<outbox, copy, heap, made, url, txn, disk, runs, received, sends>>
---------------------------------------------------------------------------
Events == 1..MaxEvents
Copies == 0..MaxRestores

\* "local" is a queued item whose target is local-outbox: no run takes it.
Item == [status : {"none", "local", "queued", "retrying", "delivered", "failed"},
         attempts : Nat,
         waiting : BOOLEAN]     \* nextAttemptAt lies ahead

NoItem == [status |-> "none", attempts |-> 0, waiting |-> FALSE]

queued(u) == [NoItem EXCEPT !.status = IF u THEN "queued" ELSE "local"]

\* list is the array the run iterates, at its position, item the one whose
\* answer it awaits; attached says that list is still the state's own array,
\* due are the items whose nextAttemptAt is not after the run's dueAt, and
\* addressed that a webhook was configured when the item was sent.
Run == [copy : Copies, list : Seq(Events), attached : BOOLEAN, at : Nat,
        item : Events, due : SUBSET Events, addressed : BOOLEAN]

Box == {s \in Seq(Events) : Len(s) <= OutboxLimit}
Items == [Events -> Item]
Stored == [outbox : Box, items : Items]
Snapshot == [outbox : Box, items : Items, save : BOOLEAN]

ASSUME SiemOutboxAssumption ==
  /\ IsFiniteSet(Runs)
  /\ OutboxLimit \in Nat /\ MaxAttempts \in Nat \ {0}
  /\ MaxEvents \in Nat /\ MaxRestores \in Nat
  /\ UrlAtStart \in BOOLEAN /\ Reconfigured \in BOOLEAN
  /\ Idle \notin Run /\ NoTxn \notin Snapshot

Elements(s) == {s[i] : i \in DOMAIN s}
items == heap[copy]
Active(r) == runs[r] # Idle
Awaiting(c, e) == {r \in Runs : Active(r) /\ runs[r].copy = c /\ runs[r].item = e}

Init ==
  /\ outbox = <<>>
  /\ copy = 0
  /\ heap = [c \in Copies |-> [e \in Events |-> NoItem]]
  /\ made = 0
  /\ url = UrlAtStart
  /\ txn = NoTxn
  /\ disk = [outbox |-> <<>>, items |-> [e \in Events |-> NoItem]]
  /\ runs = [r \in Runs |-> Idle]
  /\ received = {}
  /\ sends = [e \in Events |-> 0]
---------------------------------------------------------------------------
(* Saving: what is in the array, nothing else.                             *)

Kept(box, its) == [e \in Events |-> IF e \in Elements(box) THEN its[e] ELSE NoItem]

save(box, its) ==
  IF txn = NoTxn
  THEN /\ disk' = [outbox |-> box, items |-> Kept(box, its)]
       /\ UNCHANGED txn
  ELSE /\ txn' = [txn EXCEPT !.save = TRUE]
       /\ UNCHANGED disk

(* audit() queues one item: unshift on the array a run may be walking, then *)
(* a new array cut at the limit.                                            *)

Cut(s) == SubSeq(s, 1, IF Len(s) < OutboxLimit THEN Len(s) ELSE OutboxLimit)

Shifted(e) ==
  [r \in Runs |-> IF Active(r) /\ runs[r].attached
                  THEN [runs[r] EXCEPT !.list = <<e>> \o @, !.attached = FALSE]
                  ELSE runs[r]]

enqueueIntegrationEvent(u) ==
  /\ made < MaxEvents
  /\ made' = made + 1
  /\ heap' = [heap EXCEPT ![copy] = [@ EXCEPT ![made + 1] = queued(u)]]
  /\ outbox' = Cut(<<made + 1>> \o outbox)
  /\ runs' = Shifted(made + 1)

AuditedHandler ==
  /\ enqueueIntegrationEvent(url)
  /\ save(outbox', heap'[copy])
  /\ UNCHANGED <<copy, url, received, sends>>

\* PATCH /integrations/config; the worker is not started or stopped by it.
updateIntegrationConfig ==
  /\ Reconfigured
  /\ url' = ~url
  /\ enqueueIntegrationEvent(url')
  /\ save(outbox', heap'[copy])
  /\ UNCHANGED <<copy, received, sends>>
---------------------------------------------------------------------------
(* Transactions and the process.                                           *)

TxnOpens ==
  /\ txn = NoTxn
  /\ txn' = [outbox |-> outbox, items |-> Kept(outbox, items), save |-> FALSE]
  /\ UNCHANGED <<outbox, copy, heap, made, url, disk, runs, received, sends>>

\* The request was recorded, and so audited.
TxnRecords ==
  /\ txn # NoTxn
  /\ txn' = NoTxn
  /\ enqueueIntegrationEvent(url)
  /\ disk' = [outbox |-> outbox', items |-> Kept(outbox', heap'[copy])]
  /\ UNCHANGED <<copy, url, received, sends>>

\* The request existed already: only a save that others asked for is made.
TxnEnds ==
  /\ txn # NoTxn
  /\ txn' = NoTxn
  /\ disk' = IF txn.save THEN [outbox |-> outbox, items |-> Kept(outbox, items)] ELSE disk
  /\ UNCHANGED <<outbox, copy, heap, made, url, runs, received, sends>>

\* A state of other objects: a run keeps those it has.
Restored(from) ==
  /\ copy < MaxRestores
  /\ copy' = copy + 1
  /\ outbox' = from.outbox
  /\ heap' = [heap EXCEPT ![copy + 1] = from.items]
  /\ txn' = NoTxn

\* The awaited ticket was refused, or, without an open transaction, a
\* handler with a transaction of its own threw: its snapshot is the state.
rollbackTransaction ==
  /\ Restored(IF txn = NoTxn
              THEN [outbox |-> outbox, items |-> Kept(outbox, items)] ELSE txn)
  /\ runs' = [r \in Runs |-> IF Active(r) THEN [runs[r] EXCEPT !.attached = FALSE] ELSE Idle]
  /\ UNCHANGED <<made, url, disk, received, sends>>

\* The receiver may have accepted what was under way.
Crash ==
  /\ Restored(disk)
  /\ runs' = [r \in Runs |-> Idle]
  /\ url' = UrlAtStart
  /\ \E taken \in SUBSET {runs[r].item : r \in {q \in Runs : Active(q)}} :
        received' = received \cup taken
  /\ UNCHANGED <<made, disk, sends>>
---------------------------------------------------------------------------
(* The delivery worker.                                                    *)

\* Wrong: an item is tried once only.
OpenQueuedOnly(item) == item.status = "queued"

Open(item) == item.status \in {"queued", "retrying"}

Takes(its, run, i) == run.list[i] \in run.due /\ Open(its[run.list[i]])

\* The loop goes on at position from: to the next item it takes, or to its end.
Reaches(its, run, from, i) ==
  /\ i \in from..Len(run.list)
  /\ Takes(its, run, i)
  /\ \A j \in from..(i - 1) : ~Takes(its, run, j)

Exhausted(its, run, from) == \A i \in from..Len(run.list) : ~Takes(its, run, i)

tried(item) == [item EXCEPT !.attempts = @ + 1]

Sent(its, e) == [its EXCEPT ![e] = tried(@)]

Moved(run, i) == [run EXCEPT !.at = i, !.item = run.list[i], !.addressed = url]

\* The timer fires and finds an item to send; without one nothing changes.  Runs
\* are alike: the new one takes the first name that is free.
Start(r) ==
  /\ UrlAtStart /\ url
  /\ ~Active(r) /\ r = CHOOSE q \in Runs : ~Active(q)
  /\ \E i \in 1..Len(outbox) :
       LET due == {e \in Elements(outbox) : ~items[e].waiting}
           run == [copy |-> copy, list |-> outbox, attached |-> TRUE,
                   at |-> i, item |-> outbox[i], due |-> due, addressed |-> url]
       IN /\ Reaches(items, run, 1, i)
          /\ runs' = [runs EXCEPT ![r] = run]
          /\ heap' = [heap EXCEPT ![copy] = Sent(@, outbox[i])]
          /\ sends' = [sends EXCEPT ![outbox[i]] = @ + 1]
  /\ UNCHANGED <<outbox, copy, made, url, txn, disk, received>>

\* Wrong: any answer of the receiver counts as delivered.
settledByAnyAnswer(item, ok) == [item EXCEPT !.status = "delivered"]

settled(item, ok) ==
  IF ok THEN [item EXCEPT !.status = "delivered"]
  ELSE IF item.attempts >= MaxAttempts THEN [item EXCEPT !.status = "failed"]
  ELSE [item EXCEPT !.status = "retrying", !.waiting = TRUE]

\* Wrong: the next attempt is not put off.
postponedNot(c, e) == runs

\* A nextAttemptAt set now is after the dueAt of every run under way.
postponed(c, e) ==
  [r \in Runs |-> IF Active(r) /\ runs[r].copy = c
                  THEN [runs[r] EXCEPT !.due = @ \ {e}] ELSE runs[r]]

\* ok: status 2xx.  Otherwise the event may have been accepted all the same.
\* With an empty address fetch throws: a failed attempt, nothing accepted.
Answer(r, ok, accepted) ==
  /\ Active(r)
  /\ ok => accepted
  /\ accepted => runs[r].addressed
  /\ LET c == runs[r].copy
         e == runs[r].item
         its == [heap[c] EXCEPT ![e] = settled(@, ok)]
         after == IF its[e].status = "retrying" THEN postponed(c, e) ELSE runs
         run == after[r]
     IN /\ received' = IF accepted THEN received \cup {e} ELSE received
        /\ \/ \E i \in 1..Len(run.list) :
                /\ Reaches(its, run, run.at + 1, i)
                /\ runs' = [after EXCEPT ![r] = Moved(run, i)]
                /\ heap' = [heap EXCEPT ![c] = Sent(its, run.list[i])]
                /\ sends' = [sends EXCEPT ![run.list[i]] = @ + 1]
                /\ UNCHANGED <<txn, disk>>
           \/ /\ Exhausted(its, run, run.at + 1)
              /\ runs' = [after EXCEPT ![r] = Idle]
              /\ heap' = [heap EXCEPT ![c] = its]
              /\ save(outbox, heap'[copy])
              /\ UNCHANGED sends
  /\ UNCHANGED <<outbox, copy, made, url>>

\* The retry delay of an item runs out.
elapsed(item) == [item EXCEPT !.waiting = FALSE]

DelayElapses(e) ==
  /\ items[e].waiting
  /\ heap' = [heap EXCEPT ![copy] = [@ EXCEPT ![e] = elapsed(items[e])]]
  /\ UNCHANGED <<outbox, copy, made, url, txn, disk, runs, received, sends>>

Next ==
  \/ AuditedHandler \/ updateIntegrationConfig
  \/ TxnOpens \/ TxnRecords \/ TxnEnds \/ rollbackTransaction \/ Crash
  \/ \E r \in Runs : Start(r)
  \/ \E r \in Runs, ok, accepted \in BOOLEAN : Answer(r, ok, accepted)
  \/ \E e \in Events : DelayElapses(e)

Spec == Init /\ [][Next]_vars

\* The timer goes on firing, time passes, and every request is answered,
\* if only by the client's own time limit.
Fairness ==
  /\ WF_vars(\E r \in Runs : Start(r))
  /\ WF_vars(\E r \in Runs, ok, accepted \in BOOLEAN : Answer(r, ok, accepted))
  /\ WF_vars(\E e \in Events : DelayElapses(e))

FairSpec == Spec /\ Fairness
---------------------------------------------------------------------------
(* Properties.                                                             *)

\* The types; the outbox never exceeds its limit.
TypeOK ==
  /\ outbox \in Box
  /\ copy \in Copies
  /\ heap \in [Copies -> Items]
  /\ made \in 0..MaxEvents
  /\ url \in BOOLEAN
  /\ txn \in Snapshot \cup {NoTxn}
  /\ disk \in Stored
  /\ runs \in [Runs -> Run \cup {Idle}]
  /\ received \in SUBSET Events
  /\ sends \in [Events -> Nat]

\* What the outbox, its saved copy or a snapshot calls delivered was accepted
\* by the receiver, whichever run's answer came last and whatever was restored.
DeliveredIsReceived ==
  \A e \in Events :
    /\ \A c \in Copies : heap[c][e].status = "delivered" => e \in received
    /\ disk.items[e].status = "delivered" => e \in received
    /\ txn # NoTxn /\ txn.items[e].status = "delivered" => e \in received

\* An event is given up only after as many tries as are configured.
GivenUpAfterMax ==
  \A c \in Copies, e \in Events :
    heap[c][e].status = "failed" => sends[e] >= MaxAttempts

\* Runs that overlap can exceed the configured attempts, but only by one try
\* for each of the other runs, and again for each time the state was replaced.
AttemptsBounded ==
  \A c \in Copies, e \in Events :
    heap[c][e].attempts <= MaxAttempts - 1 + Cardinality(Runs) * (1 + c)

\* A run never sends one item twice, although unshift moves the array under
\* its iterator so that it meets the awaited item once more.
NeverTwiceInOneRun ==
  [][\A r \in Runs : Active(r) /\ Active(r)' /\ runs'[r].at # runs[r].at
                       => runs'[r].item # runs[r].item]_vars

\* While a webhook is configured no item waits for ever: of the MaxEvents events
\* there are in all, again and again none in the outbox is still to be sent: each
\* was delivered, given up or cut off, also after a rollback or a restart.
QueuedIsSettled ==
  []<>(url => \A e \in Elements(outbox) : items[e].status \notin {"queued", "retrying"})
===========================================================================
