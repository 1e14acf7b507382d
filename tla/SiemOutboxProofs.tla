-------------------------- MODULE SiemOutboxProofs --------------------------
(***************************************************************************)
(* Machine-checked proofs about SiemOutbox, for any runs, limits, numbers  *)
(* of attempts and bounds.                                                 *)
(***************************************************************************)
EXTENDS SiemOutbox, FiniteSetTheorems, TLAPS

-----------------------------------------------------------------------------
(***************************************************************************)
(* Types.                                                                  *)
(***************************************************************************)
LEMMA NoItemType == NoItem \in Item
BY DEF NoItem, Item

LEMMA QueuedType == \A u : queued(u) \in Item
BY DEF queued, NoItem, Item

LEMMA SettledType ==
    ASSUME NEW item \in Item, NEW ok
    PROVE  settled(item, ok) \in Item
BY DEF settled, Item

\* What an answer does to an item.
LEMMA SettledFields ==
    ASSUME NEW item \in Item, NEW ok \in BOOLEAN
    PROVE  /\ settled(item, ok).attempts = item.attempts
           /\ ok => settled(item, ok).status = "delivered"
           /\ ~ok /\ item.attempts >= MaxAttempts => settled(item, ok).status = "failed"
           /\ ~ok /\ ~(item.attempts >= MaxAttempts) => settled(item, ok).status = "retrying"
<1>1. CASE ok
  BY <1>1 DEF settled, Item
<1>2. CASE ~ok /\ item.attempts >= MaxAttempts
  BY <1>2 DEF settled, Item
<1>3. CASE ~ok /\ ~(item.attempts >= MaxAttempts)
  <2>1. settled(item, ok) = [item EXCEPT !.status = "retrying", !.waiting = TRUE]
    BY <1>3 DEF settled
  <2>. QED
    BY <1>3, <2>1 DEF Item
<1>. QED
  BY <1>1, <1>2, <1>3

LEMMA KeptType ==
    ASSUME NEW box, NEW its \in Items
    PROVE  Kept(box, its) \in Items
BY NoItemType DEF Kept, Items

LEMMA SentType ==
    ASSUME NEW its \in Items, NEW e \in Events
    PROVE  Sent(its, e) \in Items
<1>1. its[e] \in Item
  BY DEF Items
<1>2. tried(its[e]) \in Item
  BY <1>1 DEF tried, Item
<1>. QED
  BY <1>2 DEF Sent, Items

LEMMA CutType ==
    ASSUME NEW s \in Seq(Events)
    PROVE  Cut(s) \in Box
<1>. DEFINE n == IF Len(s) < OutboxLimit THEN Len(s) ELSE OutboxLimit
<1>1. n \in 0..Len(s) /\ n <= OutboxLimit
  BY SiemOutboxAssumption
<1>2. SubSeq(s, 1, n) \in Seq(Events) /\ Len(SubSeq(s, 1, n)) = n
  BY <1>1
<1>. QED
  BY <1>1, <1>2 DEF Cut, Box

\* What a save writes.
LEMMA SaveType ==
    ASSUME TypeOK, NEW box \in Box, NEW its \in Items, save(box, its)
    PROVE  disk' \in Stored /\ txn' \in Snapshot \cup {NoTxn}
<1>1. [outbox |-> box, items |-> Kept(box, its)] \in Stored
  BY KeptType DEF Stored, Items
<1>2. txn # NoTxn => [txn EXCEPT !.save = TRUE] \in Snapshot
  BY DEF TypeOK, Snapshot
<1>. QED
  BY <1>1, <1>2 DEF save, TypeOK

LEMMA ShiftedType ==
    ASSUME TypeOK, NEW e \in Events
    PROVE  Shifted(e) \in [Runs -> Run \cup {Idle}]
<1>. SUFFICES ASSUME NEW r \in Runs, Active(r), runs[r].attached
              PROVE  [runs[r] EXCEPT !.list = <<e>> \o @, !.attached = FALSE] \in Run
  BY DEF Shifted, TypeOK
<1>1. runs[r] \in Run
  BY DEF TypeOK, Active
<1>2. <<e>> \o runs[r].list \in Seq(Events)
  BY <1>1 DEF Run
<1>. QED
  BY <1>1, <1>2 DEF Run

LEMMA EnqueueType ==
    ASSUME TypeOK, NEW u, enqueueIntegrationEvent(u)
    PROVE  /\ outbox' \in Box
           /\ heap' \in [Copies -> Items]
           /\ heap'[copy] \in Items
           /\ made' \in 0..MaxEvents
           /\ made + 1 \in Events
           /\ runs' \in [Runs -> Run \cup {Idle}]
<1>1. made + 1 \in Events
  BY SiemOutboxAssumption DEF TypeOK, enqueueIntegrationEvent, Events
<1>2. <<made + 1>> \o outbox \in Seq(Events)
  BY <1>1 DEF TypeOK, Box
<1>3. [heap[copy] EXCEPT ![made + 1] = queued(u)] \in Items
  BY <1>1, QueuedType DEF TypeOK, Items
<1>4. heap' \in [Copies -> Items] /\ heap'[copy] \in Items
  BY <1>3 DEF TypeOK, enqueueIntegrationEvent, Items
<1>5. made' \in 0..MaxEvents
  BY <1>1 DEF enqueueIntegrationEvent, Events
<1>. QED
  BY <1>1, <1>2, <1>4, <1>5, CutType, ShiftedType DEF enqueueIntegrationEvent

LEMMA RestoredType ==
    ASSUME TypeOK, NEW from, Restored(from),
           from.outbox \in Box, from.items \in Items
    PROVE  /\ outbox' \in Box
           /\ copy' \in Copies
           /\ heap' \in [Copies -> Items]
           /\ txn' \in Snapshot \cup {NoTxn}
<1>1. copy + 1 \in Copies
  BY SiemOutboxAssumption DEF TypeOK, Restored, Copies
<1>. QED
  BY <1>1 DEF Restored, TypeOK, Items

LEMMA MovedType ==
    ASSUME TypeOK, NEW run \in Run, NEW i \in 1..Len(run.list)
    PROVE  Moved(run, i) \in Run
<1>1. run.list \in Seq(Events) /\ Len(run.list) \in Nat
  BY DEF Run
<1>2. run.list[i] \in Events /\ i \in Nat /\ url \in BOOLEAN
  BY <1>1 DEF TypeOK
<1>. QED
  BY <1>2 DEF Moved, Run

LEMMA StartType ==
    ASSUME TypeOK, NEW r \in Runs, Start(r)
    PROVE  TypeOK'
<1>1. PICK i \in 1..Len(outbox) :
        LET due == {e \in Elements(outbox) : ~items[e].waiting}
            run == [copy |-> copy, list |-> outbox, attached |-> TRUE, at |-> i,
                    item |-> outbox[i], due |-> due, addressed |-> url]
        IN /\ runs' = [runs EXCEPT ![r] = run]
           /\ heap' = [heap EXCEPT ![copy] = Sent(@, outbox[i])]
           /\ sends' = [sends EXCEPT ![outbox[i]] = @ + 1]
  BY DEF Start
<1>2. outbox \in Seq(Events) /\ outbox[i] \in Events
  BY DEF TypeOK, Box
<1>3. {e \in Elements(outbox) : ~items[e].waiting} \in SUBSET Events
  BY <1>2 DEF Elements
<1>4. [copy |-> copy, list |-> outbox, attached |-> TRUE, at |-> i, item |-> outbox[i],
       due |-> {e \in Elements(outbox) : ~items[e].waiting}, addressed |-> url] \in Run
  BY <1>2, <1>3 DEF Run, TypeOK
<1>5. runs' \in [Runs -> Run \cup {Idle}]
  BY <1>1, <1>4 DEF TypeOK
<1>6. heap' \in [Copies -> Items]
  BY <1>1, <1>2, SentType DEF TypeOK
<1>7. sends' \in [Events -> Nat]
  BY <1>1, <1>2 DEF TypeOK
<1>. QED
  BY <1>5, <1>6, <1>7 DEF TypeOK, Start

\* The runs after an answer, before the run that had it goes on.
LEMMA PostponedType ==
    ASSUME TypeOK, NEW c, NEW e
    PROVE  postponed(c, e) \in [Runs -> Run \cup {Idle}]
<1>. SUFFICES ASSUME NEW r \in Runs, Active(r)
              PROVE  [runs[r] EXCEPT !.due = @ \ {e}] \in Run
  BY DEF postponed, TypeOK
<1>1. runs[r] \in Run
  BY DEF TypeOK, Active
<1>. QED
  BY <1>1 DEF Run

LEMMA AnswerType ==
    ASSUME TypeOK, NEW r \in Runs, NEW ok \in BOOLEAN, NEW accepted \in BOOLEAN,
           Answer(r, ok, accepted)
    PROVE  TypeOK'
<1>. DEFINE c == runs[r].copy
            e == runs[r].item
            its == [heap[c] EXCEPT ![e] = settled(@, ok)]
            after == IF its[e].status = "retrying" THEN postponed(c, e) ELSE runs
            run == after[r]
<1>1. runs[r] \in Run /\ c \in Copies /\ e \in Events
  BY DEF TypeOK, Answer, Active, Run
<1>2. its \in Items
  BY <1>1, SettledType DEF TypeOK, Items
<1>3. after \in [Runs -> Run \cup {Idle}]
  BY PostponedType DEF TypeOK
<1>4. run \in Run
  BY <1>1, <1>3 DEF postponed, Answer, Active, Run
<1>5. received' \in SUBSET Events
  BY <1>1 DEF Answer, TypeOK
<1>6. CASE \E i \in 1..Len(run.list) :
             /\ Reaches(its, run, run.at + 1, i)
             /\ runs' = [after EXCEPT ![r] = Moved(run, i)]
             /\ heap' = [heap EXCEPT ![c] = Sent(its, run.list[i])]
             /\ sends' = [sends EXCEPT ![run.list[i]] = @ + 1]
             /\ UNCHANGED <<txn, disk>>
  <2>. HIDE DEF its, after, run, c, e
  <2>1. PICK i \in 1..Len(run.list) :
             /\ runs' = [after EXCEPT ![r] = Moved(run, i)]
             /\ heap' = [heap EXCEPT ![c] = Sent(its, run.list[i])]
             /\ sends' = [sends EXCEPT ![run.list[i]] = @ + 1]
             /\ UNCHANGED <<txn, disk>>
    BY <1>6
  <2>2. run.list[i] \in Events
    BY <1>4 DEF Run
  <2>3. Moved(run, i) \in Run
    BY <1>4, MovedType
  <2>4. runs' \in [Runs -> Run \cup {Idle}]
    BY <1>3, <2>1, <2>3
  <2>5. heap' \in [Copies -> Items]
    BY <1>2, <2>1, <2>2, SentType DEF TypeOK
  <2>6. sends' \in [Events -> Nat]
    BY <2>1, <2>2 DEF TypeOK
  <2>. QED
    BY <1>5, <2>1, <2>4, <2>5, <2>6 DEF TypeOK, Answer
<1>7. CASE /\ runs' = [after EXCEPT ![r] = Idle]
           /\ heap' = [heap EXCEPT ![c] = its]
           /\ save(outbox, heap'[copy])
           /\ UNCHANGED sends
  <2>. HIDE DEF its, after, run, c, e
  <2>1. heap' \in [Copies -> Items]
    BY <1>1, <1>2, <1>7 DEF TypeOK
  <2>2. heap'[copy] \in Items
    BY <2>1 DEF TypeOK
  <2>3. disk' \in Stored /\ txn' \in Snapshot \cup {NoTxn}
    BY <1>7, <2>2, SaveType DEF TypeOK
  <2>4. runs' \in [Runs -> Run \cup {Idle}]
    BY <1>3, <1>7
  <2>. QED
    BY <1>5, <1>7, <2>1, <2>3, <2>4 DEF TypeOK, Answer
<1>. QED
  BY <1>6, <1>7 DEF Answer

LEMMA TypeInductive == TypeOK /\ [Next]_vars => TypeOK'
<1>. SUFFICES ASSUME TypeOK, [Next]_vars PROVE TypeOK'
  OBVIOUS
<1>1. CASE AuditedHandler
  <2>1. disk' \in Stored /\ txn' \in Snapshot \cup {NoTxn}
    BY <1>1, EnqueueType, SaveType DEF AuditedHandler
  <2>. QED
    BY <1>1, <2>1, EnqueueType DEF AuditedHandler, TypeOK
<1>2. CASE updateIntegrationConfig
  <2>1. disk' \in Stored /\ txn' \in Snapshot \cup {NoTxn}
    BY <1>2, EnqueueType, SaveType DEF updateIntegrationConfig
  <2>2. url' \in BOOLEAN
    BY <1>2 DEF updateIntegrationConfig, TypeOK
  <2>. QED
    BY <1>2, <2>1, <2>2, EnqueueType DEF updateIntegrationConfig, TypeOK
<1>3. CASE TxnOpens
  <2>1. txn' \in Snapshot
    BY <1>3, KeptType DEF TxnOpens, TypeOK, Snapshot, items
  <2>. QED
    BY <1>3, <2>1 DEF TxnOpens, TypeOK
<1>4. CASE TxnRecords
  <2>1. disk' \in Stored
    BY <1>4, EnqueueType, KeptType DEF TxnRecords, Stored
  <2>. QED
    BY <1>4, <2>1, EnqueueType DEF TxnRecords, TypeOK
<1>5. CASE TxnEnds
  <2>1. disk' \in Stored
    BY <1>5, KeptType DEF TxnEnds, Stored, TypeOK, items
  <2>. QED
    BY <1>5, <2>1 DEF TxnEnds, TypeOK
<1>6. CASE rollbackTransaction
  <2>. DEFINE from == IF txn = NoTxn
                      THEN [outbox |-> outbox, items |-> Kept(outbox, items)] ELSE txn
  <2>1. from.outbox \in Box /\ from.items \in Items
    BY KeptType DEF TypeOK, Snapshot, items
  <2>2. Restored(from)
    BY <1>6 DEF rollbackTransaction
  <2>3. runs' \in [Runs -> Run \cup {Idle}]
    BY <1>6 DEF rollbackTransaction, TypeOK, Run, Active
  <2>. QED
    BY <1>6, <2>1, <2>2, <2>3, RestoredType DEF rollbackTransaction, TypeOK
<1>7. CASE Crash
  <2>1. disk.outbox \in Box /\ disk.items \in Items
    BY DEF TypeOK, Stored
  <2>2. {runs[r].item : r \in {q \in Runs : Active(q)}} \subseteq Events
    BY DEF TypeOK, Run, Active
  <2>3. received' \in SUBSET Events
    BY <1>7, <2>2 DEF Crash, TypeOK
  <2>4. runs' \in [Runs -> Run \cup {Idle}] /\ url' \in BOOLEAN
    BY <1>7, SiemOutboxAssumption DEF Crash
  <2>. QED
    BY <1>7, <2>1, <2>3, <2>4, RestoredType DEF Crash, TypeOK
<1>8. ASSUME NEW e \in Events, DelayElapses(e) PROVE TypeOK'
  <2>1. heap[copy][e] \in Item
    BY DEF TypeOK, Items
  <2>2. elapsed(heap[copy][e]) \in Item
    BY <2>1 DEF elapsed, Item
  <2>3. heap' \in [Copies -> Items]
    BY <1>8, <2>2 DEF DelayElapses, TypeOK, Items, items
  <2>. QED
    BY <1>8, <2>3 DEF DelayElapses, TypeOK
<1>9. CASE UNCHANGED vars
  BY <1>9 DEF vars, TypeOK
<1>. QED
  BY <1>1, <1>2, <1>3, <1>4, <1>5, <1>6, <1>7, <1>8, <1>9, StartType, AnswerType DEF Next

\* Type correctness: every reachable state has the types of the model, and the
\* outbox, its saved copy and its snapshot stay within the limit.
THEOREM TypeCorrect == Spec => []TypeOK
<1>1. Init => TypeOK
  BY SiemOutboxAssumption, NoItemType
  DEF Init, TypeOK, Box, Items, Stored, Copies, Events
<1>. QED
  BY <1>1, TypeInductive, PTL DEF Spec

-----------------------------------------------------------------------------
(***************************************************************************)
(* What one step does to an item: the kinds the invariants distinguish.    *)
(***************************************************************************)
Fresh(c, e) == heap'[c][e].attempts = 0 /\ heap'[c][e].status \in {"queued", "local"}

\* A copy made by a rollback or a restart, of an item saved, in the snapshot or
\* in the state.
Copied(c, e) ==
  /\ copy' = copy + 1 /\ c = copy'
  /\ \/ heap'[c][e] \in {disk.items[e], heap[copy][e], NoItem}
     \/ txn # NoTxn /\ heap'[c][e] = txn.items[e]

Aged(c, e) ==
  /\ heap'[c][e].attempts = heap[c][e].attempts
  /\ heap'[c][e].status = heap[c][e].status

\* Sent by run r, which goes on to it.
SentBy(c, e, r) ==
  /\ Open(heap[c][e])
  /\ heap'[c][e] = tried(heap[c][e])
  /\ sends'[e] = sends[e] + 1

SettledFor(c, e) ==
  /\ heap'[c][e].attempts = heap[c][e].attempts
  /\ \/ heap'[c][e].status = "delivered" /\ e \in received'
     \/ heap'[c][e].status = "failed" /\ heap[c][e].attempts >= MaxAttempts
     \/ heap'[c][e].status = "retrying" /\ ~(heap[c][e].attempts >= MaxAttempts)

\* What a save or a snapshot takes.
Taken(e) ==
  /\ disk'.items[e] \in {disk.items[e], heap'[copy][e], NoItem}
  /\ txn' # NoTxn =>
       \/ txn # NoTxn /\ txn'.items[e] = txn.items[e]
       \/ txn'.items[e] \in {heap[copy][e], NoItem}

ItemStep(c, e) ==
  \/ Fresh(c, e) \/ Copied(c, e) \/ Aged(c, e) \/ SettledFor(c, e)
  \/ \E r \in Runs : SentBy(c, e, r)

LEMMA KeptItem ==
    ASSUME NEW box, NEW its, NEW e \in Events
    PROVE  Kept(box, its)[e] \in {its[e], NoItem}
BY DEF Kept

LEMMA SaveTakes ==
    ASSUME TypeOK, NEW box, save(box, heap'[copy]), NEW e \in Events
    PROVE  Taken(e)
<1>1. CASE txn = NoTxn
  BY <1>1, KeptItem DEF save, Taken
<1>2. CASE txn # NoTxn
  <2>1. txn \in Snapshot
    BY <1>2 DEF TypeOK
  <2>2. [txn EXCEPT !.save = TRUE].items = txn.items
    BY <2>1 DEF Snapshot
  <2>. QED
    BY <1>2, <2>2 DEF save, Taken
<1>. QED
  BY <1>1, <1>2

LEMMA EnqueueStep ==
    ASSUME TypeOK, NEW u, enqueueIntegrationEvent(u), NEW c \in Copies, NEW e \in Events
    PROVE  Fresh(c, e) \/ Aged(c, e)
<1>1. heap'[c] = IF c = copy THEN [heap[copy] EXCEPT ![made + 1] = queued(u)] ELSE heap[c]
  BY DEF enqueueIntegrationEvent, TypeOK
<1>2. heap[copy] \in Items
  BY DEF TypeOK
<1>3. heap'[c][e] \in {heap[c][e], queued(u)}
  BY <1>1, <1>2 DEF Items
<1>. QED
  BY <1>3 DEF Fresh, Aged, queued, NoItem

LEMMA RestoredStep ==
    ASSUME TypeOK, NEW from, Restored(from), NEW c \in Copies, NEW e \in Events,
           \/ from.items[e] \in {disk.items[e], heap[copy][e], NoItem}
           \/ txn # NoTxn /\ from.items[e] = txn.items[e]
    PROVE  Copied(c, e) \/ (c # copy' /\ Aged(c, e))
<1>1. heap'[c] = IF c = copy + 1 THEN from.items ELSE heap[c]
  BY DEF Restored, TypeOK
<1>. QED
  BY <1>1 DEF Restored, Copied, Aged

LEMMA StartStep ==
    ASSUME TypeOK, NEW r \in Runs, Start(r), NEW c \in Copies, NEW e \in Events
    PROVE  /\ Aged(c, e) \/ (SentBy(c, e, r) /\ c = copy /\ runs'[r].copy = c /\ runs'[r].item = e)
           /\ sends'[e] \in {sends[e], sends[e] + 1}
<1>1. PICK i \in 1..Len(outbox) :
        LET due == {x \in Elements(outbox) : ~items[x].waiting}
            run == [copy |-> copy, list |-> outbox, attached |-> TRUE, at |-> i,
                    item |-> outbox[i], due |-> due, addressed |-> url]
        IN /\ Reaches(items, run, 1, i)
           /\ runs' = [runs EXCEPT ![r] = run]
           /\ heap' = [heap EXCEPT ![copy] = Sent(@, outbox[i])]
           /\ sends' = [sends EXCEPT ![outbox[i]] = @ + 1]
  BY DEF Start
<1>2. Open(heap[copy][outbox[i]])
  BY <1>1 DEF Reaches, Takes, items
<1>3. runs'[r].copy = copy /\ runs'[r].item = outbox[i]
  BY <1>1 DEF TypeOK
<1>4. heap'[c] = IF c = copy THEN Sent(heap[copy], outbox[i]) ELSE heap[c]
  BY <1>1 DEF TypeOK
<1>5. heap[copy] \in Items /\ outbox[i] \in Events
  BY DEF TypeOK, Box
<1>6. Sent(heap[copy], outbox[i])[e] = IF e = outbox[i] THEN tried(heap[copy][e]) ELSE heap[copy][e]
  BY <1>5 DEF Sent, Items
<1>7. sends'[e] = IF e = outbox[i] THEN sends[e] + 1 ELSE sends[e]
  BY <1>1, <1>5 DEF TypeOK
<1>. QED
  BY <1>2, <1>3, <1>4, <1>6, <1>7 DEF Aged, SentBy

\* A run that had an answer: the awaited item is settled, and the run ends or
\* goes on to another item.
LEMMA AnswerStep ==
    ASSUME TypeOK, NEW r \in Runs, NEW ok \in BOOLEAN, NEW accepted \in BOOLEAN,
           Answer(r, ok, accepted), NEW c \in Copies, NEW e \in Events
    PROVE  /\ \/ Aged(c, e)
              \/ c = runs[r].copy /\ e = runs[r].item /\ SettledFor(c, e)
              \/ /\ SentBy(c, e, r) /\ c = runs[r].copy /\ e # runs[r].item
                 /\ Active(r)' /\ runs'[r].copy = c /\ runs'[r].item = e
           /\ c = runs[r].copy /\ e = runs[r].item => SettledFor(c, e)
           /\ Active(r)' => runs'[r].copy = runs[r].copy /\ runs'[r].item # runs[r].item
           /\ sends'[e] \in {sends[e], sends[e] + 1}
           /\ Taken(e)
<1>. DEFINE d == runs[r].copy
            f == runs[r].item
            its == [heap[d] EXCEPT ![f] = settled(@, ok)]
            after == IF its[f].status = "retrying" THEN postponed(d, f) ELSE runs
            run == after[r]
<1>1. runs[r] \in Run /\ d \in Copies /\ f \in Events /\ runs[r] # Idle
  BY DEF TypeOK, Answer, Active, Run
<1>2. its \in Items /\ heap[d] \in Items
  BY <1>1, SettledType DEF TypeOK, Items
<1>3. after \in [Runs -> Run \cup {Idle}]
  BY PostponedType DEF TypeOK
<1>4. run \in Run /\ run.copy = d
  BY <1>1, <1>3 DEF postponed, Active, Run
<1>5. its[f] = settled(heap[d][f], ok) /\ \A x \in Events : x # f => its[x] = heap[d][x]
  BY <1>1, <1>2 DEF Items
<1>6. ok => f \in received'
  BY DEF Answer
<1>7. SettledFor(d, f) \/ heap'[d][f] # its[f]
  <2>1. heap[d][f] \in Item
    BY <1>1, <1>2 DEF Items
  <2>2. CASE ok
    <3>1. f \in received'
      BY <1>6, <2>2, Zenon
    <3>2. /\ settled(heap[d][f], ok).attempts = heap[d][f].attempts
          /\ settled(heap[d][f], ok).status = "delivered"
      BY <2>1, <2>2, SettledFields, Zenon
    <3>. QED
      BY <1>5, <3>1, <3>2 DEF SettledFor
  <2>3. CASE ~ok
    BY <1>5, <2>1, <2>3, SettledFields DEF SettledFor
  <2>. QED
    BY <2>2, <2>3
<1>8. f \in run.due => ~Open(its[f])
  <2>. SUFFICES ASSUME Open(its[f]) PROVE f \notin run.due
    OBVIOUS
  <2>1. its[f].status = "retrying"
    <3>1. heap[d][f] \in Item
      BY <1>1, <1>2 DEF Items
    <3>. QED
      BY <1>5, <3>1, SettledFields DEF Open
  <2>2. run = [runs[r] EXCEPT !.due = @ \ {f}]
    BY <1>1, <2>1 DEF postponed, Active
  <2>. QED
    BY <1>1, <2>2 DEF Run
<1>9. CASE \E i \in 1..Len(run.list) :
             /\ Reaches(its, run, run.at + 1, i)
             /\ runs' = [after EXCEPT ![r] = Moved(run, i)]
             /\ heap' = [heap EXCEPT ![d] = Sent(its, run.list[i])]
             /\ sends' = [sends EXCEPT ![run.list[i]] = @ + 1]
             /\ UNCHANGED <<txn, disk>>
  <2>. HIDE DEF its, after, run, d, f
  <2>1. PICK i \in 1..Len(run.list) :
             /\ Reaches(its, run, run.at + 1, i)
             /\ runs' = [after EXCEPT ![r] = Moved(run, i)]
             /\ heap' = [heap EXCEPT ![d] = Sent(its, run.list[i])]
             /\ sends' = [sends EXCEPT ![run.list[i]] = @ + 1]
             /\ UNCHANGED <<txn, disk>>
    BY <1>9
  <2>. DEFINE g == run.list[i]
  <2>2. g \in Events /\ g \in run.due /\ Open(its[g])
    BY <1>4, <2>1 DEF Run, Reaches, Takes
  <2>3. g # f
    BY <1>8, <2>2
  <2>4. runs'[r] = Moved(run, i) /\ runs'[r] \in Run
    BY <1>3, <1>4, <2>1, MovedType
  <2>5. runs'[r].copy = d /\ runs'[r].item = g /\ runs'[r] # Idle
    BY <1>4, <2>4, SiemOutboxAssumption DEF Moved, Run
  <2>6. heap'[c] = IF c = d THEN Sent(its, g) ELSE heap[c]
    BY <1>1, <2>1 DEF TypeOK
  <2>7. Sent(its, g)[e] = IF e = g THEN tried(its[g]) ELSE its[e]
    BY <1>2, <2>2 DEF Sent, Items
  <2>8. sends'[e] = IF e = g THEN sends[e] + 1 ELSE sends[e]
    BY <2>1, <2>2 DEF TypeOK
  <2>9. its[g] = heap[d][g]
    BY <1>5, <2>2, <2>3
  <2>10. c = d /\ e = f => SettledFor(c, e)
    BY <1>7, <2>3, <2>6, <2>7
  <2>11. c = d /\ e = g => SentBy(c, e, r)
    BY <2>2, <2>6, <2>7, <2>8, <2>9 DEF SentBy
  <2>12. c # d \/ (e # f /\ e # g) => Aged(c, e)
    BY <1>5, <2>6, <2>7 DEF Aged
  <2>13. Taken(e)
    BY <2>1 DEF Taken
  <2>. QED
    BY <2>3, <2>5, <2>8, <2>10, <2>11, <2>12, <2>13 DEF Active, d, f
<1>10. CASE /\ runs' = [after EXCEPT ![r] = Idle]
            /\ heap' = [heap EXCEPT ![d] = its]
            /\ save(outbox, heap'[copy])
            /\ UNCHANGED sends
  <2>. HIDE DEF its, after, run, d, f
  <2>1. runs'[r] = Idle
    BY <1>3, <1>10
  <2>2. heap'[c] = IF c = d THEN its ELSE heap[c]
    BY <1>1, <1>10 DEF TypeOK
  <2>3. c = d /\ e = f => SettledFor(c, e)
    BY <1>7, <2>2
  <2>4. c # d \/ e # f => Aged(c, e)
    BY <1>5, <2>2 DEF Aged
  <2>5. Taken(e)
    BY <1>10, SaveTakes
  <2>. QED
    BY <1>10, <2>1, <2>3, <2>4, <2>5 DEF Active, d, f
<1>. QED
  BY <1>9, <1>10 DEF Answer

\* A step that leaves a run where it is.
Stays(r) ==
  /\ Active(r)' <=> Active(r)
  /\ Active(r) => /\ runs'[r].copy = runs[r].copy
                  /\ runs'[r].item = runs[r].item
                  /\ runs'[r].at = runs[r].at

LEMMA OthersStay ==
    ASSUME TypeOK, NEW r \in Runs, NEW ok \in BOOLEAN, NEW accepted \in BOOLEAN,
           Answer(r, ok, accepted), NEW q \in Runs \ {r}
    PROVE  Stays(q)
<1>. DEFINE d == runs[r].copy
            f == runs[r].item
            its == [heap[d] EXCEPT ![f] = settled(@, ok)]
            after == IF its[f].status = "retrying" THEN postponed(d, f) ELSE runs
<1>1. after[q] = runs[q] \/ (Active(q) /\ after[q] = [runs[q] EXCEPT !.due = @ \ {f}])
  BY DEF postponed
<1>2. after \in [Runs -> Run \cup {Idle}]
  BY PostponedType DEF TypeOK
<1>3. runs'[q] = after[q]
  <2>. HIDE DEF after
  <2>. QED
    BY <1>2 DEF Answer, after, its, d, f
<1>. HIDE DEF after
<1>4. Active(q) => runs[q] \in Run
  BY DEF TypeOK, Active
<1>5. CASE after[q] = runs[q]
  BY <1>3, <1>5 DEF Stays, Active
<1>6. CASE Active(q) /\ after[q] = [runs[q] EXCEPT !.due = @ \ {f}]
  <2>1. after[q] \in Run
    BY <1>4, <1>6 DEF Run
  <2>. QED
    BY <1>3, <1>4, <1>6, <2>1, SiemOutboxAssumption DEF Stays, Active, Run
<1>. QED
  BY <1>1, <1>5, <1>6

LEMMA EnqueueStays ==
    ASSUME TypeOK, NEW u, enqueueIntegrationEvent(u), NEW q \in Runs
    PROVE  Stays(q)
<1>1. CASE Active(q) /\ runs[q].attached
  <2>1. runs[q] \in Run
    BY <1>1 DEF TypeOK, Active
  <2>2. runs'[q] = [runs[q] EXCEPT !.list = <<made + 1>> \o @, !.attached = FALSE]
    BY <1>1 DEF enqueueIntegrationEvent, Shifted
  <2>3. runs'[q] \in Run \cup {Idle} /\ runs' \in [Runs -> Run \cup {Idle}]
    BY EnqueueType
  <2>4. <<made + 1>> \o runs[q].list \in Seq(Events)
    BY <2>1, EnqueueType DEF Run
  <2>5. runs'[q] \in Run
    BY <2>1, <2>2, <2>4 DEF Run
  <2>. QED
    BY <1>1, <2>1, <2>2, <2>5, SiemOutboxAssumption DEF Stays, Active, Run
<1>2. CASE ~(Active(q) /\ runs[q].attached)
  BY <1>2 DEF enqueueIntegrationEvent, Shifted, Stays, Active
<1>. QED
  BY <1>1, <1>2

LEMMA RollbackStays ==
    ASSUME TypeOK, rollbackTransaction, NEW q \in Runs
    PROVE  Stays(q)
<1>1. CASE Active(q)
  <2>1. runs[q] \in Run
    BY <1>1 DEF TypeOK, Active
  <2>2. runs'[q] = [runs[q] EXCEPT !.attached = FALSE]
    BY <1>1 DEF rollbackTransaction
  <2>3. runs'[q] \in Run
    BY <2>1, <2>2 DEF Run
  <2>. QED
    BY <1>1, <2>1, <2>2, <2>3, SiemOutboxAssumption DEF Stays, Active, Run
<1>2. CASE ~Active(q)
  BY <1>2 DEF rollbackTransaction, Stays, Active
<1>. QED
  BY <1>1, <1>2

LEMMA UnchangedStays ==
    ASSUME UNCHANGED runs, NEW q \in Runs
    PROVE  Stays(q)
BY DEF Stays, Active

\* Every step, for every item.
LEMMA StepKind ==
    ASSUME TypeOK, [Next]_vars, NEW c \in Copies, NEW e \in Events
    PROVE  /\ ItemStep(c, e)
           /\ Taken(e)
           /\ sends'[e] \in {sends[e], sends[e] + 1}
           /\ received \subseteq received'
<1>. DEFINE Goal == /\ ItemStep(c, e)
                    /\ Taken(e)
                    /\ sends'[e] \in {sends[e], sends[e] + 1}
                    /\ received \subseteq received'
<1>1. CASE AuditedHandler
  BY <1>1, EnqueueStep, SaveTakes DEF AuditedHandler, ItemStep
<1>2. CASE updateIntegrationConfig
  BY <1>2, EnqueueStep, SaveTakes DEF updateIntegrationConfig, ItemStep
<1>3. CASE TxnOpens
  <2>1. Taken(e)
    BY <1>3, KeptItem DEF TxnOpens, Taken, items
  <2>. QED
    BY <1>3, <2>1 DEF TxnOpens, ItemStep, Aged
<1>4. CASE TxnRecords
  <2>1. Taken(e)
    BY <1>4, KeptItem DEF TxnRecords, Taken
  <2>. QED
    BY <1>4, <2>1, EnqueueStep DEF TxnRecords, ItemStep
<1>5. CASE TxnEnds
  <2>1. Taken(e)
    BY <1>5, KeptItem DEF TxnEnds, Taken, items
  <2>. QED
    BY <1>5, <2>1 DEF TxnEnds, ItemStep, Aged
<1>6. CASE rollbackTransaction
  <2>. DEFINE from == IF txn = NoTxn
                      THEN [outbox |-> outbox, items |-> Kept(outbox, items)] ELSE txn
  <2>1. Restored(from) /\ disk' = disk /\ sends' = sends /\ received' = received
    BY <1>6 DEF rollbackTransaction
  <2>2. \/ from.items[e] \in {disk.items[e], heap[copy][e], NoItem}
        \/ txn # NoTxn /\ from.items[e] = txn.items[e]
    BY KeptItem DEF items
  <2>3. Copied(c, e) \/ Aged(c, e)
    BY <2>1, <2>2, RestoredStep
  <2>4. Taken(e)
    BY <2>1 DEF Taken, Restored
  <2>. QED
    BY <2>1, <2>3, <2>4 DEF ItemStep
<1>7. CASE Crash
  <2>1. Restored(disk) /\ disk' = disk /\ sends' = sends /\ received \subseteq received'
    BY <1>7 DEF Crash
  <2>2. Copied(c, e) \/ Aged(c, e)
    BY <2>1, RestoredStep
  <2>3. Taken(e)
    BY <2>1 DEF Taken, Restored
  <2>. QED
    BY <2>1, <2>2, <2>3 DEF ItemStep
<1>8. ASSUME NEW r \in Runs, Start(r) PROVE Goal
  <2>1. Taken(e) /\ received' = received
    BY <1>8 DEF Start, Taken
  <2>. QED
    BY <1>8, <2>1, StartStep DEF ItemStep
<1>9. ASSUME NEW r \in Runs, NEW ok \in BOOLEAN, NEW accepted \in BOOLEAN,
             Answer(r, ok, accepted)
      PROVE  Goal
  <2>1. received \subseteq received'
    BY <1>9 DEF Answer
  <2>2. Taken(e) /\ sends'[e] \in {sends[e], sends[e] + 1}
    BY <1>9, AnswerStep
  <2>3. ItemStep(c, e)
    BY <1>9, AnswerStep DEF ItemStep
  <2>. QED
    BY <2>1, <2>2, <2>3
<1>10. ASSUME NEW x \in Events, DelayElapses(x) PROVE Goal
  <2>1. heap'[c] = IF c = copy THEN [heap[copy] EXCEPT ![x] = elapsed(heap[copy][x])] ELSE heap[c]
    BY <1>10 DEF DelayElapses, TypeOK, items
  <2>2. heap[copy] \in Items /\ heap[copy][x] \in Item
    BY DEF TypeOK, Items
  <2>3. elapsed(heap[copy][x]).attempts = heap[copy][x].attempts
        /\ elapsed(heap[copy][x]).status = heap[copy][x].status
    BY <2>2 DEF elapsed, Item
  <2>4. Aged(c, e)
    BY <2>1, <2>2, <2>3 DEF Aged, Items
  <2>. QED
    BY <1>10, <2>4 DEF DelayElapses, ItemStep, Taken
<1>11. CASE UNCHANGED vars
  BY <1>11 DEF vars, ItemStep, Aged, Taken
<1>. QED
  BY <1>1, <1>2, <1>3, <1>4, <1>5, <1>6, <1>7, <1>8, <1>9, <1>10, <1>11 DEF Next

-----------------------------------------------------------------------------
(***************************************************************************)
(* What statuses say.  Inductive for every object of an item: those of the *)
(* state and of older copies, the saved one and the snapshot's.            *)
(***************************************************************************)
Honest(item, e) ==
  /\ item.status = "delivered" => e \in received
  /\ item.attempts <= sends[e]
  /\ item.status = "failed" => item.attempts >= MaxAttempts

HonestInv ==
  \A e \in Events :
    /\ \A c \in Copies : Honest(heap[c][e], e)
    /\ Honest(disk.items[e], e)
    /\ txn # NoTxn => Honest(txn.items[e], e)

HonestAfter(item, e) ==
  /\ item.status = "delivered" => e \in received'
  /\ item.attempts <= sends'[e]
  /\ item.status = "failed" => item.attempts >= MaxAttempts

LEMMA HonestInductive == TypeOK /\ HonestInv /\ [Next]_vars => HonestInv'
<1>. SUFFICES ASSUME TypeOK, HonestInv, [Next]_vars, NEW e \in Events
     PROVE  /\ \A c \in Copies : HonestAfter(heap'[c][e], e)
            /\ HonestAfter(disk'.items[e], e)
            /\ txn' # NoTxn => HonestAfter(txn'.items[e], e)
  BY DEF HonestInv, Honest, HonestAfter
<1>1. /\ copy \in Copies
      /\ sends[e] \in Nat /\ sends'[e] \in Nat /\ sends'[e] >= sends[e]
      /\ received \subseteq received'
  <2>1. copy \in Copies /\ sends[e] \in Nat
    BY DEF TypeOK
  <2>2. sends'[e] \in {sends[e], sends[e] + 1} /\ received \subseteq received'
    BY <2>1, StepKind
  <2>. QED
    BY <2>1, <2>2
<1>2. \A item \in Item : Honest(item, e) => HonestAfter(item, e)
  BY <1>1 DEF Honest, HonestAfter, Item
<1>3. HonestAfter(NoItem, e)
  BY <1>1 DEF HonestAfter, NoItem
<1>4. \A c \in Copies : heap[c][e] \in Item
  BY DEF TypeOK, Items
<1>5. disk.items[e] \in Item /\ (txn # NoTxn => txn.items[e] \in Item)
  BY DEF TypeOK, Stored, Snapshot, Items
<1>6. /\ \A c \in Copies : HonestAfter(heap[c][e], e)
      /\ HonestAfter(disk.items[e], e)
      /\ txn # NoTxn => HonestAfter(txn.items[e], e)
  BY <1>2, <1>4, <1>5 DEF HonestInv
<1>7. ASSUME NEW c \in Copies PROVE HonestAfter(heap'[c][e], e)
  <2>1. CASE Fresh(c, e)
    BY <2>1, <1>1 DEF Fresh, HonestAfter
  <2>2. CASE Copied(c, e)
    BY <2>2, <1>1, <1>3, <1>6 DEF Copied
  <2>3. CASE Aged(c, e)
    BY <2>3, <1>6 DEF Aged, HonestAfter
  <2>4. ASSUME NEW r \in Runs, SentBy(c, e, r) PROVE HonestAfter(heap'[c][e], e)
    <3>1. heap[c][e] \in Item /\ Honest(heap[c][e], e)
      BY <1>4 DEF HonestInv
    <3>. QED
      BY <2>4, <3>1, <1>1 DEF SentBy, tried, Open, Honest, HonestAfter, Item
  <2>5. CASE SettledFor(c, e)
    BY <2>5, <1>6 DEF SettledFor, HonestAfter
  <2>. QED
    BY <2>1, <2>2, <2>3, <2>4, <2>5, StepKind DEF ItemStep
<1>8. Taken(e)
  BY <1>1, StepKind
<1>9. HonestAfter(disk'.items[e], e)
  BY <1>1, <1>3, <1>6, <1>7, <1>8 DEF Taken
<1>10. txn' # NoTxn => HonestAfter(txn'.items[e], e)
  BY <1>1, <1>3, <1>6, <1>8 DEF Taken
<1>. QED
  BY <1>7, <1>9, <1>10

LEMMA HonestInitially == Init => HonestInv
BY SiemOutboxAssumption DEF Init, HonestInv, Honest, NoItem, Copies

LEMMA HonestAlways == Spec => []HonestInv
<1>. QED
  BY TypeCorrect, HonestInitially, HonestInductive, PTL DEF Spec

\* Delivered means accepted, in memory, on disk and in the snapshot.
THEOREM Received == Spec => []DeliveredIsReceived
<1>1. HonestInv => DeliveredIsReceived
  BY DEF HonestInv, Honest, DeliveredIsReceived
<1>. QED
  BY <1>1, HonestAlways, PTL

\* Given up means tried as often as configured.
THEOREM GivenUp == Spec => []GivenUpAfterMax
<1>1. TypeOK /\ HonestInv => GivenUpAfterMax
  <2>. SUFFICES ASSUME TypeOK, HonestInv, NEW c \in Copies, NEW e \in Events,
                       heap[c][e].status = "failed"
                PROVE  sends[e] >= MaxAttempts
    BY DEF GivenUpAfterMax
  <2>1. heap[c][e] \in Item /\ Honest(heap[c][e], e) /\ sends[e] \in Nat
    BY DEF TypeOK, Items, HonestInv
  <2>. QED
    BY <2>1, SiemOutboxAssumption DEF Honest, Item
<1>. QED
  BY <1>1, TypeCorrect, HonestAlways, PTL

-----------------------------------------------------------------------------
(***************************************************************************)
(* One run, one try.                                                       *)
(***************************************************************************)

\* A run that moves on moves to another item, although the array it walks may
\* have shifted under it.
THEOREM OneTryPerRun == Spec => NeverTwiceInOneRun
<1>1. TypeOK /\ [Next]_vars =>
        [\A r \in Runs : Active(r) /\ Active(r)' /\ runs'[r].at # runs[r].at
                         => runs'[r].item # runs[r].item]_vars
  <2>. SUFFICES ASSUME TypeOK, Next, NEW r \in Runs, Active(r), Active(r)',
                       runs'[r].at # runs[r].at
                PROVE  runs'[r].item # runs[r].item
    OBVIOUS
  <2>1. runs[r] \in Run
    BY DEF TypeOK, Active
  <2>2. ASSUME NEW q \in Runs, NEW ok \in BOOLEAN, NEW accepted \in BOOLEAN,
               Answer(q, ok, accepted)
        PROVE  runs'[r].item # runs[r].item
    <3>1. CASE q = r
      BY <2>2, <3>1, AnswerStep DEF TypeOK, Run, Active
    <3>2. CASE q # r
      BY <2>2, <3>2, OthersStay DEF Stays
    <3>. QED
      BY <3>1, <3>2
  <2>3. ASSUME NEW q \in Runs, Start(q) PROVE FALSE
    BY <2>3 DEF Start, TypeOK, Active
  <2>4. ~Stays(r)
    BY DEF Stays
  <2>5. ~Crash
    BY DEF Crash, Active
  <2>. QED
    BY <2>2, <2>3, <2>4, <2>5, EnqueueStays, RollbackStays, UnchangedStays
    DEF Next, AuditedHandler, updateIntegrationConfig, TxnOpens, TxnRecords, TxnEnds, DelayElapses
<1>. QED
  BY <1>1, TypeCorrect, PTL DEF Spec, NeverTwiceInOneRun

-----------------------------------------------------------------------------
(***************************************************************************)
(* Attempts.  While an item is open, attempts beyond the last but one are  *)
(* made by runs that still await their answers: the first of these answers *)
(* settles the item.  A rollback or a restart starts over from a copy      *)
(* whose runs are gone.                                                    *)
(***************************************************************************)
Cap(n) == MaxAttempts - 1 + Cardinality(Runs) * n

Live(c) == c = copy \/ \E r \in Runs : Active(r) /\ runs[r].copy = c

BoundInv ==
  \A e \in Events :
    /\ \A c \in Copies :
         /\ heap[c][e].attempts <= Cap(1 + c)
         /\ Live(c) /\ Open(heap[c][e]) =>
              heap[c][e].attempts <= Cap(c) + Cardinality(Awaiting(c, e))
    /\ disk.items[e].attempts <= Cap(1 + copy)
    /\ txn # NoTxn => txn.items[e].attempts <= Cap(1 + copy)

LEMMA CapType ==
    ASSUME NEW n \in Nat
    PROVE  /\ Cardinality(Runs) \in Nat /\ Cap(n) \in Nat
           /\ Cap(1 + n) = Cap(n) + Cardinality(Runs)
<1>1. Cardinality(Runs) \in Nat
  BY FS_CardinalityType, SiemOutboxAssumption
<1>2. ASSUME NEW k \in Nat PROVE k * n \in Nat /\ k * (1 + n) = k * n + k
  OBVIOUS
<1>3. /\ Cardinality(Runs) * n \in Nat
      /\ Cardinality(Runs) * (1 + n) = Cardinality(Runs) * n + Cardinality(Runs)
  BY <1>1, <1>2
<1>. QED
  BY <1>1, <1>3, SiemOutboxAssumption DEF Cap

LEMMA AwaitingFinite ==
    ASSUME NEW c, NEW e
    PROVE  /\ IsFiniteSet(Awaiting(c, e))
           /\ Cardinality(Awaiting(c, e)) \in Nat
           /\ Cardinality(Awaiting(c, e)) <= Cardinality(Runs)
<1>1. Awaiting(c, e) \subseteq Runs
  BY DEF Awaiting
<1>. QED
  BY <1>1, FS_Subset, FS_CardinalityType, SiemOutboxAssumption

AwaitedAfter(c, e) == {r \in Runs : Active(r)' /\ runs'[r].copy = c /\ runs'[r].item = e}
LiveAfter(c) == c = copy' \/ \E r \in Runs : Active(r)' /\ runs'[r].copy = c

\* An item of a copy that is not new: nobody stops awaiting it, or it is
\* settled, or a run is added to those that await it.
Walked(c, e) ==
  \/ Fresh(c, e)
  \/ SettledFor(c, e)
  \/ Aged(c, e) /\ (LiveAfter(c) => Live(c) /\ Awaiting(c, e) \subseteq AwaitedAfter(c, e))
  \/ \E r \in Runs : /\ SentBy(c, e, r) /\ Live(c)
                      /\ r \notin Awaiting(c, e)
                      /\ Awaiting(c, e) \cup {r} \subseteq AwaitedAfter(c, e)

LEMMA StaysWalked ==
    ASSUME \A r \in Runs : Stays(r), NEW c, NEW e, Fresh(c, e) \/ Aged(c, e),
           copy' = copy \/ c # copy'
    PROVE  Walked(c, e)
<1>1. Awaiting(c, e) \subseteq AwaitedAfter(c, e)
  BY DEF Awaiting, AwaitedAfter, Stays
<1>2. LiveAfter(c) => Live(c)
  BY DEF LiveAfter, Live, Stays
<1>. QED
  BY <1>1, <1>2 DEF Walked

LEMMA WalkStep ==
    ASSUME TypeOK, [Next]_vars, NEW c \in Copies, NEW e \in Events
    PROVE  /\ Walked(c, e) \/ Copied(c, e)
           /\ copy' \in {copy, copy + 1}
<1>. DEFINE Goal == (Walked(c, e) \/ Copied(c, e)) /\ copy' \in {copy, copy + 1}
<1>1. ASSUME NEW u, enqueueIntegrationEvent(u), copy' = copy PROVE Goal
  BY <1>1, EnqueueStays, EnqueueStep, StaysWalked
<1>2. ASSUME UNCHANGED runs, copy' = copy, Aged(c, e) PROVE Goal
  BY <1>2, UnchangedStays, StaysWalked
<1>3. CASE rollbackTransaction
  <2>. DEFINE from == IF txn = NoTxn
                      THEN [outbox |-> outbox, items |-> Kept(outbox, items)] ELSE txn
  <2>1. Restored(from)
    BY <1>3 DEF rollbackTransaction
  <2>2. \/ from.items[e] \in {disk.items[e], heap[copy][e], NoItem}
        \/ txn # NoTxn /\ from.items[e] = txn.items[e]
    BY KeptItem DEF items
  <2>3. Copied(c, e) \/ (c # copy' /\ Aged(c, e))
    BY <2>1, <2>2, RestoredStep
  <2>4. copy' = copy + 1
    BY <2>1 DEF Restored
  <2>. QED
    BY <1>3, <2>3, <2>4, RollbackStays, StaysWalked
<1>4. CASE Crash
  <2>1. Restored(disk) /\ copy' = copy + 1
    BY <1>4 DEF Crash, Restored
  <2>2. Copied(c, e) \/ (c # copy' /\ Aged(c, e))
    BY <2>1, RestoredStep
  <2>3. c # copy' => ~LiveAfter(c)
    BY <1>4 DEF Crash, LiveAfter, Active
  <2>. QED
    BY <2>1, <2>2, <2>3 DEF Walked
<1>5. ASSUME NEW r \in Runs, Start(r) PROVE Goal
  <2>1. copy' = copy /\ ~Active(r)
    BY <1>5 DEF Start
  <2>2. \A q \in Runs \ {r} : Stays(q)
    BY <1>5 DEF Start, Stays, Active, TypeOK
  <2>3. r \notin Awaiting(c, e)
    BY <2>1 DEF Awaiting
  <2>4. Awaiting(c, e) \subseteq AwaitedAfter(c, e)
    BY <2>2, <2>3 DEF Awaiting, AwaitedAfter, Stays
  <2>5. runs'[r].copy = copy /\ Active(r)'
    <3>1. PICK i \in 1..Len(outbox) :
            runs' = [runs EXCEPT ![r] =
              [copy |-> copy, list |-> outbox, attached |-> TRUE, at |-> i, item |-> outbox[i],
               due |-> {x \in Elements(outbox) : ~items[x].waiting}, addressed |-> url]]
      BY <1>5 DEF Start
    <3>2. runs'[r].copy = copy
      BY <3>1 DEF TypeOK
    <3>3. outbox[i] \in Events /\ outbox \in Seq(Events)
      BY DEF TypeOK, Box
    <3>4. {x \in Elements(outbox) : ~items[x].waiting} \in SUBSET Events
      BY <3>3 DEF Elements
    <3>5. runs'[r] \in Run
      BY <3>1, <3>3, <3>4 DEF TypeOK, Run
    <3>. QED
      BY <3>2, <3>5, SiemOutboxAssumption DEF Active
  <2>6. LiveAfter(c) => Live(c)
    BY <2>1, <2>2, <2>5 DEF LiveAfter, Live, Stays
  <2>7. CASE Aged(c, e)
    BY <2>1, <2>4, <2>6, <2>7 DEF Walked
  <2>8. CASE SentBy(c, e, r) /\ c = copy /\ runs'[r].copy = c /\ runs'[r].item = e
    <3>1. r \in AwaitedAfter(c, e)
      BY <2>5, <2>8 DEF AwaitedAfter
    <3>. QED
      BY <2>1, <2>3, <2>4, <2>8, <3>1 DEF Walked, Live
  <2>. QED
    BY <1>5, <2>7, <2>8, StartStep
<1>6. ASSUME NEW r \in Runs, NEW ok \in BOOLEAN, NEW accepted \in BOOLEAN,
             Answer(r, ok, accepted)
      PROVE  Goal
  <2>1. copy' = copy /\ Active(r)
    BY <1>6 DEF Answer
  <2>2. \A q \in Runs \ {r} : Stays(q)
    BY <1>6, OthersStay
  <2>3. Active(r)' => runs'[r].copy = runs[r].copy
    BY <1>6, AnswerStep
  <2>4. LiveAfter(c) => Live(c)
    BY <2>1, <2>2, <2>3 DEF LiveAfter, Live, Stays
  <2>5. CASE c = runs[r].copy /\ e = runs[r].item
    BY <1>6, <2>1, <2>5, AnswerStep DEF Walked
  <2>6. CASE ~(c = runs[r].copy /\ e = runs[r].item)
    <3>1. r \notin Awaiting(c, e)
      BY <2>6 DEF Awaiting
    <3>2. Awaiting(c, e) \subseteq AwaitedAfter(c, e)
      BY <2>2, <3>1 DEF Awaiting, AwaitedAfter, Stays
    <3>3. CASE Aged(c, e)
      BY <2>1, <2>4, <3>2, <3>3 DEF Walked
    <3>4. CASE /\ SentBy(c, e, r) /\ c = runs[r].copy
               /\ Active(r)' /\ runs'[r].copy = c /\ runs'[r].item = e
      <4>1. r \in AwaitedAfter(c, e) /\ Live(c)
        BY <2>1, <3>4 DEF AwaitedAfter, Live
      <4>. QED
        BY <2>1, <3>1, <3>2, <3>4, <4>1 DEF Walked
    <3>. QED
      BY <1>6, <2>6, <3>3, <3>4, AnswerStep
  <2>. QED
    BY <2>5, <2>6
<1>7. ASSUME NEW x \in Events, DelayElapses(x) PROVE Goal
  <2>1. ItemStep(c, e)
    BY <1>7, StepKind DEF Next
  <2>2. heap'[c] = IF c = copy THEN [heap[copy] EXCEPT ![x] = elapsed(heap[copy][x])] ELSE heap[c]
    BY <1>7 DEF DelayElapses, TypeOK, items
  <2>3. heap[copy] \in Items /\ heap[copy][x] \in Item
    BY DEF TypeOK, Items
  <2>4. elapsed(heap[copy][x]).attempts = heap[copy][x].attempts
        /\ elapsed(heap[copy][x]).status = heap[copy][x].status
    BY <2>3 DEF elapsed, Item
  <2>5. Aged(c, e)
    BY <2>2, <2>3, <2>4 DEF Aged, Items
  <2>. QED
    BY <1>2, <1>7, <2>5 DEF DelayElapses
<1>8. UNCHANGED heap => Aged(c, e)
  BY DEF Aged
<1>. QED
  BY <1>1, <1>2, <1>3, <1>4, <1>5, <1>6, <1>7, <1>8
  DEF Next, AuditedHandler, updateIntegrationConfig, TxnOpens, TxnRecords, TxnEnds, vars

BoundedAfter(c, e) ==
  /\ heap'[c][e].attempts <= Cap(1 + c)
  /\ LiveAfter(c) /\ Open(heap'[c][e]) =>
       heap'[c][e].attempts <= Cap(c) + Cardinality(AwaitedAfter(c, e))

LEMMA BoundedItem ==
    ASSUME TypeOK, BoundInv, [Next]_vars, NEW c \in Copies, NEW e \in Events
    PROVE  BoundedAfter(c, e)
<1>. DEFINE n == Cardinality(Awaiting(c, e))
            m == Cardinality(AwaitedAfter(c, e))
            a == heap[c][e].attempts
<1>1. /\ n \in Nat /\ n <= Cardinality(Runs) /\ IsFiniteSet(Awaiting(c, e))
  BY AwaitingFinite
<1>2. /\ m \in Nat /\ m <= Cardinality(Runs) /\ IsFiniteSet(AwaitedAfter(c, e))
  <2>1. AwaitedAfter(c, e) \subseteq Runs
    BY DEF AwaitedAfter
  <2>. QED
    BY <2>1, FS_Subset, FS_CardinalityType, SiemOutboxAssumption
<1>3. /\ c \in Nat /\ Cap(c) \in Nat /\ Cap(1 + c) = Cap(c) + Cardinality(Runs)
      /\ Cardinality(Runs) \in Nat /\ MaxAttempts - 1 <= Cap(c)
  <2>1. c \in Nat
    BY SiemOutboxAssumption DEF Copies
  <2>2. Cardinality(Runs) * c \in Nat
    <3>1. ASSUME NEW k \in Nat PROVE k * c \in Nat
      BY <2>1
    <3>. QED
      BY <3>1, CapType
  <2>3. MaxAttempts - 1 <= Cap(c)
    BY <2>2, SiemOutboxAssumption DEF Cap
  <2>. QED
    BY <2>1, <2>3, CapType
<1>4. heap[c][e] \in Item /\ a \in Nat /\ a <= Cap(1 + c)
  BY DEF TypeOK, Items, Item, BoundInv
<1>5. Live(c) /\ Open(heap[c][e]) => a <= Cap(c) + n
  BY DEF BoundInv
<1>. HIDE DEF n, m, a
<1>6. Awaiting(c, e) \subseteq AwaitedAfter(c, e) => n <= m
  BY <1>2, FS_Subset DEF n, m
<1>7. CASE Fresh(c, e)
  BY <1>2, <1>3, <1>7 DEF Fresh, BoundedAfter, m
<1>8. CASE SettledFor(c, e)
  <2>1. heap'[c][e].attempts = a
    BY <1>8 DEF SettledFor, a
  <2>2. Open(heap'[c][e]) => ~(a >= MaxAttempts)
    BY <1>8 DEF SettledFor, Open, a
  <2>. QED
    BY <1>2, <1>3, <1>4, <2>1, <2>2, SiemOutboxAssumption DEF BoundedAfter, m
<1>9. CASE Aged(c, e) /\ (LiveAfter(c) => Live(c) /\ Awaiting(c, e) \subseteq AwaitedAfter(c, e))
  BY <1>1, <1>2, <1>3, <1>4, <1>5, <1>6, <1>9 DEF Aged, Open, BoundedAfter, m, a
<1>10. ASSUME NEW r \in Runs, SentBy(c, e, r), Live(c), r \notin Awaiting(c, e),
              Awaiting(c, e) \cup {r} \subseteq AwaitedAfter(c, e)
       PROVE  BoundedAfter(c, e)
  <2>1. heap'[c][e].attempts = a + 1
    BY <1>4, <1>10 DEF SentBy, tried, Item, a
  <2>2. Cardinality(Awaiting(c, e) \cup {r}) = n + 1
    BY <1>1, <1>10, FS_AddElement DEF n
  <2>3. n + 1 <= m
    BY <1>2, <1>10, <2>2, FS_Subset DEF m
  <2>4. a <= Cap(c) + n
    BY <1>5, <1>10 DEF SentBy
  <2>. QED
    BY <1>1, <1>2, <1>3, <1>4, <2>1, <2>3, <2>4 DEF BoundedAfter, m
<1>11. CASE Copied(c, e)
  <2>1. c = 1 + copy
    BY <1>11 DEF Copied, TypeOK, Copies
  <2>2. copy \in Copies
    BY DEF TypeOK
  <2>3. heap'[c][e].attempts \in Nat /\ heap'[c][e].attempts <= Cap(c)
    <3>1. disk.items[e].attempts \in Nat /\ heap[copy][e].attempts \in Nat
          /\ (txn # NoTxn => txn.items[e].attempts \in Nat)
      BY <2>2 DEF TypeOK, Stored, Snapshot, Items, Item
    <3>2. NoItem.attempts = 0 /\ 0 <= Cap(c)
      BY <1>3 DEF NoItem
    <3>3. /\ disk.items[e].attempts <= Cap(c)
          /\ heap[copy][e].attempts <= Cap(c)
          /\ txn # NoTxn => txn.items[e].attempts <= Cap(c)
      BY <2>1, <2>2 DEF BoundInv
    <3>. QED
      BY <1>11, <3>1, <3>2, <3>3 DEF Copied
  <2>. QED
    BY <1>2, <1>3, <2>3 DEF BoundedAfter, m
<1>. QED
  BY <1>7, <1>8, <1>9, <1>10, <1>11, WalkStep DEF Walked

LEMMA BoundInductive == TypeOK /\ BoundInv /\ [Next]_vars => BoundInv'
<1>. SUFFICES ASSUME TypeOK, BoundInv, [Next]_vars, NEW e \in Events
     PROVE  /\ \A c \in Copies : BoundedAfter(c, e)
            /\ disk'.items[e].attempts <= Cap(1 + copy')
            /\ txn' # NoTxn => txn'.items[e].attempts <= Cap(1 + copy')
  BY DEF BoundInv, BoundedAfter, LiveAfter, AwaitedAfter, Live, Awaiting, Cap
<1>1. copy \in Copies /\ copy \in Nat
  BY SiemOutboxAssumption DEF TypeOK, Copies
<1>2. /\ disk'.items[e] \in {disk.items[e], heap'[copy][e], NoItem}
      /\ txn' # NoTxn =>
           \/ txn # NoTxn /\ txn'.items[e] = txn.items[e]
           \/ txn'.items[e] \in {heap[copy][e], NoItem}
  BY <1>1, StepKind DEF Taken
<1>3. /\ Cap(1 + copy) \in Nat /\ Cap(1 + copy') \in Nat /\ Cap(1 + copy) <= Cap(1 + copy')
  <2>1. copy' \in {copy, copy + 1}
    BY <1>1, WalkStep
  <2>2. 1 + copy \in Nat /\ Cap(1 + (1 + copy)) = Cap(1 + copy) + Cardinality(Runs)
        /\ Cap(1 + copy) \in Nat /\ Cap(1 + (1 + copy)) \in Nat /\ Cardinality(Runs) \in Nat
    BY <1>1, CapType
  <2>3. 1 + (copy + 1) = 1 + (1 + copy)
    BY <1>1
  <2>. QED
    BY <2>1, <2>2, <2>3
<1>4. NoItem.attempts = 0
  BY DEF NoItem
<1>5. /\ disk.items[e].attempts \in Nat /\ disk.items[e].attempts <= Cap(1 + copy)
      /\ heap[copy][e].attempts \in Nat /\ heap[copy][e].attempts <= Cap(1 + copy)
      /\ txn # NoTxn => txn.items[e].attempts \in Nat /\ txn.items[e].attempts <= Cap(1 + copy)
  BY <1>1 DEF TypeOK, Stored, Snapshot, Items, Item, BoundInv
<1>6. heap'[copy][e].attempts \in Nat /\ heap'[copy][e].attempts <= Cap(1 + copy)
  <2>1. TypeOK'
    BY TypeInductive
  <2>2. heap'[copy][e].attempts \in Nat
    BY <1>1, <2>1 DEF TypeOK, Items, Item
  <2>. QED
    BY <1>1, <2>2, BoundedItem DEF BoundedAfter
<1>. QED
  BY <1>2, <1>3, <1>4, <1>5, <1>6, BoundedItem

LEMMA BoundInitially == Init => BoundInv
<1>1. \A c \in Copies : c \in Nat /\ Cap(c) \in Nat /\ Cap(1 + c) \in Nat /\ 1 + c \in Nat
  BY SiemOutboxAssumption, CapType DEF Copies
<1>2. \A c, e : Cardinality(Awaiting(c, e)) \in Nat
  BY AwaitingFinite
<1>3. 0 \in Copies /\ NoItem.attempts = 0
  BY SiemOutboxAssumption DEF Copies, NoItem
<1>. QED
  BY <1>1, <1>2, <1>3 DEF Init, BoundInv

\* Overlap and restores are the only ways past the configured attempts.
THEOREM Attempts == Spec => []AttemptsBounded
<1>1. BoundInv => AttemptsBounded
  BY DEF BoundInv, AttemptsBounded, Cap
<1>. QED
  BY <1>1, TypeCorrect, BoundInitially, BoundInductive, PTL DEF Spec
=============================================================================
