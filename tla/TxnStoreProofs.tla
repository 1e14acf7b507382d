--------------------------- MODULE TxnStoreProofs ---------------------------
(***************************************************************************)
(* Machine-checked proofs about TxnStore, for any sets of operations, any  *)
(* combination of faults and any number of crashes: types and snapshots,   *)
(* then the trail and the queued appends, then what survives a crash and   *)
(* that TxnStore implements AtomicStore while no save fails late.          *)
(***************************************************************************)
EXTENDS TxnStore, SequenceTheorems, TLAPS

(***************************************************************************)
(* TypeOK without the Boolean, which needs another prover than the rest.   *)
(***************************************************************************)
StateTypes ==
    /\ mem \in Memory
    /\ disk \in Persisted
    /\ ledger \in Seq(Event)
    /\ depth \in Int
    /\ snapshot \in Memory \cup {NoSnapshot}
    /\ hooks \in Seq(Event)
    /\ status \in [Ops -> {"idle", "waiting", "ok", "error", "lost"}]
    /\ crashes \in 0..MaxCrashes

LEMMA NoEvents == <<>> \in Seq(Event)
OBVIOUS

(***************************************************************************)
(* What a handler writes is a state, and what is saved or loaded is one.   *)
(***************************************************************************)
LEMMA WriteType ==
    ASSUME mem \in Memory, NEW o \in Ops
    PROVE  /\ NewEvent(o) \in Event
           /\ Write(o) \in Memory
           /\ Write(o).audit = Append(mem.audit, NewEvent(o))
<1>1. NewEvent(o) \in Event
  <2>1. CASE mem.audit = <<>>
    BY <2>1 DEF NewEvent, Event, Memory
  <2>2. CASE mem.audit # <<>>
    <3>1. mem.audit \in Seq(Event) /\ Len(mem.audit) \in 1..Len(mem.audit)
      BY <2>2 DEF Memory
    <3>2. mem.audit[Len(mem.audit)] \in Event
      BY <3>1
    <3>. QED
      BY <2>2, <3>2 DEF NewEvent, Event
  <2>. QED
    BY <2>1, <2>2
<1>2. mem.rows \cup {o} \in SUBSET Ops /\ Append(mem.audit, NewEvent(o)) \in Seq(Event)
  BY <1>1 DEF Memory
<1>3. mem.sessions \cup ({o} \cap Logins) \in SUBSET Logins
  BY DEF Memory
<1>. DEFINE e == NewEvent(o)
<1>. HIDE DEF e
<1>4. Write(o) \in Memory /\ Write(o).audit = Append(mem.audit, e)
  <2>1. Write(o) = [mem EXCEPT !.rows = @ \cup {o}, !.audit = Append(@, e),
                               !.sessions = @ \cup ({o} \cap Logins)]
    BY DEF Write, e
  <2>2. Append(mem.audit, e) \in Seq(Event)
    BY <1>2 DEF e
  <2>. QED
    BY <2>1, <2>2, <1>2, <1>3 DEF Memory
<1>. QED
  BY <1>1, <1>4 DEF e

LEMMA SavedType ==
    ASSUME NEW m \in Memory
    PROVE  toPersistedState(m) \in Persisted
BY DEF toPersistedState, Memory, Persisted

LEMMA LoadedType ==
    ASSUME NEW d \in Persisted
    PROVE  normalizeState(d) \in Memory
BY DEF normalizeState, Memory, Persisted

(***************************************************************************)
(* Each of the three ways audit() ends keeps the types of what it touches. *)
(***************************************************************************)
LEMMA DeferType ==
    ASSUME StateTypes, NEW o \in Ops, Defer(o)
    PROVE  /\ mem' \in Memory /\ disk' \in Persisted /\ ledger' \in Seq(Event)
           /\ snapshot' = snapshot /\ saveRequested' = TRUE
           /\ hooks' \in Seq(Event) /\ hooks' # <<>>
BY WriteType DEF StateTypes, Defer

LEMMA WriteThroughType ==
    ASSUME StateTypes, NEW o \in Ops, NEW out \in Outcomes, WriteThrough(o, out)
    PROVE  /\ mem' \in Memory /\ disk' \in Persisted /\ ledger' \in Seq(Event)
           /\ snapshot' = snapshot /\ saveRequested' = saveRequested
           /\ hooks' = hooks
BY WriteType, SavedType DEF StateTypes, WriteThrough

LEMMA CommitType ==
    ASSUME StateTypes, NEW m \in Memory, NEW before \in Memory,
           NEW callbacks \in Seq(Event), NEW out \in Outcomes,
           Commit(m, before, callbacks, out)
    PROVE  /\ mem' \in Memory /\ disk' \in Persisted /\ ledger' \in Seq(Event)
           /\ snapshot' = NoSnapshot /\ saveRequested' = FALSE /\ hooks' = <<>>
<1>1. mem' \in Memory /\ disk' \in Persisted
  BY SavedType DEF Commit, StateTypes
<1>2. ledger' \in Seq(Event)
  <2>1. CASE out = "ledger"
    <3>1. PICK k \in 0..(Len(callbacks) - 1) :
              ledger' = ledger \o SubSeq(callbacks, 1, k)
      BY <2>1 DEF Commit
    <3>2. SubSeq(callbacks, 1, k) \in Seq(Event)
      <4>1. \A i \in 1..k : callbacks[i] \in Event
        OBVIOUS
      <4>. QED
        BY <4>1, SubSeqProperties
    <3>. QED
      BY <3>1, <3>2 DEF StateTypes
  <2>2. CASE out # "ledger"
    <3>1. ledger' = ledger \o callbacks \/ ledger' = ledger
      BY <2>2 DEF Commit
    <3>2. ledger \o callbacks \in Seq(Event) /\ ledger \in Seq(Event)
      BY DEF StateTypes
    <3>. QED
      BY <3>1, <3>2
  <2>. QED
    BY <2>1, <2>2
<1>. QED
  BY <1>1, <1>2 DEF Commit, Closed

LEMMA ReplyType ==
    ASSUME StateTypes, NEW o \in Ops, NEW out, Reply(o, out)
    PROVE  status' \in [Ops -> {"idle", "waiting", "ok", "error", "lost"}]
BY DEF StateTypes, Reply

LEMMA RestartType ==
    ASSUME StateTypes, NEW inFlight, Restart(inFlight),
           disk' \in Persisted, ledger' \in Seq(Event)
    PROVE  StateTypes' /\ SnapshotWhileOpen'
<1>1. mem' \in Memory
  BY LoadedType DEF Restart
<1>2. crashes' \in 0..MaxCrashes
  BY TxnStoreAssumption DEF Restart, StateTypes
<1>3. status' \in [Ops -> {"idle", "waiting", "ok", "error", "lost"}]
  BY DEF Restart, StateTypes
<1>. QED
  BY <1>1, <1>2, <1>3 DEF Restart, Closed, StateTypes, SnapshotWhileOpen

(***************************************************************************)
(* A snapshot is a state while a transaction is open, so what a failed     *)
(* commit or a rollback restores is a state.  The types are not inductive      *)
(* without this.                                                           *)
(***************************************************************************)
Shape == StateTypes /\ SnapshotWhileOpen

LEMMA OpenSnapshot ==
    ASSUME Shape
    PROVE  /\ depth > 0 => snapshot \in Memory
           /\ depth <= 0 => snapshot = NoSnapshot /\ saveRequested = FALSE /\ hooks = <<>>
BY DEF Shape, StateTypes, SnapshotWhileOpen

LEMMA ShapeInit == Init => Shape
BY TxnStoreAssumption
   DEF Init, Shape, StateTypes, SnapshotWhileOpen, Memory, Persisted

LEMMA ShapeAccess ==
    ASSUME Shape, NEW o \in AccessRequests,
           OpenAccess(o) \/ AccessRecorded(o) \/ AccessExisting(o) \/ AccessRefused(o)
    PROVE  Shape'
<1>. o \in Ops
  BY DEF Ops
<1>. USE DEF Shape
<1>1. CASE OpenAccess(o)
  <2>1. depth' \in Int /\ depth' = depth + 1
    BY <1>1 DEF OpenAccess, Enter, StateTypes
  <2>2. CASE depth = 0
    BY <1>1, <2>1, <2>2, TxnStoreAssumption
       DEF OpenAccess, Enter, StateTypes, SnapshotWhileOpen
  <2>3. CASE depth # 0
    BY <1>1, <2>1, <2>3, OpenSnapshot
       DEF OpenAccess, Enter, StateTypes, SnapshotWhileOpen
  <2>. QED
    BY <2>2, <2>3
<1>2. CASE AccessRecorded(o)
  <2>1. depth' \in Int /\ depth' = depth - 1 /\ crashes' = crashes
    BY <1>2 DEF AccessRecorded, Leave, StateTypes
  <2>2. CASE depth > 1 /\ Defer(o) /\ Reply(o, "ok")
    <3>1. /\ mem' \in Memory /\ disk' \in Persisted /\ ledger' \in Seq(Event)
          /\ snapshot' = snapshot /\ saveRequested' = TRUE
          /\ hooks' \in Seq(Event) /\ hooks' # <<>>
      BY <2>2, DeferType
    <3>2. snapshot # NoSnapshot /\ depth' > 0
      BY <2>1, <2>2 DEF SnapshotWhileOpen, StateTypes
    <3>. QED
      BY <2>1, <2>2, <3>1, <3>2, ReplyType DEF StateTypes, SnapshotWhileOpen
  <2>3. ASSUME depth = 1, NEW out \in Outcomes, Reply(o, out),
               Commit(Write(o), snapshot, Append(hooks, NewEvent(o)), out)
        PROVE  Shape'
    <3>1. snapshot \in Memory /\ Write(o) \in Memory
      BY <2>3, OpenSnapshot, WriteType DEF StateTypes
    <3>2. Append(hooks, NewEvent(o)) \in Seq(Event)
      BY WriteType DEF StateTypes
    <3>9. /\ mem' \in Memory /\ disk' \in Persisted /\ ledger' \in Seq(Event)
          /\ snapshot' = NoSnapshot /\ saveRequested' = FALSE /\ hooks' = <<>>
      BY <2>3, <3>1, <3>2, CommitType DEF Shape
    <3>. QED
      BY <2>1, <2>3, <3>9, NoEvents, ReplyType DEF StateTypes, SnapshotWhileOpen
  <2>4. ASSUME depth < 1, NEW out \in Outcomes, WriteThrough(o, out), Reply(o, out)
        PROVE  Shape'
    BY <2>1, <2>4, WriteThroughType, ReplyType, OpenSnapshot
       DEF StateTypes, SnapshotWhileOpen
  <2>. QED
    BY <1>2, <2>2, <2>3, <2>4 DEF AccessRecorded
<1>3. CASE AccessExisting(o)
  <2>1. depth' \in Int /\ depth' = depth - 1 /\ crashes' = crashes
    BY <1>3 DEF AccessExisting, Leave, StateTypes
  <2>2. ASSUME depth = 1, NEW out \in Outcomes, Reply(o, out),
               Commit(mem, snapshot, hooks, out)
        PROVE  Shape'
    <3>1. snapshot \in Memory /\ mem \in Memory /\ hooks \in Seq(Event)
      BY <2>2, OpenSnapshot DEF StateTypes
    <3>9. /\ mem' \in Memory /\ disk' \in Persisted /\ ledger' \in Seq(Event)
          /\ snapshot' = NoSnapshot /\ saveRequested' = FALSE /\ hooks' = <<>>
      BY <2>2, <3>1, CommitType DEF Shape
    <3>. QED
      BY <2>1, <2>2, <3>9, NoEvents, ReplyType DEF StateTypes, SnapshotWhileOpen
  <2>3. CASE /\ depth = 1 /\ Closed /\ Reply(o, "ok")
             /\ UNCHANGED <<mem, disk, ledger>>
    BY <2>1, <2>3, ReplyType DEF Closed, StateTypes, SnapshotWhileOpen
  <2>4. CASE /\ depth # 1 /\ Reply(o, "ok")
             /\ UNCHANGED <<mem, disk, ledger, snapshot, saveRequested, hooks>>
    BY <2>1, <2>4, ReplyType, OpenSnapshot DEF StateTypes, SnapshotWhileOpen
  <2>. QED
    BY <1>3, <2>2, <2>3, <2>4 DEF AccessExisting
<1>4. CASE AccessRefused(o)
  <2>1. depth' \in Int /\ depth' = depth - 1
    BY <1>4 DEF AccessRefused, Leave, StateTypes
  <2>2. CASE depth = 1
    BY <1>4, <2>1, <2>2, OpenSnapshot, ReplyType
       DEF AccessRefused, rollbackTransaction, Closed, StateTypes, SnapshotWhileOpen
  <2>3. CASE depth # 1
    BY <1>4, <2>1, <2>3, OpenSnapshot, ReplyType
       DEF AccessRefused, StateTypes, SnapshotWhileOpen
  <2>. QED
    BY <2>2, <2>3
<1>. QED
  BY <1>1, <1>2, <1>3, <1>4

LEMMA ShapeSync ==
    ASSUME Shape, NEW o \in Ops, EditOk(o) \/ EditThrows(o) \/ PlainWrite(o)
    PROVE  Shape'
<1>. USE DEF Shape
<1>1. CASE EditOk(o)
  <2>1. CASE depth > 0 /\ Defer(o) /\ Reply(o, "ok") /\ UNCHANGED <<depth, crashes>>
    BY <2>1, DeferType, ReplyType, OpenSnapshot DEF StateTypes, SnapshotWhileOpen
  <2>2. ASSUME depth = 0, NEW out \in Outcomes, UNCHANGED crashes,
               Commit(Write(o), mem, <<NewEvent(o)>>, out),
               depth' = IF out = "ok" THEN depth ELSE depth - 1,
               Reply(o, out)
        PROVE  Shape'
    <3>1. mem \in Memory /\ Write(o) \in Memory /\ <<NewEvent(o)>> \in Seq(Event)
      BY WriteType DEF StateTypes
    <3>9. /\ mem' \in Memory /\ disk' \in Persisted /\ ledger' \in Seq(Event)
          /\ snapshot' = NoSnapshot /\ saveRequested' = FALSE /\ hooks' = <<>>
      BY <2>2, <3>1, CommitType DEF Shape
    <3>. QED
      BY <2>2, <3>9, NoEvents, ReplyType DEF StateTypes, SnapshotWhileOpen
  <2>3. ASSUME depth < 0, NEW out \in Outcomes, WriteThrough(o, out), Reply(o, out),
               UNCHANGED <<depth, crashes>>
        PROVE  Shape'
    BY <2>3, WriteThroughType, ReplyType, OpenSnapshot DEF StateTypes, SnapshotWhileOpen
  <2>. QED
    BY <1>1, <2>1, <2>2, <2>3 DEF EditOk
<1>2. CASE EditThrows(o)
  <2>1. CASE depth = 0
    BY <1>2, <2>1, ReplyType
       DEF EditThrows, rollbackTransaction, Closed, StateTypes, SnapshotWhileOpen
  <2>2. CASE depth # 0
    <3>1. PICK half \in {{}, {o}} : mem' = [mem EXCEPT !.torn = @ \cup half]
      BY <1>2, <2>2 DEF EditThrows
    <3>2. o \in Edits
      BY <1>2 DEF EditThrows
    <3>3. mem' \in Memory
      BY <3>1, <3>2 DEF StateTypes, Memory
    <3>. QED
      BY <1>2, <2>2, <3>3, ReplyType DEF EditThrows, StateTypes, SnapshotWhileOpen
  <2>. QED
    BY <2>1, <2>2
<1>3. CASE PlainWrite(o)
  <2>1. CASE depth > 0 /\ Defer(o) /\ Reply(o, "ok") /\ UNCHANGED <<depth, crashes>>
    BY <2>1, DeferType, ReplyType, OpenSnapshot DEF StateTypes, SnapshotWhileOpen
  <2>2. ASSUME depth <= 0, NEW out \in Outcomes, WriteThrough(o, out), Reply(o, out),
               UNCHANGED <<depth, crashes>>
        PROVE  Shape'
    BY <2>2, WriteThroughType, ReplyType, OpenSnapshot DEF StateTypes, SnapshotWhileOpen
  <2>. QED
    BY <1>3, <2>1, <2>2 DEF PlainWrite
<1>. QED
  BY <1>1, <1>2, <1>3
LEMMA ShapeCrash ==
    ASSUME Shape, NEW o \in Ops, Crash \/ CrashInCommit(o) \/ CrashInWriteThrough(o)
    PROVE  Shape'
<1>. USE DEF Shape
<1>1. CASE Crash
  BY <1>1, RestartType DEF Crash, StateTypes
<1>2. CASE CrashInCommit(o)
  <2>1. ASSUME NEW m \in Memory, NEW callbacks \in Seq(Event),
               DieCommitting(m, callbacks)
        PROVE  disk' \in Persisted /\ ledger' \in Seq(Event)
    <3>1. PICK k \in 0..(Len(callbacks) - 1) :
              ledger' = ledger \o SubSeq(callbacks, 1, k)
      BY <2>1 DEF DieCommitting
    <3>2. SubSeq(callbacks, 1, k) \in Seq(Event)
      <4>1. \A i \in 1..k : callbacks[i] \in Event
        OBVIOUS
      <4>. QED
        BY <4>1, SubSeqProperties
    <3>. QED
      BY <2>1, <3>1, <3>2, SavedType DEF DieCommitting, StateTypes
  <2>2. mem \in Memory /\ hooks \in Seq(Event) /\ Write(o) \in Memory
        /\ Append(hooks, NewEvent(o)) \in Seq(Event)
    BY WriteType DEF StateTypes
  <2>3. disk' \in Persisted /\ ledger' \in Seq(Event)
    BY <1>2, <2>1, <2>2 DEF CrashInCommit
  <2>. QED
    BY <1>2, <2>3, RestartType DEF CrashInCommit
<1>3. CASE CrashInWriteThrough(o)
  BY <1>3, RestartType, WriteType DEF CrashInWriteThrough, StateTypes
<1>. QED
  BY <1>1, <1>2, <1>3

LEMMA ShapeStep == Shape /\ [Next]_vars => Shape'
<1>. SUFFICES ASSUME Shape, [Next]_vars PROVE Shape'
  OBVIOUS
<1>1. ASSUME NEW o \in AccessRequests, OpenAccess(o) \/ AccessAnswered(o)
      PROVE  Shape'
  BY <1>1, ShapeAccess DEF AccessAnswered
<1>2. ASSUME NEW o \in Ops, EditOk(o) \/ EditThrows(o) \/ PlainWrite(o)
      PROVE  Shape'
  BY <1>2, ShapeSync
<1>3. ASSUME NEW o \in Ops, CrashInCommit(o) \/ CrashInWriteThrough(o)
      PROVE  Shape'
  BY <1>3, ShapeCrash
<1>4. CASE Crash
  <2>1. CASE Ops = {}
    BY <1>4, <2>1, RestartType DEF Crash, Shape, StateTypes
  <2>. QED
    BY <1>4, <2>1, ShapeCrash
<1>5. CASE UNCHANGED vars
  BY <1>5 DEF vars, Shape, StateTypes, SnapshotWhileOpen
<1>. QED
  BY <1>1, <1>2, <1>3, <1>4, <1>5 DEF Next, Ops

LEMMA ShapeAlways == Spec => []Shape
BY ShapeInit, ShapeStep, PTL DEF Spec

(***************************************************************************)
(* A snapshot, a requested save and queued callbacks belong to an open     *)
(* transaction, under every fault and crash.                               *)
(***************************************************************************)
THEOREM SnapshotInvariant == Spec => []SnapshotWhileOpen
BY ShapeAlways, PTL DEF Shape

LEMMA SaveRequestedStep ==
    ASSUME Next
    PROVE  saveRequested' = saveRequested \/ saveRequested' = TRUE \/ saveRequested' = FALSE
BY DEF Next, OpenAccess, Enter, AccessAnswered, AccessRecorded, AccessExisting,
       AccessRefused, EditOk, EditThrows, PlainWrite, Crash, CrashInCommit,
       CrashInWriteThrough, Restart, Defer, WriteThrough, Commit,
       rollbackTransaction, Closed

(***************************************************************************)
(* The variables of the store hold what their declarations say.            *)
(***************************************************************************)
THEOREM TypeCorrect == Spec => []TypeOK
<1>1. Init => saveRequested \in BOOLEAN
  BY DEF Init
<1>2. saveRequested \in BOOLEAN /\ [Next]_vars => (saveRequested \in BOOLEAN)'
  BY SaveRequestedStep DEF vars
<1>3. Spec => [](saveRequested \in BOOLEAN)
  BY <1>1, <1>2, PTL DEF Spec
<1>4. Shape /\ saveRequested \in BOOLEAN => TypeOK
  BY DEF Shape, StateTypes, TypeOK
<1>. QED
  BY <1>3, <1>4, ShapeAlways, PTL

-----------------------------------------------------------------------------
(***************************************************************************)
(* The eight things a step can do to the memory, the disk and the queue,   *)
(* with the depth it happens at.  Every action of Next is one of them.     *)
(***************************************************************************)
Unsettled(o) == status[o] \in {"idle", "waiting"}
Settles(o) == Unsettled(o) /\ ~Unsettled(o)'

Opens ==
    /\ depth = 0 /\ depth' = 1
    /\ snapshot' = mem /\ hooks' = <<>>
    /\ UNCHANGED <<mem, disk, ledger>>

Defers(o) == depth > 0 /\ depth' > 0 /\ Settles(o) /\ Defer(o)

WritesThrough(o, out) ==
    depth <= 0 /\ depth' <= 0 /\ Settles(o) /\ WriteThrough(o, out)

CommitsWrite(o, before, out) ==
    /\ depth' <= 0 /\ Settles(o)
    /\ \/ depth = 1 /\ before = snapshot
       \/ depth = 0 /\ before = mem
    /\ Commit(Write(o), before, Append(hooks, NewEvent(o)), out)

CommitsPending(out) ==
    depth = 1 /\ depth' = 0 /\ hooks # <<>> /\ Commit(mem, snapshot, hooks, out)

RollsBack ==
    /\ depth = 1 /\ depth' = 0 /\ mem' = snapshot /\ Closed
    /\ UNCHANGED <<disk, ledger>>

Saved(m) == disk' = toPersistedState(m)

Restarts ==
    /\ depth' = 0 /\ mem' = normalizeState(disk') /\ Closed
    /\ crashes' # 0
    /\ \/ UNCHANGED disk
       \/ \E o \in Ops : Settles(o) /\ depth \in {0, 1} /\ Saved(Write(o))
       \/ depth = 1 /\ hooks # <<>> /\ Saved(mem)

\* The step changes neither whole records, trail, disk nor queue.  A handler
\* that throws may leave half a record in memory.
Keeps ==
    /\ depth > 0 <=> depth' > 0
    /\ mem'.rows = mem.rows /\ mem'.audit = mem.audit
    /\ \/ mem'.torn = mem.torn
       \/ \E o \in Ops : Settles(o) /\ mem'.torn = mem.torn \cup {o}
    /\ UNCHANGED <<disk, ledger, snapshot, hooks>>

\* The end of a transaction in which nothing was recorded.
ClosesUnchanged ==
    /\ depth = 1 /\ depth' = 0 /\ hooks = <<>> /\ Closed
    /\ UNCHANGED <<mem, disk, ledger>>

NextKind ==
    \/ Opens \/ RollsBack \/ Restarts \/ Keeps \/ ClosesUnchanged
    \/ \E o \in Ops : Defers(o)
    \/ \E o \in Ops, out \in Outcomes : WritesThrough(o, out)
    \/ \E o \in Ops, out \in Outcomes, before \in {mem, snapshot} :
           CommitsWrite(o, before, out)
    \/ \E out \in Outcomes : CommitsPending(out)

LEMMA ReplySettles ==
    ASSUME StateTypes, NEW o \in Ops, NEW out, Reply(o, out)
    PROVE  /\ ~Unsettled(o)'
           /\ \A p \in Ops : Unsettled(p)' => Unsettled(p)
BY DEF StateTypes, Reply, Unsettled

LEMMA StatusMoves ==
    ASSUME StateTypes, [Next]_vars
    PROVE  \A p \in Ops : Unsettled(p)' => Unsettled(p)
<1>1. ASSUME NEW o \in AccessRequests, OpenAccess(o)
      PROVE  \A p \in Ops : Unsettled(p)' => Unsettled(p)
  BY <1>1 DEF OpenAccess, StateTypes, Unsettled
<1>2. ASSUME NEW o \in Ops, NEW out, Reply(o, out)
      PROVE  \A p \in Ops : Unsettled(p)' => Unsettled(p)
  BY <1>2, ReplySettles
<1>3. ASSUME NEW inFlight, Restart(inFlight)
      PROVE  \A p \in Ops : Unsettled(p)' => Unsettled(p)
  BY <1>3 DEF Restart, Unsettled, StateTypes
<1>4. ASSUME NEW o \in AccessRequests, AccessAnswered(o)
      PROVE  \A p \in Ops : Unsettled(p)' => Unsettled(p)
  BY <1>2, <1>4 DEF AccessAnswered, AccessRecorded, AccessExisting, AccessRefused, Ops
<1>5. ASSUME NEW o \in Ops, EditOk(o) \/ EditThrows(o) \/ PlainWrite(o)
      PROVE  \A p \in Ops : Unsettled(p)' => Unsettled(p)
  BY <1>2, <1>5 DEF EditOk, EditThrows, PlainWrite
<1>6. ASSUME NEW o \in Ops, Crash \/ CrashInCommit(o) \/ CrashInWriteThrough(o)
      PROVE  \A p \in Ops : Unsettled(p)' => Unsettled(p)
  BY <1>3, <1>6 DEF Crash, CrashInCommit, CrashInWriteThrough
<1>7. CASE Crash
  BY <1>3, <1>7 DEF Crash
<1>8. CASE UNCHANGED vars
  BY <1>8 DEF vars, Unsettled
<1>. QED
  BY <1>1, <1>4, <1>5, <1>6, <1>7, <1>8 DEF Next, Ops

LEMMA KindsAccess ==
    ASSUME Shape, NEW o \in AccessRequests, OpenAccess(o) \/ AccessAnswered(o)
    PROVE  NextKind
<1>. o \in Ops
  BY DEF Ops
<1>. depth \in Int /\ StateTypes
  BY DEF Shape, StateTypes
<1>1. CASE OpenAccess(o)
  <2>1. CASE depth = 0
    BY <1>1, <2>1 DEF OpenAccess, Enter, Opens, NextKind
  <2>2. CASE depth # 0
    <3>1. Keeps
      BY <1>1, <2>2 DEF OpenAccess, Enter, Keeps
    <3>. QED
      BY <3>1 DEF NextKind
  <2>. QED
    BY <2>1, <2>2
<1>2. CASE AccessRecorded(o)
  <2>1. depth' = depth - 1 /\ Unsettled(o)
    BY <1>2 DEF AccessRecorded, Leave, Waiting, Unsettled
  <2>2. CASE depth > 1 /\ Defer(o) /\ Reply(o, "ok")
    BY <2>1, <2>2, ReplySettles DEF Defers, Settles, NextKind
  <2>3. ASSUME depth = 1, NEW out \in Outcomes, Reply(o, out),
               Commit(Write(o), snapshot, Append(hooks, NewEvent(o)), out)
        PROVE  NextKind
    <3>1. CommitsWrite(o, snapshot, out)
      BY <2>1, <2>3, ReplySettles DEF CommitsWrite, Settles
    <3>. QED
      BY <3>1 DEF NextKind
  <2>4. ASSUME depth < 1, NEW out \in Outcomes, WriteThrough(o, out), Reply(o, out)
        PROVE  NextKind
    <3>1. WritesThrough(o, out)
      BY <2>1, <2>4, ReplySettles DEF WritesThrough, Settles
    <3>. QED
      BY <3>1 DEF NextKind
  <2>. QED
    BY <1>2, <2>2, <2>3, <2>4 DEF AccessRecorded
<1>3. CASE AccessExisting(o)
  <2>1. depth' = depth - 1
    BY <1>3 DEF AccessExisting, Leave
  <2>2. ASSUME depth = 1, saveRequested = TRUE, NEW out \in Outcomes,
               Commit(mem, snapshot, hooks, out)
        PROVE  NextKind
    BY <2>1, <2>2 DEF CommitsPending, NextKind, Shape, SnapshotWhileOpen
  <2>3. CASE /\ depth = 1 /\ saveRequested = FALSE /\ Closed
             /\ UNCHANGED <<mem, disk, ledger>>
    <3>1. hooks = <<>>
      BY <2>3 DEF Shape, SnapshotWhileOpen
    <3>. QED
      BY <2>1, <2>3, <3>1 DEF ClosesUnchanged, NextKind
  <2>4. CASE depth # 1 /\ UNCHANGED <<mem, disk, ledger, snapshot, saveRequested, hooks>>
    <3>1. Keeps
      BY <2>1, <2>4 DEF Keeps
    <3>. QED
      BY <3>1 DEF NextKind
  <2>. QED
    BY <1>3, <2>2, <2>3, <2>4 DEF AccessExisting
<1>4. CASE AccessRefused(o)
  <2>1. depth' = depth - 1 /\ UNCHANGED <<disk, ledger>>
    BY <1>4 DEF AccessRefused, Leave
  <2>2. CASE depth = 1
    BY <1>4, <2>1, <2>2 DEF AccessRefused, rollbackTransaction, RollsBack, NextKind
  <2>3. CASE depth # 1
    <3>1. Keeps
      BY <1>4, <2>1, <2>3 DEF AccessRefused, Keeps
    <3>. QED
      BY <3>1 DEF NextKind
  <2>. QED
    BY <2>2, <2>3
<1>. QED
  BY <1>1, <1>2, <1>3, <1>4 DEF AccessAnswered
LEMMA KindsSync ==
    ASSUME Shape, NEW o \in Ops, EditOk(o) \/ EditThrows(o) \/ PlainWrite(o)
    PROVE  NextKind
<1>. depth \in Int /\ StateTypes
  BY DEF Shape, StateTypes
<1>. Unsettled(o)
  BY DEF EditOk, EditThrows, PlainWrite, Unsettled
<1>1. ASSUME NEW out \in Outcomes, WriteThrough(o, out), Reply(o, out),
             depth <= 0, depth' = depth
      PROVE  NextKind
  <2>1. WritesThrough(o, out)
    BY <1>1, ReplySettles DEF WritesThrough, Settles
  <2>. QED
    BY <2>1 DEF NextKind
<1>2. ASSUME depth > 0, Defer(o), Reply(o, "ok"), depth' = depth
      PROVE  NextKind
  BY <1>2, ReplySettles DEF Defers, Settles, NextKind
<1>3. CASE EditOk(o)
  <2>1. ASSUME depth = 0, NEW out \in Outcomes, Reply(o, out),
               Commit(Write(o), mem, <<NewEvent(o)>>, out),
               depth' = IF out = "ok" THEN depth ELSE depth - 1
        PROVE  NextKind
    <3>1. hooks = <<>> /\ Append(hooks, NewEvent(o)) = <<NewEvent(o)>>
      BY <2>1 DEF Shape, SnapshotWhileOpen
    <3>2. depth' <= 0
      BY <2>1
    <3>3. CommitsWrite(o, mem, out)
      BY <2>1, <3>1, <3>2, ReplySettles DEF CommitsWrite, Settles
    <3>. QED
      BY <3>3 DEF NextKind
  <2>. QED
    BY <1>1, <1>2, <1>3, <2>1 DEF EditOk
<1>4. CASE EditThrows(o)
  <2>0. mem \in Memory /\ depth' = depth /\ UNCHANGED <<disk, ledger>>
    BY <1>4 DEF EditThrows, StateTypes
  <2>1. CASE depth = 0
    <3>1. snapshot = NoSnapshot /\ hooks = <<>>
      BY <2>1, OpenSnapshot
    <3>2. Keeps
      BY <1>4, <2>0, <2>1, <3>1 DEF EditThrows, rollbackTransaction, Closed, Keeps
    <3>. QED
      BY <3>2 DEF NextKind
  <2>2. CASE depth # 0
    <3>1. PICK half \in {{}, {o}} : mem' = [mem EXCEPT !.torn = @ \cup half]
      BY <1>4, <2>2 DEF EditThrows
    <3>2. /\ mem'.rows = mem.rows /\ mem'.audit = mem.audit
          /\ mem'.torn = mem.torn \/ mem'.torn = mem.torn \cup {o}
      BY <2>0, <3>1 DEF Memory
    <3>3. Settles(o)
      BY <1>4, ReplySettles DEF EditThrows, Settles
    <3>4. Keeps
      BY <1>4, <2>0, <2>2, <3>2, <3>3 DEF EditThrows, Keeps
    <3>. QED
      BY <3>4 DEF NextKind
  <2>. QED
    BY <2>1, <2>2
<1>5. CASE PlainWrite(o)
  BY <1>1, <1>2, <1>5 DEF PlainWrite
<1>. QED
  BY <1>3, <1>4, <1>5

LEMMA RestartCounts ==
    ASSUME Shape, NEW inFlight, Restart(inFlight)
    PROVE  crashes' # 0
BY DEF Shape, StateTypes, Restart

LEMMA KindsCrash ==
    ASSUME Shape, NEW o \in Ops, CrashInCommit(o) \/ CrashInWriteThrough(o)
    PROVE  Restarts
<1>. depth \in Int /\ StateTypes
  BY DEF Shape, StateTypes
<1>. crashes' # 0
  BY RestartCounts DEF CrashInCommit, CrashInWriteThrough
<1>1. Settles(o)
  BY DEF CrashInCommit, CrashInWriteThrough, Waiting, Restart, Settles, Unsettled,
         StateTypes
<1>2. CASE CrashInCommit(o)
  <2>1. DieCommitting(mem, hooks) => hooks # <<>>
    BY DEF DieCommitting
  <2>. QED
    BY <1>1, <1>2, <2>1 DEF CrashInCommit, DieCommitting, Restart, Restarts, Saved
<1>3. CASE CrashInWriteThrough(o)
  BY <1>3 DEF CrashInWriteThrough, Restart, Restarts
<1>. QED
  BY <1>2, <1>3

LEMMA EveryStepKind == Shape /\ [Next]_vars => NextKind
<1>. SUFFICES ASSUME Shape, [Next]_vars PROVE NextKind
  OBVIOUS
<1>1. CASE Crash
  <2>1. Restarts
    BY <1>1, RestartCounts DEF Crash, Restart, Restarts
  <2>. QED
    BY <2>1 DEF NextKind
<1>2. ASSUME NEW o \in Ops, CrashInCommit(o) \/ CrashInWriteThrough(o)
      PROVE  NextKind
  BY <1>2, KindsCrash DEF NextKind
<1>3. CASE UNCHANGED vars
  <2>1. Keeps
    BY <1>3 DEF vars, Keeps
  <2>. QED
    BY <2>1 DEF NextKind
<1>. QED
  BY <1>1, <1>2, <1>3, KindsAccess, KindsSync DEF Next, Ops
(***************************************************************************)
(* Facts about a trail to which one event is appended.                     *)
(***************************************************************************)
LEMMA AppendOps ==
    ASSUME NEW events \in Seq(Event), NEW e \in Event
    PROVE  Atomic!OpsOf(Append(events, e)) = Atomic!OpsOf(events) \cup {e.op}
<1>. DEFINE longer == Append(events, e)
<1>1. /\ Len(longer) = Len(events) + 1 /\ Len(events) \in Nat
      /\ \A i \in 1..Len(events) : longer[i] = events[i]
      /\ longer[Len(events) + 1] = e
  OBVIOUS
<1>. HIDE DEF longer
<1>2. Atomic!OpsOf(longer) \subseteq Atomic!OpsOf(events) \cup {e.op}
  BY <1>1 DEF Atomic!OpsOf
<1>3. Atomic!OpsOf(events) \subseteq Atomic!OpsOf(longer)
  BY <1>1 DEF Atomic!OpsOf
<1>4. e.op \in Atomic!OpsOf(longer)
  BY <1>1 DEF Atomic!OpsOf
<1>. QED
  BY <1>2, <1>3, <1>4 DEF longer

LEMMA AppendLinked ==
    ASSUME NEW events \in Seq(Event), NEW e \in Event, Atomic!ChainLinked(events),
           e.prev = IF events = <<>> THEN NoHash ELSE events[Len(events)].op
    PROVE  Atomic!ChainLinked(Append(events, e))
<1>. DEFINE longer == Append(events, e)
<1>1. /\ Len(longer) = Len(events) + 1 /\ Len(events) \in Nat
      /\ \A i \in 1..Len(events) : longer[i] = events[i]
      /\ longer[Len(events) + 1] = e
      /\ events = <<>> <=> Len(events) = 0
  OBVIOUS
<1>. HIDE DEF longer
<1>2. ASSUME NEW i \in 1..Len(longer)
      PROVE  longer[i].prev = IF i = 1 THEN NoHash ELSE longer[i - 1].op
  <2>1. CASE i <= Len(events)
    <3>1. i \in 1..Len(events) /\ (i = 1 \/ i - 1 \in 1..Len(events))
      BY <2>1
    <3>. QED
      BY <1>1, <3>1 DEF Atomic!ChainLinked
  <2>2. CASE i = Len(events) + 1
    <3>1. i = 1 <=> events = <<>>
      BY <1>1, <2>2
    <3>2. i # 1 => longer[i - 1] = events[Len(events)]
      BY <1>1, <2>2
    <3>. QED
      BY <1>1, <2>2, <3>1, <3>2
  <2>. QED
    BY <1>1, <2>1, <2>2
<1>. QED
  BY <1>2 DEF Atomic!ChainLinked, longer

LEMMA AppendOnce ==
    ASSUME NEW events \in Seq(Event), NEW e \in Event, Atomic!OncePerOp(events),
           e.op \notin Atomic!OpsOf(events)
    PROVE  Atomic!OncePerOp(Append(events, e))
<1>. DEFINE longer == Append(events, e)
<1>1. /\ Len(longer) = Len(events) + 1 /\ Len(events) \in Nat
      /\ \A i \in 1..Len(events) : longer[i] = events[i]
      /\ longer[Len(events) + 1] = e
  OBVIOUS
<1>2. \A i \in 1..Len(events) : events[i].op # e.op
  BY DEF Atomic!OpsOf
<1>. HIDE DEF longer
<1>3. ASSUME NEW i \in 1..Len(longer), NEW j \in 1..Len(longer),
             longer[i].op = longer[j].op
      PROVE  i = j
  <2>1. CASE i <= Len(events) /\ j <= Len(events)
    <3>1. i \in 1..Len(events) /\ j \in 1..Len(events)
      BY <2>1
    <3>. QED
      BY <1>1, <1>3, <3>1 DEF Atomic!OncePerOp
  <2>2. CASE i > Len(events) /\ j > Len(events)
    BY <1>1, <2>2
  <2>3. CASE i <= Len(events) /\ j > Len(events)
    <3>1. i \in 1..Len(events) /\ j = Len(events) + 1
      BY <1>1, <2>3
    <3>. QED
      BY <1>1, <1>2, <1>3, <3>1
  <2>4. CASE i > Len(events) /\ j <= Len(events)
    <3>1. j \in 1..Len(events) /\ i = Len(events) + 1
      BY <1>1, <2>4
    <3>. QED
      BY <1>1, <1>2, <1>3, <3>1
  <2>. QED
    BY <1>1, <2>1, <2>2, <2>3, <2>4
<1>. QED
  BY <1>3 DEF Atomic!OncePerOp, longer

(***************************************************************************)
(* A state is sound when its trail is a hash chain with one event for each *)
(* operation present, a half-written record has none, and no operation     *)
(* that left either is still to run.  The memory, the snapshot and the     *)
(* disk are sound in every reachable state.                                *)
(***************************************************************************)
Sound(m) ==
    /\ Atomic!ChainLinked(m.audit)
    /\ Atomic!OncePerOp(m.audit)
    /\ m.rows = Atomic!OpsOf(m.audit)
    /\ m.rows \cap m.torn = {}
    /\ \A o \in Ops : Unsettled(o) => o \notin m.rows \cup m.torn

SoundEverywhere ==
    /\ Sound(mem) /\ Sound(disk)
    /\ depth > 0 => Sound(snapshot)

LEMMA WriteSound ==
    ASSUME mem \in Memory, Sound(mem), NEW o \in Ops, Settles(o),
           \A p \in Ops : Unsettled(p)' => Unsettled(p)
    PROVE  /\ Atomic!ChainLinked(Write(o).audit)
           /\ Atomic!OncePerOp(Write(o).audit)
           /\ Write(o).rows = Atomic!OpsOf(Write(o).audit)
           /\ Write(o).rows \cap Write(o).torn = {}
           /\ \A p \in Ops : Unsettled(p)' => p \notin Write(o).rows \cup Write(o).torn
<1>. DEFINE e == NewEvent(o)
<1>1. /\ e \in Event /\ e.op = o
      /\ e.prev = IF mem.audit = <<>> THEN NoHash ELSE mem.audit[Len(mem.audit)].op
  BY WriteType DEF NewEvent
<1>2. mem.audit \in Seq(Event) /\ Write(o).audit = Append(mem.audit, e)
  BY WriteType DEF Memory
<1>3. Write(o).rows = mem.rows \cup {o} /\ Write(o).torn = mem.torn
  BY DEF Write, Memory
<1>. HIDE DEF e
<1>4. o \notin Atomic!OpsOf(mem.audit)
  BY DEF Settles, Sound
<1>5. Atomic!ChainLinked(Append(mem.audit, e))
  BY <1>1, <1>2, AppendLinked DEF Sound
<1>6. Atomic!OncePerOp(Append(mem.audit, e))
  BY <1>1, <1>2, <1>4, AppendOnce DEF Sound
<1>7. Atomic!OpsOf(Append(mem.audit, e)) = Atomic!OpsOf(mem.audit) \cup {o}
  BY <1>1, <1>2, AppendOps
<1>8. \A p \in Ops : Unsettled(p)' => p \notin mem.rows \cup {o} \cup mem.torn
  BY DEF Settles, Sound
<1>9. (mem.rows \cup {o}) \cap mem.torn = {}
  BY DEF Settles, Sound
<1>. QED
  BY <1>2, <1>3, <1>5, <1>6, <1>7, <1>8, <1>9 DEF Sound

\* Sound in the state after a step.
SoundAfter(m) ==
    /\ Atomic!ChainLinked(m.audit)
    /\ Atomic!OncePerOp(m.audit)
    /\ m.rows = Atomic!OpsOf(m.audit)
    /\ m.rows \cap m.torn = {}
    /\ \A o \in Ops : Unsettled(o)' => o \notin m.rows \cup m.torn

LEMMA SoundStays ==
    ASSUME StateTypes, [Next]_vars
    PROVE  /\ Sound(mem) => SoundAfter(mem)
           /\ Sound(disk) => SoundAfter(disk)
           /\ Sound(snapshot) => SoundAfter(snapshot)
BY StatusMoves DEF Sound, SoundAfter

LEMMA SoundWrite ==
    ASSUME StateTypes, [Next]_vars, Sound(mem), NEW o \in Ops, Settles(o)
    PROVE  SoundAfter(Write(o))
BY WriteSound, StatusMoves DEF SoundAfter, StateTypes

LEMMA SoundSaved ==
    ASSUME NEW m, SoundAfter(m)
    PROVE  SoundAfter(toPersistedState(m)) /\ SoundAfter(normalizeState(m))
BY DEF SoundAfter, toPersistedState, normalizeState

LEMMA SoundEverywhereAfter ==
    ASSUME SoundAfter(mem'), SoundAfter(disk'), depth' > 0 => SoundAfter(snapshot')
    PROVE  SoundEverywhere'
BY DEF SoundEverywhere, Sound, SoundAfter

LEMMA SoundCommit ==
    ASSUME SoundAfter(disk), NEW m, SoundAfter(m), NEW before, SoundAfter(before),
           NEW callbacks, NEW out, Commit(m, before, callbacks, out), depth' <= 0,
           depth' \in Int
    PROVE  SoundEverywhere'
<1>1. SoundAfter(mem')
  BY DEF Commit
<1>2. SoundAfter(disk')
  BY SoundSaved DEF Commit
<1>. QED
  BY <1>1, <1>2, SoundEverywhereAfter

LEMMA SoundStep ==
    Shape /\ SoundEverywhere /\ [Next]_vars => SoundEverywhere'
<1>. SUFFICES ASSUME Shape, SoundEverywhere, [Next]_vars PROVE SoundEverywhere'
  OBVIOUS
<1>. depth \in Int /\ depth' \in Int /\ StateTypes
  BY ShapeStep DEF Shape, StateTypes
<1>1. SoundAfter(mem) /\ SoundAfter(disk) /\ (depth > 0 => SoundAfter(snapshot))
  BY SoundStays DEF SoundEverywhere
<1>2. CASE Opens
  BY <1>1, <1>2, SoundEverywhereAfter DEF Opens
<1>3. CASE RollsBack
  BY <1>1, <1>3, SoundEverywhereAfter DEF RollsBack
<1>4. CASE Restarts
  <2>1. SoundAfter(disk')
    <3>1. CASE UNCHANGED disk
      BY <1>1, <3>1
    <3>2. ASSUME NEW o \in Ops, Settles(o), Saved(Write(o))
          PROVE  SoundAfter(disk')
      BY <3>2, SoundWrite, SoundSaved DEF Saved, SoundEverywhere
    <3>3. CASE Saved(mem)
      BY <1>1, <3>3, SoundSaved DEF Saved
    <3>. QED
      BY <1>4, <3>1, <3>2, <3>3 DEF Restarts
  <2>2. SoundAfter(mem')
    BY <1>4, <2>1, SoundSaved DEF Restarts
  <2>. QED
    BY <1>4, <2>1, <2>2, SoundEverywhereAfter DEF Restarts
<1>5. CASE Keeps
  <2>1. SoundAfter(mem')
    <3>1. CASE mem'.torn = mem.torn
      BY <1>1, <1>5, <3>1 DEF Keeps, SoundAfter
    <3>2. ASSUME NEW o \in Ops, Settles(o), mem'.torn = mem.torn \cup {o}
          PROVE  SoundAfter(mem')
      <4>1. o \notin mem.rows
        BY <3>2 DEF Settles, SoundEverywhere, Sound
      <4>. QED
        BY <1>1, <1>5, <3>2, <4>1 DEF Keeps, SoundAfter, Settles
    <3>. QED
      BY <1>5, <3>1, <3>2 DEF Keeps
  <2>. QED
    BY <1>1, <1>5, <2>1, SoundEverywhereAfter DEF Keeps
<1>6. CASE ClosesUnchanged
  BY <1>1, <1>6, SoundEverywhereAfter DEF ClosesUnchanged
<1>7. ASSUME NEW o \in Ops, Defers(o) PROVE SoundEverywhere'
  <2>1. SoundAfter(mem')
    BY <1>7, SoundWrite DEF Defers, Defer, SoundEverywhere
  <2>. QED
    BY <1>1, <1>7, <2>1, SoundEverywhereAfter DEF Defers, Defer
<1>8. ASSUME NEW o \in Ops, NEW out \in Outcomes, WritesThrough(o, out)
      PROVE  SoundEverywhere'
  <2>1. SoundAfter(mem')
    BY <1>8, SoundWrite DEF WritesThrough, WriteThrough, SoundEverywhere
  <2>2. SoundAfter(disk')
    BY <1>1, <1>8, <2>1, SoundSaved DEF WritesThrough, WriteThrough
  <2>. QED
    BY <1>8, <2>1, <2>2, SoundEverywhereAfter DEF WritesThrough
<1>9. ASSUME NEW o \in Ops, NEW out \in Outcomes, NEW before,
             CommitsWrite(o, before, out)
      PROVE  SoundEverywhere'
  <2>1. SoundAfter(before) /\ SoundAfter(Write(o))
    BY <1>1, <1>9, SoundWrite DEF CommitsWrite, SoundEverywhere
  <2>. QED
    BY <1>1, <1>9, <2>1, SoundCommit DEF CommitsWrite
<1>10. ASSUME NEW out \in Outcomes, CommitsPending(out) PROVE SoundEverywhere'
  BY <1>1, <1>10, SoundCommit DEF CommitsPending
<1>. QED
  BY <1>2, <1>3, <1>4, <1>5, <1>6, <1>7, <1>8, <1>9, <1>10, EveryStepKind
     DEF NextKind

LEMMA SoundInit == Init => SoundEverywhere
<1>1. /\ Atomic!ChainLinked(<<>>) /\ Atomic!OncePerOp(<<>>)
      /\ Atomic!OpsOf(<<>>) = {}
  BY DEF Atomic!ChainLinked, Atomic!OncePerOp, Atomic!OpsOf
<1>. QED
  BY <1>1 DEF Init, SoundEverywhere, Sound

LEMMA SoundAlways == Spec => []SoundEverywhere
BY ShapeAlways, SoundInit, SoundStep, PTL DEF Spec

(***************************************************************************)
(* The chain verifyAuditChain walks is unbroken, whatever is rolled back,  *)
(* fails or crashes, and in whatever order handlers interleave.            *)
(***************************************************************************)
THEOREM ChainInvariant == Spec => []AuditChainsLinked
<1>1. Shape /\ SoundEverywhere => AuditChainsLinked
  BY DEF Shape, SoundEverywhere, Sound, AuditChainsLinked, SnapshotWhileOpen
<1>. QED
  BY <1>1, ShapeAlways, SoundAlways, PTL

(***************************************************************************)
(* The queued ledger appends are the events recorded since the snapshot.   *)
(***************************************************************************)
LEMMA AppendConcat ==
    ASSUME NEW s \in Seq(Event), NEW t \in Seq(Event), NEW e \in Event
    PROVE  Append(s \o t, e) = s \o Append(t, e)
<1>1. s \o t \in Seq(Event) /\ <<e>> \in Seq(Event)
  OBVIOUS
<1>2. Append(s \o t, e) = (s \o t) \o <<e>>
  BY <1>1, AppendIsConcat
<1>3. Append(t, e) = t \o <<e>>
  BY AppendIsConcat
<1>4. (s \o t) \o <<e>> = s \o (t \o <<e>>)
  BY <1>1, ConcatAssociative
<1>. QED
  BY <1>2, <1>3, <1>4

LEMMA HooksStep ==
    Shape /\ HooksMatchAudit /\ [Next]_vars => HooksMatchAudit'
<1>. SUFFICES ASSUME Shape, HooksMatchAudit, [Next]_vars, depth' > 0
              PROVE  mem'.audit = snapshot'.audit \o hooks'
  BY DEF HooksMatchAudit
<1>. depth \in Int /\ mem \in Memory /\ hooks \in Seq(Event)
     /\ (depth > 0 => snapshot \in Memory)
  BY OpenSnapshot DEF Shape, StateTypes
<1>1. CASE Opens
  <2>1. mem.audit \in Seq(Event)
    BY DEF Memory
  <2>2. mem.audit \o <<>> = mem.audit
    BY <2>1
  <2>. QED
    BY <1>1, <2>2 DEF Opens
<1>2. CASE Keeps
  BY <1>2 DEF Keeps, HooksMatchAudit
<1>3. ASSUME NEW o \in Ops, Defers(o)
      PROVE  mem'.audit = snapshot'.audit \o hooks'
  <2>1. mem'.audit = Append(mem.audit, NewEvent(o)) /\ NewEvent(o) \in Event
    BY <1>3, WriteType DEF Defers, Defer
  <2>2. snapshot.audit \in Seq(Event) /\ mem.audit = snapshot.audit \o hooks
    BY <1>3 DEF Defers, HooksMatchAudit, Memory
  <2>3. Append(snapshot.audit \o hooks, NewEvent(o))
            = snapshot.audit \o Append(hooks, NewEvent(o))
    BY <2>1, <2>2, AppendConcat
  <2>. QED
    BY <1>3, <2>1, <2>2, <2>3 DEF Defers, Defer
<1>4. CASE RollsBack \/ Restarts \/ ClosesUnchanged
  BY <1>4 DEF RollsBack, Restarts, ClosesUnchanged
<1>5. CASE \/ \E o \in Ops, out \in Outcomes : WritesThrough(o, out)
           \/ \E o \in Ops, out \in Outcomes, before \in {mem, snapshot} :
                  CommitsWrite(o, before, out)
           \/ \E out \in Outcomes : CommitsPending(out)
  <2>1. ~(depth' <= 0)
    <3>1. depth' \in Int
      BY ShapeStep DEF Shape, StateTypes
    <3>. QED
      BY <3>1
  <2>2. depth' # 0
    BY <2>1
  <2>. QED
    BY <1>5, <2>1, <2>2 DEF WritesThrough, CommitsWrite, CommitsPending
<1>. QED
  BY <1>1, <1>2, <1>3, <1>4, <1>5, EveryStepKind DEF NextKind

THEOREM HooksInvariant == Spec => []HooksMatchAudit
<1>1. Init => HooksMatchAudit
  BY DEF Init, HooksMatchAudit
<1>. QED
  BY <1>1, HooksStep, ShapeAlways, PTL DEF Spec

(***************************************************************************)
(* Until a process dies the ledger file is the trail a rollback would      *)
(* return to: LedgerFollowsAudit is not inductive without this, for a      *)
(* failed commit drops the queue and restores the snapshot.                *)
(***************************************************************************)
LedgerBase ==
    crashes = 0 => /\ depth > 0 => ledger = snapshot.audit
                   /\ depth <= 0 => ledger = mem.audit

LEMMA LedgerBaseFollows ==
    ASSUME Shape, HooksMatchAudit, LedgerBase
    PROVE  LedgerFollowsAudit
<1>. SUFFICES ASSUME crashes = 0 PROVE ledger \o hooks = mem.audit
  BY DEF LedgerFollowsAudit
<1>1. CASE depth > 0
  BY <1>1 DEF LedgerBase, HooksMatchAudit
<1>2. CASE depth <= 0
  <2>1. hooks = <<>> /\ mem.audit \in Seq(Event)
    BY <1>2, OpenSnapshot DEF Shape, StateTypes, Memory
  <2>2. mem.audit \o <<>> = mem.audit
    BY <2>1
  <2>. QED
    BY <1>2, <2>1, <2>2 DEF LedgerBase
<1>. QED
  BY <1>1, <1>2 DEF Shape, StateTypes

LEMMA CrashesStay ==
    ASSUME Shape, [Next]_vars, crashes' = 0
    PROVE  crashes = 0
<1>1. ASSUME NEW inFlight, Restart(inFlight) PROVE FALSE
  BY <1>1, RestartCounts
<1>. QED
  BY <1>1 DEF Next, vars, OpenAccess, AccessAnswered, AccessRecorded, AccessExisting,
       AccessRefused, EditOk, EditThrows, PlainWrite, Crash, CrashInCommit,
       CrashInWriteThrough

LEMMA LedgerBaseStep ==
    ASSUME "ledger" \notin Faults, Shape, HooksMatchAudit, LedgerBase, [Next]_vars
    PROVE  LedgerBase'
<1>. SUFFICES ASSUME crashes' = 0
              PROVE  /\ depth' > 0 => ledger' = snapshot'.audit
                     /\ depth' <= 0 => ledger' = mem'.audit
  BY DEF LedgerBase
<1>. /\ depth \in Int /\ depth' \in Int /\ mem \in Memory
     /\ ledger \in Seq(Event) /\ hooks \in Seq(Event)
  BY ShapeStep DEF Shape, StateTypes
<1>1. /\ depth > 0 => ledger = snapshot.audit
      /\ depth <= 0 => ledger = mem.audit
      /\ ledger \o hooks = mem.audit
  BY CrashesStay, LedgerBaseFollows DEF LedgerBase, LedgerFollowsAudit
<1>2. CASE Opens
  BY <1>1, <1>2 DEF Opens
<1>3. CASE RollsBack
  BY <1>1, <1>3 DEF RollsBack
<1>4. CASE Restarts
  BY <1>4 DEF Restarts
<1>5. CASE Keeps
  BY <1>1, <1>5 DEF Keeps
<1>6. CASE ClosesUnchanged
  <2>1. ledger \o <<>> = ledger
    OBVIOUS
  <2>. QED
    BY <1>1, <1>6, <2>1 DEF ClosesUnchanged
<1>7. ASSUME NEW o \in Ops, Defers(o)
      PROVE  depth' > 0 /\ ledger' = snapshot'.audit
  BY <1>1, <1>7 DEF Defers, Defer
<1>8. ASSUME NEW o \in Ops, NEW out \in Outcomes, WritesThrough(o, out)
      PROVE  depth' <= 0 /\ ledger' = mem'.audit
  BY <1>1, <1>8, WriteType DEF WritesThrough, WriteThrough, Outcomes
<1>9. ASSUME NEW o \in Ops, NEW out \in Outcomes, NEW before,
             CommitsWrite(o, before, out)
      PROVE  depth' <= 0 /\ ledger' = mem'.audit
  <2>1. before.audit = ledger /\ depth' <= 0
    BY <1>1, <1>9 DEF CommitsWrite
  <2>2. ledger \o Append(hooks, NewEvent(o)) = Write(o).audit
    BY <1>1, WriteType, AppendConcat
  <2>. QED
    BY <1>9, <2>1, <2>2 DEF CommitsWrite, Commit, Outcomes
<1>10. ASSUME NEW out \in Outcomes, CommitsPending(out)
       PROVE  depth' <= 0 /\ ledger' = mem'.audit
  BY <1>1, <1>10 DEF CommitsPending, Commit, Outcomes
<1>. QED
  BY <1>2, <1>3, <1>4, <1>5, <1>6, <1>7, <1>8, <1>9, <1>10, EveryStepKind
     DEF NextKind

(***************************************************************************)
(* Unless an append itself fails or a process dies, the ledger file and    *)
(* the queued appends spell the trail in memory, whatever saves fail and   *)
(* however transactions nest and are rolled back.                          *)
(***************************************************************************)
THEOREM LedgerInvariant ==
    ASSUME "ledger" \notin Faults
    PROVE  Spec => []LedgerFollowsAudit
<1>1. Init => LedgerBase
  BY DEF Init, LedgerBase
<1>2. Shape /\ HooksMatchAudit /\ LedgerBase /\ [Next]_vars => LedgerBase'
  BY LedgerBaseStep
<1>3. Shape /\ HooksMatchAudit /\ LedgerBase => LedgerFollowsAudit
  BY LedgerBaseFollows
<1>. QED
  BY <1>1, <1>2, <1>3, ShapeAlways, HooksInvariant, PTL DEF Spec

-----------------------------------------------------------------------------
LEMMA SoundRows ==
    ASSUME Shape, SoundEverywhere, HooksMatchAudit, depth > 0, hooks = <<>>
    PROVE  mem.audit = snapshot.audit /\ mem.rows = snapshot.rows
<1>1. snapshot.audit \in Seq(Event) /\ mem.audit = snapshot.audit \o <<>>
  BY OpenSnapshot DEF HooksMatchAudit, Memory
<1>2. snapshot.audit \o <<>> = snapshot.audit
  BY <1>1
<1>. QED
  BY <1>1, <1>2 DEF SoundEverywhere, Sound

LEMMA DurableBaseStep ==
    ASSUME Faults = {}, Shape, SoundEverywhere, HooksMatchAudit, DurableBase,
           [Next]_vars
    PROVE  DurableBase'
<1>. depth \in Int /\ depth' \in Int
  BY ShapeStep DEF Shape, StateTypes
<1>. Outcomes = {"ok"}
  BY DEF Outcomes
<1>1. CASE Opens
  BY <1>1 DEF Opens, DurableBase
<1>2. CASE RollsBack
  BY <1>2 DEF RollsBack, DurableBase
<1>3. CASE Restarts
  BY <1>3 DEF Restarts, DurableBase, normalizeState
<1>4. CASE Keeps
  BY <1>4 DEF Keeps, DurableBase
<1>5. CASE ClosesUnchanged
  <2>1. mem.audit = snapshot.audit /\ mem.rows = snapshot.rows
    BY <1>5, SoundRows DEF ClosesUnchanged
  <2>. QED
    BY <1>5, <2>1 DEF ClosesUnchanged, DurableBase
<1>6. ASSUME NEW o \in Ops, Defers(o) PROVE DurableBase'
  BY <1>6 DEF Defers, Defer, DurableBase
<1>7. ASSUME NEW o \in Ops, NEW out \in Outcomes, WritesThrough(o, out)
      PROVE  DurableBase'
  BY <1>7 DEF WritesThrough, WriteThrough, DurableBase, toPersistedState
<1>8. ASSUME NEW m, NEW before, NEW callbacks, NEW out \in Outcomes,
             Commit(m, before, callbacks, out), depth' <= 0
      PROVE  DurableBase'
  BY <1>8 DEF Commit, DurableBase, toPersistedState
<1>. QED
  BY <1>1, <1>2, <1>3, <1>4, <1>5, <1>6, <1>7, <1>8, EveryStepKind
     DEF NextKind, CommitsWrite, CommitsPending

(***************************************************************************)
(* When no save or append fails, the disk always holds exactly what a      *)
(* rollback would return to: an unfinished transaction is never on disk    *)
(* and a finished one is never missing from it.                            *)
(***************************************************************************)
THEOREM DurableBaseInvariant ==
    ASSUME Faults = {}
    PROVE  Spec => []DurableBase
<1>1. Init => DurableBase
  BY DEF Init, DurableBase
<1>2. Shape /\ SoundEverywhere /\ HooksMatchAudit /\ DurableBase /\ [Next]_vars
      => DurableBase'
  BY DurableBaseStep
<1>. QED
  BY <1>1, <1>2, ShapeAlways, SoundAlways, HooksInvariant, PTL DEF Spec

-----------------------------------------------------------------------------
LEMMA PrefixSelf ==
    ASSUME NEW s \in Seq(Event)
    PROVE  Atomic!IsPrefixOf(s, s)
BY DEF Atomic!IsPrefixOf

LEMMA PrefixAppend ==
    ASSUME NEW s \in Seq(Event), NEW t \in Seq(Event), NEW e \in Event,
           Atomic!IsPrefixOf(s, t)
    PROVE  Atomic!IsPrefixOf(s, Append(t, e))
BY DEF Atomic!IsPrefixOf

LEMMA PrefixConcat ==
    ASSUME NEW s \in Seq(Event), NEW t \in Seq(Event), NEW u \in Seq(Event),
           Atomic!IsPrefixOf(s, t)
    PROVE  Atomic!IsPrefixOf(s, t \o u)
<1>1. /\ Len(t \o u) = Len(t) + Len(u)
      /\ \A i \in 1..Len(t) : (t \o u)[i] = t[i]
  OBVIOUS
<1>. QED
  BY <1>1 DEF Atomic!IsPrefixOf

LEMMA PrefixOps ==
    ASSUME NEW s \in Seq(Event), NEW t \in Seq(Event), Atomic!IsPrefixOf(s, t)
    PROVE  Atomic!OpsOf(s) \subseteq Atomic!OpsOf(t)
<1>1. \A i \in 1..Len(s) : i \in 1..Len(t) /\ s[i] = t[i]
  BY DEF Atomic!IsPrefixOf
<1>. QED
  BY <1>1 DEF Atomic!OpsOf

\* A trail that got longer is another one.
LEMMA AppendLonger ==
    ASSUME NEW s \in Seq(Event), NEW t \in Seq(Event), NEW e \in Event,
           Atomic!IsPrefixOf(s, t)
    PROVE  Append(t, e) # s
<1>1. Len(s) <= Len(t) /\ Len(s) \in Nat /\ Len(t) \in Nat
  BY DEF Atomic!IsPrefixOf
<1>2. Len(Append(t, e)) = Len(t) + 1
  OBVIOUS
<1>. QED
  BY <1>1, <1>2

LEMMA ConcatLonger ==
    ASSUME NEW s \in Seq(Event), NEW t \in Seq(Event), NEW u \in Seq(Event),
           Atomic!IsPrefixOf(s, t), u # <<>>
    PROVE  t \o u # s
<1>1. Len(s) <= Len(t) /\ Len(s) \in Nat /\ Len(t) \in Nat
  BY DEF Atomic!IsPrefixOf
<1>2. Len(t \o u) = Len(t) + Len(u) /\ Len(u) \in Nat /\ Len(u) > 0
  OBVIOUS
<1>. QED
  BY <1>1, <1>2

(***************************************************************************)
(* The disk never runs ahead of what a rollback returns to, hence never    *)
(* ahead of the memory: neither in its trail nor in its remnants.          *)
(***************************************************************************)
Within(d, m) == Atomic!IsPrefixOf(d.audit, m.audit) /\ d.torn \subseteq m.torn

DiskBehind ==
    /\ depth > 0 => Within(disk, snapshot)
    /\ Within(disk, mem)

\* State m has everything the disk has, and more events.
Beyond(m) == Within(disk, m) /\ Within(m, m) /\ m.audit # disk.audit

LEMMA WithinSelf ==
    ASSUME StateTypes
    PROVE  Within(disk, disk) /\ Within(mem, mem)
BY PrefixSelf DEF Within, StateTypes, Persisted, Memory

LEMMA BeyondWrite ==
    ASSUME Shape, DiskBehind, NEW o \in Ops
    PROVE  Beyond(Write(o))
<1>1. disk.audit \in Seq(Event) /\ mem.audit \in Seq(Event) /\ mem \in Memory
  BY DEF Shape, StateTypes, Persisted, Memory
<1>2. NewEvent(o) \in Event /\ Write(o).audit = Append(mem.audit, NewEvent(o))
  BY <1>1, WriteType
<1>3. Write(o).torn = mem.torn
  BY <1>1 DEF Write, Memory
<1>4. Atomic!IsPrefixOf(disk.audit, mem.audit) /\ disk.torn \subseteq mem.torn
  BY DEF DiskBehind, Within
<1>. DEFINE longer == Append(mem.audit, NewEvent(o))
<1>5. longer \in Seq(Event)
  BY <1>1, <1>2
<1>6. Atomic!IsPrefixOf(disk.audit, longer) /\ longer # disk.audit
  BY <1>1, <1>2, <1>4, PrefixAppend, AppendLonger
<1>7. Atomic!IsPrefixOf(longer, longer)
  BY <1>5, PrefixSelf
<1>. HIDE DEF longer
<1>8. Write(o).audit = longer
  BY <1>2 DEF longer
<1>. QED
  BY <1>3, <1>4, <1>6, <1>7, <1>8 DEF Within, Beyond

\* The events that wait for the commit are not on disk.
LEMMA BeyondPending ==
    ASSUME Shape, HooksMatchAudit, DiskBehind, depth = 1, hooks # <<>>
    PROVE  Beyond(mem)
<1>1. /\ disk.audit \in Seq(Event) /\ snapshot.audit \in Seq(Event)
      /\ hooks \in Seq(Event) /\ mem.audit = snapshot.audit \o hooks
  BY OpenSnapshot DEF Shape, StateTypes, Persisted, Memory, HooksMatchAudit
<1>2. Atomic!IsPrefixOf(disk.audit, snapshot.audit)
  BY DEF DiskBehind, Within
<1>3. snapshot.audit \o hooks # disk.audit
  BY <1>1, <1>2, ConcatLonger
<1>. QED
  BY <1>1, <1>3, WithinSelf DEF Shape, DiskBehind, Beyond

\* A step leaves the disk alone or replaces it by a longer trail.
DiskExtends ==
    \/ UNCHANGED disk
    \/ Within(disk, disk') /\ disk'.audit # disk.audit

LEMMA CommitExtends ==
    ASSUME "written" \notin Faults, NEW m, Beyond(m), NEW before, Within(disk, before),
           NEW callbacks, NEW out \in Outcomes,
           Commit(m, before, callbacks, out), depth' \in Int, depth' <= 0
    PROVE  DiskExtends /\ DiskBehind'
<1>1. out # "written"
  BY TxnStoreAssumption DEF Outcomes
<1>2. CASE out = "unwritten"
  BY <1>2 DEF Commit, DiskExtends, DiskBehind
<1>3. CASE out # "unwritten"
  <2>1. mem' = m /\ disk'.audit = m.audit /\ disk'.torn = m.torn
    BY <1>1, <1>3 DEF Commit, toPersistedState
  <2>. QED
    BY <2>1 DEF DiskExtends, DiskBehind, Beyond, Within
<1>. QED
  BY <1>2, <1>3

LEMMA DiskBehindStep ==
    ASSUME "written" \notin Faults, Shape, HooksMatchAudit, DiskBehind, [Next]_vars
    PROVE  DiskExtends /\ DiskBehind'
<1>. depth \in Int /\ depth' \in Int /\ StateTypes
  BY ShapeStep DEF Shape, StateTypes
<1>1. Within(disk, disk) /\ Within(mem, mem)
  BY WithinSelf
<1>2. CASE Opens
  BY <1>1, <1>2 DEF Opens, DiskExtends, DiskBehind
<1>3. CASE RollsBack
  BY <1>1, <1>3 DEF RollsBack, DiskExtends, DiskBehind
<1>4. CASE Restarts
  <2>1. DiskExtends /\ Within(disk', disk')
    <3>1. CASE UNCHANGED disk
      BY <1>1, <3>1 DEF DiskExtends
    <3>2. ASSUME NEW m, Beyond(m), Saved(m)
          PROVE  DiskExtends /\ Within(disk', disk')
      BY <3>2 DEF Saved, toPersistedState, DiskExtends, Beyond, Within
    <3>. QED
      BY <1>4, <3>1, <3>2, BeyondWrite, BeyondPending DEF Restarts
  <2>. QED
    BY <1>4, <2>1 DEF Restarts, normalizeState, DiskBehind, Within
<1>5. CASE Keeps
  BY <1>1, <1>5 DEF Keeps, DiskExtends, DiskBehind, Within
<1>6. CASE ClosesUnchanged
  BY <1>1, <1>6 DEF ClosesUnchanged, DiskExtends, DiskBehind
<1>7. ASSUME NEW o \in Ops, Defers(o) PROVE DiskExtends /\ DiskBehind'
  <2>1. Within(disk, Write(o))
    BY BeyondWrite DEF Beyond
  <2>. QED
    BY <1>7, <2>1 DEF Defers, Defer, DiskExtends, DiskBehind
<1>8. ASSUME NEW o \in Ops, NEW out \in Outcomes, WritesThrough(o, out)
      PROVE  DiskExtends /\ DiskBehind'
  <2>1. disk' = disk \/ (disk'.audit = Write(o).audit /\ disk'.torn = Write(o).torn)
    BY <1>8 DEF WritesThrough, WriteThrough, toPersistedState
  <2>2. mem' = Write(o) /\ ~(depth' > 0)
    BY <1>8 DEF WritesThrough, WriteThrough
  <2>. QED
    BY <2>1, <2>2, BeyondWrite DEF DiskExtends, DiskBehind, Beyond, Within
<1>9. ASSUME NEW o \in Ops, NEW out \in Outcomes, NEW before,
             CommitsWrite(o, before, out)
      PROVE  DiskExtends /\ DiskBehind'
  <2>1. Within(disk, before)
    BY <1>9 DEF CommitsWrite, DiskBehind
  <2>. QED
    BY <1>9, <2>1, BeyondWrite, CommitExtends DEF CommitsWrite
<1>10. ASSUME NEW out \in Outcomes, CommitsPending(out)
       PROVE  DiskExtends /\ DiskBehind'
  BY <1>10, BeyondPending, CommitExtends DEF CommitsPending, DiskBehind
<1>. QED
  BY <1>2, <1>3, <1>4, <1>5, <1>6, <1>7, <1>8, <1>9, <1>10, EveryStepKind
     DEF NextKind

(***************************************************************************)
(* As long as no save fails after it has replaced the disk, records and    *)
(* trail become durable together and are never taken back, under I/O       *)
(* errors, rollbacks and crashes.  What a handler that threw left of its   *)
(* record is never in an event and reaches the disk only with others.      *)
(***************************************************************************)
THEOREM Refinement ==
    ASSUME "written" \notin Faults
    PROVE  Spec => ImplementsAtomicStore
<1>1. Init => Atomic!Init /\ DiskBehind
  BY DEF Init, Atomic!Init, DiskBehind, Within, Atomic!IsPrefixOf
<1>2. Shape /\ HooksMatchAudit /\ DiskBehind /\ [Next]_vars
      => DiskExtends /\ DiskBehind'
  BY DiskBehindStep
<1>3. Shape /\ Shape' /\ SoundEverywhere /\ SoundEverywhere' /\ DiskExtends
      => [Atomic!Next]_<<disk.rows, disk.audit, disk.torn>>
  <2>. SUFFICES ASSUME Shape, Shape', SoundEverywhere, SoundEverywhere',
                       Within(disk, disk'), disk'.audit # disk.audit
                PROVE  Atomic!Commit
    BY DEF Atomic!Next, DiskExtends
  <2>1. disk \in Persisted /\ disk' \in Persisted
    BY DEF Shape, StateTypes
  <2>2. /\ disk.audit \in Seq(Event) /\ disk'.audit \in Seq(Event)
        /\ disk'.rows \subseteq Ops /\ disk'.torn \subseteq Ops
    BY <2>1 DEF Persisted, Ops
  <2>3. /\ Atomic!ChainLinked(disk'.audit) /\ Atomic!OncePerOp(disk'.audit)
        /\ disk.rows = Atomic!OpsOf(disk.audit)
        /\ disk'.rows = Atomic!OpsOf(disk'.audit)
        /\ disk'.rows \cap disk'.torn = {}
    BY DEF SoundEverywhere, Sound
  <2>4. disk.rows \subseteq disk'.rows
    BY <2>2, <2>3, PrefixOps DEF Within
  <2>. QED
    BY <2>2, <2>3, <2>4 DEF Atomic!Commit, Within
<1>. QED
  BY <1>1, <1>2, <1>3, ShapeAlways, SoundAlways, HooksInvariant, PTL
     DEF Spec, ImplementsAtomicStore, Atomic!Spec

-----------------------------------------------------------------------------
(***************************************************************************)
(* What an answer promises.  An answer is never changed, and no operation  *)
(* becomes idle again.                                                     *)
(***************************************************************************)
LEMMA AnswersStay ==
    ASSUME StateTypes, [Next]_vars
    PROVE  \A p \in Ops : /\ ~Unsettled(p) => status'[p] = status[p]
                          /\ status'[p] = "idle" => status[p] = "idle"
<1>. DEFINE Stay == \A p \in Ops : /\ ~Unsettled(p) => status'[p] = status[p]
                                   /\ status'[p] = "idle" => status[p] = "idle"
<1>1. ASSUME NEW o \in AccessRequests, OpenAccess(o) PROVE Stay
  BY <1>1 DEF OpenAccess, StateTypes, Unsettled
<1>2. ASSUME NEW o \in Ops, NEW out, Unsettled(o), Reply(o, out) PROVE Stay
  BY <1>2 DEF Reply, StateTypes, Unsettled
<1>3. ASSUME NEW o \in Ops, NEW inFlight, Restart(inFlight), inFlight \subseteq {o},
             Unsettled(o)
      PROVE  Stay
  BY <1>3 DEF Restart, StateTypes, Unsettled, Waiting
<1>4. ASSUME NEW o \in AccessRequests, AccessAnswered(o) PROVE Stay
  <2>1. Unsettled(o) /\ o \in Ops
    BY <1>4 DEF AccessAnswered, AccessRecorded, AccessExisting, AccessRefused,
                Waiting, Unsettled, Ops
  <2>. QED
    BY <1>2, <1>4, <2>1 DEF AccessAnswered, AccessRecorded, AccessExisting, AccessRefused
<1>5. ASSUME NEW o \in Ops, EditOk(o) \/ EditThrows(o) \/ PlainWrite(o) PROVE Stay
  <2>1. Unsettled(o)
    BY <1>5 DEF EditOk, EditThrows, PlainWrite, Unsettled
  <2>. QED
    BY <1>2, <1>5, <2>1 DEF EditOk, EditThrows, PlainWrite
<1>6. ASSUME NEW o \in Ops, CrashInCommit(o) \/ CrashInWriteThrough(o) PROVE Stay
  <2>1. Unsettled(o)
    BY <1>6 DEF CrashInCommit, CrashInWriteThrough, Waiting, Unsettled
  <2>. QED
    BY <1>3, <1>6, <2>1 DEF CrashInCommit, CrashInWriteThrough
<1>7. CASE Crash
  BY <1>7 DEF Crash, Restart, StateTypes, Unsettled, Waiting
<1>8. CASE UNCHANGED vars
  BY <1>8 DEF vars, Unsettled
<1>. QED
  BY <1>1, <1>4, <1>5, <1>6, <1>7, <1>8 DEF Next, Ops

(***************************************************************************)
(* When no save fails and the process lives, only a refused lookup takes   *)
(* records out of memory, and a handler that is answered with success has  *)
(* written its own.                                                        *)
(***************************************************************************)
Refused == \E r \in AccessRequests : status[r] = "error"

NothingLost ==
    /\ mem.rows \subseteq mem'.rows
    /\ \A o \in Edits \cup Plain :
           status'[o] = "ok" => status[o] = "ok" \/ o \in mem'.rows

LEMMA WriteKeepsRows ==
    ASSUME StateTypes, NEW o \in Ops, mem' = Write(o), NEW out, Reply(o, out)
    PROVE  NothingLost
<1>1. mem'.rows = mem.rows \cup {o}
  BY DEF Write, StateTypes, Memory
<1>. QED
  BY <1>1 DEF NothingLost, Reply, StateTypes, Ops

LEMMA NothingLostStep ==
    ASSUME Faults = {}, Shape, [Next]_vars
    PROVE  NothingLost \/ Refused' \/ crashes' # 0
<1>. StateTypes /\ Outcomes = {"ok"}
  BY DEF Shape, Outcomes
<1>1. ASSUME NEW o \in AccessRequests, OpenAccess(o) PROVE NothingLost
  BY <1>1, TxnStoreAssumption DEF OpenAccess, NothingLost, StateTypes, Ops
<1>2. ASSUME NEW o \in AccessRequests, AccessRecorded(o) PROVE NothingLost
  <2>1. o \in Ops /\ mem' = Write(o)
    BY <1>2 DEF AccessRecorded, Defer, Commit, WriteThrough, Ops
  <2>2. Reply(o, "ok")
    BY <1>2 DEF AccessRecorded
  <2>. QED
    BY <2>1, <2>2, WriteKeepsRows
<1>3. ASSUME NEW o \in AccessRequests, AccessExisting(o) PROVE NothingLost
  <2>1. mem' = mem /\ Reply(o, "ok")
    BY <1>3 DEF AccessExisting, Commit
  <2>. QED
    BY <2>1, TxnStoreAssumption DEF NothingLost, Reply, StateTypes, Ops
<1>4. ASSUME NEW o \in AccessRequests, AccessRefused(o) PROVE Refused'
  BY <1>4 DEF AccessRefused, Reply, Refused, StateTypes, Ops
<1>5. ASSUME NEW o \in Ops, EditOk(o) \/ PlainWrite(o) PROVE NothingLost
  <2>1. mem' = Write(o)
    BY <1>5 DEF EditOk, PlainWrite, Defer, Commit, WriteThrough
  <2>2. Reply(o, "ok")
    BY <1>5 DEF EditOk, PlainWrite
  <2>. QED
    BY <2>1, <2>2, WriteKeepsRows
<1>6. ASSUME NEW o \in Ops, EditThrows(o) PROVE NothingLost
  <2>1. mem'.rows = mem.rows
    BY <1>6 DEF EditThrows, rollbackTransaction, StateTypes, Memory
  <2>2. Reply(o, "thrown")
    BY <1>6 DEF EditThrows
  <2>. QED
    BY <2>1, <2>2 DEF NothingLost, Reply, StateTypes, Ops
<1>7. ASSUME NEW inFlight, Restart(inFlight) PROVE crashes' # 0
  BY <1>7, RestartCounts
<1>8. CASE UNCHANGED vars
  BY <1>8 DEF vars, NothingLost
<1>. QED
  BY <1>1, <1>2, <1>3, <1>4, <1>5, <1>6, <1>7, <1>8
     DEF Next, AccessAnswered, Crash, CrashInCommit, CrashInWriteThrough, Ops

(***************************************************************************)
(* When no save fails and no process dies, a successful answer is undone   *)
(* only by the refusal of an access request.                               *)
(***************************************************************************)
THEOREM AcknowledgedInvariant ==
    ASSUME Faults = {}
    PROVE  Spec => []AcknowledgedUnlessRefused
<1>1. Init => AcknowledgedUnlessRefused
  BY DEF Init, AcknowledgedUnlessRefused
<1>2. Shape /\ AcknowledgedUnlessRefused /\ [Next]_vars => AcknowledgedUnlessRefused'
  <2>. SUFFICES ASSUME Shape, AcknowledgedUnlessRefused, [Next]_vars,
                       NEW o \in Ops, status'[o] = "ok", o \notin mem'.rows,
                       o \notin AccessRequests, ~(crashes' > 0), ~Refused'
                PROVE  FALSE
    BY DEF AcknowledgedUnlessRefused, Refused
  <2>1. crashes' = 0 /\ crashes = 0
    <3>1. crashes' \in Nat
      BY ShapeStep, TxnStoreAssumption DEF Shape, StateTypes
    <3>2. crashes' = 0
      BY <3>1
    <3>. QED
      BY <3>2, CrashesStay
  <2>2. NothingLost
    BY <2>1, NothingLostStep
  <2>3. status[o] = "ok" /\ o \notin mem.rows
    BY <2>2 DEF NothingLost, Ops
  <2>4. PICK r \in AccessRequests : status[r] = "error"
    BY <2>1, <2>3 DEF AcknowledgedUnlessRefused
  <2>5. status'[r] = "error"
    BY <2>4, AnswersStay DEF Shape, Unsettled, Ops
  <2>. QED
    BY <2>5 DEF Refused
<1>. QED
  BY <1>1, <1>2, ShapeAlways, PTL DEF Spec

(***************************************************************************)
(* Before the first access request there is nothing to nest into: depth is *)
(* zero between handlers and the disk is the memory.                       *)
(***************************************************************************)
Calm == \A r \in AccessRequests : status[r] = "idle"

CalmState ==
    /\ depth = 0
    /\ mem.torn = {} /\ disk.torn = {}
    /\ disk.rows = mem.rows
    /\ \A o \in Ops : status[o] = "ok" => o \in mem.rows
    /\ \A o \in Edits : status[o] = "error" => o \notin mem.rows

LEMMA CalmWrite ==
    ASSUME StateTypes, SoundEverywhere, CalmState, NEW o \in Ops, Unsettled(o),
           mem' = Write(o), disk' = toPersistedState(Write(o)), depth' = 0,
           \A p \in Ops : status'[p] = status[p] \/ (p = o /\ status'[p] # "error")
    PROVE  CalmState'
<1>1. mem'.rows = mem.rows \cup {o} /\ mem'.torn = mem.torn
  BY DEF Write, StateTypes, Memory
<1>2. disk'.rows = mem'.rows /\ disk'.torn = mem'.torn
  BY DEF toPersistedState
<1>3. status[o] # "error"
  BY DEF Unsettled
<1>4. Edits \subseteq Ops
  BY DEF Ops
<1>. QED
  BY <1>1, <1>2, <1>3, <1>4 DEF CalmState

LEMMA CalmRestart ==
    ASSUME StateTypes, SoundEverywhere, CalmState, NEW inFlight, Restart(inFlight),
           \/ UNCHANGED disk
           \/ disk' = toPersistedState(mem)
           \/ \E o \in Ops : Unsettled(o) /\ disk' = toPersistedState(Write(o))
    PROVE  CalmState'
<1>1. /\ mem'.rows = disk'.rows /\ mem'.torn = disk'.torn /\ depth' = 0
  BY DEF Restart, normalizeState
<1>2. \A p \in Ops : status'[p] = status[p] \/ status'[p] = "lost"
  BY DEF Restart, StateTypes
<1>3. Edits \subseteq Ops
  BY DEF Ops
<1>4. CASE disk'.rows = mem.rows /\ disk'.torn = mem.torn
  BY <1>1, <1>2, <1>3, <1>4 DEF CalmState
<1>5. ASSUME NEW o \in Ops, Unsettled(o), disk' = toPersistedState(Write(o))
      PROVE  CalmState'
  <2>1. disk'.rows = mem.rows \cup {o} /\ disk'.torn = mem.torn
    BY <1>5 DEF Write, StateTypes, Memory, toPersistedState
  <2>. QED
    BY <1>1, <1>2, <1>3, <1>5, <2>1 DEF CalmState, Unsettled
<1>. QED
  BY <1>4, <1>5 DEF CalmState, toPersistedState

LEMMA CalmStep ==
    ASSUME Faults = {}, Shape, SoundEverywhere, Calm => CalmState, [Next]_vars, Calm'
    PROVE  CalmState'
<1>. StateTypes /\ Outcomes = {"ok"}
  BY DEF Shape, Outcomes
<1>0. Calm /\ CalmState
  <2>1. Calm
    BY AnswersStay DEF Calm, Ops
  <2>. QED
    BY <2>1
<1>1. ASSUME NEW o \in AccessRequests, OpenAccess(o) \/ AccessAnswered(o) PROVE FALSE
  <2>1. status'[o] = "idle" /\ status[o] = "idle" /\ o \in Ops
    BY <1>0 DEF Calm, Ops
  <2>. QED
    BY <1>1, <2>1 DEF OpenAccess, AccessAnswered, AccessRecorded, AccessExisting,
                      AccessRefused, Waiting, StateTypes
<1>2. ASSUME NEW o \in Ops, EditOk(o) \/ PlainWrite(o) PROVE CalmState'
  <2>1. mem' = Write(o) /\ disk' = toPersistedState(Write(o)) /\ depth' = 0
    BY <1>0, <1>2 DEF CalmState, EditOk, PlainWrite, Commit, WriteThrough
  <2>2. Unsettled(o) /\ Reply(o, "ok")
    BY <1>2 DEF EditOk, PlainWrite, Unsettled
  <2>3. \A p \in Ops : status'[p] = status[p] \/ (p = o /\ status'[p] # "error")
    BY <2>2 DEF Reply, StateTypes
  <2>. QED
    BY <1>0, <2>1, <2>2, <2>3, CalmWrite
<1>3. ASSUME NEW o \in Edits, EditThrows(o) PROVE CalmState'
  <2>1. UNCHANGED <<mem, disk, depth>> /\ Reply(o, "thrown") /\ status[o] = "idle"
    BY <1>0, <1>3 DEF EditThrows, rollbackTransaction, CalmState
  <2>2. o \notin mem.rows /\ Edits \subseteq Ops
    BY <2>1 DEF SoundEverywhere, Sound, Unsettled, Ops
  <2>. QED
    BY <1>0, <2>1, <2>2 DEF CalmState, Reply, StateTypes
<1>4. CASE Crash
  BY <1>0, <1>4, CalmRestart DEF Crash
<1>5. ASSUME NEW o \in Ops, CrashInCommit(o) \/ CrashInWriteThrough(o)
      PROVE  CalmState'
  <2>1. Unsettled(o)
    BY <1>5 DEF CrashInCommit, CrashInWriteThrough, Waiting, Unsettled
  <2>2. \/ UNCHANGED disk
        \/ disk' = toPersistedState(mem)
        \/ disk' = toPersistedState(Write(o))
    BY <1>5 DEF CrashInCommit, CrashInWriteThrough, DieCommitting
  <2>. QED
    BY <1>0, <1>5, <2>1, <2>2, CalmRestart DEF CrashInCommit, CrashInWriteThrough
<1>6. CASE UNCHANGED vars
  BY <1>0, <1>6 DEF vars, CalmState
<1>. QED
  BY <1>1, <1>2, <1>3, <1>4, <1>5, <1>6 DEF Next, Ops

(***************************************************************************)
(* When no save fails and before the first access request, an answer says  *)
(* what happened, in memory and on disk, across rollbacks and restarts.    *)
(***************************************************************************)
THEOREM AnswersInvariant ==
    ASSUME Faults = {}
    PROVE  Spec => []AnswersHold
<1>1. Init => (Calm => CalmState)
  BY DEF Init, CalmState, Ops
<1>2. Shape /\ SoundEverywhere /\ (Calm => CalmState) /\ [Next]_vars
      => (Calm => CalmState)'
  BY CalmStep
<1>3. (Calm => CalmState) => AnswersHold
  BY DEF Calm, CalmState, AnswersHold, FailedLeavesNothing
<1>. QED
  BY <1>1, <1>2, <1>3, ShapeAlways, SoundAlways, PTL DEF Spec
=============================================================================
