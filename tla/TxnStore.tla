------------------------------ MODULE TxnStore ------------------------------
(***************************************************************************)
(* The repository layer of the server: the in-memory state, the global     *)
(* transaction of data/store.mjs, the save to disk, and the audit service  *)
(* that writes through it (audit trail in the state, ledger file beside).  *)
(*                                                                         *)
(* Node runs one handler at a time, so a handler is one action, up to its  *)
(* first await.  Only requestSecretAccess awaits inside a transaction (the *)
(* ITSM ticket lookup): its transaction stays open while other handlers    *)
(* run, and their transactions nest into it.                               *)
(*                                                                         *)
(* An operation runs once and is named by a member of Ops.  Its records    *)
(* are "present" when the operation is a member of rows, half written when *)
(* it is a member of torn.  Sessions stand for the two collections that    *)
(* are never persisted.  The code keeps events newest first; they are kept *)
(* oldest first here.  An outbox record is created and lost with its audit *)
(* event and is not kept apart.                                            *)
(***************************************************************************)
EXTENDS Integers, Sequences, FiniteSets

CONSTANTS
    AccessRequests, \* requestSecretAccess calls: asynchronous transactions
    Edits,          \* secret, policy and decision handlers: synchronous ones
    AdminWrites,    \* handlers that audit and save without a transaction
    Logins,         \* the same, and they create a session
    Faults,         \* the ways a save or a ledger append may throw
    MaxCrashes,     \* bound on process crashes
    NoHash,         \* previousHash of the first event
    NoSnapshot      \* transactionSnapshot === null

Plain == AdminWrites \cup Logins
Ops == AccessRequests \cup Edits \cup Plain

Event == [op : Ops, prev : Ops \cup {NoHash}]
Persisted == [rows : SUBSET Ops, torn : SUBSET Edits, audit : Seq(Event)]
Memory == [rows : SUBSET Ops, torn : SUBSET Edits, audit : Seq(Event),
           sessions : SUBSET Logins]

(***************************************************************************)
(* "unwritten": the save throws and the disk is unchanged (I/O error,      *)
(* SQLite ROLLBACK, or the JSON backup that precedes the write).           *)
(* "written": it throws after the SQLite COMMIT, in createBackup.          *)
(* "ledger": appendAuditLedger throws.                                     *)
(***************************************************************************)
ASSUME TxnStoreAssumption ==
    /\ IsFiniteSet(Ops)
    /\ Faults \subseteq {"unwritten", "written", "ledger"}
    /\ MaxCrashes \in Nat
    /\ NoHash \notin Ops
    /\ NoSnapshot \notin Memory
    /\ AccessRequests \cap (Edits \cup Plain) = {}
    /\ Edits \cap Plain = {}

VARIABLES
    mem,            \* store.state
    disk,           \* the state file, or the sentinel_state row
    ledger,         \* audit-ledger.jsonl
    depth,          \* transactionDepth
    snapshot,       \* transactionSnapshot
    saveRequested,  \* transactionSaveRequested
    hooks,          \* transactionAfterCommit: events still to be appended
    status,         \* what the caller of each operation knows
    crashes         \* crashes so far, bounded by MaxCrashes

vars == <<mem, disk, ledger, depth, snapshot, saveRequested, hooks, status, crashes>>

\* Variants of a definition whose comment starts with "Wrong:" model a bug the
\* code does not have; they show which property would notice it.

\* Wrong: the audit trail is left out of the saved state with the sessions.
toPersistedStateNoAudit(m) == [rows |-> m.rows, torn |-> m.torn, audit |-> <<>>]

toPersistedState(m) == [rows |-> m.rows, torn |-> m.torn, audit |-> m.audit]
normalizeState(d) ==
    [rows |-> d.rows, torn |-> d.torn, audit |-> d.audit, sessions |-> {}]

Waiting == {o \in AccessRequests : status[o] = "waiting"}

\* Wrong: the previous hash is taken from the ledger file's last line.
NewEventFromLedger(o) ==
    [op |-> o,
     prev |-> IF ledger = <<>> THEN NoHash ELSE ledger[Len(ledger)].op]

\* The event audit() builds on top of the newest event in memory.
NewEvent(o) ==
    [op |-> o,
     prev |-> IF mem.audit = <<>> THEN NoHash ELSE mem.audit[Len(mem.audit)].op]

\* The memory once o has changed its records and unshifted its audit event.
Write(o) ==
    [mem EXCEPT !.rows = @ \cup {o},
                !.audit = Append(@, NewEvent(o)),
                !.sessions = @ \cup ({o} \cap Logins)]

Init ==
    /\ mem = [rows |-> {}, torn |-> {}, audit |-> <<>>, sessions |-> {}]
    /\ disk = [rows |-> {}, torn |-> {}, audit |-> <<>>]
    /\ ledger = <<>>
    /\ depth = 0
    /\ snapshot = NoSnapshot
    /\ saveRequested = FALSE
    /\ hooks = <<>>
    /\ status = [o \in Ops |-> "idle"]
    /\ crashes = 0

-----------------------------------------------------------------------------
Outcomes == {"ok"} \cup Faults

Reply(o, out) ==
    status' = [status EXCEPT ![o] = IF out = "ok" THEN "ok" ELSE "error"]

\* withTransaction before the callback: the outermost call takes the snapshot.
Enter ==
    /\ depth' = depth + 1
    /\ IF depth = 0
       THEN snapshot' = mem /\ saveRequested' = FALSE /\ hooks' = <<>>
       ELSE UNCHANGED <<snapshot, saveRequested, hooks>>

\* Wrong: a settled promise does not lower the depth.
LeaveNot == UNCHANGED depth

\* The first statement of finish and of fail.
Leave == depth' = depth - 1

Closed == snapshot' = NoSnapshot /\ saveRequested' = FALSE /\ hooks' = <<>>

\* Wrong: save() does not look at the depth.
DeferSavesAtOnce(o) ==
    /\ mem' = Write(o)
    /\ disk' = toPersistedState(Write(o))
    /\ hooks' = Append(hooks, NewEvent(o))
    /\ UNCHANGED <<ledger, snapshot, saveRequested>>

\* audit() under an open transaction: append and save are put off.
Defer(o) ==
    /\ mem' = Write(o)
    /\ saveRequested' = TRUE
    /\ hooks' = Append(hooks, NewEvent(o))
    /\ UNCHANGED <<disk, ledger, snapshot>>

\* Wrong: the handler changes the state and forgets to save it.
WriteUnsaved(o, out) ==
    /\ mem' = Write(o)
    /\ ledger' = Append(ledger, NewEvent(o))
    /\ UNCHANGED <<disk, snapshot, saveRequested, hooks>>

\* audit() with no transaction: append to the ledger, then save.
WriteThrough(o, out) ==
    /\ mem' = Write(o)
    /\ ledger' = IF out = "ledger" THEN ledger ELSE Append(ledger, NewEvent(o))
    /\ disk' = IF out \in {"ok", "written"} THEN toPersistedState(Write(o)) ELSE disk
    /\ UNCHANGED <<snapshot, saveRequested, hooks>>

\* Wrong: the snapshot is restored whether or not the save succeeded.
CommitRestores(m, before, callbacks, out) ==
    /\ mem' = before
    /\ disk' = toPersistedState(m)
    /\ ledger' = ledger \o callbacks
    /\ Closed

(***************************************************************************)
(* commitTransaction: save memory m, then run the callbacks, each of which *)
(* appends one event.  A failed save restores the state in "before"; a     *)
(* callback that throws leaves the later ones unrun.                       *)
(***************************************************************************)
Commit(m, before, callbacks, out) ==
    /\ mem' = IF out \in {"unwritten", "written"} THEN before ELSE m
    /\ disk' = IF out = "unwritten" THEN disk ELSE toPersistedState(m)
    /\ \/ out = "ok" /\ ledger' = ledger \o callbacks
       \/ out = "ledger" /\ \E k \in 0..(Len(callbacks) - 1) :
                                ledger' = ledger \o SubSeq(callbacks, 1, k)
       \/ out \in {"unwritten", "written"} /\ ledger' = ledger
    /\ Closed

\* Wrong: the callbacks of the failed transaction stay queued.
rollbackKeepsHooks(before) ==
    /\ mem' = before
    /\ snapshot' = NoSnapshot /\ saveRequested' = FALSE
    /\ UNCHANGED hooks

rollbackTransaction(before) == mem' = before /\ Closed

-----------------------------------------------------------------------------
(***************************************************************************)
(* requestSecretAccess up to its await: the transaction is opened.         *)
(***************************************************************************)
OpenAccess(o) ==
    /\ o \in AccessRequests /\ status[o] = "idle"
    /\ Enter
    /\ status' = [status EXCEPT ![o] = "waiting"]
    /\ UNCHANGED <<mem, disk, ledger, crashes>>

\* The ticket is valid: the request is recorded and the promise resolves.
AccessRecorded(o) ==
    /\ o \in Waiting
    /\ Leave
    /\ \/ depth > 1 /\ Defer(o) /\ Reply(o, "ok")
       \/ depth = 1 /\ \E out \in Outcomes :
              /\ Commit(Write(o), snapshot, Append(hooks, NewEvent(o)), out)
              /\ Reply(o, out)
       \/ depth < 1 /\ \E out \in Outcomes : WriteThrough(o, out) /\ Reply(o, out)
    /\ UNCHANGED crashes

\* The ticket is valid and an equal request is pending: it is returned.
AccessExisting(o) ==
    /\ o \in Waiting
    /\ (AccessRequests \ {o}) \cap mem.rows # {}
    /\ Leave
    /\ \/ depth = 1 /\ saveRequested = TRUE /\ \E out \in Outcomes :
              Commit(mem, snapshot, hooks, out) /\ Reply(o, out)
       \/ depth = 1 /\ saveRequested = FALSE /\ Closed
              /\ Reply(o, "ok") /\ UNCHANGED <<mem, disk, ledger>>
       \/ depth # 1 /\ Reply(o, "ok")
              /\ UNCHANGED <<mem, disk, ledger, snapshot, saveRequested, hooks>>
    /\ UNCHANGED crashes

\* The ticket is invalid, or the lookup failed: the promise rejects.
AccessRefused(o) ==
    /\ o \in Waiting
    /\ Leave
    /\ IF depth = 1
       THEN rollbackTransaction(snapshot)
       ELSE UNCHANGED <<mem, snapshot, saveRequested, hooks>>
    /\ Reply(o, "refused")
    /\ UNCHANGED <<disk, ledger, crashes>>

\* A synchronous transactional handler that reaches its end.  When its own
\* commit throws, the catch of withTransaction lowers the depth once more.
EditOk(o) ==
    /\ o \in Edits /\ status[o] = "idle"
    /\ \/ depth > 0 /\ Defer(o) /\ Reply(o, "ok") /\ UNCHANGED depth
       \/ depth = 0 /\ \E out \in Outcomes :
              /\ Commit(Write(o), mem, <<NewEvent(o)>>, out)
              /\ depth' = IF out = "ok" THEN depth ELSE depth - 1
              /\ Reply(o, out)
       \/ depth < 0 /\ UNCHANGED depth /\ \E out \in Outcomes :
              WriteThrough(o, out) /\ Reply(o, out)
    /\ UNCHANGED crashes

\* One that throws, before or after it changed some of its record.
EditThrows(o) ==
    /\ o \in Edits /\ status[o] = "idle"
    /\ IF depth = 0
       THEN rollbackTransaction(mem)
       ELSE /\ \E half \in {{}, {o}} : mem' = [mem EXCEPT !.torn = @ \cup half]
            /\ UNCHANGED <<snapshot, saveRequested, hooks>>
    /\ Reply(o, "thrown")
    /\ UNCHANGED <<disk, ledger, depth, crashes>>

\* A handler outside any transaction of its own.
PlainWrite(o) ==
    /\ o \in Plain /\ status[o] = "idle"
    /\ \/ depth > 0 /\ Defer(o) /\ Reply(o, "ok")
       \/ depth <= 0 /\ \E out \in Outcomes : WriteThrough(o, out) /\ Reply(o, out)
    /\ UNCHANGED <<depth, crashes>>

-----------------------------------------------------------------------------
\* A new process loads the disk; operations in flight get no answer.
Restart(inFlight) ==
    /\ crashes < MaxCrashes
    /\ crashes' = crashes + 1
    /\ mem' = normalizeState(disk')
    /\ depth' = 0
    /\ Closed
    /\ status' = [o \in Ops |-> IF o \in Waiting \cup inFlight THEN "lost" ELSE status[o]]

Crash == UNCHANGED <<disk, ledger>> /\ Restart({})

\* The process dies after the save of a commit, with callbacks still to run.
DieCommitting(m, callbacks) ==
    /\ disk' = toPersistedState(m)
    /\ \E k \in 0..(Len(callbacks) - 1) : ledger' = ledger \o SubSeq(callbacks, 1, k)

CrashInCommit(o) ==
    /\ \/ /\ \/ o \in Edits /\ status[o] = "idle" /\ depth = 0
             \/ o \in Waiting /\ depth = 1
          /\ DieCommitting(Write(o), Append(hooks, NewEvent(o)))
       \/ /\ o \in Waiting /\ depth = 1
          /\ (AccessRequests \ {o}) \cap mem.rows # {}
          /\ DieCommitting(mem, hooks)
    /\ Restart({o})

\* It dies between the ledger append and the save of a write-through.
CrashInWriteThrough(o) ==
    /\ \/ o \in Plain /\ status[o] = "idle" /\ depth <= 0
       \/ o \in Edits /\ status[o] = "idle" /\ depth < 0
       \/ o \in Waiting /\ depth < 1
    /\ ledger' = Append(ledger, NewEvent(o))
    /\ UNCHANGED disk
    /\ Restart({o})

-----------------------------------------------------------------------------
AccessAnswered(o) == AccessRecorded(o) \/ AccessExisting(o) \/ AccessRefused(o)

Next ==
    \/ \E o \in AccessRequests : OpenAccess(o) \/ AccessAnswered(o)
    \/ \E o \in Edits : EditOk(o) \/ EditThrows(o)
    \/ \E o \in Plain : PlainWrite(o)
    \/ Crash
    \/ \E o \in Ops : CrashInCommit(o) \/ CrashInWriteThrough(o)

\* The ITSM lookup ends, if only by the client's own time limit, and a failed
\* lookup is an invalid ticket; nothing else is promised to happen.
Fairness == \A o \in AccessRequests : WF_vars(AccessAnswered(o))

Spec == Init /\ [][Next]_vars
FairSpec == Spec /\ Fairness

-----------------------------------------------------------------------------
(***************************************************************************)
(* Properties                                                              *)
(***************************************************************************)

\* The variables of store.mjs hold what their declarations say they hold.
TypeOK ==
    /\ mem \in Memory
    /\ disk \in Persisted
    /\ ledger \in Seq(Event)
    /\ depth \in Int
    /\ snapshot \in Memory \cup {NoSnapshot}
    /\ saveRequested \in BOOLEAN
    /\ hooks \in Seq(Event)
    /\ status \in [Ops -> {"idle", "waiting", "ok", "error", "lost"}]
    /\ crashes \in 0..MaxCrashes

\* A snapshot, a requested save and queued callbacks exist only inside the
\* transaction they belong to, and a save is requested exactly while callbacks
\* wait for it, whatever failed before.
SnapshotWhileOpen ==
    /\ (snapshot # NoSnapshot) <=> (depth > 0)
    /\ depth <= 0 => saveRequested = FALSE /\ hooks = <<>>
    /\ (hooks # <<>>) <=> (saveRequested = TRUE)

\* The queued ledger appends are exactly the events recorded since the
\* snapshot, by whichever handler recorded them, in the order of the trail.
HooksMatchAudit == depth > 0 => mem.audit = snapshot.audit \o hooks

\* While no save fails, the disk holds exactly the records and the trail a
\* rollback would return to, and with no open transaction those in memory.
DurableBase ==
    LET base == IF depth > 0 THEN snapshot ELSE mem
    IN  disk.rows = base.rows /\ disk.audit = base.audit

\* Until a process dies, the ledger file and the appends still queued spell
\* the audit trail in memory, across rollbacks and failed saves.
LedgerFollowsAudit == crashes = 0 => ledger \o hooks = mem.audit

Atomic == INSTANCE AtomicStore
              WITH rows <- disk.rows, trail <- disk.audit, remnants <- disk.torn

\* The hash chain verifyAuditChain walks is unbroken in memory, in the state
\* a rollback restores and on disk, across rollbacks, failed saves and crashes.
AuditChainsLinked ==
    /\ Atomic!ChainLinked(mem.audit)
    /\ Atomic!ChainLinked(disk.audit)
    /\ snapshot # NoSnapshot => Atomic!ChainLinked(snapshot.audit)

\* Unless a save fails after the data reached the disk, the records and the
\* audit event of an operation reach the disk together and are never taken
\* back.  A half-written record of a nested handler that threw reaches it too,
\* without an event, but only in the save of other operations.
ImplementsAtomicStore == Atomic!Spec

\* While no save fails and no process dies, an operation that was answered with
\* success is missing from memory only if some access request was refused.
AcknowledgedUnlessRefused ==
    \A o \in Ops :
        status[o] = "ok" /\ o \notin mem.rows =>
            \/ o \in AccessRequests     \* the answer was an older request
            \/ crashes > 0
            \/ \E r \in AccessRequests : status[r] = "error"

\* Every ledger append that was put off is made or dropped, once the lookups
\* that keep the transaction open have been answered.
HooksDrain == (hooks # <<>>) ~> (hooks = <<>>)

\* A transactional handler that was answered with success is not undone while
\* the process lives.
AcknowledgedKept ==
    \A o \in Edits : status[o] = "ok" /\ crashes = 0 => o \in mem.rows

\* A transactional handler that was answered with an error left nothing behind,
\* neither in memory nor on disk.
FailedLeavesNothing ==
    \A o \in Edits : status[o] = "error" =>
        o \notin mem.rows \cup mem.torn \cup disk.rows \cup disk.torn

\* While no save fails and as long as no access request has opened a
\* transaction, the answer says what happened: with success the operation is in
\* memory and on disk and stays there across restarts, with an error nothing is.
AnswersHold ==
    (\A r \in AccessRequests : status[r] = "idle") =>
        /\ \A o \in Ops : status[o] = "ok" => o \in mem.rows /\ o \in disk.rows
        /\ FailedLeavesNothing
=============================================================================
