---------------------------- MODULE AtomicStore ----------------------------
(***************************************************************************)
(* What the repository layer promises of the file on disk: the records of  *)
(* an operation and its audit event become durable in one save, several    *)
(* operations at a time, and neither is ever taken back.  What it does not *)
(* promise is that nothing else gets there: a handler that threw inside    *)
(* somebody else's transaction may leave a part of its record behind.      *)
(***************************************************************************)
EXTENDS Sequences, Integers

CONSTANTS
    Ops,        \* the operations a client may ask for
    NoHash      \* previousHash of the first audit event

VARIABLES
    rows,       \* the operations whose records are durable
    trail,      \* the durable audit events, oldest first
    remnants    \* the failed operations of which a part is durable

(***************************************************************************)
(* Every event names the hash of the event recorded before it.  A hash is  *)
(* represented by the operation of the event it was computed from.         *)
(***************************************************************************)
ChainLinked(events) ==
    \A i \in 1..Len(events) :
        events[i].prev = IF i = 1 THEN NoHash ELSE events[i - 1].op

OpsOf(events) == {events[i].op : i \in 1..Len(events)}

OncePerOp(events) ==
    \A i, j \in 1..Len(events) : events[i].op = events[j].op => i = j

IsPrefixOf(s, t) ==
    /\ Len(s) <= Len(t)
    /\ \A i \in 1..Len(s) : s[i] = t[i]

Init == rows = {} /\ trail = <<>> /\ remnants = {}

(***************************************************************************)
(* One save: the trail grows by the events of the operations whose records *)
(* become durable, and stays a hash chain.  Remnants come with the save of *)
(* other operations, stay, and are never in an event.                      *)
(***************************************************************************)
Commit ==
    /\ IsPrefixOf(trail, trail')
    /\ ChainLinked(trail')
    /\ OncePerOp(trail')
    /\ rows \subseteq rows'
    /\ rows' \subseteq Ops
    /\ rows' = OpsOf(trail')
    /\ remnants \subseteq remnants'
    /\ remnants' \subseteq Ops \ rows'
    /\ remnants' # remnants => trail' # trail

Next == Commit

Spec == Init /\ [][Next]_<<rows, trail, remnants>>
=============================================================================
