-------------------------------- MODULE Places --------------------------------
(***************************************************************************)
(* The log of operations and the place each backend keeps in it            *)
(* (crates/store/src: queue.rs, delivery.rs).  Each operation of the store *)
(* is one transaction.  Operations are numbered from 1 and never leave the *)
(* log.                                                                    *)
(***************************************************************************)
EXTENDS Naturals, Sequences

CONSTANTS
    Backends,   \* lists the log is delivered to
    Operations, \* what a row of the log may hold
    Writes,     \* what is decided of one
    NoWrite,    \* where none is kept
    MaxLog      \* bound: operations in the log

ASSUME PlacesAssumption ==
    /\ NoWrite \notin Writes
    /\ MaxLog \in Nat

VARIABLES
    log,        \* table sync_queue
    cursor,     \* table cursors, 0 where a backend has no row
    decided,    \* table decided: the write kept of each operation
    aside       \* table set_aside

placeVars == <<log, cursor, decided, aside>>

Numbers == 1 .. MaxLog

Larger(i, j) == IF i >= j THEN i ELSE j

PlacesInit ==
    /\ log = <<>>
    /\ cursor = [b \in Backends |-> 0]
    /\ decided = [b \in Backends |-> [i \in Numbers |-> NoWrite]]
    /\ aside = [b \in Backends |-> {}]

\* enqueue.
Enqueue(operation) ==
    /\ Len(log) < MaxLog
    /\ log' = Append(log, operation)
    /\ UNCHANGED <<cursor, decided, aside>>

\* pending: the first operation past the cursor, of those in the log.
IsNext(b, i) == i = cursor[b] + 1 /\ i <= Len(log)

\* A mutant: the write that was kept is not looked for.
ForgottenWrite(b, i) == NoWrite

\* decided.
KeptWrite(b, i) == decided[b][i]

\* decide, in place of a write kept before.
Decide(b, i, write) ==
    /\ i \in 1 .. Len(log)
    /\ decided' = [decided EXCEPT ![b][i] = write]
    /\ UNCHANGED <<log, cursor, aside>>

\* A mutant: the write stays kept.
LeaveDecided(b, i) == decided

\* forget_decided.
ForgetDecided(b, i) == [decided EXCEPT ![b][i] = NoWrite]

\* A mutant: the cursor goes where the operation is.
AdvanceAnywhere(b, i) == [cursor EXCEPT ![b] = i]

\* advance: never back.
Advance(b, i) == [cursor EXCEPT ![b] = Larger(@, i)]

\* delivered.
Delivered(b, i) ==
    /\ i \in 1 .. Len(log)
    /\ decided' = ForgetDecided(b, i)
    /\ aside' = [aside EXCEPT ![b] = @ \ {i}]
    /\ cursor' = Advance(b, i)
    /\ UNCHANGED log

\* set_aside.
SetAside(b, i) ==
    /\ i \in 1 .. Len(log)
    /\ decided' = ForgetDecided(b, i)
    /\ aside' = [aside EXCEPT ![b] = @ \cup {i}]
    /\ cursor' = Advance(b, i)
    /\ UNCHANGED log
=============================================================================
