------------------------------- MODULE Delivery -------------------------------
(***************************************************************************)
(* The log delivered to the lists, and the dry run that says what would be *)
(* delivered (crates/daemon/src/delivery.rs).  The places in the log are   *)
(* Places, where an episode goes Resolving, what it writes Planning.       *)
(*                                                                         *)
(* Nothing in the repository sends yet.  The sender is written from what   *)
(* store/src/delivery.rs and sync/src/lib.rs ask of one, the service from  *)
(* sync/src/memory.rs.  Dates are left out here: a Write carries none.     *)
(***************************************************************************)
EXTENDS Places, Resolving

CONSTANTS
    Entries,    \* entries of the lists, by the service's number
    Works,      \* those the service has
    CountOf,    \* the count of each, None where the service holds none
    EntryOf,    \* the entry each show is filed for
    Pins, Rules,
    FirstLists  \* lists the account may have at first

P == INSTANCE Planning

Standings == [status : P!Statuses, progress : Nat, rewatches : Nat]

ASSUME DeliveryAssumption ==
    /\ Works \subseteq Entries
    /\ \A list \in FirstLists : list \in [Entries -> Standings \cup {None}]

VARIABLES
    service,    \* where the account stands on each entry, None where it is not listed
    held,       \* the list as the store last filed it
    known,      \* entries the store ever filed
    sending,    \* the operation a sender has in its hands, 0 for none, and whether
                \* it was answered

    foretold,   \* history: the last dry run, of how many operations, and what it said
                \* each entry would be left as
    changes     \* history: how often the sending of an operation changed the list
                \* since the user last took the entry off it

listVars == <<service, held, known>>

vars == <<placeVars, listVars, sending, foretold, changes>>

NoDryRun == [upTo |-> 0, left |-> [e \in Entries |-> None]]

AtRest == [op |-> 0, answered |-> FALSE]

-----------------------------------------------------------------------------
(***************************************************************************)
(* Rehearsal: what sending an operation would do.                          *)
(***************************************************************************)

Listed(b, e) == held[b][e] # None

Departed(b, e) == e \in known[b] /\ ~Listed(b, e)

CountAt(b, e) == IF e # None /\ Listed(b, e) THEN CountOf[e] ELSE None

OwnEntry(b, show) == IF EntryOf[show] \in known[b] THEN EntryOf[show] ELSE None

\* Rehearsal::action, up to the entry: where the operation goes.  A row that
\* holds no progress goes nowhere.
Destination(b, op) ==
    LET own == OwnEntry(b, op.show) IN
    IF op.kind # "progress"
    THEN Unresolved("unread")
    ELSE Resolve(op.show, op.episode, [entry |-> own, count |-> CountAt(b, own)], Pins, Rules)

\* held, with no dates.
Dated(standing) ==
    [status |-> standing.status, progress |-> standing.progress,
     rewatches |-> standing.rewatches, started |-> None, completed |-> None]

Undated(standing) ==
    [status |-> standing.status, progress |-> standing.progress, rewatches |-> standing.rewatches]

\* Rehearsal::write: what is left of the entry where it stood at before, None
\* where nothing can be written to it.
Left(b, to, before) ==
    LET standing == IF before = None THEN P!Nowhere ELSE Dated(before)
        count == CountAt(b, to.entry) IN
    IF Departed(b, to.entry) \/ P!WritesNothing(standing, count, to.episode)
    THEN None
    ELSE Undated(P!After(standing, count, to.episode, None))

\* A mutant: each operation is planned from what the store holds.
BeforeOfHeld(b, left, e) == held[b][e]

\* What the operations planned so far leave of the entry, or what the store
\* holds of it.
Before(b, left, e) == IF left[e] # None THEN left[e] ELSE held[b][e]

\* Rehearsal::of: each entry as the operations planned so far and one more leave
\* it.
Leave(b, left, op) ==
    LET to == Destination(b, op)
        after == Left(b, to, Before(b, left, to.entry)) IN
    IF to.by = "none" \/ after = None THEN left ELSE [left EXCEPT ![to.entry] = after]

\* rehearse: each entry as the operations past the cursor would leave it, None
\* where none writes it.
Rehearsed(b) ==
    LET after[i \in cursor[b] .. Len(log)] ==
            IF i = cursor[b]
            THEN [e \in Entries |-> None]
            ELSE Leave(b, after[i - 1], log[i])
    IN  after[Len(log)]

\* dry_run: it reads the store once and changes nothing.  What it says is of use
\* where the store holds what the service does.
DryRun(b) ==
    /\ held[b] = service[b] /\ \A i \in Numbers : decided[b][i] = NoWrite
    /\ sending[b] = AtRest
    /\ foretold' = [foretold EXCEPT ![b] = [upTo |-> Len(log), left |-> Rehearsed(b)]]
    /\ UNCHANGED <<placeVars, listVars, sending, changes>>

-----------------------------------------------------------------------------
(***************************************************************************)
(* The sender, and the service.                                            *)
(***************************************************************************)

\* What the sender may take up: what it decided and has no answer to, and where
\* there is no such operation the next, or one that was set aside.
MayTake(b, i) ==
    \/ decided[b][i] # NoWrite
    \/ /\ \A j \in Numbers : decided[b][j] = NoWrite
       /\ IsNext(b, i) \/ i \in aside[b]

\* Nothing can be written of an operation, by where the account stands.
NothingToWrite(b, i) ==
    LET to == Destination(b, log[i]) IN
    IF to.by = "none" THEN TRUE ELSE Left(b, to, service[b][to.entry]) = None

\* The write an operation comes to, NoWrite where it is none.
Decision(b, i) ==
    LET to == Destination(b, log[i]) IN
    IF NothingToWrite(b, i)
    THEN NoWrite
    ELSE [entry |-> to.entry, standing |-> Left(b, to, service[b][to.entry])]

\* One set aside that is taken up is no longer what the dry run spoke of.
Heeds(b, i) == foretold' = IF i > cursor[b] THEN foretold ELSE [foretold EXCEPT ![b] = NoDryRun]

TakeUp(b, i) ==
    /\ sending[b] = AtRest /\ i \in 1 .. Len(log) /\ MayTake(b, i)
    /\ Heeds(b, i)
    /\ \/ /\ KeptWrite(b, i) # NoWrite
          /\ UNCHANGED placeVars
          /\ sending' = [sending EXCEPT ![b].op = i]
       \/ /\ KeptWrite(b, i) = NoWrite /\ Decision(b, i) # NoWrite
          /\ Decide(b, i, Decision(b, i))
          /\ sending' = [sending EXCEPT ![b].op = i]
       \/ /\ KeptWrite(b, i) = NoWrite /\ NothingToWrite(b, i)
          /\ SetAside(b, i)
          /\ UNCHANGED sending
    /\ UNCHANGED <<listVars, changes>>

\* ListBackend::write: the service takes the write, adding the entry where the
\* list does not hold it.
Arrives(b) ==
    LET i == sending[b].op
        write == decided[b][i] IN
    /\ i # 0 /\ ~sending[b].answered /\ write # NoWrite /\ write.entry \in Works
    /\ service' = [service EXCEPT ![b][write.entry] = write.standing]
    /\ changes' = [changes EXCEPT ![b][i] =
                      IF service[b][write.entry] = write.standing THEN @ ELSE @ + 1]
    /\ UNCHANGED <<placeVars, held, known, foretold>>

Answered(b) ==
    /\ Arrives(b)
    /\ sending' = [sending EXCEPT ![b].answered = TRUE]

\* The answer is lost, and the sender begins again later.
AnswerIsLost(b) ==
    /\ Arrives(b)
    /\ sending' = [sending EXCEPT ![b] = AtRest]

\* The write is lost.
WriteIsLost(b) ==
    /\ sending[b].op # 0 /\ ~sending[b].answered
    /\ sending' = [sending EXCEPT ![b] = AtRest]
    /\ UNCHANGED <<placeVars, listVars, foretold, changes>>

\* Error::NoWork: the service has no work of this number.
HasNoWork(b) ==
    LET i == sending[b].op IN
    /\ i # 0 /\ ~sending[b].answered
    /\ decided[b][i] # NoWrite /\ decided[b][i].entry \notin Works
    /\ SetAside(b, i)
    /\ sending' = [sending EXCEPT ![b] = AtRest]
    /\ UNCHANGED <<listVars, foretold, changes>>

Confirm(b) ==
    /\ sending[b].answered
    /\ Delivered(b, sending[b].op)
    /\ sending' = [sending EXCEPT ![b] = AtRest]
    /\ UNCHANGED <<listVars, foretold, changes>>

\* The process ends, and what the senders had in their hands goes with it.
DaemonDies ==
    /\ sending # [b \in Backends |-> AtRest]
    /\ sending' = [b \in Backends |-> AtRest]
    /\ UNCHANGED <<placeVars, listVars, foretold, changes>>

-----------------------------------------------------------------------------
\* A viewing registers (WatchStore).
Registers(operation) ==
    /\ Enqueue(operation)
    /\ UNCHANGED <<listVars, sending, foretold, changes>>

\* The list is read and filed (Naming), and the dry run spoke of another.
Files(b) ==
    /\ held[b] # service[b]
    /\ held' = [held EXCEPT ![b] = service[b]]
    /\ known' = [known EXCEPT ![b] = @ \cup {e \in Entries : service[b][e] # None}]
    /\ foretold' = [foretold EXCEPT ![b] = NoDryRun]
    /\ UNCHANGED <<placeVars, service, sending, changes>>

\* The user takes an entry off the list.
Removes(b, e) ==
    /\ service[b][e] # None /\ sending[b] = AtRest
    /\ service' = [service EXCEPT ![b][e] = None]
    /\ foretold' = [foretold EXCEPT ![b] = NoDryRun]
    /\ changes' = [changes EXCEPT ![b] = [i \in Numbers |->
                      IF decided[b][i] # NoWrite /\ decided[b][i].entry = e THEN 0 ELSE @[i]]]
    /\ UNCHANGED <<placeVars, held, known, sending>>

Init ==
    /\ PlacesInit
    /\ \E list \in FirstLists : service = [b \in Backends |-> list]
    /\ held = service
    /\ known = [b \in Backends |-> {e \in Entries : service[b][e] # None}]
    /\ sending = [b \in Backends |-> AtRest]
    /\ foretold = [b \in Backends |-> NoDryRun]
    /\ changes = [b \in Backends |-> [i \in Numbers |-> 0]]

Next ==
    \/ \E o \in Operations : Registers(o)
    \/ DaemonDies
    \/ \E b \in Backends :
          \/ DryRun(b) \/ Answered(b) \/ AnswerIsLost(b) \/ WriteIsLost(b)
          \/ HasNoWork(b) \/ Confirm(b) \/ Files(b)
          \/ \E i \in Numbers : TakeUp(b, i)
          \/ \E e \in Entries : Removes(b, e)

Spec == Init /\ [][Next]_vars

-----------------------------------------------------------------------------
\* However often a write is sent, with its answer lost or the process ended
\* before it was confirmed, an operation changes the list once: a film seen
\* again is not seen again twice (store/src/delivery.rs).
ChangedOnce == \A b \in Backends : \A i \in Numbers : changes[b][i] <= 1

\* A write is kept of one operation at most, of one that is not delivered, and
\* a sender has no other in its hands.
DecidedIsOpen ==
    \A b \in Backends : \A i \in Numbers :
        decided[b][i] # NoWrite =>
            /\ i = cursor[b] + 1 \/ i \in aside[b]
            /\ \A j \in Numbers : decided[b][j] # NoWrite => j = i
            /\ sending[b].op \in {0, i}

\* Sending the operations one by one leaves each entry as the dry run said,
\* where the list was not filed or changed meanwhile (daemon/src/delivery.rs).
ForetoldIsSent ==
    \A b \in Backends :
        foretold[b].upTo > 0 /\ cursor[b] = foretold[b].upTo
        /\ (\A i \in Numbers : decided[b][i] = NoWrite) =>
        \A e \in Works :
            service[b][e] = IF foretold[b].left[e] = None THEN held[b][e] ELSE foretold[b].left[e]

FateOf(b, i) ==
    CASE i > cursor[b] -> "ahead"
      [] i <= cursor[b] /\ i \in aside[b] -> "aside"
      [] OTHER -> "delivered"

O == INSTANCE Outbox WITH
        queued <- Len(log),
        fate <- [b \in Backends |-> [i \in 1 .. MaxLog |-> FateOf(b, i)]]

\* The log and the places in it are an Outbox, whatever is lost or ends.
OutboxSpec == O!Spec
=============================================================================
