------------------------------- MODULE Lengths -------------------------------
(***************************************************************************)
(* The lengths read from the headers of the files that are open            *)
(* (crates/detect/src/length.rs), over the rounds of the watcher that asks *)
(* for them (poll, read and measured in crates/detect/src/mpris.rs) and    *)
(* over its restarts (start_watcher in crates/daemon/src/lib.rs): a        *)
(* watcher that is built again has no lengths, and the threads that read   *)
(* for the one before it go on.                                            *)
(*                                                                         *)
(* What a header says is told apart by how often the file was written: a   *)
(* length is the number of the writing it was read from, and 0 is none.    *)
(***************************************************************************)
EXTENDS Naturals

CONSTANTS
    Sources,        \* the players of the bus
    Files,
    Missing,        \* a source that failed, or has no local file open
    MaxThreads,     \* bound: threads that read at once
    MaxWritten,     \* bound: how often a file is written
    MaxWatchers     \* bound: how often the watcher is built

VARIABLES
    watcher,    \* the number of the watcher that is in use
    looks,      \* its Lengths::looks
    threads,    \* the threads that read: of which file, for which watcher
    asks,       \* where the reading of each source is in the round
    written,    \* how often each file was written
    oldest      \* history: the writing each file was at when it was last closed

lengthsVars == <<watcher, looks, threads, asks, written, oldest>>

Pool == 1 .. MaxThreads

Unknown == [is |-> "unknown", length |-> 0]
Running == [is |-> "running", length |-> 0]
Done(length) == [is |-> "done", length |-> length]

Idle == [file |-> Missing, of |-> 0, saw |-> 0]

Resting == [at |-> "resting", file |-> Missing, thread |-> 0, length |-> 0]

Answered(p, length) == [asks[p] EXCEPT !.at = "answered", !.thread = 0, !.length = length]

-----------------------------------------------------------------------------
\* The sources of a round have answered their GetAll.
Polls(open) ==
    /\ \A p \in Sources : asks[p].at = "resting"
    /\ asks' = [p \in Sources |->
                   [Resting EXCEPT !.at = IF open[p] = Missing THEN "answered" ELSE "asking",
                                   !.file = open[p]]]
    /\ UNCHANGED <<watcher, looks, threads, written, oldest>>

\* Lengths::of, where the file is known or another read of it runs.
Finds(p) ==
    /\ asks[p].at = "asking" /\ looks[asks[p].file].is # "unknown"
    /\ asks' = [asks EXCEPT ![p] = Answered(p, looks[asks[p].file].length)]
    /\ UNCHANGED <<watcher, looks, threads, written, oldest>>

\* Lengths::of, where a thread is to read it.
Starts(p, t) ==
    /\ asks[p].at = "asking" /\ looks[asks[p].file] = Unknown
    /\ threads[t] = Idle
    /\ looks' = [looks EXCEPT ![asks[p].file] = Running]
    /\ threads' = [threads EXCEPT ![t] = [file |-> asks[p].file, of |-> watcher, saw |-> 0]]
    /\ asks' = [asks EXCEPT ![p].at = "waiting", ![p].thread = t]
    /\ UNCHANGED <<watcher, written, oldest>>

\* The deadline of the reading passes, and its thread goes on.
GivesUp(p) ==
    /\ asks[p].at = "waiting"
    /\ asks' = [asks EXCEPT ![p] = Answered(p, 0)]
    /\ UNCHANGED <<watcher, looks, threads, written, oldest>>

\* read_length comes to the header.
Sees(t) ==
    /\ threads[t] # Idle /\ threads[t].saw = 0
    /\ threads' = [threads EXCEPT ![t].saw = written[threads[t].file]]
    /\ UNCHANGED <<watcher, looks, asks, written, oldest>>

\* What a thread that ends puts in the looks of the watcher it read for.
Kept(t, length) ==
    IF threads[t].of = watcher THEN [looks EXCEPT ![threads[t].file] = Done(length)] ELSE looks

\* The read ends, with the length the header records or none.
Ends(t, length) ==
    /\ threads[t] # Idle
    /\ looks' = Kept(t, length)
    /\ threads' = [threads EXCEPT ![t] = Idle]
    /\ asks' = [p \in Sources |->
                   IF asks[p].thread = t THEN Answered(p, length) ELSE asks[p]]
    /\ UNCHANGED <<watcher, written, oldest>>

\* The watcher is dropped and built again.
Rebuilt ==
    /\ watcher < MaxWatchers
    /\ watcher' = watcher + 1
    /\ looks' = [f \in Files |-> Unknown]
    /\ asks' = [p \in Sources |-> Resting]
    /\ oldest' = written
    /\ UNCHANGED written

\* The read panics, and the round with it where one waits.
Panics(t) ==
    /\ threads[t] # Idle
    /\ threads' = [threads EXCEPT ![t] = Idle]
    /\ IF \E p \in Sources : asks[p].thread = t
       THEN Rebuilt
       ELSE looks' = Kept(t, 0) /\ UNCHANGED <<watcher, asks, written, oldest>>

\* The round cannot be read at all, or another step of the task fails.
Restarts ==
    /\ \A p \in Sources : asks[p].at = "resting"
    /\ Rebuilt
    /\ UNCHANGED threads

\* Mutants: a read that runs is forgotten as well; nothing is forgotten.
KeepsOpen(f, open) == f \in open
KeepsAll(f, open) == TRUE

Keeps(f, open) == looks[f].is = "running" \/ f \in open

\* Lengths::keep_only, at the end of the round.
EndsRound ==
    LET open == {asks[p].file : p \in Sources} IN
    /\ \A p \in Sources : asks[p].at = "answered"
    /\ looks' = [f \in Files |-> IF Keeps(f, open) THEN looks[f] ELSE Unknown]
    /\ asks' = [p \in Sources |-> Resting]
    /\ oldest' = [f \in Files |->
                     IF f \in open \/ looks[f].is = "running" THEN oldest[f] ELSE written[f]]
    /\ UNCHANGED <<watcher, threads, written>>

IsWritten(f) ==
    /\ written[f] < MaxWritten
    /\ written' = [written EXCEPT ![f] = @ + 1]
    /\ UNCHANGED <<watcher, looks, threads, asks, oldest>>

LengthsInit ==
    /\ watcher = 1
    /\ looks = [f \in Files |-> Unknown]
    /\ threads = [t \in Pool |-> Idle]
    /\ asks = [p \in Sources |-> Resting]
    /\ written = [f \in Files |-> 1]
    /\ oldest = written

LengthsNext ==
    \/ \E open \in [Sources -> Files \cup {Missing}] : Polls(open)
    \/ \E p \in Sources :
          \/ Finds(p) \/ GivesUp(p)
          \/ \E t \in Pool : Starts(p, t)
    \/ \E t \in Pool :
          \/ Sees(t) \/ Panics(t)
          \/ \E length \in {0, threads[t].saw} : Ends(t, length)
    \/ Restarts \/ EndsRound
    \/ \E f \in Files : IsWritten(f)

-----------------------------------------------------------------------------
Reads(t, f, w) == threads[t].file = f /\ threads[t].of = w

\* A file that was closed is read again, so that no length is older than that,
\* and one that does not answer is never read twice by one watcher: what
\* keep_only forgets and what it keeps (Lengths::keep_only).
ReadAgainNeverTwice ==
    /\ \A p \in Sources : asks[p].length # 0 => asks[p].length >= oldest[asks[p].file]
    /\ \A f \in Files, w \in 1 .. watcher, s, t \in Pool :
          Reads(s, f, w) /\ Reads(t, f, w) => s = t

\* A file that does not answer holds one thread and no more (length.rs).
OneThreadOfAFile ==
    \A s, t \in Pool :
        threads[s] # Idle /\ threads[s].file = threads[t].file => s = t
=============================================================================
