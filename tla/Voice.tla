-------------------------------- MODULE Voice --------------------------------
(***************************************************************************)
(* What the daemon says on stderr (crates/daemon/src/voice.rs), the panics *)
(* said through it (crates/daemon/src/panics.rs), and how the process ends *)
(* (daemon and serve in crates/benshi/src/main.rs).                        *)
(*                                                                         *)
(* Whoever says a line leaves it with the voice; a thread of its own       *)
(* writes, and waits for as long as nobody reads.  The hook holds the      *)
(* voice weakly and takes hold of it to say one panic, so that a thread    *)
(* that panics may have hold of it as the main thread lets go.             *)
(*                                                                         *)
(* A step is what is done under the lock of the lines, and the write or    *)
(* the panic between two.  told and last are what a reader of stderr was   *)
(* told, a line that was refused by the stream included.                   *)
(***************************************************************************)
EXTENDS Naturals, Sequences

CONSTANTS
    Threads,    \* those the tasks run on
    Held,       \* HELD
    MaxSaid     \* bound: how many lines are said

ASSUME VoiceAssumption ==
    /\ Held \in Nat \ {0}
    /\ MaxSaid \in Nat
    /\ Threads \cap {"main", "writer"} = {}

VARIABLES
    said,       \* how many lines were said
    lines,      \* Lines::said, by the place of each among all that were
    dropped,    \* Lines::dropped
    over, ended,
    writer,     \* what the thread that writes is at
    taken,      \* what it has in its hands: a count and a line
    holds,      \* who has hold of the voice
    panic,      \* where each thread is in the hook
    main,       \* how far the main thread is
    lastSaid,   \* UpToTheLast
    told, last  \* history: how many lines stderr accounts for, and what came last

voiceVars == <<said, lines, dropped, over, ended>>

writerVars == <<writer, taken>>

threadVars == <<holds, panic, main, lastSaid>>

toldVars == <<told, last>>

vars == <<voiceVars, writerVars, threadVars, toldVars>>

A == INSTANCE Account WITH upTo <- told

-----------------------------------------------------------------------------
(***************************************************************************)
(* Voice::say.                                                             *)
(***************************************************************************)

\* notify_one.
Woken == IF writer = "asleep" THEN "looking" ELSE writer

Pushed(n) ==
    /\ said' = said + 1
    /\ LET full == Len(lines) >= n IN
          /\ lines' = Append(IF full THEN Tail(lines) ELSE lines, said')
          /\ dropped' = IF full THEN dropped + 1 ELSE dropped
    /\ writer' = Woken
    /\ UNCHANGED <<over, ended, taken, toldVars>>

SaysLine == said < MaxSaid /\ Pushed(Held)

\* The main thread, and the supervisor, which runs on it.
MainSays ==
    /\ main = "serving"
    /\ SaysLine
    /\ UNCHANGED threadVars

\* A task says a line of its own, up to the last words.
TaskSays(t) ==
    /\ panic[t] = "none" /\ main \in {"serving", "leaving"} /\ ~lastSaid
    /\ SaysLine
    /\ UNCHANGED threadVars

-----------------------------------------------------------------------------
(***************************************************************************)
(* The hook, on a thread that panics.                                      *)
(***************************************************************************)

\* Weak::upgrade and Voice::writes_for_this_thread.
WritesFor(who) == holds # {} /\ who # "writer" /\ ~ended

Panics(t) ==
    /\ panic[t] = "none" /\ main \in {"serving", "leaving"} /\ said < MaxSaid
    /\ panic' = [panic EXCEPT ![t] = IF WritesFor(t) THEN "saying" ELSE "writing"]
    /\ holds' = IF holds = {} THEN {} ELSE holds \cup {t}
    /\ UNCHANGED <<voiceVars, writerVars, main, lastSaid, toldVars>>

SaysPanic(t) ==
    /\ panic[t] = "saying"
    /\ Pushed(Held)
    /\ panic' = [panic EXCEPT ![t] = "said"]
    /\ UNCHANGED <<holds, main, lastSaid>>

\* The hook that was there writes where it stands, for as long as that takes.
WritesPanic(t) ==
    /\ panic[t] = "writing"
    /\ panic' = [panic EXCEPT ![t] = "said"]
    /\ UNCHANGED <<voiceVars, writerVars, holds, main, lastSaid, toldVars>>

\* The hook lets go of the voice, and the task may be started again while the
\* supervisor is there.  That the hook is not the last to let go, and so does
\* not wait for the writer, is HooksWaitForNobody.
LetsGo(t) ==
    /\ panic[t] = "said"
    /\ holds' = holds \ {t}
    /\ panic' = [panic EXCEPT ![t] = IF main = "serving" THEN "none" ELSE "over"]
    /\ UNCHANGED <<voiceVars, writerVars, main, lastSaid, toldVars>>

-----------------------------------------------------------------------------
(***************************************************************************)
(* The thread that writes.                                                 *)
(***************************************************************************)

\* Mutants: what was dropped is not taken with the line; a voice that goes is
\* looked for ahead of the lines it held.
DroppedAfter == dropped
OverFirst == over

DroppedLeft == 0

\* Unwritten::next looks for a line first.
NothingIsLeft == over /\ lines = <<>>

Looks ==
    /\ writer = "looking"
    /\ IF NothingIsLeft
       THEN writer' = "gone" /\ ended' = TRUE /\ UNCHANGED <<lines, dropped, taken>>
       ELSE IF lines = <<>>
       THEN writer' = "asleep" /\ UNCHANGED <<lines, dropped, ended, taken>>
       ELSE /\ taken' = [dropped |-> dropped, line |-> Head(lines)]
            /\ dropped' = DroppedLeft
            /\ lines' = Tail(lines)
            /\ writer' = IF dropped > 0 THEN "counting" ELSE "writing"
            /\ UNCHANGED ended
    /\ UNCHANGED <<said, over, threadVars, toldVars>>

\* Somebody reads, or the stream refuses the write.
Counts ==
    /\ writer = "counting"
    /\ told' = told + taken.dropped
    /\ last' \in {A!Missed(taken.dropped), A!Refused}
    /\ writer' = "writing"
    /\ UNCHANGED <<voiceVars, taken, threadVars>>

Writes ==
    /\ writer = "writing"
    /\ told' = told + 1
    /\ last' \in {A!Line(taken.line), A!Refused}
    /\ writer' = "looking"
    /\ UNCHANGED <<voiceVars, taken, threadVars>>

\* The stream panics, which the hook leaves to the one that was there.
WriterPanics ==
    /\ writer \in {"counting", "writing"}
    /\ writer' = "panicking"
    /\ holds' = IF holds = {} THEN {} ELSE holds \cup {"writer"}
    /\ UNCHANGED <<voiceVars, taken, panic, main, lastSaid, toldVars>>

\* It was written where it stood.
WriterUnwinds ==
    /\ writer = "panicking"
    /\ ended' = TRUE /\ writer' = "gone"
    /\ holds' = holds \ {"writer"}
    /\ UNCHANGED <<said, lines, dropped, over, taken, panic, main, lastSaid, toldVars>>

-----------------------------------------------------------------------------
(***************************************************************************)
(* The end of the process.                                                 *)
(***************************************************************************)

\* A signal: the last words, in room kept for them by the bound.
LastWords ==
    /\ main = "serving"
    /\ Pushed(Held)
    /\ lastSaid' = TRUE
    /\ main' = "leaving"
    /\ UNCHANGED <<holds, panic>>

\* The start fails or no task is left, which was said as it happened.
Fails ==
    /\ main = "serving"
    /\ main' = "leaving"
    /\ UNCHANGED <<voiceVars, writerVars, holds, panic, lastSaid, toldVars>>

\* Mutants: the voice goes ahead of the runtime; the writer is not told that it
\* goes.
BeforeTheRuntime == TRUE
WriterUntold == writer

\* The runtime waits for its threads as it goes, and goes first.
RuntimeIsGone == \A t \in Threads : panic[t] \in {"none", "over"}

\* notify_one in Voice::drop.
WriterTold == Woken

\* The main thread lets go of the voice.  The last to let go of it waits for the
\* writer; where the writer has hold of it to panic, the process ends at once.
MainLetsGo ==
    /\ main = "leaving"
    /\ RuntimeIsGone
    /\ holds' = holds \ {"main"}
    /\ IF holds = {"main"}
       THEN over' = TRUE /\ writer' = WriterTold /\ main' = "joining"
       ELSE main' = "ended" /\ UNCHANGED <<over, writer>>
    /\ UNCHANGED <<said, lines, dropped, ended, taken, panic, lastSaid, toldVars>>

MainJoins ==
    /\ main = "joining" /\ writer = "gone"
    /\ main' = "ended"
    /\ UNCHANGED <<voiceVars, writerVars, holds, panic, lastSaid, toldVars>>

\* gives_up_after, LAST_WORDS after the last words.
GivesUp ==
    /\ main \in {"leaving", "joining"}
    /\ main' = "gave up"
    /\ UNCHANGED <<voiceVars, writerVars, holds, panic, lastSaid, toldVars>>

Init ==
    /\ said = 0 /\ lines = <<>> /\ dropped = 0 /\ over = FALSE /\ ended = FALSE
    /\ writer = "looking" /\ taken = [dropped |-> 0, line |-> 0]
    /\ holds = {"main"} /\ panic = [t \in Threads |-> "none"]
    /\ main = "serving" /\ lastSaid = FALSE
    /\ told = 0 /\ last = A!Nothing

Reads == Looks \/ Counts \/ Writes

Hook(t) == SaysPanic(t) \/ WritesPanic(t) \/ LetsGo(t)

Over == main \in {"ended", "gave up"}

Runs ==
    /\ ~Over
    /\ \/ MainSays \/ LastWords \/ Fails \/ MainLetsGo \/ MainJoins \/ GivesUp
       \/ \E t \in Threads : TaskSays(t) \/ Panics(t) \/ Hook(t)
       \/ Reads \/ WriterPanics \/ WriterUnwinds

\* The process is over.
Rests == Over /\ UNCHANGED vars

Next == Runs \/ Rests

Spec == Init /\ [][Next]_vars

\* Somebody reads stderr, and no thread is left unscheduled.
Fairness ==
    /\ WF_vars(Runs /\ Reads) /\ WF_vars(Runs /\ WriterUnwinds)
    /\ WF_vars(Runs /\ MainLetsGo) /\ WF_vars(Runs /\ MainJoins)
    /\ \A t \in Threads : WF_vars(Runs /\ Hook(t))

-----------------------------------------------------------------------------
\* Every line said is written or counted where it would have stood, in the order
\* it was said, and none is dropped while no more than HELD wait to be written
\* (Voice).
VoiceAccounts == A!Spec

\* The stream made the thread that writes panic at the line it had taken.
WriterFailed == writer \in {"panicking", "gone"} /\ told < taken.line

\* A process that ends by itself has written, or counted, every line it said up
\* to its last words, whoever panicked on the way and however late it was read
\* (daemon, main.rs): it ends ahead of them only where the stream took down the
\* writer.
LastWordsAreWritten == main = "ended" => told = said \/ WriterFailed

\* A thread that panics waits for nobody to read: it is never the last to let
\* go of the voice, which would wait for the writer, and it writes where it
\* stands only once the writer has ended or the voice is gone (panics.rs).
HooksWaitForNobody ==
    \A t \in Threads :
        /\ t \in holds => "main" \in holds
        /\ panic[t] = "writing" => ended

\* A process that ends is over in the end where somebody reads:
\* the writer is told that the voice goes, whatever it waits for.
VoiceGoes == main = "leaving" ~> Over
=============================================================================
