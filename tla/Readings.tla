------------------------------ MODULE Readings ------------------------------
(***************************************************************************)
(* What detection, a session and the store say to each other: the readings *)
(* of the players, and the effects a session answers with.                 *)
(*                                                                         *)
(* An episode stands for a show and its episode number (or for a film, the *)
(* show alone).  A reading carries the episode recognition and settling    *)
(* named for its file, NoEpisode where they named none.  Time is counted   *)
(* in ticks.  Of a position a session asks one thing only, whether it was  *)
(* reported and lies under NEAR_THE_START: the field near.  The field      *)
(* sought says that the position broke with the one before it.             *)
(***************************************************************************)
EXTENDS Naturals, FiniteSets, Sequences

CONSTANTS
    Players,        \* the sources that can be read
    Episodes,       \* what a reading can name
    NoEpisode,      \* a reading that names no episode, or no file
    Files,          \* the files that are opened
    Lengths,        \* the lengths a reading can report
    Unreported,     \* a reading that reports no usable length
    Needed,         \* what the policy asks to have been watched, by length
    FirstSeconds,   \* FIRST_SECONDS
    ObservedLimit,  \* OBSERVED_LIMIT
    Grain           \* the ticks of what the store counts a total in

AnyLength == Lengths \cup {Unreported}

ASSUME ReadingsAssumption ==
    /\ IsFiniteSet(Episodes)
    /\ NoEpisode \notin Episodes
    /\ Unreported \notin Lengths
    /\ Needed \in [AnyLength -> Nat \ {0}]
    /\ Grain \in Nat \ {0}
    /\ \E k \in 1..FirstSeconds : FirstSeconds = k * Grain
    /\ FirstSeconds \in Nat \ {0}
    /\ ObservedLimit \in Nat

Reading ==
    [player: Players, episode: Episodes \cup {NoEpisode}, file: Files,
     playing: BOOLEAN, near: BOOLEAN, sought: BOOLEAN,
     length: AnyLength, at: Nat]

\* Effect: what a store is to do.  Resume carries the question its answer is
\* handed back with, Keep the total watched.
Effect ==
    [do: {"resume", "keep", "record", "close"}, episode: Episodes,
     question: Nat, watched: Nat]

Resume(e, q) == [do |-> "resume", episode |-> e, question |-> q, watched |-> 0]
Keep(e, w)   == [do |-> "keep", episode |-> e, question |-> 0, watched |-> w]
Record(e)    == [do |-> "record", episode |-> e, question |-> 0, watched |-> 0]
Close(e)     == [do |-> "close", episode |-> e, question |-> 0, watched |-> 0]

\* Kept: what the store answers it had of the last viewing of an episode.
Kept == [is: {"nothing", "watching", "registered"}, watched: Nat]

Nothing       == [is |-> "nothing", watched |-> 0]
Watching(w)   == [is |-> "watching", watched |-> w]
Registered    == [is |-> "registered", watched |-> 0]

\* Timestamp::since saturates at zero.
Since(later, earlier) == IF earlier < later THEN later - earlier ELSE 0

Later(a, b) == IF a < b THEN b ELSE a

\* Duration::as_millis: a total as the store counts it, the rest dropped.
Whole(w) == w \div Grain

\* Whether some length of a file makes a viewing of this much of it.
Enough(w) == \E l \in AnyLength : w >= Needed[l]

\* Whether it may have been enough before the rest was dropped.
EnoughKept(w) == \E l \in AnyLength : w + Grain > Needed[l]
=============================================================================
