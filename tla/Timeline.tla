------------------------------ MODULE Timeline -------------------------------
(***************************************************************************)
(* The fold of one player's readings (Timeline in                          *)
(* crates/core/src/timeline.rs): how much was watched, and whether the     *)
(* position broke with the one before.  Beside it, the player that is      *)
(* read: it plays, pauses, jumps and opens another file, and reports its   *)
(* position, none, or the one it reported before.                          *)
(*                                                                         *)
(* Session takes of this the interval that counts, and leaves open whether *)
(* a position broke.  A player that is stopped is taken for one paused:    *)
(* the code tells them apart only to leave a step between the two          *)
(* unjudged.  The length of what is open is handed through.                *)
(***************************************************************************)
EXTENDS Naturals

CONSTANTS
    Media,
    None,           \* nothing open, no reading, no position
    SeekThreshold,  \* SEEK_THRESHOLD
    ObservedLimit,  \* OBSERVED_LIMIT
    Targets,        \* positions that are sought
    Resumed,        \* totals a timeline may go on from
    MaxTime,        \* bound: ticks
    MaxTurns        \* bound: how often the player is paused, started or sought

VARIABLES
    timeline,   \* the state of Timeline
    seeked,     \* what the last reading was answered
    clock,
    player,     \* what is open, whether it plays, and where
    ran,        \* ticks it played since the last reading
    broke,      \* it jumped, or was paused or started, since a position was true
    even,       \* the last interval was shown as it was
    base, seen, \* the total resumed, and the ticks played between readings since
    pauses, starts, jumps

timelineVars ==
    <<timeline, seeked, clock, player, ran, broke, even, base, seen, pauses, starts, jumps>>

New == [watched |-> 0, previous |-> None, stalled |-> 0, open |-> None]

Playing == player.playing

-----------------------------------------------------------------------------
(***************************************************************************)
(* The fold.                                                               *)
(***************************************************************************)
Expects(previous) == IF previous.playing THEN clock - previous.at ELSE 0

Observed(previous) == clock - previous.at <= ObservedLimit

\* A timeline of anything else starts again.
Opened == IF timeline.open \in {None, player.media} THEN timeline ELSE New

\* The reading before, unless the interval since is a gap.
Previous ==
    IF Opened.previous # None /\ Observed(Opened.previous) THEN Opened.previous ELSE None

\* Mutants: an interval counts that played at either end; what the position owes
\* is forgotten.
EitherEnd(previous) == previous.playing \/ Playing
OwesNothing == 0

CountsFrom(previous) == previous.playing

Interval ==
    IF Previous # None /\ CountsFrom(Previous) THEN clock - Previous.at ELSE 0

Owed == IF Previous = None THEN 0 ELSE Opened.stalled

\* Timeline::broke_between: whether the step to a position is a seek, and what
\* the position owes after it.
Judged(position) ==
    IF \/ Previous = None
       \/ Previous.position = None \/ position = None
       \/ Previous.playing # Playing
      THEN [seek |-> FALSE, stalled |-> 0]
    ELSE LET before   == Previous.position
             expected == Expects(Previous) IN
    IF position < before
      THEN [seek |-> before - position + expected > SeekThreshold, stalled |-> 0]
    ELSE IF position - before < expected
      THEN [seek |-> FALSE, stalled |-> Owed + expected - (position - before)]
    ELSE [seek |-> position - before - expected > Owed + SeekThreshold, stalled |-> 0]

\* Timeline::advance.
Advance(position) ==
    /\ timeline' = [watched |-> Opened.watched + Interval,
                    stalled |-> Judged(position).stalled,
                    open |-> player.media,
                    previous |-> [at |-> clock, playing |-> Playing, position |-> position]]
    /\ seeked' = Judged(position).seek

-----------------------------------------------------------------------------
(***************************************************************************)
(* The player.                                                             *)
(***************************************************************************)
Passes ==
    /\ clock < MaxTime
    /\ clock' = clock + 1
    /\ player' = [player EXCEPT !.position = IF Playing THEN @ + 1 ELSE @]
    /\ ran' = IF Playing THEN ran + 1 ELSE ran
    /\ UNCHANGED <<timeline, seeked, broke, even, base, seen, pauses, starts, jumps>>

Turns == pauses + starts + jumps < MaxTurns

Pauses ==
    /\ Playing /\ Turns
    /\ player' = [player EXCEPT !.playing = FALSE]
    /\ pauses' = pauses + 1 /\ broke' = TRUE
    /\ UNCHANGED <<timeline, seeked, clock, ran, even, base, seen, starts, jumps>>

Starts ==
    /\ ~Playing /\ Turns
    /\ player' = [player EXCEPT !.playing = TRUE]
    /\ starts' = starts + 1 /\ broke' = TRUE
    /\ UNCHANGED <<timeline, seeked, clock, ran, even, base, seen, pauses, jumps>>

Jumps(to) ==
    /\ Turns
    /\ player' = [player EXCEPT !.position = to]
    /\ jumps' = jumps + 1 /\ broke' = TRUE
    /\ UNCHANGED <<timeline, seeked, clock, ran, even, base, seen, pauses, starts>>

Opens(media) ==
    /\ Turns
    /\ player' = [player EXCEPT !.media = media, !.position = 0]
    /\ jumps' = jumps + 1 /\ broke' = TRUE
    /\ UNCHANGED <<timeline, seeked, clock, ran, even, base, seen, pauses, starts>>

\* A player that lags reports what it reported before.  It does so within a run
\* of readings whose intervals are seen.  Two readings are a tick apart or more.
Shown == IF Previous = None THEN None ELSE Previous.position

\* The last reading is of what is open, and so is all that was played since.
Goes == timeline.open = player.media /\ timeline.previous # None

Reads(position) ==
    /\ timeline.previous # None => timeline.previous.at < clock
    /\ position \in {player.position, None, Shown}
    /\ Advance(position)
    /\ ran' = 0
    /\ base' = IF timeline.open \in {None, player.media} THEN base ELSE 0
    /\ seen' = IF timeline.open \in {None, player.media}
               THEN (IF Previous = None THEN seen ELSE seen + ran) ELSE 0
    /\ pauses' = IF Goes THEN pauses ELSE 0
    /\ starts' = IF Goes THEN starts ELSE 0
    /\ broke' = (broke /\ position # player.position)
    /\ even' = (position = player.position /\ ~broke)
    /\ UNCHANGED <<clock, player, jumps>>

AnyPlayer == [media : Media, playing : BOOLEAN, position : {0}]

TimelineInit ==
    /\ \/ timeline = New
       \/ \E total \in Resumed, m \in Media :
             timeline = [New EXCEPT !.watched = total, !.open = m]
    /\ seeked = FALSE
    /\ clock = 0
    /\ player \in AnyPlayer
    /\ ran = 0 /\ broke = FALSE /\ even = FALSE
    /\ base = timeline.watched /\ seen = 0
    /\ pauses = 0 /\ starts = 0 /\ jumps = 0

TimelineNext ==
    \/ Passes \/ Pauses \/ Starts
    \/ \E to \in Targets : Jumps(to)
    \/ \E media \in Media \ {player.media} : Opens(media)
    \/ \E position \in {player.position, None, Shown} : Reads(position)

-----------------------------------------------------------------------------
\* What a pause costs stays within one interval, however long it lasts, and what
\* was watched is otherwise what was played between readings, on top of a total
\* that is of the same media (Timeline::advance).
PauseCosts ==
    timeline.open = player.media =>
        /\ timeline.watched <= base + seen + ObservedLimit * pauses
        /\ base + seen <= timeline.watched + ObservedLimit * starts

\* The position is far from where an interval spent as it began would leave it.
Far(position) ==
    LET before == Previous.position IN
    \/ position > before + Expects(Previous) + SeekThreshold
    \/ position < before /\ position + SeekThreshold < before + Expects(Previous)

\* A position that lags and catches up is no seek, though it stood still for as
\* long as it liked; one that jumped is, where the interval before was shown as
\* it was and nothing but the jump came between (Timeline::broke_between).
SeeksAreJumps ==
    [][\A position \in {player.position, None, Shown} : Reads(position) =>
          /\ seeked' => broke
          /\ (/\ even /\ position = player.position
              /\ Previous # None /\ Previous.playing = Playing /\ ran = Expects(Previous)
              /\ Far(position)) => seeked']_timelineVars
=============================================================================
