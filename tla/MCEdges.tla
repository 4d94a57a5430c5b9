------------------------------ MODULE MCEdges -------------------------------
(***************************************************************************)
(* Instances for TLC of what stands at the edges of the daemon: what it    *)
(* says (Voice), what it tells a client (Streams), what it reads of files  *)
(* (Lengths), of Kodi (Kodi) and of positions (Timeline).  They share      *)
(* nothing, so that no step of one matters to another: a behaviour is one  *)
(* of a single part.                                                       *)
(***************************************************************************)
EXTENDS Voice

CONSTANTS
    Parts,
    MaxPublished,
    Sources, Files, Missing, MaxThreads, MaxWritten, MaxWatchers,
    MaxSent, MaxArrived,
    Media, None, SeekThreshold, ObservedLimit, Targets, Resumed, MaxTime, MaxTurns

ASSUME StreamsAssumption == Held \in Nat \ {0} /\ MaxPublished \in Nat

\* What Lengths takes of its constants.
ASSUME LengthsAssumption == Missing \notin Files /\ MaxThreads \in Nat

\* What Timeline takes of its constants.
ASSUME TimelineAssumption ==
    /\ SeekThreshold \in Nat /\ ObservedLimit \in Nat
    /\ Targets \subseteq Nat /\ Resumed \subseteq Nat
    /\ None \notin Nat /\ None \notin Media
    /\ None \notin [at : Nat, playing : BOOLEAN, position : Nat \cup {None}]

VARIABLES
    part,
    published, stream, first, next, inHand, heard, lastHeard,
    watcher, looks, threads, asks, written, oldest,
    kodi, conn, call, quit, outcome,
    timeline, seeked, clock, player, ran, broke, even, base, seen, pauses, starts, jumps

S == INSTANCE Streams WITH told <- heard, last <- lastHeard
L == INSTANCE Lengths
K == INSTANCE Kodi
T == INSTANCE Timeline

voiceAll ==
    <<said, lines, dropped, over, ended, writer, taken, holds, panic, main, lastSaid,
      told, last>>
streamAll == <<published, stream, first, next, inHand, heard, lastHeard>>
lengthsAll == <<watcher, looks, threads, asks, written, oldest>>
kodiAll == <<kodi, conn, call, quit, outcome>>
timelineAll ==
    <<timeline, seeked, clock, player, ran, broke, even, base, seen, pauses, starts, jumps>>

MCVars == <<part, voiceAll, streamAll, lengthsAll, kodiAll, timelineAll>>

MCInit ==
    /\ part \in Parts
    /\ Init /\ S!Init /\ L!LengthsInit /\ K!KodiInit /\ T!TimelineInit
    /\ part # "timeline" => timeline = T!New /\ player = CHOOSE x \in T!AnyPlayer : TRUE

VoiceStep ==
    /\ part = "voice" /\ Next
    /\ UNCHANGED <<part, streamAll, lengthsAll, kodiAll, timelineAll>>

StreamStep ==
    /\ part = "stream" /\ S!Next
    /\ UNCHANGED <<part, voiceAll, lengthsAll, kodiAll, timelineAll>>

LengthsStep ==
    /\ part = "lengths" /\ L!LengthsNext
    /\ UNCHANGED <<part, voiceAll, streamAll, kodiAll, timelineAll>>

KodiStep ==
    /\ part = "kodi" /\ K!KodiNext
    /\ UNCHANGED <<part, voiceAll, streamAll, lengthsAll, timelineAll>>

TimelineStep ==
    /\ part = "timeline" /\ T!TimelineNext
    /\ UNCHANGED <<part, voiceAll, streamAll, lengthsAll, kodiAll>>

MCNext == VoiceStep \/ StreamStep \/ LengthsStep \/ KodiStep \/ TimelineStep

MCSpec == MCInit /\ [][MCNext]_MCVars /\ (part = "voice" => Fairness)

\* Every line that is said is written or counted in its place (Voice::say), and
\* a client that is subscribed is told of every event in its place, or of how
\* many it missed there, and misses none while it is no more than CAPACITY
\* behind (stream_events).
NothingGoesUntold == VoiceAccounts /\ S!StreamAccounts

\* A file that was closed is read again, and one that does not answer is never
\* read twice by one watcher (Lengths::keep_only).
ReadAgainNeverTwice == L!ReadAgainNeverTwice

\* A file that does not answer holds one thread and no more (length.rs).
OneThreadOfAFile == L!OneThreadOfAFile

\* A connection that is held does a reading no harm (KodiWatcher::reached).
HeldDoesNoHarm == K!HeldDoesNoHarm

\* What a pause costs stays within one interval (Timeline::advance), and a
\* position that lags and catches up is no seek while one that jumped is
\* (Timeline::broke_between).
PlayIsJudged == []T!PauseCosts /\ T!SeeksAreJumps
=============================================================================
