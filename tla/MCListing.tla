------------------------------ MODULE MCListing ------------------------------
(***************************************************************************)
(* Instances for TLC of the list's task (Listing) and of the client of the *)
(* service it reads with (AniList).  A reading is of one of the two: to    *)
(* the task it lasts as long as the client takes.                          *)
(*                                                                         *)
(* A unit of AniList stands for a second of PACE; the waits and the        *)
(* deadline are shorter, in the same order.                                *)
(***************************************************************************)
EXTENDS Listing

CONSTANTS
    None, series, film,
    Callers, Pace, Wait, Margin, Deadline, MaxChunks, MaxNext

\* What AniList takes of its constants.
ASSUME AniListAssumption ==
    /\ Pace \in Nat \ {0} /\ Deadline \in Nat \ {0}
    /\ Wait \in Nat /\ Margin \in Nat
    /\ Asked \subseteq Nat /\ None \notin Nat
    /\ MaxChunks \in Nat /\ MaxNext \in Nat

VARIABLES part, next, call, reading, sinceSent, held, obliged

Chunk(status, own, more) == [status |-> status, own |-> own, more |-> more]

SomeChunks ==
    {Chunk(<<series>>, <<>>, TRUE), Chunk(<<film>>, <<series>>, TRUE), Chunk(<<>>, <<film>>, FALSE),
     Chunk(<<>>, <<film, series>>, TRUE), Chunk(<<film>>, <<>>, FALSE), Chunk(<<>>, <<>>, TRUE)}

A == INSTANCE AniList WITH Chunks <- SomeChunks

anilistAll == <<next, call, reading, sinceSent, held, obliged>>

OfTask == part = "task"
OfClient == part = "client"

MCInit ==
    /\ part \in {"task", "client"}
    /\ Init /\ A!Init
    /\ OfClient => kept = 0

TaskStep == OfTask /\ Next /\ UNCHANGED <<part, anilistAll>>

ClientStep == OfClient /\ A!Next /\ UNCHANGED <<part, vars>>

MCNext == TaskStep \/ ClientStep

\* As FairSpec of Listing and of AniList, each where the behaviour is of it.
MCSpec ==
    /\ MCInit /\ [][MCNext]_<<part, vars, anilistAll>>
    /\ WF_vars(OfTask /\ Tick) /\ WF_vars(OfTask /\ (FindsToken \/ Ended))
    /\ WF_vars(OfTask /\ WokenByLogin) /\ WF_vars(OfTask /\ WokenByTime)
    /\ WF_vars(OfTask /\ WokenByMiss)
    /\ \A c \in Clients : WF_vars(OfTask /\ WakesTask(c))
    /\ WF_anilistAll(OfClient /\ A!Passes)
    /\ \A c \in Callers :
          WF_anilistAll(OfClient /\ A!Sends(c)) /\ WF_anilistAll(OfClient /\ A!TimesOut(c))

\* A reading of the list always comes again (Reader::run).
TaskReadsAgain == OfTask => ReadsAgain

\* A request sent after a refusal is sent no sooner than the wait it asked for
\* and the margin (AniList::turn).
HoldIsKept == A!HoldIsKept

\* No two requests are sent closer than PACE (AniList::turn).
SentApart == A!SentApart

\* A reading of the list comes to its end (AniList::list).
ReadingEnds == A!ReadingEnds
=============================================================================
