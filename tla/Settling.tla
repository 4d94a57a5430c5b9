------------------------------ MODULE Settling ------------------------------
(***************************************************************************)
(* Whether a file is of the show recognition named, or of which of several *)
(* (crates/core/src/settle.rs), and what the session takes of it           *)
(* (Named::by in crates/core/src/session.rs).                              *)
(*                                                                         *)
(* One file stays open.  Every round settles it again, by what the reading *)
(* says of its length then and by the facts the list holds then, which the *)
(* service comes to know one after another.  Which fact refused a show is  *)
(* for the explanation only and left out.                                  *)
(***************************************************************************)
EXTENDS Naturals

CONSTANTS
    Shows,
    None,               \* a fact, a number or a show that is not known
    Absent, Several,    \* no episode spelled, and several or one not whole
    FirstFacts,         \* what the list may hold of each show at first
    Learnable,          \* the values each fact of a show may come to have
    Spelled,            \* what the name of the file may spell and reach
    Readings            \* what may be read of the file: duration and position

VARIABLES
    facts,      \* Corpus::facts, None for a show filed without any
    name,       \* what the name spells, the shows recognition answered, and
                \* those a title of which carries the year
    reading,    \* the last reading of the file
    was         \* history: the show it was first counted as of, since its
                \* length was last another and a work was last released

settlingVars == <<facts, name, reading, was>>

\* duration_of: no length is zero, and none is less than the position.
DurationOf(r) ==
    IF r.duration \in {None, 0} \/ (r.position # None /\ r.duration < r.position)
    THEN None ELSE r.duration

Length == DurationOf(reading)

YearAgainst(show) == IF show \in name.carried THEN None ELSE name.year

\* A mutant: a file of no known length is taken for one of none.
IsShortOrUnknown(f) == f.length # None /\ (Length = None \/ 2 * Length < f.length)

\* Less than half of one episode.  (Of a length that twice overflows, twice is
\* no less than any.)
IsShort(f) == f.length # None /\ Length # None /\ 2 * Length < f.length

\* refusal: any of the five facts.
Refuses(f, year) ==
    \/ ~f.released
    \/ year # None /\ f.year # None /\ f.year # year
    \/ name.kind # None /\ f.broadcast = TRUE
    \/ name.episode = Absent /\ f.episodes # None /\ f.episodes > 1
    \/ IsShort(f)

PastCount(f) ==
    name.episode \notin {Absent, Several} /\ f.episodes # None /\ name.episode > f.episodes

\* settle, where recognition named one show.
Stands ==
    {s \in name.shows : facts[s] = None \/ ~Refuses(facts[s], YearAgainst(s))}

\* choose: those of several that no fact refuses.
Left == {s \in Stands : facts[s] = None \/ ~PastCount(facts[s])}

\* A mutant: the first of several is taken.
FirstOf(shows) == IF shows = {} THEN None ELSE CHOOSE s \in shows : TRUE

Only(shows) == IF \E s \in shows : shows = {s} THEN CHOOSE s \in shows : TRUE ELSE None

\* The show the file is settled to be of, None where there is none: of several,
\* the one that is left where a fact refused another.
Settled ==
    IF Only(name.shows) # None THEN Only(Stands)
    ELSE IF Left = name.shows THEN None ELSE Only(Left)

\* Named::by: what is counted is one episode, or a film.
Named == IF name.episode = Several THEN None ELSE Settled

-----------------------------------------------------------------------------
\* The first show that these rounds name stays.
Heeds == was' = IF was = None THEN Named' ELSE was

\* The service comes to know a fact, and the list is filed with it.
Learns(show, fact) ==
    /\ facts[show] # None /\ facts[show][fact] = None
    /\ \E value \in Learnable[show][fact] : facts' = [facts EXCEPT ![show][fact] = value]
    /\ UNCHANGED <<name, reading>>
    /\ Heeds

\* The work is released, which may let a show stand that was refused.
IsReleased(show) ==
    /\ facts[show] # None /\ ~facts[show].released
    /\ facts' = [facts EXCEPT ![show].released = TRUE]
    /\ UNCHANGED <<name, reading>>
    /\ was' = Named'

\* The file is read again.  Another length than before, or none, settles it anew.
IsRead(r) ==
    /\ reading' = r
    /\ UNCHANGED <<facts, name>>
    /\ IF Length \in {None, Length'} THEN Heeds ELSE was' = Named'

SettlingInit ==
    /\ facts \in [Shows -> FirstFacts]
    /\ name \in Spelled
    /\ reading \in Readings
    /\ was = Named

SettlingNext ==
    \/ \E s \in Shows, fact \in {"episodes", "length", "year", "broadcast"} : Learns(s, fact)
    \/ \E s \in Shows : IsReleased(s)
    \/ \E r \in Readings : IsRead(r)

-----------------------------------------------------------------------------
\* A file that was counted as of one show is never counted as of another while
\* facts are only learned, however long it was of none in between: what was
\* played of it would be split between the two (settle).
NeverOfAnother == Named \in {None, was}
=============================================================================
