---------------------------- MODULE Recognizing -----------------------------
(***************************************************************************)
(* What a file turns out to be (crates/core/src/recognize: mod.rs,         *)
(* corpus.rs, altname.rs, index.rs, score.rs), and the show a name nothing *)
(* answers is kept as (unlisted in crates/daemon/src/detection.rs).        *)
(*                                                                         *)
(* The list is filed anew, the user gives names and takes them back, and   *)
(* names that are refused are kept.  When which write becomes visible to a *)
(* round is in Naming, where a key is a value; here a key is of the words  *)
(* a name spells.                                                          *)
(***************************************************************************)
EXTENDS Parsing, Sequences, Functions

CONSTANTS
    Shows,          \* shows a list may hold
    Spellings,      \* the texts each is filed under, its title among them, in order
    Lists,          \* lists the service may answer
    Typed,          \* texts the user may give as a name
    Files,          \* files: a name, and the directories above it from the nearest up
    Up,             \* the directory ..
    MaxNames        \* names that are given and kept at once

\* The directories above a file are numbered, and a list is of shows.
ASSUME RecognizingAssumption ==
    /\ \A file \in Files : DOMAIN file.above \subseteq Nat
    /\ \A list \in Lists : list \subseteq Shows

VARIABLES
    listed,         \* the shows of the list that was filed last
    departed,       \* the shows that left it
    given,          \* the show each key was given to mean, None where it was not
    kept            \* the keys refused names are kept as, with the title of each

vars == <<listed, departed, given, kept>>

Keys == {FromTitle(text) : text \in Typed} \ {None}

SpellingsOf(show) == Range(Spellings[show])

-----------------------------------------------------------------------------
(***************************************************************************)
(* The corpus, and the names in force.                                     *)
(***************************************************************************)

\* Corpus::put: what each spelling is filed as, and what again without its type
\* words under each kind they name.
Put(text) ==
    [key |-> FromTitle(text), wording |-> Wording(text),
     untyped |-> FromTitle(WithoutTypes(text)), kinds |-> KindsIn(text)]

Filed == [s \in Shows |-> [i \in DOMAIN Spellings[s] |-> Put(Spellings[s][i])]]

\* reached: without marks every marks are reached, with marks their own.
Reaches(filed, key) ==
    /\ key # None /\ filed # None
    /\ filed = [key EXCEPT !.marks = filed.marks] /\ key.marks \in {None, filed.marks}

Candidates(corpus, key) ==
    {s \in corpus : \E filed \in Range(Filed[s]) : Reaches(filed.key, key)}

TypedCandidates(corpus, kind, key) ==
    {s \in corpus : \E filed \in Range(Filed[s]) :
        kind \in filed.kinds /\ Reaches(filed.untyped, key)}

\* reached_by.
ReachedBy(corpus, key, kind) ==
    Candidates(corpus, key) \cup (IF kind = None THEN {} ELSE TypedCandidates(corpus, kind, key))

\* Altnames::record.
Nameable(key, show) ==
    show \in listed /\ Candidates(listed, key) \notin {{other} : other \in listed \ {show}}

InForce ==
    [key \in Keys |-> IF given[key] # None /\ Nameable(key, given[key]) THEN given[key] ELSE None]

-----------------------------------------------------------------------------
(***************************************************************************)
(* The stages.  An answer is the shows it names: one that is recognized,   *)
(* several that are ambiguous, none that is refused.                       *)
(***************************************************************************)

Answer(stage, shows) ==
    [by |-> IF shows = {} THEN "nothing" ELSE stage, shows |-> shows]

Refused == Answer("nothing", {})

IsRefused(answer) == answer.shows = {}

OrElse(answer, next) == IF IsRefused(answer) THEN next ELSE answer

Named(key, altnames) ==
    IF key \notin DOMAIN altnames THEN {} ELSE {altnames[key]} \ {None}

ByAltname(parsed, altnames) == Answer("name", Named(FromParsed(parsed), altnames))

\* Where nothing is reached, the title without its type words is asked.
OrUntyped(reached, parsed, corpus) ==
    IF reached # {} \/ parsed.kind = None \/ parsed.title = None THEN reached
    ELSE IF TypesIn(parsed.title) = {} THEN reached
    ELSE ReachedBy(corpus, FromParsed([parsed EXCEPT !.title = WithoutTypes(@)]), parsed.kind)

ByKey(parsed, corpus) ==
    Answer("key", OrUntyped(ReachedBy(corpus, FromParsed(parsed), parsed.kind), parsed, corpus))

\* The two that are asked of every reading.
ByAltnameOrKey(parsed, recognizer) ==
    OrElse(ByAltname(parsed, recognizer.altnames), ByKey(parsed, recognizer.corpus))

\* Index::of: the shows each of the words reaches.
Index(corpus, words) ==
    [w \in words |-> {s \in corpus : \E filed \in Range(Filed[s]) :
                          filed.key # None /\ w \in filed.wording.words}]

\* narrowing, on a list of fewer than 400 entries, where a word two of them
\* carry is crowded already.
Narrowing(index) ==
    LET known == {w \in DOMAIN index : index[w] # {}}
        uncrowded == {w \in known : Cardinality(index[w]) = 1} IN
    IF uncrowded # {} THEN uncrowded
    ELSE {w \in known : \A v \in known : Cardinality(index[w]) <= Cardinality(index[v])}

Carrying(index, asked) ==
    {s \in UNION {index[w] : w \in asked} :
        Cardinality({w \in asked : s \in index[w]}) >= Min({2, Cardinality(asked)})}

\* Index::candidates.
IndexCandidates(index) == Carrying(index, Narrowing(index))

\* alike: the words shared, and those spelled between them, halved.
Alike(words, others) ==
    [shared |-> 2 * Cardinality(words \cap others), of |-> Cardinality(words) + Cardinality(others)]

NotLess(score, other) == score.shared * other.of >= other.shared * score.of

NoScore == [shared |-> 0, of |-> 1]

\* the_one: of what the parser reported and what the words spell, two seasons
\* are none.
SeasonsSpelled(reported, inWords) == {NotFirst(reported), inWords} \ {None}

TheOne(seasons) == IF seasons = {} THEN None ELSE CHOOSE season \in seasons : TRUE

\* A mutant: a spelling is compared whatever season it holds.
AnySpelling(filed, season) == filed.key # None /\ season = season

\* A spelling is compared where it holds the season the name holds.
Comparable(filed, season) == filed.key # None /\ filed.wording.season = season

\* The last of a show's spellings that come nearest to the words.
Nearest(spellings, words, season) ==
    LET compared == {i \in DOMAIN spellings : Comparable(spellings[i], season)}
        score == [i \in compared |-> Alike(words, spellings[i].wording.words)]
        best == {i \in compared : \A j \in compared : NotLess(score[i], score[j])} IN
    IF compared = {} THEN None ELSE spellings[Max(best)].wording.words

\* How far ahead the best has to be, in tenths: SHORT, AHEAD and AHEAD_SHORT.
Ahead(words, spelled) == IF Min({Cardinality(words), Cardinality(spelled)}) < 3 THEN 2 ELSE 1

\* Where the lead is the margin to the word, floating point decides: a whole
\* less four fifths is less than a fifth, four fifths less three are not.  Below
\* fifteen words between the name and the spelling, a whole alone falls short.
FarEnough(best, next, tenths) ==
    LET lead == 10 * (best.shared * next.of - next.shared * best.of)
        margin == tenths * best.of * next.of IN
    lead > margin \/ (lead = margin /\ best.shared # best.of)

\* The best of the shows, where it is near enough and far enough ahead.
Best(words, nearest) ==
    LET judged == {s \in DOMAIN nearest : nearest[s] # None}
        score == [s \in judged |-> Alike(words, nearest[s])]
        bestOf(shows) == {s \in shows : \A r \in shows : NotLess(score[s], score[r])}
        next(show) == IF judged = {show} THEN NoScore
                      ELSE score[CHOOSE s \in bestOf(judged \ {show}) : TRUE] IN
    {s \in bestOf(judged) :
        /\ 10 * score[s].shared >= 7 * score[s].of
        /\ FarEnough(score[s], next(s), Ahead(words, nearest[s]))}

Judged(name, seasons, candidates) ==
    IF Cardinality(seasons) > 1 THEN {}
    ELSE Best(name.words,
              [s \in candidates |-> Nearest(Filed[s], name.words, TheOne(seasons))])

Scored(name, reported, candidates) ==
    Judged(name, SeasonsSpelled(reported, name.season), candidates)

ByScore(parsed, candidates) ==
    Answer("score", Scored(Wording(parsed.text), parsed.season, candidates))

Decide(parsed, recognizer) ==
    OrElse(ByAltnameOrKey(parsed, recognizer),
           IF parsed.title = None THEN Refused
           ELSE ByScore(parsed, IndexCandidates(Index(recognizer.corpus,
                                                      Wording(parsed.title).words))))

-----------------------------------------------------------------------------
(***************************************************************************)
(* The readings of a name, and of the directories above it.                *)
(***************************************************************************)

Reading(parsed, title, episode) ==
    [parsed EXCEPT !.title = title, !.episode = episode, !.titleWithNumber = None,
                   !.episodeFirst = None, !.whole = None]

\* other_readings, in order.
OtherReadings(parsed) ==
    (IF parsed.titleWithNumber = None THEN <<>>
     ELSE <<Reading(parsed, parsed.titleWithNumber, Absent)>>)
    \o (IF parsed.episodeFirst = None THEN <<>>
        ELSE <<Reading(parsed, parsed.episodeFirst.title, parsed.episodeFirst.episode)>>)

\* whole_reading, none where it is the title read on or its key is that of the
\* title.
WholeReading(parsed) ==
    IF parsed.whole = None \/ parsed.titleWithNumber = parsed.whole.title THEN <<>>
    ELSE LET whole == [Reading(parsed, parsed.whole.title, parsed.whole.episode)
                          EXCEPT !.season = None, !.kind = None] IN
         IF FromParsed(whole) = FromParsed(parsed) THEN <<>> ELSE <<whole>>

\* A mutant: the other readings are asked whatever name the user gave.
AssignedNothing(parsed, altnames) == FALSE

Assigned(parsed, altnames) == ~IsRefused(ByAltname(parsed, altnames))

\* What is asked before the title is decided: nothing where the user gave its
\* name, and no other reading where its key is filed.
AskedFirst(parsed, recognizer) ==
    IF Assigned(parsed, recognizer.altnames) THEN <<>>
    ELSE WholeReading(parsed) \o
         (IF IsRefused(ByKey(parsed, recognizer.corpus)) THEN OtherReadings(parsed) ELSE <<>>)

Asked(readings, kind, recognizer) ==
    [i \in DOMAIN readings |->
        [parsed |-> [readings[i] EXCEPT !.kind = kind],
         answer |-> ByAltnameOrKey(readings[i], recognizer)]]

FirstAnswered(asked, last) ==
    LET answered == {i \in DOMAIN asked : ~IsRefused(asked[i].answer)} IN
    IF answered = {} THEN last ELSE asked[Min(answered)]

Decided(parsed, recognizer) == [parsed |-> parsed, answer |-> Decide(parsed, recognizer)]

\* read: the reading that is answered, and the answer.
Read(parsed, recognizer) ==
    FirstAnswered(Asked(AskedFirst(parsed, recognizer), parsed.kind, recognizer),
                  Decided(parsed, recognizer))

Or(value, other) == IF value # None THEN value ELSE other

\* What the name and the directories below one spell first.
SpelledBelow(name, above, upto, field) ==
    LET spells == {i \in 1 .. upto - 1 : above[i] # Up /\ above[i][field] # None} IN
    Or(name[field], IF spells = {} THEN None ELSE above[Min(spells)][field])

\* The title of a directory where it is not type words alone.
NamesShow(directory) ==
    /\ directory.title # None
    /\ \/ directory.title.words # TypesIn(directory.title)
       \/ directory.title.numeral # None \/ directory.title.season # None

\* What a directory is asked as: its title, or with the number it holds.
ShowOf(directory) ==
    IF directory = Up THEN None
    ELSE IF ~NamesShow(directory) THEN None
    ELSE IF directory.episode = Absent THEN directory.title ELSE directory.titleWithNumber

OfDirectory(name, episode, above, i) ==
    [Reading(above[i], ShowOf(above[i]), episode) EXCEPT
        !.season = Or(SpelledBelow(name, above, i, "season"), @),
        !.kind = Or(SpelledBelow(name, above, i, "kind"), @)]

SpellsRelease(directory) ==
    directory.release \/ directory.season # None \/ directory.kind # None

\* by_directory: the first directory that names a show, or that spells one with
\* a number where that is answered, ends the walk, and so does the one above.
\* What was read of the name stands where no directory takes its place.
Walked(above, shown, read) ==
    LET answered(i) == ~IsRefused(shown[i].answer)
        ends == {i \in DOMAIN above :
                    \/ above[i] = Up
                    \/ i \in DOMAIN shown /\ (above[i].episode = Absent \/ answered(i))}
        here == Min(ends) IN
    IF ends = {} \/ above[here] = Up THEN read
    ELSE IF SpellsRelease(above[here]) \/ answered(here) THEN shown[here] ELSE read

ByDirectory(read, episode, above, recognizer) ==
    Walked(above,
           [i \in {i \in DOMAIN above : ShowOf(above[i]) # None} |->
               Decided(OfDirectory(read.parsed, episode, above, i), recognizer)],
           read)

\* The names of a file and of its directories, parsed.
Parsed ==
    [file \in Files |->
        [name |-> Parse(file.name),
         above |-> [i \in DOMAIN file.above |->
                        IF file.above[i] = Up THEN Up ELSE Parse(file.above[i])]]]

EpisodeOf(name) ==
    IF name.episodeFirst # None THEN name.episodeFirst.episode
    ELSE IF name.title = None THEN name.episode ELSE Absent

OrShown(read, episode, above, recognizer) ==
    IF episode = Absent \/ ~IsRefused(read.answer) THEN read
    ELSE ByDirectory(read, episode, above, recognizer)

ReadParsed(file, recognizer) ==
    OrShown(Read(file.name, recognizer), EpisodeOf(file.name), file.above, recognizer)

\* read_file.
ReadFile(file, recognizer) == ReadParsed(Parsed[file], recognizer)

Recognizer == [corpus |-> listed, altnames |-> InForce]

-----------------------------------------------------------------------------
(***************************************************************************)
(* What changes.                                                           *)
(***************************************************************************)

\* The bound.
FewBeside(keys) ==
    Cardinality({k \in Keys \ keys : given[k] # None}) + Cardinality(kept) < MaxNames

File(list) ==
    /\ list # listed
    /\ listed' = list
    /\ departed' = (departed \cup listed) \ list
    /\ UNCHANGED <<given, kept>>

\* Altnames::name.
Name(text, show) ==
    /\ FromTitle(text) # None /\ Nameable(FromTitle(text), show)
    /\ FewBeside({FromTitle(text)})
    /\ given' = [given EXCEPT ![FromTitle(text)] = show]
    /\ UNCHANGED <<listed, departed, kept>>

\* Altnames::forget.
Forget(text) ==
    /\ FromTitle(text) # None /\ given[FromTitle(text)] # None
    /\ given' = [given EXCEPT ![FromTitle(text)] = None]
    /\ UNCHANGED <<listed, departed, kept>>

\* kept_title: with the season the parse read apart from the title, past the
\* first.
KeptTitle(parsed) ==
    IF parsed.season # None /\ FromParsed(parsed).season # None
    THEN [parsed.title EXCEPT !.season = FromParsed(parsed).season]
    ELSE parsed.title

\* The keys Store::unlisted finds a show by, which are then not filed.
KeysOfDeparted == {FromTitle(text) : text \in UNION {SpellingsOf(s) : s \in departed}}

\* unlisted.
Keep(file) ==
    \E read \in {ReadFile(file, Recognizer)} :
        LET key == FromParsed(read.parsed) IN
        /\ IsRefused(read.answer) /\ key # None /\ FewBeside({})
        /\ key \notin {k.key : k \in kept} \cup KeysOfDeparted
        /\ kept' = kept \cup {[key |-> key, title |-> KeptTitle(read.parsed)]}
        /\ UNCHANGED <<listed, departed, given>>

Init ==
    /\ listed = {} /\ departed = {} /\ kept = {}
    /\ given = [key \in Keys |-> None]

Next ==
    \/ \E list \in Lists : File(list)
    \/ \E text \in Typed : Forget(text) \/ \E show \in Shows : Name(text, show)
    \/ \E file \in Files : Keep(file)

Spec == Init /\ [][Next]_vars

-----------------------------------------------------------------------------
\* What the user names is followed by the files that spell it: a name that is in
\* force answers every file of its key, however else the file reads and whatever
\* the list holds of the other readings.  And by no others: a file it changes is
\* answered by that very key, no season, no marks and no directory apart.
NamesAreExact ==
    LET altnames == InForce IN
    \A file \in Files :
        LET read == ReadFile(file, Recognizer)
            key == FromParsed(Parsed[file].name) IN
        /\ key \in Keys /\ altnames[key] # None =>
                read.answer = [by |-> "name", shows |-> {altnames[key]}]
        /\ \A other \in Keys :
                /\ altnames[other] # None
                /\ read # ReadFile(file, [Recognizer EXCEPT !.altnames[other] = None])
                => read.answer.by = "name" /\ FromParsed(read.parsed) = other

\* The seasons a reading spells: where the parse holds none past the first, those
\* in the words of what was asked, which is the title, with its type words and
\* without, or all that is no part of the release.
SeasonsOf(read) ==
    LET reported == read.parsed.season
        title == read.parsed.title
        asked == IF read.answer.by = "key" THEN {title, WithoutTypes(title)} ELSE {read.parsed.text} IN
    IF NotFirst(reported) # None THEN {reported}
    ELSE {Wording(text).season : text \in asked} \cup (IF reported = None THEN {} ELSE {None})

\* What the list answers has a spelling of the season the file spells, in its
\* name or in a directory above it.  Where a first is spelled beside a numeral
\* it is the one or the other.
SeasonKept ==
    \A file \in Files :
        LET read == ReadFile(file, Recognizer) IN
        read.answer.by \in {"key", "score"} =>
            \A show \in read.answer.shows : \E filed \in Range(Filed[show]) :
                \/ filed.wording.season \in SeasonsOf(read)
                \/ filed.untyped # None /\ filed.untyped.season \in SeasonsOf(read)

\* Two seasons of one title are two titles (kept_title in detection.rs).
KeptApart ==
    \A one, other \in kept : one.key.season # other.key.season => one.title # other.title
=============================================================================
