------------------------------ MODULE Parsing -------------------------------
(***************************************************************************)
(* What a name spells (crates/core/src/recognize/parse.rs), and the key    *)
(* and the words a text is compared by (normalize.rs).                     *)
(*                                                                         *)
(* A text is the set of its words with the season it spells, the numeral   *)
(* that ends it, before type words at most, and the marks after its last   *)
(* letter.  A name is what the external parser reports of it, in order:    *)
(* elements, each with what it spells and what parts it from the one       *)
(* before, and the words it leaves unread.  A part is read as a season is, *)
(* and a year, once it is struck out, decides nothing here: both are left  *)
(* out.  So is a film's word in front of its title.                        *)
(***************************************************************************)
EXTENDS Naturals, FiniteSets, FiniteSetsExt

CONSTANTS
    None,
    Absent, Several,    \* no episode, and more than one
    KindOf,             \* the kind each type word names
    Numerals            \* each season a numeral ends a title with, and its word

NotFirst(number) == IF number = 1 THEN None ELSE number

-----------------------------------------------------------------------------
(***************************************************************************)
(* Keys and words.                                                         *)
(***************************************************************************)

TypesIn(text) == text.words \cap DOMAIN KindOf

KindsIn(text) == {KindOf[w] : w \in TypesIn(text)}

WithoutTypes(text) == [text EXCEPT !.words = @ \ TypesIn(text)]

NumeralOf(text) == IF text.numeral = None THEN {} ELSE {Numerals[text.numeral]}

\* take_ending_numeral: where no other season is read and no word follows.
EndsInSeason(text, reported) ==
    ~reported /\ text.season = None /\ text.numeral # None /\ TypesIn(text) = {}

\* Spelled::strip.  Where the parse holds a season its title spells none but
\* by a numeral, which then stays a word of it.
Strip(text, reported) ==
    IF EndsInSeason(text, reported)
    THEN [words |-> text.words, season |-> text.numeral]
    ELSE [words |-> text.words \cup NumeralOf(text), season |-> text.season]

KeyOf(spelled, marks) ==
    IF spelled.words = {} THEN None
    ELSE [words |-> spelled.words, marks |-> marks, season |-> NotFirst(spelled.season)]

FromTitle(text) == KeyOf(Strip(text, FALSE), text.marks)

\* wording_of.
Wording(text) == [Strip(text, FALSE) EXCEPT !.season = NotFirst(@)]

FromParsed(parsed) ==
    IF parsed.title = None THEN None
    ELSE KeyOf([Strip(parsed.title, parsed.season # None)
                    EXCEPT !.season = IF parsed.season # None THEN parsed.season ELSE @],
               parsed.title.marks)

-----------------------------------------------------------------------------
(***************************************************************************)
(* parse.                                                                  *)
(***************************************************************************)

At(name, kinds) == {i \in DOMAIN name : name[i].is \in kinds}

First(places) == IF places = {} THEN None ELSE Min(places)

NumberAt(name, place) == IF place = None THEN None ELSE name[place].number

\* The text of these elements, in order.  What ends it is what ends the last.
Joined(name, places) ==
    LET last == name[Max(places)].text
        seasons == {name[i].text.season : i \in places} \ {None} IN
    [last EXCEPT
        !.words = UNION {name[i].text.words \cup NumeralOf(name[i].text) :
                            i \in places \ {Max(places)}} \cup @,
        !.season = IF seasons = {} THEN None ELSE CHOOSE n \in seasons : TRUE]

UnreadAfter(name, place) == \E i \in At(name, {"unread"}) : i > place

\* title_read_on: through a number that only spaces part from the title, and
\* through the words after it.
TitleWithNumber(name) ==
    LET title == First(At(name, {"title"}))
        episode == First(At(name, {"episode"})) IN
    IF /\ title # None
       /\ At(name, {"episode"}) = {episode} /\ episode = title + 1
       /\ name[episode].after = "space" /\ ~UnreadAfter(name, episode)
    THEN Joined(name, {title, episode} \cup
                      {i \in At(name, {"episodeTitle"}) : i = episode + 1})
    ELSE None

\* episode_first: a number that begins the title, or that stands before the
\* words of an episode where there is no title.
EpisodeFirst(name) ==
    LET titles == At(name, {"title"})
        episodes == At(name, {"episode"})
        words == At(name, {"episodeTitle"}) IN
    CASE titles # {} /\ episodes = {} /\ name[Min(titles)].number # None
            /\ ~UnreadAfter(name, Min(titles)) ->
            [episode |-> name[Min(titles)].number, title |-> name[Min(titles)].rest]
      [] titles = {} /\ Cardinality(episodes) = 1 /\ words # {}
            /\ ~UnreadAfter(name, Min(episodes)) ->
            [episode |-> name[Min(episodes)].number, title |-> name[Min(words)].text]
      [] OTHER -> None

OfTheRelease == {"release", "group"}

\* read_whole: up to the release, where a number after a dash that ends it is
\* its episode and one inside it leaves no reading.
Whole(name) ==
    LET titles == At(name, {"title"})
        after == Max(titles \cup At(name, {"episode"}))
        upto == First({i \in At(name, OfTheRelease) : i > after})
        read == {i \in DOMAIN name : i >= Min(titles) /\ (upto = None \/ i < upto)}
        dashed == {i \in read \cap At(name, {"episode"}) : name[i].after = "dash"} IN
    CASE titles = {} \/ dashed \ {Max(read)} # {} -> None
      [] dashed # {} -> [title |-> Joined(name, read \ dashed), episode |-> NumberAt(name, Max(read))]
      [] OTHER -> [title |-> Joined(name, read), episode |-> Absent]

\* release_kind: a type word in brackets, or before the episode and after the
\* title or at its end.
ReleaseKind(name) ==
    LET title == First(At(name, {"title"}))
        episode == First(At(name, {"episode"}))
        placed == {i \in At(name, {"type"}) :
                      \/ name[i].after = "bracket"
                      \/ (episode = None \/ i < episode) /\ (title = None \/ i > title)}
        kinds == IF title # None /\ TypesIn(name[title].text) # {} /\ (episode = None \/ title < episode)
                 THEN KindsIn(name[title].text)
                 ELSE UNION {KindsIn(name[i].text) : i \in placed} IN
    IF kinds = {} THEN None ELSE CHOOSE kind \in kinds : TRUE

\* without_the_release: the title, an episode's title and what was not read, less
\* the type words in them, which the parser reports wherever they stand.
WithoutTheRelease(name) ==
    LET kept == At(name, {"title", "episodeTitle", "unread"}) IN
    IF kept = {} THEN [words |-> {}, numeral |-> None, season |-> None, marks |-> None]
    ELSE WithoutTypes(Joined(name, kept))

Parse(name) ==
    LET title == First(At(name, {"title"}))
        season == NumberAt(name, First(At(name, {"season"})))
        episodes == At(name, {"episode"})
        episode == IF episodes = {} THEN Absent
                   ELSE IF Cardinality(episodes) > 1 THEN Several
                   ELSE name[Min(episodes)].number
        nothing == season = 0 /\ episode = 0 IN
    [title |-> IF title = None THEN None ELSE name[title].text,
     episode |-> IF nothing THEN Absent ELSE episode,
     season |-> IF nothing THEN None ELSE season,
     kind |-> ReleaseKind(name),
     release |-> At(name, {"year", "group"}) # {},
     titleWithNumber |-> TitleWithNumber(name),
     episodeFirst |-> EpisodeFirst(name),
     whole |-> Whole(name),
     text |-> WithoutTheRelease(name)]
=============================================================================
