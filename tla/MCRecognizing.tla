---------------------------- MODULE MCRecognizing ----------------------------
(***************************************************************************)
(* Instances of Recognizing for TLC.  The files are those of the tests of  *)
(* recognize/mod.rs and of recorded_shows in detection.rs, of one title:   *)
(* its seasons by a number and by a numeral, its thirteenth as an episode  *)
(* and as a show of its own, a special that spells its series, an OVA of a *)
(* season, a mark a file cannot carry, and episodes in a directory.        *)
(***************************************************************************)
EXTENDS Recognizing

Text(words) == [words |-> words, numeral |-> None, season |-> None, marks |-> None]

OfSeason(text, number) == [text EXCEPT !.season = number]

Show == Text({"show", "title"})
Second == OfSeason(Show, 2)
SecondByNumeral == [Show EXCEPT !.numeral = 2]
Thirteenth == Text({"show", "title", "13"})
Special == Text({"show", "title", "episode", "0", "contact"})
SecondOVA == OfSeason(Text({"show", "title", "ova"}), 2)
Marked == [Show EXCEPT !.marks = "colon"]

MCKindOf == [w \in {"ova"} |-> "extra"]

MCNumerals == [n \in {2} |-> "ii"]

\* Of the shows, the first and the marked are reached by one plain key, and
\* the second is spelled both ways.
MCSpellings ==
    [s \in {"first", "second", "marked", "thirteenth", "special", "ova"} |->
        CASE s = "first" -> <<Show>>
          [] s = "second" -> <<Second, SecondByNumeral>>
          [] s = "marked" -> <<Marked>>
          [] s = "thirteenth" -> <<Thirteenth>>
          [] s = "special" -> <<Special>>
          [] s = "ova" -> <<SecondOVA>>]

MCShows == DOMAIN MCSpellings

MCLists ==
    {{"first"}, {"second", "special"}, {"first", "marked", "thirteenth"}, {"second", "ova"}}

MCTyped == {Show, SecondByNumeral, Special}

-----------------------------------------------------------------------------
Element(is, text, number, after) ==
    [is |-> is, text |-> text, number |-> number, after |-> after, rest |-> None]

Titled(text) == Element("title", text, None, None)
Season(n) == Element("season", OfSeason(Text({}), n), n, "space")
Episode(n, after) == Element("episode", Text({}), n, after)
Coded(n, e, code) ==
    <<Element("season", Text({}), n, "space"), [Episode(e, "season") EXCEPT !.text = Text({code})]>>
Harbor == Element("episodeTitle", Text({"quiet", "harbor"}), None, "dash")

File0(name) == [name |-> name, above |-> <<>>]

In(name, above) == [name |-> name, above |-> above]

MCFiles == {
    \* Show Title - 03, Show Title S02E01, Show Title S01E03
    File0(<<Titled(Show), Episode(3, "dash")>>),
    File0(<<Titled(Show)>> \o Coded(2, 1, "s02e01")),
    File0(<<Titled(Show)>> \o Coded(1, 3, "s01e03")),
    \* Show Title II - 01, Show Title II S01E02
    File0(<<Titled(SecondByNumeral), Episode(1, "dash")>>),
    File0(<<Titled(SecondByNumeral)>> \o Coded(1, 2, "s01e02")),
    \* Show Title: - 03
    File0(<<Titled(Marked), Episode(3, "dash")>>),
    \* Show Title 13
    File0(<<Titled(Show), [Episode(13, "space") EXCEPT !.text = Text({"13"})]>>),
    \* Show Title Episode 0: Contact
    File0(<<Titled(Show), [Episode(0, "word") EXCEPT !.text = Text({"episode", "0"})],
            Element("episodeTitle", Text({"contact"}), None, "word")>>),
    \* Show Title Season 2 OVA - 01, Show Title OVA - 01
    File0(<<Titled(Show), Season(2), Element("type", Text({"ova"}), None, "space"),
            Episode(1, "dash")>>),
    File0(<<Titled(Text({"show", "title", "ova"})), Episode(1, "dash")>>),
    \* Show Title II OVA - 01
    File0(<<Titled([Text({"show", "title", "ova"}) EXCEPT !.numeral = 2]), Episode(1, "dash")>>),
    \* Show Title Harbor OVA - 01, which is compared without its type
    File0(<<Titled(Text({"show", "title", "harbor", "ova"})), Episode(1, "dash")>>),
    \* Show Title Harbor Season 2 - 01
    File0(<<Titled(Text({"show", "title", "harbor"})), Season(2), Episode(1, "dash")>>),
    \* Show Title/Season 2/01 - Quiet Harbor, and through ..
    In(<<Episode(1, None), Harbor>>, <<<<Season(2)>>, <<Titled(Show)>>>>),
    In(<<Episode(1, None), Harbor>>, <<Up, <<Titled(Show)>>>>),
    \* Show Title Season 2/S03E01 - Quiet Harbor
    In(Coded(3, 1, "s03e01") \o <<Harbor>>, <<<<Titled(Show), Season(2)>>>>),
    \* Show Title/Specials/01 Quiet Harbor
    In(<<[Titled(Text({"01", "quiet", "harbor"})) EXCEPT
            !.number = 1, !.rest = Text({"quiet", "harbor"})]>>,
       <<<<Titled(Text({"ova"}))>>, <<Titled(Show)>>>>),
    \* Show Title 13/01
    In(<<Episode(1, None)>>,
       <<<<Titled(Show), [Episode(13, "space") EXCEPT !.text = Text({"13"})]>>>>)}
=============================================================================
