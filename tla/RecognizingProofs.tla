------------------------- MODULE RecognizingProofs --------------------------
(***************************************************************************)
(* What holds of the names a user gives, and of seasons, for any files,    *)
(* lists and texts.  A name that is in force is asked first in every       *)
(* stage, so that all that is answered without it is what would be         *)
(* answered were it not there; and whichever stage answers, it asks no     *)
(* spelling of another season.                                             *)
(***************************************************************************)
EXTENDS Recognizing, FiniteSetTheorems, TLAPS

\* The answer is that of the name given to this key.
AnsweredBy(read, key) == read.answer.by = "name" /\ FromParsed(read.parsed) = key

\* Two recognizers that differ in what one key was given alone, which is named by
\* the first and not by the other.
Without(one, other, key) ==
    /\ one.corpus = other.corpus
    /\ DOMAIN one.altnames = DOMAIN other.altnames
    /\ key # None /\ key \in DOMAIN one.altnames
    /\ one.altnames[key] # None
    /\ \A k \in DOMAIN one.altnames \ {key} : one.altnames[k] = other.altnames[k]

-----------------------------------------------------------------------------
(***************************************************************************)
(* Sets of numbers, and records.                                           *)
(***************************************************************************)

\* A set of numbers has a least: the finite sets 0 .. n are well ordered by
\* inclusion.
LEMMA LeastOf ==
    ASSUME NEW T, T \subseteq Nat, T # {}
    PROVE  /\ Min(T) \in T
           /\ \A n \in T : Min(T) <= n
<1> DEFINE upTo == {0 .. n : n \in T}
           below == StrictSubsetOrdering(Nat)
<1>1. \A n \in T : 0 .. n \in FiniteSubsetsOf(Nat)
  BY FS_Interval DEF FiniteSubsetsOf
<1>2. \E x \in upTo : \A y \in upTo : <<y, x>> \notin below
  <2>1. IsWellFoundedOn(below, FiniteSubsetsOf(Nat))
    BY FS_StrictSubsetOrderingWellFounded
  <2>2. upTo \subseteq FiniteSubsetsOf(Nat) /\ upTo # {}
    BY <1>1
  <2> HIDE DEF upTo, below
  <2> QED BY <2>1, <2>2, WFMin
<1>3. PICK n \in T : \A m \in T : <<0 .. m, 0 .. n>> \notin below
  BY <1>2
<1>4. ASSUME NEW m \in T, m < n PROVE FALSE
  <2>1. 0 .. m \subseteq 0 .. n /\ n \in 0 .. n /\ n \notin 0 .. m
    BY <1>4
  <2>2. 0 .. m \in SUBSET Nat /\ 0 .. n \in SUBSET Nat
    OBVIOUS
  <2>3. <<0 .. m, 0 .. n>> \in below
    BY <2>1, <2>2 DEF StrictSubsetOrdering
  <2> QED BY <2>3, <1>3
<1>5. \E k \in T : \A m \in T : k <= m
  BY <1>4
<1> QED BY <1>5 DEF Min

\* What is left of a set of numbers has the least of it where that is left.
LEMMA LeastOfFewer ==
    ASSUME NEW T, T \subseteq Nat, NEW U, U \subseteq T, T # {}, Min(T) \in U
    PROVE  Min(U) = Min(T)
<1>1. Min(T) \in T /\ \A n \in T : Min(T) <= n
  BY LeastOf
<1>2. U \subseteq Nat /\ U # {}
  OBVIOUS
<1>3. Min(U) \in U /\ \A n \in U : Min(U) <= n
  BY <1>2, LeastOf
<1>4. Min(U) \in Nat /\ Min(T) \in Nat /\ Min(U) <= Min(T) /\ Min(T) <= Min(U)
  BY <1>1, <1>2, <1>3
<1> QED BY <1>4

\* The record of a name that was parsed.
IsAParse(parsed) ==
    parsed = [title |-> parsed.title, episode |-> parsed.episode, season |-> parsed.season,
              kind |-> parsed.kind, release |-> parsed.release,
              titleWithNumber |-> parsed.titleWithNumber,
              episodeFirst |-> parsed.episodeFirst, whole |-> parsed.whole,
              text |-> parsed.text]

LEMMA ParseIsOne ==
    ASSUME NEW name
    PROVE  IsAParse(Parse(name))
<1> DEFINE t == First(At(name, {"title"}))
           n == NumberAt(name, First(At(name, {"season"})))
           episodes == At(name, {"episode"})
           e == IF episodes = {} THEN Absent
                ELSE IF Cardinality(episodes) > 1 THEN Several
                ELSE name[Min(episodes)].number
           nothing == n = 0 /\ e = 0
           title == IF t = None THEN None ELSE name[t].text
           episode == IF nothing THEN Absent ELSE e
           season == IF nothing THEN None ELSE n
           release == At(name, {"year", "group"}) # {}
<1>1. Parse(name) =
        [title |-> title, episode |-> episode, season |-> season, kind |-> ReleaseKind(name),
         release |-> release, titleWithNumber |-> TitleWithNumber(name),
         episodeFirst |-> EpisodeFirst(name), whole |-> Whole(name),
         text |-> WithoutTheRelease(name)]
  BY Zenon DEF Parse
<1> HIDE DEF title, episode, season, release
<1> QED BY <1>1 DEF IsAParse

\* It stays one whichever of its fields is another.
LEMMA FieldsOfAParse ==
    ASSUME NEW parsed, IsAParse(parsed), NEW v
    PROVE  /\ IsAParse([parsed EXCEPT !.title = v])
           /\ IsAParse([parsed EXCEPT !.episode = v])
           /\ IsAParse([parsed EXCEPT !.season = v])
           /\ IsAParse([parsed EXCEPT !.kind = v])
           /\ IsAParse([parsed EXCEPT !.titleWithNumber = v])
           /\ IsAParse([parsed EXCEPT !.episodeFirst = v])
           /\ IsAParse([parsed EXCEPT !.whole = v])
<1>1. IsAParse([parsed EXCEPT !.title = v])
  BY DEF IsAParse
<1>2. IsAParse([parsed EXCEPT !.episode = v])
  BY DEF IsAParse
<1>3. IsAParse([parsed EXCEPT !.season = v])
  BY DEF IsAParse
<1>4. IsAParse([parsed EXCEPT !.kind = v])
  BY DEF IsAParse
<1>5. IsAParse([parsed EXCEPT !.titleWithNumber = v])
  BY DEF IsAParse
<1>6. IsAParse([parsed EXCEPT !.episodeFirst = v])
  BY DEF IsAParse
<1>7. IsAParse([parsed EXCEPT !.whole = v])
  BY DEF IsAParse
<1> QED BY <1>1, <1>2, <1>3, <1>4, <1>5, <1>6, <1>7

LEMMA ReadingIsOne ==
    ASSUME NEW parsed, IsAParse(parsed), NEW title, NEW episode
    PROVE  IsAParse(Reading(parsed, title, episode))
BY FieldsOfAParse, Zenon DEF Reading

\* The key of a reading is the same whatever kind it is taken to be of.
LEMMA KeyOfAnyKind ==
    ASSUME NEW parsed, IsAParse(parsed), NEW kind
    PROVE  FromParsed([parsed EXCEPT !.kind = kind]) = FromParsed(parsed)
<1>1. /\ [parsed EXCEPT !.kind = kind].title = parsed.title
      /\ [parsed EXCEPT !.kind = kind].season = parsed.season
  BY DEF IsAParse
<1> QED BY <1>1 DEF FromParsed

\* The readings that are asked beside the title are parses, in order.
LEMMA AskedAreParses ==
    ASSUME NEW parsed, IsAParse(parsed), NEW recognizer
    PROVE  /\ DOMAIN AskedFirst(parsed, recognizer) \subseteq Nat
           /\ \A i \in DOMAIN AskedFirst(parsed, recognizer) :
                 IsAParse(AskedFirst(parsed, recognizer)[i])
<1> DEFINE numbered == Reading(parsed, parsed.titleWithNumber, Absent)
           first == Reading(parsed, parsed.episodeFirst.title, parsed.episodeFirst.episode)
           read == Reading(parsed, parsed.whole.title, parsed.whole.episode)
           whole == [read EXCEPT !.season = None, !.kind = None]
           P == {numbered, first, whole}
<1>1. IsAParse(numbered) /\ IsAParse(first) /\ IsAParse(read)
  BY ReadingIsOne
<1>2. IsAParse(whole)
  <2> HIDE DEF read
  <2> QED BY <1>1, FieldsOfAParse, Zenon
<1>3. WholeReading(parsed) \in Seq(P)
  <2>1. WholeReading(parsed) \in {<<>>, <<whole>>}
    <3>1. WholeReading(parsed) =
            IF parsed.whole = None \/ parsed.titleWithNumber = parsed.whole.title THEN <<>>
            ELSE IF FromParsed(whole) = FromParsed(parsed) THEN <<>> ELSE <<whole>>
      BY Zenon DEF WholeReading
    <3> HIDE DEF whole
    <3> QED BY <3>1
  <2>2. whole \in P
    OBVIOUS
  <2> HIDE DEF P, whole
  <2>3. <<>> \in Seq(P) /\ <<whole>> \in Seq(P)
    BY <2>2
  <2> QED BY <2>1, <2>3
<1>4. OtherReadings(parsed) \in Seq(P)
  <2>1. OtherReadings(parsed) = (IF parsed.titleWithNumber = None THEN <<>> ELSE <<numbered>>)
                                \o (IF parsed.episodeFirst = None THEN <<>> ELSE <<first>>)
    BY DEF OtherReadings
  <2>2. numbered \in P /\ first \in P
    OBVIOUS
  <2> HIDE DEF P, numbered, first, whole
  <2>3. <<>> \in Seq(P) /\ <<numbered>> \in Seq(P) /\ <<first>> \in Seq(P)
    BY <2>2
  <2>4. \A r, s \in Seq(P) : r \o s \in Seq(P)
    OBVIOUS
  <2> QED BY <2>1, <2>3, <2>4
<1>5. AskedFirst(parsed, recognizer) \in Seq(P)
  <2> HIDE DEF P
  <2>1. <<>> \in Seq(P)
    OBVIOUS
  <2>2. \A r, s \in Seq(P) : r \o s \in Seq(P)
    OBVIOUS
  <2> QED BY <1>3, <1>4, <2>1, <2>2 DEF AskedFirst
<1>6. \A r \in Seq(P) : DOMAIN r \subseteq Nat /\ \A i \in DOMAIN r : r[i] \in P
  <2> HIDE DEF P
  <2> QED OBVIOUS
<1>7. \A p \in P : IsAParse(p)
  <2> HIDE DEF numbered, first, whole
  <2> QED BY <1>1, <1>2
<1> HIDE DEF P
<1> QED BY <1>5, <1>6, <1>7

-----------------------------------------------------------------------------
(***************************************************************************)
(* The stages.                                                             *)
(***************************************************************************)

\* A name in force answers its key before anything else does.
LEMMA NameAnswers ==
    ASSUME NEW parsed, NEW recognizer, FromParsed(parsed) \in DOMAIN recognizer.altnames,
           recognizer.altnames[FromParsed(parsed)] # None
    PROVE  LET name == recognizer.altnames[FromParsed(parsed)]
               answer == [by |-> "name", shows |-> {name}] IN
           /\ ByAltname(parsed, recognizer.altnames) = answer
           /\ ByAltnameOrKey(parsed, recognizer) = answer
           /\ Decide(parsed, recognizer) = answer
           /\ Assigned(parsed, recognizer.altnames)
           /\ answer.by = "name" /\ ~IsRefused(answer)
<1> DEFINE name == recognizer.altnames[FromParsed(parsed)]
           answer == [by |-> "name", shows |-> {name}]
<1>1. ByAltname(parsed, recognizer.altnames) = answer
  <2>1. Named(FromParsed(parsed), recognizer.altnames) = {name}
    BY DEF Named
  <2> QED BY <2>1 DEF ByAltname, Answer
<1>2. answer.by = "name" /\ answer.shows = {name} /\ ~IsRefused(answer)
  BY DEF IsRefused
<1> HIDE DEF answer
<1>3. ByAltnameOrKey(parsed, recognizer) = answer
  BY <1>1, <1>2 DEF ByAltnameOrKey, OrElse
<1>4. Decide(parsed, recognizer) = answer
  BY <1>2, <1>3 DEF Decide, OrElse
<1>5. Assigned(parsed, recognizer.altnames)
  BY <1>1, <1>2 DEF Assigned
<1> QED BY <1>1, <1>2, <1>3, <1>4, <1>5 DEF answer

\* What does not spell a key is answered as though nothing was given for it.
LEMMA AnsweredWithout ==
    ASSUME NEW one, NEW other, NEW key, Without(one, other, key),
           NEW parsed, FromParsed(parsed) # key
    PROVE  /\ ByAltname(parsed, one.altnames) = ByAltname(parsed, other.altnames)
           /\ ByAltnameOrKey(parsed, one) = ByAltnameOrKey(parsed, other)
           /\ Decide(parsed, one) = Decide(parsed, other)
           /\ AskedFirst(parsed, one) = AskedFirst(parsed, other)
<1>1. Named(FromParsed(parsed), one.altnames) = Named(FromParsed(parsed), other.altnames)
  BY DEF Named, Without
<1>2. ByAltname(parsed, one.altnames) = ByAltname(parsed, other.altnames)
  BY <1>1 DEF ByAltname
<1>3. one.corpus = other.corpus
  BY DEF Without
<1>4. ByAltnameOrKey(parsed, one) = ByAltnameOrKey(parsed, other)
  BY <1>2, <1>3 DEF ByAltnameOrKey
<1>5. Decide(parsed, one) = Decide(parsed, other)
  BY <1>3, <1>4 DEF Decide
<1>6. AskedFirst(parsed, one) = AskedFirst(parsed, other)
  BY <1>2, <1>3 DEF AskedFirst, Assigned
<1> QED BY <1>2, <1>4, <1>5, <1>6

\* What is answered without the name is answered with it, the same or by it.
LEMMA DecidedWithout ==
    ASSUME NEW one, NEW other, NEW key, Without(one, other, key), NEW parsed
    PROVE  /\ FromParsed(parsed) # key => Decided(parsed, one) = Decided(parsed, other)
           /\ FromParsed(parsed) = key => /\ AnsweredBy(Decided(parsed, one), key)
                                          /\ ~IsRefused(Decided(parsed, one).answer)
<1>1. ASSUME FromParsed(parsed) # key
      PROVE  Decided(parsed, one) = Decided(parsed, other)
  BY <1>1, AnsweredWithout DEF Decided
<1>2. ASSUME FromParsed(parsed) = key
      PROVE  /\ AnsweredBy(Decided(parsed, one), key)
             /\ ~IsRefused(Decided(parsed, one).answer)
  <2>1. FromParsed(parsed) \in DOMAIN one.altnames /\ one.altnames[FromParsed(parsed)] # None
    BY <1>2 DEF Without
  <2>2. Decide(parsed, one).by = "name" /\ ~IsRefused(Decide(parsed, one))
    BY <2>1, NameAnswers
  <2>3. Decided(parsed, one).parsed = parsed /\ Decided(parsed, one).answer = Decide(parsed, one)
    BY DEF Decided
  <2> QED BY <1>2, <2>2, <2>3 DEF AnsweredBy
<1> QED BY <1>1, <1>2

\* So is a reading of a name: the first of those asked that is answered is the
\* same, or one that spells the key.
LEMMA ReadWithout ==
    ASSUME NEW one, NEW other, NEW key, Without(one, other, key),
           NEW parsed, IsAParse(parsed)
    PROVE  \/ Read(parsed, one) = Read(parsed, other)
           \/ /\ AnsweredBy(Read(parsed, one), key)
              /\ ~IsRefused(Read(parsed, one).answer)
<1> DEFINE rs == AskedFirst(parsed, one)
           asked == Asked(rs, parsed.kind, one)
           without == Asked(rs, parsed.kind, other)
           T == {i \in DOMAIN asked : ~IsRefused(asked[i].answer)}
           U == {i \in DOMAIN without : ~IsRefused(without[i].answer)}
<1>1. CASE FromParsed(parsed) = key
  <2>1. FromParsed(parsed) \in DOMAIN one.altnames /\ one.altnames[FromParsed(parsed)] # None
    BY <1>1 DEF Without
  <2>2. rs = <<>>
    BY <2>1, NameAnswers DEF AskedFirst
  <2>3. DOMAIN asked = {}
    BY <2>2 DEF Asked
  <2>4. Read(parsed, one) = Decided(parsed, one)
    BY <2>3 DEF Read, FirstAnswered
  <2> QED BY <1>1, <2>4, DecidedWithout
<1>2. CASE FromParsed(parsed) # key
  <2>1. AskedFirst(parsed, other) = rs /\ Decided(parsed, one) = Decided(parsed, other)
    BY <1>2, AnsweredWithout, DecidedWithout
  <2>2. /\ Read(parsed, one) = (IF T = {} THEN Decided(parsed, one) ELSE asked[Min(T)])
        /\ Read(parsed, other) = (IF U = {} THEN Decided(parsed, one) ELSE without[Min(U)])
    BY <2>1 DEF Read, FirstAnswered
  <2>3. /\ DOMAIN rs \subseteq Nat /\ DOMAIN asked = DOMAIN rs /\ DOMAIN without = DOMAIN rs
        /\ \A i \in DOMAIN rs : IsAParse(rs[i])
    BY AskedAreParses DEF Asked
  <2>4. ASSUME NEW i \in DOMAIN rs
        PROVE  /\ asked[i].parsed = [rs[i] EXCEPT !.kind = parsed.kind]
               /\ asked[i].answer = ByAltnameOrKey(rs[i], one)
               /\ FromParsed(asked[i].parsed) = FromParsed(rs[i])
               /\ FromParsed(rs[i]) # key => asked[i] = without[i]
    <3>1. /\ asked[i] = [parsed |-> [rs[i] EXCEPT !.kind = parsed.kind],
                         answer |-> ByAltnameOrKey(rs[i], one)]
          /\ without[i] = [parsed |-> [rs[i] EXCEPT !.kind = parsed.kind],
                           answer |-> ByAltnameOrKey(rs[i], other)]
      BY DEF Asked
    <3>2. FromParsed([rs[i] EXCEPT !.kind = parsed.kind]) = FromParsed(rs[i])
      BY <2>3, KeyOfAnyKind
    <3>3. FromParsed(rs[i]) # key => ByAltnameOrKey(rs[i], one) = ByAltnameOrKey(rs[i], other)
      BY AnsweredWithout
    <3> DEFINE read == [rs[i] EXCEPT !.kind = parsed.kind]
    <3>4. /\ asked[i] = [parsed |-> read, answer |-> ByAltnameOrKey(rs[i], one)]
          /\ without[i] = [parsed |-> read, answer |-> ByAltnameOrKey(rs[i], other)]
          /\ FromParsed(read) = FromParsed(rs[i])
      BY <3>1, <3>2
    <3>5. SUFFICES /\ asked[i].parsed = read
                   /\ asked[i].answer = ByAltnameOrKey(rs[i], one)
                   /\ FromParsed(asked[i].parsed) = FromParsed(rs[i])
                   /\ FromParsed(rs[i]) # key => asked[i] = without[i]
      OBVIOUS
    <3> HIDE DEF read, asked, without, rs
    <3> QED BY <3>3, <3>4
  <2>5. ASSUME NEW i \in DOMAIN rs, FromParsed(rs[i]) = key
        PROVE  AnsweredBy(asked[i], key) /\ ~IsRefused(asked[i].answer)
    <3>1. FromParsed(rs[i]) \in DOMAIN one.altnames /\ one.altnames[FromParsed(rs[i])] # None
      BY <2>5 DEF Without
    <3>2. ByAltnameOrKey(rs[i], one).by = "name" /\ ~IsRefused(ByAltnameOrKey(rs[i], one))
      BY <3>1, NameAnswers
    <3> HIDE DEF asked, rs
    <3> QED BY <2>4, <2>5, <3>2 DEF AnsweredBy
  <2>6. T \subseteq Nat /\ U \subseteq T
    <3>1. ASSUME NEW i \in U
          PROVE  i \in T
      <4>1. CASE FromParsed(rs[i]) = key
        BY <2>3, <2>5, <4>1
      <4>2. CASE FromParsed(rs[i]) # key
        BY <2>3, <2>4, <4>2
      <4> QED BY <4>1, <4>2
    <3> QED BY <2>3, <3>1
  <2>7. CASE T = {}
    BY <2>2, <2>6, <2>7
  <2>8. CASE T # {}
    <3> HIDE DEF asked, without, rs
    <3>1. Min(T) \in T
      BY <2>6, <2>8, LeastOf
    <3>2. Min(T) \in DOMAIN rs /\ ~IsRefused(asked[Min(T)].answer)
      BY <2>3, <3>1
    <3>3. CASE FromParsed(rs[Min(T)]) = key
      BY <2>2, <2>5, <2>8, <3>2, <3>3
    <3>4. CASE FromParsed(rs[Min(T)]) # key
      <4>1. asked[Min(T)] = without[Min(T)]
        BY <2>4, <3>2, <3>4
      <4>2. Min(T) \in U
        BY <2>3, <3>2, <4>1
      <4>3. Min(U) = Min(T)
        <5> HIDE DEF T, U
        <5> QED BY <2>6, <2>8, <4>2, LeastOfFewer
      <4> QED BY <2>2, <2>8, <4>1, <4>2, <4>3
    <3> QED BY <3>3, <3>4
  <2> QED BY <2>7, <2>8
<1> QED BY <1>1, <1>2

\* And so is the walk through the directories above it.
LEMMA WalkedWithout ==
    ASSUME NEW one, NEW other, NEW key, Without(one, other, key),
           NEW read, NEW episode, NEW above, DOMAIN above \subseteq Nat
    PROVE  \/ ByDirectory(read, episode, above, one) = ByDirectory(read, episode, above, other)
           \/ AnsweredBy(ByDirectory(read, episode, above, one), key)
<1> DEFINE D == {i \in DOMAIN above : ShowOf(above[i]) # None}
           of(i) == OfDirectory(read.parsed, episode, above, i)
           shown == [i \in D |-> Decided(of(i), one)]
           without == [i \in D |-> Decided(of(i), other)]
           T == {i \in DOMAIN above :
                    \/ above[i] = Up
                    \/ i \in DOMAIN shown /\ (above[i].episode = Absent
                                              \/ ~IsRefused(shown[i].answer))}
           U == {i \in DOMAIN above :
                    \/ above[i] = Up
                    \/ i \in DOMAIN without /\ (above[i].episode = Absent
                                                \/ ~IsRefused(without[i].answer))}
<1>1. /\ ByDirectory(read, episode, above, one) =
           (IF T = {} \/ above[Min(T)] = Up THEN read
            ELSE IF SpellsRelease(above[Min(T)]) \/ ~IsRefused(shown[Min(T)].answer)
                 THEN shown[Min(T)] ELSE read)
      /\ ByDirectory(read, episode, above, other) =
           (IF U = {} \/ above[Min(U)] = Up THEN read
            ELSE IF SpellsRelease(above[Min(U)]) \/ ~IsRefused(without[Min(U)].answer)
                 THEN without[Min(U)] ELSE read)
  BY Zenon DEF ByDirectory, Walked
<1>2. ASSUME NEW i \in D
      PROVE  \/ shown[i] = without[i]
             \/ AnsweredBy(shown[i], key) /\ ~IsRefused(shown[i].answer)
  <2>1. \/ Decided(of(i), one) = Decided(of(i), other)
        \/ /\ AnsweredBy(Decided(of(i), one), key)
           /\ ~IsRefused(Decided(of(i), one).answer)
    BY DecidedWithout
  <2> HIDE DEF of, D
  <2> QED BY <2>1
<1>3. DOMAIN shown = D /\ DOMAIN without = D
  OBVIOUS
<1> HIDE DEF shown, without, of
<1>4. T \subseteq Nat /\ U \subseteq T
  BY <1>2, <1>3
<1>5. CASE T = {}
  BY <1>1, <1>4, <1>5
<1>6. CASE T # {}
  <2>1. Min(T) \in T
    BY <1>4, <1>6, LeastOf
  <2>2. ASSUME Min(T) \in U
        PROVE  Min(U) = Min(T) /\ U # {}
    <3> HIDE DEF T, U
    <3> QED BY <1>4, <1>6, <2>2, LeastOfFewer
  <2>3. CASE above[Min(T)] = Up
    <3>1. Min(T) \in U
      BY <2>1, <2>3
    <3> QED BY <1>1, <1>6, <2>2, <2>3, <3>1
  <2>4. CASE above[Min(T)] # Up
    <3>1. Min(T) \in D
      BY <1>3, <2>1, <2>4
    <3>2. CASE shown[Min(T)] = without[Min(T)]
      <4>1. Min(T) \in U
        BY <1>3, <2>1, <3>2
      <4> HIDE DEF T, U
      <4> QED BY <1>1, <1>6, <2>2, <2>4, <3>2, <4>1
    <3>3. CASE AnsweredBy(shown[Min(T)], key) /\ ~IsRefused(shown[Min(T)].answer)
      <4> HIDE DEF T, U
      <4> QED BY <1>1, <1>6, <2>4, <3>3
    <3> QED BY <1>2, <3>1, <3>2, <3>3
  <2> QED BY <2>3, <2>4
<1> QED BY <1>5, <1>6

LEMMA ReadFileWithout ==
    ASSUME NEW one, NEW other, NEW key, Without(one, other, key), NEW file \in Files
    PROVE  \/ ReadFile(file, one) = ReadFile(file, other)
           \/ AnsweredBy(ReadFile(file, one), key)
<1> DEFINE p == Parsed[file]
           read == Read(p.name, one)
           without == Read(p.name, other)
           episode == EpisodeOf(p.name)
<1>1. IsAParse(p.name) /\ DOMAIN p.above \subseteq Nat
  <2> DEFINE above == [i \in DOMAIN file.above |->
                           IF file.above[i] = Up THEN Up ELSE Parse(file.above[i])]
  <2>1. p = [name |-> Parse(file.name), above |-> above]
    BY DEF Parsed
  <2>2. DOMAIN above = DOMAIN file.above
    OBVIOUS
  <2> HIDE DEF above, p
  <2> QED BY <2>1, <2>2, ParseIsOne, RecognizingAssumption
<1>2. /\ ReadFile(file, one) = (IF episode = Absent \/ ~IsRefused(read.answer) THEN read
                                ELSE ByDirectory(read, episode, p.above, one))
      /\ ReadFile(file, other) = (IF episode = Absent \/ ~IsRefused(without.answer) THEN without
                                  ELSE ByDirectory(without, episode, p.above, other))
  BY DEF ReadFile, ReadParsed, OrShown
<1>3. read = without \/ (AnsweredBy(read, key) /\ ~IsRefused(read.answer))
  BY <1>1, ReadWithout
<1> HIDE DEF p, read, without, episode
<1>4. CASE read = without
  <2>1. \/ ByDirectory(read, episode, p.above, one) = ByDirectory(read, episode, p.above, other)
        \/ AnsweredBy(ByDirectory(read, episode, p.above, one), key)
    BY <1>1, WalkedWithout
  <2> QED BY <1>2, <1>4, <2>1
<1>5. CASE AnsweredBy(read, key) /\ ~IsRefused(read.answer)
  BY <1>2, <1>5
<1> QED BY <1>3, <1>4, <1>5

\* A name in force answers every file of its key.
LEMMA NameAnswersFile ==
    ASSUME NEW file \in Files, NEW recognizer,
           FromParsed(Parsed[file].name) \in DOMAIN recognizer.altnames,
           recognizer.altnames[FromParsed(Parsed[file].name)] # None
    PROVE  ReadFile(file, recognizer).answer =
             [by |-> "name", shows |-> {recognizer.altnames[FromParsed(Parsed[file].name)]}]
<1> DEFINE name == Parsed[file].name
           answer == [by |-> "name", shows |-> {recognizer.altnames[FromParsed(name)]}]
<1>1. /\ Decide(name, recognizer) = answer /\ Assigned(name, recognizer.altnames)
      /\ ~IsRefused(answer)
  BY NameAnswers
<1> HIDE DEF answer, name
<1>2. AskedFirst(name, recognizer) = <<>>
  BY <1>1 DEF AskedFirst
<1>3. Read(name, recognizer) = Decided(name, recognizer)
  <2>1. DOMAIN Asked(AskedFirst(name, recognizer), name.kind, recognizer) = {}
    BY <1>2 DEF Asked
  <2> QED BY <2>1 DEF Read, FirstAnswered
<1>4. Decided(name, recognizer).answer = answer
  BY <1>1 DEF Decided
<1>5. ReadFile(file, recognizer) = Decided(name, recognizer)
  BY <1>1, <1>3, <1>4 DEF ReadFile, ReadParsed, OrShown, name
<1> QED BY <1>4, <1>5 DEF answer, name

-----------------------------------------------------------------------------
\* What the user names is followed by the files that spell it, whatever else they
\* spell and whatever the list holds, and by no others: what is filed, given and
\* kept before makes no difference (NamesAreExact).
THEOREM NamesAreFollowed == Spec => []NamesAreExact
<1>1. NamesAreExact
  <2>1. Recognizer.corpus = listed /\ Recognizer.altnames = InForce /\ DOMAIN InForce = Keys
    BY DEF Recognizer, InForce
  <2>2. ASSUME NEW file \in Files, FromParsed(Parsed[file].name) \in Keys,
               InForce[FromParsed(Parsed[file].name)] # None
        PROVE  ReadFile(file, Recognizer).answer =
                 [by |-> "name", shows |-> {InForce[FromParsed(Parsed[file].name)]}]
    <3> HIDE DEF Recognizer
    <3> QED BY <2>1, <2>2, NameAnswersFile
  <2>3. ASSUME NEW file \in Files, NEW key \in Keys, InForce[key] # None,
               ReadFile(file, Recognizer) #
                 ReadFile(file, [Recognizer EXCEPT !.altnames[key] = None])
        PROVE  /\ ReadFile(file, Recognizer).answer.by = "name"
               /\ FromParsed(ReadFile(file, Recognizer).parsed) = key
    <3> DEFINE other == [Recognizer EXCEPT !.altnames[key] = None]
    <3>1. other.corpus = listed /\ other.altnames = [InForce EXCEPT ![key] = None]
      BY DEF Recognizer
    <3>2. key # None
      BY DEF Keys
    <3>3. /\ DOMAIN [InForce EXCEPT ![key] = None] = Keys
          /\ \A k \in Keys \ {key} : [InForce EXCEPT ![key] = None][k] = InForce[k]
      BY DEF InForce
    <3> HIDE DEF other
    <3>4. Without(Recognizer, other, key)
      BY <2>1, <2>3, <3>1, <3>2, <3>3 DEF Without
    <3>5. \/ ReadFile(file, Recognizer) = ReadFile(file, other)
          \/ AnsweredBy(ReadFile(file, Recognizer), key)
      BY <3>4, ReadFileWithout
    <3> QED BY <2>3, <3>5 DEF AnsweredBy, other
  <2> QED BY <2>2, <2>3 DEF NamesAreExact
<1> QED BY <1>1, PTL

-----------------------------------------------------------------------------
(***************************************************************************)
(* Seasons.  A key is of the season the parse holds, or of the one its     *)
(* title spells, and what it reaches is filed under that season; a         *)
(* spelling is compared where it is of the season of the name.             *)
(***************************************************************************)

\* A show was filed with a spelling of one of these seasons.
FiledWith(show, seasons) ==
    \E filed \in Range(Filed[show]) :
        \/ filed.wording.season \in seasons
        \/ filed.untyped # None /\ filed.untyped.season \in seasons

\* What is answered by the list is of a season that was spelled.
Keeps(read) ==
    read.answer.by \in {"key", "score"} =>
        \A show \in read.answer.shows : FiledWith(show, SeasonsOf(read))

\* The fields of a parse that one of the others is put beside.
LEMMA OtherFields ==
    ASSUME NEW parsed, IsAParse(parsed), NEW v
    PROVE  /\ [parsed EXCEPT !.title = v].title = v
           /\ [parsed EXCEPT !.title = v].season = parsed.season
           /\ [parsed EXCEPT !.kind = v].title = parsed.title
           /\ [parsed EXCEPT !.kind = v].season = parsed.season
           /\ [parsed EXCEPT !.kind = v].text = parsed.text
BY DEF IsAParse

\* A key is of the season of the parse, or else of the words of its title.
LEMMA SeasonOfKey ==
    ASSUME NEW parsed, FromParsed(parsed) # None
    PROVE  FromParsed(parsed).season =
             IF parsed.season # None THEN NotFirst(parsed.season)
             ELSE Wording(parsed.title).season
<1> DEFINE strip(reported) == Strip(parsed.title, reported)
<1>1. /\ strip(TRUE) = [words |-> strip(TRUE).words, season |-> strip(TRUE).season]
      /\ strip(FALSE) = [words |-> strip(FALSE).words, season |-> strip(FALSE).season]
  BY DEF Strip
<1>2. Wording(parsed.title) = [strip(FALSE) EXCEPT !.season = NotFirst(@)]
  BY DEF Wording
<1>3. FromParsed(parsed) =
        KeyOf([strip(parsed.season # None)
                  EXCEPT !.season = IF parsed.season # None THEN parsed.season ELSE @],
              parsed.title.marks)
  BY DEF FromParsed
<1> HIDE DEF strip
<1>4. Wording(parsed.title).season = NotFirst(strip(FALSE).season)
  BY <1>1, <1>2
<1>5. ASSUME NEW x, FromParsed(parsed) = KeyOf(x, parsed.title.marks)
      PROVE  FromParsed(parsed).season = NotFirst(x.season)
  BY <1>5 DEF KeyOf
<1>6. CASE parsed.season # None
  <2>1. PICK x : x = [strip(TRUE) EXCEPT !.season = parsed.season]
    OBVIOUS
  <2>2. x.season = parsed.season
    BY <1>1, <2>1
  <2>3. FromParsed(parsed) = KeyOf(x, parsed.title.marks)
    BY <1>3, <1>6, <2>1
  <2>4. QED
    BY <1>5, <1>6, <2>2, <2>3
<1>7. CASE parsed.season = None
  <2>1. PICK x : x = [strip(FALSE) EXCEPT !.season = strip(FALSE).season]
    OBVIOUS
  <2>2. x.season = strip(FALSE).season
    BY <1>1, <2>1
  <2>3. FromParsed(parsed) = KeyOf(x, parsed.title.marks)
    BY <1>3, <1>7, <2>1
  <2>4. QED
    BY <1>4, <1>5, <1>7, <2>2, <2>3
<1>8. QED
  BY <1>6, <1>7

\* What a spelling is filed as is of the season of its words.
LEMMA SeasonOfFiled ==
    ASSUME NEW text, FromTitle(text) # None
    PROVE  FromTitle(text).season = Wording(text).season
<1> DEFINE strip == Strip(text, FALSE)
<1>1. strip = [words |-> strip.words, season |-> strip.season]
  BY DEF Strip
<1>2. FromTitle(text) = KeyOf(strip, text.marks) /\ Wording(text) = [strip EXCEPT !.season = NotFirst(@)]
  BY DEF FromTitle, Wording
<1> HIDE DEF strip
<1>3. QED
  BY <1>1, <1>2 DEF KeyOf

\* A key has words, marks and a season.
LEMMA KeyIsRecord ==
    ASSUME NEW parsed, FromParsed(parsed) # None
    PROVE  LET key == FromParsed(parsed) IN
           key = [words |-> key.words, marks |-> key.marks, season |-> key.season]
<1>1. \A x, m : KeyOf(x, m) # None =>
         LET key == KeyOf(x, m) IN
         key = [words |-> key.words, marks |-> key.marks, season |-> key.season]
  BY DEF KeyOf
<1>2. \E x : FromParsed(parsed) = KeyOf(x, parsed.title.marks)
  BY DEF FromParsed
<1>3. QED
  BY <1>1, <1>2

\* What a key reaches is filed under its season.
LEMMA ReachedIsOfSeason ==
    ASSUME NEW parsed, NEW filed, Reaches(filed, FromParsed(parsed))
    PROVE  /\ FromParsed(parsed) # None /\ filed # None
           /\ filed.season = FromParsed(parsed).season
<1>1. PICK key : key = FromParsed(parsed)
  OBVIOUS
<1>2. /\ key # None /\ filed # None
      /\ filed = [key EXCEPT !.marks = filed.marks]
  BY <1>1 DEF Reaches
<1>3. key = [words |-> key.words, marks |-> key.marks, season |-> key.season]
  BY <1>1, <1>2, KeyIsRecord
<1>4. [key EXCEPT !.marks = filed.marks].season = key.season
  BY <1>3
<1>5. QED
  BY <1>1, <1>2, <1>4

\* What reaches a show is of a season it was filed with.
LEMMA ReachedIsKept ==
    ASSUME NEW parsed, NEW corpus, corpus \subseteq Shows, NEW kind,
           NEW show \in ReachedBy(corpus, FromParsed(parsed), kind),
           NEW seasons,
           FromParsed(parsed) # None => FromParsed(parsed).season \in seasons
    PROVE  FiledWith(show, seasons)
<1>1. show \in Shows
  BY DEF ReachedBy, Candidates, TypedCandidates
<1>2. ASSUME NEW filed \in Range(Filed[show])
      PROVE  /\ filed.key # None => filed.key.season = filed.wording.season
  <2>1. PICK i \in DOMAIN Filed[show] : filed = Filed[show][i]
    BY DEF Range
  <2>2. Filed[show] = [j \in DOMAIN Spellings[show] |-> Put(Spellings[show][j])]
    BY <1>1 DEF Filed
  <2>3. filed = Put(Spellings[show][i])
    BY <2>1, <2>2
  <2>4. filed.key = FromTitle(Spellings[show][i]) /\ filed.wording = Wording(Spellings[show][i])
    BY <2>3 DEF Put
  <2>5. QED
    BY <2>4, SeasonOfFiled
<1>3. CASE show \in Candidates(corpus, FromParsed(parsed))
  <2>1. PICK filed \in Range(Filed[show]) : Reaches(filed.key, FromParsed(parsed))
    BY <1>3 DEF Candidates
  <2>2. filed.wording.season \in seasons
    BY <1>2, <2>1, ReachedIsOfSeason
  <2>3. QED
    BY <2>2 DEF FiledWith
<1>4. CASE show \in TypedCandidates(corpus, kind, FromParsed(parsed))
  <2>1. PICK filed \in Range(Filed[show]) : Reaches(filed.untyped, FromParsed(parsed))
    BY <1>4 DEF TypedCandidates
  <2>2. QED
    BY <2>1, ReachedIsOfSeason DEF FiledWith
<1>5. QED
  BY <1>3, <1>4 DEF ReachedBy

\* So is what a reading is answered by its key, or by it without its type words.
LEMMA KeyKeeps ==
    ASSUME NEW parsed, IsAParse(parsed), NEW corpus, corpus \subseteq Shows, NEW read,
           read.answer = ByKey(parsed, corpus), read.parsed.season = parsed.season,
           read.parsed.title = parsed.title
    PROVE  Keeps(read)
<1> SUFFICES ASSUME read.answer.by \in {"key", "score"}, NEW show \in read.answer.shows
             PROVE  FiledWith(show, SeasonsOf(read))
  BY DEF Keeps
<1> DEFINE untyped == [parsed EXCEPT !.title = WithoutTypes(@)]
           reached == ReachedBy(corpus, FromParsed(parsed), parsed.kind)
<1>1. /\ read.answer.by = "key"
      /\ show \in OrUntyped(reached, parsed, corpus)
  BY DEF ByKey, Answer
<1>2. /\ show \in reached \/ show \in ReachedBy(corpus, FromParsed(untyped), parsed.kind)
  BY <1>1 DEF OrUntyped
<1>3. untyped.title = WithoutTypes(parsed.title) /\ untyped.season = parsed.season
  BY OtherFields
<1> HIDE DEF untyped
<1>4. /\ Wording(parsed.title).season \in SeasonsOf(read) \/ parsed.season # None
      /\ Wording(WithoutTypes(parsed.title)).season \in SeasonsOf(read) \/ parsed.season # None
      /\ parsed.season # None => NotFirst(parsed.season) \in SeasonsOf(read)
  BY <1>1 DEF SeasonsOf, NotFirst
<1>5. FromParsed(parsed) # None => FromParsed(parsed).season \in SeasonsOf(read)
  BY <1>4, SeasonOfKey
<1>6. FromParsed(untyped) # None => FromParsed(untyped).season \in SeasonsOf(read)
  BY <1>3, <1>4, SeasonOfKey
<1>7. QED
  BY <1>2, <1>5, <1>6, ReachedIsKept

\* Of two seasons that are one, or of which one is none, the one is taken.
LEMMA OneOfTwo ==
    ASSUME NEW reported, NEW inWords,
           ~(Cardinality(SeasonsSpelled(reported, inWords)) > 1)
    PROVE  LET season == TheOne(SeasonsSpelled(reported, inWords)) IN
           IF NotFirst(reported) # None THEN season = reported ELSE season = inWords
<1> DEFINE S == SeasonsSpelled(reported, inWords)
           n == NotFirst(reported)
<1>1. S = {n, inWords} \ {None}
  BY DEF SeasonsSpelled
<1>2. n # None => n = reported
  BY DEF NotFirst
<1> HIDE DEF S, n
<1>3. \A x, y \in S : x = y
  <2>1. SUFFICES ASSUME NEW x \in S, NEW y \in S, x # y PROVE FALSE
    OBVIOUS
  <2>2. S = {x} \cup {y}
    BY <1>1, <2>1
  <2>3. Cardinality({x}) = 1 /\ IsFiniteSet({x})
    BY FS_Singleton
  <2>4. Cardinality({x} \cup {y}) = 2
    BY <2>1, <2>3, FS_AddElement
  <2>5. QED
    BY <2>2, <2>4 DEF S
<1>4. S # {} => TheOne(S) \in S
  BY DEF TheOne
<1>5. S = {} => TheOne(S) = None
  BY DEF TheOne
<1>6. CASE n # None
  <2>1. n \in S
    BY <1>1, <1>6
  <2>2. TheOne(S) = n
    BY <1>3, <1>4, <2>1
  <2>3. QED
    BY <1>2, <1>6, <2>2 DEF S, n
<1>7. CASE n = None
  <2>1. TheOne(S) = inWords
    BY <1>1, <1>4, <1>5, <1>7
  <2>2. QED
    BY <1>7, <2>1 DEF S, n
<1>8. QED
  BY <1>6, <1>7

\* A show that is answered by its spellings has one of the season asked.
LEMMA JudgedIsOfSeason ==
    ASSUME NEW name, NEW seasons, NEW candidates, NEW show \in Judged(name, seasons, candidates)
    PROVE  /\ ~(Cardinality(seasons) > 1)
           /\ \E filed \in Range(Filed[show]) : filed.wording.season = TheOne(seasons)
<1> DEFINE nearest == [s \in candidates |-> Nearest(Filed[s], name.words, TheOne(seasons))]
<1>1. ~(Cardinality(seasons) > 1) /\ show \in Best(name.words, nearest)
  BY DEF Judged
<1>2. show \in DOMAIN nearest /\ nearest[show] # None
  BY <1>1 DEF Best
<1>3. Nearest(Filed[show], name.words, TheOne(seasons)) # None
  BY <1>2
<1>4. \E i \in DOMAIN Filed[show] : Comparable(Filed[show][i], TheOne(seasons))
  BY <1>3 DEF Nearest
<1>5. QED
  BY <1>1, <1>4 DEF Comparable, Range

\* So what a reading is answered by its words is of a season that was spelled.
LEMMA ScoreKeeps ==
    ASSUME NEW parsed, NEW candidates, NEW read,
           read.answer = ByScore(parsed, candidates), read.parsed = parsed
    PROVE  Keeps(read)
<1> SUFFICES ASSUME read.answer.by \in {"key", "score"}, NEW show \in read.answer.shows
             PROVE  FiledWith(show, SeasonsOf(read))
  BY DEF Keeps
<1> DEFINE name == Wording(parsed.text)
           seasons == SeasonsSpelled(parsed.season, name.season)
<1>1. /\ read.answer.by = "score"
      /\ show \in Judged(name, seasons, candidates)
  BY DEF ByScore, Answer, Scored
<1>2. /\ ~(Cardinality(seasons) > 1)
      /\ \E filed \in Range(Filed[show]) : filed.wording.season = TheOne(seasons)
  BY <1>1, JudgedIsOfSeason
<1>3. IF NotFirst(parsed.season) # None THEN TheOne(seasons) = parsed.season
      ELSE TheOne(seasons) = name.season
  BY <1>2, OneOfTwo
<1>4. TheOne(seasons) \in SeasonsOf(read)
  <2> HIDE DEF seasons
  <2> QED BY <1>1, <1>3 DEF SeasonsOf
<1>5. QED
  BY <1>2, <1>4 DEF FiledWith

\* What is asked of every reading, and what is asked of the title.
LEMMA AskedKeeps ==
    ASSUME NEW parsed, IsAParse(parsed), NEW recognizer, recognizer.corpus \subseteq Shows,
           NEW read, read.answer = ByAltnameOrKey(parsed, recognizer),
           read.parsed.season = parsed.season, read.parsed.title = parsed.title
    PROVE  Keeps(read)
<1>1. CASE read.answer = ByAltname(parsed, recognizer.altnames)
  <2>1. read.answer.by \notin {"key", "score"}
    BY <1>1 DEF ByAltname, Answer
  <2>2. QED
    BY <2>1 DEF Keeps
<1>2. CASE read.answer = ByKey(parsed, recognizer.corpus)
  BY <1>2, KeyKeeps
<1>3. QED
  BY <1>1, <1>2 DEF ByAltnameOrKey, OrElse

LEMMA DecidedKeeps ==
    ASSUME NEW parsed, IsAParse(parsed), NEW recognizer, recognizer.corpus \subseteq Shows
    PROVE  Keeps(Decided(parsed, recognizer))
<1>1. PICK read : read = Decided(parsed, recognizer)
  OBVIOUS
<1>2. read.parsed = parsed /\ read.answer = Decide(parsed, recognizer)
  BY <1>1 DEF Decided
<1>3. CASE read.answer = ByAltnameOrKey(parsed, recognizer)
  BY <1>1, <1>2, <1>3, AskedKeeps
<1>4. CASE read.answer = Refused
  BY <1>1, <1>4 DEF Keeps, Refused, Answer
<1>5. CASE \E candidates : read.answer = ByScore(parsed, candidates)
  BY <1>1, <1>2, <1>5, ScoreKeeps
<1>6. QED
  BY <1>2, <1>3, <1>4, <1>5 DEF Decide, OrElse

\* The reading of a name.
LEMMA ReadKeeps ==
    ASSUME NEW parsed, IsAParse(parsed), NEW recognizer, recognizer.corpus \subseteq Shows
    PROVE  Keeps(Read(parsed, recognizer)) /\ IsAParse(Read(parsed, recognizer).parsed)
<1> DEFINE rs == AskedFirst(parsed, recognizer)
           asked == Asked(rs, parsed.kind, recognizer)
           answered == {i \in DOMAIN asked : ~IsRefused(asked[i].answer)}
<1>1. Read(parsed, recognizer) =
        IF answered = {} THEN Decided(parsed, recognizer) ELSE asked[Min(answered)]
  BY DEF Read, FirstAnswered
<1>2. DOMAIN asked = DOMAIN rs /\ DOMAIN rs \subseteq Nat /\ answered \subseteq DOMAIN rs
  BY AskedAreParses DEF Asked
<1>3. ASSUME NEW i \in DOMAIN rs
      PROVE  Keeps(asked[i]) /\ IsAParse(asked[i].parsed)
  <2>1. IsAParse(rs[i])
    BY AskedAreParses
  <2>2. asked[i] = [parsed |-> [rs[i] EXCEPT !.kind = parsed.kind],
                    answer |-> ByAltnameOrKey(rs[i], recognizer)]
    BY DEF Asked
  <2> DEFINE as == [rs[i] EXCEPT !.kind = parsed.kind]
  <2>3. IsAParse(as) /\ as.season = rs[i].season /\ as.title = rs[i].title
    BY <2>1, FieldsOfAParse, OtherFields
  <2>4. asked[i].parsed = as /\ asked[i].answer = ByAltnameOrKey(rs[i], recognizer)
    BY <2>2
  <2> HIDE DEF as, asked, rs
  <2>5. QED
    BY <2>1, <2>3, <2>4, AskedKeeps
<1>4. CASE answered = {}
  <2>1. Decided(parsed, recognizer).parsed = parsed
    BY DEF Decided
  <2> HIDE DEF answered, asked
  <2>2. QED
    BY <1>1, <1>4, <2>1, DecidedKeeps
<1>5. CASE answered # {}
  <2> HIDE DEF answered, asked, rs
  <2>1. Min(answered) \in DOMAIN rs
    BY <1>2, <1>5, LeastOf
  <2>2. QED
    BY <1>1, <1>3, <1>5, <2>1
<1>6. QED
  BY <1>4, <1>5

\* What a directory is asked as.
LEMMA DirectoryIsOne ==
    ASSUME NEW name, NEW episode, NEW above, NEW i, IsAParse(above[i])
    PROVE  IsAParse(OfDirectory(name, episode, above, i))
<1> DEFINE reading == Reading(above[i], ShowOf(above[i]), episode)
<1>1. IsAParse(reading)
  BY ReadingIsOne
<1>2. \E v, w : OfDirectory(name, episode, above, i) =
                  [[reading EXCEPT !.season = v] EXCEPT !.kind = w]
  BY Zenon DEF OfDirectory
<1> HIDE DEF reading
<1>3. \A v : IsAParse([reading EXCEPT !.season = v])
  BY <1>1, FieldsOfAParse
<1>4. \A v, w : IsAParse([[reading EXCEPT !.season = v] EXCEPT !.kind = w])
  BY <1>3, FieldsOfAParse, Zenon
<1>5. PICK v, w : OfDirectory(name, episode, above, i) =
                    [[reading EXCEPT !.season = v] EXCEPT !.kind = w]
  BY <1>2, Zenon
<1>6. IsAParse([[reading EXCEPT !.season = v] EXCEPT !.kind = w])
  BY <1>4, Zenon
<1>7. QED
  BY <1>5, <1>6, Zenon

\* A walk through the directories ends in what one of them was read as, or in the
\* reading of the name.
LEMMA WalkedKeeps ==
    ASSUME NEW read, Keeps(read), NEW episode, NEW above, DOMAIN above \subseteq Nat,
           \A i \in DOMAIN above : above[i] = Up \/ IsAParse(above[i]),
           NEW recognizer, recognizer.corpus \subseteq Shows
    PROVE  Keeps(ByDirectory(read, episode, above, recognizer))
<1> DEFINE D == {i \in DOMAIN above : ShowOf(above[i]) # None}
           of(i) == OfDirectory(read.parsed, episode, above, i)
           shown == [i \in D |-> Decided(of(i), recognizer)]
           T == {i \in DOMAIN above :
                    \/ above[i] = Up
                    \/ i \in DOMAIN shown /\ (above[i].episode = Absent
                                              \/ ~IsRefused(shown[i].answer))}
<1>1. ByDirectory(read, episode, above, recognizer) =
        (IF T = {} \/ above[Min(T)] = Up THEN read
         ELSE IF SpellsRelease(above[Min(T)]) \/ ~IsRefused(shown[Min(T)].answer)
              THEN shown[Min(T)] ELSE read)
  BY Zenon DEF ByDirectory, Walked
<1>2. ASSUME NEW i \in D PROVE Keeps(shown[i])
  <2>1. IsAParse(above[i])
    BY DEF ShowOf
  <2>2. Keeps(Decided(of(i), recognizer))
    BY <2>1, DirectoryIsOne, DecidedKeeps
  <2> HIDE DEF of, D
  <2>3. QED
    BY <2>2
<1>3. DOMAIN shown = D /\ T \subseteq Nat
  OBVIOUS
<1> HIDE DEF shown, of
<1>4. CASE T = {} \/ above[Min(T)] = Up
  BY <1>1, <1>4
<1>5. CASE T # {} /\ above[Min(T)] # Up
  <2>1. Min(T) \in T
    BY <1>3, <1>5, LeastOf
  <2>2. Min(T) \in D
    BY <1>3, <1>5, <2>1
  <2> HIDE DEF T, D
  <2>3. QED
    BY <1>1, <1>2, <1>5, <2>2
<1>6. QED
  BY <1>4, <1>5

LEMMA ReadFileKeeps ==
    ASSUME NEW file \in Files, NEW recognizer, recognizer.corpus \subseteq Shows
    PROVE  Keeps(ReadFile(file, recognizer))
<1> DEFINE p == Parsed[file]
           above == [i \in DOMAIN file.above |->
                        IF file.above[i] = Up THEN Up ELSE Parse(file.above[i])]
<1>1. p = [name |-> Parse(file.name), above |-> above]
  BY DEF Parsed
<1>2. /\ DOMAIN above \subseteq Nat
      /\ \A i \in DOMAIN above : above[i] = Up \/ IsAParse(above[i])
  BY ParseIsOne, RecognizingAssumption
<1> HIDE DEF above, p
<1>3. p.name = Parse(file.name) /\ p.above = above
  BY <1>1
<1>4. Keeps(Read(p.name, recognizer))
  BY <1>3, ParseIsOne, ReadKeeps
<1>5. Keeps(ByDirectory(Read(p.name, recognizer), EpisodeOf(p.name), p.above, recognizer))
  BY <1>2, <1>3, <1>4, WalkedKeeps
<1>6. QED
  BY <1>4, <1>5 DEF ReadFile, ReadParsed, OrShown, p

\* What the list answers is of a season the file spells, whatever its shows are
\* spelled and the file's directories hold (SeasonKept).
THEOREM SeasonsAreKept == Spec => []SeasonKept
<1>1. Init => listed \subseteq Shows
  BY DEF Init
<1>2. listed \subseteq Shows /\ [Next]_vars => (listed \subseteq Shows)'
  BY RecognizingAssumption DEF Next, vars, File, Forget, Name, Keep
<1>3. listed \subseteq Shows => SeasonKept
  <2>1. Recognizer.corpus = listed
    BY DEF Recognizer
  <2> SUFFICES ASSUME listed \subseteq Shows, NEW file \in Files
               PROVE  Keeps(ReadFile(file, Recognizer))
    BY DEF SeasonKept, Keeps, FiledWith
  <2> HIDE DEF Recognizer
  <2>2. QED
    BY <2>1, ReadFileKeeps
<1>4. QED
  BY <1>1, <1>2, <1>3, PTL DEF Spec
=============================================================================
