------------------------------ MODULE Session -------------------------------
(***************************************************************************)
(* The session of crates/core/src/session.rs: the episodes open in the     *)
(* players, how far the total of each has got, and what a store is to do   *)
(* about a reading or about the end of a round.                            *)
(*                                                                         *)
(* sittings maps every episode to its sitting, or to Over where it has     *)
(* none; the code keeps the sittings in the order they began, which is the *)
(* order of their questions.  effects is what the session answered and its *)
(* caller has not carried out yet.  One sitting record serves the four     *)
(* stages of the code: watched is the total of a Counting sitting and what *)
(* an Opening one has played, near says where an Opening one began, and a  *)
(* field a stage has no use for rests at its least value.                  *)
(***************************************************************************)
EXTENDS Readings

CONSTANT Out        \* the entry of a player that does not have an episode open

VARIABLES sittings, asked, effects

sessionVars == <<sittings, asked, effects>>

\* A player counting into a sitting, or (near included) the reading held of
\* it while the store has not answered.
Counted ==
    [file: Files, playing: BOOLEAN, near: BOOLEAN, length: AnyLength, at: Nat]

ASSUME OutAssumption == Out \notin Counted

Stages == {"over", "asked", "opening", "counting", "registered"}

Sitting ==
    [stage: Stages, question: Nat, players: [Players -> Counted \cup {Out}],
     until: Nat, near: BOOLEAN, watched: Nat]

Nobody == [p \in Players |-> Out]

Over ==
    [stage |-> "over", question |-> 0, players |-> Nobody,
     until |-> 0, near |-> FALSE, watched |-> 0]

Has(s, p) == s.players[p] # Out

IsEmpty(s) == \A p \in Players : ~Has(s, p)

Held(r) ==
    [file |-> r.file, playing |-> r.playing, near |-> r.near,
     length |-> r.length, at |-> r.at]

\* A count that begins at a held reading.  The reading adds nothing itself.
CountedFrom(held) == [held EXCEPT !.near = FALSE]

Enter(s, r) ==
    [s EXCEPT !.players[r.player] =
        IF s.stage = "asked" THEN Held(r) ELSE CountedFrom(Held(r))]

Leave(s, gone) ==
    [s EXCEPT !.players = [p \in Players |-> IF p \in gone THEN Out ELSE @[p]]]

Asking(q, r) ==
    Enter([Over EXCEPT !.stage = "asked", !.question = q], r)

\* Whether an Asked sitting begins near the start: by the reading its first
\* player holds.  A session whose caller brings every answer back before the
\* next reading has one held reading at most.
BeginsNear(s) == \E p \in Players : Has(s, p) /\ s.players[p].near

\* The answer to the question of the sitting sets it counting, every player
\* from the reading it holds.
Answered(s, q, kept) ==
    IF s.stage # "asked" \/ s.question # q THEN s
    ELSE [s EXCEPT
            !.stage   = IF kept.is = "registered" THEN "opening" ELSE "counting",
            !.near    = kept.is = "registered" /\ BeginsNear(s),
            !.watched = kept.watched,
            !.until   = 0,
            !.players = [p \in Players |->
                            IF @[p] = Out THEN Out ELSE CountedFrom(@[p])]]

-----------------------------------------------------------------------------
(***************************************************************************)
(* One more reading r of a player the sitting s has.                       *)
(***************************************************************************)

\* Timeline::advance: the reading before was taken within OBSERVED_LIMIT.
Observed(c, r) == Since(r.at, c.at) <= ObservedLimit

\* A mutant: every player's interval is added, whoever else played meanwhile.
AddedByEach(s, r) ==
    LET c == s.players[r.player] IN
    IF c.playing /\ Observed(c, r) /\ c.file = r.file THEN Since(r.at, c.at) ELSE 0

\* What the reading adds: the part of an interval that began playing which
\* lies after the instant the sitting has counted up to.
Added(s, r) ==
    LET c == s.players[r.player] IN
    IF c.playing /\ Observed(c, r) /\ c.file = r.file
      THEN Since(r.at, Later(c.at, s.until)) ELSE 0

Total(s, r) == s.watched + Added(s, r)

LengthKnown(c, r) ==
    IF r.length = Unreported THEN c.length ELSE r.length

\* A seek is judged between two readings that agree about the state.
NearAfter(s, r) ==
    LET c == s.players[r.player] IN
    IF s.stage = "opening" /\ r.sought /\ Observed(c, r) /\ c.playing = r.playing
      THEN r.near ELSE s.near

\* The sitting once the reading is taken in, before anything is decided.
Followed(s, r) ==
    LET c == s.players[r.player] IN
    [s EXCEPT
        !.players[r.player] =
            [CountedFrom(Held(r)) EXCEPT !.length = LengthKnown(c, r)],
        !.near    = NearAfter(s, r),
        !.until   = IF Added(s, r) > 0 THEN Later(s.until, r.at) ELSE s.until,
        !.watched = Total(s, r)]

\* Whether the reading leaves a total to keep.
Counts(s, r) ==
    /\ Added(s, r) > 0
    /\ \/ s.stage = "counting"
       \/ /\ s.stage = "opening"
          /\ Total(s, r) >= FirstSeconds
          /\ NearAfter(s, r)

\* WatchedPolicy::counts_as_watched, by the last length its file reported.
Reaches(s, r) ==
    Total(s, r) >= Needed[LengthKnown(s.players[r.player], r)]

\* An Opening sitting that has played its first seconds further in.
GoesOn(s, r) ==
    /\ s.stage = "opening"
    /\ Added(s, r) > 0
    /\ Total(s, r) >= FirstSeconds
    /\ ~NearAfter(s, r)

ToStage(s, stage) ==
    IF stage = "registered"
      THEN [s EXCEPT !.stage = stage, !.near = FALSE, !.watched = 0]
      ELSE [s EXCEPT !.stage = stage, !.near = FALSE]

\* A mutant: a viewing that registers goes on counting.
ReadOn(s, r) ==
    IF s.stage = "registered" THEN s
    ELSE IF s.stage = "asked" \/ s.players[r.player].file # r.file THEN Enter(s, r)
    ELSE IF Counts(s, r) THEN ToStage(Followed(s, r), "counting")
    ELSE IF GoesOn(s, r) THEN ToStage(Followed(s, r), "registered")
    ELSE Followed(s, r)

\* Sitting::read, what becomes of the sitting.
Read(s, r) ==
    IF s.stage = "registered" THEN s
    ELSE IF s.stage = "asked" \/ s.players[r.player].file # r.file THEN Enter(s, r)
    ELSE IF Counts(s, r)
      THEN ToStage(Followed(s, r), IF Reaches(s, r) THEN "registered" ELSE "counting")
    ELSE IF GoesOn(s, r) THEN ToStage(Followed(s, r), "registered")
    ELSE Followed(s, r)

\* A mutant: the episode is recorded ahead of its total.
AnswerRecordFirst(s, r) ==
    IF /\ s.stage \in {"opening", "counting"}
       /\ s.players[r.player].file = r.file
       /\ Counts(s, r)
      THEN IF Reaches(s, r)
             THEN <<Record(r.episode), Keep(r.episode, Total(s, r))>>
             ELSE <<Keep(r.episode, Total(s, r))>>
      ELSE <<>>

\* Sitting::read, what it answers: a total is kept ahead of the record it
\* leads to.
Answer(s, r) ==
    IF /\ s.stage \in {"opening", "counting"}
       /\ s.players[r.player].file = r.file
       /\ Counts(s, r)
      THEN IF Reaches(s, r)
             THEN <<Keep(r.episode, Total(s, r)), Record(r.episode)>>
             ELSE <<Keep(r.episode, Total(s, r))>>
      ELSE <<>>

-----------------------------------------------------------------------------
(***************************************************************************)
(* Session::advance, Session::resumed and Session::end_round.              *)
(***************************************************************************)

GoesOnIn(r) == r.episode \in Episodes /\ Has(sittings[r.episode], r.player)

\* The player goes on with the episode it has open.
Continue(r) ==
    /\ GoesOnIn(r)
    /\ sittings' = [sittings EXCEPT ![r.episode] = Read(@, r)]
    /\ effects' = Answer(sittings[r.episode], r)
    /\ UNCHANGED asked

WithoutPlayers(gone) == [e \in Episodes |-> Leave(sittings[e], gone)]

\* The reading names no episode: its player leaves what it had open.
Depart(r) ==
    /\ r.episode = NoEpisode
    /\ sittings' = WithoutPlayers({r.player})
    /\ effects' = <<>>
    /\ UNCHANGED asked

\* The player opens an episode a sitting is of.
Join(r) ==
    /\ r.episode \in Episodes
    /\ ~GoesOnIn(r)
    /\ sittings[r.episode].stage # "over"
    /\ sittings' = [e \in Episodes |->
            IF e = r.episode THEN Enter(sittings[e], r)
            ELSE Leave(sittings[e], {r.player})]
    /\ effects' = <<>>
    /\ UNCHANGED asked

\* The player opens an episode no sitting is of, and the store is asked.
Begin(r) ==
    /\ r.episode \in Episodes
    /\ sittings[r.episode].stage = "over"
    /\ asked' = asked + 1
    /\ sittings' = [e \in Episodes |->
            IF e = r.episode THEN Asking(asked + 1, r)
            ELSE Leave(sittings[e], {r.player})]
    /\ effects' = <<Resume(r.episode, asked + 1)>>

Advance(r) == Continue(r) \/ Depart(r) \/ Join(r) \/ Begin(r)

\* Every sitting is offered the answer, and the one that asked takes it.
Resumed(q, kept) ==
    sittings' = [e \in Episodes |-> Answered(sittings[e], q, kept)]

InOrder(order, S) ==
    /\ order \in [1..Cardinality(S) -> S]
    /\ \A i, j \in 1..Cardinality(S) :
          i < j => sittings[order[i]].question < sittings[order[j]].question

\* The players that are gone leave, and every sitting no player is in is
\* closed, in the order the sittings began.
EndRound(gone) ==
    LET left   == WithoutPlayers(gone)
        closed == {e \in Episodes : left[e].stage # "over" /\ IsEmpty(left[e])}
    IN /\ sittings' = [e \in Episodes |-> IF e \in closed THEN Over ELSE left[e]]
       /\ \E order \in [1..Cardinality(closed) -> closed] :
             /\ InOrder(order, closed)
             /\ effects' = [i \in 1..Cardinality(closed) |-> Close(order[i])]
       /\ UNCHANGED asked

SessionInit ==
    /\ sittings = [e \in Episodes |-> Over]
    /\ asked = 0
    /\ effects = <<>>

\* A session that is dropped takes everything it held with it.
SessionLost ==
    /\ sittings' = [e \in Episodes |-> Over]
    /\ asked' = 0
    /\ effects' = <<>>

SessionTypeOK ==
    /\ sittings \in [Episodes -> Sitting]
    /\ asked \in Nat
    /\ effects \in Seq(Effect)
=============================================================================
