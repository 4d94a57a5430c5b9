-------------------------- MODULE DetectionProofs ---------------------------
(***************************************************************************)
(* Theorems about Detection, for any players, episodes, files and lengths, *)
(* any policy and any evening: lemmas about the operators of Session, each *)
(* of which takes a sitting to a sitting; the types of the task, and who   *)
(* is in which sitting; and that the task implements the Ledger, however   *)
(* its players play and wherever it is stopped: what a session has         *)
(* answered and its task has not carried out leads the store from where it *)
(* is to where the session takes it to be.  The second half is about what  *)
(* the task counts, and what it records for it.                            *)
(***************************************************************************)
EXTENDS Detection, TLAPS, FiniteSetTheorems

-----------------------------------------------------------------------------
(***************************************************************************)
(* What the operators of Session make of a sitting.                        *)
(***************************************************************************)

\* A player that enters a sitting leaves it a sitting.
LEMMA EnterType ==
    ASSUME NEW s \in Sitting, NEW r \in Reading
    PROVE  Enter(s, r) \in Sitting
BY DEF Enter, Sitting, Counted, Held, CountedFrom, Reading, AnyLength

\* No sitting at all has the type of a sitting.
LEMMA OverType == Over \in Sitting
BY DEF Over, Sitting, Nobody, Stages

\* Players that leave a sitting leave it a sitting.
LEMMA LeaveType ==
    ASSUME NEW s \in Sitting, NEW gone
    PROVE  Leave(s, gone) \in Sitting
BY DEF Leave, Sitting

\* A sitting that begins has the type of a sitting.
LEMMA AskingType ==
    ASSUME NEW q \in Nat, NEW r \in Reading
    PROVE  Asking(q, r) \in Sitting
<1>1. [Over EXCEPT !.stage = "asked", !.question = q] \in Sitting
  BY OverType DEF Sitting, Stages
<1>2. QED
  BY <1>1, EnterType DEF Asking

\* An answered sitting has the type of a sitting.
LEMMA AnsweredType ==
    ASSUME NEW s \in Sitting, NEW q, NEW kept \in Kept
    PROVE  Answered(s, q, kept) \in Sitting
<1>1. kept.watched \in Nat
  BY DEF Kept
<1>2. \A p \in Players : s.players[p] \in Counted \cup {Out}
  BY DEF Sitting
<1>3. [p \in Players |-> IF s.players[p] = Out THEN Out ELSE CountedFrom(s.players[p])]
        \in [Players -> Counted \cup {Out}]
  BY <1>2 DEF CountedFrom, Counted
<1>4. (kept.is = "registered" /\ BeginsNear(s)) \in BOOLEAN
  OBVIOUS
<1>5. QED
  BY <1>1, <1>3, <1>4 DEF Answered, Sitting, Stages

\* What a reading adds is a number of ticks.
LEMMA AddedType ==
    ASSUME NEW s \in Sitting, NEW r \in Reading, Has(s, r.player)
    PROVE  /\ Added(s, r) \in Nat
           /\ Total(s, r) \in Nat
           /\ Total(s, r) >= s.watched
           /\ Added(s, r) > 0 => Total(s, r) > 0
<1>1. s.players[r.player] \in Counted /\ s.watched \in Nat /\ s.until \in Nat
  BY DEF Has, Sitting, Reading
<1>2. r.at \in Nat
  BY DEF Reading
<1>3. Added(s, r) \in Nat
  BY <1>1, <1>2 DEF Added, Since, Later, Counted
<1>4. QED
  BY <1>1, <1>3 DEF Total

\* A reading of a player the sitting has leaves it a sitting.
LEMMA FollowedType ==
    ASSUME NEW s \in Sitting, NEW r \in Reading, Has(s, r.player)
    PROVE  Followed(s, r) \in Sitting
<1> DEFINE c == s.players[r.player]
<1>1. c \in Counted /\ s \in Sitting
  BY DEF Has, Sitting, Reading
<1>2. Total(s, r) \in Nat
  BY AddedType
<1>3. [CountedFrom(Held(r)) EXCEPT !.length = LengthKnown(c, r)] \in Counted
  BY <1>1 DEF CountedFrom, Held, LengthKnown, Counted, Reading
<1>4. NearAfter(s, r) \in BOOLEAN
  BY DEF NearAfter, Sitting, Reading
<1>5. (IF Added(s, r) > 0 THEN Later(s.until, r.at) ELSE s.until) \in Nat
  BY DEF Later, Sitting, Reading
<1>6. [s.players EXCEPT ![r.player] =
          [CountedFrom(Held(r)) EXCEPT !.length = LengthKnown(c, r)]]
        \in [Players -> Counted \cup {Out}]
  BY <1>3 DEF Sitting
<1> HIDE DEF c
<1>7. QED
  BY <1>2, <1>4, <1>5, <1>6 DEF Followed, Sitting, c

\* Changing the stage of a sitting leaves a sitting (session.rs, Sitting::read).
LEMMA ToStageType ==
    ASSUME NEW s \in Sitting, NEW stage \in Stages
    PROVE  ToStage(s, stage) \in Sitting
BY DEF ToStage, Sitting

\* A reading of a player the sitting has leaves it a sitting, decided or not.
LEMMA ReadType ==
    ASSUME NEW s \in Sitting, NEW r \in Reading, Has(s, r.player)
    PROVE  Read(s, r) \in Sitting
<1>1. Enter(s, r) \in Sitting /\ Followed(s, r) \in Sitting
  BY EnterType, FollowedType
<1>2. {"registered", "counting"} \subseteq Stages
  BY DEF Stages
<1>3. /\ ToStage(Followed(s, r), "registered") \in Sitting
      /\ ToStage(Followed(s, r), "counting") \in Sitting
  BY <1>1, <1>2, ToStageType
<1>4. QED
  BY <1>1, <1>3 DEF Read

\* What a session answers a reading with are effects: nothing, a total to
\* keep, or a total to keep and an episode to record.
LEMMA AnswerShape ==
    ASSUME NEW s \in Sitting, NEW r \in Reading, Has(s, r.player),
           r.episode \in Episodes
    PROVE  /\ Answer(s, r) \in Seq(Effect)
           /\ \/ Answer(s, r) = <<>>
              \/ Answer(s, r) = <<Keep(r.episode, Total(s, r))>>
              \/ Answer(s, r) = <<Keep(r.episode, Total(s, r)), Record(r.episode)>>
<1>1. Keep(r.episode, Total(s, r)) \in Effect /\ Record(r.episode) \in Effect
  BY AddedType DEF Keep, Record, Effect
<1>2. QED
  BY <1>1 DEF Answer

-----------------------------------------------------------------------------
\* Letting players go leaves sittings (Session::leave).
LEMMA WithoutPlayersType ==
    ASSUME SessionTypeOK, NEW gone
    PROVE  WithoutPlayers(gone) \in [Episodes -> Sitting]
BY LeaveType DEF WithoutPlayers, SessionTypeOK

\* Session::advance keeps the types of the session.
LEMMA AdvanceType ==
    ASSUME SessionTypeOK, NEW r \in Reading, Advance(r)
    PROVE  SessionTypeOK'
<1>1. CASE Continue(r)
  <2>1. r.episode \in Episodes /\ sittings[r.episode] \in Sitting
    BY <1>1 DEF Continue, GoesOnIn, SessionTypeOK
  <2>2. Read(sittings[r.episode], r) \in Sitting
    BY <1>1, <2>1, ReadType DEF Continue, GoesOnIn
  <2>3. Answer(sittings[r.episode], r) \in Seq(Effect)
    BY <1>1, <2>1, AnswerShape DEF Continue, GoesOnIn
  <2>4. QED
    BY <1>1, <2>2, <2>3 DEF Continue, SessionTypeOK
<1>2. CASE Depart(r)
  BY <1>2, WithoutPlayersType DEF Depart, SessionTypeOK
<1>3. CASE Join(r)
  BY <1>3, EnterType, LeaveType DEF Join, SessionTypeOK
<1>4. CASE Begin(r)
  <2>1. asked + 1 \in Nat /\ Asking(asked + 1, r) \in Sitting
    BY AskingType DEF SessionTypeOK
  <2>2. Resume(r.episode, asked + 1) \in Effect
    BY <1>4, <2>1 DEF Resume, Effect, Begin
  <2>3. QED
    BY <1>4, <2>1, <2>2, LeaveType DEF Begin, SessionTypeOK
<1>5. QED
  BY <1>1, <1>2, <1>3, <1>4 DEF Advance

\* Session::resumed leaves every sitting a sitting.
LEMMA ResumedType ==
    ASSUME SessionTypeOK, NEW q, NEW kept \in Kept, Resumed(q, kept)
    PROVE  sittings' \in [Episodes -> Sitting]
BY AnsweredType DEF Resumed, SessionTypeOK

\* Session::end_round keeps the types of the session, and answers with
\* nothing but sittings to close.
LEMMA EndRoundType ==
    ASSUME SessionTypeOK, NEW gone, EndRound(gone)
    PROVE  /\ SessionTypeOK'
           /\ \A i \in 1..Len(effects') : effects'[i].do = "close"
<1> DEFINE left == WithoutPlayers(gone)
           closed == {e \in Episodes : left[e].stage # "over" /\ IsEmpty(left[e])}
<1>1. left \in [Episodes -> Sitting]
  BY WithoutPlayersType
<1>2. IsFiniteSet(closed)
  BY FS_Subset, ReadingsAssumption
<1>3. Cardinality(closed) \in Nat
  BY <1>2, FS_CardinalityType
<1>4. \A e \in closed : Close(e) \in Effect /\ Close(e).do = "close"
  BY DEF Close, Effect
<1>5. /\ sittings' = [e \in Episodes |-> IF e \in closed THEN Over ELSE left[e]]
      /\ asked' = asked
  BY DEF EndRound
<1>6. PICK order \in [1..Cardinality(closed) -> closed] :
          effects' = [i \in 1..Cardinality(closed) |-> Close(order[i])]
  BY DEF EndRound
<1> HIDE DEF closed, left
<1>7. effects' \in [1..Cardinality(closed) -> Effect]
  BY <1>4, <1>6
<1>8. effects' \in Seq(Effect) /\ Len(effects') = Cardinality(closed)
  BY <1>3, <1>7
<1>9. sittings' \in [Episodes -> Sitting]
  BY <1>1, <1>5, OverType
<1>10. QED
  BY <1>3, <1>4, <1>5, <1>6, <1>8, <1>9 DEF SessionTypeOK

-----------------------------------------------------------------------------
(***************************************************************************)
(* Who is in a sitting.                                                    *)
(***************************************************************************)

\* What a session notes of a player is never the mark of its absence.
LEMMA NotedIsIn ==
    ASSUME NEW r \in Reading
    PROVE  Held(r) # Out /\ CountedFrom(Held(r)) # Out
<1>1. Held(r) \in Counted
  BY DEF Held, Counted, Reading
<1>2. CountedFrom(Held(r)) \in Counted
  BY <1>1 DEF CountedFrom, Counted
<1>3. QED
  BY <1>1, <1>2, OutAssumption

\* The player that enters is in, and nobody else comes or goes.
LEMMA EnterHas ==
    ASSUME NEW s \in Sitting, NEW r \in Reading, NEW p \in Players
    PROVE  Has(Enter(s, r), p) <=> p = r.player \/ Has(s, p)
<1> DEFINE noted == IF s.stage = "asked" THEN Held(r) ELSE CountedFrom(Held(r))
<1>1. noted # Out
  BY NotedIsIn
<1>2. Enter(s, r).players = [s.players EXCEPT ![r.player] = noted]
  BY DEF Enter, Sitting
<1> HIDE DEF noted
<1>3. QED
  BY <1>1, <1>2 DEF Has, Sitting, Reading

\* Whoever leaves a sitting is out of it, and nobody else (Sitting::leave).
LEMMA LeaveHas ==
    ASSUME NEW s \in Sitting, NEW gone, NEW p \in Players
    PROVE  Has(Leave(s, gone), p) <=> Has(s, p) /\ p \notin gone
BY DEF Has, Leave, Sitting

\* Nobody is in a sitting that is over.
LEMMA OverHas ==
    ASSUME NEW p \in Players
    PROVE  ~Has(Over, p)
BY DEF Has, Over, Nobody

\* A sitting that begins has the player that opened it (Sitting::asking).
LEMMA AskingHas ==
    ASSUME NEW q \in Nat, NEW r \in Reading, NEW p \in Players
    PROVE  Has(Asking(q, r), p) <=> p = r.player
<1> DEFINE s == [Over EXCEPT !.stage = "asked", !.question = q]
<1>1. s \in Sitting
  BY OverType DEF Sitting, Stages
<1>2. ~Has(s, p)
  BY DEF Has, Over, Nobody
<1>3. QED
  BY <1>1, <1>2, EnterHas DEF Asking

\* An answer lets nobody in or out (Sitting::answered).
LEMMA AnsweredHas ==
    ASSUME NEW s \in Sitting, NEW q, NEW kept, NEW p \in Players
    PROVE  Has(Answered(s, q, kept), p) <=> Has(s, p)
<1>1. s.players[p] # Out => CountedFrom(s.players[p]) # Out
  BY OutAssumption DEF CountedFrom, Counted, Sitting
<1>2. QED
  BY <1>1 DEF Has, Answered, Sitting

\* A reading taken in lets nobody in or out (Sitting::read).
LEMMA FollowedHas ==
    ASSUME NEW s \in Sitting, NEW r \in Reading, Has(s, r.player),
           NEW p \in Players
    PROVE  Has(Followed(s, r), p) <=> Has(s, p)
<1> DEFINE noted == [CountedFrom(Held(r)) EXCEPT
                        !.length = LengthKnown(s.players[r.player], r)]
<1>1. noted # Out
  BY OutAssumption DEF Has, CountedFrom, Held, LengthKnown, Counted, Reading, Sitting
<1>2. Followed(s, r).players = [s.players EXCEPT ![r.player] = noted]
  BY DEF Followed, Sitting
<1> HIDE DEF noted
<1>3. QED
  BY <1>1, <1>2 DEF Has, Sitting, Reading

\* A stage that changes lets nobody in or out.
LEMMA ToStageHas ==
    ASSUME NEW s \in Sitting, NEW stage, NEW p \in Players
    PROVE  Has(ToStage(s, stage), p) <=> Has(s, p)
BY DEF Has, ToStage, Sitting

\* A reading of a player the sitting has moves nobody in or out.
LEMMA ReadHas ==
    ASSUME NEW s \in Sitting, NEW r \in Reading, Has(s, r.player),
           NEW p \in Players
    PROVE  Has(Read(s, r), p) <=> Has(s, p)
<1>1. Has(Enter(s, r), p) <=> Has(s, p)
  BY EnterHas
<1>2. Has(Followed(s, r), p) <=> Has(s, p)
  BY FollowedHas
<1>3. \A stage : Has(ToStage(Followed(s, r), stage), p) <=> Has(s, p)
  BY <1>2, FollowedType, ToStageHas
<1>4. QED
  BY <1>1, <1>2, <1>3 DEF Read

-----------------------------------------------------------------------------
(***************************************************************************)
(* Which stage a sitting is at.                                            *)
(***************************************************************************)

\* A player that joins leaves the stage as it is (Sitting::join).
LEMMA EnterStage ==
    ASSUME NEW s \in Sitting, NEW r \in Reading
    PROVE  Enter(s, r).stage = s.stage
BY DEF Enter, Sitting

\* A sitting begins with its question asked (Sitting::asking).
LEMMA AskingStage ==
    ASSUME NEW q \in Nat, NEW r \in Reading
    PROVE  Asking(q, r).stage = "asked" /\ Asking(q, r).question = q
BY DEF Asking, Enter, Over

\* A player that leaves leaves the stage as it is (Sitting::leave).
LEMMA LeaveStage ==
    ASSUME NEW s \in Sitting, NEW gone
    PROVE  Leave(s, gone).stage = s.stage
BY DEF Leave, Sitting

\* Counting alone changes no stage; the decision after it does.
LEMMA FollowedStage ==
    ASSUME NEW s \in Sitting, NEW r \in Reading
    PROVE  Followed(s, r).stage = s.stage
BY DEF Followed, Sitting

\* No answer ends a sitting.
LEMMA AnsweredStage ==
    ASSUME NEW s \in Sitting, NEW q, NEW kept
    PROVE  (Answered(s, q, kept).stage = "over") <=> (s.stage = "over")
BY DEF Answered, Sitting

\* No reading ends a sitting.
LEMMA StaysOpen ==
    ASSUME NEW s \in Sitting, NEW r \in Reading, Has(s, r.player), s.stage # "over"
    PROVE  Read(s, r).stage # "over"
<1>1. ASSUME NEW stage \in {"registered", "counting"}
      PROVE  ToStage(Followed(s, r), stage).stage = stage
  BY FollowedType DEF ToStage, Sitting
<1>2. QED
  BY <1>1, EnterStage, FollowedStage DEF Read

-----------------------------------------------------------------------------
(***************************************************************************)
(* Who is in which sitting, after each entry point of the session.         *)
(***************************************************************************)

\* Nobody is in a sitting that is not.
NobodyInOver == \A e \in Episodes : sittings[e].stage = "over" => IsEmpty(sittings[e])

\* A player that is in one sitting at most is, after a reading of it, in the
\* sitting the reading names and in no other; and it moves nobody else.
LEMMA AdvancePlaces ==
    ASSUME SessionTypeOK, NobodyInOver, NEW r \in Reading, Advance(r),
           \A d, e \in Episodes :
              Has(sittings[d], r.player) /\ Has(sittings[e], r.player) => d = e,
           NEW e \in Episodes, NEW p \in Players
    PROVE  Has(sittings'[e], p) <=>
              IF p = r.player THEN e = r.episode ELSE Has(sittings[e], p)
<1>1. sittings \in [Episodes -> Sitting] /\ sittings[e] \in Sitting
  BY DEF SessionTypeOK
<1>2. Has(Leave(sittings[e], {r.player}), p) <=> Has(sittings[e], p) /\ p # r.player
  BY <1>1, LeaveHas
<1>3. CASE Continue(r)
  <2>1. /\ r.episode \in Episodes /\ Has(sittings[r.episode], r.player)
        /\ sittings' = [sittings EXCEPT ![r.episode] = Read(sittings[r.episode], r)]
    BY <1>3 DEF Continue, GoesOnIn
  <2>2. CASE e = r.episode
    <3>1. Has(Read(sittings[e], r), p) <=> Has(sittings[e], p)
      BY <1>1, <2>1, <2>2, ReadHas
    <3>2. QED
      BY <1>1, <2>1, <2>2, <3>1
  <2>3. CASE e # r.episode
    BY <1>1, <2>1, <2>3
  <2>4. QED
    BY <2>2, <2>3
<1>4. CASE Depart(r)
  <2>1. sittings'[e] = Leave(sittings[e], {r.player}) /\ r.episode # e
    BY <1>4, ReadingsAssumption DEF Depart, WithoutPlayers
  <2>2. QED
    BY <1>2, <2>1
<1>5. CASE Join(r)
  <2>1. sittings'[e] = IF e = r.episode THEN Enter(sittings[e], r)
                       ELSE Leave(sittings[e], {r.player})
    BY <1>5 DEF Join
  <2>2. Has(Enter(sittings[e], r), p) <=> p = r.player \/ Has(sittings[e], p)
    BY <1>1, EnterHas
  <2>3. QED
    BY <1>2, <2>1, <2>2
<1>6. CASE Begin(r)
  <2>1. sittings'[e] = IF e = r.episode THEN Asking(asked + 1, r)
                       ELSE Leave(sittings[e], {r.player})
    BY <1>6 DEF Begin
  <2>2. Has(Asking(asked + 1, r), p) <=> p = r.player
    BY AskingHas DEF SessionTypeOK
  <2>3. e = r.episode => ~Has(sittings[e], p)
    BY <1>6 DEF Begin, NobodyInOver, IsEmpty
  <2>4. QED
    BY <1>2, <2>1, <2>2, <2>3
<1>7. QED
  BY <1>3, <1>4, <1>5, <1>6 DEF Advance

\* A reading leaves nobody in a sitting that is not.
LEMMA AdvanceNobodyInOver ==
    ASSUME SessionTypeOK, NobodyInOver, NEW r \in Reading, Advance(r)
    PROVE  NobodyInOver'
<1> SUFFICES ASSUME NEW e \in Episodes, sittings'[e].stage = "over", NEW p \in Players
             PROVE  ~Has(sittings'[e], p)
  BY DEF NobodyInOver, IsEmpty
<1>1. sittings \in [Episodes -> Sitting] /\ sittings[e] \in Sitting
  BY DEF SessionTypeOK
<1>2. sittings[e].stage = "over" => ~Has(sittings[e], p)
  BY DEF NobodyInOver, IsEmpty
<1>3. /\ Has(Leave(sittings[e], {r.player}), p) => Has(sittings[e], p)
      /\ Leave(sittings[e], {r.player}).stage = sittings[e].stage
  BY <1>1, LeaveHas, LeaveStage
<1>4. CASE Continue(r)
  <2>1. /\ r.episode \in Episodes /\ Has(sittings[r.episode], r.player)
        /\ sittings' = [sittings EXCEPT ![r.episode] = Read(sittings[r.episode], r)]
        /\ r.player \in Players
    BY <1>4 DEF Continue, GoesOnIn, Reading
  <2>2. sittings[r.episode].stage # "over"
    BY <2>1 DEF NobodyInOver, IsEmpty
  <2>3. e # r.episode
    BY <1>1, <2>1, <2>2, StaysOpen
  <2>4. QED
    BY <1>1, <1>2, <2>1, <2>3
<1>5. CASE Depart(r)
  BY <1>2, <1>3, <1>5 DEF Depart, WithoutPlayers
<1>6. CASE Join(r)
  <2>1. Enter(sittings[e], r).stage = sittings[e].stage
    BY <1>1, EnterStage
  <2>2. QED
    BY <1>2, <1>3, <1>6, <2>1 DEF Join
<1>7. CASE Begin(r)
  <2>1. Asking(asked + 1, r).stage = "asked"
    BY AskingStage DEF SessionTypeOK
  <2>2. QED
    BY <1>2, <1>3, <1>7, <2>1 DEF Begin
<1>8. QED
  BY <1>4, <1>5, <1>6, <1>7 DEF Advance

\* The end of a round takes out the players that are gone, and nobody else.
LEMMA EndRoundPlaces ==
    ASSUME SessionTypeOK, NobodyInOver, NEW gone, EndRound(gone)
    PROVE  /\ NobodyInOver'
           /\ \A e \in Episodes, p \in Players :
                 Has(sittings'[e], p) <=> Has(sittings[e], p) /\ p \notin gone
<1>1. ASSUME NEW e \in Episodes
      PROVE  /\ sittings'[e] = IF Leave(sittings[e], gone).stage # "over"
                                    /\ IsEmpty(Leave(sittings[e], gone))
                               THEN Over ELSE Leave(sittings[e], gone)
             /\ Leave(sittings[e], gone).stage = sittings[e].stage
             /\ \A p \in Players :
                   Has(Leave(sittings[e], gone), p) <=> Has(sittings[e], p) /\ p \notin gone
  BY LeaveHas, LeaveStage DEF EndRound, WithoutPlayers, SessionTypeOK
<1>2. QED
  BY <1>1, OverHas DEF NobodyInOver, IsEmpty

-----------------------------------------------------------------------------
(***************************************************************************)
(* What a reading does to the total of a sitting, and what is answered.    *)
(***************************************************************************)

\* A player that joins adds nothing to the total (Sitting::join).
LEMMA EnterKeeps ==
    ASSUME NEW s \in Sitting, NEW r \in Reading
    PROVE  Enter(s, r).watched = s.watched
BY DEF Enter, Sitting

\* A player that leaves takes nothing from the total (Sitting::leave).
LEMMA LeaveKeeps ==
    ASSUME NEW s \in Sitting, NEW gone
    PROVE  Leave(s, gone).watched = s.watched /\ Leave(s, gone).question = s.question
BY DEF Leave, Sitting

\* A total is not kept without a reading that adds to it, and is kept as it
\* stands: the sitting goes on counting from what the store is told.
LEMMA ReadKeeps ==
    ASSUME NEW s \in Sitting, NEW r \in Reading, Has(s, r.player),
           s.stage \in {"opening", "counting", "registered"},
           NEW w, w = Total(s, r)
    PROVE  \/ /\ Answer(s, r) = <<>>
              /\ Read(s, r).stage = s.stage
              /\ s.stage = "counting" => Read(s, r).watched = s.watched
           \/ /\ Answer(s, r) = <<>>
              /\ s.stage = "opening" /\ Read(s, r).stage = "registered"
           \/ /\ s.stage \in {"opening", "counting"}
              /\ w \in Nat /\ w > 0 /\ w > s.watched
              /\ s.stage = "opening" => w >= FirstSeconds
              /\ \/ /\ Answer(s, r) = <<Keep(r.episode, w)>>
                    /\ Read(s, r).stage = "counting" /\ Read(s, r).watched = w
                 \/ /\ Answer(s, r) = <<Keep(r.episode, w), Record(r.episode)>>
                    /\ Read(s, r).stage = "registered"
                    /\ \E l \in AnyLength : w >= Needed[l]
<1>1. /\ w \in Nat /\ s.watched \in Nat /\ Added(s, r) \in Nat
      /\ w = s.watched + Added(s, r)
  BY AddedType DEF Sitting, Total
<1>2. /\ Followed(s, r) \in Sitting
      /\ Followed(s, r).stage = s.stage /\ Followed(s, r).watched = w
  BY FollowedType, FollowedStage DEF Followed, Sitting
<1>3. ASSUME NEW stage \in {"registered", "counting"}
      PROVE  /\ ToStage(Followed(s, r), stage).stage = stage
             /\ stage = "counting" => ToStage(Followed(s, r), stage).watched = w
  BY <1>2 DEF ToStage, Sitting
<1>4. CASE s.stage = "registered"
  BY <1>4 DEF Read, Answer
<1>5. CASE s.stage # "registered" /\ s.players[r.player].file # r.file
  BY <1>5, EnterStage, EnterKeeps DEF Read, Answer
<1>6. CASE s.stage # "registered" /\ s.players[r.player].file = r.file
  <2>1. s.stage \in {"opening", "counting"}
    BY <1>6
  <2>2. CASE Counts(s, r)
    <3>1. w > s.watched /\ w > 0 /\ (s.stage = "opening" => w >= FirstSeconds)
      BY <1>1, <2>2 DEF Counts
    <3>2. CASE Reaches(s, r)
      <4>1. LengthKnown(s.players[r.player], r) \in AnyLength
        BY DEF LengthKnown, Has, Sitting, Counted, Reading, AnyLength
      <4>2. w >= Needed[LengthKnown(s.players[r.player], r)]
        BY <3>2 DEF Reaches
      <4>3. Answer(s, r) = <<Keep(r.episode, w), Record(r.episode)>>
        BY <1>6, <2>1, <2>2, <3>2 DEF Answer
      <4>4. Read(s, r) = ToStage(Followed(s, r), "registered")
        BY <1>6, <2>1, <2>2, <3>2 DEF Read
      <4>5. QED
        BY <1>1, <1>3, <2>1, <3>1, <4>1, <4>2, <4>3, <4>4
    <3>3. CASE ~Reaches(s, r)
      <4>1. Answer(s, r) = <<Keep(r.episode, w)>>
        BY <1>6, <2>1, <2>2, <3>3 DEF Answer
      <4>2. Read(s, r) = ToStage(Followed(s, r), "counting")
        BY <1>6, <2>1, <2>2, <3>3 DEF Read
      <4>3. QED
        BY <1>1, <1>3, <2>1, <3>1, <4>1, <4>2
    <3>4. QED
      BY <3>2, <3>3
  <2>3. CASE ~Counts(s, r)
    <3>1. Answer(s, r) = <<>>
      BY <2>3 DEF Answer
    <3>2. CASE GoesOn(s, r)
      <4>1. Read(s, r) = ToStage(Followed(s, r), "registered") /\ s.stage = "opening"
        BY <1>6, <2>1, <2>3, <3>2 DEF Read, GoesOn
      <4>2. QED
        BY <1>3, <3>1, <4>1
    <3>3. CASE ~GoesOn(s, r)
      <4>1. Read(s, r) = Followed(s, r)
        BY <1>6, <2>1, <2>3, <3>3 DEF Read
      <4>2. s.stage = "counting" => w = s.watched
        BY <1>1, <2>3 DEF Counts
      <4>3. QED
        BY <1>2, <3>1, <4>1, <4>2
    <3>4. QED
      BY <3>2, <3>3
  <2>4. QED
    BY <2>2, <2>3
<1>7. QED
  BY <1>4, <1>5, <1>6

\* An answer sets a sitting that asked counting from what was kept, or opens
\* it where the last viewing was registered; any other it leaves alone.
LEMMA AnsweredKeeps ==
    ASSUME NEW s \in Sitting, NEW q, NEW kept
    PROVE  IF s.stage = "asked" /\ s.question = q
             THEN /\ Answered(s, q, kept).stage =
                        IF kept.is = "registered" THEN "opening" ELSE "counting"
                  /\ Answered(s, q, kept).watched = kept.watched
             ELSE Answered(s, q, kept) = s
BY DEF Answered, Sitting

-----------------------------------------------------------------------------
(***************************************************************************)
(* What the store's whole milliseconds do to a total.                      *)
(***************************************************************************)

\* Multiples of a grain are ordered as what they are multiples of.
LEMMA MultiplesOrder ==
    ASSUME NEW a \in Nat, NEW b \in Nat, NEW g \in Nat \ {0}, a * g < b * g + g
    PROVE  a <= b
OBVIOUS

\* More milliseconds are no fewer ticks.
LEMMA MultiplesGrow ==
    ASSUME NEW a \in Nat, NEW b \in Nat, NEW g \in Nat, a <= b
    PROVE  a * g <= b * g
OBVIOUS

\* A total loses less than one grain.
LEMMA WholeLoses ==
    ASSUME NEW w \in Nat
    PROVE  /\ Whole(w) \in Nat /\ Whole(w) * Grain \in Nat
           /\ Whole(w) * Grain <= w /\ w < Whole(w) * Grain + Grain
BY ReadingsAssumption DEF Whole

\* A total that came back from the store is kept as it was.
LEMMA WholeOfWhole ==
    ASSUME NEW t \in Nat
    PROVE  Whole(t * Grain) = t
<1>1. /\ Grain \in Nat \ {0} /\ t * Grain \in Nat
  BY ReadingsAssumption
<1> DEFINE q == Whole(t * Grain)
<1>2. q \in Nat /\ q * Grain <= t * Grain /\ t * Grain < q * Grain + Grain
  BY <1>1, WholeLoses
<1> HIDE DEF q
<1>3. t <= q
  BY <1>1, <1>2, MultiplesOrder
<1>4. q * Grain < t * Grain + Grain
  BY <1>1, <1>2
<1>5. q <= t
  BY <1>1, <1>2, <1>4, MultiplesOrder
<1>6. q = t
  BY <1>2, <1>3, <1>5
<1>7. QED
  BY <1>6 DEF q

\* More watched is no less kept.
LEMMA WholeGrows ==
    ASSUME NEW v \in Nat, NEW w \in Nat, v <= w
    PROVE  Whole(v) * Grain <= Whole(w) * Grain
<1>1. Grain \in Nat \ {0}
  BY ReadingsAssumption
<1>2. /\ Whole(v) \in Nat /\ Whole(v) * Grain \in Nat /\ Whole(v) * Grain <= v
      /\ Whole(w) \in Nat /\ Whole(w) * Grain \in Nat /\ w < Whole(w) * Grain + Grain
  BY WholeLoses
<1>3. Whole(v) * Grain < Whole(w) * Grain + Grain
  BY <1>1, <1>2
<1>4. Whole(v) <= Whole(w)
  BY <1>1, <1>2, <1>3, MultiplesOrder
<1>5. QED
  BY <1>1, <1>2, <1>4, MultiplesGrow

\* The first seconds are a whole number of grains, and none of them is lost.
LEMMA WholeFirstSeconds ==
    ASSUME NEW w \in Nat, w >= FirstSeconds
    PROVE  Whole(w) * Grain >= FirstSeconds
<1>1. PICK k \in 1..FirstSeconds : FirstSeconds = k * Grain
  BY ReadingsAssumption
<1>2. k \in Nat /\ k * Grain \in Nat /\ FirstSeconds \in Nat
  BY <1>1, ReadingsAssumption
<1>3. Whole(k * Grain) * Grain <= Whole(w) * Grain
  BY <1>1, <1>2, WholeGrows
<1>4. QED
  BY <1>1, <1>2, <1>3, WholeOfWhole

-----------------------------------------------------------------------------
(***************************************************************************)
(* The types of the variables.                                             *)
(***************************************************************************)

\* What the store answers of an episode.
LEMMA KeptOfType ==
    ASSUME StoreTypeOK, NEW e \in Episodes
    PROVE  KeptOf(e) \in Kept
<1>1. total[e] * Grain \in Nat
  BY ReadingsAssumption DEF StoreTypeOK
<1>2. QED
  BY <1>1 DEF KeptOf, Kept, Nothing, Watching, Registered

\* The reading an admitted player is taken at.
LEMMA ReadingsOfType ==
    ASSUME NEW p \in Players, clock \in Nat
    PROVE  ReadingsOf(p) \subseteq Reading
BY TimeAssumption DEF ReadingsOf, Reading, Since

\* The next effect is one, and what is left is a list of them.
LEMMA EffectAtHead ==
    ASSUME effects \in Seq(Effect), effects # <<>>
    PROVE  Head(effects) \in Effect /\ Tail(effects) \in Seq(Effect)
OBVIOUS

\* Failing keeps the types of everything.
LEMMA LostType ==
    ASSUME TypeOK, Lost, task' \in {"up", "down", "stopped"}
    PROVE  TypeOK'
<1>1. SessionTypeOK'
  BY OverType DEF Lost, SessionLost, SessionTypeOK
<1>2. StoreTypeOK'
  BY DEF Lost, TypeOK, StoreTypeOK, storeVars
<1>3. QED
  BY <1>1, <1>2 DEF Lost, TypeOK

\* The task starts with every variable of its type.
LEMMA InitType == Init => TypeOK
<1>1. Init => SessionTypeOK
  BY OverType DEF Init, SessionInit, SessionTypeOK
<1>2. Init => StoreTypeOK
  BY DEF Init, StoreInit, StoreTypeOK
<1>3. Init => /\ last \in [Players -> Seen \cup {Out}]
              /\ vouched \in [Episodes -> SUBSET Nat]
  BY DEF Init
<1>4. Init => inRound \in BOOLEAN
  BY DEF Init
<1>5. Init => /\ task \in {"up", "down", "stopped"}
              /\ todo \subseteq Players /\ quiet \subseteq Players
              /\ heard \subseteq Players
              /\ clock \in Nat
  BY DEF Init
<1>6. QED
  BY <1>1, <1>2, <1>3, <1>4, <1>5 DEF TypeOK

\* Every step leaves every variable of its type.
LEMMA NextType == TypeOK /\ [Next]_vars => TypeOK'
<1> SUFFICES ASSUME TypeOK, [Next]_vars PROVE TypeOK'
  OBVIOUS
<1>1. CASE Poll
  <2>1. clock' \in Nat
    BY <1>1, TimeAssumption DEF Poll, TypeOK
  <2>2. /\ todo' \subseteq Players /\ quiet' \subseteq Players
        /\ last' \in [Players -> Seen \cup {Out}]
    <3>1. PICK admitted \in SUBSET Players, mute \in SUBSET Players :
            /\ todo' = admitted
            /\ quiet' = Unheard(admitted, mute)
            /\ last' = [p \in Players |->
                         IF p \in admitted \cup mute THEN last[p] ELSE Out]
      BY <1>1 DEF Poll
    <3>2. quiet' \subseteq Players
      BY <3>1 DEF Unheard, TypeOK
    <3>3. last' \in [Players -> Seen \cup {Out}]
      BY <3>1 DEF TypeOK
    <3>4. QED
      BY <3>1, <3>2, <3>3
  <2>3. SessionTypeOK' /\ StoreTypeOK'
    BY <1>1 DEF Poll, TypeOK, SessionTypeOK, StoreTypeOK, sessionVars, storeVars
  <2>4. QED
    BY <1>1, <2>1, <2>2, <2>3 DEF Poll, TypeOK
<1>2. ASSUME NEW p \in Players, Take(p) PROVE TypeOK'
  <2>1. PICK r \in ReadingsOf(p) :
          /\ Advance(r)
          /\ last' = [last EXCEPT ![p] =
                IF r.episode = NoEpisode THEN Out
                ELSE [episode |-> r.episode, file |-> r.file,
                      playing |-> r.playing, at |-> r.at]]
          /\ vouched' = [e \in Episodes |->
                IF e = r.episode THEN vouched[e] \cup Vouches(r) ELSE vouched[e]]
    BY <1>2 DEF Take
  <2>2. r \in Reading
    BY ReadingsOfType DEF TypeOK
  <2>3. SessionTypeOK'
    BY <2>1, <2>2, AdvanceType DEF TypeOK
  <2>4. StoreTypeOK'
    BY <1>2 DEF Take, TypeOK, StoreTypeOK, storeVars
  <2>5. last' \in [Players -> Seen \cup {Out}]
    BY <2>1, <2>2 DEF TypeOK, Seen, Reading
  <2>6. vouched' \in [Episodes -> SUBSET Nat]
    <3>1. last[r.player] # Out => last[r.player].at \in Nat
      BY <2>2 DEF TypeOK, Seen, Reading
    <3>2. r.at \in Nat
      BY <2>2 DEF Reading
    <3>3. Vouches(r) \subseteq Nat
      BY <3>1, <3>2 DEF Vouches
    <3>4. QED
      BY <2>1, <3>3 DEF TypeOK
  <2>7. QED
    BY <1>2, <2>3, <2>4, <2>5, <2>6 DEF Take, TypeOK
<1>3. CASE CarryOut
  <2> USE <1>3
  <2>1. effects \in Seq(Effect) /\ effects # <<>>
    BY DEF CarryOut, CarryOutResume, CarryOutKeep, CarryOutRecord, CarryOutClose,
           TypeOK, SessionTypeOK
  <2>2. Head(effects) \in Effect /\ Tail(effects) \in Seq(Effect)
    BY <2>1, EffectAtHead
  <2>3. Head(effects).episode \in Episodes /\ Head(effects).watched \in Nat
    BY <2>2 DEF Effect
  <2>4. CASE CarryOutResume
    <3>1. sittings' \in [Episodes -> Sitting]
      BY <2>3, <2>4, KeptOfType, ResumedType DEF CarryOutResume, TypeOK
    <3>2. SessionTypeOK'
      BY <2>2, <2>4, <3>1 DEF CarryOutResume, TypeOK, SessionTypeOK
    <3>3. StoreTypeOK'
      BY <2>4 DEF CarryOutResume, TypeOK, StoreTypeOK, storeVars
    <3>4. QED
      BY <2>4, <3>2, <3>3 DEF CarryOutResume, TypeOK, roundVars, historyVars
  <2>5. CASE CarryOutKeep
    <3>1. Whole(Head(effects).watched) \in Nat
      BY <2>3, WholeLoses
    <3>2. StoreTypeOK'
      BY <2>3, <2>5, <3>1 DEF CarryOutKeep, TypeOK, StoreTypeOK, StoreKeep
    <3>3. QED
      BY <2>2, <2>5, <3>2 DEF CarryOutKeep, TypeOK, SessionTypeOK, roundVars, historyVars
  <2>6. CASE CarryOutRecord
    BY <2>2, <2>3, <2>6 DEF CarryOutRecord, TypeOK, SessionTypeOK, StoreTypeOK,
           StoreRecord, roundVars
  <2>7. CASE CarryOutClose
    BY <2>2, <2>3, <2>7 DEF CarryOutClose, TypeOK, SessionTypeOK, StoreTypeOK,
           StoreClose, roundVars, historyVars
  <2>8. QED
    BY <2>4, <2>5, <2>6, <2>7 DEF CarryOut
<1>4. CASE FinishRound
  <2>1. SessionTypeOK'
    BY <1>4, EndRoundType DEF FinishRound, TypeOK
  <2>2. QED
    BY <1>4, <2>1 DEF FinishRound, TypeOK, StoreTypeOK, storeVars, historyVars
<1>5. CASE Fails
  BY <1>5, LostType DEF Fails, TaskFails, StoreRefuses, DaemonDies
<1>6. CASE Restart
  BY <1>6 DEF Restart, TypeOK, SessionTypeOK, StoreTypeOK,
              sessionVars, storeVars, roundVars, historyVars
<1>7. CASE UNCHANGED vars
  BY <1>7 DEF vars, TypeOK, SessionTypeOK, StoreTypeOK,
              sessionVars, storeVars, roundVars, historyVars
<1>8. QED
  BY <1>1, <1>2, <1>3, <1>4, <1>5, <1>6, <1>7 DEF Next, Works

\* Every variable keeps its type (TypeOK).
THEOREM TypeCorrect == Spec => []TypeOK
BY InitType, NextType, PTL DEF Spec

-----------------------------------------------------------------------------
(***************************************************************************)
(* Who is in which sitting.  SittingsFollowReadings and OnePlace are kept  *)
(* together, with what a round knows of the players it has yet to let go.  *)
(***************************************************************************)

QuietAreGone ==
    /\ ~inRound => quiet = {} /\ todo = {}
    /\ \A p \in quiet : p \notin todo /\ last[p] = Out

Places ==
    /\ TypeOK
    /\ NobodyInOver
    /\ OnePlace
    /\ SittingsFollowReadings
    /\ QuietAreGone

\* Losing everything puts nobody in two places.
LEMMA LostPlaces ==
    ASSUME Places, Lost, task' \in {"up", "down", "stopped"}
    PROVE  Places'
<1>1. TypeOK'
  BY LostType DEF Places
<1>2. \A e \in Episodes, p \in Players : ~Has(sittings'[e], p)
  BY OverHas DEF Lost, SessionLost
<1>3. \A p \in Players, e \in Episodes : ~Names(p, e)'
  BY DEF Lost, Names
<1>4. QED
  BY <1>1, <1>2, <1>3 DEF Lost, Places, NobodyInOver, IsEmpty, OnePlace,
                          SittingsFollowReadings, QuietAreGone

\* Places is an invariant.
THEOREM PlacesHold == Spec => []Places
<1>1. Init => Places
  <2> SUFFICES ASSUME Init PROVE Places
    OBVIOUS
  <2>1. TypeOK
    BY InitType
  <2>2. \A e \in Episodes, p \in Players : ~Has(sittings[e], p)
    BY OverHas DEF Init, SessionInit
  <2>3. \A p \in Players, e \in Episodes : ~Names(p, e)
    BY DEF Init, Names
  <2>4. QED
    BY <2>1, <2>2, <2>3 DEF Init, Places, NobodyInOver, IsEmpty, OnePlace,
                            SittingsFollowReadings, QuietAreGone
<1>2. Places /\ [Next]_vars => Places'
  <2> SUFFICES ASSUME Places, [Next]_vars PROVE Places'
    OBVIOUS
  <2>1. TypeOK /\ TypeOK'
    BY NextType DEF Places
  <2>2. CASE Poll
    <3>1. sittings' = sittings /\ heard' = heard
      BY <2>2 DEF Poll, sessionVars
    <3>2. PICK admitted \in SUBSET Players, mute \in SUBSET Players :
            /\ todo' = admitted
            /\ quiet' = Unheard(admitted, mute)
            /\ last' = [p \in Players |->
                         IF p \in admitted \cup mute THEN last[p] ELSE Out]
      BY <2>2 DEF Poll
    <3>3. inRound' /\ quiet = {}
      BY <2>2 DEF Poll, Places, QuietAreGone
    <3>4. NobodyInOver' /\ OnePlace'
      BY <3>1 DEF Places, NobodyInOver, OnePlace
    <3>5. SittingsFollowReadings'
      BY <3>1, <3>2, <3>3 DEF Places, SittingsFollowReadings, OnePlace, Names, Unheard
    <3>6. QuietAreGone'
      BY <2>1, <3>2, <3>3 DEF QuietAreGone, Unheard, TypeOK
    <3>7. QED
      BY <2>1, <3>4, <3>5, <3>6 DEF Places
  <2>3. ASSUME NEW p \in Players, Take(p) PROVE Places'
    <3>1. PICK r \in ReadingsOf(p) :
            /\ Advance(r)
            /\ last' = [last EXCEPT ![p] =
                  IF r.episode = NoEpisode THEN Out
                  ELSE [episode |-> r.episode, file |-> r.file,
                        playing |-> r.playing, at |-> r.at]]
      BY <2>3 DEF Take
    <3>2. r \in Reading /\ r.player = p
      BY <2>1, ReadingsOfType DEF TypeOK, ReadingsOf
    <3>3. SessionTypeOK /\ NobodyInOver
      BY DEF Places, TypeOK
    <3>4. NobodyInOver'
      BY <3>1, <3>2, <3>3, AdvanceNobodyInOver
    <3>5. \A e \in Episodes, x \in Players :
            Has(sittings'[e], x) <=>
              IF x = p THEN e = r.episode ELSE Has(sittings[e], x)
      BY <3>1, <3>2, <3>3, AdvancePlaces DEF Places, OnePlace
    <3>6. heard' = heard \cup {p} /\ quiet' = quiet /\ todo' = todo \ {p}
          /\ inRound' = inRound /\ inRound /\ p \in todo
      BY <2>3 DEF Take
    <3>7. OnePlace'
      BY <3>5, <3>6 DEF Places, OnePlace
    <3>8. \A e \in Episodes, x \in Players :
            Names(x, e)' <=> IF x = p THEN e = r.episode ELSE Names(x, e)
      <4>1. last \in [Players -> Seen \cup {Out}]
        BY <2>1 DEF TypeOK
      <4>2. r.episode # NoEpisode =>
              [episode |-> r.episode, file |-> r.file,
               playing |-> r.playing, at |-> r.at] # Out
        BY <3>2, OutIsNoReading DEF Seen, Reading
      <4>3. \A e \in Episodes : e # NoEpisode
        BY ReadingsAssumption
      <4>4. QED
        BY <3>1, <4>1, <4>2, <4>3 DEF Names
    <3>9. SittingsFollowReadings'
      BY <3>5, <3>6, <3>8 DEF Places, SittingsFollowReadings
    <3>10. QuietAreGone'
      BY <2>1, <3>1, <3>6 DEF Places, QuietAreGone, TypeOK
    <3>11. QED
      BY <2>1, <3>4, <3>7, <3>9, <3>10 DEF Places
  <2>4. CASE CarryOut
    <3>1. /\ heard' = heard /\ quiet' = quiet /\ todo' = todo /\ inRound' = inRound
          /\ last' = last
      BY <2>4 DEF CarryOut, CarryOutResume, CarryOutKeep, CarryOutRecord,
                  CarryOutClose, roundVars, historyVars
    <3>2. \A e \in Episodes :
            /\ (sittings'[e].stage = "over") <=> (sittings[e].stage = "over")
            /\ \A p \in Players : Has(sittings'[e], p) <=> Has(sittings[e], p)
      <4>1. CASE CarryOutResume
        BY <4>1, AnsweredHas, AnsweredStage
           DEF CarryOutResume, Resumed, Places, TypeOK, SessionTypeOK
      <4>2. CASE ~CarryOutResume
        BY <2>4, <4>2 DEF CarryOut, CarryOutKeep, CarryOutRecord, CarryOutClose
      <4>3. QED
        BY <4>1, <4>2
    <3>3. NobodyInOver' /\ OnePlace'
      BY <3>1, <3>2 DEF Places, NobodyInOver, IsEmpty, OnePlace
    <3>4. SittingsFollowReadings'
      BY <3>1, <3>2 DEF Places, SittingsFollowReadings, Names
    <3>5. QED
      BY <2>1, <3>1, <3>3, <3>4 DEF Places, QuietAreGone
  <2>5. CASE FinishRound
    <3>1. /\ EndRound(quiet) /\ heard' = heard \ quiet /\ quiet' = {}
          /\ todo' = {} /\ inRound' = FALSE /\ last' = last
      BY <2>5 DEF FinishRound, historyVars
    <3>2. /\ NobodyInOver'
          /\ \A e \in Episodes, p \in Players :
                Has(sittings'[e], p) <=> Has(sittings[e], p) /\ p \notin quiet
      BY <3>1, EndRoundPlaces DEF Places, TypeOK
    <3>3. \A e \in Episodes : \A p \in quiet : ~Names(p, e)
      BY DEF Places, QuietAreGone, Names
    <3>4. QED
      BY <2>1, <3>1, <3>2, <3>3
         DEF Places, OnePlace, SittingsFollowReadings, QuietAreGone, Names
  <2>6. CASE Fails
    BY <2>6, LostPlaces DEF Fails, TaskFails, StoreRefuses, DaemonDies
  <2>7. CASE Restart \/ UNCHANGED vars
    BY <2>1, <2>7 DEF Restart, vars, Places, NobodyInOver, OnePlace, SittingsFollowReadings,
                Names, QuietAreGone, sessionVars, storeVars, roundVars, historyVars
  <2>8. QED
    BY <2>2, <2>3, <2>4, <2>5, <2>6, <2>7 DEF Next, Works
<1>3. QED
  BY <1>1, <1>2, PTL DEF Spec

\* A player is in one sitting at most, and in none the task could not let it
\* go of (OnePlace).
THEOREM InOnePlace == Spec => []OnePlace
<1>1. Places => OnePlace
  BY DEF Places
<1>2. QED
  BY <1>1, PlacesHold, PTL

\* A player is in the sitting its last reading names until a round hears
\* nothing of it (SittingsFollowReadings).
THEOREM FollowingReadings == Spec => []SittingsFollowReadings
<1>1. Places => SittingsFollowReadings
  BY DEF Places
<1>2. QED
  BY <1>1, PlacesHold, PTL

-----------------------------------------------------------------------------
(***************************************************************************)
(* What a list of effects makes of an episode.  The list is a parameter,   *)
(* so that the facts hold of the effects of a state and of the next one.   *)
(***************************************************************************)

Of(es, do, e) == {i \in 1..Len(es) : es[i].do = do /\ es[i].episode = e}

Will(es, k, e) ==
    IF Of(es, "record", e) # {} THEN Registered
    ELSE IF Of(es, "keep", e) # {}
      THEN LET i == CHOOSE i \in Of(es, "keep", e) : TRUE
           IN  Watching(Whole(es[i].watched) * Grain)
    ELSE k

\* Effects that keep and record nothing leave what the store has.
LEMMA WillIdle ==
    ASSUME NEW es, NEW k, NEW e, Of(es, "keep", e) \cup Of(es, "record", e) = {}
    PROVE  Will(es, k, e) = k
BY DEF Will

\* Where nothing is pending nothing will be kept or recorded.
LEMMA OfNone ==
    ASSUME NEW e
    PROVE  Of(<<>>, "keep", e) \cup Of(<<>>, "record", e) = {}
BY DEF Of

\* A question keeps and records nothing.
LEMMA OfResume ==
    ASSUME NEW d, NEW q, NEW e
    PROVE  Of(<<Resume(d, q)>>, "keep", e) \cup Of(<<Resume(d, q)>>, "record", e) = {}
BY DEF Of, Resume

\* Closing keeps and records nothing.
LEMMA OfCloses ==
    ASSUME NEW es, \A i \in 1..Len(es) : es[i].do = "close", NEW e
    PROVE  Of(es, "keep", e) \cup Of(es, "record", e) = {}
BY DEF Of

\* The first of a list of closes is a close.
LEMMA ClosesHead ==
    ASSUME NEW es \in Seq(Effect), \A i \in 1..Len(es) : es[i].do = "close"
    PROVE  es # <<>> => Head(es).do = "close"
OBVIOUS

\* What is pending where one total is to be kept.
LEMMA OfKeep ==
    ASSUME NEW d, NEW w, NEW e
    PROVE  /\ Of(<<Keep(d, w)>>, "record", e) = {}
           /\ Of(<<Keep(d, w)>>, "keep", e) = IF e = d THEN {1} ELSE {}
BY DEF Of, Keep

\* What is pending where a total and its record are to be written.
LEMMA OfKeepRecord ==
    ASSUME NEW d, NEW w, NEW e
    PROVE  /\ Of(<<Keep(d, w), Record(d)>>, "record", e) = IF e = d THEN {2} ELSE {}
           /\ Of(<<Keep(d, w), Record(d)>>, "keep", e) = IF e = d THEN {1} ELSE {}
<1> DEFINE es == <<Keep(d, w), Record(d)>>
<1>1. /\ Len(es) = 2 /\ es[1] = Keep(d, w) /\ es[2] = Record(d)
  OBVIOUS
<1>2. 1..2 = {1, 2}
  OBVIOUS
<1> HIDE DEF es
<1>3. /\ Of(es, "record", e) = IF e = d THEN {2} ELSE {}
      /\ Of(es, "keep", e) = IF e = d THEN {1} ELSE {}
  BY <1>1, <1>2 DEF Of, Keep, Record
<1>4. QED
  BY <1>3 DEF es

\* What is pending where a record alone is left to be written.
LEMMA OfRecord ==
    ASSUME NEW d, NEW e
    PROVE  /\ Of(<<Record(d)>>, "record", e) = IF e = d THEN {1} ELSE {}
           /\ Of(<<Record(d)>>, "keep", e) = {}
BY DEF Of, Record

\* A total to keep takes the place of what the store has of its episode.
LEMMA WillKeepOne ==
    ASSUME NEW d, NEW w, NEW k, NEW e
    PROVE  Will(<<Keep(d, w)>>, k, e) =
              IF e = d THEN Watching(Whole(w) * Grain) ELSE k
<1>1. <<Keep(d, w)>>[1].watched = w
  BY DEF Keep
<1>2. (CHOOSE i \in {1} : TRUE) = 1
  OBVIOUS
<1>3. QED
  BY <1>1, <1>2, OfKeep DEF Will

\* A record marks what is kept ahead of it.
LEMMA WillRecord ==
    ASSUME NEW d, NEW w, NEW k, NEW e
    PROVE  Will(<<Keep(d, w), Record(d)>>, k, e) = IF e = d THEN Registered ELSE k
BY OfKeepRecord DEF Will

\* An episode whose record is pending will have registered.
LEMMA WillRecordAlone ==
    ASSUME NEW d, NEW k, NEW e
    PROVE  Will(<<Record(d)>>, k, e) = IF e = d THEN Registered ELSE k
BY OfRecord DEF Will

-----------------------------------------------------------------------------
(***************************************************************************)
(* StoreAgrees of one episode, of a sitting s, a list of effects, and what *)
(* the store has of the episode, k.                                        *)
(***************************************************************************)

Agrees(s, es, k, e) ==
    /\ s.stage = "asked" => es = <<Resume(e, s.question)>>
    /\ s.stage = "counting" =>
          \/ Will(es, k, e) = Watching(Whole(s.watched) * Grain)
          \/ Will(es, k, e) = Nothing /\ s.watched = 0
    /\ s.stage \in {"opening", "registered"} => Will(es, k, e) = Registered
    /\ s.stage = "over" => Of(es, "keep", e) \cup Of(es, "record", e) = {}

\* The agreement of store and sittings, one episode at a time.
LEMMA StoreAgreesIs ==
    StoreAgrees <=> \A e \in Episodes : Agrees(sittings[e], effects, KeptOf(e), e)
BY DEF StoreAgrees, Agrees, WillKeep, Will, Pending, Of

\* The same of the next state.
LEMMA StoreAgreesIsNext ==
    StoreAgrees' <=> \A e \in Episodes : Agrees(sittings'[e], effects', KeptOf(e)', e)
BY DEF StoreAgrees, Agrees, WillKeep, Will, Pending, Of

\* With nothing to keep or to record, agreeing is a matter of the sitting.
LEMMA AgreesIdle ==
    ASSUME NEW s, NEW es, NEW k, NEW e,
           Of(es, "keep", e) \cup Of(es, "record", e) = {}
    PROVE  Agrees(s, es, k, e) <=>
              /\ s.stage = "asked" => es = <<Resume(e, s.question)>>
              /\ s.stage = "counting" =>
                    \/ k = Watching(Whole(s.watched) * Grain)
                    \/ k = Nothing /\ s.watched = 0
              /\ s.stage \in {"opening", "registered"} => k = Registered
BY WillIdle DEF Agrees

\* A mark is of a viewing that was recorded.
RowsWereWritten ==
    \A e \in Episodes : row[e] = "registered" => seen[e] > 0

\* The invariant: the store is where the effects that are left lead from.
Leads ==
    /\ StoreAgrees
    /\ EffectsLead
    /\ RowsWereWritten

\* Losing everything leaves the store where it is.
LEMMA LostLeads ==
    ASSUME Leads, Lost
    PROVE  Leads'
<1>1. /\ effects' = <<>> /\ sittings' = [e \in Episodes |-> Over]
      /\ row' = row /\ total' = total /\ seen' = seen
  BY DEF Lost, SessionLost, storeVars
<1>2. \A e \in Episodes : Agrees(sittings'[e], effects', KeptOf(e)', e)
  BY <1>1, OfNone DEF Agrees, Over
<1>3. EffectsLead'
  BY <1>1 DEF EffectsLead
<1>4. RowsWereWritten'
  BY <1>1 DEF Leads, RowsWereWritten
<1>5. QED
  BY <1>2, <1>3, <1>4, StoreAgreesIsNext DEF Leads

\* A step of neither the session nor the store.
LEMMA RestLeads ==
    ASSUME Leads, UNCHANGED <<sittings, effects, storeVars>>
    PROVE  Leads'
<1>1. sittings' = sittings /\ effects' = effects /\ row' = row /\ total' = total /\ seen' = seen
  BY DEF storeVars
<1>2. \A e \in Episodes : KeptOf(e)' = KeptOf(e)
  BY <1>1 DEF KeptOf
<1>3. StoreAgrees'
  BY <1>1, <1>2, StoreAgreesIs, StoreAgreesIsNext DEF Leads
<1>4. EffectsLead'
  BY <1>1 DEF Leads, EffectsLead, KeptOf
<1>5. QED
  BY <1>1, <1>3, <1>4 DEF Leads, RowsWereWritten

\* A reading of a player, taken while nothing is left to carry out.
LEMMA AdvanceLeads ==
    ASSUME TypeOK, NobodyInOver, Leads, effects = <<>>,
           NEW r \in Reading, Advance(r), UNCHANGED storeVars
    PROVE  Leads'
<1> DEFINE f == r.episode
<1>1. /\ sittings \in [Episodes -> Sitting]
      /\ \A e \in Episodes : sittings[e] \in Sitting /\ KeptOf(e) \in Kept
  BY KeptOfType DEF TypeOK, SessionTypeOK
<1>2. /\ \A e \in Episodes : KeptOf(e)' = KeptOf(e)
      /\ RowsWereWritten'
  BY DEF storeVars, KeptOf, Leads, RowsWereWritten
<1>3. ASSUME NEW e \in Episodes
      PROVE  /\ sittings[e].stage # "asked"
             /\ sittings[e].stage = "counting" =>
                   \/ KeptOf(e) = Watching(Whole(sittings[e].watched) * Grain)
                   \/ KeptOf(e) = Nothing /\ sittings[e].watched = 0
             /\ sittings[e].stage \in {"opening", "registered"} => KeptOf(e) = Registered
  <2>1. Agrees(sittings[e], <<>>, KeptOf(e), e)
    BY StoreAgreesIs DEF Leads
  <2>2. <<>> # <<Resume(e, sittings[e].question)>>
    OBVIOUS
  <2>3. QED
    BY <2>1, <2>2, OfNone, AgreesIdle
<1>4. ASSUME NEW e \in Episodes, NEW es, NEW s,
             Of(es, "keep", e) \cup Of(es, "record", e) = {},
             s.stage = sittings[e].stage,
             s.stage = "counting" => s.watched = sittings[e].watched
      PROVE  Agrees(s, es, KeptOf(e)', e)
  BY <1>2, <1>3, <1>4, AgreesIdle
<1>5. ASSUME NEW e \in Episodes
      PROVE  /\ Leave(sittings[e], {r.player}).stage = sittings[e].stage
             /\ Leave(sittings[e], {r.player}).watched = sittings[e].watched
             /\ Enter(sittings[e], r).stage = sittings[e].stage
             /\ Enter(sittings[e], r).watched = sittings[e].watched
  BY <1>1, LeaveStage, LeaveKeeps, EnterStage, EnterKeeps
<1>6. CASE Continue(r)
  <2>1. /\ f \in Episodes /\ Has(sittings[f], r.player)
        /\ sittings' = [sittings EXCEPT ![f] = Read(sittings[f], r)]
        /\ effects' = Answer(sittings[f], r)
    BY <1>6 DEF Continue, GoesOnIn
  <2>2. sittings[f].stage \in {"opening", "counting", "registered"}
    <3>1. sittings[f].stage \in Stages /\ sittings[f].stage # "over"
      BY <1>1, <2>1 DEF NobodyInOver, IsEmpty, Sitting, Reading
    <3>2. QED
      BY <1>3, <2>1, <3>1 DEF Stages
  <2>3. /\ sittings'[f] = Read(sittings[f], r)
        /\ \A e \in Episodes : e # f => sittings'[e] = sittings[e]
    BY <1>1, <2>1
  <2> DEFINE w == Total(sittings[f], r)
  <2>4. \/ /\ effects' = <<>>
           /\ sittings'[f].stage = sittings[f].stage
           /\ sittings[f].stage = "counting" => sittings'[f].watched = sittings[f].watched
        \/ /\ effects' = <<>>
           /\ sittings[f].stage = "opening" /\ sittings'[f].stage = "registered"
        \/ /\ sittings[f].stage \in {"opening", "counting"}
           /\ w \in Nat /\ w > 0 /\ w > sittings[f].watched
           /\ sittings[f].stage = "opening" => w >= FirstSeconds
           /\ \/ /\ effects' = <<Keep(f, w)>>
                 /\ sittings'[f].stage = "counting" /\ sittings'[f].watched = w
              \/ /\ effects' = <<Keep(f, w), Record(f)>>
                 /\ sittings'[f].stage = "registered"
                 /\ Enough(w)
    BY <1>1, <2>1, <2>2, <2>3, ReadKeeps DEF Enough
  <2> HIDE DEF w
  <2>5. CASE effects' = <<>> /\ sittings'[f].stage = sittings[f].stage
             /\ (sittings[f].stage = "counting" => sittings'[f].watched = sittings[f].watched)
    <3>1. \A e \in Episodes : Agrees(sittings'[e], effects', KeptOf(e)', e)
      BY <1>4, <2>3, <2>5, OfNone
    <3>2. QED
      BY <1>2, <2>5, <3>1, StoreAgreesIsNext DEF Leads, EffectsLead
  <2>6. CASE effects' = <<>> /\ sittings[f].stage = "opening"
             /\ sittings'[f].stage = "registered"
    <3>1. Agrees(sittings'[f], effects', KeptOf(f)', f)
      BY <1>2, <1>3, <2>1, <2>6, OfNone, AgreesIdle
    <3>2. \A e \in Episodes : Agrees(sittings'[e], effects', KeptOf(e)', e)
      BY <1>4, <2>3, <2>6, <3>1, OfNone
    <3>3. QED
      BY <1>2, <2>6, <3>2, StoreAgreesIsNext DEF Leads, EffectsLead
  <2>7. CASE /\ sittings[f].stage \in {"opening", "counting"}
             /\ w \in Nat /\ w > 0 /\ w > sittings[f].watched
             /\ sittings[f].stage = "opening" => w >= FirstSeconds
             /\ \/ /\ effects' = <<Keep(f, w)>>
                   /\ sittings'[f].stage = "counting" /\ sittings'[f].watched = w
                \/ /\ effects' = <<Keep(f, w), Record(f)>>
                   /\ sittings'[f].stage = "registered"
                   /\ Enough(w)
    <3>2. Agrees(sittings'[f], effects', KeptOf(f)', f)
      <4>1. CASE effects' = <<Keep(f, w)>> /\ sittings'[f].stage = "counting"
                 /\ sittings'[f].watched = w
        <5>1. Will(<<Keep(f, w)>>, KeptOf(f)', f) = Watching(Whole(w) * Grain)
          BY WillKeepOne
        <5>2. QED
          BY <4>1, <5>1 DEF Agrees
      <4>2. CASE effects' = <<Keep(f, w), Record(f)>> /\ sittings'[f].stage = "registered"
        <5>1. Will(<<Keep(f, w), Record(f)>>, KeptOf(f)', f) = Registered
          BY WillRecord
        <5>2. QED
          BY <4>2, <5>1 DEF Agrees
      <4>3. QED
        BY <2>7, <4>1, <4>2
    <3>3. ASSUME NEW e \in Episodes, e # f
          PROVE  Of(effects', "keep", e) \cup Of(effects', "record", e) = {}
      BY <2>7, <3>3, OfKeep, OfKeepRecord
    <3>4. \A e \in Episodes : Agrees(sittings'[e], effects', KeptOf(e)', e)
      BY <1>4, <2>3, <3>2, <3>3
    <3>5. w > KeptOf(f).watched /\ (KeptOf(f).is = "registered" => w >= FirstSeconds)
      <4>1. CASE sittings[f].stage = "opening"
        BY <1>3, <2>1, <2>7, <4>1 DEF Registered
      <4>2. CASE KeptOf(f) = Watching(Whole(sittings[f].watched) * Grain)
        <5>1. /\ sittings[f].watched \in Nat
              /\ Whole(sittings[f].watched) * Grain \in Nat
              /\ Whole(sittings[f].watched) * Grain <= sittings[f].watched
          BY <1>1, <2>1, WholeLoses DEF Sitting
        <5>2. KeptOf(f).watched = Whole(sittings[f].watched) * Grain
              /\ KeptOf(f).is = "watching"
          BY <4>2 DEF Watching
        <5>3. QED
          BY <2>7, <5>1, <5>2
      <4>3. CASE KeptOf(f) = Nothing
        BY <2>7, <4>3 DEF Nothing
      <4>4. QED
        BY <1>3, <2>1, <2>7, <4>1, <4>2, <4>3
    <3>6. EffectsLead'
      <4>1. Head(effects') = Keep(f, w)
        BY <2>7
      <4>2. KeptOf(f)' = KeptOf(f)
        BY <1>2, <2>1
      <4>3. Head(effects').do = "keep" /\ Head(effects').episode = f
            /\ Head(effects').watched = w
        BY <4>1 DEF Keep
      <4>4. QED
        BY <2>7, <3>5, <4>2, <4>3 DEF EffectsLead, Enough
    <3>7. QED
      BY <1>2, <3>4, <3>6, StoreAgreesIsNext DEF Leads
  <2>8. QED
    BY <2>4, <2>5, <2>6, <2>7
<1>7. CASE Depart(r)
  <2>1. effects' = <<>> /\ \A e \in Episodes : sittings'[e] = Leave(sittings[e], {r.player})
    BY <1>7 DEF Depart, WithoutPlayers
  <2>2. \A e \in Episodes : Agrees(sittings'[e], effects', KeptOf(e)', e)
    BY <1>4, <1>5, <2>1, OfNone
  <2>3. QED
    BY <1>2, <2>1, <2>2, StoreAgreesIsNext DEF Leads, EffectsLead
<1>8. CASE Join(r)
  <2>1. /\ effects' = <<>>
        /\ \A e \in Episodes : sittings'[e] =
              IF e = f THEN Enter(sittings[e], r) ELSE Leave(sittings[e], {r.player})
    BY <1>8 DEF Join
  <2>2. \A e \in Episodes : Agrees(sittings'[e], effects', KeptOf(e)', e)
    BY <1>4, <1>5, <2>1, OfNone
  <2>3. QED
    BY <1>2, <2>1, <2>2, StoreAgreesIsNext DEF Leads, EffectsLead
<1>9. CASE Begin(r)
  <2> DEFINE q == asked + 1
  <2>1. /\ f \in Episodes
        /\ effects' = <<Resume(f, q)>>
        /\ \A e \in Episodes : sittings'[e] =
              IF e = f THEN Asking(q, r) ELSE Leave(sittings[e], {r.player})
    BY <1>9 DEF Begin
  <2>2. sittings'[f].stage = "asked" /\ sittings'[f].question = q
    <3>1. q \in Nat
      BY DEF TypeOK, SessionTypeOK
    <3>2. sittings'[f] = Asking(q, r)
      BY <2>1
    <3>3. QED
      BY <3>1, <3>2, AskingStage
  <2> HIDE DEF q
  <2>3. \A e \in Episodes : Of(effects', "keep", e) \cup Of(effects', "record", e) = {}
    BY <2>1, OfResume
  <2>4. Agrees(sittings'[f], effects', KeptOf(f)', f)
    BY <2>1, <2>2, <2>3, AgreesIdle
  <2>5. \A e \in Episodes : Agrees(sittings'[e], effects', KeptOf(e)', e)
    BY <1>4, <1>5, <2>1, <2>3, <2>4
  <2>6. EffectsLead'
    <3>1. Head(effects') = Resume(f, q)
      BY <2>1
    <3>2. Head(effects').do = "resume" /\ Head(effects').episode = f
      BY <3>1 DEF Resume
    <3>3. QED
      BY <2>1, <2>2, <3>2 DEF EffectsLead
  <2>7. QED
    BY <1>2, <2>5, <2>6, StoreAgreesIsNext DEF Leads
<1>10. QED
  BY <1>6, <1>7, <1>8, <1>9 DEF Advance

-----------------------------------------------------------------------------
(***************************************************************************)
(* Carrying out the effect whose turn it is.                               *)
(***************************************************************************)

\* What the head of the effects is, by what it does.
LEMMA HeadIs ==
    ASSUME TypeOK, Leads, effects # <<>>, NEW e, e = Head(effects).episode,
           NEW w, w = Head(effects).watched
    PROVE  /\ e \in Episodes /\ w \in Nat
           /\ Head(effects).do = "resume" =>
                 /\ sittings[e].stage = "asked"
                 /\ effects = <<Resume(e, sittings[e].question)>>
                 /\ Head(effects).question = sittings[e].question
           /\ Head(effects).do = "keep" =>
                 /\ \/ effects = <<Keep(e, w)>>
                    \/ effects = <<Keep(e, w), Record(e)>> /\ Enough(w)
                 /\ w > KeptOf(e).watched
                 /\ KeptOf(e).is = "registered" => w >= FirstSeconds
           /\ Head(effects).do = "record" =>
                 /\ effects = <<Record(e)>>
                 /\ KeptOf(e).is = "watching" /\ EnoughKept(KeptOf(e).watched)
           /\ Head(effects).do = "close" =>
                 \A i \in 1..Len(effects) : effects[i].do = "close"
<1>1. effects \in Seq(Effect)
  BY DEF TypeOK, SessionTypeOK
<1>2. Head(effects) \in Effect
  BY <1>1
<1>3. e \in Episodes /\ w \in Nat
  BY <1>2 DEF Effect
<1>4. \A q : Head(<<Resume(e, q)>>).question = q
  BY DEF Resume
<1>5. QED
  BY <1>3, <1>4 DEF Leads, EffectsLead

\* Bringing back what the store answers a question with.
LEMMA CarryOutResumeLeads ==
    ASSUME TypeOK, Leads, CarryOutResume, NEW e, e = Head(effects).episode,
           NEW q, q = Head(effects).question
    PROVE  /\ Leads'
           /\ UNCHANGED storeVars
<1>1. /\ effects # <<>> /\ Head(effects).do = "resume"
      /\ Resumed(q, KeptOf(e)) /\ effects' = Tail(effects)
      /\ UNCHANGED storeVars
  BY DEF CarryOutResume
<1>2. /\ e \in Episodes /\ sittings[e].stage = "asked"
      /\ effects = <<Resume(e, q)>> /\ q = sittings[e].question
  BY <1>1, HeadIs
<1>3. effects' = <<>>
  BY <1>1, <1>2
<1>4. /\ \A d \in Episodes : sittings[d] \in Sitting /\ KeptOf(d) \in Kept
      /\ \A d \in Episodes : KeptOf(d)' = KeptOf(d)
      /\ RowsWereWritten'
  BY <1>1, KeptOfType DEF TypeOK, SessionTypeOK, storeVars, KeptOf, Leads, RowsWereWritten
<1>5. ASSUME NEW d \in Episodes, d # e
      PROVE  Agrees(sittings'[d], effects', KeptOf(d)', d)
  <2>1. Agrees(sittings[d], <<Resume(e, q)>>, KeptOf(d), d)
    BY <1>2, StoreAgreesIs DEF Leads
  <2>2. <<Resume(e, q)>> # <<Resume(d, sittings[d].question)>>
    BY <1>5 DEF Resume
  <2>3. sittings[d].stage # "asked"
    BY <2>1, <2>2 DEF Agrees
  <2>4. sittings'[d] = sittings[d]
    BY <1>1, <1>4, <2>3, AnsweredKeeps DEF Resumed
  <2>5. QED
    BY <1>3, <1>4, <2>1, <2>3, <2>4, OfResume, OfNone, AgreesIdle
<1>6. Agrees(sittings'[e], effects', KeptOf(e)', e)
  <2>1. sittings'[e] = Answered(sittings[e], q, KeptOf(e))
    BY <1>1, <1>2 DEF Resumed
  <2>2. /\ sittings'[e].stage = IF KeptOf(e).is = "registered" THEN "opening" ELSE "counting"
        /\ sittings'[e].watched = KeptOf(e).watched
    BY <1>2, <1>4, <2>1, AnsweredKeeps
  <2>3. \/ KeptOf(e) = Registered
        \/ KeptOf(e) = Nothing
        \/ KeptOf(e) = Watching(total[e] * Grain)
    BY <1>2 DEF KeptOf
  <2>4. \/ sittings'[e].stage = "opening" /\ KeptOf(e)' = Registered
        \/ /\ sittings'[e].stage = "counting"
           /\ \/ KeptOf(e)' = Watching(Whole(sittings'[e].watched) * Grain)
              \/ KeptOf(e)' = Nothing /\ sittings'[e].watched = 0
    <3>1. CASE KeptOf(e) = Registered
      BY <1>2, <1>4, <2>2, <3>1 DEF Registered
    <3>2. CASE KeptOf(e) = Nothing
      BY <1>2, <1>4, <2>2, <3>2 DEF Nothing
    <3>3. CASE KeptOf(e) = Watching(total[e] * Grain)
      <4>1. KeptOf(e).is = "watching" /\ KeptOf(e).watched = total[e] * Grain
        BY <3>3 DEF Watching
      <4>2. sittings'[e].stage = "counting" /\ sittings'[e].watched = total[e] * Grain
        BY <2>2, <4>1
      <4>3. Whole(total[e] * Grain) = total[e]
        BY <1>2, WholeOfWhole DEF TypeOK, StoreTypeOK
      <4>4. KeptOf(e)' = Watching(total[e] * Grain)
        BY <1>2, <1>4, <3>3
      <4>5. QED
        BY <4>2, <4>3, <4>4
    <3>4. QED
      BY <2>3, <3>1, <3>2, <3>3
  <2>5. QED
    BY <1>3, <2>4, OfNone, AgreesIdle
<1>7. EffectsLead'
  BY <1>3 DEF EffectsLead
<1>8. \A d \in Episodes : Agrees(sittings'[d], effects', KeptOf(d)', d)
  BY <1>5, <1>6
<1>9. StoreAgrees'
  BY <1>8, StoreAgreesIsNext
<1>10. QED
  BY <1>1, <1>4, <1>7, <1>9 DEF Leads

\* Keeping a total: the store goes on from what it had of the episode.
LEMMA CarryOutKeepLeads ==
    ASSUME TypeOK, Leads, CarryOutKeep, NEW e, e = Head(effects).episode,
           NEW w, w = Head(effects).watched
    PROVE  /\ Leads'
           /\ e \in Episodes /\ seen' = seen
           /\ w \in Nat /\ KeptOf(e)' = Watching(Whole(w) * Grain)
           /\ \A d \in Episodes : d # e => KeptOf(d)' = KeptOf(d)
           /\ Whole(w) * Grain >= KeptOf(e).watched
           /\ KeptOf(e).is = "registered" => w >= FirstSeconds
<1>1. /\ effects # <<>> /\ Head(effects).do = "keep"
      /\ StoreKeep(e, w) /\ effects' = Tail(effects) /\ sittings' = sittings
  BY DEF CarryOutKeep
<1>2. /\ e \in Episodes /\ w \in Nat
      /\ \/ effects = <<Keep(e, w)>>
         \/ effects = <<Keep(e, w), Record(e)>> /\ Enough(w)
      /\ w > KeptOf(e).watched
      /\ KeptOf(e).is = "registered" => w >= FirstSeconds
  BY <1>1, HeadIs
<1>3. /\ row' = [row EXCEPT ![e] = "watching"] /\ total' = [total EXCEPT ![e] = Whole(w)]
      /\ seen' = seen
      /\ row \in [Episodes -> {"none", "watching", "registered"}]
      /\ total \in [Episodes -> Nat] /\ seen \in [Episodes -> Nat]
  BY <1>1 DEF StoreKeep, TypeOK, StoreTypeOK
<1>4. KeptOf(e) \in Kept /\ Whole(w) \in Nat
  BY <1>2, KeptOfType, WholeLoses DEF TypeOK
<1>6. RowsWereWritten'
  BY <1>2, <1>3 DEF Leads, RowsWereWritten
<1>7. /\ KeptOf(e)' = Watching(Whole(w) * Grain)
      /\ \A d \in Episodes : d # e => KeptOf(d)' = KeptOf(d)
  BY <1>2, <1>3 DEF KeptOf
<1>8. ASSUME effects = <<Keep(e, w)>> PROVE StoreAgrees' /\ EffectsLead'
  <2>1. effects' = <<>>
    BY <1>1, <1>8
  <2>2. EffectsLead'
    BY <2>1 DEF EffectsLead
  <2>3. ASSUME NEW d \in Episodes
        PROVE  Agrees(sittings'[d], effects', KeptOf(d)', d)
    <3>1. Agrees(sittings[d], <<Keep(e, w)>>, KeptOf(d), d)
      BY <1>8, StoreAgreesIs DEF Leads
    <3>2. sittings[d].stage # "asked"
      <4>1. <<Keep(e, w)>> # <<Resume(d, sittings[d].question)>>
        BY DEF Keep, Resume
      <4>2. QED
        BY <3>1, <4>1 DEF Agrees
    <3>3. Will(<<Keep(e, w)>>, KeptOf(d), d) = KeptOf(d)'
      BY <1>7, WillKeepOne
    <3>4. sittings[d].stage = "counting" =>
            \/ KeptOf(d)' = Watching(Whole(sittings[d].watched) * Grain)
            \/ KeptOf(d)' = Nothing /\ sittings[d].watched = 0
      BY <3>1, <3>3 DEF Agrees
    <3>5. sittings[d].stage \in {"opening", "registered"} => KeptOf(d)' = Registered
      BY <3>1, <3>3 DEF Agrees
    <3>6. QED
      BY <1>1, <2>1, <3>2, <3>4, <3>5, OfNone, AgreesIdle
  <2>4. QED
    BY <2>2, <2>3, StoreAgreesIsNext
<1>9. ASSUME effects = <<Keep(e, w), Record(e)>>, Enough(w) PROVE StoreAgrees' /\ EffectsLead'
  <2>1. effects' = <<Record(e)>>
    BY <1>1, <1>9
  <2>2. EffectsLead'
    <3>1. Head(effects').do = "record" /\ Head(effects').episode = e
      BY <2>1 DEF Record
    <3>2. KeptOf(e)'.is = "watching" /\ KeptOf(e)'.watched = Whole(w) * Grain
      BY <1>7 DEF Watching
    <3>3. EnoughKept(Whole(w) * Grain)
      <4>1. PICK l \in AnyLength : w >= Needed[l]
        BY <1>9 DEF Enough
      <4>2. Needed[l] \in Nat /\ Grain \in Nat
        BY <4>1, ReadingsAssumption
      <4>3. Whole(w) * Grain \in Nat /\ w < Whole(w) * Grain + Grain
        BY <1>2, WholeLoses
      <4>4. QED
        BY <1>2, <4>1, <4>2, <4>3 DEF EnoughKept
    <3>4. QED
      BY <2>1, <3>1, <3>2, <3>3 DEF EffectsLead, EnoughKept
  <2>3. ASSUME NEW d \in Episodes
        PROVE  Agrees(sittings'[d], effects', KeptOf(d)', d)
    <3>1. Agrees(sittings[d], <<Keep(e, w), Record(e)>>, KeptOf(d), d)
      BY <1>9, StoreAgreesIs DEF Leads
    <3>2. sittings[d].stage # "asked"
      <4>1. <<Keep(e, w), Record(e)>> # <<Resume(d, sittings[d].question)>>
        OBVIOUS
      <4>2. QED
        BY <3>1, <4>1 DEF Agrees
    <3>3. Will(<<Keep(e, w), Record(e)>>, KeptOf(d), d)
            = Will(<<Record(e)>>, KeptOf(d)', d)
      BY <1>7, WillRecord, WillRecordAlone
    <3>4. d # e => Of(<<Record(e)>>, "keep", d) \cup Of(<<Record(e)>>, "record", d) = {}
      BY OfRecord
    <3>5. d = e => sittings[d].stage # "over"
      BY <3>1, OfKeepRecord DEF Agrees
    <3>6. sittings'[d] = sittings[d]
      BY <1>1
    <3> DEFINE s == sittings[d]
    <3>7. s.stage = "counting" =>
            \/ Will(effects', KeptOf(d)', d) = Watching(Whole(s.watched) * Grain)
            \/ Will(effects', KeptOf(d)', d) = Nothing /\ s.watched = 0
      BY <2>1, <3>1, <3>3 DEF Agrees
    <3>8. s.stage \in {"opening", "registered"} => Will(effects', KeptOf(d)', d) = Registered
      BY <2>1, <3>1, <3>3 DEF Agrees
    <3>9. s.stage = "over" => Of(effects', "keep", d) \cup Of(effects', "record", d) = {}
      BY <2>1, <3>4, <3>5
    <3>10. Agrees(s, effects', KeptOf(d)', d)
      BY ONLY <3>2, <3>7, <3>8, <3>9 DEF Agrees
    <3> HIDE DEF s
    <3>11. sittings'[d] = s
      BY <3>6 DEF s
    <3>12. QED
      BY ONLY <3>10, <3>11
  <2>4. QED
    BY <2>2, <2>3, StoreAgreesIsNext
<1>10. Whole(w) * Grain >= KeptOf(e).watched
  <2>1. KeptOf(e).watched = 0 \/ KeptOf(e).watched = total[e] * Grain
    BY DEF KeptOf, Registered, Nothing, Watching
  <2>2. CASE KeptOf(e).watched = 0
    BY <1>2, <2>2, WholeLoses
  <2>3. CASE KeptOf(e).watched = total[e] * Grain
    <3>1. total[e] \in Nat /\ total[e] * Grain \in Nat /\ total[e] * Grain <= w
      BY <1>2, <1>3, <1>4, <2>3 DEF Kept
    <3>2. Whole(total[e] * Grain) * Grain <= Whole(w) * Grain
      BY <1>2, <3>1, WholeGrows
    <3>3. QED
      BY <1>2, <2>3, <3>1, <3>2, WholeOfWhole, WholeLoses
  <2>4. QED
    BY <2>1, <2>2, <2>3
<1>11. QED
  BY <1>2, <1>3, <1>6, <1>7, <1>8, <1>9, <1>10 DEF Leads

\* Recording an episode: the viewing that is kept registers.
LEMMA CarryOutRecordLeads ==
    ASSUME TypeOK, Leads, CarryOutRecord, NEW e, e = Head(effects).episode
    PROVE  /\ Leads'
           /\ e \in Episodes /\ seen' = [seen EXCEPT ![e] = @ + 1]
           /\ KeptOf(e)' = Registered
           /\ \A d \in Episodes : d # e => KeptOf(d)' = KeptOf(d)
           /\ KeptOf(e).is = "watching" /\ EnoughKept(KeptOf(e).watched)
<1>1. /\ effects # <<>> /\ Head(effects).do = "record"
      /\ StoreRecord(e) /\ effects' = Tail(effects) /\ sittings' = sittings
  BY DEF CarryOutRecord
<1>2. /\ e \in Episodes /\ effects = <<Record(e)>>
      /\ KeptOf(e).is = "watching" /\ EnoughKept(KeptOf(e).watched)
  BY <1>1, HeadIs
<1>3. effects' = <<>>
  BY <1>1, <1>2
<1>4. row[e] = "watching"
  BY <1>2 DEF KeptOf, Registered, Nothing
<1>5. /\ row' = [row EXCEPT ![e] = "registered"] /\ total' = total
      /\ seen' = [seen EXCEPT ![e] = @ + 1]
      /\ row \in [Episodes -> {"none", "watching", "registered"}]
      /\ total \in [Episodes -> Nat] /\ seen \in [Episodes -> Nat]
  BY <1>1, <1>2, <1>4 DEF StoreRecord, TypeOK, StoreTypeOK
<1>6. RowsWereWritten'
  BY <1>2, <1>5 DEF Leads, RowsWereWritten
<1>7. /\ KeptOf(e)' = Registered
      /\ \A d \in Episodes : d # e => KeptOf(d)' = KeptOf(d)
  BY <1>2, <1>5 DEF KeptOf
<1>8. ASSUME NEW d \in Episodes
      PROVE  Agrees(sittings'[d], effects', KeptOf(d)', d)
  <2>1. Agrees(sittings[d], <<Record(e)>>, KeptOf(d), d)
    BY <1>2, StoreAgreesIs DEF Leads
  <2>2. sittings[d].stage # "asked"
    <3>1. <<Record(e)>> # <<Resume(d, sittings[d].question)>>
      BY DEF Record, Resume
    <3>2. QED
      BY <2>1, <3>1 DEF Agrees
  <2>3. Will(<<Record(e)>>, KeptOf(d), d) = KeptOf(d)'
    <3>1. KeptOf(d)' = IF d = e THEN Registered ELSE KeptOf(d)
      BY <1>2, <1>5 DEF KeptOf
    <3>2. QED
      BY <3>1, WillRecordAlone
  <2>4. sittings[d].stage = "counting" =>
          \/ KeptOf(d)' = Watching(Whole(sittings[d].watched) * Grain)
          \/ KeptOf(d)' = Nothing /\ sittings[d].watched = 0
    BY <2>1, <2>3 DEF Agrees
  <2>5. sittings[d].stage \in {"opening", "registered"} => KeptOf(d)' = Registered
    BY <2>1, <2>3 DEF Agrees
  <2>6. QED
    BY <1>1, <1>3, <2>2, <2>4, <2>5, OfNone, AgreesIdle
<1>9. EffectsLead'
  BY <1>3 DEF EffectsLead
<1>10. QED
  BY <1>2, <1>5, <1>6, <1>7, <1>8, <1>9, StoreAgreesIsNext DEF Leads

\* Closing a sitting: the mark goes, and the store answers as it did, by the
\* record the mark was of.
LEMMA CarryOutCloseLeads ==
    ASSUME TypeOK, Leads, CarryOutClose
    PROVE  /\ Leads'
           /\ seen' = seen
           /\ \A d \in Episodes : KeptOf(d)' = KeptOf(d)
<1>1. PICK e : e = Head(effects).episode
  OBVIOUS
<1>2. /\ effects # <<>> /\ Head(effects).do = "close" /\ effects \in Seq(Effect)
      /\ StoreClose(e) /\ effects' = Tail(effects) /\ sittings' = sittings
  BY <1>1 DEF CarryOutClose, TypeOK, SessionTypeOK
<1>3. e \in Episodes /\ \A i \in 1..Len(effects) : effects[i].do = "close"
  BY <1>1, <1>2, HeadIs
<1>4. \A i \in 1..Len(effects') : effects'[i].do = "close"
  <2>1. /\ Len(effects') = Len(effects) - 1 /\ Len(effects) \in Nat
        /\ \A i \in 1..Len(effects') : effects'[i] = effects[i + 1] /\ i + 1 \in 1..Len(effects)
    BY <1>2
  <2>2. QED
    BY <1>3, <2>1
<1>5. /\ row' = [row EXCEPT ![e] = IF @ = "registered" THEN "none" ELSE @]
      /\ total' = [total EXCEPT ![e] = IF row[e] = "registered" THEN 0 ELSE @]
      /\ seen' = seen
      /\ row \in [Episodes -> {"none", "watching", "registered"}]
      /\ total \in [Episodes -> Nat] /\ seen \in [Episodes -> Nat]
  BY <1>2 DEF StoreClose, TypeOK, StoreTypeOK
<1>6. RowsWereWritten /\ RowsWereWritten'
  BY <1>3, <1>5 DEF Leads, RowsWereWritten
<1>7. \A d \in Episodes : KeptOf(d)' = KeptOf(d)
  BY <1>3, <1>5, <1>6 DEF KeptOf, RowsWereWritten
<1>8. ASSUME NEW d \in Episodes
      PROVE  Agrees(sittings'[d], effects', KeptOf(d)', d)
  <2>1. Agrees(sittings[d], effects, KeptOf(d), d)
    BY StoreAgreesIs DEF Leads
  <2>2. /\ Of(effects, "keep", d) \cup Of(effects, "record", d) = {}
        /\ Of(effects', "keep", d) \cup Of(effects', "record", d) = {}
    BY <1>3, <1>4, OfCloses
  <2>3. sittings[d].stage # "asked"
    <3>1. effects # <<Resume(d, sittings[d].question)>>
      BY <1>2 DEF Resume
    <3>2. QED
      BY <2>1, <3>1 DEF Agrees
  <2>4. QED
    BY <1>2, <1>7, <2>1, <2>2, <2>3, AgreesIdle
<1>9. EffectsLead'
  <2>1. effects' \in Seq(Effect)
    BY <1>2
  <2>2. effects' # <<>> => Head(effects').do = "close"
    BY <1>4, <2>1, ClosesHead
  <2>3. QED
    BY <1>4, <2>2 DEF EffectsLead
<1>10. QED
  BY <1>5, <1>6, <1>7, <1>8, <1>9, StoreAgreesIsNext DEF Leads

\* The end of a round: a sitting that is closed leaves its total in the store.
LEMMA EndRoundLeads ==
    ASSUME TypeOK, Leads, effects = <<>>, NEW gone, EndRound(gone), UNCHANGED storeVars
    PROVE  Leads'
<1>1. /\ SessionTypeOK' /\ \A i \in 1..Len(effects') : effects'[i].do = "close"
  BY EndRoundType DEF TypeOK
<1>2. \A d \in Episodes : /\ Of(effects, "keep", d) \cup Of(effects, "record", d) = {}
                         /\ Of(effects', "keep", d) \cup Of(effects', "record", d) = {}
  BY <1>1, OfCloses, OfNone
<1>3. /\ \A d \in Episodes : KeptOf(d)' = KeptOf(d)
      /\ RowsWereWritten'
  BY DEF storeVars, KeptOf, Leads, RowsWereWritten
<1>4. ASSUME NEW d \in Episodes
      PROVE  Agrees(sittings'[d], effects', KeptOf(d)', d)
  <2>1. sittings[d] \in Sitting
    BY DEF TypeOK, SessionTypeOK
  <2>2. \/ sittings'[d] = Over
        \/ /\ sittings'[d].stage = sittings[d].stage
           /\ sittings'[d].watched = sittings[d].watched
    BY <2>1, LeaveStage, LeaveKeeps DEF EndRound, WithoutPlayers
  <2>3. Agrees(sittings[d], effects, KeptOf(d), d)
    BY StoreAgreesIs DEF Leads
  <2>4. sittings[d].stage # "asked"
    <3>1. effects # <<Resume(d, sittings[d].question)>>
      OBVIOUS
    <3>2. QED
      BY <2>3, <3>1 DEF Agrees
  <2>5. CASE sittings'[d] = Over
    BY <1>2, <2>5, AgreesIdle DEF Over
  <2>6. CASE sittings'[d].stage = sittings[d].stage /\ sittings'[d].watched = sittings[d].watched
    BY <1>2, <1>3, <2>3, <2>4, <2>6, AgreesIdle
  <2>7. QED
    BY <2>2, <2>5, <2>6
<1>5. EffectsLead'
  <2>1. effects' \in Seq(Effect)
    BY <1>1 DEF SessionTypeOK
  <2>2. effects' # <<>> => Head(effects').do = "close"
    BY <1>1, <2>1, ClosesHead
  <2>3. QED
    BY <1>1, <2>2 DEF EffectsLead
<1>6. QED
  BY <1>3, <1>4, <1>5, StoreAgreesIsNext DEF Leads

-----------------------------------------------------------------------------
(***************************************************************************)
(* The theorems.                                                           *)
(***************************************************************************)

\* The three facts are kept by every step of a task whose sittings hold the
\* players they should.
LEMMA NextLeads ==
    ASSUME Places, Leads, [Next]_vars
    PROVE  Leads'
<1>1. TypeOK /\ NobodyInOver
  BY DEF Places
<1>2. CASE Poll
  BY <1>2, RestLeads DEF Poll, sessionVars
<1>3. ASSUME NEW p \in Players, Take(p) PROVE Leads'
  <2>1. PICK r \in ReadingsOf(p) : Advance(r)
    BY <1>3 DEF Take
  <2>2. r \in Reading
    BY <1>1, ReadingsOfType DEF TypeOK
  <2>3. effects = <<>> /\ UNCHANGED storeVars
    BY <1>3 DEF Take
  <2>4. QED
    BY <1>1, <2>1, <2>2, <2>3, AdvanceLeads
<1>4. CASE CarryOut
  BY <1>1, <1>4, CarryOutResumeLeads, CarryOutKeepLeads, CarryOutRecordLeads,
     CarryOutCloseLeads DEF CarryOut
<1>5. CASE FinishRound
  BY <1>1, <1>5, EndRoundLeads DEF FinishRound
<1>6. CASE Fails
  BY <1>6, LostLeads DEF Fails, TaskFails, StoreRefuses, DaemonDies
<1>7. CASE Restart \/ UNCHANGED vars
  BY <1>7, RestLeads DEF Restart, vars, sessionVars
<1>8. QED
  BY <1>2, <1>3, <1>4, <1>5, <1>6, <1>7 DEF Next, Works

\* Leads is an invariant.
THEOREM LeadsHold == Spec => []Leads
<1>1. Init => Leads
  <2> SUFFICES ASSUME Init PROVE Leads
    OBVIOUS
  <2>1. /\ effects = <<>> /\ sittings = [e \in Episodes |-> Over]
        /\ \A e \in Episodes : row[e] = "none"
    BY DEF Init, SessionInit, StoreInit
  <2>2. \A e \in Episodes : Agrees(sittings[e], effects, KeptOf(e), e)
    BY <2>1, OfNone, AgreesIdle DEF Over
  <2>3. EffectsLead /\ RowsWereWritten
    BY <2>1 DEF EffectsLead, RowsWereWritten
  <2>4. QED
    BY <2>2, <2>3, StoreAgreesIs DEF Leads
<1>2. Places /\ Leads /\ [Next]_vars => Leads'
  BY NextLeads
<1>3. QED
  BY <1>1, <1>2, PlacesHold, PTL DEF Spec

\* A task that stops at any call loses nothing it has counted but the calls it
\* did not make (StoreAgrees).
THEOREM StoreAgreement == Spec => []StoreAgrees
<1>1. Leads => StoreAgrees
  BY DEF Leads
<1>2. QED
  BY <1>1, LeadsHold, PTL

\* Every call finds the store as the session took it to be (EffectsLead).
THEOREM EffectsLeading == Spec => []EffectsLead
<1>1. Leads => EffectsLead
  BY DEF Leads
<1>2. QED
  BY <1>1, LeadsHold, PTL

\* The detection task implements the Ledger (LedgerSpec): keeping a total is
\* watching, recording an episode registers its viewing once, and every other
\* step, failures and restarts included, leaves both as they are.
THEOREM ImplementsLedger == Spec => LedgerSpec
<1>1. Init => L!Init
  <2> SUFFICES ASSUME Init PROVE L!Init
    OBVIOUS
  <2>1. \A e \in Episodes : KeptOf(e) = Nothing
    BY DEF Init, StoreInit, KeptOf
  <2>2. seen = [e \in Episodes |-> 0]
    BY DEF Init, StoreInit
  <2>3. QED
    BY <2>1, <2>2 DEF L!Init, L!Nothing, Nothing
<1>2. Places /\ Leads /\ [Next]_vars => [L!Next]_(L!vars)
  <2> SUFFICES ASSUME Places, Leads, [Next]_vars PROVE [L!Next]_(L!vars)
    OBVIOUS
  <2>1. TypeOK
    BY DEF Places
  <2>2. ASSUME seen' = seen, \A e \in Episodes : KeptOf(e)' = KeptOf(e)
        PROVE  UNCHANGED L!vars
    BY <2>2 DEF L!vars
  <2>3. UNCHANGED storeVars => UNCHANGED L!vars
    BY <2>2 DEF storeVars, KeptOf
  <2>4. CASE CarryOutKeep
    <3>1. PICK e, w : e = Head(effects).episode /\ w = Head(effects).watched
      OBVIOUS
    <3>2. /\ e \in Episodes /\ seen' = seen
          /\ w \in Nat /\ KeptOf(e)' = Watching(Whole(w) * Grain)
          /\ \A d \in Episodes : d # e => KeptOf(d)' = KeptOf(d)
          /\ KeptOf(e).is = "registered" => w >= FirstSeconds
          /\ Whole(w) * Grain >= KeptOf(e).watched
      BY <2>1, <2>4, <3>1, CarryOutKeepLeads
    <3>3. Watching(Whole(w) * Grain).watched = Whole(w) * Grain
      BY DEF Watching
    <3>4. KeptOf(e).is = "registered" => Whole(w) * Grain >= FirstSeconds
      BY <3>2, WholeFirstSeconds
    <3>5. L!Watch(e)
      BY <3>2, <3>3, <3>4 DEF L!Watch, L!Watching, Watching
    <3>6. QED
      BY <3>2, <3>5 DEF L!Next
  <2>5. CASE CarryOutRecord
    <3>1. PICK e : e = Head(effects).episode
      OBVIOUS
    <3>2. /\ e \in Episodes /\ seen' = [seen EXCEPT ![e] = @ + 1]
          /\ KeptOf(e)' = Registered
          /\ \A d \in Episodes : d # e => KeptOf(d)' = KeptOf(d)
          /\ KeptOf(e).is = "watching" /\ EnoughKept(KeptOf(e).watched)
      BY <2>1, <2>5, <3>1, CarryOutRecordLeads
    <3>3. L!Register(e)
      BY <3>2 DEF L!Register, L!Registered, Registered, L!EnoughKept, EnoughKept, L!AnyLength, AnyLength
    <3>4. QED
      BY <3>2, <3>3 DEF L!Next
  <2>6. CASE CarryOutClose
    BY <2>1, <2>2, <2>6, CarryOutCloseLeads
  <2>7. CASE Poll \/ (\E p \in Players : Take(p)) \/ CarryOutResume \/ FinishRound
             \/ Fails \/ Restart \/ UNCHANGED vars
    <3>1. UNCHANGED storeVars
      BY <2>7 DEF Poll, Take, CarryOutResume, FinishRound, Fails, TaskFails, StoreRefuses,
                  DaemonDies, Lost, Restart, vars
    <3>2. QED
      BY <2>3, <3>1
  <2>8. QED
    BY <2>4, <2>5, <2>6, <2>7 DEF Next, Works, CarryOut
<1>3. QED
  BY <1>1, <1>2, PlacesHold, LeadsHold, PTL DEF Spec, LedgerSpec, L!Spec

-----------------------------------------------------------------------------
(***************************************************************************)
(* What the task counts: once what was played once (CountedOnce), and an   *)
(* episode is recorded only where it was played for long enough            *)
(* (RecordedOnEnough).                                                     *)
(*                                                                         *)
(* The argument is about where the ticks that were vouched for lie.  A     *)
(* reading adds the ticks from the later of two instants, the player's     *)
(* reading before and the one the sitting has counted up to, to its own.   *)
(* Every tick vouched for before it is either before the second of these   *)
(* instants, or before every reading the sitting holds and before every    *)
(* reading the round has yet to take: so it is none of those that are      *)
(* added.                                                                  *)
(***************************************************************************)

-----------------------------------------------------------------------------
(***************************************************************************)
(* Ticks.                                                                  *)
(***************************************************************************)

\* There are as many ticks between two instants as the time between them.
LEMMA TicksBetween ==
    ASSUME NEW a \in Nat, NEW b \in Nat
    PROVE  /\ IsFiniteSet(b..(a - 1))
           /\ Cardinality(b..(a - 1)) = Since(a, b)
<1>1. b \in Int /\ a - 1 \in Int
  OBVIOUS
<1>2. /\ IsFiniteSet(b..(a - 1))
      /\ Cardinality(b..(a - 1)) = IF b > a - 1 THEN 0 ELSE (a - 1) - b + 1
  BY <1>1, FS_Interval
<1>3. QED
  BY <1>2 DEF Since

\* Ticks that were vouched for are counted with as many more as are new.
LEMMA NewTicks ==
    ASSUME NEW S, IsFiniteSet(S), NEW U, IsFiniteSet(U),
           NEW a \in Nat, NEW b \in Nat,
           b..(a - 1) \subseteq U, S \cap (b..(a - 1)) = {}
    PROVE  /\ IsFiniteSet(S \cup U)
           /\ Cardinality(S \cup U) \in Nat
           /\ Cardinality(S \cup U) >= Cardinality(S) + Since(a, b)
<1> DEFINE T == b..(a - 1)
<1>1. IsFiniteSet(T) /\ Cardinality(T) = Since(a, b)
  BY TicksBetween
<1>2. S \cap T = {} /\ T \subseteq U
  OBVIOUS
<1> HIDE DEF T
<1>3. /\ IsFiniteSet(S \cup T)
      /\ Cardinality(S \cup T) =
            Cardinality(S) + Cardinality(T) - Cardinality(S \cap T)
  BY <1>1, FS_Union
<1>4. Cardinality(S \cap T) = 0
  BY <1>2, FS_EmptySet
<1>5. IsFiniteSet(S \cup U)
  BY FS_Union
<1>6. Cardinality(S \cup T) <= Cardinality(S \cup U)
  BY <1>2, <1>5, FS_Subset
<1>7. /\ Cardinality(S) \in Nat /\ Cardinality(T) \in Nat
      /\ Cardinality(S \cup T) \in Nat /\ Cardinality(S \cup U) \in Nat
  BY <1>1, <1>3, <1>5, FS_CardinalityType
<1>8. QED
  BY <1>1, <1>3, <1>4, <1>5, <1>6, <1>7

-----------------------------------------------------------------------------
(***************************************************************************)
(* Where the ticks vouched for lie.  Behind is of one sitting, the ticks   *)
(* vouched for its episode, and an instant no reading still to be taken is *)
(* before.                                                                 *)
(***************************************************************************)

IsCounting(s) == s.stage \in {"opening", "counting"}

Behind(s, V, floor) ==
    \A t \in V :
        \/ IsCounting(s) /\ t < s.until
        \/ /\ t < floor
           /\ \A p \in Players : Has(s, p) => t < s.players[p].at

\* What a reading of a player the sitting counts vouches for.
Fresh(c, r) ==
    IF c.file = r.file /\ c.playing /\ Observed(c, r) THEN c.at..(r.at - 1) ELSE {}

\* A later floor is behind nothing a lower one was not.
LEMMA BehindRises ==
    ASSUME NEW s, NEW V \in SUBSET Nat, NEW low \in Nat, NEW high \in Nat, low <= high,
           Behind(s, V, low)
    PROVE  Behind(s, V, high)
BY DEF Behind

\* Players that leave a sitting leave its ticks behind it.
LEMMA LeaveBehind ==
    ASSUME NEW s \in Sitting, NEW gone, NEW V, NEW floor, Behind(s, V, floor)
    PROVE  Behind(Leave(s, gone), V, floor)
<1>1. /\ Leave(s, gone).stage = s.stage /\ Leave(s, gone).until = s.until
      /\ \A p \in Players : Has(Leave(s, gone), p) =>
            Has(s, p) /\ Leave(s, gone).players[p] = s.players[p]
  BY DEF Leave, Sitting, Has
<1>2. QED
  BY <1>1 DEF Behind, IsCounting

\* A reading that enters a sitting is no earlier than the floor.
LEMMA EnterBehind ==
    ASSUME NEW s \in Sitting, NEW r \in Reading, NEW V \in SUBSET Nat, NEW floor \in Nat,
           floor <= r.at, Behind(s, V, floor)
    PROVE  Behind(Enter(s, r), V, floor)
<1> DEFINE noted == IF s.stage = "asked" THEN Held(r) ELSE CountedFrom(Held(r))
<1>1. noted.at = r.at
  BY DEF Held, CountedFrom
<1>2. /\ Enter(s, r).players = [s.players EXCEPT ![r.player] = noted]
      /\ Enter(s, r).stage = s.stage /\ Enter(s, r).until = s.until
  BY DEF Enter, Sitting
<1>3. r.at \in Nat /\ r.player \in Players /\ s.players \in [Players -> Counted \cup {Out}]
  BY DEF Reading, Sitting
<1> HIDE DEF noted
<1>4. ASSUME NEW p \in Players, Has(Enter(s, r), p)
      PROVE  \/ Enter(s, r).players[p].at = r.at
             \/ Has(s, p) /\ Enter(s, r).players[p] = s.players[p]
  BY <1>1, <1>2, <1>3, <1>4 DEF Has
<1>5. \A t \in V : t \in Nat
  OBVIOUS
<1>6. QED
  BY <1>2, <1>3, <1>4, <1>5 DEF Behind, IsCounting

\* A sitting that begins holds one reading, no earlier than the floor.
LEMMA AskingBehind ==
    ASSUME NEW q \in Nat, NEW r \in Reading, NEW V \in SUBSET Nat, NEW floor \in Nat,
           floor <= r.at, \A t \in V : t < floor
    PROVE  Behind(Asking(q, r), V, floor)
<1> DEFINE s == [Over EXCEPT !.stage = "asked", !.question = q]
<1>1. s \in Sitting
  BY OverType DEF Sitting, Stages
<1>2. \A p \in Players : ~Has(s, p)
  BY DEF Has, Over, Nobody
<1>3. Behind(s, V, floor)
  BY <1>2 DEF Behind
<1> HIDE DEF s
<1>4. Behind(Enter(s, r), V, floor)
  BY <1>1, <1>3, EnterBehind
<1>5. QED
  BY <1>4 DEF Asking, s

\* An answer moves no reading, and begins to count where nothing is counted.
LEMMA AnsweredBehind ==
    ASSUME NEW s \in Sitting, NEW q, NEW kept, NEW V, NEW floor, Behind(s, V, floor)
    PROVE  Behind(Answered(s, q, kept), V, floor)
<1>1. CASE Answered(s, q, kept) = s
  BY <1>1
<1>2. CASE s.stage = "asked" /\ s.question = q
  <2>1. \A p \in Players : Has(Answered(s, q, kept), p) =>
           Has(s, p) /\ Answered(s, q, kept).players[p].at = s.players[p].at
    <3>1. s.players \in [Players -> Counted \cup {Out}]
      BY DEF Sitting
    <3>2. Answered(s, q, kept).players =
             [p \in Players |-> IF s.players[p] = Out THEN Out ELSE CountedFrom(s.players[p])]
      BY <1>2 DEF Answered, Sitting
    <3>3. \A c \in Counted : CountedFrom(c).at = c.at
      BY DEF CountedFrom, Counted
    <3>4. QED
      BY <3>1, <3>2, <3>3 DEF Has
  <2>2. QED
    BY <1>2, <2>1 DEF Behind, IsCounting
<1>3. QED
  BY <1>1, <1>2, AnsweredKeeps

\* Where a reading leaves a sitting counting: nothing but the reading's own
\* player has moved, and the sitting has counted up to the reading where it
\* added anything.
LEMMA ReadMoves ==
    ASSUME NEW s \in Sitting, NEW r \in Reading, Has(s, r.player),
           IsCounting(s), s.players[r.player].file = r.file,
           Read(s, r).stage # "registered"
    PROVE  /\ IsCounting(Read(s, r))
           /\ Read(s, r).until =
                 IF Added(s, r) > 0 THEN Later(s.until, r.at) ELSE s.until
           /\ Read(s, r).watched = Total(s, r)
           /\ \A p \in Players :
                 IF p = r.player THEN Read(s, r).players[p].at = r.at
                 ELSE Read(s, r).players[p] = s.players[p]
<1> DEFINE F == Followed(s, r)
           u == IF Added(s, r) > 0 THEN Later(s.until, r.at) ELSE s.until
           noted == [CountedFrom(Held(r)) EXCEPT !.length = LengthKnown(s.players[r.player], r)]
<1>1. /\ F.players = [s.players EXCEPT ![r.player] = noted]
      /\ F.until = u /\ F.watched = Total(s, r) /\ F.stage = s.stage
  BY DEF Followed, Sitting
<1>2. noted.at = r.at
  BY DEF CountedFrom, Held
<1>3. F \in Sitting
  BY FollowedType
<1> HIDE DEF F, noted
<1>4. r.player \in Players /\ s.players \in [Players -> Counted \cup {Out}]
  BY DEF Reading, Sitting
<1>5. \A p \in Players :
         IF p = r.player THEN F.players[p].at = r.at ELSE F.players[p] = s.players[p]
  BY <1>1, <1>2, <1>4
<1>6. \/ Read(s, r) = F
      \/ Read(s, r) = ToStage(F, "counting")
      \/ Read(s, r) = ToStage(F, "registered")
  BY DEF Read, IsCounting, F
<1>7. ToStage(F, "registered").stage = "registered"
  BY <1>3 DEF ToStage, Sitting
<1>8. /\ ToStage(F, "counting").stage = "counting"
      /\ ToStage(F, "counting").until = F.until
      /\ ToStage(F, "counting").watched = F.watched
      /\ ToStage(F, "counting").players = F.players
  BY <1>3 DEF ToStage, Sitting
<1>9. CASE Read(s, r) = F
  BY <1>1, <1>5, <1>9 DEF IsCounting
<1>10. CASE Read(s, r) = ToStage(F, "counting")
  <2>1. /\ IsCounting(Read(s, r)) /\ Read(s, r).until = u
        /\ Read(s, r).watched = Total(s, r)
        /\ Read(s, r).players = F.players
    BY <1>1, <1>8, <1>10 DEF IsCounting
  <2>2. QED
    BY ONLY <1>5, <2>1
<1>11. QED
  BY <1>6, <1>7, <1>9, <1>10

\* The ticks a reading vouches for are behind the sitting it leaves counting.
LEMMA ReadBehind ==
    ASSUME NEW s \in Sitting, NEW r \in Reading, Has(s, r.player), IsCounting(s),
           NEW V \in SUBSET Nat, NEW floor \in Nat, floor <= r.at, Behind(s, V, floor),
           Read(s, r).stage # "registered"
    PROVE  Behind(Read(s, r), V \cup Fresh(s.players[r.player], r), floor)
<1> DEFINE c == s.players[r.player]
<1>1. c \in Counted /\ c.at \in Nat /\ s.until \in Nat /\ r.at \in Nat /\ r.player \in Players
  BY DEF Has, Sitting, Reading, Counted
<1>2. CASE c.file # r.file
  <2>1. Read(s, r) = Enter(s, r) /\ Fresh(c, r) = {}
    BY <1>2 DEF Read, IsCounting, Fresh
  <2>2. QED
    BY <2>1, EnterBehind
<1>3. CASE c.file = r.file
  <2>1. /\ IsCounting(Read(s, r))
        /\ Read(s, r).until = IF Added(s, r) > 0 THEN Later(s.until, r.at) ELSE s.until
        /\ \A p \in Players :
              IF p = r.player THEN Read(s, r).players[p].at = r.at
              ELSE Read(s, r).players[p] = s.players[p]
    BY <1>3, ReadMoves
  <2>2. /\ Read(s, r).until \in Nat /\ Read(s, r).until >= s.until
        /\ Added(s, r) > 0 => Read(s, r).until >= r.at
    BY <1>1, <2>1 DEF Later
  <2>3. ASSUME NEW t \in V, t < s.until
        PROVE  t < Read(s, r).until
    BY <1>1, <2>2, <2>3
  <2>4. ASSUME NEW t \in V, t < floor,
               \A p \in Players : Has(s, p) => t < s.players[p].at,
               NEW p \in Players, Has(Read(s, r), p)
        PROVE  t < Read(s, r).players[p].at
    <3>1. CASE p = r.player
      BY <1>1, <2>1, <2>4, <3>1
    <3>2. CASE p # r.player
      BY <2>1, <2>4, <3>2 DEF Has
    <3>3. QED
      BY <3>1, <3>2
  <2>5. ASSUME NEW t \in Fresh(c, r)
        PROVE  t < Read(s, r).until
    <3>1. /\ c.playing /\ Observed(c, r)
          /\ t \in Nat /\ c.at <= t /\ t < r.at
      BY <1>1, <2>5 DEF Fresh
    <3>2. Added(s, r) = Since(r.at, Later(c.at, s.until))
      BY <1>3, <3>1 DEF Added
    <3>3. Added(s, r) > 0 \/ s.until >= r.at
      BY <1>1, <3>1, <3>2 DEF Since, Later
    <3>4. QED
      BY <1>1, <2>2, <3>1, <3>3
  <2>6. QED
    BY <2>1, <2>3, <2>4, <2>5 DEF Behind
<1>4. QED
  BY <1>2, <1>3

\* What a sitting has watched with a reading is no more than the ticks vouched
\* for with it, where what it had watched before was no more.
LEMMA ReadPlayed ==
    ASSUME NEW s \in Sitting, NEW r \in Reading, Has(s, r.player), IsCounting(s),
           NEW V \in SUBSET Nat, IsFiniteSet(V), NEW floor \in Nat, floor <= r.at,
           Behind(s, V, floor), s.watched <= Cardinality(V)
    PROVE  LET W == V \cup Fresh(s.players[r.player], r) IN
           /\ IsFiniteSet(W)
           /\ Cardinality(W) \in Nat
           /\ Total(s, r) <= Cardinality(W)
<1> DEFINE c == s.players[r.player]
           U == Fresh(c, r)
           b == Later(c.at, s.until)
<1>1. /\ c \in Counted /\ c.at \in Nat /\ s.until \in Nat /\ s.watched \in Nat
      /\ r.at \in Nat /\ r.player \in Players /\ b \in Nat
  BY DEF Has, Sitting, Reading, Counted, Later
<1>2. IsFiniteSet(U)
  BY <1>1, TicksBetween, FS_EmptySet DEF Fresh
<1>3. Cardinality(V) \in Nat
  BY FS_CardinalityType
<1>4. CASE c.file = r.file /\ c.playing /\ Observed(c, r)
  <2>1. U = c.at..(r.at - 1) /\ Added(s, r) = Since(r.at, b)
    BY <1>4 DEF Fresh, Added
  <2>2. b..(r.at - 1) \subseteq U
    BY <1>1, <2>1 DEF Later
  <2>3. V \cap (b..(r.at - 1)) = {}
    <3> SUFFICES ASSUME NEW t \in V, t >= b PROVE FALSE
      BY <1>1
    <3>1. t \in Nat /\ t >= c.at /\ t >= s.until
      BY <1>1 DEF Later
    <3>2. QED
      BY <1>1, <3>1 DEF Behind
  <2>4. /\ IsFiniteSet(V \cup U) /\ Cardinality(V \cup U) \in Nat
        /\ Cardinality(V \cup U) >= Cardinality(V) + Since(r.at, b)
    BY <1>1, <1>2, <2>2, <2>3, NewTicks
  <2>5. Since(r.at, b) \in Nat
    BY <1>1 DEF Since
  <2>6. QED
    BY <1>1, <1>3, <2>1, <2>4, <2>5 DEF Total
<1>5. CASE ~(c.file = r.file /\ c.playing /\ Observed(c, r))
  <2>1. U = {} /\ Added(s, r) = 0
    BY <1>5 DEF Fresh, Added
  <2>2. V \cup U = V
    BY <2>1
  <2>3. QED
    BY <1>1, <1>3, <2>1, <2>2 DEF Total
<1>6. QED
  BY <1>4, <1>5

-----------------------------------------------------------------------------
(***************************************************************************)
(* What a sitting holds of its players: the readings they were last taken  *)
(* at.                                                                     *)
(***************************************************************************)

Notes(c, r) == c.at = r.at /\ c.playing = r.playing /\ c.file = r.file

\* A player that enters a sitting is held at its reading, and the others stay.
LEMMA EnterNotes ==
    ASSUME NEW s \in Sitting, NEW r \in Reading, NEW p \in Players
    PROVE  IF p = r.player THEN Notes(Enter(s, r).players[p], r)
           ELSE Enter(s, r).players[p] = s.players[p]
<1> DEFINE noted == IF s.stage = "asked" THEN Held(r) ELSE CountedFrom(Held(r))
<1>1. Notes(noted, r)
  BY DEF Held, CountedFrom, Notes
<1>2. Enter(s, r).players = [s.players EXCEPT ![r.player] = noted]
      /\ s.players \in [Players -> Counted \cup {Out}]
  BY DEF Enter, Sitting
<1> HIDE DEF noted
<1>3. QED
  BY <1>1, <1>2

\* A sitting that begins holds its player at the reading that opened it.
LEMMA AskingNotes ==
    ASSUME NEW q \in Nat, NEW r \in Reading
    PROVE  Notes(Asking(q, r).players[r.player], r)
<1> DEFINE s == [Over EXCEPT !.stage = "asked", !.question = q]
<1>1. s \in Sitting /\ r.player \in Players
  BY OverType DEF Sitting, Stages, Reading
<1> HIDE DEF s
<1>2. Notes(Enter(s, r).players[r.player], r)
  BY <1>1, EnterNotes
<1>3. QED
  BY <1>2 DEF Asking, s

\* A player that is read is held at its reading, and the others stay.
LEMMA ReadNotes ==
    ASSUME NEW s \in Sitting, NEW r \in Reading, Has(s, r.player), IsCounting(s),
           Read(s, r).stage # "registered", NEW p \in Players
    PROVE  IF p = r.player THEN Notes(Read(s, r).players[p], r)
           ELSE Read(s, r).players[p] = s.players[p]
<1> DEFINE F == Followed(s, r)
           noted == [CountedFrom(Held(r)) EXCEPT !.length = LengthKnown(s.players[r.player], r)]
<1>1. F.players = [s.players EXCEPT ![r.player] = noted]
      /\ s.players \in [Players -> Counted \cup {Out}]
  BY DEF Followed, Sitting
<1>2. Notes(noted, r)
  BY DEF CountedFrom, Held, Notes
<1>3. F \in Sitting
  BY FollowedType
<1> HIDE DEF F, noted
<1>4. \/ Read(s, r) = F
      \/ Read(s, r) = ToStage(F, "counting")
      \/ Read(s, r) = ToStage(F, "registered")
      \/ Read(s, r) = Enter(s, r)
  BY DEF Read, IsCounting, F
<1>5. /\ ToStage(F, "registered").stage = "registered"
      /\ ToStage(F, "counting").players = F.players
  BY <1>3 DEF ToStage, Sitting
<1>6. IF p = r.player THEN Notes(F.players[p], r) ELSE F.players[p] = s.players[p]
  BY <1>1, <1>2
<1>7. CASE Read(s, r) = Enter(s, r)
  BY <1>7, EnterNotes
<1>8. CASE Read(s, r).players = F.players
  BY ONLY <1>6, <1>8
<1>9. QED
  BY <1>4, <1>5, <1>7, <1>8

\* What a sitting that goes on counting has watched after a reading.
LEMMA ReadWatched ==
    ASSUME NEW s \in Sitting, NEW r \in Reading, Has(s, r.player), IsCounting(s),
           Read(s, r).stage # "registered"
    PROVE  Read(s, r).watched \in {s.watched, Total(s, r)}
<1>1. CASE s.players[r.player].file = r.file
  BY <1>1, ReadMoves
<1>2. CASE s.players[r.player].file # r.file
  BY <1>2, EnterKeeps DEF Read, IsCounting
<1>3. QED
  BY <1>1, <1>2

-----------------------------------------------------------------------------
(***************************************************************************)
(* The inductive invariant.                                                *)
(***************************************************************************)

\* No reading the round has yet to take is stamped before it.
Floor == IF todo = {} THEN clock ELSE Since(clock, Skew)

\* A sitting that can still count has every tick vouched for behind it.
TicksAreBehind ==
    \A e \in Episodes :
        /\ \A t \in vouched[e] : t < clock
        /\ sittings[e].stage # "registered" =>
              Behind(sittings[e], vouched[e], Floor)

\* A sitting holds a player at the reading it was last taken at.
ReadingsAreHeld ==
    \A p \in Players, e \in Episodes :
        Names(p, e) /\ sittings[e].stage # "registered" =>
            Notes(sittings[e].players[p], last[p])

\* What is counted, and what is to be kept and recorded of it, was played.
Played(s, es, V, e) ==
    /\ IsCounting(s) => s.watched <= Cardinality(V)
    /\ \A i \in Of(es, "keep", e) : es[i].watched <= Cardinality(V)
    /\ Of(es, "record", e) # {} => s.stage = "registered" /\ Enough(Cardinality(V))

PendingIsPlayed ==
    \A e \in Episodes : Played(sittings[e], effects, vouched[e], e)

Once ==
    /\ TicksAreBehind
    /\ ReadingsAreHeld
    /\ PendingIsPlayed
    /\ CountedOnce

\* The next state's, spelled for each variable.
LEMMA OnceNext ==
    ASSUME \A e \in Episodes :
              /\ \A t \in vouched'[e] : t < clock'
              /\ sittings'[e].stage # "registered" =>
                    Behind(sittings'[e], vouched'[e], Floor'),
           \A p \in Players, e \in Episodes :
              Names(p, e)' /\ sittings'[e].stage # "registered" =>
                  Notes(sittings'[e].players[p], last'[p]),
           \A e \in Episodes :
              /\ Played(sittings'[e], effects', vouched'[e], e)
              /\ row'[e] = "watching" => total'[e] * Grain <= Cardinality(vouched'[e])
    PROVE  Once'
<1>1. TicksAreBehind'
  BY DEF TicksAreBehind, Behind, IsCounting, Has
<1>2. ReadingsAreHeld'
  BY DEF ReadingsAreHeld, Notes
<1>3. PendingIsPlayed'
  BY DEF PendingIsPlayed, Played, IsCounting, Of, Enough
<1>4. CountedOnce'
  BY DEF CountedOnce, Played, IsCounting
<1>5. QED
  BY <1>1, <1>2, <1>3, <1>4 DEF Once

\* The ticks vouched for are so many.
LEMMA VouchedAreFinite ==
    ASSUME TypeOK, Once, NEW e \in Episodes
    PROVE  /\ vouched[e] \in SUBSET Nat
           /\ IsFiniteSet(vouched[e])
           /\ Cardinality(vouched[e]) \in Nat
<1>1. /\ vouched[e] \in SUBSET Nat /\ clock \in Nat
      /\ \A t \in vouched[e] : t <= clock
  BY DEF TypeOK, Once, TicksAreBehind
<1>2. IsFiniteSet(vouched[e])
  BY <1>1, FS_BoundedSetOfNaturals
<1>3. QED
  BY <1>1, <1>2, FS_CardinalityType

\* The floor is no later than now, and no reading left to take is before it.
LEMMA FloorIsBelow ==
    ASSUME TypeOK
    PROVE  Floor \in Nat /\ Floor <= clock
BY TimeAssumption DEF TypeOK, Floor, Since


-----------------------------------------------------------------------------
(***************************************************************************)
(* The invariant is kept by each action.                                   *)
(***************************************************************************)

\* What a reading makes of the sitting of each episode, and what it answers.
LEMMA AdvanceMakes ==
    ASSUME SessionTypeOK, NobodyInOver, NEW r \in Reading, Advance(r), NEW e \in Episodes
    PROVE  \/ /\ e # r.episode
              /\ sittings'[e] \in {sittings[e], Leave(sittings[e], {r.player})}
              /\ Of(effects', "keep", e) \cup Of(effects', "record", e) = {}
           \/ /\ e = r.episode /\ Has(sittings[e], r.player)
              /\ sittings'[e] = Read(sittings[e], r)
              /\ effects' = Answer(sittings[e], r)
           \/ /\ e = r.episode /\ ~Has(sittings[e], r.player)
              /\ sittings'[e] = Enter(sittings[e], r)
              /\ effects' = <<>>
           \/ /\ e = r.episode /\ ~Has(sittings[e], r.player)
              /\ sittings[e].stage = "over"
              /\ sittings'[e] = Asking(asked + 1, r)
              /\ effects' = <<Resume(e, asked + 1)>>
<1>1. sittings \in [Episodes -> Sitting] /\ sittings[e] \in Sitting
  BY DEF SessionTypeOK
<1>2. CASE Continue(r)
  <2> DEFINE f == r.episode
             a == Answer(sittings[f], r)
  <2>1. /\ f \in Episodes /\ sittings[f] \in Sitting /\ Has(sittings[f], r.player)
        /\ sittings' = [sittings EXCEPT ![f] = Read(sittings[f], r)]
        /\ effects' = a
    BY <1>1, <1>2 DEF Continue, GoesOnIn
  <2>2. CASE e = f
    BY <1>1, <2>1, <2>2
  <2>3. CASE e # f
    <3>1. \/ a = <<>>
          \/ a = <<Keep(f, Total(sittings[f], r))>>
          \/ a = <<Keep(f, Total(sittings[f], r)), Record(f)>>
      BY <2>1, AnswerShape
    <3> HIDE DEF a
    <3>2. Of(a, "keep", e) \cup Of(a, "record", e) = {}
      BY <2>3, <3>1, OfNone, OfKeep, OfKeepRecord
    <3>3. sittings'[e] = sittings[e]
      BY <1>1, <2>1, <2>3
    <3>4. QED
      BY <2>1, <2>3, <3>2, <3>3
  <2>4. QED
    BY <2>2, <2>3
<1>3. CASE Depart(r)
  <2>1. e # r.episode /\ sittings'[e] = Leave(sittings[e], {r.player}) /\ effects' = <<>>
    BY <1>3, ReadingsAssumption DEF Depart, WithoutPlayers
  <2>2. QED
    BY <2>1, OfNone
<1>4. CASE Join(r)
  <2>1. /\ effects' = <<>>
        /\ sittings'[e] = IF e = r.episode THEN Enter(sittings[e], r)
                          ELSE Leave(sittings[e], {r.player})
        /\ ~GoesOnIn(r)
    BY <1>4 DEF Join
  <2>2. QED
    BY <2>1, OfNone DEF GoesOnIn
<1>5. CASE Begin(r)
  <2>1. /\ effects' = <<Resume(r.episode, asked + 1)>>
        /\ sittings'[e] = IF e = r.episode THEN Asking(asked + 1, r)
                          ELSE Leave(sittings[e], {r.player})
        /\ sittings[r.episode].stage = "over"
    BY <1>5 DEF Begin
  <2>2. e = r.episode => ~Has(sittings[e], r.player)
    BY <2>1 DEF NobodyInOver, IsEmpty, Reading
  <2>3. QED
    BY <2>1, <2>2, OfResume
<1>6. QED
  BY <1>2, <1>3, <1>4, <1>5 DEF Advance

\* Losing the session counts nothing.
LEMMA LostOnce ==
    ASSUME TypeOK, Once, Lost
    PROVE  Once'
<1>1. /\ effects' = <<>> /\ sittings' = [e \in Episodes |-> Over]
      /\ row' = row /\ total' = total /\ vouched' = vouched /\ clock' = clock
      /\ todo' = {} /\ last' = [p \in Players |-> Out]
  BY DEF Lost, SessionLost, storeVars
<1>2. \A p \in Players, e \in Episodes : ~Names(p, e)'
  BY <1>1 DEF Names
<1>3. Floor' = clock
  BY <1>1 DEF Floor
<1>4. ASSUME NEW e \in Episodes
      PROVE  /\ \A t \in vouched'[e] : t < clock'
             /\ Behind(sittings'[e], vouched'[e], Floor')
  BY <1>1, <1>3, OverHas DEF Once, TicksAreBehind, Behind
<1>5. ASSUME NEW e \in Episodes
      PROVE  /\ Played(sittings'[e], effects', vouched'[e], e)
             /\ row'[e] = "watching" => total'[e] * Grain <= Cardinality(vouched'[e])
  BY <1>1, OfNone DEF Once, CountedOnce, Played, IsCounting, Over
<1>6. QED
  BY <1>2, <1>4, <1>5, OnceNext

\* A round that begins later than the readings of the round before were
\* stamped leaves every tick behind the floor of its own.
LEMMA PollOnce ==
    ASSUME TypeOK, Once, ~inRound => todo = {}, Poll
    PROVE  Once'
<1>1. /\ effects' = effects /\ sittings' = sittings /\ row' = row /\ total' = total
      /\ vouched' = vouched /\ todo = {}
  BY DEF Poll, sessionVars, storeVars
<1>2. PICK admitted \in SUBSET Players, mute \in SUBSET Players :
        /\ \/ clock = MaxTime /\ admitted = {} /\ UNCHANGED clock
           \/ \E gap \in Gaps : clock' = clock + gap
        /\ todo' = admitted
        /\ last' = [p \in Players |->
                       IF p \in admitted \cup mute THEN last[p] ELSE Out]
  BY DEF Poll
<1>3. Floor = clock /\ clock \in Nat
  BY <1>1 DEF Floor, TypeOK
<1>4. clock' \in Nat /\ clock' >= clock /\ Floor' \in Nat /\ Floor' >= clock
  <2>1. CASE clock' = clock /\ todo' = {}
    BY <1>3, <2>1 DEF Floor
  <2>2. ASSUME NEW gap \in Gaps, clock' = clock + gap
        PROVE  clock' \in Nat /\ clock' >= clock /\ Floor' \in Nat /\ Floor' >= clock
    <3>1. gap \in Nat /\ Skew \in Nat /\ Skew <= gap
      BY TimeAssumption
    <3>2. QED
      BY <1>3, <2>2, <3>1 DEF Floor, Since
  <2>3. QED
    BY <1>2, <2>1, <2>2
<1>5. ASSUME NEW e \in Episodes
      PROVE  /\ \A t \in vouched'[e] : t < clock'
             /\ sittings'[e].stage # "registered" => Behind(sittings'[e], vouched'[e], Floor')
  <2>1. /\ \A t \in vouched[e] : t \in Nat /\ t < clock
        /\ vouched[e] \in SUBSET Nat
    BY DEF Once, TicksAreBehind, TypeOK
  <2>2. sittings[e].stage # "registered" => Behind(sittings[e], vouched[e], Floor)
    BY DEF Once, TicksAreBehind
  <2>3. QED
    BY <1>1, <1>3, <1>4, <2>1, <2>2, BehindRises
<1>6. \A p \in Players, e \in Episodes :
         Names(p, e)' => Names(p, e) /\ last'[p] = last[p]
  BY <1>2 DEF Names
<1>7. QED
  BY <1>1, <1>5, <1>6, OnceNext DEF Once, ReadingsAreHeld, PendingIsPlayed, CountedOnce

\* A step that leaves alone all the invariant speaks of.
LEMMA RestOnce ==
    ASSUME Once, UNCHANGED <<sittings, effects, row, total, todo, clock, last, vouched>>
    PROVE  Once'
<1>1. Floor' = Floor
  BY DEF Floor
<1>2. \A p \in Players, e \in Episodes : Names(p, e)' <=> Names(p, e)
  BY DEF Names
<1>3. QED
  BY <1>1, <1>2, OnceNext DEF Once, TicksAreBehind, ReadingsAreHeld, PendingIsPlayed, CountedOnce

\* The end of a round takes players away, and begins no count.
LEMMA FinishRoundOnce ==
    ASSUME Places, Once, FinishRound
    PROVE  Once'
<1>0. TypeOK /\ NobodyInOver
  BY DEF Places
<1>1. /\ EndRound(quiet) /\ row' = row /\ total' = total /\ vouched' = vouched
      /\ clock' = clock /\ todo' = todo /\ todo = {} /\ last' = last
  BY DEF FinishRound, storeVars, historyVars
<1>2. Floor' = Floor /\ Floor = clock
  BY <1>1 DEF Floor
<1>3. \A i \in 1..Len(effects') : effects'[i].do = "close"
  BY <1>0, <1>1, EndRoundType DEF TypeOK
<1>4. ASSUME NEW e \in Episodes
      PROVE  /\ sittings[e] \in Sitting
             /\ sittings'[e] = Over \/ sittings'[e] = Leave(sittings[e], quiet)
  BY <1>0, <1>1 DEF EndRound, WithoutPlayers, TypeOK, SessionTypeOK
<1>5. ASSUME NEW e \in Episodes
      PROVE  /\ \A t \in vouched'[e] : t < clock'
             /\ sittings'[e].stage # "registered" => Behind(sittings'[e], vouched'[e], Floor')
             /\ Played(sittings'[e], effects', vouched'[e], e)
             /\ row'[e] = "watching" => total'[e] * Grain <= Cardinality(vouched'[e])
  <2>1. /\ \A t \in vouched[e] : t < clock
        /\ sittings[e].stage # "registered" => Behind(sittings[e], vouched[e], Floor)
        /\ IsCounting(sittings[e]) => sittings[e].watched <= Cardinality(vouched[e])
        /\ row[e] = "watching" => total[e] * Grain <= Cardinality(vouched[e])
    BY DEF Once, TicksAreBehind, CountedOnce, IsCounting
  <2>2. Of(effects', "keep", e) \cup Of(effects', "record", e) = {}
    BY <1>3, OfCloses
  <2>3. CASE sittings'[e] = Over
    <3>1. Behind(Over, vouched[e], clock)
      BY <2>1, OverHas DEF Behind
    <3>2. Over.stage = "over"
      BY DEF Over
    <3>3. QED
      BY <1>1, <1>2, <2>1, <2>2, <2>3, <3>1, <3>2 DEF Played, IsCounting
  <2>4. CASE sittings'[e] = Leave(sittings[e], quiet)
    BY <1>1, <1>2, <1>4, <2>1, <2>2, <2>4, LeaveBehind, LeaveStage, LeaveKeeps
       DEF Played, IsCounting
  <2>5. QED
    BY <1>4, <2>3, <2>4
<1>6. ASSUME NEW p \in Players, NEW e \in Episodes, Names(p, e)',
             sittings'[e].stage # "registered"
      PROVE  Notes(sittings'[e].players[p], last'[p])
  <2>1. Names(p, e) /\ last[p] # Out
    BY <1>1, <1>6 DEF Names
  <2>2. p \notin quiet /\ Has(sittings[e], p)
    BY <2>1 DEF Places, QuietAreGone, SittingsFollowReadings
  <2>3. Has(sittings'[e], p)
    BY <1>0, <1>1, <2>2, EndRoundPlaces DEF TypeOK
  <2>4. sittings'[e] = Leave(sittings[e], quiet)
    BY <1>4, <2>3, OverHas
  <2>5. /\ sittings'[e].players[p] = sittings[e].players[p]
        /\ sittings[e].stage # "registered"
    BY <1>4, <1>6, <2>2, <2>4 DEF Leave, Sitting
  <2>6. QED
    BY <1>1, <2>1, <2>5 DEF Once, ReadingsAreHeld
<1>7. QED
  BY <1>5, <1>6, OnceNext

\* An answer brought back: the sitting goes on from the total that was kept.
LEMMA CarryOutResumeOnce ==
    ASSUME Places, Leads, Once, CarryOutResume
    PROVE  Once'
<1> DEFINE e == Head(effects).episode
           q == Head(effects).question
<1>0. TypeOK
  BY DEF Places
<1>1. /\ effects # <<>> /\ Head(effects).do = "resume"
      /\ Resumed(q, KeptOf(e)) /\ effects' = Tail(effects)
      /\ row' = row /\ total' = total /\ vouched' = vouched
      /\ clock' = clock /\ todo' = todo /\ last' = last
  BY DEF CarryOutResume, storeVars, roundVars, historyVars
<1>2. /\ e \in Episodes /\ sittings[e].stage = "asked"
      /\ \E w : effects = <<Resume(e, w)>>
  BY <1>0, <1>1, HeadIs
<1> HIDE DEF e, q
<1>3. effects' = <<>>
  BY <1>1, <1>2
<1>4. Floor' = Floor
  BY <1>1 DEF Floor
<1>5. ASSUME NEW d \in Episodes
      PROVE  /\ sittings[d] \in Sitting
             /\ sittings'[d] = Answered(sittings[d], q, KeptOf(e))
             /\ \/ sittings'[d] = sittings[d]
                \/ /\ sittings[d].stage = "asked"
                   /\ sittings'[d].stage # "registered"
                   /\ sittings'[d].watched = KeptOf(e).watched
                   /\ d = e
  <2>1. /\ sittings[d] \in Sitting
        /\ sittings'[d] = Answered(sittings[d], q, KeptOf(e))
    BY <1>0, <1>1 DEF Resumed, TypeOK, SessionTypeOK
  <2>2. sittings[d].stage = "asked" => d = e
    <3>1. Agrees(sittings[d], effects, KeptOf(d), d)
      BY StoreAgreesIs DEF Leads
    <3>2. \A w, x : <<Resume(e, w)>> = <<Resume(d, x)>> => d = e
      BY DEF Resume
    <3>3. QED
      BY <1>2, <3>1, <3>2 DEF Agrees
  <2>3. QED
    BY <2>1, <2>2, AnsweredKeeps
<1>6. KeptOf(e).watched <= Cardinality(vouched[e])
  <2>1. Cardinality(vouched[e]) \in Nat
    BY <1>0, <1>2, VouchedAreFinite
  <2>2. \/ KeptOf(e).watched = 0
        \/ row[e] = "watching" /\ KeptOf(e).watched = total[e] * Grain
    BY DEF KeptOf, Nothing, Registered, Watching
  <2>3. QED
    BY <1>2, <2>1, <2>2 DEF Once, CountedOnce
<1>7. ASSUME NEW d \in Episodes
      PROVE  /\ \A t \in vouched'[d] : t < clock'
             /\ sittings'[d].stage # "registered" => Behind(sittings'[d], vouched'[d], Floor')
             /\ Played(sittings'[d], effects', vouched'[d], d)
             /\ row'[d] = "watching" => total'[d] * Grain <= Cardinality(vouched'[d])
  <2>1. /\ \A t \in vouched[d] : t < clock
        /\ sittings[d].stage # "registered" => Behind(sittings[d], vouched[d], Floor)
        /\ IsCounting(sittings[d]) => sittings[d].watched <= Cardinality(vouched[d])
        /\ row[d] = "watching" => total[d] * Grain <= Cardinality(vouched[d])
    BY DEF Once, TicksAreBehind, CountedOnce, IsCounting
  <2>2. Played(sittings'[d], effects', vouched'[d], d)
    BY <1>1, <1>3, <1>5, <1>6, <2>1, OfNone DEF Played
  <2>3. sittings'[d].stage # "registered" => Behind(sittings'[d], vouched'[d], Floor')
    BY <1>1, <1>4, <1>5, <2>1, AnsweredBehind
  <2>4. QED
    BY <1>1, <2>1, <2>2, <2>3
<1>8. ASSUME NEW p \in Players, NEW d \in Episodes, Names(p, d)',
             sittings'[d].stage # "registered"
      PROVE  Notes(sittings'[d].players[p], last'[p])
  <2>1. Names(p, d) /\ last'[p] = last[p] /\ sittings[d].stage # "registered"
    BY <1>1, <1>5, <1>8 DEF Names
  <2>2. Notes(sittings[d].players[p], last[p]) /\ Has(sittings[d], p)
    BY <2>1 DEF Once, ReadingsAreHeld, Places, SittingsFollowReadings
  <2>3. \/ sittings'[d].players[p] = sittings[d].players[p]
        \/ sittings'[d].players[p] = CountedFrom(sittings[d].players[p])
    <3> DEFINE s == sittings[d]
               a == Answered(s, q, KeptOf(e))
    <3>1. s \in Sitting /\ sittings'[d] = a /\ s.players[p] # Out
      BY <1>5, <2>2 DEF Has
    <3> HIDE DEF s
    <3>2. CASE a = s
      BY <3>1, <3>2 DEF s
    <3>3. CASE s.stage = "asked" /\ s.question = q
      <4>1. a.players = [x \in Players |->
                            IF s.players[x] = Out THEN Out ELSE CountedFrom(s.players[x])]
        BY <3>1, <3>3 DEF Answered, Sitting
      <4>2. QED
        BY <3>1, <4>1 DEF s
    <3>4. QED
      BY <3>1, <3>2, <3>3, AnsweredKeeps
  <2>4. sittings[d].players[p] \in Counted
    BY <1>5, <2>2 DEF Sitting, Has
  <2>5. QED
    BY <2>1, <2>2, <2>3, <2>4 DEF Notes, CountedFrom, Counted
<1>9. QED
  BY <1>7, <1>8, OnceNext

\* A total is kept that was played, less what is under a grain.
LEMMA CarryOutKeepOnce ==
    ASSUME Places, Leads, Once, CarryOutKeep
    PROVE  Once'
<1> DEFINE e == Head(effects).episode
           w == Head(effects).watched
<1>0. TypeOK
  BY DEF Places
<1>1. /\ effects # <<>> /\ Head(effects).do = "keep"
      /\ StoreKeep(e, w) /\ effects' = Tail(effects) /\ sittings' = sittings
      /\ vouched' = vouched /\ clock' = clock /\ todo' = todo /\ last' = last
  BY DEF CarryOutKeep, roundVars, historyVars
<1>2. /\ e \in Episodes /\ w \in Nat
      /\ effects = <<Keep(e, w)>> \/ effects = <<Keep(e, w), Record(e)>>
  BY <1>0, <1>1, HeadIs
<1> HIDE DEF e, w
<1>3. /\ row' = [row EXCEPT ![e] = "watching"] /\ total' = [total EXCEPT ![e] = Whole(w)]
      /\ row \in [Episodes -> {"none", "watching", "registered"}]
      /\ total \in [Episodes -> Nat]
  BY <1>0, <1>1 DEF StoreKeep, TypeOK, StoreTypeOK
<1>4. Floor' = Floor /\ \A p \in Players, d \in Episodes : Names(p, d)' <=> Names(p, d)
  BY <1>1 DEF Floor, Names
<1>5. ASSUME NEW d \in Episodes
      PROVE  Played(sittings[d], effects, vouched[d], d)
  BY DEF Once, PendingIsPlayed
<1>6. w <= Cardinality(vouched[e])
  <2>1. 1 \in Of(effects, "keep", e)
    BY <1>2, OfKeep, OfKeepRecord
  <2>2. effects[1].watched = w
    BY <1>2 DEF Keep
  <2>3. QED
    BY <1>2, <1>5, <2>1, <2>2 DEF Played
<1>7. Whole(w) * Grain <= Cardinality(vouched[e])
  <2>1. Whole(w) * Grain \in Nat /\ Whole(w) * Grain <= w
    BY <1>2, WholeLoses
  <2>2. Cardinality(vouched[e]) \in Nat
    BY <1>0, <1>2, VouchedAreFinite
  <2>3. QED
    BY <1>2, <1>6, <2>1, <2>2
<1>8. ASSUME NEW d \in Episodes
      PROVE  /\ Played(sittings'[d], effects', vouched'[d], d)
             /\ row'[d] = "watching" => total'[d] * Grain <= Cardinality(vouched'[d])
  <2>1. row'[d] = "watching" => total'[d] * Grain <= Cardinality(vouched'[d])
    BY <1>1, <1>2, <1>3, <1>7 DEF Once, CountedOnce
  <2>2. /\ Of(effects', "keep", d) = {}
        /\ Of(effects', "record", d) # {} => Of(effects, "record", d) # {}
    <3>1. CASE effects = <<Keep(e, w)>>
      <4>1. effects' = <<>>
        BY <1>1, <3>1
      <4>2. QED
        BY <4>1, OfNone
    <3>2. CASE effects = <<Keep(e, w), Record(e)>>
      <4>1. effects' = <<Record(e)>>
        BY <1>1, <3>2
      <4>2. QED
        BY <3>2, <4>1, OfRecord, OfKeepRecord
    <3>3. QED
      BY <1>2, <3>1, <3>2
  <2>3. QED
    BY <1>1, <1>5, <2>1, <2>2 DEF Played
<1>9. QED
  BY <1>1, <1>4, <1>8, OnceNext DEF Once, TicksAreBehind, ReadingsAreHeld

\* An episode is recorded of a sitting that has registered, and on ticks the
\* policy counts; from then on other ticks are vouched for.
LEMMA CarryOutRecordOnce ==
    ASSUME Places, Leads, Once, CarryOutRecord, NEW e, e = Head(effects).episode
    PROVE  /\ Once'
           /\ e \in Episodes
           /\ Enough(Cardinality(vouched[e]))
           /\ seen' = [seen EXCEPT ![e] = @ + 1]
<1>0. TypeOK
  BY DEF Places
<1>1. /\ effects # <<>> /\ Head(effects).do = "record"
      /\ StoreRecord(e) /\ effects' = Tail(effects) /\ sittings' = sittings
      /\ vouched' = [vouched EXCEPT ![e] = {}]
      /\ clock' = clock /\ todo' = todo /\ last' = last
  BY DEF CarryOutRecord, roundVars
<1>2. e \in Episodes /\ effects = <<Record(e)>>
  BY <1>0, <1>1, HeadIs
<1>3. effects' = <<>>
  BY <1>1, <1>2
<1>4. sittings[e].stage = "registered" /\ Enough(Cardinality(vouched[e]))
  <2>1. Of(effects, "record", e) # {}
    BY <1>2, OfRecord
  <2>2. QED
    BY <1>2, <2>1 DEF Once, PendingIsPlayed, Played
<1>5. row[e] = "watching"
  <2>1. KeptOf(e).is = "watching"
    BY <1>0, <1>1, HeadIs
  <2>2. QED
    BY <2>1 DEF KeptOf, Registered, Nothing
<1>6. /\ row' = [row EXCEPT ![e] = "registered"] /\ total' = total
      /\ seen' = [seen EXCEPT ![e] = @ + 1]
      /\ row \in [Episodes -> {"none", "watching", "registered"}]
  BY <1>0, <1>1, <1>2, <1>5 DEF StoreRecord, TypeOK, StoreTypeOK
<1>7. Floor' = Floor /\ \A p \in Players, d \in Episodes : Names(p, d)' <=> Names(p, d)
  BY <1>1 DEF Floor, Names
<1>8. vouched'[e] = {} /\ \A d \in Episodes : d # e => vouched'[d] = vouched[d]
  BY <1>0, <1>1, <1>2 DEF TypeOK
<1>9. ASSUME NEW d \in Episodes
      PROVE  /\ Played(sittings'[d], effects', vouched'[d], d)
             /\ row'[d] = "watching" => total'[d] * Grain <= Cardinality(vouched'[d])
             /\ \A t \in vouched'[d] : t < clock'
             /\ sittings'[d].stage # "registered" => Behind(sittings'[d], vouched'[d], Floor')
  <2>1. /\ \A t \in vouched[d] : t < clock
        /\ sittings[d].stage # "registered" => Behind(sittings[d], vouched[d], Floor)
        /\ IsCounting(sittings[d]) => sittings[d].watched <= Cardinality(vouched[d])
        /\ row[d] = "watching" => total[d] * Grain <= Cardinality(vouched[d])
    BY DEF Once, TicksAreBehind, CountedOnce, IsCounting
  <2>2. CASE d = e
    BY <1>1, <1>2, <1>3, <1>4, <1>6, <1>8, <2>2, OfNone DEF Played, IsCounting
  <2>3. CASE d # e
    BY <1>1, <1>2, <1>3, <1>6, <1>7, <1>8, <2>1, <2>3, OfNone DEF Played
  <2>4. QED
    BY <2>2, <2>3
<1>10. Once'
  BY <1>1, <1>7, <1>9, OnceNext DEF Once, ReadingsAreHeld
<1>11. QED
  BY <1>2, <1>4, <1>6, <1>10

\* A sitting that is closed leaves no total behind but one that was played.
LEMMA CarryOutCloseOnce ==
    ASSUME Places, Leads, Once, CarryOutClose
    PROVE  Once'
<1>0. TypeOK
  BY DEF Places
<1>1. PICK e : e = Head(effects).episode
  OBVIOUS
<1>2. /\ effects # <<>> /\ Head(effects).do = "close" /\ effects \in Seq(Effect)
      /\ StoreClose(e) /\ effects' = Tail(effects) /\ sittings' = sittings
      /\ vouched' = vouched /\ clock' = clock /\ todo' = todo /\ last' = last
  BY <1>0, <1>1 DEF CarryOutClose, roundVars, historyVars, TypeOK, SessionTypeOK
<1>3. e \in Episodes /\ \A i \in 1..Len(effects) : effects[i].do = "close"
  BY <1>0, <1>1, <1>2, HeadIs
<1>4. \A i \in 1..Len(effects') : effects'[i].do = "close"
  <2>1. /\ Len(effects') = Len(effects) - 1 /\ Len(effects) \in Nat
        /\ \A i \in 1..Len(effects') : effects'[i] = effects[i + 1] /\ i + 1 \in 1..Len(effects)
    BY <1>2
  <2>2. QED
    BY <1>3, <2>1
<1>5. /\ row' = [row EXCEPT ![e] = IF @ = "registered" THEN "none" ELSE @]
      /\ total' = [total EXCEPT ![e] = IF row[e] = "registered" THEN 0 ELSE @]
      /\ row \in [Episodes -> {"none", "watching", "registered"}]
      /\ total \in [Episodes -> Nat]
  BY <1>0, <1>2 DEF StoreClose, TypeOK, StoreTypeOK
<1>6. Floor' = Floor /\ \A p \in Players, d \in Episodes : Names(p, d)' <=> Names(p, d)
  BY <1>2 DEF Floor, Names
<1>7. ASSUME NEW d \in Episodes
      PROVE  /\ Played(sittings'[d], effects', vouched'[d], d)
             /\ row'[d] = "watching" => total'[d] * Grain <= Cardinality(vouched'[d])
  <2>1. Of(effects', "keep", d) \cup Of(effects', "record", d) = {}
    BY <1>4, OfCloses
  <2>2. Played(sittings[d], effects, vouched[d], d)
    BY DEF Once, PendingIsPlayed
  <2>3. row'[d] = "watching" => row[d] = "watching" /\ total'[d] = total[d]
    BY <1>3, <1>5
  <2>4. QED
    BY <1>2, <2>1, <2>2, <2>3 DEF Played, Once, CountedOnce
<1>8. QED
  BY <1>2, <1>6, <1>7, OnceNext DEF Once, TicksAreBehind, ReadingsAreHeld

\* No question is open while nothing is left to carry out.
LEMMA NothingIsAsked ==
    ASSUME Leads, effects = <<>>, NEW e \in Episodes
    PROVE  sittings[e].stage # "asked"
<1>1. Agrees(sittings[e], <<>>, KeptOf(e), e)
  BY StoreAgreesIs DEF Leads
<1>2. <<>> # <<Resume(e, sittings[e].question)>>
  OBVIOUS
<1>3. QED
  BY <1>1, <1>2 DEF Agrees

\* A reading is vouched for by the one before, which is the one its sitting
\* holds; and by none where its sitting does not have the player.
LEMMA VouchesIs ==
    ASSUME Places, Once, NEW p \in Players, p \in todo,
           NEW r \in Reading, r.player = p, NEW e \in Episodes, e = r.episode
    PROVE  /\ ~Has(sittings[e], p) => Vouches(r) = {}
           /\ Has(sittings[e], p) /\ sittings[e].stage # "registered" =>
                 Vouches(r) = Fresh(sittings[e].players[p], r)
<1>1. Has(sittings[e], p) <=> Names(p, e)
  BY DEF Places, QuietAreGone, SittingsFollowReadings
<1>2. CASE ~Names(p, e)
  BY <1>1, <1>2 DEF Vouches, Names
<1>3. CASE Names(p, e)
  <2>1. sittings[e].stage # "registered" => Notes(sittings[e].players[p], last[p])
    BY <1>3 DEF Once, ReadingsAreHeld
  <2>2. last[p] # Out /\ last[p].episode = r.episode
    BY <1>3 DEF Names
  <2>3. QED
    BY <1>1, <1>3, <2>1, <2>2 DEF Vouches, Fresh, Notes, Observed
<1>4. QED
  BY <1>2, <1>3

\* One reading: what is counted of it is vouched for by it, and by none of the
\* readings before.
LEMMA TakeOnce ==
    ASSUME Places, Leads, Once, NEW p \in Players, Take(p)
    PROVE  Once'
<1>0. TypeOK /\ SessionTypeOK /\ NobodyInOver
  BY DEF Places, TypeOK
<1>1. PICK r \in ReadingsOf(p) :
        /\ Advance(r)
        /\ last' = [last EXCEPT ![p] =
              IF r.episode = NoEpisode THEN Out
              ELSE [episode |-> r.episode, file |-> r.file,
                    playing |-> r.playing, at |-> r.at]]
        /\ vouched' = [e \in Episodes |->
              IF e = r.episode THEN vouched[e] \cup Vouches(r) ELSE vouched[e]]
  BY DEF Take
<1>2. /\ effects = <<>> /\ p \in todo /\ todo' = todo \ {p}
      /\ row' = row /\ total' = total /\ clock' = clock
  BY DEF Take, storeVars
<1>3. r \in Reading /\ r.player = p
  BY <1>0, ReadingsOfType DEF TypeOK, ReadingsOf
<1>4. /\ clock \in Nat /\ Floor \in Nat /\ Floor' \in Nat /\ r.at \in Nat
      /\ Floor <= r.at /\ r.at <= clock /\ Floor <= Floor'
  <2>1. clock \in Nat /\ Skew \in Nat /\ Since(clock, Skew) \in Nat /\ Since(clock, Skew) <= clock
    BY <1>0, TimeAssumption DEF TypeOK, Since
  <2>2. r.at \in Since(clock, Skew)..clock
    BY <1>1 DEF ReadingsOf
  <2>3. Floor = Since(clock, Skew) /\ Floor' \in {clock, Since(clock, Skew)}
    BY <1>2 DEF Floor
  <2>4. QED
    BY <2>1, <2>2, <2>3
<1>5. ASSUME NEW e \in Episodes
      PROVE  /\ sittings[e] \in Sitting /\ sittings[e].stage # "asked"
             /\ sittings[e].stage # "over" /\ sittings[e].stage # "registered" =>
                   IsCounting(sittings[e])
             /\ vouched[e] \in SUBSET Nat /\ IsFiniteSet(vouched[e])
             /\ Cardinality(vouched[e]) \in Nat
             /\ \A t \in vouched[e] : t < clock
             /\ sittings[e].stage # "registered" => Behind(sittings[e], vouched[e], Floor)
             /\ IsCounting(sittings[e]) => sittings[e].watched <= Cardinality(vouched[e])
             /\ row[e] = "watching" => total[e] * Grain <= Cardinality(vouched[e])
  <2>1. sittings[e] \in Sitting /\ sittings[e].stage # "asked"
    BY <1>0, <1>2, NothingIsAsked DEF SessionTypeOK
  <2>2. sittings[e].stage # "over" /\ sittings[e].stage # "registered" => IsCounting(sittings[e])
    BY <2>1 DEF Sitting, Stages, IsCounting
  <2>3. /\ vouched[e] \in SUBSET Nat /\ IsFiniteSet(vouched[e])
        /\ Cardinality(vouched[e]) \in Nat
    BY <1>0, VouchedAreFinite
  <2>4. QED
    BY <2>1, <2>2, <2>3 DEF Once, TicksAreBehind, CountedOnce, IsCounting
<1>6. \A e \in Episodes :
         vouched'[e] = IF e = r.episode THEN vouched[e] \cup Vouches(r) ELSE vouched[e]
  BY <1>1
<1>7. /\ Vouches(r) \subseteq 0..(r.at - 1)
      /\ IsFiniteSet(Vouches(r))
  <2>1. last[p] # Out => last[p].at \in Nat
    BY <1>0 DEF TypeOK, Seen
  <2>2. \/ Vouches(r) = {}
        \/ last[p].at \in Nat /\ Vouches(r) = last[p].at..(r.at - 1)
    BY <1>3, <2>1 DEF Vouches
  <2>3. CASE Vouches(r) = {}
    BY <2>3, FS_EmptySet
  <2>4. CASE last[p].at \in Nat /\ Vouches(r) = last[p].at..(r.at - 1)
    BY <1>4, <2>4, TicksBetween
  <2>5. QED
    BY <2>2, <2>3, <2>4
<1>8. ASSUME NEW e \in Episodes
      PROVE  /\ \A t \in vouched'[e] : t < clock'
             /\ row'[e] = "watching" => total'[e] * Grain <= Cardinality(vouched'[e])
  <2>1. \A t \in Vouches(r) : t < clock
    BY <1>4, <1>7
  <2>2. /\ vouched[e] \subseteq vouched'[e] /\ IsFiniteSet(vouched'[e])
        /\ \A t \in vouched'[e] : t \in vouched[e] \/ t \in Vouches(r)
    <3>1. IsFiniteSet(vouched[e] \cup Vouches(r))
      BY <1>5, <1>7, FS_Union
    <3>2. QED
      BY <1>5, <1>6, <3>1
  <2>3. Cardinality(vouched[e]) <= Cardinality(vouched'[e]) /\ Cardinality(vouched'[e]) \in Nat
    BY <2>2, FS_Subset, FS_CardinalityType
  <2>4. row[e] = "watching" => total[e] * Grain \in Nat
    BY <1>0, ReadingsAssumption DEF TypeOK, StoreTypeOK
  <2>5. QED
    BY <1>2, <1>5, <2>1, <2>2, <2>3, <2>4
<1>9. ASSUME NEW e \in Episodes
      PROVE  /\ sittings'[e].stage # "registered" => Behind(sittings'[e], vouched'[e], Floor')
             /\ Played(sittings'[e], effects', vouched'[e], e)
  <2> DEFINE s == sittings[e]
             V == vouched[e]
  <2>0. /\ s \in Sitting /\ s.stage # "asked"
        /\ s.stage # "over" /\ s.stage # "registered" => IsCounting(s)
        /\ V \in SUBSET Nat /\ IsFiniteSet(V) /\ Cardinality(V) \in Nat
        /\ s.stage # "registered" => Behind(s, V, Floor)
        /\ IsCounting(s) => s.watched <= Cardinality(V)
    BY <1>5
  <2>1. \/ /\ e # r.episode
           /\ sittings'[e] \in {s, Leave(s, {p})}
           /\ Of(effects', "keep", e) \cup Of(effects', "record", e) = {}
        \/ /\ e = r.episode /\ Has(s, p)
           /\ sittings'[e] = Read(s, r)
           /\ effects' = Answer(s, r)
        \/ /\ e = r.episode /\ ~Has(s, p)
           /\ sittings'[e] = Enter(s, r)
           /\ effects' = <<>>
        \/ /\ e = r.episode /\ ~Has(s, p) /\ s.stage = "over"
           /\ sittings'[e] = Asking(asked + 1, r)
           /\ effects' = <<Resume(e, asked + 1)>>
    BY <1>0, <1>1, <1>3, AdvanceMakes
  <2>2. e = r.episode /\ ~Has(s, p) => vouched'[e] = V
    BY <1>2, <1>3, <1>6, VouchesIs
  <2>3. e = r.episode /\ Has(s, p) /\ s.stage # "registered" =>
           vouched'[e] = V \cup Fresh(s.players[p], r)
    BY <1>2, <1>3, <1>6, VouchesIs
  <2>4. e # r.episode => vouched'[e] = V
    BY <1>6
  <2>10. Has(s, p) => s.stage # "over"
    BY <1>0 DEF NobodyInOver, IsEmpty
  <2>11. asked + 1 \in Nat
    BY <1>0 DEF SessionTypeOK
  <2> HIDE DEF s, V
  <2>5. CASE e # r.episode /\ sittings'[e] \in {s, Leave(s, {p})}
                /\ Of(effects', "keep", e) \cup Of(effects', "record", e) = {}
    <3>1. /\ sittings'[e].stage = s.stage /\ sittings'[e].watched = s.watched
          /\ s.stage # "registered" => Behind(sittings'[e], V, Floor)
      BY <2>0, <2>5, LeaveStage, LeaveKeeps, LeaveBehind
    <3>2. QED
      BY <1>4, <2>0, <2>4, <2>5, <3>1, BehindRises DEF Played, IsCounting
  <2>6. CASE e = r.episode /\ Has(s, p) /\ sittings'[e] = Read(s, r) /\ effects' = Answer(s, r)
    <3>1. CASE s.stage = "registered"
      <4>1. sittings'[e].stage = "registered" /\ effects' = <<>>
        BY <2>6, <3>1 DEF Read, Answer
      <4>2. QED
        BY <4>1, OfNone DEF Played, IsCounting
    <3>2. CASE s.stage # "registered"
      <4> DEFINE w == Total(s, r)
                 W == vouched'[e]
      <4>1. IsCounting(s) /\ Has(s, r.player)
        BY <1>3, <2>0, <2>6, <2>10, <3>2
      <4>2. /\ Cardinality(W) \in Nat /\ w <= Cardinality(W)
            /\ w \in Nat /\ s.watched \in Nat /\ s.watched <= w
        BY <1>3, <1>4, <2>0, <2>3, <2>6, <3>2, <4>1, ReadPlayed, AddedType DEF Sitting
      <4>3. Read(s, r).stage # "registered" => Behind(Read(s, r), W, Floor)
        BY <1>3, <1>4, <2>0, <2>3, <2>6, <3>2, <4>1, ReadBehind
      <4>4. Read(s, r).stage # "registered" => Read(s, r).watched <= Cardinality(W)
        BY <1>3, <2>0, <4>1, <4>2, ReadWatched
      <4>5. \/ effects' = <<>>
            \/ effects' = <<Keep(e, w)>>
            \/ /\ effects' = <<Keep(e, w), Record(e)>>
               /\ Read(s, r).stage = "registered"
               /\ Enough(w)
        BY <1>3, <2>0, <2>6, <4>1, ReadKeeps DEF Enough, IsCounting
      <4> HIDE DEF w
      <4>6. Enough(w) => Enough(Cardinality(W))
        <5>1. ASSUME NEW l \in AnyLength, w >= Needed[l]
              PROVE  Cardinality(W) >= Needed[l]
          BY <4>2, <5>1, ReadingsAssumption
        <5>2. QED
          BY <5>1 DEF Enough
      <4>7. W \in SUBSET Nat
        <5>1. Vouches(r) \subseteq Nat /\ vouched[e] \subseteq Nat
          BY <1>4, <1>5, <1>7
        <5>2. W = vouched[e] \cup Vouches(r)
          BY <1>6, <2>6
        <5>3. QED
          BY <5>1, <5>2
      <4> HIDE DEF W
      <4>8. /\ \A i \in Of(effects', "keep", e) : effects'[i].watched = w
            /\ Of(effects', "record", e) # {} => Read(s, r).stage = "registered" /\ Enough(w)
        <5>1. CASE effects' = <<>>
          BY <5>1, OfNone
        <5>2. CASE effects' = <<Keep(e, w)>>
          <6>1. effects'[1].watched = w
            BY <5>2 DEF Keep
          <6>2. QED
            BY <5>2, <6>1, OfKeep
        <5>3. CASE effects' = <<Keep(e, w), Record(e)>>
          <6>1. effects'[1].watched = w
            BY <5>3 DEF Keep
          <6>2. QED
            BY <4>5, <5>3, <6>1, OfKeepRecord
        <5>4. QED
          BY <4>5, <5>1, <5>2, <5>3
      <4>9. Played(Read(s, r), effects', W, e)
        BY <4>2, <4>4, <4>6, <4>8 DEF Played, IsCounting
      <4>10. Read(s, r).stage # "registered" => Behind(Read(s, r), W, Floor')
        BY <1>4, <4>3, <4>7, BehindRises
      <4>11. QED
        BY <2>6, <4>9, <4>10 DEF W
    <3>3. QED
      BY <3>1, <3>2
  <2>7. CASE e = r.episode /\ ~Has(s, p) /\ sittings'[e] = Enter(s, r) /\ effects' = <<>>
    <3>1. /\ sittings'[e].stage = s.stage /\ sittings'[e].watched = s.watched
          /\ s.stage # "registered" => Behind(sittings'[e], V, Floor)
      BY <1>3, <1>4, <2>0, <2>7, EnterStage, EnterKeeps, EnterBehind
    <3>2. QED
      BY <1>4, <2>0, <2>2, <2>7, <3>1, BehindRises, OfNone DEF Played, IsCounting
  <2>8. CASE e = r.episode /\ ~Has(s, p) /\ s.stage = "over"
                /\ sittings'[e] = Asking(asked + 1, r)
                /\ effects' = <<Resume(e, asked + 1)>>
    <3>1. sittings'[e].stage = "asked"
      BY <1>3, <2>8, <2>11, AskingStage
    <3>2. \A t \in V : t < Floor
      BY <2>0, <2>8 DEF Behind, IsCounting
    <3>3. Behind(sittings'[e], V, Floor)
      BY <1>3, <1>4, <2>0, <2>8, <2>11, <3>2, AskingBehind
    <3>4. QED
      BY <1>4, <2>0, <2>2, <2>8, <3>1, <3>3, BehindRises, OfResume DEF Played, IsCounting
  <2>9. QED
    BY <2>1, <2>5, <2>6, <2>7, <2>8
<1>10. ASSUME NEW x \in Players, NEW e \in Episodes, Names(x, e)',
              sittings'[e].stage # "registered"
       PROVE  Notes(sittings'[e].players[x], last'[x])
  <2> DEFINE s == sittings[e]
  <2>0. s \in Sitting /\ (s.stage # "over" /\ s.stage # "registered" => IsCounting(s))
    BY <1>5
  <2>1. \/ /\ e # r.episode
           /\ sittings'[e] \in {s, Leave(s, {p})}
        \/ /\ e = r.episode /\ Has(s, p)
           /\ sittings'[e] = Read(s, r)
        \/ /\ e = r.episode /\ ~Has(s, p)
           /\ sittings'[e] = Enter(s, r)
        \/ /\ e = r.episode /\ ~Has(s, p) /\ s.stage = "over"
           /\ sittings'[e] = Asking(asked + 1, r)
    BY <1>0, <1>1, <1>3, AdvanceMakes
  <2>2. last \in [Players -> Seen \cup {Out}]
    BY <1>0 DEF TypeOK
  <2>3. CASE x = p
    <3>1. e = r.episode /\ last'[p] = [episode |-> r.episode, file |-> r.file,
                                      playing |-> r.playing, at |-> r.at]
      BY <1>1, <1>10, <2>2, <2>3 DEF Names
    <3>2. Notes(sittings'[e].players[p], r)
      <4>1. CASE Has(s, p) /\ sittings'[e] = Read(s, r)
        <5>1. s.stage # "registered"
          BY <1>10, <4>1 DEF Read
        <5>2. s.stage # "over"
          BY <1>0, <4>1 DEF NobodyInOver, IsEmpty
        <5>3. QED
          BY <1>3, <1>10, <2>0, <4>1, <5>1, <5>2, ReadNotes
      <4>2. CASE sittings'[e] = Enter(s, r)
        BY <1>3, <2>0, <4>2, EnterNotes
      <4>3. CASE sittings'[e] = Asking(asked + 1, r)
        BY <1>0, <1>3, <4>3, AskingNotes DEF SessionTypeOK
      <4>4. QED
        BY <2>1, <3>1, <4>1, <4>2, <4>3
    <3>3. QED
      BY <2>3, <3>1, <3>2 DEF Notes
  <2>4. CASE x # p
    <3>1. Names(x, e) /\ last'[x] = last[x]
      BY <1>1, <1>10, <2>2, <2>4 DEF Names
    <3>2. Has(s, x) /\ s.stage # "over"
      BY <1>0, <3>1 DEF Places, SittingsFollowReadings, NobodyInOver, IsEmpty
    <3> HIDE DEF s
    <3>3. sittings'[e].players[x] = s.players[x] /\ s.stage # "registered"
      <4>1. CASE sittings'[e] = s
        BY <1>10, <4>1
      <4>2. CASE sittings'[e] = Leave(s, {p})
        BY <1>10, <2>0, <2>4, <4>2 DEF Leave, Sitting
      <4>3. CASE Has(s, p) /\ sittings'[e] = Read(s, r)
        <5>1. s.stage # "registered"
          BY <1>10, <4>3 DEF Read
        <5>2. QED
          BY <1>3, <1>10, <2>0, <2>4, <3>2, <4>3, <5>1, ReadNotes
      <4>4. CASE sittings'[e] = Enter(s, r)
        BY <1>3, <1>10, <2>0, <2>4, <4>4, EnterNotes, EnterStage
      <4>5. QED
        BY <2>1, <3>2, <4>1, <4>2, <4>3, <4>4
    <3>4. Notes(s.players[x], last[x])
      BY <3>1, <3>3 DEF Once, ReadingsAreHeld, s
    <3>5. QED
      BY <3>1, <3>3, <3>4
  <2>5. QED
    BY <2>3, <2>4
<1>11. QED
  BY <1>8, <1>9, <1>10, OnceNext

-----------------------------------------------------------------------------
(***************************************************************************)
(* The theorems.                                                           *)
(***************************************************************************)

\* The invariant holds as the task starts.
LEMMA InitOnce == Init => Once
<1> SUFFICES ASSUME Init PROVE Once
  OBVIOUS
<1>1. /\ effects = <<>> /\ sittings = [e \in Episodes |-> Over]
      /\ row = [e \in Episodes |-> "none"] /\ vouched = [e \in Episodes |-> {}]
      /\ last = [p \in Players |-> Out]
  BY DEF Init, SessionInit, StoreInit
<1>2. TicksAreBehind /\ ReadingsAreHeld
  BY <1>1 DEF TicksAreBehind, ReadingsAreHeld, Behind, Names
<1>3. PendingIsPlayed /\ CountedOnce
  BY <1>1, OfNone DEF PendingIsPlayed, Played, CountedOnce, IsCounting, Over
<1>4. QED
  BY <1>2, <1>3 DEF Once

\* Every step of a task whose sittings hold the players they should, and whose
\* effects lead the store to where it should be, keeps the invariant.
LEMMA NextOnce == Places /\ Leads /\ Once /\ [Next]_vars => Once'
<1> SUFFICES ASSUME Places, Leads, Once, [Next]_vars PROVE Once'
  OBVIOUS
<1>1. TypeOK /\ (~inRound => todo = {})
  BY DEF Places, QuietAreGone
<1>2. CASE Poll
  BY <1>1, <1>2, PollOnce
<1>3. CASE \E p \in Players : Take(p)
  BY <1>3, TakeOnce
<1>4. CASE CarryOut
  BY <1>4, CarryOutResumeOnce, CarryOutKeepOnce, CarryOutRecordOnce, CarryOutCloseOnce
     DEF CarryOut
<1>5. CASE FinishRound
  BY <1>5, FinishRoundOnce
<1>6. CASE Fails
  BY <1>1, <1>6, LostOnce DEF Fails, TaskFails, StoreRefuses, DaemonDies
<1>7. CASE Restart \/ UNCHANGED vars
  BY <1>7, RestOnce DEF Restart, vars, sessionVars, storeVars, roundVars, historyVars
<1>8. QED
  BY <1>2, <1>3, <1>4, <1>5, <1>6, <1>7 DEF Next, Works

\* Once is an invariant.
THEOREM OnceHolds == Spec => []Once
BY InitOnce, NextOnce, PlacesHold, LeadsHold, PTL DEF Spec

\* Time that was played is counted once, however many players play the
\* episode and however the task is stopped (CountedOnce).
THEOREM CountingOnce == Spec => []CountedOnce
<1>1. Once => CountedOnce
  BY DEF Once
<1>2. QED
  BY <1>1, OnceHolds, PTL

\* An episode is recorded once in a viewing, and on as many ticks played since
\* the record before as the policy asks for (RecordedOnEnough).
THEOREM RecordingOnEnough == Spec => RecordedOnEnough
<1> DEFINE Step == \A e \in Episodes :
              seen'[e] # seen[e] =>
                  seen'[e] = seen[e] + 1 /\ Enough(Cardinality(vouched[e]))
<1>1. Places /\ Leads /\ Once /\ [Next]_vars => [Step]_vars
  <2> SUFFICES ASSUME Places, Leads, Once, [Next]_vars PROVE Step
    OBVIOUS
  <2>1. CASE CarryOutRecord
    <3>1. PICK e : e = Head(effects).episode
      OBVIOUS
    <3>2. /\ e \in Episodes /\ Enough(Cardinality(vouched[e]))
          /\ seen' = [seen EXCEPT ![e] = @ + 1]
      BY <2>1, <3>1, CarryOutRecordOnce
    <3>3. seen \in [Episodes -> Nat]
      BY DEF Places, TypeOK, StoreTypeOK
    <3>4. QED
      BY <3>2, <3>3
  <2>2. CASE ~CarryOutRecord
    <3>1. seen' = seen
      BY <2>2 DEF Next, Works, Poll, Take, CarryOut, CarryOutResume, CarryOutKeep,
                  CarryOutClose, StoreKeep, StoreClose, FinishRound, Fails, TaskFails,
                  StoreRefuses, DaemonDies, Lost, Restart, vars, storeVars
    <3>2. QED
      BY <3>1
  <2>3. QED
    BY <2>1, <2>2
<1>2. QED
  BY <1>1, PlacesHold, LeadsHold, OnceHolds, PTL DEF Spec, RecordedOnEnough

-----------------------------------------------------------------------------
(***************************************************************************)
(* The marks in the store, while nothing fails.                            *)
(***************************************************************************)

\* MarkIsOpen, of a list of effects.
LEMMA MarkIsOpenIs ==
    MarkIsOpen <=> \A e \in Episodes : row[e] = "registered" =>
                       sittings[e].stage = "registered" \/ Of(effects, "close", e) # {}
BY DEF MarkIsOpen, Pending, Of

\* The same of the next state.
LEMMA MarkIsOpenNext ==
    MarkIsOpen' <=> \A e \in Episodes : row'[e] = "registered" =>
                       sittings'[e].stage = "registered" \/ Of(effects', "close", e) # {}
BY DEF MarkIsOpen, Pending, Of

\* Effects that lead with anything but a close hold none.
LEMMA NoCloseBehind ==
    ASSUME TypeOK, Leads, effects # <<>>, Head(effects).do # "close", NEW e \in Episodes
    PROVE  Of(effects, "close", e) = {}
<1> DEFINE d == Head(effects).episode
           w == Head(effects).watched
<1>1. Head(effects) \in Effect
  BY EffectAtHead DEF TypeOK, SessionTypeOK
<1>2. \/ \E q : effects = <<Resume(d, q)>>
      \/ effects = <<Keep(d, w)>>
      \/ effects = <<Keep(d, w), Record(d)>>
      \/ effects = <<Record(d)>>
  BY <1>1, HeadIs DEF Effect
<1> HIDE DEF d, w
<1>3. \A i \in 1..Len(effects) : effects[i].do # "close"
  <2>1. ASSUME NEW q, effects = <<Resume(d, q)>>
        PROVE  \A i \in 1..Len(effects) : effects[i].do # "close"
    BY <2>1 DEF Resume
  <2>2. CASE effects = <<Keep(d, w)>>
    BY <2>2 DEF Keep
  <2>3. CASE effects = <<Keep(d, w), Record(d)>>
    <3>1. Len(effects) = 2 /\ effects[1] = Keep(d, w) /\ effects[2] = Record(d)
      BY <2>3
    <3>2. \A i \in 1..2 : i = 1 \/ i = 2
      OBVIOUS
    <3>3. QED
      BY <3>1, <3>2 DEF Keep, Record
  <2>4. CASE effects = <<Record(d)>>
    BY <2>4 DEF Record
  <2>5. QED
    BY <1>2, <2>1, <2>2, <2>3, <2>4
<1>4. QED
  BY <1>3 DEF Of

\* The end of a round closes every sitting it leaves nobody in.
LEMMA EndRoundCloses ==
    ASSUME SessionTypeOK, NEW gone, EndRound(gone), NEW e \in Episodes
    PROVE  \/ sittings'[e] = Leave(sittings[e], gone)
           \/ Of(effects', "close", e) # {}
<1> DEFINE left   == WithoutPlayers(gone)
           closed == {x \in Episodes : left[x].stage # "over" /\ IsEmpty(left[x])}
           n      == Cardinality(closed)
<1>1. PICK order \in [1..n -> closed] :
        /\ InOrder(order, closed)
        /\ effects' = [i \in 1..n |-> Close(order[i])]
  BY DEF EndRound
<1>2. sittings'[e] = IF e \in closed THEN Over ELSE Leave(sittings[e], gone)
  BY DEF EndRound, WithoutPlayers
<1>3. IsFiniteSet(closed) /\ n \in Nat
  <2>1. closed \in SUBSET Episodes
    OBVIOUS
  <2>2. QED
    BY <2>1, ReadingsAssumption, FS_Subset, FS_CardinalityType
<1>4. \A i, j \in 1..n : i < j => sittings[order[i]].question < sittings[order[j]].question
  BY <1>1 DEF InOrder
<1>5. \A i \in 1..n : order[i] \in closed /\ sittings[order[i]].question \in Nat
  BY <1>1 DEF SessionTypeOK, Sitting
<1>6. closed \subseteq Episodes
  OBVIOUS
<1> HIDE DEF n, closed
<1>7. \A i, j \in 1..n : order[i] = order[j] => i = j
  <2> SUFFICES ASSUME NEW i \in 1..n, NEW j \in 1..n, order[i] = order[j], i # j
               PROVE  FALSE
    OBVIOUS
  <2>1. i < j \/ j < i
    BY <1>3
  <2>2. QED
    BY <1>4, <1>5, <2>1
<1>8. order \in Injection(1..n, closed)
  BY <1>1, <1>7 DEF Injection, IsInjective
<1>9. Cardinality(1..n) = Cardinality(closed)
  BY <1>3, FS_Interval DEF n
<1>10. order \in Surjection(1..n, closed)
  BY <1>3, <1>8, <1>9, FS_Injection
<1>11. ASSUME e \in closed
       PROVE  Of(effects', "close", e) # {}
  <2>1. PICK i \in 1..n : order[i] = e
    BY <1>10, <1>11 DEF Surjection
  <2>2. effects'[i] = Close(e) /\ Len(effects') = n
    BY <1>1, <1>3, <2>1
  <2>3. i \in Of(effects', "close", e)
    BY <2>1, <2>2 DEF Of, Close
  <2>4. QED
    BY <2>3
<1>12. QED
  BY <1>2, <1>11

\* Each step of a task that nothing stops leaves the marks to sittings that are
\* open or about to be closed.
LEMMA WorksMarks ==
    ASSUME Places, Leads, Once, MarkIsOpen, [Works]_vars
    PROVE  MarkIsOpen'
<1>0. TypeOK /\ SessionTypeOK /\ NobodyInOver
  BY DEF Places, TypeOK
<1>1. /\ \A e \in Episodes : sittings[e] \in Sitting
      /\ effects \in Seq(Effect)
      /\ row \in [Episodes -> {"none", "watching", "registered"}]
  BY <1>0 DEF SessionTypeOK, TypeOK, StoreTypeOK
<1>2. ASSUME NEW e \in Episodes, row[e] = "registered"
      PROVE  sittings[e].stage = "registered" \/ Of(effects, "close", e) # {}
  BY <1>2, MarkIsOpenIs
<1>3. ASSUME NEW e \in Episodes, row[e] = "registered",
             effects = <<>> \/ Head(effects).do # "close"
      PROVE  sittings[e].stage = "registered"
  <2>1. effects = <<>> => Of(effects, "close", e) = {}
    BY DEF Of
  <2>2. QED
    BY <1>0, <1>2, <1>3, <2>1, NoCloseBehind
<1>4. CASE Poll \/ UNCHANGED vars
  BY <1>4, MarkIsOpenIs, MarkIsOpenNext DEF Poll, vars, sessionVars, storeVars
<1>5. ASSUME NEW p \in Players, Take(p) PROVE MarkIsOpen'
  <2>1. effects = <<>> /\ row' = row
    BY <1>5 DEF Take, storeVars
  <2>2. PICK r \in ReadingsOf(p) : Advance(r)
    BY <1>5 DEF Take
  <2>3. r \in Reading
    BY <1>0, ReadingsOfType DEF TypeOK
  <2>4. ASSUME NEW e \in Episodes, sittings[e].stage = "registered"
        PROVE  sittings'[e].stage = "registered"
    <3>1. \/ sittings'[e] \in {sittings[e], Leave(sittings[e], {r.player})}
          \/ sittings'[e] = Read(sittings[e], r)
          \/ sittings'[e] = Enter(sittings[e], r)
      BY <1>0, <2>2, <2>3, <2>4, AdvanceMakes
    <3>2. Read(sittings[e], r) = sittings[e]
      BY <2>4 DEF Read
    <3>3. QED
      BY <1>1, <2>3, <2>4, <3>1, <3>2, LeaveStage, EnterStage
  <2>5. QED
    BY <1>3, <2>1, <2>4, MarkIsOpenNext
<1>6. CASE CarryOutResume
  <2>1. /\ effects # <<>> /\ Head(effects).do = "resume" /\ row' = row
        /\ \A e \in Episodes : sittings'[e] =
              Answered(sittings[e], Head(effects).question, KeptOf(Head(effects).episode))
    BY <1>6 DEF CarryOutResume, Resumed, storeVars
  <2>2. \A e \in Episodes : sittings[e].stage = "registered" =>
           sittings'[e].stage = "registered"
    BY <2>1 DEF Answered
  <2>3. QED
    BY <1>3, <2>1, <2>2, MarkIsOpenNext
<1>7. CASE CarryOutKeep
  <2>1. /\ effects # <<>> /\ Head(effects).do = "keep" /\ sittings' = sittings
        /\ row' = [row EXCEPT ![Head(effects).episode] = "watching"]
    BY <1>7 DEF CarryOutKeep, StoreKeep
  <2>2. \A e \in Episodes : row'[e] = "registered" => row[e] = "registered"
    BY <1>1, <2>1
  <2>3. QED
    BY <1>3, <2>1, <2>2, MarkIsOpenNext
<1>8. CASE CarryOutRecord
  <2>1. PICK d : d = Head(effects).episode
    OBVIOUS
  <2>2. /\ effects # <<>> /\ Head(effects).do = "record" /\ sittings' = sittings
        /\ row' = [row EXCEPT ![d] = IF @ = "none" THEN @ ELSE "registered"]
    BY <1>8, <2>1 DEF CarryOutRecord, StoreRecord
  <2>3. d \in Episodes /\ effects = <<Record(d)>>
    BY <1>0, <2>1, <2>2, HeadIs
  <2>4. sittings[d].stage = "registered"
    <3>1. Of(effects, "record", d) # {}
      BY <2>3, OfRecord
    <3>2. QED
      BY <2>3, <3>1 DEF Once, PendingIsPlayed, Played
  <2>5. \A e \in Episodes : row'[e] = "registered" => row[e] = "registered" \/ e = d
    BY <1>1, <2>2
  <2>6. QED
    BY <1>3, <2>2, <2>4, <2>5, MarkIsOpenNext
<1>9. CASE CarryOutClose
  <2>1. PICK d : d = Head(effects).episode
    OBVIOUS
  <2>2. /\ effects # <<>> /\ effects' = Tail(effects) /\ sittings' = sittings
        /\ row' = [row EXCEPT ![d] = IF @ = "registered" THEN "none" ELSE @]
    BY <1>9, <2>1 DEF CarryOutClose, StoreClose
  <2>3. ASSUME NEW e \in Episodes, row'[e] = "registered"
        PROVE  row[e] = "registered" /\ e # d
    BY <1>1, <2>2, <2>3
  <2>4. ASSUME NEW e \in Episodes, e # d, NEW i \in Of(effects, "close", e)
        PROVE  i - 1 \in Of(effects', "close", e)
    <3>1. i \in 1..Len(effects) /\ effects[i].do = "close" /\ effects[i].episode = e
      BY DEF Of
    <3>2. effects[1].episode = d
      BY <1>1, <2>1, <2>2
    <3>3. i # 1
      BY <2>4, <3>1, <3>2
    <3>4. /\ Len(effects') = Len(effects) - 1 /\ Len(effects) \in Nat
          /\ \A j \in 1..Len(effects') : effects'[j] = effects[j + 1]
      BY <1>1, <2>2
    <3>5. i - 1 \in 1..Len(effects') /\ (i - 1) + 1 = i
      BY <3>1, <3>3, <3>4
    <3>6. effects'[i - 1] = effects[i]
      BY <3>4, <3>5
    <3>7. QED
      BY <3>1, <3>5, <3>6 DEF Of
  <2>5. QED
    BY <1>2, <2>2, <2>3, <2>4, MarkIsOpenNext
<1>10. CASE FinishRound
  <2>1. effects = <<>> /\ EndRound(quiet) /\ row' = row
    BY <1>10 DEF FinishRound, storeVars
  <2>2. ASSUME NEW e \in Episodes, sittings[e].stage = "registered"
        PROVE  sittings'[e].stage = "registered" \/ Of(effects', "close", e) # {}
    BY <1>0, <1>1, <2>1, <2>2, EndRoundCloses, LeaveStage
  <2>3. QED
    BY <1>3, <2>1, <2>2, MarkIsOpenNext
<1>11. QED
  BY <1>4, <1>5, <1>6, <1>7, <1>8, <1>9, <1>10 DEF Works, CarryOut

\* While nothing fails a mark in the store is of a sitting that is open or
\* about to be closed (MarkIsOpen).
THEOREM MarksAreOpen == SmoothSpec => []MarkIsOpen
<1>1. Init => MarkIsOpen
  BY DEF Init, StoreInit, MarkIsOpen
<1>2. [Works]_vars => [Next]_vars
  BY DEF Next
<1>3. SmoothSpec => Spec
  BY <1>2, PTL DEF SmoothSpec, Spec
<1>4. Places /\ Leads /\ Once /\ MarkIsOpen /\ [Works]_vars => MarkIsOpen'
  BY WorksMarks
<1>5. QED
  BY <1>1, <1>3, <1>4, PlacesHold, LeadsHold, OnceHolds, PTL DEF SmoothSpec
=============================================================================
