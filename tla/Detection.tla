----------------------------- MODULE Detection ------------------------------
(***************************************************************************)
(* The detection task of crates/daemon/src/detection.rs: rounds that poll  *)
(* the players, hand each admitted reading to the session, carry out what  *)
(* it answers in the store one awaited call at a time, and end by letting  *)
(* go of the players nothing was heard of.  The task composes Session and  *)
(* WatchStore; it can fail at every call, and all it holds goes with it.   *)
(*                                                                         *)
(* What a player has open is chosen as its reading is taken, which is the  *)
(* first moment the program looks at it.  todo is a set: the order of the  *)
(* readings in a round is the platform's.  A player that is silent in a    *)
(* round is one no longer listed, one with nothing open, or one policy     *)
(* denies; a mute one failed to answer, or was read without a description. *)
(*                                                                         *)
(* clock, last and vouched are of the model: the instants the players read *)
(* at, and which ticks a reading vouches were played of an episode since   *)
(* it was last recorded.                                                   *)
(***************************************************************************)
EXTENDS Session, WatchStore

CONSTANTS
    MaxTime,    \* bound: the evening is this long, and no player runs after it
    Gaps,       \* the lengths of a round, waits and overruns included
    Skew        \* how far apart the stamps of one round's readings can be

ASSUME TimeAssumption ==
    /\ MaxTime \in Nat
    /\ Skew \in Nat
    /\ Gaps \subseteq Nat \ {0}
    /\ \A g \in Gaps : Skew <= g

VARIABLES
    task,       \* the detection task: up, down until it is restarted, stopped
    inRound,    \* whether a round is between its poll and its end
    todo,       \* the players whose readings the round has yet to take
    quiet,      \* the players the session knows of the round has not heard
    heard,      \* Detection::heard
    clock,
    last,       \* history: the reading before of each player
    vouched     \* history: the ticks played of each episode since its record

roundVars == <<inRound, todo, quiet, heard>>

historyVars == <<clock, last, vouched>>

vars == <<sessionVars, storeVars, task, roundVars, historyVars>>

Seen == [episode: Episodes, file: Files, playing: BOOLEAN, at: Nat]

ASSUME OutIsNoReading == Out \notin Seen

Init ==
    /\ SessionInit
    /\ StoreInit
    /\ task = "up"
    /\ inRound = FALSE
    /\ todo = {} /\ quiet = {} /\ heard = {}
    /\ clock = 0
    /\ last = [p \in Players |-> Out]
    /\ vouched = [e \in Episodes |-> {}]

-----------------------------------------------------------------------------
(***************************************************************************)
(* A round.                                                                *)
(***************************************************************************)

\* Mutants: a failure to answer is taken for a departure; and only a player of
\* the round that is over is looked for, so that none is ever missed.
UnheardOrMute(admitted, mute) == heard \ admitted

UnheardOfRound(admitted, mute) == todo \ (admitted \cup mute)

\* The players the session knows of that the round hears nothing of.  One
\* that failed to answer has not left.
Unheard(admitted, mute) == heard \ (admitted \cup mute)

\* PlayerWatcher::poll answered, and policy was asked.  After the evening
\* every player is closed.
Poll ==
    /\ task = "up" /\ ~inRound /\ effects = <<>>
    /\ \E admitted \in SUBSET Players, mute \in SUBSET Players :
          /\ admitted \cap mute = {}
          /\ \/ clock = MaxTime /\ admitted = {} /\ mute = {} /\ UNCHANGED clock
             \/ \E gap \in Gaps :
                   clock + gap <= MaxTime /\ clock' = clock + gap
          /\ todo' = admitted
          /\ quiet' = Unheard(admitted, mute)
          /\ last' = [p \in Players |->
                         IF p \in admitted \cup mute THEN last[p] ELSE Out]
    /\ inRound' = TRUE
    /\ UNCHANGED <<sessionVars, storeVars, task, heard, vouched>>

ReadingsOf(p) ==
    {r \in [player: {p}, episode: Episodes \cup {NoEpisode}, file: Files,
            playing: BOOLEAN, near: BOOLEAN, sought: BOOLEAN,
            length: AnyLength, at: Since(clock, Skew)..clock] :
        r.episode = NoEpisode => ~r.playing /\ ~r.near /\ ~r.sought}

\* The ticks the reading says were played: those since the reading before of
\* the same file, where that one was playing and not too long ago.
Vouches(r) ==
    LET before == last[r.player] IN
    IF /\ before # Out
       /\ before.episode = r.episode /\ before.file = r.file
       /\ before.playing
       /\ Since(r.at, before.at) <= ObservedLimit
      THEN before.at..(r.at - 1) ELSE {}

\* One admitted reading: it is decided and handed to the session.
Take(p) ==
    /\ task = "up" /\ inRound /\ effects = <<>>
    /\ p \in todo
    /\ todo' = todo \ {p}
    /\ heard' = heard \cup {p}
    /\ \E r \in ReadingsOf(p) :
          /\ Advance(r)
          /\ last' = [last EXCEPT ![p] =
                IF r.episode = NoEpisode THEN Out
                ELSE [episode |-> r.episode, file |-> r.file,
                      playing |-> r.playing, at |-> r.at]]
          /\ vouched' = [e \in Episodes |->
                IF e = r.episode THEN vouched[e] \cup Vouches(r) ELSE vouched[e]]
    /\ UNCHANGED <<storeVars, task, inRound, quiet, clock>>

\* One effect carried out, and the answer to a question brought back.
CarryOutResume ==
    /\ task = "up" /\ effects # <<>> /\ Head(effects).do = "resume"
    /\ Resumed(Head(effects).question, KeptOf(Head(effects).episode))
    /\ effects' = Tail(effects)
    /\ UNCHANGED <<asked, storeVars, task, roundVars, historyVars>>

CarryOutKeep ==
    /\ task = "up" /\ effects # <<>> /\ Head(effects).do = "keep"
    /\ StoreKeep(Head(effects).episode, Head(effects).watched)
    /\ effects' = Tail(effects)
    /\ UNCHANGED <<sittings, asked, task, roundVars, historyVars>>

CarryOutRecord ==
    /\ task = "up" /\ effects # <<>> /\ Head(effects).do = "record"
    /\ StoreRecord(Head(effects).episode)
    /\ effects' = Tail(effects)
    /\ vouched' = [vouched EXCEPT ![Head(effects).episode] = {}]
    /\ UNCHANGED <<sittings, asked, task, roundVars, clock, last>>

CarryOutClose ==
    /\ task = "up" /\ effects # <<>> /\ Head(effects).do = "close"
    /\ StoreClose(Head(effects).episode)
    /\ effects' = Tail(effects)
    /\ UNCHANGED <<sittings, asked, task, roundVars, historyVars>>

CarryOut == CarryOutResume \/ CarryOutKeep \/ CarryOutRecord \/ CarryOutClose

\* Every reading was taken: whoever is quiet is let go.
FinishRound ==
    /\ task = "up" /\ inRound /\ effects = <<>> /\ todo = {}
    /\ EndRound(quiet)
    /\ heard' = heard \ quiet
    /\ quiet' = {}
    /\ inRound' = FALSE
    /\ UNCHANGED <<storeVars, task, todo, historyVars>>

-----------------------------------------------------------------------------
(***************************************************************************)
(* Failures.  Whatever ends the task, its session and its round are lost,  *)
(* and so are the effects that were not carried out.                       *)
(***************************************************************************)

Lost ==
    /\ SessionLost
    /\ inRound' = FALSE
    /\ todo' = {} /\ quiet' = {} /\ heard' = {}
    /\ last' = [p \in Players |-> Out]
    /\ UNCHANGED <<storeVars, clock, vouched>>

\* The platform could not be read, the database was in use, or a panic.
TaskFails ==
    /\ task = "up"
    /\ task' = "down"
    /\ Lost

\* A call into the store was refused for good: keeping a name the list does
\* not hold, or carrying out an effect.
StoreRefuses ==
    /\ task = "up" /\ (effects # <<>> \/ todo # {})
    /\ task' = "stopped"
    /\ Lost

\* The process is killed, and is started again later.
DaemonDies ==
    /\ task # "down"
    /\ task' = "down"
    /\ Lost

Restart ==
    /\ task = "down"
    /\ task' = "up"
    /\ UNCHANGED <<sessionVars, storeVars, roundVars, historyVars>>

Works ==
    \/ Poll
    \/ \E p \in Players : Take(p)
    \/ CarryOut
    \/ FinishRound

Fails == TaskFails \/ StoreRefuses \/ DaemonDies

Next == Works \/ Fails \/ Restart

Spec == Init /\ [][Next]_vars

\* Rounds follow each other for ever, a call into the store answers within a
\* second, and the supervisor starts the task again.
FairSpec == Spec /\ WF_vars(Works) /\ WF_vars(Restart)

\* The task as it runs while nothing fails.
SmoothSpec == Init /\ [][Works]_vars

-----------------------------------------------------------------------------
TypeOK ==
    /\ SessionTypeOK
    /\ StoreTypeOK
    /\ task \in {"up", "down", "stopped"}
    /\ inRound \in BOOLEAN
    /\ todo \subseteq Players /\ quiet \subseteq Players /\ heard \subseteq Players
    /\ clock \in Nat
    /\ last \in [Players -> Seen \cup {Out}]
    /\ vouched \in [Episodes -> SUBSET Nat]

\* A player is in one sitting at most (Session::sittings), whatever it opens,
\* and in none the task has not heard it in: it could not be let go of one.
OnePlace ==
    \A p \in Players :
        /\ \A d, e \in Episodes :
              Has(sittings[d], p) /\ Has(sittings[e], p) => d = e
        /\ \A e \in Episodes : Has(sittings[e], p) => p \in heard

\* The sittings are what the players were last read to have open: a player is
\* in the sitting its last reading names until a round hears nothing of it,
\* and a failure to answer takes it out of none.
Names(p, e) == last[p] # Out /\ last[p].episode = e

SittingsFollowReadings ==
    \A p \in Players, e \in Episodes :
        /\ Names(p, e) => Has(sittings[e], p)
        /\ Has(sittings[e], p) => Names(p, e) \/ p \in quiet

Pending(do, e) ==
    {i \in 1..Len(effects) : effects[i].do = do /\ effects[i].episode = e}

\* What the store will have of an episode once what is pending is carried out.
WillKeep(e) ==
    IF Pending("record", e) # {} THEN Registered
    ELSE IF Pending("keep", e) # {}
      THEN LET i == CHOOSE i \in Pending("keep", e) : TRUE
           IN  Watching(Whole(effects[i].watched) * Grain)
    ELSE KeptOf(e)

\* A task that stops loses nothing it has counted but the calls it did not
\* make: what the store would answer is what the sitting stands at, less what
\* is under a millisecond.
StoreAgrees ==
    \A e \in Episodes :
        LET s == sittings[e] IN
        /\ s.stage = "asked" => effects = <<Resume(e, s.question)>>
        /\ s.stage = "counting" =>
              \/ WillKeep(e) = Watching(Whole(s.watched) * Grain)
              \/ WillKeep(e) = Nothing /\ s.watched = 0
        /\ s.stage \in {"opening", "registered"} => WillKeep(e) = Registered
        /\ s.stage = "over" => Pending("keep", e) \cup Pending("record", e) = {}

\* The effect whose turn it is finds the store as the session took it to be:
\* a question is its sitting's own; a total is more than the one it takes the
\* place of, and the first of another viewing holds its first seconds; and an
\* episode is recorded on a total kept for it that the policy counts.
EffectsLead ==
    effects # <<>> =>
        LET next == Head(effects)
            e    == next.episode IN
        /\ next.do = "resume" =>
              /\ sittings[e].stage = "asked"
              /\ effects = <<Resume(e, sittings[e].question)>>
        /\ next.do = "keep" =>
              /\ \/ effects = <<Keep(e, next.watched)>>
                 \/ /\ effects = <<Keep(e, next.watched), Record(e)>>
                    /\ Enough(next.watched)
              /\ next.watched > KeptOf(e).watched
              /\ KeptOf(e).is = "registered" => next.watched >= FirstSeconds
        /\ next.do = "record" =>
              /\ effects = <<Record(e)>>
              /\ KeptOf(e).is = "watching" /\ EnoughKept(KeptOf(e).watched)
        /\ next.do = "close" => \A i \in 1..Len(effects) : effects[i].do = "close"

\* Time that was played is counted once, however many players play the
\* episode and however they take turns: no total is more than the ticks the
\* readings vouch for since the episode was last recorded.
CountedOnce ==
    \A e \in Episodes :
        /\ row[e] = "watching" => total[e] * Grain <= Cardinality(vouched[e])
        /\ sittings[e].stage \in {"opening", "counting"} =>
              sittings[e].watched <= Cardinality(vouched[e])

L == INSTANCE Ledger WITH
        viewing <- [e \in Episodes |-> KeptOf(e)], times <- seen

LedgerSpec == L!Spec

\* An episode is recorded once in a viewing: between two records of it the
\* policy's least has been played, crashes and restarts included.
RecordedOnEnough ==
    [][\A e \in Episodes :
          seen'[e] # seen[e] =>
              seen'[e] = seen[e] + 1 /\ Enough(Cardinality(vouched[e]))]_vars

\* While nothing fails, a mark in the store is of a sitting that is open or
\* about to be closed.
MarkIsOpen ==
    \A e \in Episodes :
        row[e] = "registered" =>
            sittings[e].stage = "registered" \/ Pending("close", e) # {}

\* When the players are closed every sitting comes to its end, however the
\* task failed on the way.
EveningEnds == <>[](\A e \in Episodes : sittings[e].stage = "over")
=============================================================================
