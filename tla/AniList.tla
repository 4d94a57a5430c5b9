------------------------------- MODULE AniList -------------------------------
(***************************************************************************)
(* The AniList client (crates/sync/src/anilist/mod.rs): the turns its      *)
(* requests are sent in, the waits the service asks for, and a list read a *)
(* chunk at a time.  The callers share one client and call it at once, as  *)
(* its tests do; the daemon makes a client for each reading and login.     *)
(*                                                                         *)
(* Time runs in units and is relative: next is how long until a request    *)
(* may take its turn.  Timers are on time, since no unit passes while one  *)
(* is due.                                                                 *)
(***************************************************************************)
EXTENDS Naturals, SequencesExt

CONSTANTS
    Callers,
    Pace, Wait, Margin, Deadline,   \* PACE, WAIT, MARGIN and DEADLINE
    Asked,      \* waits the service asks for
    None,       \* a refusal that names no wait
    Chunks,     \* what the service answers of a chunk
    MaxChunks,  \* bound: chunks with entries that say more follow
    MaxNext     \* bound: how far ahead turns are taken

VARIABLES
    next,       \* AniList::next
    call,       \* the request of each caller: waiting for its turn or sent, and how
                \* long until its turn or its deadline
    reading,    \* what each caller asks for, whether it goes on to the list, how many
                \* chunks said more follow, and the entries read

    sinceSent,  \* history: time since the last request was sent, at most Pace
    held,       \* history: what is left of the longest wait a refusal asked for, with
                \* the margin
    obliged     \* history: what was left of it as each caller took its turn

vars == <<next, call, reading, sinceSent, held, obliged>>

Later(a, b) == IF a >= b THEN a ELSE b

Less(t) == IF t = 0 THEN 0 ELSE t - 1

AtRest == [at |-> "idle", left |-> 0]

NoReading == [asks |-> "nothing", list |-> FALSE, more |-> 0, entries |-> <<>>]

-----------------------------------------------------------------------------
\* A mutant: the turn after this one is not kept.
TurnAlone == next

\* turn, where next is left.
AfterTurn == next + Pace

TakesTurn(c) ==
    /\ next <= MaxNext
    /\ call' = [call EXCEPT ![c] = [at |-> "waiting", left |-> next]]
    /\ next' = AfterTurn
    /\ obliged' = [obliged EXCEPT ![c] = held]

\* A mutant: a wait takes the place of a longer one.
HeldAnew(until) == until

\* hold_off.
HeldOff(until) == Later(next, until)

\* A caller asks for the account, and for its list after it or not.
Begins(c, list) ==
    /\ call[c] = AtRest
    /\ TakesTurn(c)
    /\ reading' = [reading EXCEPT ![c] = [NoReading EXCEPT !.asks = "account", !.list = list]]
    /\ UNCHANGED <<sinceSent, held>>

\* The turn has come.
Sends(c) ==
    /\ call[c].at = "waiting" /\ call[c].left = 0
    /\ call' = [call EXCEPT ![c] = [at |-> "sent", left |-> Deadline]]
    /\ sinceSent' = 0
    /\ UNCHANGED <<next, reading, held, obliged>>

Ends(c) ==
    /\ call' = [call EXCEPT ![c] = AtRest]
    /\ reading' = [reading EXCEPT ![c] = NoReading]
    /\ obliged' = [obliged EXCEPT ![c] = 0]

\* A refusal for too many requests, of status 429.
IsRefused(c, after) ==
    LET until == (IF after = None THEN Wait ELSE after) + Margin IN
    /\ call[c].at = "sent"
    /\ next' = HeldOff(until)
    /\ held' = Later(held, until)
    /\ Ends(c)
    /\ UNCHANGED <<sinceSent>>

\* Any other failure, or an answer that cannot be read.
Fails(c) ==
    /\ call[c].at = "sent"
    /\ Ends(c)
    /\ UNCHANGED <<next, sinceSent, held>>

TimesOut(c) == call[c].left = 0 /\ Fails(c)

\* The task that called is dropped, and its turn is lost.
IsDropped(c) ==
    /\ call[c].at = "waiting"
    /\ Ends(c)
    /\ UNCHANGED <<next, sinceSent, held>>

AccountIsRead(c) ==
    /\ call[c].at = "sent" /\ reading[c].asks = "account"
    /\ \/ /\ reading[c].list
          /\ TakesTurn(c)
          /\ reading' = [reading EXCEPT ![c].asks = "chunk"]
       \/ /\ ~reading[c].list
          /\ Ends(c)
          /\ UNCHANGED next
    /\ UNCHANGED <<sinceSent, held>>

\* An entry of a list, read once.
Push(read, entry) ==
    IF \E i \in DOMAIN read : read[i].work = entry.work THEN read ELSE Append(read, entry)

\* The entries of a chunk, those of the lists of a status first.
Gathered(read, chunk) ==
    LET of(works, own) == [i \in DOMAIN works |-> [work |-> works[i], own |-> own]]
    IN  FoldLeft(Push, read, of(chunk.status, FALSE) \o of(chunk.own, TRUE))

\* A mutant: an empty chunk is followed like any other.
EmptyIsFollowed(chunk) == FALSE

HoldsNothing(chunk) == chunk.more /\ chunk.status = <<>> /\ chunk.own = <<>>

ChunkIsRead(c, chunk) ==
    /\ call[c].at = "sent" /\ reading[c].asks = "chunk"
    /\ chunk.more /\ (chunk.status # <<>> \/ chunk.own # <<>>) => reading[c].more < MaxChunks
    /\ IF HoldsNothing(chunk) \/ ~chunk.more
       THEN Ends(c) /\ UNCHANGED next
       ELSE /\ TakesTurn(c)
            /\ reading' = [reading EXCEPT
                              ![c].entries = Gathered(@, chunk),
                              ![c].more = IF chunk.status = <<>> /\ chunk.own = <<>> THEN @ ELSE @ + 1]
    /\ UNCHANGED <<sinceSent, held>>

\* A unit passes, where no timer is due.
Passes ==
    /\ \A c \in Callers : call[c] # AtRest => call[c].left > 0
    /\ next' = Less(next)
    /\ call' = [c \in Callers |-> [call[c] EXCEPT !.left = Less(@)]]
    /\ sinceSent' = IF sinceSent < Pace THEN sinceSent + 1 ELSE sinceSent
    /\ held' = Less(held)
    /\ obliged' = [c \in Callers |-> Less(obliged[c])]
    /\ UNCHANGED <<reading>>

Init ==
    /\ next = 0
    /\ call = [c \in Callers |-> AtRest]
    /\ reading = [c \in Callers |-> NoReading]
    /\ sinceSent = Pace
    /\ held = 0
    /\ obliged = [c \in Callers |-> 0]

Next ==
    \/ Passes
    \/ \E c \in Callers :
          \/ Sends(c) \/ Fails(c) \/ TimesOut(c) \/ IsDropped(c) \/ AccountIsRead(c)
          \/ \E list \in BOOLEAN : Begins(c, list)
          \/ \E after \in Asked \cup {None} : IsRefused(c, after)
          \/ \E chunk \in Chunks : ChunkIsRead(c, chunk)

Spec == Init /\ [][Next]_vars

\* Timers go off, and a request that is not answered is given up.
FairSpec ==
    /\ Spec /\ WF_vars(Passes)
    /\ \A c \in Callers : WF_vars(Sends(c)) /\ WF_vars(TimesOut(c))

-----------------------------------------------------------------------------
\* No two requests of the client are sent closer than the pace, whoever makes
\* them, whichever is dropped and whatever wait a refusal asks for.
SentApart == [][\A c \in Callers : Sends(c) => sinceSent = Pace]_vars

\* A request that takes its turn after a refusal is sent no sooner than the wait
\* and the margin have passed, though a shorter wait is asked for since.
HoldIsKept ==
    \A c \in Callers : call[c].at = "waiting" => call[c].left >= obliged[c]

\* A reading comes to its end, though the service never answers, or answers
\* chunks that hold nothing for as long as it is asked.
ReadingEnds == \A c \in Callers : reading[c].asks # "nothing" ~> reading[c].asks = "nothing"
=============================================================================
