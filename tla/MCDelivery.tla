------------------------------ MODULE MCDelivery ------------------------------
(***************************************************************************)
(* Instances of Delivery for TLC: a series of two episodes, a film that    *)
(* was seen, and a work the list does not hold, to which a rule sends what *)
(* follows the series; and a work the service does not have.               *)
(*                                                                         *)
(* Beside it the inputs of MCResolving, and one file settled by what the   *)
(* list holds (Settling): a behaviour is of one of the three.              *)
(***************************************************************************)
EXTENDS Delivery

CONSTANTS series, film, sequel, nowhere, aSeries, aFilm

MCCountOf == [e \in Entries |-> IF e = series THEN 2 ELSE IF e = film THEN 1 ELSE None]

MCEntryOf == [s \in {aSeries, aFilm} |-> IF s = aSeries THEN series ELSE film]

Rule(first, to) ==
    [from |-> [work |-> series, first |-> first, last |-> first],
     to |-> [work |-> to, first |-> 1, last |-> 1], again |-> FALSE]

MCRules == <<Rule(3, sequel), Rule(4, nowhere)>>

MCPins == {[show |-> aFilm, first |-> 2, last |-> 2, entry |-> series, to |-> 2, toLast |-> 2]}

Seen(status, progress) == [status |-> status, progress |-> progress, rewatches |-> 0]

MCFirstLists ==
    {[e \in Entries |-> CASE e = series -> s [] e = film -> Seen("completed", 1) [] OTHER -> None] :
        s \in {Seen("planned", 0), Seen("completed", 2)}}

Progress(show, episode) == [kind |-> "progress", show |-> show, episode |-> episode]

MCWrites == [entry : Entries, standing : [status : {"watching", "rewatching", "completed"},
                                          progress : 0 .. 3, rewatches : 0 .. 3]]

SomeOperations ==
    {Progress(aSeries, 1), Progress(aSeries, 2), Progress(aFilm, None), Progress(aFilm, 2),
     Progress(aSeries, 3), Progress(aSeries, 4), [kind |-> "unread"]}

FewOperations == {Progress(aSeries, 1), Progress(aFilm, None), Progress(aSeries, 4)}

-----------------------------------------------------------------------------
CONSTANTS
    SmallHundred, LastNumber,       \* Hundred and MaxNumber of the inputs
    Show, Own, Other, Counts, Episodes, Taken, Sent,
    Shows, Absent, Several, FirstFacts, Learnable, Spelled, Readings

VARIABLES part, rules, count, episode, facts, name, reading, was

R == INSTANCE MCResolving WITH Hundred <- SmallHundred, MaxNumber <- LastNumber

\* Ranges of the two halves of a rule: 2-4 goes to one episode, to as many or,
\* with two, is refused, and a range with no end goes to another.
MCTaken == {<<2, 4>>, <<4, None>>}

MCSent == {<<1, 1>>, <<1, 2>>, <<2, 4>>, <<7, None>>}

\* A series of two short episodes and a long film, of one title.
MCFirstFacts ==
    {None} \cup [episodes : {None}, length : {None}, year : {None}, broadcast : {None},
                released : BOOLEAN]

MCLearnable ==
    [s \in {aSeries, aFilm} |->
        IF s = aSeries THEN [episodes |-> {2}, length |-> {2}, year |-> {1}, broadcast |-> {TRUE}]
        ELSE [episodes |-> {1}, length |-> {6}, year |-> {2}, broadcast |-> {FALSE}]]

MCSpelled ==
    [shows : {{aSeries}, {aSeries, aFilm}}, year : {None, 1, 2}, carried : {{}, {aFilm}},
     kind : {None, "film"}, episode : {2, Absent, Several}]

MCReadings == [duration : {None, 2, 6}, position : {None, 4}]

F == INSTANCE Settling

\* What the list may hold of a show, and what may be learned of it.
Facts ==
    [episodes : Nat \cup {None}, length : Nat \cup {None}, year : Nat \cup {None},
     broadcast : BOOLEAN \cup {None}, released : BOOLEAN]

Lessons ==
    [episodes : SUBSET Nat, length : SUBSET Nat, year : SUBSET Nat, broadcast : SUBSET BOOLEAN]

ASSUME InputsAssumption ==
    /\ Counts \subseteq Nat \cup {None} /\ Episodes \subseteq Nat \cup {None}
    /\ None \notin Shows /\ None \notin BOOLEAN /\ None \notin Facts
    /\ FirstFacts \subseteq Facts \cup {None}
    /\ \A s \in Shows : Learnable[s] \in Lessons
    /\ \A n \in Spelled : n.shows \subseteq Shows

deliveryAll ==
    <<log, cursor, decided, aside, service, held, known, sending, foretold, changes>>

inputAll == <<rules, count, episode>>

fileAll == <<facts, name, reading, was>>

\* What stands still has one value, so that no behaviour is there twice.
NoInput == rules = <<>> /\ count = None /\ episode = None
NoFile == facts = None /\ name = None /\ reading = None /\ was = None
FirstList == \A b \in Backends : service[b][series].progress = 0

MCInit ==
    /\ Init
    /\ \/ part = "delivery" /\ NoInput /\ NoFile
       \/ part = "resolving" /\ R!Init /\ NoFile /\ FirstList
       \/ part = "settling" /\ F!SettlingInit /\ NoInput /\ FirstList

DeliveryStep == part = "delivery" /\ Next /\ UNCHANGED <<part, inputAll, fileAll>>

ResolvingStep == part = "resolving" /\ R!Next /\ UNCHANGED <<part, deliveryAll, fileAll>>

SettlingStep ==
    part = "settling" /\ F!SettlingNext /\ UNCHANGED <<part, deliveryAll, inputAll>>

MCNext == DeliveryStep \/ ResolvingStep \/ SettlingStep

MCSpec == MCInit /\ [][MCNext]_<<part, inputAll, deliveryAll, fileAll>>

\* redirect answers what the file says with every ! written out, as the comments
\* of relations.rs tell it: the first of those rules decides.  And what goes to
\* the show's own entry without a rule is within its count, so that a viewing of
\* it is never refused as past the count or as episode 0.
ResolvedAsWritten == part = "resolving" => R!RedirectIsOfTheFile /\ R!OwnEntryTakesIt

\* A file that was counted as of one show is never counted as of another while
\* facts are only learned (settle.rs).
NeverOfAnother == part = "settling" => F!NeverOfAnother
=============================================================================
