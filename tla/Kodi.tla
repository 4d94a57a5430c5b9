-------------------------------- MODULE Kodi ---------------------------------
(***************************************************************************)
(* The connection to Kodi (crates/detect/src/kodi.rs): up to three calls a *)
(* reading, each answered among the notifications Kodi sends, over a       *)
(* connection that is held from one reading to the next.                   *)
(*                                                                         *)
(* Kodi answers in its own time, quits and is started again.  A value that *)
(* has arrived is the id of the call it answers, or Notification; what has *)
(* arrived of a value in part has not arrived.                             *)
(***************************************************************************)
EXTENDS Naturals, Sequences

CONSTANTS
    MaxSent,        \* bound: calls over one connection
    MaxArrived      \* bound: values that have arrived and were not taken

VARIABLES
    kodi,       \* whether a Kodi is at the address
    conn,       \* the connection, both its ends
    call,       \* the call the reading is at, and how far it is with it
    quit,       \* history: Kodi quit since the reading began
    outcome       \* history: how the reading before this one ended

kodiVars == <<kodi, conn, call, quit, outcome>>

Notification == 0

NoConn == [open |-> FALSE, up |-> FALSE, sent |-> 0, asked |-> <<>>, arrived |-> <<>>]

NoCall == [number |-> 0, at |-> "none", held |-> FALSE]

Reading == call # NoCall

\* PROPERTIES, the last call of a reading.
LastCall == 3

-----------------------------------------------------------------------------
(***************************************************************************)
(* Kodi.                                                                   *)
(***************************************************************************)
Starts == ~kodi /\ kodi' = TRUE /\ UNCHANGED <<conn, call, quit, outcome>>

Quits ==
    /\ kodi
    /\ kodi' = FALSE /\ quit' = TRUE
    /\ conn' = [conn EXCEPT !.up = FALSE, !.asked = <<>>]
    /\ UNCHANGED <<call, outcome>>

Arrives(value) ==
    /\ conn.up /\ Len(conn.arrived) < MaxArrived
    /\ UNCHANGED <<kodi, call, quit, outcome>>
    /\ IF value = Notification
       THEN conn' = [conn EXCEPT !.arrived = Append(@, value)]
       ELSE /\ conn.asked # <<>> /\ value = Head(conn.asked)
            /\ conn' = [conn EXCEPT !.arrived = Append(@, value), !.asked = Tail(@)]

-----------------------------------------------------------------------------
(***************************************************************************)
(* KodiWatcher::read and reached.                                          *)
(***************************************************************************)

\* The connection that is held is taken out for the reading.
Begins ==
    /\ ~Reading
    /\ conn.sent + LastCall <= MaxSent
    /\ call' = IF conn.open THEN [number |-> 1, at |-> "asking", held |-> TRUE]
               ELSE [number |-> 0, at |-> "connecting", held |-> FALSE]
    /\ quit' = FALSE /\ outcome' = "none"
    /\ UNCHANGED <<kodi, conn>>

\* A mutant: the connection is held again, whatever became of the reading.
HeldAgain == conn

\* A connection that is not held again is closed.
Dropped == NoConn

\* The reading ends without an observation.
EndsWith(how) ==
    /\ call' = NoCall
    /\ outcome' = how
    /\ conn' = Dropped
    /\ UNCHANGED <<kodi, quit>>

Connects ==
    /\ call.at = "connecting"
    /\ IF kodi
       THEN /\ conn' = [NoConn EXCEPT !.open = TRUE, !.up = TRUE]
            /\ call' = [call EXCEPT !.number = 1, !.at = "asking"]
            /\ UNCHANGED <<kodi, quit, outcome>>
       ELSE EndsWith("no Kodi")

\* A mutant: a connection that Kodi closed fails the reading.
NeverAgain == FALSE

\* Closed and Io over the connection held.
TriesAgain == call.held

\* Refused::Closed and Refused::Io.
IsClosed ==
    IF TriesAgain
    THEN /\ conn' = NoConn
         /\ call' = [number |-> 0, at |-> "connecting", held |-> FALSE]
         /\ UNCHANGED <<kodi, quit, outcome>>
    ELSE EndsWith("closed")

\* Connection::ask.  What is written to a Kodi that is gone may be refused or lost.
Asks ==
    /\ call.at = "asking"
    /\ \/ /\ conn' = [conn EXCEPT !.sent = @ + 1,
                                  !.asked = IF conn.up THEN Append(@, conn.sent + 1) ELSE @]
          /\ call' = [call EXCEPT !.at = "waiting"]
          /\ UNCHANGED <<kodi, quit, outcome>>
       \/ ~conn.up /\ IsClosed

Matches(value) == value = conn.sent

\* Connection::answer: a value that is not the answer is passed over.
PassesOver ==
    /\ call.at = "waiting" /\ conn.arrived # <<>>
    /\ ~Matches(Head(conn.arrived))
    /\ conn' = [conn EXCEPT !.arrived = Tail(@)]
    /\ UNCHANGED <<kodi, call, quit, outcome>>

\* The call is answered.  Without a video player the first is the last.
Takes ==
    /\ call.at = "waiting" /\ conn.arrived # <<>>
    /\ Matches(Head(conn.arrived))
    /\ conn' = [conn EXCEPT !.arrived = Tail(@)]
    /\ \/ /\ call.number < LastCall
          /\ call' = [call EXCEPT !.number = @ + 1, !.at = "asking"]
          /\ UNCHANGED outcome
       \/ /\ call.number \in {1, LastCall}
          /\ call' = NoCall /\ outcome' = "read"
    /\ UNCHANGED <<kodi, quit>>

\* Kodi closed the connection and nothing is left of what it sent.
FindsClosed ==
    /\ call.at = "waiting" /\ conn.arrived = <<>> /\ ~conn.up
    /\ IsClosed

\* A fault, or an answer that is too long or cannot be read.
IsRefused ==
    /\ call.at = "waiting"
    /\ EndsWith("refused")

\* The deadline, wherever the reading is.
TimesOut == Reading /\ EndsWith("late")

KodiInit ==
    /\ kodi = FALSE /\ conn = NoConn /\ call = NoCall
    /\ quit = FALSE /\ outcome = "none"

KodiNext ==
    \/ Starts \/ Quits
    \/ \E value \in {Notification} \cup {conn.asked[i] : i \in DOMAIN conn.asked} : Arrives(value)
    \/ Begins \/ Connects \/ Asks \/ PassesOver \/ Takes \/ FindsClosed \/ IsRefused \/ TimesOut

-----------------------------------------------------------------------------
\* A connection that is held does a reading no harm: it owes no answer, so that
\* none that comes late is found on it, and one that Kodi closed since, as it was
\* started again, fails no reading (KodiWatcher::reached).
HeldDoesNoHarm ==
    /\ ~Reading /\ conn.open =>
          /\ conn.asked = <<>>
          /\ \A i \in DOMAIN conn.arrived : conn.arrived[i] = Notification
    /\ outcome = "closed" => quit
=============================================================================
