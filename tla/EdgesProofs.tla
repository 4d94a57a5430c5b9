---------------------------- MODULE EdgesProofs -----------------------------
(***************************************************************************)
(* What holds at the edges of the daemon whatever their constants are: of  *)
(* Kodi's connection, of the lengths of files, of the voice, of the stream  *)
(* of events and of the timeline of a player.                              *)
(***************************************************************************)
EXTENDS MCEdges, TLAPS

-----------------------------------------------------------------------------
(***************************************************************************)
(* Kodi.                                                                   *)
(***************************************************************************)
Connections ==
    [open : BOOLEAN, up : BOOLEAN, sent : Nat, asked : Seq(Nat), arrived : Seq(Nat)]

Places == {"none", "connecting", "asking", "waiting"}

Calls == [number : 0 .. 3, at : Places, held : BOOLEAN]

KodiTypes ==
    /\ conn \in Connections
    /\ call \in Calls
    /\ kodi \in BOOLEAN /\ quit \in BOOLEAN
    /\ outcome \in {"none", "read", "closed", "refused", "late", "no Kodi"}

\* Of what has arrived nothing answers a call.
NoAnswer(c) == \A i \in DOMAIN c.arrived : c.arrived[i] = 0

\* A reading that waits is owed one answer at the most, to the call it is at:
\* Kodi has it yet, or it is among what has arrived, or it will never come.
OneIsOwed ==
    IF call.at = "waiting"
    THEN /\ conn.sent > 0
         /\ \/ conn.asked = <<conn.sent>> /\ NoAnswer(conn)
            \/ /\ conn.asked = <<>>
               /\ \A i \in DOMAIN conn.arrived : conn.arrived[i] \in {0, conn.sent}
               /\ \A i, j \in DOMAIN conn.arrived :
                     conn.arrived[i] # 0 /\ conn.arrived[j] # 0 => i = j
    ELSE conn.asked = <<>> /\ NoAnswer(conn)

\* A connection that was made for the reading is closed only where Kodi quit.
ClosedByQuit ==
    /\ call.at \in {"asking", "waiting"} /\ ~call.held /\ ~conn.up => quit
    /\ outcome = "closed" => quit

KodiInv == KodiTypes /\ OneIsOwed /\ ClosedByQuit

LEMMA NewConnection ==
    K!NoConn \in Connections /\ NoAnswer(K!NoConn) /\ K!NoConn.asked = <<>>
  BY DEF K!NoConn, Connections, NoAnswer

LEMMA NewCall == K!NoCall \in Calls /\ K!NoCall.at = "none"
  BY DEF K!NoCall, Calls, Places

LEMMA KodiStarts == K!KodiInit => KodiInv
  <1> SUFFICES ASSUME K!KodiInit
               PROVE  KodiInv
    OBVIOUS
  <1>1. conn = K!NoConn /\ call = K!NoCall
    BY DEF K!KodiInit
  <1>2. KodiTypes
    BY <1>1, NewConnection, NewCall DEF K!KodiInit, KodiTypes
  <1>3. OneIsOwed
    BY <1>1, NewConnection DEF K!NoCall, OneIsOwed
  <1>4. ClosedByQuit
    BY <1>1 DEF K!KodiInit, K!NoCall, ClosedByQuit
  <1> QED
    BY <1>2, <1>3, <1>4 DEF KodiInv

LEMMA ReadingEndsWith ==
    ASSUME KodiInv, NEW how \in {"read", "closed", "refused", "late", "no Kodi"},
           K!EndsWith(how), how = "closed" => quit
    PROVE  KodiInv'
  <1>1. conn' = K!NoConn /\ call' = K!NoCall /\ outcome' = how /\ UNCHANGED <<kodi, quit>>
    BY DEF K!EndsWith, K!Dropped
  <1>2. KodiTypes'
    BY <1>1, NewConnection, NewCall DEF KodiInv, KodiTypes
  <1>3. OneIsOwed'
    BY <1>1, NewConnection DEF OneIsOwed, NoAnswer, K!NoCall
  <1>4. ClosedByQuit'
    BY <1>1 DEF ClosedByQuit, K!NoCall
  <1> QED
    BY <1>2, <1>3, <1>4 DEF KodiInv

LEMMA ConnectionIsClosed ==
    ASSUME KodiInv, K!IsClosed, call.held \/ quit
    PROVE  KodiInv'
  <1>1. CASE K!TriesAgain
    <2>1. /\ conn' = K!NoConn
          /\ call' = [number |-> 0, at |-> "connecting", held |-> FALSE]
          /\ UNCHANGED <<kodi, quit, outcome>>
      BY <1>1 DEF K!IsClosed
    <2>2. KodiTypes'
      <3>1. [number |-> 0, at |-> "connecting", held |-> FALSE] \in Calls
        BY DEF Calls, Places
      <3> QED
        BY <2>1, <3>1, NewConnection DEF KodiInv, KodiTypes
    <2>3. OneIsOwed' /\ ClosedByQuit'
      BY <2>1, NewConnection DEF KodiInv, OneIsOwed, NoAnswer, ClosedByQuit
    <2> QED
      BY <2>2, <2>3 DEF KodiInv
  <1>2. CASE ~K!TriesAgain
    BY <1>2, ReadingEndsWith DEF K!IsClosed, K!TriesAgain
  <1> QED
    BY <1>1, <1>2

\* What a call and a connection are made of.
LEMMA KodiParts ==
    ASSUME KodiTypes
    PROVE  /\ conn.open \in BOOLEAN /\ conn.up \in BOOLEAN /\ conn.sent \in Nat
           /\ conn.asked \in Seq(Nat) /\ conn.arrived \in Seq(Nat)
           /\ call.number \in 0 .. 3 /\ call.held \in BOOLEAN
           /\ call.at \in Places /\ conn \in Connections /\ call \in Calls
  BY DEF KodiTypes, Connections, Calls

\* What is left of a connection or a call with a part of it exchanged.
LEMMA ConnectionWith ==
    ASSUME NEW c \in Connections, NEW n \in Nat, NEW q \in Seq(Nat), NEW r \in Seq(Nat)
    PROVE  /\ [c EXCEPT !.up = FALSE, !.asked = q] \in Connections
           /\ [c EXCEPT !.sent = n, !.asked = q] \in Connections
           /\ [c EXCEPT !.arrived = r, !.asked = q] \in Connections
           /\ [c EXCEPT !.arrived = r] \in Connections
  BY DEF Connections

LEMMA CallWith ==
    ASSUME NEW n \in 0 .. 3, NEW a \in Places,
           NEW h \in BOOLEAN, NEW c \in Calls
    PROVE  /\ [number |-> n, at |-> a, held |-> h] \in Calls
           /\ [c EXCEPT !.number = n, !.at = a] \in Calls
           /\ [c EXCEPT !.at = a] \in Calls
  BY DEF Calls

\* Of a sequence less its first element nothing is new.
LEMMA Rest ==
    ASSUME NEW s \in Seq(Nat), s # <<>>
    PROVE  /\ Tail(s) \in Seq(Nat) /\ Head(s) \in Nat /\ Head(s) = s[1]
           /\ 1 \in DOMAIN s
           /\ \A i \in DOMAIN Tail(s) : i + 1 \in DOMAIN s /\ Tail(s)[i] = s[i + 1] /\ i \in Nat /\ i > 0
  OBVIOUS

\* Of a sequence with one more everything else was there.
LEMMA OneMore ==
    ASSUME NEW s \in Seq(Nat), NEW e \in Nat
    PROVE  /\ Append(s, e) \in Seq(Nat)
           /\ \A i \in DOMAIN Append(s, e) :
                 \/ i \in DOMAIN s /\ Append(s, e)[i] = s[i]
                 \/ i = Len(s) + 1 /\ i \notin DOMAIN s /\ Append(s, e)[i] = e
  OBVIOUS

LEMMA KodiQuits ==
    ASSUME KodiInv, K!Quits
    PROVE  KodiInv'
  <1>1. /\ conn' = [conn EXCEPT !.up = FALSE, !.asked = <<>>]
        /\ kodi' = FALSE /\ quit' = TRUE /\ UNCHANGED <<call, outcome>>
    BY DEF K!Quits
  <1>2. /\ conn'.sent = conn.sent /\ conn'.arrived = conn.arrived /\ conn'.asked = <<>>
        /\ conn' \in Connections
    <2>1. conn'.sent = conn.sent /\ conn'.arrived = conn.arrived /\ conn'.asked = <<>>
      BY <1>1 DEF KodiInv, KodiTypes, Connections
    <2>2. conn \in Connections
      BY DEF KodiInv, KodiTypes
    <2>3. <<>> \in Seq(Nat)
      OBVIOUS
    <2> QED
      BY <1>1, <2>1, <2>2, <2>3, ConnectionWith
  <1>3. KodiTypes'
    BY <1>1, <1>2 DEF KodiInv, KodiTypes
  <1>4. OneIsOwed'
    <2>1. CASE call.at = "waiting"
      <3>1. CASE NoAnswer(conn)
        BY <1>1, <1>2, <2>1, <3>1 DEF KodiInv, OneIsOwed, NoAnswer
      <3>2. CASE ~NoAnswer(conn)
        BY <1>1, <1>2, <2>1, <3>2 DEF KodiInv, OneIsOwed
      <3> QED
        BY <3>1, <3>2
    <2>2. CASE call.at # "waiting"
      BY <1>1, <1>2, <2>2 DEF KodiInv, OneIsOwed, NoAnswer
    <2> QED
      BY <2>1, <2>2
  <1>5. ClosedByQuit'
    BY <1>1 DEF ClosedByQuit
  <1> QED
    BY <1>3, <1>4, <1>5 DEF KodiInv

LEMMA KodiArrives ==
    ASSUME KodiInv, NEW value, K!Arrives(value)
    PROVE  KodiInv'
  <1>0. UNCHANGED <<kodi, call, quit, outcome>> /\ conn.up
    BY DEF K!Arrives
  <1> USE KodiParts DEF KodiInv
  <1>1. CASE value = 0
    <2>1. conn' = [conn EXCEPT !.arrived = Append(@, 0)]
      BY <1>1 DEF K!Arrives, K!Notification
    <2>2. /\ conn'.up = conn.up /\ conn'.sent = conn.sent /\ conn'.asked = conn.asked
          /\ conn'.arrived = Append(conn.arrived, 0) /\ conn' \in Connections
      <3>1. Append(conn.arrived, 0) \in Seq(Nat)
        OBVIOUS
      <3> QED
        BY <2>1, <3>1 DEF KodiTypes, Connections
    <2>3. NoAnswer(conn) => NoAnswer(conn')
      BY <2>2, OneMore DEF NoAnswer
    <2>4. OneIsOwed'
      <3>1. CASE call.at = "waiting" /\ conn.asked = <<conn.sent>> /\ NoAnswer(conn)
        BY <1>0, <2>2, <2>3, <3>1 DEF OneIsOwed, NoAnswer
      <3>2. CASE /\ call.at = "waiting" /\ conn.asked = <<>>
                 /\ \A i \in DOMAIN conn.arrived : conn.arrived[i] \in {0, conn.sent}
                 /\ \A i, j \in DOMAIN conn.arrived :
                       conn.arrived[i] # 0 /\ conn.arrived[j] # 0 => i = j
        <4>1. \A i \in DOMAIN conn'.arrived : conn'.arrived[i] \in {0, conn.sent}
          BY <2>2, <3>2, OneMore
        <4>2. \A i, j \in DOMAIN conn'.arrived :
                 conn'.arrived[i] # 0 /\ conn'.arrived[j] # 0 => i = j
          BY <2>2, <3>2, OneMore
        <4> QED
          BY <1>0, <2>2, <3>2, <4>1, <4>2 DEF OneIsOwed
      <3>3. CASE call.at # "waiting"
        BY <1>0, <2>2, <2>3, <3>3 DEF OneIsOwed, NoAnswer
      <3> QED
        BY <3>1, <3>2, <3>3 DEF OneIsOwed
    <2>5. KodiTypes' /\ ClosedByQuit'
      BY <1>0, <2>2 DEF KodiTypes, ClosedByQuit
    <2> QED
      BY <2>4, <2>5
  <1>2. CASE value # 0
    <2>1. /\ conn.asked # <<>> /\ value = Head(conn.asked)
          /\ conn' = [conn EXCEPT !.arrived = Append(@, value), !.asked = Tail(@)]
      BY <1>2 DEF K!Arrives, K!Notification
    <2>2. /\ call.at = "waiting" /\ conn.sent > 0 /\ conn.asked = <<conn.sent>>
          /\ NoAnswer(conn)
      BY <2>1 DEF OneIsOwed
    <2>3. value = conn.sent /\ Tail(conn.asked) = <<>> /\ value \in Nat
      BY <2>1, <2>2
    <2>4. /\ conn'.up = conn.up /\ conn'.sent = conn.sent /\ conn'.asked = <<>>
          /\ conn'.arrived = Append(conn.arrived, conn.sent) /\ conn' \in Connections
      <3>0. <<>> \in Seq(Nat)
        OBVIOUS
      <3>1. Append(conn.arrived, value) \in Seq(Nat) /\ Tail(conn.asked) \in Seq(Nat)
        <4>1. conn.arrived \in Seq(Nat)
          BY KodiParts
        <4>2. Append(conn.arrived, value) \in Seq(Nat)
          BY <2>3, <4>1
        <4> QED
          BY <2>3, <3>0, <4>2
      <3>2. conn' = [conn EXCEPT !.arrived = Append(conn.arrived, value),
                                 !.asked = Tail(conn.asked)]
        BY <2>1
      <3>3. conn' \in Connections
        BY <3>1, <3>2, ConnectionWith DEF KodiTypes
      <3>4. /\ conn'.up = conn.up /\ conn'.sent = conn.sent
            /\ conn'.asked = Tail(conn.asked)
            /\ conn'.arrived = Append(conn.arrived, value)
        BY <3>2 DEF KodiTypes, Connections
      <3> QED
        BY <2>3, <3>3, <3>4
    <2>5. \A i \in DOMAIN conn'.arrived : conn'.arrived[i] \in {0, conn.sent}
      BY <2>2, <2>4, OneMore DEF NoAnswer
    <2>6. \A i, j \in DOMAIN conn'.arrived :
             conn'.arrived[i] # 0 /\ conn'.arrived[j] # 0 => i = j
      BY <2>2, <2>4, OneMore DEF NoAnswer
    <2>7. OneIsOwed'
      BY <1>0, <2>2, <2>4, <2>5, <2>6 DEF OneIsOwed
    <2>8. KodiTypes' /\ ClosedByQuit'
      BY <1>0, <2>4 DEF KodiTypes, ClosedByQuit
    <2> QED
      BY <2>7, <2>8
  <1> QED
    BY <1>1, <1>2

LEMMA ReadingBegins ==
    ASSUME KodiInv, K!Begins
    PROVE  KodiInv'
  <1>1. /\ call.at # "waiting" /\ UNCHANGED <<kodi, conn>>
        /\ outcome' = "none" /\ quit' = FALSE
    BY DEF K!Begins, K!Reading, K!NoCall
  <1>2. \/ call' = [number |-> 1, at |-> "asking", held |-> TRUE]
        \/ call' = [number |-> 0, at |-> "connecting", held |-> FALSE]
    BY DEF K!Begins
  <1>3. call' \in Calls
    <2>1. call \in Calls
      BY DEF KodiInv, KodiTypes
    <2>2. 0 \in 0 .. 3 /\ 1 \in 0 .. 3 /\ "asking" \in Places /\ "connecting" \in Places
      BY DEF Places
    <2>3. /\ [number |-> 1, at |-> "asking", held |-> TRUE] \in Calls
          /\ [number |-> 0, at |-> "connecting", held |-> FALSE] \in Calls
      BY <2>1, <2>2, CallWith
    <2> QED
      BY <1>2, <2>3
  <1>4. call'.at # "waiting" /\ (call'.at = "asking" => call'.held)
    BY <1>2
  <1>5. KodiTypes' /\ ClosedByQuit'
    BY <1>1, <1>3, <1>4 DEF KodiInv, KodiTypes, ClosedByQuit
  <1>6. OneIsOwed'
    BY <1>1, <1>4 DEF KodiInv, OneIsOwed, NoAnswer
  <1> QED
    BY <1>5, <1>6 DEF KodiInv

LEMMA ReadingConnects ==
    ASSUME KodiInv, K!Connects
    PROVE  KodiInv'
  <1>1. CASE kodi
    <2>1. /\ conn' = [K!NoConn EXCEPT !.open = TRUE, !.up = TRUE]
          /\ call' = [call EXCEPT !.number = 1, !.at = "asking"]
          /\ UNCHANGED <<kodi, quit, outcome>>
      BY <1>1 DEF K!Connects
    <2>2. conn' = [open |-> TRUE, up |-> TRUE, sent |-> 0, asked |-> <<>>, arrived |-> <<>>]
      BY <2>1 DEF K!NoConn
    <2>3. conn' \in Connections /\ NoAnswer(conn') /\ conn'.asked = <<>> /\ conn'.up
      BY <2>2 DEF Connections, NoAnswer
    <2>4. call' \in Calls /\ call'.at = "asking"
      <3>1. call \in Calls
        BY DEF KodiInv, KodiTypes
      <3>2. call' \in Calls
        <4>1. 1 \in 0 .. 3 /\ "asking" \in Places
          BY DEF Places
        <4>2. [call EXCEPT !.number = 1, !.at = "asking"] \in Calls
          BY <3>1, <4>1, CallWith
        <4> QED
          BY <2>1, <4>2
      <3>3. call'.at = "asking"
        BY <2>1, <3>1 DEF Calls
      <3> QED
        BY <3>2, <3>3
    <2>5. KodiTypes' /\ ClosedByQuit'
      BY <2>1, <2>3, <2>4 DEF KodiInv, KodiTypes, ClosedByQuit
    <2>6. OneIsOwed'
      BY <2>3, <2>4 DEF OneIsOwed, NoAnswer
    <2> QED
      BY <2>5, <2>6 DEF KodiInv
  <1>2. CASE ~kodi
    BY <1>2, ReadingEndsWith DEF K!Connects
  <1> QED
    BY <1>1, <1>2

LEMMA ReadingAsks ==
    ASSUME KodiInv, K!Asks
    PROVE  KodiInv'
  <1> USE KodiParts DEF KodiInv
  <1>1. CASE ~conn.up /\ K!IsClosed
    BY <1>1, ConnectionIsClosed DEF K!Asks, ClosedByQuit
  <1>2. CASE /\ conn' = [conn EXCEPT !.sent = @ + 1,
                              !.asked = IF conn.up THEN Append(@, conn.sent + 1) ELSE @]
             /\ call' = [call EXCEPT !.at = "waiting"]
             /\ UNCHANGED <<kodi, quit, outcome>>
    <2>1. call.at = "asking"
      BY DEF K!Asks
    <2>2. conn.asked = <<>> /\ NoAnswer(conn)
      BY <2>1 DEF OneIsOwed
    <2>3. call' \in Calls /\ call'.at = "waiting" /\ call'.held = call.held
      BY <1>2 DEF KodiTypes, Calls, Places
    <2>4. /\ conn'.sent = conn.sent + 1 /\ conn'.arrived = conn.arrived /\ conn'.up = conn.up
          /\ conn'.asked = (IF conn.up THEN <<conn.sent + 1>> ELSE <<>>)
          /\ conn' \in Connections
      <3>1. (IF conn.up THEN Append(conn.asked, conn.sent + 1) ELSE conn.asked)
               = (IF conn.up THEN <<conn.sent + 1>> ELSE <<>>)
        BY <2>2
      <3>2. (IF conn.up THEN <<conn.sent + 1>> ELSE <<>>) \in Seq(Nat)
        OBVIOUS
      <3>3. conn' = [conn EXCEPT !.sent = conn.sent + 1,
                                 !.asked = IF conn.up THEN <<conn.sent + 1>> ELSE <<>>]
        BY <1>2, <3>1
      <3>4. conn' \in Connections
        <4>1. conn \in Connections
          BY DEF KodiTypes
        <4>2. conn.sent + 1 \in Nat
          OBVIOUS
        <4> QED
          BY <3>2, <3>3, <4>1, <4>2, ConnectionWith
      <3>5. /\ conn'.sent = conn.sent + 1 /\ conn'.arrived = conn.arrived
            /\ conn'.up = conn.up
            /\ conn'.asked = (IF conn.up THEN <<conn.sent + 1>> ELSE <<>>)
        BY <3>3 DEF KodiTypes, Connections
      <3> QED
        BY <3>4, <3>5
    <2>5. NoAnswer(conn')
      BY <2>2, <2>4 DEF NoAnswer
    <2>6. OneIsOwed'
      <3>1. conn'.sent > 0
        BY <2>4
      <3>2. CASE conn.up
        BY <2>3, <2>4, <2>5, <3>1, <3>2 DEF OneIsOwed, NoAnswer
      <3>3. CASE ~conn.up
        BY <2>3, <2>4, <2>5, <3>1, <3>3 DEF OneIsOwed, NoAnswer
      <3> QED
        BY <3>2, <3>3
    <2>7. KodiTypes'
      BY <1>2, <2>3, <2>4 DEF KodiTypes
    <2>8. ClosedByQuit'
      BY <1>2, <2>1, <2>3, <2>4 DEF ClosedByQuit
    <2> QED
      BY <2>6, <2>7, <2>8
  <1> QED
    BY <1>1, <1>2 DEF K!Asks

LEMMA PassesOverOne ==
    ASSUME KodiInv, K!PassesOver
    PROVE  KodiInv'
  <1> USE KodiParts DEF KodiInv
  <1>1. /\ call.at = "waiting" /\ conn.arrived # <<>> /\ conn.arrived[1] # conn.sent
        /\ conn' = [conn EXCEPT !.arrived = Tail(@)]
        /\ UNCHANGED <<kodi, call, quit, outcome>>
    BY DEF K!PassesOver, K!Matches
  <1>2. /\ conn'.up = conn.up /\ conn'.sent = conn.sent /\ conn'.asked = conn.asked
        /\ conn'.arrived = Tail(conn.arrived)
    BY <1>1 DEF Connections
  <1>3. conn' \in Connections
    <2>1. Tail(conn.arrived) \in Seq(Nat)
      BY <1>1
    <2> QED
      BY <1>1, <2>1, ConnectionWith
  <1>4. \A i \in DOMAIN Tail(conn.arrived) :
           i + 1 \in DOMAIN conn.arrived /\ Tail(conn.arrived)[i] = conn.arrived[i + 1] /\ i \in Nat
    BY <1>1, Rest
  <1>5. OneIsOwed'
    <2>1. CASE conn.asked = <<conn.sent>> /\ NoAnswer(conn)
      <3>1. NoAnswer(conn')
        BY <1>2, <1>4, <2>1 DEF NoAnswer
      <3> QED
        BY <1>1, <1>2, <2>1, <3>1 DEF OneIsOwed, NoAnswer
    <2>2. CASE /\ conn.asked = <<>>
               /\ \A i \in DOMAIN conn.arrived : conn.arrived[i] \in {0, conn.sent}
               /\ \A i, j \in DOMAIN conn.arrived :
                     conn.arrived[i] # 0 /\ conn.arrived[j] # 0 => i = j
      <3>1. \A i \in DOMAIN conn'.arrived : conn'.arrived[i] \in {0, conn.sent}
        BY <1>2, <1>4, <2>2
      <3>2. \A i, j \in DOMAIN conn'.arrived :
               conn'.arrived[i] # 0 /\ conn'.arrived[j] # 0 => i = j
        <4>1. SUFFICES ASSUME NEW i \in DOMAIN Tail(conn.arrived),
                              NEW j \in DOMAIN Tail(conn.arrived),
                              Tail(conn.arrived)[i] # 0, Tail(conn.arrived)[j] # 0
                       PROVE  i = j
          BY <1>2
        <4>2. /\ i + 1 \in DOMAIN conn.arrived /\ conn.arrived[i + 1] # 0
              /\ j + 1 \in DOMAIN conn.arrived /\ conn.arrived[j + 1] # 0
          BY <1>4, <4>1
        <4>3. i + 1 = j + 1
          BY <2>2, <4>2
        <4> QED
          BY <1>4, <4>3
      <3> QED
        BY <1>1, <1>2, <2>2, <3>1, <3>2 DEF OneIsOwed
    <2> QED
      BY <1>1, <2>1, <2>2 DEF OneIsOwed
  <1>6. KodiTypes' /\ ClosedByQuit'
    BY <1>1, <1>2, <1>3 DEF KodiTypes, ClosedByQuit
  <1> QED
    BY <1>5, <1>6

LEMMA TakesAnswer ==
    ASSUME KodiInv, K!Takes
    PROVE  KodiInv'
  <1> USE KodiParts DEF KodiInv
  <1>1. /\ call.at = "waiting" /\ conn.arrived # <<>> /\ conn.arrived[1] = conn.sent
        /\ conn' = [conn EXCEPT !.arrived = Tail(@)]
        /\ UNCHANGED <<kodi, quit>>
    BY DEF K!Takes, K!Matches
  <1>2. /\ conn'.up = conn.up /\ conn'.sent = conn.sent /\ conn'.asked = conn.asked
        /\ conn'.arrived = Tail(conn.arrived)
    BY <1>1 DEF Connections
  <1>3. conn' \in Connections
    <2>1. Tail(conn.arrived) \in Seq(Nat)
      BY <1>1
    <2> QED
      BY <1>1, <2>1, ConnectionWith
  <1>4. /\ 1 \in DOMAIN conn.arrived
        /\ \A i \in DOMAIN Tail(conn.arrived) :
              /\ i + 1 \in DOMAIN conn.arrived /\ i \in Nat /\ i > 0
              /\ Tail(conn.arrived)[i] = conn.arrived[i + 1]
    BY <1>1, Rest
  <1>5. conn.asked = <<>> /\ NoAnswer(conn')
    <2>1. conn.sent > 0 /\ ~NoAnswer(conn)
      BY <1>1, <1>4 DEF OneIsOwed, NoAnswer
    <2>2. /\ conn.asked = <<>>
          /\ \A i, j \in DOMAIN conn.arrived :
                conn.arrived[i] # 0 /\ conn.arrived[j] # 0 => i = j
      BY <1>1, <2>1 DEF OneIsOwed
    <2>3. ASSUME NEW i \in DOMAIN Tail(conn.arrived)
          PROVE  Tail(conn.arrived)[i] = 0
      <3>1. i + 1 # 1
        BY <1>4
      <3> QED
        BY <1>1, <1>4, <2>1, <2>2, <3>1
    <2> QED
      BY <1>2, <2>2, <2>3 DEF NoAnswer
  <1>6. \/ /\ call' = [call EXCEPT !.number = @ + 1, !.at = "asking"]
           /\ call.number < 3 /\ UNCHANGED outcome
        \/ call' = K!NoCall /\ outcome' = "read"
    BY DEF K!Takes, K!LastCall
  <1>7. call' \in Calls /\ call'.at # "waiting"
    <2>1. CASE call' = [call EXCEPT !.number = @ + 1, !.at = "asking"] /\ call.number < 3
      <3>1. call.number + 1 \in 0 .. 3 /\ "asking" \in Places
        BY <2>1 DEF Places
      <3>2. call' = [call EXCEPT !.number = call.number + 1, !.at = "asking"]
        BY <2>1
      <3>3. call' \in Calls
        BY <3>1, <3>2, CallWith
      <3>4. call'.at = "asking"
        BY <3>2 DEF Calls
      <3> QED
        BY <3>3, <3>4
    <2>2. CASE call' = K!NoCall
      BY <2>2, NewCall
    <2> QED
      BY <1>6, <2>1, <2>2
  <1>8. call'.at = "asking" => call'.held = call.held
    <2>1. CASE call' = [call EXCEPT !.number = @ + 1, !.at = "asking"]
      BY <2>1 DEF Calls
    <2>2. CASE call' = K!NoCall
      BY <2>2, NewCall
    <2> QED
      BY <1>6, <2>1, <2>2
  <1>9. OneIsOwed'
    BY <1>2, <1>5, <1>7 DEF OneIsOwed, NoAnswer
  <1>10. KodiTypes'
    BY <1>1, <1>3, <1>6, <1>7 DEF KodiTypes
  <1>11. ClosedByQuit'
    BY <1>1, <1>2, <1>6, <1>7, <1>8 DEF ClosedByQuit
  <1> QED
    BY <1>9, <1>10, <1>11

\* Every step of Kodi and of the watcher keeps it.
LEMMA KodiKept ==
    ASSUME KodiInv, K!KodiNext
    PROVE  KodiInv'
  <1>1. CASE K!Starts
    BY <1>1 DEF K!Starts, KodiInv, KodiTypes, OneIsOwed, NoAnswer, ClosedByQuit
  <1>2. CASE K!FindsClosed
    <2>1. call.held \/ quit
      BY <1>2 DEF K!FindsClosed, KodiInv, ClosedByQuit
    <2> QED
      BY <1>2, <2>1, ConnectionIsClosed DEF K!FindsClosed
  <1>3. CASE K!IsRefused \/ K!TimesOut
    BY <1>3, ReadingEndsWith DEF K!IsRefused, K!TimesOut
  <1> QED
    BY <1>1, <1>2, <1>3, KodiQuits, KodiArrives, ReadingBegins, ReadingConnects, ReadingAsks,
       PassesOverOne, TakesAnswer DEF K!KodiNext

\* A connection that is held from one reading to the next owes no answer, and one
\* that Kodi closed since fails no reading (KodiWatcher::reached).
THEOREM HeldIsHarmless == MCSpec => []HeldDoesNoHarm
  <1>1. MCInit => KodiInv
    BY KodiStarts DEF MCInit
  <1>2. KodiInv /\ [MCNext]_MCVars => KodiInv'
    <2> SUFFICES ASSUME KodiInv, [MCNext]_MCVars
                 PROVE  KodiInv'
      OBVIOUS
    <2>1. CASE KodiStep
      BY <2>1, KodiKept DEF KodiStep
    <2>2. CASE UNCHANGED kodiAll
      BY <2>2 DEF kodiAll, KodiInv, KodiTypes, OneIsOwed, NoAnswer, ClosedByQuit
    <2> QED
      BY <2>1, <2>2 DEF MCNext, MCVars, VoiceStep, StreamStep, LengthsStep, TimelineStep
  <1>3. KodiInv => HeldDoesNoHarm
    BY DEF KodiInv, OneIsOwed, ClosedByQuit, NoAnswer, HeldDoesNoHarm, K!HeldDoesNoHarm,
           K!Reading, K!NoCall, K!Notification
  <1> QED
    BY <1>1, <1>2, <1>3, PTL DEF MCSpec

-----------------------------------------------------------------------------
(***************************************************************************)
(* Lengths of files.                                                       *)
(***************************************************************************)
Looked == [is : {"unknown", "running", "done"}, length : Nat]

Thread == [file : Files \cup {Missing}, of : Nat, saw : Nat]

Ask ==
    [at : {"resting", "asking", "waiting", "answered"}, file : Files \cup {Missing},
     thread : Nat, length : Nat]

LengthsTypes ==
    /\ watcher \in Nat \ {0}
    /\ looks \in [Files -> Looked]
    /\ threads \in [L!Pool -> Thread]
    /\ asks \in [Sources -> Ask]
    /\ written \in [Files -> Nat] /\ oldest \in [Files -> Nat]

Busy(t) == threads[t] # L!Idle

\* A thread that reads for the watcher in use is known to it as one that reads,
\* no watcher but those before it has any, and none has two of a file.
ThreadsAreKnown ==
    /\ \A t \in L!Pool :
          Busy(t) => /\ threads[t].file \in Files /\ threads[t].of \in 1 .. watcher
                     /\ threads[t].of = watcher => looks[threads[t].file].is = "running"
    /\ \A s, t \in L!Pool :
          /\ Busy(s) /\ Busy(t)
          /\ threads[s].file = threads[t].file /\ threads[s].of = threads[t].of
          => s = t

\* Who waits for a thread waits for one that reads the file it asks for, for the
\* watcher in use, and who asks asks for a file.
Served(p) ==
    /\ asks[p].at \in {"asking", "waiting"} => asks[p].file \in Files
    /\ asks[p].at \in {"resting", "asking"} => asks[p].thread = 0 /\ asks[p].length = 0
    /\ asks[p].thread # 0 =>
          /\ asks[p].thread \in L!Pool /\ Busy(asks[p].thread)
          /\ asks[p].length = 0
          /\ threads[asks[p].thread].file = asks[p].file
          /\ threads[asks[p].thread].of = watcher

AsksAreServed == \A p \in Sources : Served(p)

\* No length is older than the file was when it was last closed: of those that
\* are known, of those that are being read for the watcher in use, and of those
\* the round was answered.
NoLengthIsOld ==
    /\ \A f \in Files :
          /\ oldest[f] <= written[f]
          /\ looks[f].is \in {"unknown", "running"} => looks[f].length = 0
          /\ looks[f].length # 0 => looks[f].length >= oldest[f]
    /\ \A t \in L!Pool :
          Busy(t) /\ threads[t].of = watcher /\ threads[t].saw # 0 =>
              threads[t].saw >= oldest[threads[t].file]
    /\ \A p \in Sources :
          asks[p].length # 0 =>
              asks[p].file \in Files /\ asks[p].length >= oldest[asks[p].file]

LengthsInv == LengthsTypes /\ ThreadsAreKnown /\ AsksAreServed /\ NoLengthIsOld

LEMMA LengthsStart == L!LengthsInit => LengthsInv
  <1> SUFFICES ASSUME L!LengthsInit
               PROVE  LengthsInv
    OBVIOUS
  <1>1. /\ watcher = 1
        /\ \A f \in Files : looks[f] = L!Unknown /\ written[f] = 1 /\ oldest[f] = 1
        /\ \A t \in L!Pool : ~Busy(t)
        /\ \A p \in Sources : asks[p] = L!Resting
    BY DEF L!LengthsInit, Busy
  <1>2. L!Unknown \in Looked /\ L!Idle \in Thread /\ L!Resting \in Ask
    BY DEF L!Unknown, L!Idle, L!Resting, Looked, Thread, Ask
  <1>3. LengthsTypes
    BY <1>2 DEF L!LengthsInit, LengthsTypes
  <1>4. ThreadsAreKnown
    BY <1>1 DEF ThreadsAreKnown
  <1>5. AsksAreServed
    BY <1>1 DEF AsksAreServed, Served, L!Resting
  <1>6. NoLengthIsOld
    BY <1>1 DEF NoLengthIsOld, L!Unknown, L!Resting
  <1> QED
    BY <1>3, <1>4, <1>5, <1>6 DEF LengthsInv

\* What an ask, a thread and a look is made of.
LEMMA AskParts ==
    ASSUME LengthsTypes, NEW p \in Sources
    PROVE  /\ asks[p] \in Ask /\ asks[p].at \in {"resting", "asking", "waiting", "answered"}
           /\ asks[p].file \in Files \cup {Missing}
           /\ asks[p].thread \in Nat /\ asks[p].length \in Nat
  <1>1. asks[p] \in Ask
    BY DEF LengthsTypes
  <1> QED
    BY <1>1 DEF Ask

LEMMA ThreadParts ==
    ASSUME LengthsTypes, NEW t \in L!Pool
    PROVE  /\ threads[t] \in Thread /\ threads[t].file \in Files \cup {Missing}
           /\ threads[t].of \in Nat /\ threads[t].saw \in Nat /\ t \in Nat /\ t # 0
  <1>1. threads[t] \in Thread
    BY DEF LengthsTypes
  <1>2. t \in Nat /\ t # 0
    BY LengthsAssumption DEF L!Pool
  <1> QED
    BY <1>1, <1>2 DEF Thread

LEMMA LookParts ==
    ASSUME LengthsTypes, NEW f \in Files
    PROVE  /\ looks[f] \in Looked /\ looks[f].is \in {"unknown", "running", "done"}
           /\ looks[f].length \in Nat /\ written[f] \in Nat /\ oldest[f] \in Nat
  <1>1. looks[f] \in Looked /\ written[f] \in Nat /\ oldest[f] \in Nat
    BY DEF LengthsTypes
  <1> QED
    BY <1>1 DEF Looked

\* What an ask is once it is answered.
LEMMA AnsweredIs ==
    ASSUME LengthsTypes, NEW p \in Sources, NEW n \in Nat
    PROVE  /\ L!Answered(p, n) \in Ask
           /\ L!Answered(p, n).at = "answered" /\ L!Answered(p, n).thread = 0
           /\ L!Answered(p, n).file = asks[p].file /\ L!Answered(p, n).length = n
  <1>1. asks[p] \in Ask
    BY AskParts
  <1> DEFINE a == asks[p]
             b == [a EXCEPT !.at = "answered", !.thread = 0, !.length = n]
  <1>2. L!Answered(p, n) = b
    BY DEF L!Answered
  <1>3. b \in Ask /\ b.at = "answered" /\ b.thread = 0 /\ b.file = a.file /\ b.length = n
    <2> HIDE DEF a
    <2>1. a \in Ask
      BY <1>1 DEF a
    <2> QED
      BY <2>1 DEF Ask
  <1> HIDE DEF b
  <1> QED
    BY <1>2, <1>3

\* A step that leaves the threads, the looks and what was written alone, and gives
\* an ask that was for a file an answer that is not too old.
LEMMA Answering ==
    ASSUME LengthsInv, NEW p \in Sources, NEW n \in Nat,
           asks[p].at \in {"asking", "waiting"},
           asks' = [asks EXCEPT ![p] = L!Answered(p, n)],
           UNCHANGED <<watcher, looks, threads, written, oldest>>,
           n # 0 => n >= oldest[asks[p].file]
    PROVE  LengthsInv'
  <1>0. LengthsTypes /\ ThreadsAreKnown /\ AsksAreServed /\ NoLengthIsOld
    BY DEF LengthsInv
  <1>1. /\ L!Answered(p, n) \in Ask
        /\ asks'[p].at = "answered" /\ asks'[p].thread = 0
        /\ asks'[p].file = asks[p].file /\ asks'[p].length = n
    <2>1. asks'[p] = L!Answered(p, n)
      BY <1>0 DEF LengthsTypes
    <2> QED
      BY <1>0, <2>1, AnsweredIs
  <1>2. \A q \in Sources : q # p => asks'[q] = asks[q]
    BY <1>0 DEF LengthsTypes
  <1>3. LengthsTypes'
    BY <1>0, <1>1 DEF LengthsTypes
  <1>4. ThreadsAreKnown'
    BY <1>0 DEF ThreadsAreKnown, Busy
  <1>5. AsksAreServed'
    BY <1>0, <1>1, <1>2 DEF AsksAreServed, Served, Busy
  <1>6. asks[p].file \in Files
    BY <1>0 DEF AsksAreServed, Served
  <1>7. NoLengthIsOld'
    BY <1>0, <1>1, <1>2, <1>6 DEF NoLengthIsOld, Busy
  <1> QED
    BY <1>3, <1>4, <1>5, <1>7 DEF LengthsInv

LEMMA RoundPolls ==
    ASSUME LengthsInv, NEW open \in [Sources -> Files \cup {Missing}], L!Polls(open)
    PROVE  LengthsInv'
  <1>0. LengthsTypes /\ ThreadsAreKnown /\ AsksAreServed /\ NoLengthIsOld
    BY DEF LengthsInv
  <1>1. UNCHANGED <<watcher, looks, threads, written, oldest>>
    BY DEF L!Polls
  <1>2. ASSUME NEW p \in Sources
        PROVE  /\ asks'[p] \in Ask
               /\ asks'[p].at \in {"answered", "asking"}
               /\ asks'[p].at = "asking" => asks'[p].file \in Files
               /\ asks'[p].thread = 0 /\ asks'[p].length = 0
    <2> DEFINE a == IF open[p] = Missing THEN "answered" ELSE "asking"
               b == [L!Resting EXCEPT !.at = a, !.file = open[p]]
    <2>1. asks'[p] = b
      BY DEF L!Polls
    <2>2. open[p] \in Files \cup {Missing} /\ a \in {"answered", "asking"}
      OBVIOUS
    <2>3. a = "asking" => open[p] \in Files
      BY <2>2
    <2> HIDE DEF a
    <2>4. /\ L!Resting \in Ask /\ L!Resting.thread = 0 /\ L!Resting.length = 0
      BY DEF L!Resting, Ask
    <2>5. b.at = a /\ b.file = open[p] /\ b.thread = 0 /\ b.length = 0
      BY <2>4 DEF Ask
    <2>6. b \in Ask
      BY <2>2, <2>4 DEF Ask
    <2> HIDE DEF b
    <2> QED
      BY <2>1, <2>2, <2>3, <2>5, <2>6
  <1>3. DOMAIN asks' = Sources /\ asks' = [p \in Sources |-> asks'[p]]
    BY DEF L!Polls
  <1>4. asks' \in [Sources -> Ask]
    BY <1>2, <1>3
  <1>5. LengthsTypes'
    BY <1>0, <1>1, <1>4 DEF LengthsTypes
  <1>6. ThreadsAreKnown'
    BY <1>0, <1>1 DEF ThreadsAreKnown, Busy
  <1>7. AsksAreServed'
    BY <1>2 DEF AsksAreServed, Served
  <1>8. NoLengthIsOld'
    BY <1>0, <1>1, <1>2 DEF NoLengthIsOld, Busy
  <1> QED
    BY <1>5, <1>6, <1>7, <1>8 DEF LengthsInv

LEMMA FileIsFound ==
    ASSUME LengthsInv, NEW p \in Sources, L!Finds(p)
    PROVE  LengthsInv'
  <1> DEFINE n == looks[asks[p].file].length
  <1>1. asks[p].at = "asking" /\ asks[p].file \in Files
    BY DEF L!Finds, LengthsInv, AsksAreServed, Served
  <1>2. n \in Nat /\ (n # 0 => n >= oldest[asks[p].file])
    BY <1>1, LookParts DEF LengthsInv, NoLengthIsOld
  <1>3. /\ asks' = [asks EXCEPT ![p] = L!Answered(p, n)]
        /\ UNCHANGED <<watcher, looks, threads, written, oldest>>
    BY DEF L!Finds
  <1> HIDE DEF n
  <1> QED
    BY <1>1, <1>2, <1>3, Answering

LEMMA ReadingGivesUp ==
    ASSUME LengthsInv, NEW p \in Sources, L!GivesUp(p)
    PROVE  LengthsInv'
  <1>1. /\ asks[p].at = "waiting" /\ 0 \in Nat
        /\ asks' = [asks EXCEPT ![p] = L!Answered(p, 0)]
        /\ UNCHANGED <<watcher, looks, threads, written, oldest>>
    BY DEF L!GivesUp
  <1> QED
    BY <1>1, Answering

LEMMA ReadingStarts ==
    ASSUME LengthsInv, NEW p \in Sources, NEW t \in L!Pool, L!Starts(p, t)
    PROVE  LengthsInv'
  <1>0. LengthsTypes /\ ThreadsAreKnown /\ AsksAreServed /\ NoLengthIsOld
    BY DEF LengthsInv
  <1> DEFINE f == asks[p].file
             r == [file |-> f, of |-> watcher, saw |-> 0]
  <1>1. /\ asks[p].at = "asking" /\ looks[f] = L!Unknown /\ ~Busy(t)
        /\ looks' = [looks EXCEPT ![f] = L!Running]
        /\ threads' = [threads EXCEPT ![t] = r]
        /\ asks' = [asks EXCEPT ![p].at = "waiting", ![p].thread = t]
        /\ UNCHANGED <<watcher, written, oldest>>
    BY DEF L!Starts, Busy
  <1>2. f \in Files /\ asks[p].thread = 0 /\ asks[p].length = 0 /\ watcher \in Nat \ {0}
    BY <1>0, <1>1 DEF AsksAreServed, Served, LengthsTypes
  <1>3. /\ r \in Thread /\ r.file = f /\ r.of = watcher /\ r.saw = 0 /\ r # L!Idle
    <2> HIDE DEF f
    <2>1. r.file = f /\ r.of = watcher /\ r.saw = 0
      OBVIOUS
    <2>2. r \in Thread
      BY <1>2 DEF Thread
    <2>3. L!Idle.of = 0
      BY DEF L!Idle
    <2> HIDE DEF r
    <2> QED
      BY <1>2, <2>1, <2>2, <2>3
  <1>4. L!Running \in Looked /\ L!Running.is = "running" /\ L!Running.length = 0
    BY DEF L!Running, Looked
  <1>5. L!Unknown.is = "unknown"
    BY DEF L!Unknown
  <1> DEFINE a == [[asks[p] EXCEPT !.at = "waiting"] EXCEPT !.thread = t]
  <1>6. asks' = [asks EXCEPT ![p] = a]
    BY <1>0, <1>1 DEF LengthsTypes
  <1>7. a \in Ask /\ a.at = "waiting" /\ a.thread = t /\ a.file = f /\ a.length = 0
    <2>1. asks[p] \in Ask /\ t \in Nat
      BY <1>0, AskParts, ThreadParts
    <2> QED
      BY <1>2, <2>1 DEF Ask
  <1> HIDE DEF r, a
  <1>8. /\ \A g \in Files : looks'[g] = IF g = f THEN L!Running ELSE looks[g]
        /\ \A s \in L!Pool : threads'[s] = IF s = t THEN r ELSE threads[s]
        /\ \A q \in Sources : asks'[q] = IF q = p THEN a ELSE asks[q]
    <2> HIDE DEF f
    <2> QED
      BY <1>0, <1>1, <1>6 DEF LengthsTypes
  <1> HIDE DEF f
  <1>9. LengthsTypes'
    BY <1>0, <1>1, <1>3, <1>4, <1>6, <1>7 DEF LengthsTypes
  <1>10. \A s \in L!Pool : Busy(s)' <=> (s = t \/ Busy(s))
    BY <1>3, <1>8 DEF Busy
  <1>11. \A s \in L!Pool : Busy(s) /\ threads[s].of = watcher => threads[s].file # f
    BY <1>0, <1>1, <1>5 DEF ThreadsAreKnown
  <1>12. ThreadsAreKnown'
    <2>1. ASSUME NEW s \in L!Pool, Busy(s)'
          PROVE  /\ threads'[s].file \in Files /\ threads'[s].of \in 1 .. watcher'
                 /\ threads'[s].of = watcher' => looks'[threads'[s].file].is = "running"
      <3>1. CASE s = t
        BY <1>1, <1>2, <1>3, <1>4, <1>8, <3>1
      <3>2. CASE s # t
        <4>1. Busy(s) /\ threads'[s] = threads[s]
          BY <1>8, <1>10, <2>1, <3>2
        <4> QED
          BY <1>0, <1>1, <1>4, <1>8, <4>1 DEF ThreadsAreKnown
      <3> QED
        BY <3>1, <3>2
    <2>2. ASSUME NEW s \in L!Pool, NEW u \in L!Pool, Busy(s)', Busy(u)',
                 threads'[s].file = threads'[u].file, threads'[s].of = threads'[u].of
          PROVE  s = u
      <3>1. CASE s = t /\ u # t
        BY <1>3, <1>8, <1>10, <1>11, <2>2, <3>1
      <3>2. CASE s # t /\ u = t
        BY <1>3, <1>8, <1>10, <1>11, <2>2, <3>2
      <3>3. CASE s # t /\ u # t
        BY <1>0, <1>8, <1>10, <2>2, <3>3 DEF ThreadsAreKnown
      <3> QED
        BY <3>1, <3>2, <3>3
    <2> QED
      BY <2>1, <2>2 DEF ThreadsAreKnown
  <1>13. AsksAreServed'
    <2> SUFFICES ASSUME NEW q \in Sources
                 PROVE  Served(q)'
      BY DEF AsksAreServed
    <2>1. CASE q = p
      <3>1. asks'[q] = a /\ threads'[t] = r
        BY <1>8, <2>1
      <3>2. Busy(t)'
        BY <1>10
      <3> QED
        BY <1>1, <1>2, <1>3, <1>7, <3>1, <3>2 DEF Served, Busy
    <2>2. CASE q # p
      <3>1. asks'[q] = asks[q]
        BY <1>8, <2>2
      <3>2. asks[q].thread # 0 => asks[q].thread # t
        BY <1>0, <1>1 DEF AsksAreServed, Served
      <3>3. asks[q].thread # 0 => /\ asks[q].thread \in L!Pool /\ Busy(asks[q].thread)
                                  /\ threads'[asks[q].thread] = threads[asks[q].thread]
        BY <1>0, <1>8, <3>2 DEF AsksAreServed, Served
      <3> QED
        BY <1>0, <1>1, <3>1, <3>3 DEF AsksAreServed, Served, Busy
    <2> QED
      BY <2>1, <2>2
  <1>14. NoLengthIsOld'
    <2>1. ASSUME NEW g \in Files
          PROVE  /\ oldest'[g] <= written'[g]
                 /\ looks'[g].is \in {"unknown", "running"} => looks'[g].length = 0
                 /\ looks'[g].length # 0 => looks'[g].length >= oldest'[g]
      BY <1>0, <1>1, <1>4, <1>8 DEF NoLengthIsOld
    <2>2. ASSUME NEW s \in L!Pool, Busy(s)', threads'[s].of = watcher', threads'[s].saw # 0
          PROVE  threads'[s].saw >= oldest'[threads'[s].file]
      BY <1>0, <1>1, <1>3, <1>8, <1>10, <2>2 DEF NoLengthIsOld
    <2>3. ASSUME NEW q \in Sources, asks'[q].length # 0
          PROVE  asks'[q].file \in Files /\ asks'[q].length >= oldest'[asks'[q].file]
      <3>1. asks'[q] = asks[q]
        BY <1>7, <1>8, <2>3
      <3> QED
        BY <1>0, <1>1, <2>3, <3>1 DEF NoLengthIsOld
    <2> QED
      BY <2>1, <2>2, <2>3 DEF NoLengthIsOld
  <1> QED
    BY <1>9, <1>12, <1>13, <1>14 DEF LengthsInv

LEMMA HeaderIsSeen ==
    ASSUME LengthsInv, NEW t \in L!Pool, L!Sees(t)
    PROVE  LengthsInv'
  <1>0. LengthsTypes /\ ThreadsAreKnown /\ AsksAreServed /\ NoLengthIsOld
    BY DEF LengthsInv
  <1> DEFINE f == threads[t].file
             n == written[f]
             r == [threads[t] EXCEPT !.saw = n]
  <1>1. /\ Busy(t) /\ threads[t].saw = 0
        /\ threads' = [threads EXCEPT ![t].saw = n]
        /\ UNCHANGED <<watcher, looks, asks, written, oldest>>
    BY DEF L!Sees, Busy
  <1>2. f \in Files
    BY <1>0, <1>1 DEF ThreadsAreKnown
  <1>3. n \in Nat /\ n >= oldest[f]
    BY <1>0, <1>2, LookParts DEF NoLengthIsOld
  <1> HIDE DEF n
  <1>4. /\ r \in Thread /\ r.file = f /\ r.of = threads[t].of /\ r.saw = n
    <2>1. threads[t] \in Thread
      BY <1>0, ThreadParts
    <2> QED
      BY <1>3, <2>1 DEF Thread
  <1>5. r # L!Idle
    <2>1. f # Missing
      BY <1>2, LengthsAssumption
    <2>2. L!Idle.file = Missing
      BY DEF L!Idle
    <2> QED
      BY <1>4, <2>1, <2>2
  <1>6. threads' = [threads EXCEPT ![t] = r]
    BY <1>0, <1>1 DEF LengthsTypes
  <1> HIDE DEF r, f
  <1>7. \A s \in L!Pool : threads'[s] = IF s = t THEN r ELSE threads[s]
    BY <1>0, <1>6 DEF LengthsTypes
  <1>8. \A s \in L!Pool : Busy(s)' <=> Busy(s)
    BY <1>1, <1>5, <1>7 DEF Busy
  <1>9. \A s \in L!Pool : threads'[s].file = threads[s].file /\ threads'[s].of = threads[s].of
    BY <1>4, <1>7 DEF f
  <1>10. LengthsTypes'
    BY <1>0, <1>1, <1>4, <1>6 DEF LengthsTypes
  <1>11. ThreadsAreKnown'
    BY <1>0, <1>1, <1>8, <1>9 DEF ThreadsAreKnown
  <1>12. AsksAreServed'
    <2> SUFFICES ASSUME NEW p \in Sources
                 PROVE  Served(p)'
      BY DEF AsksAreServed
    <2>1. Served(p)
      BY <1>0 DEF AsksAreServed
    <2> DEFINE c == asks[p].thread
    <2>2. c # 0 => c \in L!Pool /\ Busy(c)
      BY <2>1 DEF Served
    <2>3. c # 0 => threads'[c] # L!Idle
      BY <1>8, <2>2 DEF Busy
    <2> QED
      BY <1>1, <1>9, <2>1, <2>2, <2>3 DEF Served, Busy
  <1>13. NoLengthIsOld'
    <2>1. ASSUME NEW s \in L!Pool, Busy(s)', threads'[s].of = watcher', threads'[s].saw # 0
          PROVE  threads'[s].saw >= oldest'[threads'[s].file]
      <3>1. CASE s = t
        BY <1>1, <1>3, <1>4, <1>7, <3>1
      <3>2. CASE s # t
        BY <1>0, <1>1, <1>7, <1>8, <2>1, <3>2 DEF NoLengthIsOld
      <3> QED
        BY <3>1, <3>2
    <2> QED
      BY <1>0, <1>1, <2>1 DEF NoLengthIsOld
  <1> QED
    BY <1>10, <1>11, <1>12, <1>13 DEF LengthsInv

\* A thread ends, and what it found is kept where the watcher it read for is the
\* one in use.
LEMMA KeptIs ==
    ASSUME LengthsInv, NEW t \in L!Pool, Busy(t), NEW n \in {0, threads[t].saw}
    PROVE  /\ L!Kept(t, n) \in [Files -> Looked]
           /\ \A f \in Files :
                 L!Kept(t, n)[f] = IF threads[t].of = watcher /\ f = threads[t].file
                                   THEN L!Done(n) ELSE looks[f]
           /\ L!Done(n).is = "done" /\ L!Done(n).length = n
           /\ n \in Nat
           /\ threads[t].of = watcher /\ n # 0 => n >= oldest[threads[t].file]
  <1>1. LengthsTypes /\ ThreadsAreKnown /\ NoLengthIsOld
    BY DEF LengthsInv
  <1>2. n \in Nat
    BY <1>1, ThreadParts
  <1>3. L!Done(n) \in Looked /\ L!Done(n).is = "done" /\ L!Done(n).length = n
    BY <1>2 DEF L!Done, Looked
  <1>4. threads[t].file \in Files
    BY <1>1 DEF ThreadsAreKnown
  <1>5. threads[t].of = watcher /\ n # 0 => n >= oldest[threads[t].file]
    BY <1>1 DEF NoLengthIsOld
  <1>6. /\ L!Kept(t, n) \in [Files -> Looked]
        /\ \A f \in Files :
              L!Kept(t, n)[f] = IF threads[t].of = watcher /\ f = threads[t].file
                                THEN L!Done(n) ELSE looks[f]
    <2>1. CASE threads[t].of = watcher
      <3>1. L!Kept(t, n) = [looks EXCEPT ![threads[t].file] = L!Done(n)]
        BY <2>1 DEF L!Kept
      <3> QED
        BY <1>1, <1>3, <1>4, <2>1, <3>1 DEF LengthsTypes
    <2>2. CASE threads[t].of # watcher
      <3>1. L!Kept(t, n) = looks
        BY <2>2 DEF L!Kept
      <3> QED
        BY <1>1, <2>2, <3>1 DEF LengthsTypes
    <2> QED
      BY <2>1, <2>2
  <1> QED
    BY <1>2, <1>3, <1>5, <1>6

\* What is common to a read that ends and to one that panics with nobody waiting.
LEMMA ThreadGoes ==
    ASSUME LengthsInv, NEW t \in L!Pool, Busy(t), NEW n \in {0, threads[t].saw},
           looks' = L!Kept(t, n), threads' = [threads EXCEPT ![t] = L!Idle],
           asks' = [p \in Sources |-> IF asks[p].thread = t THEN L!Answered(p, n) ELSE asks[p]],
           UNCHANGED <<watcher, written, oldest>>
    PROVE  LengthsInv'
  <1>0. LengthsTypes /\ ThreadsAreKnown /\ AsksAreServed /\ NoLengthIsOld
    BY DEF LengthsInv
  <1>1. /\ looks' \in [Files -> Looked]
        /\ \A f \in Files :
              looks'[f] = IF threads[t].of = watcher /\ f = threads[t].file
                          THEN L!Done(n) ELSE looks[f]
        /\ L!Done(n).is = "done" /\ L!Done(n).length = n
        /\ n \in Nat
        /\ threads[t].of = watcher /\ n # 0 => n >= oldest[threads[t].file]
    BY KeptIs
  <1>2. \A s \in L!Pool : threads'[s] = IF s = t THEN L!Idle ELSE threads[s]
    BY <1>0 DEF LengthsTypes
  <1>3. \A s \in L!Pool : Busy(s)' <=> s # t /\ Busy(s)
    BY <1>2 DEF Busy
  <1>4. ASSUME NEW p \in Sources
        PROVE  \/ /\ asks[p].thread = t
                  /\ asks'[p] \in Ask
                  /\ asks'[p].at = "answered" /\ asks'[p].thread = 0
                  /\ asks'[p].file = asks[p].file /\ asks'[p].length = n
               \/ asks[p].thread # t /\ asks'[p] = asks[p] /\ asks[p] \in Ask
    <2>1. CASE asks[p].thread = t
      <3>1. asks'[p] = L!Answered(p, n)
        BY <2>1
      <3> QED
        BY <1>0, <1>1, <2>1, <3>1, AnsweredIs
    <2>2. CASE asks[p].thread # t
      BY <1>0, <2>2, AskParts
    <2> QED
      BY <2>1, <2>2
  <1>5. LengthsTypes'
    <2>1. L!Idle \in Thread
      BY DEF L!Idle, Thread
    <2>2. asks' \in [Sources -> Ask]
      BY <1>4
    <2>3. threads' \in [L!Pool -> Thread]
      BY <1>0, <2>1 DEF LengthsTypes
    <2> QED
      BY <1>0, <1>1, <2>2, <2>3 DEF LengthsTypes
  <1>6. ThreadsAreKnown'
    <2>1. ASSUME NEW s \in L!Pool, s # t, Busy(s)
          PROVE  /\ threads'[s] = threads[s]
                 /\ threads[s].file \in Files /\ threads[s].of \in 1 .. watcher
                 /\ threads[s].of = watcher => looks'[threads[s].file].is = "running"
      <3>1. /\ threads'[s] = threads[s]
            /\ threads[s].file \in Files /\ threads[s].of \in 1 .. watcher
            /\ threads[s].of = watcher => looks[threads[s].file].is = "running"
        BY <1>0, <1>2, <2>1 DEF ThreadsAreKnown
      <3>2. threads[s].of = threads[t].of => threads[s].file # threads[t].file
        BY <1>0, <2>1 DEF ThreadsAreKnown
      <3> QED
        BY <1>1, <3>1, <3>2
    <2> QED
      BY <1>0, <1>3, <2>1 DEF ThreadsAreKnown
  <1>7. AsksAreServed'
    <2> SUFFICES ASSUME NEW p \in Sources
                 PROVE  Served(p)'
      BY DEF AsksAreServed
    <2>1. Served(p)
      BY <1>0 DEF AsksAreServed
    <2>2. CASE asks[p].thread = t
      <3>1. asks[p].file \in Files
        <4>1. threads[t].file = asks[p].file
          BY <2>1, <2>2, <1>0, ThreadParts DEF Served
        <4> QED
          BY <1>0, <4>1 DEF ThreadsAreKnown
      <3> QED
        BY <1>4, <2>2, <3>1 DEF Served
    <2>3. CASE asks[p].thread # t
      <3>1. asks'[p] = asks[p]
        BY <1>4, <2>3
      <3> DEFINE c == asks[p].thread
      <3>2. c # 0 => c \in L!Pool /\ threads[c] # L!Idle /\ threads'[c] = threads[c]
        BY <1>2, <2>1, <2>3 DEF Served, Busy
      <3> QED
        BY <2>1, <3>1, <3>2 DEF Served, Busy
    <2> QED
      BY <2>2, <2>3
  <1>8. NoLengthIsOld'
    <2>1. ASSUME NEW f \in Files
          PROVE  /\ oldest'[f] <= written'[f]
                 /\ looks'[f].is \in {"unknown", "running"} => looks'[f].length = 0
                 /\ looks'[f].length # 0 => looks'[f].length >= oldest'[f]
      BY <1>0, <1>1 DEF NoLengthIsOld
    <2>2. ASSUME NEW s \in L!Pool, Busy(s)', threads'[s].of = watcher', threads'[s].saw # 0
          PROVE  threads'[s].saw >= oldest'[threads'[s].file]
      BY <1>0, <1>2, <1>3, <2>2 DEF NoLengthIsOld
    <2>3. ASSUME NEW p \in Sources, asks'[p].length # 0
          PROVE  asks'[p].file \in Files /\ asks'[p].length >= oldest'[asks'[p].file]
      <3>1. CASE asks[p].thread = t
        <4>1. Served(p) /\ t # 0
          BY <1>0, ThreadParts DEF AsksAreServed
        <4>2. threads[t].file = asks[p].file /\ threads[t].of = watcher
          BY <3>1, <4>1 DEF Served
        <4>3. threads[t].file \in Files
          BY <1>0 DEF ThreadsAreKnown
        <4> QED
          BY <1>1, <1>4, <2>3, <3>1, <4>2, <4>3
      <3>2. CASE asks[p].thread # t
        BY <1>0, <1>4, <2>3, <3>2 DEF NoLengthIsOld
      <3> QED
        BY <3>1, <3>2
    <2> QED
      BY <2>1, <2>2, <2>3 DEF NoLengthIsOld
  <1> QED
    BY <1>5, <1>6, <1>7, <1>8 DEF LengthsInv

\* A watcher that is built again knows nothing, and what was read for those before
\* it is nothing to it.
LEMMA WatcherIsRebuilt ==
    ASSUME LengthsInv, L!Rebuilt,
           \/ UNCHANGED threads
           \/ \E t \in L!Pool : threads' = [threads EXCEPT ![t] = L!Idle]
    PROVE  LengthsInv'
  <1>0. LengthsTypes /\ ThreadsAreKnown /\ AsksAreServed /\ NoLengthIsOld
    BY DEF LengthsInv
  <1>1. /\ watcher' = watcher + 1 /\ looks' = [f \in Files |-> L!Unknown]
        /\ asks' = [p \in Sources |-> L!Resting] /\ oldest' = written /\ written' = written
    BY DEF L!Rebuilt
  <1>2. L!Unknown \in Looked /\ L!Idle \in Thread /\ L!Resting \in Ask
    BY DEF L!Unknown, L!Idle, L!Resting, Looked, Thread, Ask
  <1>3. \A s \in L!Pool : threads'[s] \in {L!Idle, threads[s]}
    BY <1>0 DEF LengthsTypes
  <1>4. \A s \in L!Pool : Busy(s)' => Busy(s) /\ threads'[s] = threads[s]
    BY <1>3 DEF Busy
  <1>5. LengthsTypes'
    <2>1. threads' \in [L!Pool -> Thread]
      BY <1>0, <1>2 DEF LengthsTypes
    <2> QED
      BY <1>0, <1>1, <1>2, <2>1 DEF LengthsTypes
  <1>6. \A s \in L!Pool : Busy(s)' => threads'[s].of \in 1 .. watcher /\ threads'[s].of # watcher'
    <2>1. watcher \in Nat
      BY <1>0 DEF LengthsTypes
    <2> QED
      BY <1>0, <1>1, <1>4, <2>1 DEF ThreadsAreKnown
  <1>7. ThreadsAreKnown'
    <2>1. watcher \in Nat
      BY <1>0 DEF LengthsTypes
    <2>2. ASSUME NEW s \in L!Pool, Busy(s)'
          PROVE  threads'[s].file \in Files /\ threads'[s].of \in 1 .. watcher'
      BY <1>0, <1>1, <1>4, <2>1, <2>2 DEF ThreadsAreKnown
    <2>3. ASSUME NEW s \in L!Pool, NEW u \in L!Pool, Busy(s)', Busy(u)',
                 threads'[s].file = threads'[u].file, threads'[s].of = threads'[u].of
          PROVE  s = u
      BY <1>0, <1>4, <2>3 DEF ThreadsAreKnown
    <2> QED
      BY <1>6, <2>2, <2>3 DEF ThreadsAreKnown
  <1>8. AsksAreServed'
    BY <1>1 DEF AsksAreServed, Served, L!Resting
  <1>9. NoLengthIsOld'
    <2>1. ASSUME NEW f \in Files
          PROVE  oldest'[f] <= written'[f] /\ looks'[f].length = 0
      BY <1>0, <1>1, LookParts DEF L!Unknown
    <2>2. \A p \in Sources : asks'[p].length = 0
      BY <1>1 DEF L!Resting
    <2> QED
      BY <1>6, <2>1, <2>2 DEF NoLengthIsOld
  <1> QED
    BY <1>5, <1>7, <1>8, <1>9 DEF LengthsInv

LEMMA ReadPanics ==
    ASSUME LengthsInv, NEW t \in L!Pool, L!Panics(t)
    PROVE  LengthsInv'
  <1>1. Busy(t) /\ threads' = [threads EXCEPT ![t] = L!Idle]
    BY DEF L!Panics, Busy
  <1>2. CASE \E p \in Sources : asks[p].thread = t
    BY <1>1, <1>2, WatcherIsRebuilt DEF L!Panics
  <1>3. CASE ~\E p \in Sources : asks[p].thread = t
    <2>1. looks' = L!Kept(t, 0) /\ UNCHANGED <<watcher, asks, written, oldest>>
      BY <1>3 DEF L!Panics
    <2>2. asks' = [p \in Sources |-> IF asks[p].thread = t THEN L!Answered(p, 0) ELSE asks[p]]
      BY <1>3, <2>1 DEF LengthsInv, LengthsTypes
    <2> QED
      BY <1>1, <2>1, <2>2, ThreadGoes
  <1> QED
    BY <1>2, <1>3

LEMMA RoundEnds ==
    ASSUME LengthsInv, L!EndsRound
    PROVE  LengthsInv'
  <1>0. LengthsTypes /\ ThreadsAreKnown /\ AsksAreServed /\ NoLengthIsOld
    BY DEF LengthsInv
  <1> DEFINE open == {asks[p].file : p \in Sources}
             keeps(f) == looks[f].is = "running" \/ f \in open
  <1>1. /\ looks' = [f \in Files |-> IF keeps(f) THEN looks[f] ELSE L!Unknown]
        /\ asks' = [p \in Sources |-> L!Resting]
        /\ oldest' = [f \in Files |-> IF keeps(f) THEN oldest[f] ELSE written[f]]
        /\ UNCHANGED <<watcher, threads, written>>
    BY DEF L!EndsRound, L!Keeps
  <1> HIDE DEF open
  <1>2. L!Unknown \in Looked /\ L!Resting \in Ask
    BY DEF L!Unknown, L!Resting, Looked, Ask
  <1>3. LengthsTypes'
    BY <1>0, <1>1, <1>2 DEF LengthsTypes
  <1>4. ASSUME NEW t \in L!Pool, Busy(t)
        PROVE  /\ threads[t].file \in Files
               /\ threads[t].of = watcher => keeps(threads[t].file)
    BY <1>0, <1>4 DEF ThreadsAreKnown
  <1>5. ThreadsAreKnown'
    <2>1. ASSUME NEW t \in L!Pool, Busy(t), threads[t].of = watcher
          PROVE  looks'[threads[t].file].is = "running"
      BY <1>0, <1>1, <1>4, <2>1 DEF ThreadsAreKnown
    <2> QED
      BY <1>0, <1>1, <2>1 DEF ThreadsAreKnown, Busy
  <1>6. AsksAreServed'
    BY <1>1 DEF AsksAreServed, Served, L!Resting
  <1>7. NoLengthIsOld'
    <2>1. ASSUME NEW f \in Files
          PROVE  /\ oldest'[f] <= written'[f]
                 /\ looks'[f].is \in {"unknown", "running"} => looks'[f].length = 0
                 /\ looks'[f].length # 0 => looks'[f].length >= oldest'[f]
      <3>1. CASE keeps(f)
        BY <1>0, <1>1, <3>1 DEF NoLengthIsOld
      <3>2. CASE ~keeps(f)
        BY <1>0, <1>1, <3>2, LookParts DEF L!Unknown
      <3> QED
        BY <3>1, <3>2
    <2>2. ASSUME NEW t \in L!Pool, Busy(t)', threads'[t].of = watcher', threads'[t].saw # 0
          PROVE  threads'[t].saw >= oldest'[threads'[t].file]
      <3>1. Busy(t) /\ threads[t].of = watcher /\ threads[t].saw # 0
        BY <1>1, <2>2 DEF Busy
      <3>2. keeps(threads[t].file) /\ threads[t].file \in Files
        BY <1>4, <3>1
      <3>3. threads[t].saw >= oldest[threads[t].file]
        BY <1>0, <3>1 DEF NoLengthIsOld
      <3>4. oldest'[threads[t].file] = oldest[threads[t].file]
        BY <1>1, <3>2
      <3> QED
        BY <1>1, <3>3, <3>4
    <2>3. \A p \in Sources : asks'[p].length = 0
      BY <1>1 DEF L!Resting
    <2> QED
      BY <2>1, <2>2, <2>3 DEF NoLengthIsOld
  <1> QED
    BY <1>3, <1>5, <1>6, <1>7 DEF LengthsInv

LEMMA FileIsWritten ==
    ASSUME LengthsInv, NEW f \in Files, L!IsWritten(f)
    PROVE  LengthsInv'
  <1>0. LengthsTypes /\ ThreadsAreKnown /\ AsksAreServed /\ NoLengthIsOld
    BY DEF LengthsInv
  <1>1. /\ written' = [written EXCEPT ![f] = @ + 1]
        /\ UNCHANGED <<watcher, looks, threads, asks, oldest>>
    BY DEF L!IsWritten
  <1>2. LengthsTypes'
    BY <1>0, <1>1 DEF LengthsTypes
  <1>3. ThreadsAreKnown' /\ AsksAreServed'
    BY <1>0, <1>1 DEF ThreadsAreKnown, AsksAreServed, Served, Busy
  <1>4. \A g \in Files : oldest[g] <= written'[g]
    <2> TAKE g \in Files
    <2>1. written'[g] = IF g = f THEN written[g] + 1 ELSE written[g]
      BY <1>0, <1>1 DEF LengthsTypes
    <2>2. oldest[g] <= written[g] /\ written[g] \in Nat /\ oldest[g] \in Nat
      BY <1>0, LookParts DEF NoLengthIsOld
    <2> QED
      BY <2>1, <2>2
  <1>5. NoLengthIsOld'
    BY <1>0, <1>1, <1>4 DEF NoLengthIsOld, Busy
  <1> QED
    BY <1>2, <1>3, <1>5 DEF LengthsInv

LEMMA LengthsKept ==
    ASSUME LengthsInv, L!LengthsNext
    PROVE  LengthsInv'
  <1>1. ASSUME NEW t \in L!Pool, NEW n \in {0, threads[t].saw}, L!Ends(t, n)
        PROVE  LengthsInv'
    BY <1>1, ThreadGoes DEF L!Ends, Busy
  <1>2. CASE L!Restarts
    BY <1>2, WatcherIsRebuilt DEF L!Restarts
  <1> QED
    BY <1>1, <1>2, RoundPolls, FileIsFound, ReadingGivesUp, ReadingStarts, HeaderIsSeen,
       ReadPanics, RoundEnds, FileIsWritten DEF L!LengthsNext

\* A file that was closed is read again before its length is told, and one that
\* does not answer is never read twice by one watcher, however often the watcher
\* is built again and whatever reads go on (Lengths::keep_only).
THEOREM ReadAgain == MCSpec => []ReadAgainNeverTwice
  <1>1. MCInit => LengthsInv
    BY LengthsStart DEF MCInit
  <1>2. LengthsInv /\ [MCNext]_MCVars => LengthsInv'
    <2> SUFFICES ASSUME LengthsInv, [MCNext]_MCVars
                 PROVE  LengthsInv'
      OBVIOUS
    <2>1. CASE LengthsStep
      BY <2>1, LengthsKept DEF LengthsStep
    <2>2. CASE UNCHANGED lengthsAll
      BY <2>2 DEF lengthsAll, LengthsInv, LengthsTypes, ThreadsAreKnown, AsksAreServed,
                  Served, NoLengthIsOld, Busy
    <2> QED
      BY <2>1, <2>2 DEF MCNext, MCVars, VoiceStep, StreamStep, KodiStep, TimelineStep
  <1>3. LengthsInv => ReadAgainNeverTwice
    <2> SUFFICES ASSUME LengthsInv
                 PROVE  L!ReadAgainNeverTwice
      BY DEF ReadAgainNeverTwice
    <2>0. LengthsTypes /\ ThreadsAreKnown /\ NoLengthIsOld
      BY DEF LengthsInv
    <2>1. ASSUME NEW f \in Files, NEW w \in 1 .. watcher, NEW t \in L!Pool, L!Reads(t, f, w)
          PROVE  Busy(t)
      <3>1. L!Idle.file = Missing /\ threads[t].file = f
        BY <2>1 DEF L!Idle, L!Reads
      <3> QED
        BY <3>1, LengthsAssumption DEF Busy
    <2>2. ASSUME NEW f \in Files, NEW w \in 1 .. watcher, NEW s \in L!Pool, NEW t \in L!Pool,
                 L!Reads(s, f, w), L!Reads(t, f, w)
          PROVE  s = t
      <3>1. Busy(s) /\ Busy(t)
        BY <2>1, <2>2
      <3> QED
        BY <2>0, <2>2, <3>1 DEF ThreadsAreKnown, L!Reads
    <2> QED
      BY <2>0, <2>2 DEF NoLengthIsOld, L!ReadAgainNeverTwice
  <1> QED
    BY <1>1, <1>2, <1>3, PTL DEF MCSpec

-----------------------------------------------------------------------------
(***************************************************************************)
(* The voice.                                                              *)
(***************************************************************************)
VoiceTypes ==
    /\ said \in Nat /\ dropped \in Nat /\ told \in Nat
    /\ lines \in Seq(Nat)
    /\ over \in BOOLEAN /\ ended \in BOOLEAN
    /\ writer \in {"looking", "asleep", "counting", "writing", "panicking", "gone"}
    /\ taken \in [dropped : Nat, line : Nat]
    /\ holds \subseteq Threads \cup {"main", "writer"}
    /\ panic \in [Threads -> {"none", "saying", "writing", "said", "over"}]
    /\ main \in {"serving", "leaving", "joining", "ended", "gave up"}

\* The numbers up to n that are in a sequence that ends with n.
InOrder(s, n) == \A i \in 1 .. Len(s) : s[i] = n - Len(s) + i

\* What is held are the last lines said, in order, and none was dropped that there
\* was room for.
LinesAreInOrder ==
    /\ Len(lines) <= Held
    /\ InOrder(lines, said)
    /\ dropped > 0 => Len(lines) = Held

\* Everything said was told, is held, or was dropped, but for what the writer has
\* in its hands; and what it counts there it counts ahead of as many as are held.
AllIsAccounted ==
    /\ writer \in {"looking", "asleep"} => told + dropped + Len(lines) = said
    /\ writer = "counting" =>
          /\ told + taken.dropped + 1 + dropped + Len(lines) = said
          /\ taken.line = told + taken.dropped + 1
          /\ taken.dropped > 0 /\ told + taken.dropped + Held <= said
    /\ writer = "writing" =>
          /\ told + 1 + dropped + Len(lines) = said
          /\ taken.line = told + 1
    /\ writer = "panicking" => told < taken.line
    /\ writer = "gone" => told < taken.line \/ (told = said /\ over)

\* Who has hold of the voice, and how far the main thread is.
HoldsAreKept ==
    /\ main \in {"serving", "leaving"} => "main" \in holds /\ ~over
    /\ main \in {"joining", "ended"} => RuntimeIsGone
    /\ main = "ended" => writer \in {"panicking", "gone"}
    /\ \A t \in Threads :
          /\ t \in holds => panic[t] \in {"saying", "writing", "said"} /\ "main" \in holds
          /\ panic[t] = "writing" => ended
    /\ "writer" \in holds => writer = "panicking"
    /\ ended => writer = "gone"

VoiceInv == VoiceTypes /\ LinesAreInOrder /\ AllIsAccounted /\ HoldsAreKept

\* The order of a sequence less its first element, and of one with one more.
LEMMA OrderOfTheRest ==
    ASSUME NEW s \in Seq(Nat), s # <<>>, NEW n \in Nat, InOrder(s, n)
    PROVE  /\ Tail(s) \in Seq(Nat) /\ Len(Tail(s)) = Len(s) - 1
           /\ Len(s) \in Nat /\ Len(s) > 0
           /\ Head(s) = n - Len(s) + 1 /\ Head(s) \in Nat
           /\ InOrder(Tail(s), n)
  <1>1. Len(s) \in Nat /\ Len(s) > 0
    OBVIOUS
  <1>2. Tail(s) \in Seq(Nat) /\ Len(Tail(s)) = Len(s) - 1
    OBVIOUS
  <1>3. Head(s) = s[1] /\ s[1] \in Nat
    BY <1>1
  <1>4. s[1] = n - Len(s) + 1
    BY <1>1 DEF InOrder
  <1>5. ASSUME NEW i \in 1 .. Len(Tail(s))
        PROVE  Tail(s)[i] = n - Len(Tail(s)) + i
    <2>1. i + 1 \in 1 .. Len(s) /\ Tail(s)[i] = s[i + 1]
      BY <1>1, <1>2
    <2>2. s[i + 1] = n - Len(s) + (i + 1)
      BY <2>1 DEF InOrder
    <2> QED
      BY <2>1, <2>2, <1>1, <1>2
  <1> QED
    BY <1>1, <1>2, <1>3, <1>4, <1>5 DEF InOrder

LEMMA OrderOfOneMore ==
    ASSUME NEW s \in Seq(Nat), NEW n \in Nat, InOrder(s, n)
    PROVE  /\ Append(s, n + 1) \in Seq(Nat) /\ Len(s) \in Nat
           /\ Len(Append(s, n + 1)) = Len(s) + 1
           /\ InOrder(Append(s, n + 1), n + 1)
  <1>1. Append(s, n + 1) \in Seq(Nat) /\ Len(s) \in Nat
    OBVIOUS
  <1>2. Len(Append(s, n + 1)) = Len(s) + 1
    OBVIOUS
  <1>3. ASSUME NEW i \in 1 .. Len(s) + 1
        PROVE  Append(s, n + 1)[i] = (n + 1) - (Len(s) + 1) + i
    <2>1. CASE i = Len(s) + 1
      BY <2>1, <1>1
    <2>2. CASE i # Len(s) + 1
      <3>1. i \in 1 .. Len(s)
        BY <2>2, <1>1
      <3>2. Append(s, n + 1)[i] = s[i]
        BY <3>1
      <3>3. s[i] = n - Len(s) + i
        BY <3>1 DEF InOrder
      <3> QED
        BY <3>1, <3>2, <3>3, <1>1
    <2> QED
      BY <2>1, <2>2
  <1> QED
    BY <1>1, <1>2, <1>3 DEF InOrder

\* What the accounts come to with one more line, and with one taken.
LEMMA SumOfOneMore ==
    ASSUME NEW a \in Nat, NEW d \in Nat, NEW l \in Nat, NEW s \in Nat, a + d + l = s,
           NEW e \in Nat, NEW k \in Nat, e + k = d + l + 1
    PROVE  a + e + k = s + 1
  OBVIOUS

LEMMA BoundOfOneMore ==
    ASSUME NEW a \in Nat, NEW b \in Nat, NEW s \in Nat, a + b <= s
    PROVE  a + b <= s + 1
  OBVIOUS

LEMMA SumOfTaking ==
    ASSUME NEW a \in Nat, NEW d \in Nat, NEW l \in Nat, NEW s \in Nat, a + d + l = s, l > 0,
           NEW b \in Nat, d > 0 => l = b
    PROVE  /\ a + d + 1 + 0 + (l - 1) = s
           /\ d > 0 => a + d + b <= s
           /\ ~(d > 0) => d = 0 /\ a + d = a
  OBVIOUS

LEMMA VoiceStarts == Init => VoiceInv
  <1> SUFFICES ASSUME Init
               PROVE  VoiceInv
    OBVIOUS
  <1>1. VoiceTypes
    <2>1. lines \in Seq(Nat)
      BY DEF Init
    <2>2. panic \in [Threads -> {"none", "saying", "writing", "said", "over"}]
      BY DEF Init
    <2>3. taken \in [dropped : Nat, line : Nat]
      BY DEF Init
    <2> QED
      BY <2>1, <2>2, <2>3 DEF Init, VoiceTypes
  <1>2. LinesAreInOrder /\ AllIsAccounted
    <2>1. Len(lines) = 0 /\ Held \in Nat \ {0}
      BY VoiceAssumption DEF Init
    <2>2. LinesAreInOrder
      BY <2>1 DEF Init, LinesAreInOrder, InOrder
    <2>3. AllIsAccounted
      BY <2>1 DEF Init, AllIsAccounted
    <2> QED
      BY <2>2, <2>3
  <1>3. HoldsAreKept
    <2>1. \A t \in Threads : t # "main" /\ panic[t] = "none"
      BY VoiceAssumption DEF Init
    <2> QED
      BY <2>1 DEF Init, HoldsAreKept
  <1> QED
    BY <1>1, <1>2, <1>3 DEF VoiceInv

\* One more line is said.
LEMMA LineIsSaid ==
    ASSUME VoiceInv, Pushed(Held), ~over
    PROVE  /\ said' \in Nat /\ dropped' \in Nat /\ lines' \in Seq(Nat)
           /\ LinesAreInOrder' /\ AllIsAccounted'
           /\ writer' = Woken /\ said' = said + 1
           /\ UNCHANGED <<over, ended, taken, told, last>>
  <1>0. VoiceTypes /\ LinesAreInOrder /\ AllIsAccounted
    BY DEF VoiceInv
  <1>1. /\ said' = said + 1 /\ writer' = Woken
        /\ UNCHANGED <<over, ended, taken, told, last>>
    BY DEF Pushed, toldVars
  <1>2. said \in Nat /\ dropped \in Nat /\ told \in Nat /\ lines \in Seq(Nat) /\ Held \in Nat \ {0}
    BY <1>0, VoiceAssumption DEF VoiceTypes
  <1>3. /\ lines' \in Seq(Nat) /\ dropped' \in Nat
        /\ dropped' + Len(lines') = dropped + Len(lines) + 1
        /\ LinesAreInOrder'
    <2>1. CASE Len(lines) >= Held
      <3>1. lines' = Append(Tail(lines), said + 1) /\ dropped' = dropped + 1
        BY <1>1, <2>1 DEF Pushed
      <3>2. Len(lines) = Held /\ lines # <<>>
        BY <1>0, <1>2, <2>1 DEF LinesAreInOrder
      <3>3. /\ Tail(lines) \in Seq(Nat) /\ Len(Tail(lines)) = Held - 1
            /\ InOrder(Tail(lines), said)
        BY <1>0, <1>2, <3>2, OrderOfTheRest DEF LinesAreInOrder
      <3>4. /\ lines' \in Seq(Nat) /\ Len(lines') = Held - 1 + 1
            /\ InOrder(Append(Tail(lines), said + 1), said + 1)
        BY <1>2, <3>1, <3>3, OrderOfOneMore
      <3>5. Len(lines') = Held
        BY <1>2, <3>4
      <3>6. LinesAreInOrder'
        BY <1>1, <1>2, <3>1, <3>4, <3>5 DEF LinesAreInOrder, InOrder
      <3> QED
        BY <1>2, <3>1, <3>2, <3>4, <3>5, <3>6
    <2>2. CASE Len(lines) < Held
      <3>1. lines' = Append(lines, said + 1) /\ dropped' = dropped
        BY <1>1, <1>2, <2>2 DEF Pushed
      <3>2. dropped = 0
        BY <1>0, <1>2, <2>2 DEF LinesAreInOrder
      <3>3. /\ lines' \in Seq(Nat) /\ Len(lines) \in Nat /\ Len(lines') = Len(lines) + 1
            /\ InOrder(Append(lines, said + 1), said + 1)
        BY <1>0, <1>2, <3>1, OrderOfOneMore DEF LinesAreInOrder
      <3>4. LinesAreInOrder'
        BY <1>1, <1>2, <2>2, <3>1, <3>2, <3>3 DEF LinesAreInOrder, InOrder
      <3> QED
        BY <1>2, <3>1, <3>2, <3>3, <3>4
    <2> QED
      BY <1>2, <2>1, <2>2
  <1>4. AllIsAccounted'
    <2>1. taken.dropped \in Nat /\ taken.line \in Nat
      BY <1>0 DEF VoiceTypes
    <2>2. Len(lines) \in Nat /\ Len(lines') \in Nat
      BY <1>2, <1>3
    <2>2a. said \in Nat /\ dropped \in Nat /\ told \in Nat /\ Held \in Nat
      BY <1>2
    <2>3. /\ writer' \in {"looking", "asleep"} => writer \in {"looking", "asleep"}
          /\ writer' \notin {"looking", "asleep"} => writer' = writer
      BY <1>1 DEF Woken
    <2>4. dropped' + Len(lines') = dropped + Len(lines) + 1 /\ dropped' \in Nat
      BY <1>3
    <2>5. CASE writer \in {"looking", "asleep"}
      <3>1. told + dropped + Len(lines) = said
        BY <2>5, <1>0 DEF AllIsAccounted
      <3>2. told + dropped' + Len(lines') = said + 1
        BY <3>1, <2>2, <2>4, <1>2
      <3>3. writer' \in {"looking", "asleep"}
        BY <2>5, <1>1 DEF Woken
      <3> QED
        BY <3>2, <3>3, <1>1 DEF AllIsAccounted
    <2>6. CASE writer = "counting"
      <3>1. /\ told + taken.dropped + 1 + dropped + Len(lines) = said
            /\ taken.line = told + taken.dropped + 1
            /\ taken.dropped > 0 /\ told + taken.dropped + Held <= said
        BY <2>6, <1>0 DEF AllIsAccounted
      <3>2. /\ told + taken.dropped + 1 + dropped' + Len(lines') = said + 1
            /\ told + taken.dropped + Held <= said + 1
        <4>1. told + taken.dropped + 1 \in Nat
          BY <1>2, <2>1
        <4>2. told + taken.dropped + 1 + dropped' + Len(lines') = said + 1
          <5>1. PICK a \in Nat : a = told + taken.dropped + 1
            BY <4>1
          <5>2. a + dropped + Len(lines) = said
            BY <5>1, <3>1
          <5>3. PICK d \in Nat, l \in Nat, e \in Nat, k \in Nat, n \in Nat :
                   /\ d = dropped /\ l = Len(lines) /\ e = dropped' /\ k = Len(lines')
                   /\ n = said
            BY <2>2, <2>4, <2>2a
          <5>4. a + d + l = n /\ e + k = d + l + 1
            BY <5>2, <5>3, <2>4
          <5>5. a + e + k = n + 1
            BY <5>4, SumOfOneMore
          <5>6. a + dropped' + Len(lines') = said + 1
            BY <5>3, <5>5
          <5> QED
            BY <5>1, <5>6
        <4>3. told + taken.dropped \in Nat /\ told + taken.dropped + Held <= said
          BY <1>2, <2>1, <3>1
        <4> QED
          BY <4>2, <4>3, <1>2, BoundOfOneMore
      <3>3. writer' = "counting"
        BY <2>6, <1>1 DEF Woken
      <3> QED
        BY <3>1, <3>2, <3>3, <1>1 DEF AllIsAccounted
    <2>7. CASE writer = "writing"
      <3>1. told + 1 + dropped + Len(lines) = said /\ taken.line = told + 1
        BY <2>7, <1>0 DEF AllIsAccounted
      <3>2. told + 1 + dropped' + Len(lines') = said + 1
        <4>1. told + 1 \in Nat
          BY <1>2
        <4> QED
          <5>1. told + 1 + dropped + Len(lines) = said
            BY <3>1
          <5> QED
            BY <4>1, <5>1, <2>2, <2>4, <2>2a, SumOfOneMore
      <3>3. writer' = "writing"
        BY <2>7, <1>1 DEF Woken
      <3> QED
        BY <3>1, <3>2, <3>3, <1>1 DEF AllIsAccounted
    <2>8. CASE writer \in {"panicking", "gone"}
      <3>1. told < taken.line /\ writer' = writer
        BY <2>8, <1>0, <1>1 DEF AllIsAccounted, Woken
      <3> QED
        BY <3>1, <2>8, <1>1 DEF AllIsAccounted
    <2> QED
      BY <1>0, <2>5, <2>6, <2>7, <2>8 DEF VoiceTypes
  <1> QED
    BY <1>1, <1>2, <1>3, <1>4

\* A step that leaves the lines and what was told of them alone.
LEMMA LinesAreLeft ==
    ASSUME VoiceInv, UNCHANGED <<said, lines, dropped, taken, told>>,
           UNCHANGED <<over, writer>>
    PROVE  LinesAreInOrder' /\ AllIsAccounted'
  BY DEF VoiceInv, LinesAreInOrder, AllIsAccounted

\* A line is said by one who leaves who holds the voice alone.
LEMMA SayingKeeps ==
    ASSUME VoiceInv, Pushed(Held), main \in {"serving", "leaving"},
           UNCHANGED <<holds, panic>>, main' \in {"serving", "leaving"}
    PROVE  VoiceInv'
  <1>0. VoiceTypes /\ HoldsAreKept
    BY DEF VoiceInv
  <1>1. ~over
    BY <1>0 DEF HoldsAreKept
  <1>2. /\ said' \in Nat /\ dropped' \in Nat /\ lines' \in Seq(Nat)
        /\ LinesAreInOrder' /\ AllIsAccounted'
        /\ writer' = Woken
        /\ UNCHANGED <<over, ended, taken, told, last>>
    BY <1>1, LineIsSaid
  <1>3. VoiceTypes'
    BY <1>0, <1>2 DEF VoiceTypes, Woken
  <1>4. HoldsAreKept'
    BY <1>0, <1>2 DEF HoldsAreKept, Woken
  <1> QED
    BY <1>2, <1>3, <1>4 DEF VoiceInv

LEMMA PanickingKeeps ==
    ASSUME VoiceInv, NEW t \in Threads, Panics(t)
    PROVE  VoiceInv'
  <1>0. VoiceTypes /\ HoldsAreKept
    BY DEF VoiceInv
  <1>1. /\ panic[t] = "none" /\ main \in {"serving", "leaving"}
        /\ panic' = [panic EXCEPT ![t] = IF WritesFor(t) THEN "saying" ELSE "writing"]
        /\ holds' = IF holds = {} THEN {} ELSE holds \cup {t}
        /\ UNCHANGED <<said, lines, dropped, over, ended, writer, taken, main, told, last>>
    BY DEF Panics, voiceVars, writerVars, toldVars
  <1>2. "main" \in holds /\ holds' = holds \cup {t}
    BY <1>0, <1>1 DEF HoldsAreKept
  <1>3. ~WritesFor(t) => ended
    BY <1>2, VoiceAssumption DEF WritesFor
  <1>4. \A u \in Threads :
           panic'[u] = IF u = t THEN (IF WritesFor(t) THEN "saying" ELSE "writing") ELSE panic[u]
    BY <1>0, <1>1 DEF VoiceTypes
  <1>5. VoiceTypes'
    BY <1>0, <1>1, <1>2 DEF VoiceTypes
  <1>6. HoldsAreKept'
    <2>1. "writer" \in holds' => "writer" \in holds
      BY <1>2, VoiceAssumption
    <2>2. \A u \in Threads :
             /\ u \in holds' => panic'[u] \in {"saying", "writing", "said"} /\ "main" \in holds'
             /\ panic'[u] = "writing" => ended'
      BY <1>0, <1>1, <1>2, <1>3, <1>4 DEF HoldsAreKept
    <2> QED
      BY <1>0, <1>1, <1>2, <2>1, <2>2 DEF HoldsAreKept
  <1> QED
    BY <1>1, <1>5, <1>6, LinesAreLeft DEF VoiceInv

LEMMA HookKeeps ==
    ASSUME VoiceInv, NEW t \in Threads, Hook(t), ~Over
    PROVE  VoiceInv'
  <1>0. VoiceTypes /\ HoldsAreKept
    BY DEF VoiceInv
  <1>1. CASE SaysPanic(t)
    <2>1. /\ panic[t] = "saying" /\ Pushed(Held)
          /\ panic' = [panic EXCEPT ![t] = "said"]
          /\ UNCHANGED <<holds, main>>
      BY <1>1 DEF SaysPanic
    <2>2. main \in {"serving", "leaving"}
      BY <1>0, <2>1 DEF HoldsAreKept, VoiceTypes, RuntimeIsGone, Over
    <2>3. ~over
      BY <1>0, <2>2 DEF HoldsAreKept
    <2>4. /\ said' \in Nat /\ dropped' \in Nat /\ lines' \in Seq(Nat)
          /\ LinesAreInOrder' /\ AllIsAccounted'
          /\ writer' = Woken
          /\ UNCHANGED <<over, ended, taken, told, last>>
      BY <2>1, <2>3, LineIsSaid
    <2>5. \A u \in Threads : panic'[u] = IF u = t THEN "said" ELSE panic[u]
      BY <1>0, <2>1 DEF VoiceTypes
    <2>6. VoiceTypes'
      BY <1>0, <2>1, <2>4 DEF VoiceTypes, Woken
    <2>7. HoldsAreKept'
      BY <1>0, <2>1, <2>2, <2>4, <2>5 DEF HoldsAreKept, Woken
    <2> QED
      BY <2>4, <2>6, <2>7 DEF VoiceInv
  <1>2. CASE WritesPanic(t)
    <2>1. /\ panic[t] = "writing" /\ panic' = [panic EXCEPT ![t] = "said"]
          /\ UNCHANGED <<said, lines, dropped, over, ended, writer, taken, holds, main, told, last>>
      BY <1>2 DEF WritesPanic, voiceVars, writerVars, toldVars
    <2>2. \A u \in Threads : panic'[u] = IF u = t THEN "said" ELSE panic[u]
      BY <1>0, <2>1 DEF VoiceTypes
    <2>3. VoiceTypes'
      BY <1>0, <2>1 DEF VoiceTypes
    <2>4. ~RuntimeIsGone
      BY <2>1 DEF RuntimeIsGone
    <2>5. HoldsAreKept'
      BY <1>0, <2>1, <2>2, <2>4 DEF HoldsAreKept
    <2> QED
      BY <2>1, <2>3, <2>5, LinesAreLeft DEF VoiceInv
  <1>3. CASE LetsGo(t)
    <2>1. /\ panic[t] = "said" /\ holds' = holds \ {t}
          /\ panic' = [panic EXCEPT ![t] = IF main = "serving" THEN "none" ELSE "over"]
          /\ UNCHANGED <<said, lines, dropped, over, ended, writer, taken, main, told, last>>
      BY <1>3 DEF LetsGo, voiceVars, writerVars, toldVars
    <2>2. \A u \in Threads :
             panic'[u] = IF u = t THEN (IF main = "serving" THEN "none" ELSE "over") ELSE panic[u]
      BY <1>0, <2>1 DEF VoiceTypes
    <2>3. VoiceTypes'
      BY <1>0, <2>1 DEF VoiceTypes
    <2>4. ~RuntimeIsGone
      BY <2>1 DEF RuntimeIsGone
    <2>5. t # "main"
      BY VoiceAssumption
    <2>6. HoldsAreKept'
      BY <1>0, <2>1, <2>2, <2>4, <2>5 DEF HoldsAreKept
    <2> QED
      BY <2>1, <2>3, <2>6, LinesAreLeft DEF VoiceInv
  <1> QED
    BY <1>1, <1>2, <1>3 DEF Hook

LEMMA LookingKeeps ==
    ASSUME VoiceInv, Looks
    PROVE  VoiceInv'
  <1>0. VoiceTypes /\ LinesAreInOrder /\ AllIsAccounted /\ HoldsAreKept
    BY DEF VoiceInv
  <1>1. /\ writer = "looking"
        /\ UNCHANGED <<said, over, holds, panic, main, told, last>>
    BY DEF Looks, threadVars, toldVars
  <1>2. said \in Nat /\ dropped \in Nat /\ told \in Nat /\ lines \in Seq(Nat) /\ Held \in Nat \ {0}
    BY <1>0, VoiceAssumption DEF VoiceTypes
  <1>3. told + dropped + Len(lines) = said
    BY <1>0, <1>1 DEF AllIsAccounted
  <1>4. ~ended
    BY <1>0, <1>1 DEF HoldsAreKept
  <1>5. "writer" \notin holds /\ main # "ended"
    BY <1>0, <1>1 DEF HoldsAreKept
  <1>6. CASE NothingIsLeft
    <2>1. /\ writer' = "gone" /\ ended' = TRUE /\ UNCHANGED <<lines, dropped, taken>>
          /\ over /\ lines = <<>>
      BY <1>6 DEF Looks, NothingIsLeft
    <2>2. told = said
      BY <1>0, <1>2, <1>3, <2>1 DEF LinesAreInOrder
    <2>3. VoiceTypes'
      BY <1>0, <1>1, <2>1 DEF VoiceTypes
    <2>4. LinesAreInOrder' /\ AllIsAccounted'
      BY <1>0, <1>1, <2>1, <2>2 DEF LinesAreInOrder, AllIsAccounted
    <2>5. HoldsAreKept'
      BY <1>0, <1>1, <1>5, <2>1 DEF HoldsAreKept, RuntimeIsGone
    <2> QED
      BY <2>3, <2>4, <2>5 DEF VoiceInv
  <1>7. CASE ~NothingIsLeft /\ lines = <<>>
    <2>1. writer' = "asleep" /\ UNCHANGED <<lines, dropped, ended, taken>>
      BY <1>7 DEF Looks
    <2>2. VoiceTypes'
      BY <1>0, <1>1, <2>1 DEF VoiceTypes
    <2>3. LinesAreInOrder' /\ AllIsAccounted'
      BY <1>0, <1>1, <1>3, <2>1 DEF LinesAreInOrder, AllIsAccounted
    <2>4. HoldsAreKept'
      BY <1>0, <1>1, <1>4, <1>5, <2>1 DEF HoldsAreKept, RuntimeIsGone
    <2> QED
      BY <2>2, <2>3, <2>4 DEF VoiceInv
  <1>8. CASE ~NothingIsLeft /\ lines # <<>>
    <2>1. /\ taken' = [dropped |-> dropped, line |-> Head(lines)]
          /\ dropped' = 0 /\ lines' = Tail(lines)
          /\ writer' = (IF dropped > 0 THEN "counting" ELSE "writing")
          /\ ended' = ended
      BY <1>8 DEF Looks, DroppedLeft
    <2>2. /\ Tail(lines) \in Seq(Nat) /\ Len(Tail(lines)) = Len(lines) - 1
          /\ Len(lines) > 0 /\ Len(lines) \in Nat
          /\ Head(lines) = said - Len(lines) + 1 /\ Head(lines) \in Nat
          /\ InOrder(Tail(lines), said)
      BY <1>0, <1>2, <1>8, OrderOfTheRest DEF LinesAreInOrder
    <2>3. Head(lines) = told + dropped + 1
      BY <1>2, <1>3, <2>2
    <2>4. taken'.dropped = dropped /\ taken'.line = told + dropped + 1
      BY <2>1, <2>3
    <2>5. VoiceTypes'
      <3>1. taken' \in [dropped : Nat, line : Nat]
        BY <1>2, <2>1, <2>2
      <3>2. /\ writer' \in {"looking", "asleep", "counting", "writing", "panicking", "gone"}
            /\ dropped' \in Nat /\ lines' \in Seq(Nat)
        BY <2>1, <2>2
      <3> QED
        BY <1>0, <1>1, <2>1, <3>1, <3>2 DEF VoiceTypes
    <2>6. LinesAreInOrder'
      <3>1. Len(lines') <= Held
        <4>1. Len(lines) <= Held /\ Len(lines) \in Nat /\ Held \in Nat
          BY <1>0, <1>2, <2>2 DEF LinesAreInOrder
        <4>2. Len(lines') = Len(lines) - 1
          BY <2>1, <2>2
        <4> QED
          BY <4>1, <4>2
      <3> QED
        BY <1>1, <2>1, <2>2, <3>1 DEF LinesAreInOrder, InOrder
    <2>7. AllIsAccounted'
      <3>1. dropped > 0 => Len(lines) = Held
        BY <1>0 DEF LinesAreInOrder
      <3>2. /\ told + dropped + 1 + 0 + (Len(lines) - 1) = said
            /\ dropped > 0 => told + dropped + Held <= said
            /\ ~(dropped > 0) => dropped = 0 /\ told + dropped = told
        <4>1. /\ said \in Nat /\ dropped \in Nat /\ told \in Nat /\ Held \in Nat
              /\ Len(lines) \in Nat /\ Len(lines) > 0
          BY <1>2, <2>2
        <4> QED
          BY <4>1, <1>3, <3>1, SumOfTaking
      <3>3. Len(lines') = Len(lines) - 1 /\ dropped' = 0
        BY <2>1, <2>2
      <3>4. CASE dropped > 0
        <4>1. writer' = "counting"
          BY <2>1, <3>4
        <4> QED
          BY <4>1, <1>1, <2>4, <3>2, <3>3, <3>4 DEF AllIsAccounted
      <3>5. CASE ~(dropped > 0)
        <4>1. writer' = "writing"
          BY <2>1, <3>5
        <4> QED
          BY <4>1, <1>1, <2>4, <3>2, <3>3, <3>5 DEF AllIsAccounted
      <3> QED
        BY <3>4, <3>5
    <2>8. HoldsAreKept'
      BY <1>0, <1>1, <1>4, <1>5, <2>1 DEF HoldsAreKept, RuntimeIsGone
    <2> QED
      BY <2>5, <2>6, <2>7, <2>8 DEF VoiceInv
  <1> QED
    BY <1>6, <1>7, <1>8

LEMMA CountingKeeps ==
    ASSUME VoiceInv, Counts
    PROVE  VoiceInv'
  <1>0. VoiceTypes /\ LinesAreInOrder /\ AllIsAccounted /\ HoldsAreKept
    BY DEF VoiceInv
  <1>1. /\ writer = "counting" /\ writer' = "writing" /\ told' = told + taken.dropped
        /\ UNCHANGED <<said, lines, dropped, over, ended, taken, holds, panic, main>>
    BY DEF Counts, voiceVars, threadVars
  <1>2. told \in Nat /\ taken.dropped \in Nat /\ taken.line \in Nat
    BY <1>0 DEF VoiceTypes
  <1>3. /\ told + taken.dropped + 1 + dropped + Len(lines) = said
        /\ taken.line = told + taken.dropped + 1
    BY <1>0, <1>1 DEF AllIsAccounted
  <1>4. told' \in Nat
    BY <1>1, <1>2
  <1>5. VoiceTypes'
    BY <1>0, <1>1, <1>4 DEF VoiceTypes
  <1>6. LinesAreInOrder'
    BY <1>0, <1>1 DEF LinesAreInOrder, InOrder
  <1>7. AllIsAccounted'
    BY <1>1, <1>3 DEF AllIsAccounted
  <1>8. HoldsAreKept'
    BY <1>0, <1>1 DEF HoldsAreKept, RuntimeIsGone
  <1> QED
    BY <1>5, <1>6, <1>7, <1>8 DEF VoiceInv

LEMMA WritingKeeps ==
    ASSUME VoiceInv, Writes
    PROVE  VoiceInv'
  <1>0. VoiceTypes /\ LinesAreInOrder /\ AllIsAccounted /\ HoldsAreKept
    BY DEF VoiceInv
  <1>1. /\ writer = "writing" /\ writer' = "looking" /\ told' = told + 1
        /\ UNCHANGED <<said, lines, dropped, over, ended, taken, holds, panic, main>>
    BY DEF Writes, voiceVars, threadVars
  <1>2. told \in Nat
    BY <1>0 DEF VoiceTypes
  <1>3. told + 1 + dropped + Len(lines) = said
    BY <1>0, <1>1 DEF AllIsAccounted
  <1>4. told' \in Nat
    BY <1>1, <1>2
  <1>5. VoiceTypes'
    BY <1>0, <1>1, <1>4 DEF VoiceTypes
  <1>6. LinesAreInOrder'
    BY <1>0, <1>1 DEF LinesAreInOrder, InOrder
  <1>7. AllIsAccounted'
    BY <1>1, <1>3 DEF AllIsAccounted
  <1>8. HoldsAreKept'
    BY <1>0, <1>1 DEF HoldsAreKept, RuntimeIsGone
  <1> QED
    BY <1>5, <1>6, <1>7, <1>8 DEF VoiceInv

\* The writer panics with the line in its hands, and is gone with it.
LEMMA WriterPanickingKeeps ==
    ASSUME VoiceInv, WriterPanics \/ WriterUnwinds
    PROVE  VoiceInv'
  <1>0. VoiceTypes /\ LinesAreInOrder /\ AllIsAccounted /\ HoldsAreKept
    BY DEF VoiceInv
  <1>1. "main" # "writer" /\ \A t \in Threads : t # "writer" /\ t # "main"
    BY VoiceAssumption
  <1>2. told \in Nat /\ taken.dropped \in Nat /\ taken.line \in Nat
    BY <1>0 DEF VoiceTypes
  <1>3. CASE WriterPanics
    <2>1. /\ writer \in {"counting", "writing"} /\ writer' = "panicking"
          /\ holds' = (IF holds = {} THEN {} ELSE holds \cup {"writer"})
          /\ UNCHANGED <<said, lines, dropped, over, ended, taken, panic, main, told>>
      BY <1>3 DEF WriterPanics, voiceVars, toldVars
    <2>2. taken.line = told + taken.dropped + 1 \/ taken.line = told + 1
      BY <1>0, <2>1 DEF AllIsAccounted
    <2>3. told < taken.line
      BY <1>2, <2>2
    <2>4. VoiceTypes'
      BY <1>0, <2>1 DEF VoiceTypes
    <2>5. LinesAreInOrder'
      BY <1>0, <2>1 DEF LinesAreInOrder, InOrder
    <2>6. AllIsAccounted'
      BY <2>1, <2>3 DEF AllIsAccounted
    <2>7. HoldsAreKept'
      <3>1. ~ended
        BY <1>0, <2>1 DEF HoldsAreKept
      <3>2. "main" \in holds' <=> "main" \in holds
        BY <1>1, <2>1
      <3>3. \A t \in Threads : t \in holds' => t \in holds
        BY <1>1, <2>1
      <3> QED
        BY <1>0, <2>1, <3>1, <3>2, <3>3 DEF HoldsAreKept, RuntimeIsGone
    <2> QED
      BY <2>4, <2>5, <2>6, <2>7 DEF VoiceInv
  <1>4. CASE WriterUnwinds
    <2>1. /\ writer = "panicking" /\ writer' = "gone" /\ ended' = TRUE
          /\ holds' = holds \ {"writer"}
          /\ UNCHANGED <<said, lines, dropped, over, taken, panic, main, told>>
      BY <1>4 DEF WriterUnwinds, toldVars
    <2>2. told < taken.line
      BY <1>0, <2>1 DEF AllIsAccounted
    <2>3. VoiceTypes'
      BY <1>0, <2>1 DEF VoiceTypes
    <2>4. LinesAreInOrder'
      BY <1>0, <2>1 DEF LinesAreInOrder, InOrder
    <2>5. AllIsAccounted'
      BY <2>1, <2>2 DEF AllIsAccounted
    <2>6. HoldsAreKept'
      BY <1>0, <1>1, <2>1 DEF HoldsAreKept, RuntimeIsGone
    <2> QED
      BY <2>3, <2>4, <2>5, <2>6 DEF VoiceInv
  <1> QED
    BY <1>3, <1>4

\* No thread has hold of the voice once the runtime is gone, so that the main
\* thread is the last to let go of it unless the writer panics.
LEMMA MainLettingGoKeeps ==
    ASSUME VoiceInv, MainLetsGo
    PROVE  VoiceInv'
  <1>0. VoiceTypes /\ LinesAreInOrder /\ AllIsAccounted /\ HoldsAreKept
    BY DEF VoiceInv
  <1>1. /\ main = "leaving" /\ RuntimeIsGone /\ holds' = holds \ {"main"}
        /\ UNCHANGED <<said, lines, dropped, ended, taken, panic, told>>
    BY DEF MainLetsGo, toldVars
  <1>2. "main" \in holds /\ ~over
    BY <1>0, <1>1 DEF HoldsAreKept
  <1>3. \A t \in Threads : t \notin holds
    BY <1>0, <1>1 DEF HoldsAreKept, RuntimeIsGone
  <1>4. holds = {"main"} \/ "writer" \in holds
    BY <1>0, <1>2, <1>3 DEF VoiceTypes
  <1>5. LinesAreInOrder'
    BY <1>0, <1>1 DEF LinesAreInOrder, InOrder
  <1>6. RuntimeIsGone'
    BY <1>1 DEF RuntimeIsGone
  <1>7. CASE holds = {"main"}
    <2>1. over' = TRUE /\ writer' = Woken /\ main' = "joining"
      BY <1>1, <1>7 DEF MainLetsGo, WriterTold
    <2>2. VoiceTypes'
      BY <1>0, <1>1, <2>1 DEF VoiceTypes, Woken
    <2>3. AllIsAccounted'
      <3>1. writer = "gone" => told < taken.line
        BY <1>0, <1>2 DEF AllIsAccounted
      <3>2. CASE writer \in {"looking", "asleep"}
        <4>1. told + dropped + Len(lines) = said
          BY <1>0, <3>2 DEF AllIsAccounted
        <4>2. writer' = "looking"
          BY <2>1, <3>2 DEF Woken
        <4> QED
          BY <1>1, <4>1, <4>2 DEF AllIsAccounted
      <3>3. CASE writer \notin {"looking", "asleep"}
        <4>1. writer' = writer
          BY <2>1, <3>3 DEF Woken
        <4> QED
          BY <1>0, <1>1, <3>1, <3>3, <4>1 DEF AllIsAccounted
      <3> QED
        BY <3>2, <3>3
    <2>4. HoldsAreKept'
      <3>1. "writer" \notin holds' /\ \A t \in Threads : t \notin holds'
        BY <1>1, <1>3, <1>7
      <3>2. \A t \in Threads : panic'[t] # "writing"
        BY <1>6 DEF RuntimeIsGone
      <3>3. ended' => writer' = "gone"
        BY <1>0, <1>1, <2>1 DEF HoldsAreKept, Woken
      <3> QED
        BY <1>6, <2>1, <3>1, <3>2, <3>3 DEF HoldsAreKept
    <2> QED
      BY <1>5, <2>2, <2>3, <2>4 DEF VoiceInv
  <1>8. CASE holds # {"main"}
    <2>1. main' = "ended" /\ UNCHANGED <<over, writer>>
      BY <1>8 DEF MainLetsGo
    <2>2. writer = "panicking"
      BY <1>0, <1>4, <1>8 DEF HoldsAreKept
    <2>3. VoiceTypes'
      BY <1>0, <1>1, <2>1 DEF VoiceTypes
    <2>4. AllIsAccounted'
      BY <1>0, <1>1, <2>1, <2>2 DEF AllIsAccounted
    <2>5. HoldsAreKept'
      <3>1. \A t \in Threads : t \notin holds' /\ panic'[t] # "writing"
        BY <1>1, <1>3, <1>6 DEF RuntimeIsGone
      <3>2. ~ended
        BY <1>0, <2>2 DEF HoldsAreKept
      <3> QED
        BY <1>1, <1>6, <2>1, <2>2, <3>1, <3>2 DEF HoldsAreKept
    <2> QED
      BY <1>5, <2>3, <2>4, <2>5 DEF VoiceInv
  <1> QED
    BY <1>7, <1>8

\* The main thread goes on, and touches nothing of the voice.
LEMMA EndingKeeps ==
    ASSUME VoiceInv, Fails \/ MainJoins \/ GivesUp
    PROVE  VoiceInv'
  <1>0. VoiceTypes /\ HoldsAreKept
    BY DEF VoiceInv
  <1>1. UNCHANGED <<said, lines, dropped, over, ended, writer, taken, holds, panic, told>>
    BY DEF Fails, MainJoins, GivesUp, voiceVars, writerVars, toldVars
  <1>2. \/ main = "serving" /\ main' = "leaving"
        \/ main = "joining" /\ writer = "gone" /\ main' = "ended"
        \/ main' = "gave up"
    BY DEF Fails, MainJoins, GivesUp
  <1>3. LinesAreInOrder' /\ AllIsAccounted'
    BY <1>1, LinesAreLeft
  <1>4. VoiceTypes'
    BY <1>0, <1>1, <1>2 DEF VoiceTypes
  <1>5. HoldsAreKept'
    BY <1>0, <1>1, <1>2 DEF HoldsAreKept, RuntimeIsGone
  <1> QED
    BY <1>3, <1>4, <1>5 DEF VoiceInv

LEMMA VoiceIsKept ==
    ASSUME VoiceInv, Next
    PROVE  VoiceInv'
  <1>1. CASE Rests
    <2>1. /\ UNCHANGED <<said, lines, dropped, over, ended, writer, taken>>
          /\ UNCHANGED <<holds, panic, main, told>>
      BY <1>1 DEF Rests, vars, voiceVars, writerVars, threadVars, toldVars
    <2>2. LinesAreInOrder' /\ AllIsAccounted'
      BY <2>1, LinesAreLeft
    <2> QED
      BY <2>1, <2>2 DEF VoiceInv, VoiceTypes, HoldsAreKept, RuntimeIsGone
  <1>2. CASE Runs
    <2>1. ~Over
      BY <1>2 DEF Runs
    <2>2. ASSUME MainSays \/ LastWords
          PROVE  VoiceInv'
      <3>1. /\ main \in {"serving", "leaving"} /\ main' \in {"serving", "leaving"}
            /\ Pushed(Held) /\ UNCHANGED <<holds, panic>>
        BY <2>2 DEF MainSays, LastWords, SaysLine, threadVars
      <3> QED
        BY <3>1, SayingKeeps
    <2>3. ASSUME NEW t \in Threads, TaskSays(t)
          PROVE  VoiceInv'
      <3>1. /\ main \in {"serving", "leaving"} /\ main' \in {"serving", "leaving"}
            /\ Pushed(Held) /\ UNCHANGED <<holds, panic>>
        BY <2>3 DEF TaskSays, SaysLine, threadVars
      <3> QED
        BY <3>1, SayingKeeps
    <2>4. ASSUME NEW t \in Threads, Panics(t) \/ Hook(t)
          PROVE  VoiceInv'
      BY <2>1, <2>4, PanickingKeeps, HookKeeps
    <2>5. ASSUME Reads \/ WriterPanics \/ WriterUnwinds
          PROVE  VoiceInv'
      BY <2>5, LookingKeeps, CountingKeeps, WritingKeeps, WriterPanickingKeeps DEF Reads
    <2>6. ASSUME Fails \/ MainLetsGo \/ MainJoins \/ GivesUp
          PROVE  VoiceInv'
      BY <2>6, MainLettingGoKeeps, EndingKeeps
    <2> QED
      BY <1>2, <2>2, <2>3, <2>4, <2>5, <2>6 DEF Runs
  <1> QED
    BY <1>1, <1>2 DEF Next

LEMMA VoiceAlways == MCSpec => []VoiceInv
  <1>1. MCInit => VoiceInv
    BY VoiceStarts DEF MCInit
  <1>2. VoiceInv /\ [MCNext]_MCVars => VoiceInv'
    <2> SUFFICES ASSUME VoiceInv, [MCNext]_MCVars
                 PROVE  VoiceInv'
      OBVIOUS
    <2>1. CASE UNCHANGED voiceAll
      <3>1. /\ UNCHANGED <<said, lines, dropped, over, ended, writer, taken>>
            /\ UNCHANGED <<holds, panic, main, told>>
        BY <2>1 DEF voiceAll
      <3>2. LinesAreInOrder' /\ AllIsAccounted'
        BY <3>1, LinesAreLeft
      <3> QED
        BY <3>1, <3>2 DEF VoiceInv, VoiceTypes, HoldsAreKept, RuntimeIsGone
    <2>2. CASE Next
      BY <2>2, VoiceIsKept
    <2> QED
      BY <2>1, <2>2
      DEF MCNext, VoiceStep, StreamStep, LengthsStep, KodiStep, TimelineStep, MCVars
  <1> QED
    BY <1>1, <1>2, PTL DEF MCSpec

\* A process that ends by itself has written, or counted, every line it said up to
\* its last words, but for what the stream took down with the writer (daemon,
\* main.rs): the accounts balance at every step, no thread has hold of the voice
\* once the runtime is gone, and the writer is gone by itself with nothing left.
THEOREM LastWordsComeOut == MCSpec => []LastWordsAreWritten
  <1>1. VoiceInv => LastWordsAreWritten
    BY DEF VoiceInv, HoldsAreKept, AllIsAccounted, LastWordsAreWritten, WriterFailed
  <1> QED
    BY <1>1, VoiceAlways, PTL

\* A thread that panics is never the last to let go of the voice, which would wait
\* for the writer, and writes where it stands only once the writer has ended
\* (panics.rs): the main thread lets go after the runtime waited for the threads.
THEOREM NoHookWaits == MCSpec => []HooksWaitForNobody
  <1>1. VoiceInv => HooksWaitForNobody
    BY DEF VoiceInv, HoldsAreKept, HooksWaitForNobody
  <1> QED
    BY <1>1, VoiceAlways, PTL

\* A step of the voice is one of the account that a reader of stderr is promised.
LEMMA VoiceStepAccounts ==
    ASSUME VoiceInv, Next
    PROVE  [A!Next]_(A!vars)
  <1>0. VoiceTypes /\ AllIsAccounted
    BY DEF VoiceInv
  <1>1. ASSUME UNCHANGED <<said, told, last>>
        PROVE  UNCHANGED A!vars
    BY <1>1 DEF A!vars
  <1>2. ASSUME Pushed(Held)
        PROVE  A!Say
    BY <1>2 DEF Pushed, toldVars, A!Say
  <1>3. ASSUME Counts
        PROVE  A!Miss
    <2>1. /\ writer = "counting" /\ told' = told + taken.dropped /\ said' = said
          /\ last' \in {A!Missed(taken.dropped), A!Refused}
      BY <1>3 DEF Counts, voiceVars
    <2>2. taken.dropped > 0 /\ told + taken.dropped + Held <= said
      BY <1>0, <2>1 DEF AllIsAccounted
    <2>3. /\ told \in Nat /\ said \in Nat /\ Held \in Nat /\ taken.dropped \in Nat
      BY <1>0, VoiceAssumption DEF VoiceTypes
    <2>4. PICK n \in Nat : n = taken.dropped
      BY <2>3
    <2>5. n \in 1 .. said - told /\ n + Held <= said - told
      BY <2>2, <2>3, <2>4
    <2> QED
      BY <2>1, <2>4, <2>5 DEF A!Miss
  <1>4. ASSUME Writes
        PROVE  A!Hear
    <2>1. /\ writer = "writing" /\ told' = told + 1 /\ said' = said
          /\ last' \in {A!Line(taken.line), A!Refused}
      BY <1>4 DEF Writes, voiceVars
    <2>2. told + 1 + dropped + Len(lines) = said /\ taken.line = told + 1
      BY <1>0, <2>1 DEF AllIsAccounted
    <2>3. told \in Nat /\ said \in Nat /\ dropped \in Nat /\ lines \in Seq(Nat)
      BY <1>0 DEF VoiceTypes
    <2>4. Len(lines) \in Nat
      BY <2>3
    <2>5. told < said
      BY <2>2, <2>3, <2>4
    <2> QED
      BY <2>1, <2>2, <2>5 DEF A!Hear
  <1>5. CASE Rests
    BY <1>1, <1>5 DEF Rests, vars, voiceVars, toldVars
  <1>6. CASE Runs
    <2>1. CASE MainSays \/ LastWords
      BY <1>2, <2>1 DEF MainSays, LastWords, SaysLine, A!Next
    <2>2. ASSUME NEW t \in Threads, TaskSays(t) \/ SaysPanic(t)
          PROVE  A!Say
      BY <1>2, <2>2 DEF TaskSays, SaysPanic, SaysLine
    <2>3. CASE Fails \/ MainLetsGo \/ MainJoins \/ GivesUp
      BY <1>1, <2>3 DEF Fails, MainLetsGo, MainJoins, GivesUp, voiceVars, toldVars
    <2>4. ASSUME NEW t \in Threads, Panics(t) \/ WritesPanic(t) \/ LetsGo(t)
          PROVE  UNCHANGED A!vars
      BY <1>1, <2>4 DEF Panics, WritesPanic, LetsGo, voiceVars, toldVars
    <2>5. CASE Looks \/ WriterPanics \/ WriterUnwinds
      BY <1>1, <2>5 DEF Looks, WriterPanics, WriterUnwinds, voiceVars, toldVars
    <2> QED
      BY <1>3, <1>4, <1>6, <2>1, <2>2, <2>3, <2>4, <2>5 DEF Runs, Reads, Hook, A!Next
  <1> QED
    BY <1>5, <1>6 DEF Next

\* Every line that is said is written, or counted where it would have stood, in the
\* order it was said, and none is dropped while no more than HELD wait (Voice::say):
\* the voice implements the account.
LEMMA VoiceImplements == MCSpec => VoiceAccounts
  <1>1. MCInit => A!Init
    BY DEF MCInit, Init, A!Init
  <1>2. VoiceInv /\ [MCNext]_MCVars => [A!Next]_(A!vars)
    <2> SUFFICES ASSUME VoiceInv, [MCNext]_MCVars
                 PROVE  [A!Next]_(A!vars)
      OBVIOUS
    <2>1. CASE UNCHANGED voiceAll
      BY <2>1 DEF voiceAll, A!vars
    <2>2. CASE Next
      BY <2>2, VoiceStepAccounts
    <2> QED
      BY <2>1, <2>2
      DEF MCNext, VoiceStep, StreamStep, LengthsStep, KodiStep, TimelineStep, MCVars
  <1> QED
    BY <1>1, <1>2, VoiceAlways, PTL DEF MCSpec, VoiceAccounts, A!Spec

-----------------------------------------------------------------------------
(***************************************************************************)
(* The stream of events.                                                   *)
(***************************************************************************)
\* How many events there are in the response that is being written.
InTheResponse(response) == IF response = S!A!Nothing THEN 0
                  ELSE IF response.is = "missed" THEN response.lines ELSE 1

\* A client was told, or is being told, of every event since it was subscribed that
\* its receiver is past; it is told that it missed some only where as many more as
\* are held were published.
StreamInv ==
    /\ published \in Nat /\ first \in Nat /\ next \in Nat /\ heard \in Nat
    /\ stream \in {"none", "asked"} =>
          heard = 0 /\ lastHeard = S!A!Nothing /\ inHand = S!A!Nothing
    /\ stream \in {"subscribed", "on"} => /\ first <= next /\ next <= published
                                          /\ heard + InTheResponse(inHand) = next - first
    /\ stream # "on" => inHand = S!A!Nothing
    /\ \/ inHand = S!A!Nothing
       \/ inHand = S!A!Line(heard + 1)
       \/ \E n \in Nat \ {0} :
             inHand = S!A!Missed(n) /\ heard + n + Held <= published - first

LEMMA StreamStarts == S!Init => StreamInv
  BY DEF S!Init, StreamInv, InTheResponse

\* What a response is.
LEMMA Responses ==
    /\ InTheResponse(S!A!Nothing) = 0
    /\ \A k : /\ S!A!Line(k) # S!A!Nothing /\ S!A!Line(k).is # "missed"
              /\ InTheResponse(S!A!Line(k)) = 1
    /\ \A n : /\ S!A!Missed(n) # S!A!Nothing /\ S!A!Missed(n).is = "missed"
              /\ S!A!Missed(n).lines = n /\ InTheResponse(S!A!Missed(n)) = n
  <1>1. S!A!Nothing.is = "nothing"
    BY DEF S!A!Nothing
  <1>2. \A k : S!A!Line(k).is = "line"
    BY DEF S!A!Line
  <1>3. \A n : S!A!Missed(n).is = "missed" /\ S!A!Missed(n).lines = n
    BY DEF S!A!Missed
  <1>4. \A k : S!A!Line(k) # S!A!Nothing
    BY <1>1, <1>2
  <1>5. \A n : S!A!Missed(n) # S!A!Nothing
    BY <1>1, <1>3
  <1> QED
    BY <1>2, <1>3, <1>4, <1>5 DEF InTheResponse

LEMMA PublishingKeeps ==
    ASSUME StreamInv, S!Publish
    PROVE  StreamInv'
  <1>1. /\ published' = published + 1
        /\ UNCHANGED <<stream, first, next, inHand, heard, lastHeard>>
    BY DEF S!Publish
  <1>2. published \in Nat /\ first \in Nat /\ next \in Nat /\ heard \in Nat /\ Held \in Nat
    BY VoiceAssumption DEF StreamInv
  <1>3. /\ published' \in Nat
        /\ next <= published => next <= published'
        /\ \A n \in Nat \ {0} : heard + n + Held <= published - first =>
                                heard + n + Held <= published' - first
    BY <1>1, <1>2
  <1> QED
    BY <1>1, <1>3 DEF StreamInv, InTheResponse

LEMMA ReceivingKeeps ==
    ASSUME StreamInv, S!Receive
    PROVE  StreamInv'
  <1>1. /\ stream = "on" /\ inHand = S!A!Nothing /\ next < published
        /\ UNCHANGED <<published, stream, first, heard, lastHeard>>
    BY DEF S!Receive
  <1>2. published \in Nat /\ first \in Nat /\ next \in Nat /\ heard \in Nat /\ Held \in Nat
    BY VoiceAssumption DEF StreamInv
  <1>3. first <= next /\ heard + InTheResponse(inHand) = next - first
    BY <1>1 DEF StreamInv
  <1>4. heard = next - first
    BY <1>1, <1>2, <1>3, Responses
  <1>5. CASE S!Lags
    <2>1. /\ inHand' = S!A!Missed(published - Held - next) /\ next' = published - Held
          /\ published - next > Held
      BY <1>5 DEF S!Receive, S!Response, S!Lags
    <2>2. PICK n \in Nat \ {0} : n = published - Held - next
      BY <1>2, <2>1
    <2>3. inHand' = S!A!Missed(n) /\ InTheResponse(inHand') = n
      BY <2>1, <2>2, Responses
    <2>4. /\ next' \in Nat /\ first <= next' /\ next' <= published
          /\ heard + n = next' - first /\ heard + n + Held <= published - first
      BY <1>1, <1>2, <1>3, <1>4, <2>1, <2>2
    <2>5. \E m \in Nat \ {0} :
             inHand' = S!A!Missed(m) /\ heard' + m + Held <= published' - first'
      BY <1>1, <2>2, <2>3, <2>4
    <2>6. heard' + InTheResponse(inHand') = next' - first' /\ first' <= next' /\ next' <= published'
      BY <1>1, <2>3, <2>4
    <2> QED
      BY <1>1, <1>2, <2>4, <2>5, <2>6 DEF StreamInv, InTheResponse
  <1>6. CASE ~S!Lags
    <2>1. inHand' = S!A!Line(next + 1 - first) /\ next' = next + 1
      BY <1>6 DEF S!Receive, S!Response
    <2>2. next + 1 - first = heard + 1
      BY <1>2, <1>4
    <2>3. inHand' = S!A!Line(heard + 1) /\ InTheResponse(inHand') = 1
      BY <2>1, <2>2, Responses
    <2>4. /\ next' \in Nat /\ first <= next' /\ next' <= published
          /\ heard + 1 = next' - first
      BY <1>1, <1>2, <1>3, <1>4, <2>1
    <2> QED
      BY <1>1, <1>2, <2>3, <2>4 DEF StreamInv, InTheResponse
  <1> QED
    BY <1>5, <1>6

\* What is told as a response is written.
LEMMA WhatIsReplied ==
    ASSUME StreamInv, S!Reply
    PROVE  /\ stream = "on" /\ inHand # S!A!Nothing /\ inHand' = S!A!Nothing
           /\ heard' = heard + InTheResponse(inHand) /\ lastHeard' = inHand
           /\ UNCHANGED <<published, stream, first, next>>
           /\ heard' = next - first /\ heard' \in Nat
  <1>1. /\ stream = "on" /\ inHand # S!A!Nothing /\ inHand' = S!A!Nothing
        /\ heard' = heard + (IF inHand.is = "missed" THEN inHand.lines ELSE 1)
        /\ lastHeard' = inHand
        /\ UNCHANGED <<published, stream, first, next>>
    BY DEF S!Reply
  <1>2. heard' = heard + InTheResponse(inHand)
    BY <1>1 DEF InTheResponse
  <1>3. /\ heard + InTheResponse(inHand) = next - first /\ first <= next
        /\ next \in Nat /\ first \in Nat
    BY <1>1 DEF StreamInv
  <1>4. heard' = next - first
    BY <1>2, <1>3
  <1>5. heard' \in Nat
    BY <1>3, <1>4
  <1> QED
    BY <1>1, <1>2, <1>4, <1>5

LEMMA ReplyingKeeps ==
    ASSUME StreamInv, S!Reply
    PROVE  StreamInv'
  <1>1. /\ stream = "on" /\ inHand' = S!A!Nothing
        /\ UNCHANGED <<published, stream, first, next>>
        /\ heard' = next - first /\ heard' \in Nat
    BY WhatIsReplied
  <1>2. InTheResponse(inHand') = 0
    BY <1>1, Responses
  <1>3. heard' + 0 = heard'
    BY <1>1
  <1>4. /\ published \in Nat /\ first \in Nat /\ next \in Nat
        /\ first <= next /\ next <= published
    BY <1>1 DEF StreamInv
  <1> QED
    BY <1>1, <1>2, <1>3, <1>4 DEF StreamInv, InTheResponse

\* A client comes, is subscribed and goes.
LEMMA ConnectingKeeps ==
    ASSUME StreamInv, S!Watch \/ S!Subscribe \/ S!SaysOk \/ S!Cut
    PROVE  StreamInv'
  <1>0. /\ published \in Nat /\ first \in Nat /\ next \in Nat /\ heard \in Nat
        /\ published - published = 0 /\ heard + 0 = heard
    BY DEF StreamInv
  <1>1. CASE S!Watch
    BY <1>1 DEF S!Watch, StreamInv, InTheResponse
  <1>2. CASE S!Subscribe
    <2>1. /\ stream' = "subscribed" /\ first' = published /\ next' = published
          /\ heard' = 0 /\ inHand' = S!A!Nothing /\ published' = published
      BY <1>2 DEF S!Subscribe, StreamInv
    <2>2. heard' + InTheResponse(inHand') = next' - first'
      BY <1>0, <2>1, Responses
    <2>3. first' <= next' /\ next' <= published'
      BY <1>0, <2>1
    <2> QED
      BY <1>0, <2>1, <2>2, <2>3 DEF StreamInv, InTheResponse
  <1>3. CASE S!SaysOk
    BY <1>3 DEF S!SaysOk, StreamInv, InTheResponse
  <1>4. CASE S!Cut
    <2>1. /\ stream' = "over" /\ inHand' = S!A!Nothing /\ first' \in Nat
          /\ UNCHANGED <<published, next, heard>>
      BY <1>0, <1>4 DEF S!Cut
    <2> QED
      BY <1>0, <2>1 DEF StreamInv
  <1> QED
    BY <1>1, <1>2, <1>3, <1>4

LEMMA StreamIsKept ==
    ASSUME StreamInv, S!Next
    PROVE  StreamInv'
  BY PublishingKeeps, ReceivingKeeps, ReplyingKeeps, ConnectingKeeps DEF S!Next

\* A step of the stream is one of the account that a client is promised.
LEMMA StreamStepAccounts ==
    ASSUME StreamInv, S!Next
    PROVE  [S!A!Next]_(S!A!vars)
  <1>0. /\ published \in Nat /\ first \in Nat /\ next \in Nat /\ heard \in Nat
        /\ Held \in Nat /\ published - published = 0
    BY VoiceAssumption DEF StreamInv
  <1>1. CASE S!Publish
    <2>1. /\ published' = published + 1
          /\ UNCHANGED <<stream, first, next, inHand, heard, lastHeard>>
      BY <1>1 DEF S!Publish
    <2>2. published' - first = (published - first) + 1
      BY <1>0, <2>1
    <2>3. CASE stream \in {"none", "asked"}
      BY <2>1, <2>3 DEF S!A!vars
    <2>4. CASE stream \notin {"none", "asked"}
      BY <2>1, <2>2, <2>4 DEF S!A!Next, S!A!Say
    <2> QED
      BY <2>3, <2>4
  <1>2. CASE S!Receive
    BY <1>2 DEF S!Receive, S!A!vars
  <1>3. CASE S!Reply
    <2>1. /\ stream = "on" /\ inHand # S!A!Nothing
          /\ heard' = heard + InTheResponse(inHand) /\ lastHeard' = inHand
          /\ UNCHANGED <<published, stream, first, next>>
          /\ heard' = next - first /\ heard' \in Nat
      BY <1>3, WhatIsReplied
    <2>2. first <= next /\ next <= published
      BY <2>1 DEF StreamInv
    <2>3. CASE inHand = S!A!Line(heard + 1)
      <3>1. heard' = heard + 1 /\ lastHeard' = S!A!Line(heard')
        BY <2>1, <2>3, Responses
      <3>2. heard < published - first
        BY <1>0, <2>1, <2>2, <3>1
      <3> QED
        BY <2>1, <3>1, <3>2 DEF S!A!Next, S!A!Hear
    <2>4. ASSUME NEW n \in Nat \ {0},
                 inHand = S!A!Missed(n), heard + n + Held <= published - first
          PROVE  S!A!Miss
      <3>1. heard' = heard + n /\ lastHeard' = S!A!Missed(n)
        BY <2>1, <2>4, Responses
      <3>2. n \in 1 .. (published - first) - heard /\ n + Held <= (published - first) - heard
        BY <1>0, <2>4
      <3> QED
        BY <2>1, <3>1, <3>2 DEF S!A!Miss
    <2> QED
      BY <2>1, <2>3, <2>4 DEF StreamInv, S!A!Next
  <1>4. CASE S!Watch
    BY <1>4 DEF S!Watch, S!A!vars
  <1>5. CASE S!Subscribe
    BY <1>0, <1>5 DEF S!Subscribe, S!A!vars
  <1>6. CASE S!SaysOk
    BY <1>6 DEF S!SaysOk, S!A!vars
  <1>7. CASE S!Cut
    <2>1. /\ stream' = "over" /\ UNCHANGED <<published, heard, lastHeard>>
          /\ stream \in {"asked", "subscribed", "on"}
          /\ first' = IF stream = "asked" THEN published ELSE first
      BY <1>7 DEF S!Cut
    <2> QED
      BY <1>0, <2>1 DEF S!A!vars
  <1> QED
    BY <1>1, <1>2, <1>3, <1>4, <1>5, <1>6, <1>7 DEF S!Next

LEMMA StreamImplements == MCSpec => S!StreamAccounts
  <1>1. MCInit => StreamInv /\ S!A!Init
    BY StreamStarts DEF MCInit, S!Init, S!A!Init
  <1>2. StreamInv /\ [MCNext]_MCVars => StreamInv' /\ [S!A!Next]_(S!A!vars)
    <2> SUFFICES ASSUME StreamInv, [MCNext]_MCVars
                 PROVE  StreamInv' /\ [S!A!Next]_(S!A!vars)
      OBVIOUS
    <2>1. CASE UNCHANGED streamAll
      <3>1. UNCHANGED <<published, stream, first, next, inHand, heard, lastHeard>>
        BY <2>1 DEF streamAll
      <3>2. StreamInv'
        BY <3>1 DEF StreamInv, InTheResponse
      <3>3. UNCHANGED S!A!vars
        BY <3>1 DEF S!A!vars
      <3> QED
        BY <3>2, <3>3
    <2>2. CASE S!Next
      BY <2>2, StreamIsKept, StreamStepAccounts
    <2> QED
      BY <2>1, <2>2
      DEF MCNext, VoiceStep, StreamStep, LengthsStep, KodiStep, TimelineStep, MCVars
  <1> QED
    BY <1>1, <1>2, PTL DEF MCSpec, S!StreamAccounts, S!A!Spec

\* The voice (Voice::say) and the stream of events (stream_events) both implement
\* the account a reader is promised: everything is told in its place or counted
\* there, and nothing is missed by a reader no more than what is held behind.
THEOREM NothingUntold == MCSpec => NothingGoesUntold
  BY VoiceImplements, StreamImplements DEF NothingGoesUntold

-----------------------------------------------------------------------------
(***************************************************************************)
(* The timeline.  What was watched and what was played stay within one     *)
(* OBSERVED_LIMIT of each other for each pause and each start, because an  *)
(* interval that was not played as it began is one with a pause or a start *)
(* of its own in it, and an interval that counts is no longer than that.   *)
(* What a position owes is what it lags by, at the least.                  *)
(***************************************************************************)
Shots == [at : Nat, playing : BOOLEAN, position : Nat \cup {None}]

TimelineTypes ==
    /\ timeline \in [watched : Nat, stalled : Nat, open : Media \cup {None},
                     previous : Shots \cup {None}]
    /\ player \in [media : Media, playing : BOOLEAN, position : Nat]
    /\ clock \in Nat /\ ran \in Nat /\ base \in Nat /\ seen \in Nat
    /\ pauses \in Nat /\ starts \in Nat
    /\ broke \in BOOLEAN /\ even \in BOOLEAN
    /\ timeline.previous # None => timeline.open # None

\* What n intervals come to.
Intervals(n) == ObservedLimit * n

\* A limit is left over while the interval is not played as it began.
PausesHold ==
    /\ timeline.watched <= base + seen + Intervals(pauses)
    /\ base + seen <= timeline.watched + Intervals(starts)
    /\ timeline.previous = None => timeline.watched = base /\ seen = 0
    /\ timeline.previous # None =>
         LET previous == timeline.previous IN
         /\ previous.at + ran <= clock
         /\ previous.playing /\ (previous.at + ran # clock \/ ~player.playing) =>
               timeline.watched + ObservedLimit <= base + seen + Intervals(pauses)
         /\ ~previous.playing /\ (ran # 0 \/ player.playing) =>
               base + seen + ObservedLimit <= timeline.watched + Intervals(starts)

\* Until it breaks, a player is where the position of the last reading says, or
\* ahead of it by no more than the position owes.
PlaceHolds ==
    /\ even => timeline.stalled = 0
    /\ timeline.previous # None =>
         LET previous == timeline.previous IN
         /\ even => previous.position # None
         /\ ~previous.playing => timeline.stalled = 0
         /\ ~broke =>
               /\ timeline.open = player.media
               /\ previous.playing = player.playing
               /\ IF player.playing THEN previous.at + ran = clock ELSE ran = 0
               /\ previous.position # None =>
                     /\ previous.position + ran <= player.position
                     /\ player.position <= previous.position + timeline.stalled + ran

TimelineInv == TimelineTypes /\ PausesHold /\ PlaceHolds

LEMMA OneMoreInterval ==
    ASSUME NEW n \in Nat
    PROVE  /\ Intervals(n) \in Nat
           /\ Intervals(n + 1) = Intervals(n) + ObservedLimit
           /\ Intervals(0) = 0
  <1>1. ObservedLimit \in Nat
    BY TimelineAssumption
  <1> QED
    BY <1>1 DEF Intervals

\* A reading is no None.
LEMMA ShotIsNotNone ==
    ASSUME NEW shot \in Shots
    PROVE  shot # None
  BY TimelineAssumption DEF Shots

\* The readings before, as records.
LEMMA PreviousType ==
    ASSUME TimelineTypes, timeline.previous # None
    PROVE  /\ timeline.previous \in Shots
           /\ timeline.previous.at \in Nat
           /\ timeline.previous.playing \in BOOLEAN
           /\ timeline.previous.position \in Nat \cup {None}
           /\ timeline.open \in Media
  BY DEF TimelineTypes, Shots

\* What the last reading is where nothing is open, or something else.
LEMMA NothingBefore ==
    ASSUME TimelineTypes, T!Previous = None
    PROVE  /\ T!Interval = 0
           /\ \A position : T!Judged(position) = [seek |-> FALSE, stalled |-> 0]
           /\ T!Shown = None
  BY DEF T!Interval, T!Judged, T!Shown

\* Where there is one, it is of what is open.
LEMMA SomethingBefore ==
    ASSUME TimelineTypes, T!Previous # None
    PROVE  /\ T!Goes
           /\ T!Opened = timeline
           /\ T!Previous = timeline.previous
           /\ timeline.previous # None
           /\ clock - timeline.previous.at <= ObservedLimit
  <1>1. T!Opened = timeline
    <2>1. CASE timeline.open \notin {None, player.media}
      <3>1. T!Opened.previous = None
        BY <2>1 DEF T!Opened, T!New
      <3> QED
        BY <3>1 DEF T!Previous
    <2> QED
      BY <2>1 DEF T!Opened
  <1>2. /\ timeline.previous # None /\ T!Previous = timeline.previous
        /\ clock - timeline.previous.at <= ObservedLimit
    BY <1>1 DEF T!Previous, T!Observed
  <1>3. timeline.open = player.media
    <2>1. timeline.open # None
      BY <1>2 DEF TimelineTypes
    <2>2. CASE timeline.open \notin {None, player.media}
      BY <1>1, <1>2, <2>2 DEF T!Opened, T!New
    <2> QED
      BY <2>1, <2>2
  <1> QED
    BY <1>1, <1>2, <1>3 DEF T!Goes

\* What a reading makes of the timeline.
LEMMA AfterReading ==
    ASSUME TimelineTypes, NEW position \in Nat \cup {None}, T!Reads(position)
    PROVE  /\ timeline'.watched = T!Opened.watched + T!Interval
           /\ timeline'.stalled = T!Judged(position).stalled
           /\ timeline'.open = player.media
           /\ timeline'.previous \in Shots
           /\ timeline'.previous # None
           /\ timeline'.previous.at = clock
           /\ timeline'.previous.playing = player.playing
           /\ timeline'.previous.position = position
           /\ seeked' = T!Judged(position).seek
           /\ ran' = 0 /\ clock' = clock /\ player' = player
  <1> DEFINE shot == [at |-> clock, playing |-> player.playing, position |-> position]
  <1>1. /\ timeline' = [watched |-> T!Opened.watched + T!Interval,
                        stalled |-> T!Judged(position).stalled,
                        open |-> player.media, previous |-> shot]
        /\ seeked' = T!Judged(position).seek
        /\ ran' = 0 /\ clock' = clock /\ player' = player
    BY DEF T!Reads, T!Advance, T!Playing
  <1>2. shot \in Shots
    BY DEF TimelineTypes, Shots
  <1>3. shot # None
    BY <1>2, ShotIsNotNone
  <1> QED
    BY <1>1, <1>2, <1>3

\* A position that is read is a number or none.
LEMMA ReadingIsOfPlaces ==
    ASSUME TimelineTypes, NEW position \in {player.position, None, T!Shown}
    PROVE  position \in Nat \cup {None}
  <1>1. T!Shown \in Nat \cup {None}
    BY SomethingBefore, PreviousType DEF T!Shown
  <1> QED
    BY <1>1 DEF TimelineTypes

\* What is judged of a position is in numbers.
LEMMA JudgedType ==
    ASSUME TimelineInv, NEW position \in Nat \cup {None}
    PROVE  T!Judged(position) \in [seek : BOOLEAN, stalled : Nat]
  <1>1. CASE T!Previous = None
    <2>1. T!Judged(position) = [seek |-> FALSE, stalled |-> 0]
      BY <1>1, NothingBefore DEF TimelineInv
    <2> QED
      BY <2>1
  <1>2. CASE T!Previous # None
    <2> DEFINE q == timeline.previous.position
               e == T!Expects(timeline.previous)
               o == T!Owed
    <2>1. /\ T!Previous = timeline.previous /\ timeline.previous # None
          /\ T!Opened = timeline
      BY <1>2, SomethingBefore DEF TimelineInv
    <2>2. /\ q \in Nat \cup {None} /\ timeline.previous.playing \in BOOLEAN
          /\ timeline.previous.at \in Nat /\ clock \in Nat
      BY <2>1, PreviousType DEF TimelineInv, TimelineTypes
    <2>3. e \in Nat
      <3>1. timeline.previous.at + ran <= clock /\ ran \in Nat
        BY <2>1 DEF TimelineInv, PausesHold, TimelineTypes
      <3> QED
        BY <2>2, <3>1 DEF T!Expects
    <2>4. o \in Nat
      BY <1>2, <2>1 DEF T!Owed, TimelineInv, TimelineTypes
    <2>5. CASE \/ q = None \/ position = None
               \/ timeline.previous.playing # T!Playing
      BY <1>2, <2>1, <2>5 DEF T!Judged
    <2>6. CASE /\ q # None /\ position # None
               /\ timeline.previous.playing = T!Playing
      <3>1. T!Judged(position) =
              IF position < q
                THEN [seek |-> q - position + e > SeekThreshold, stalled |-> 0]
              ELSE IF position - q < e
                THEN [seek |-> FALSE, stalled |-> o + e - (position - q)]
              ELSE [seek |-> position - q - e > o + SeekThreshold, stalled |-> 0]
        BY <1>2, <2>1, <2>6 DEF T!Judged
      <3>2. q \in Nat /\ position \in Nat
        BY <2>2, <2>6
      <3> HIDE DEF q, e, o
      <3>3. position >= q /\ position - q < e => o + e - (position - q) \in Nat
        BY <2>3, <2>4, <3>2
      <3> QED
        BY <3>1, <3>2, <3>3
    <2> QED
      BY <2>5, <2>6
  <1> QED
    BY <1>1, <1>2

LEMMA ReadingKeepsTypes ==
    ASSUME TimelineInv, NEW position \in Nat \cup {None}, T!Reads(position)
    PROVE  TimelineTypes'
  <1>1. TimelineTypes
    BY DEF TimelineInv
  <1>2. T!Opened.watched \in Nat /\ T!Interval \in Nat
    <2>1. T!Opened.watched \in Nat
      BY <1>1 DEF TimelineTypes, T!Opened, T!New
    <2>2. CASE T!Previous = None
      BY <1>1, <2>1, <2>2, NothingBefore
    <2>3. CASE T!Previous # None
      <3>1. T!Previous = timeline.previous /\ timeline.previous # None
        BY <1>1, <2>3, SomethingBefore
      <3>2. timeline.previous.at \in Nat /\ timeline.previous.at + ran <= clock
        BY <1>1, <3>1, PreviousType DEF TimelineInv, PausesHold
      <3>3. T!Interval \in {0, clock - timeline.previous.at}
        BY <3>1, <2>3 DEF T!Interval
      <3> QED
        BY <1>1, <2>1, <3>2, <3>3 DEF TimelineTypes
    <2> QED
      BY <2>2, <2>3, <2>1
  <1>3. timeline' = [watched |-> T!Opened.watched + T!Interval,
                     stalled |-> T!Judged(position).stalled,
                     open |-> player.media,
                     previous |-> [at |-> clock, playing |-> T!Playing, position |-> position]]
    BY DEF T!Reads, T!Advance
  <1>4. T!Judged(position).stalled \in Nat
    BY JudgedType
  <1>5. /\ player \in [media : Media, playing : BOOLEAN, position : Nat]
        /\ player.media # None /\ clock \in Nat /\ T!Playing \in BOOLEAN
    BY <1>1, TimelineAssumption DEF TimelineTypes, T!Playing
  <1>6. [at |-> clock, playing |-> T!Playing, position |-> position] \in Shots
    BY <1>5 DEF Shots
  <1>7. timeline' \in [watched : Nat, stalled : Nat, open : Media \cup {None},
                       previous : Shots \cup {None}]
    BY <1>2, <1>3, <1>4, <1>5, <1>6
  <1>8. timeline'.open # None
    BY <1>3, <1>5
  <1>9. /\ ran' \in Nat /\ base' \in Nat /\ seen' \in Nat /\ pauses' \in Nat
        /\ starts' \in Nat /\ broke' \in BOOLEAN /\ even' \in BOOLEAN
        /\ clock' = clock /\ player' = player
    BY <1>1 DEF T!Reads, TimelineTypes
  <1> QED
    BY <1>5, <1>7, <1>8, <1>9 DEF TimelineTypes

\* What is watched stays within its pauses and starts: an interval that counts is
\* what was played of it, or there was a pause or a start in it.
LEMMA ReadingKeepsPauses ==
    ASSUME TimelineInv, NEW position \in Nat \cup {None}, T!Reads(position)
    PROVE  PausesHold'
  <1>1. TimelineTypes /\ PausesHold
    BY DEF TimelineInv
  <1>2. /\ timeline'.watched = T!Opened.watched + T!Interval
        /\ timeline'.previous # None /\ timeline'.previous.at = clock
        /\ timeline'.previous.playing = player.playing
        /\ ran' = 0 /\ clock' = clock /\ player' = player
        /\ clock \in Nat
    BY <1>1, AfterReading DEF TimelineTypes
  <1>3. SUFFICES /\ timeline'.watched <= base' + seen' + Intervals(pauses')
                 /\ base' + seen' <= timeline'.watched + Intervals(starts')
    BY <1>2 DEF PausesHold
  <1>4. CASE timeline.open \notin {None, player.media}
    <2>1. T!Opened.watched = 0 /\ T!Interval = 0 /\ ~T!Goes
      <3>1. T!Opened = T!New
        BY <1>4 DEF T!Opened
      <3>2. T!Previous = None
        BY <3>1 DEF T!Previous, T!New
      <3> QED
        BY <1>1, <1>4, <3>1, <3>2, NothingBefore DEF T!New, T!Goes
    <2>2. base' = 0 /\ seen' = 0 /\ pauses' = 0 /\ starts' = 0
      BY <1>4, <2>1 DEF T!Reads
    <2> QED
      BY <1>2, <2>1, <2>2, OneMoreInterval
  <1>5. CASE timeline.open \in {None, player.media}
    <2>0. /\ T!Opened = timeline /\ base' = base
          /\ seen' = (IF T!Previous = None THEN seen ELSE seen + ran)
          /\ pauses' = (IF T!Goes THEN pauses ELSE 0)
          /\ starts' = (IF T!Goes THEN starts ELSE 0)
      BY <1>5 DEF T!Opened, T!Reads
    <2> DEFINE w == timeline.watched
               p == Intervals(pauses)
               s == Intervals(starts)
    <2>1. /\ w \in Nat /\ base \in Nat /\ seen \in Nat /\ ran \in Nat
          /\ p \in Nat /\ s \in Nat /\ ObservedLimit \in Nat
          /\ w <= base + seen + p /\ base + seen <= w + s
      BY <1>1, OneMoreInterval, TimelineAssumption DEF TimelineTypes, PausesHold
    <2>2. CASE ~T!Goes
      <3>1. timeline.previous = None
        <4>1. timeline.previous # None => timeline.open # None
          BY <1>1 DEF TimelineTypes
        <4> QED
          BY <1>5, <2>2, <4>1 DEF T!Goes
      <3>2. T!Previous = None
        BY <2>0, <3>1 DEF T!Previous
      <3>3. w = base /\ seen = 0
        BY <1>1, <3>1 DEF PausesHold
      <3>4. T!Interval = 0
        BY <1>1, <3>2, NothingBefore
      <3>5. pauses' = 0 /\ starts' = 0 /\ seen' = 0
        BY <2>0, <2>2, <3>2, <3>3
      <3> HIDE DEF p, s
      <3> QED
        BY <1>2, <2>0, <2>1, <3>3, <3>4, <3>5, OneMoreInterval
    <2>3. CASE T!Goes /\ T!Previous = None
      <3>1. T!Interval = 0
        BY <1>1, <2>3, NothingBefore
      <3> QED
        BY <1>2, <2>0, <2>1, <2>3, <3>1
    <2>4. CASE T!Goes /\ T!Previous # None
      <3> DEFINE a == timeline.previous.at
                 i == T!Interval
      <3>1. /\ T!Previous = timeline.previous /\ timeline.previous # None
            /\ clock - a <= ObservedLimit
        BY <1>1, <2>4, SomethingBefore
      <3>2. a \in Nat /\ timeline.previous.playing \in BOOLEAN
        BY <1>1, <3>1, PreviousType
      <3>3. /\ a + ran <= clock
            /\ timeline.previous.playing /\ (a + ran # clock \/ ~player.playing) =>
                 w + ObservedLimit <= base + seen + p
            /\ ~timeline.previous.playing /\ (ran # 0 \/ player.playing) =>
                 base + seen + ObservedLimit <= w + s
        BY <1>1, <3>1 DEF PausesHold
      <3>4. i = (IF timeline.previous.playing THEN clock - a ELSE 0)
        BY <2>4, <3>1 DEF T!Interval, T!CountsFrom
      <3>5. /\ timeline'.watched = w + i /\ base' = base /\ seen' = seen + ran
            /\ pauses' = pauses /\ starts' = starts
        BY <1>2, <2>0, <2>4
      <3> HIDE DEF a, i, p, s, w
      <3>6. w + i <= base + (seen + ran) + p
        BY <1>2, <2>1, <3>1, <3>2, <3>3, <3>4
      <3>7. base + (seen + ran) <= w + i + s
        BY <1>2, <2>1, <3>1, <3>2, <3>3, <3>4
      <3>8. Intervals(pauses') = p /\ Intervals(starts') = s
        BY <3>5 DEF p, s
      <3> QED
        BY <3>5, <3>6, <3>7, <3>8
    <2> QED
      BY <2>2, <2>3, <2>4
  <1> QED
    BY <1>4, <1>5


\* Where nothing broke, the position that is read is where the player is, or the
\* one it showed before and is behind by what it owes after it.
LEMMA ReadingUnbroken ==
    ASSUME TimelineInv, NEW position \in Nat \cup {None}, T!Reads(position), ~broke,
           T!Previous # None, timeline.previous.position # None, position # None
    PROVE  /\ ~T!Judged(position).seek
           /\ position <= player.position
           /\ player.position <= position + T!Judged(position).stalled
           /\ position = player.position => T!Judged(position).stalled = 0
           /\ ~player.playing => T!Judged(position).stalled = 0
  <1> DEFINE q == timeline.previous.position
             e == T!Expects(timeline.previous)
             o == timeline.stalled
             at == player.position
             j == T!Judged(position)
  <1>1. /\ T!Previous = timeline.previous /\ timeline.previous # None
        /\ T!Opened = timeline
    BY SomethingBefore DEF TimelineInv
  <1>2. /\ timeline.previous.at \in Nat /\ clock \in Nat /\ ran \in Nat
        /\ q \in Nat /\ o \in Nat /\ at \in Nat /\ player.playing \in BOOLEAN
        /\ position \in Nat /\ SeekThreshold \in Nat
    BY <1>1, PreviousType, TimelineAssumption DEF TimelineInv, TimelineTypes
  <1>3. /\ timeline.previous.playing = player.playing
        /\ IF player.playing THEN timeline.previous.at + ran = clock ELSE ran = 0
        /\ q + ran <= at /\ at <= q + o + ran
        /\ ~player.playing => o = 0
    BY <1>1 DEF TimelineInv, PlaceHolds
  <1>4. e = ran
    BY <1>2, <1>3 DEF T!Expects
  <1>5. position = at \/ position = q
    BY <1>1, <1>2 DEF T!Reads, T!Shown
  <1>6. player.playing => ran > 0
    <2>1. timeline.previous.at < clock
      BY <1>1 DEF T!Reads
    <2> QED
      BY <1>2, <1>3, <2>1
  <1>7. j = IF position < q
              THEN [seek |-> q - position + e > SeekThreshold, stalled |-> 0]
            ELSE IF position - q < e
              THEN [seek |-> FALSE, stalled |-> o + e - (position - q)]
            ELSE [seek |-> position - q - e > o + SeekThreshold, stalled |-> 0]
    BY <1>1, <1>2, <1>3, TimelineAssumption DEF T!Judged, T!Owed, T!Playing
  <1> HIDE DEF q, e, o, at, j
  <1>8. position >= q
    BY <1>2, <1>3, <1>5
  <1>9. CASE position - q < e
    <2>1. j = [seek |-> FALSE, stalled |-> o + e - (position - q)]
      BY <1>2, <1>7, <1>8, <1>9
    <2>2. position = q /\ player.playing /\ position # at
      BY <1>2, <1>3, <1>4, <1>5, <1>9
    <2>3. j.stalled = o + e - (position - q) /\ ~j.seek
      BY <2>1
    <2>4. position <= at /\ at <= position + j.stalled
      BY <1>2, <1>3, <1>4, <2>2, <2>3
    <2> QED
      BY <2>2, <2>3, <2>4 DEF at, j
  <1>10. CASE ~(position - q < e)
    <2>1. j = [seek |-> position - q - e > o + SeekThreshold, stalled |-> 0]
      BY <1>2, <1>7, <1>8, <1>10
    <2>2. j.stalled = 0 /\ (j.seek <=> position - q - e > o + SeekThreshold)
      BY <2>1
    <2>3. position = at
      BY <1>2, <1>3, <1>4, <1>5, <1>6, <1>10
    <2>4. ~j.seek
      BY <1>2, <1>3, <1>4, <2>2, <2>3
    <2>5. position <= at /\ at <= position + j.stalled
      BY <1>2, <2>2, <2>3
    <2> QED
      BY <2>2, <2>4, <2>5 DEF at, j
  <1> QED
    BY <1>9, <1>10

\* Nothing is owed after a reading of a player that does not play.
LEMMA PausedOwesNothing ==
    ASSUME TimelineInv, NEW position \in Nat \cup {None}, ~player.playing
    PROVE  T!Judged(position).stalled = 0
  <1>1. CASE T!Previous = None
    BY <1>1, NothingBefore DEF TimelineInv
  <1>2. CASE T!Previous # None
    <2> DEFINE q == timeline.previous.position
    <2>1. T!Previous = timeline.previous /\ timeline.previous # None
      BY <1>2, SomethingBefore DEF TimelineInv
    <2>2. q \in Nat \cup {None}
      BY <2>1, PreviousType DEF TimelineInv
    <2>3. CASE \/ q = None \/ position = None
               \/ timeline.previous.playing # T!Playing
      BY <1>2, <2>1, <2>3 DEF T!Judged
    <2>4. CASE /\ q # None /\ position # None
               /\ timeline.previous.playing = T!Playing
      <3>1. T!Expects(timeline.previous) = 0
        BY <2>4 DEF T!Expects, T!Playing
      <3>2. T!Judged(position) =
              IF position < q
                THEN [seek |-> q - position + 0 > SeekThreshold, stalled |-> 0]
              ELSE IF position - q < 0
                THEN [seek |-> FALSE, stalled |-> T!Owed + 0 - (position - q)]
              ELSE [seek |-> position - q - 0 > T!Owed + SeekThreshold, stalled |-> 0]
        BY <1>2, <2>1, <2>4, <3>1 DEF T!Judged
      <3>3. q \in Nat /\ position \in Nat
        BY <2>2, <2>4
      <3> HIDE DEF q
      <3>4. CASE position < q
        BY <3>2, <3>4
      <3>5. CASE ~(position < q)
        <4>1. ~(position - q < 0)
          BY <3>3, <3>5
        <4> QED
          BY <3>2, <3>5, <4>1
      <3> QED
        BY <3>4, <3>5
    <2> QED
      BY <2>3, <2>4
  <1> QED
    BY <1>1, <1>2

\* A position that is the place of the player leaves nothing owed, where nothing
\* broke.
LEMMA ReadingKeepsPlace ==
    ASSUME TimelineInv, NEW position \in Nat \cup {None}, T!Reads(position)
    PROVE  PlaceHolds'
  <1>1. /\ timeline'.stalled = T!Judged(position).stalled
        /\ timeline'.open = player.media
        /\ timeline'.previous # None
        /\ timeline'.previous.at = clock
        /\ timeline'.previous.playing = player.playing
        /\ timeline'.previous.position = position
        /\ ran' = 0 /\ clock' = clock /\ player' = player
    BY AfterReading DEF TimelineInv
  <1>2. /\ broke' = (broke /\ position # player.position)
        /\ even' = (position = player.position /\ ~broke)
        /\ position \in {player.position, None, T!Shown}
    BY DEF T!Reads
  <1>3. /\ player.position \in Nat /\ player.position # None /\ clock \in Nat
        /\ player.playing \in BOOLEAN /\ T!Judged(position).stalled \in Nat
    BY JudgedType, TimelineAssumption DEF TimelineInv, TimelineTypes
  <1>4. ~broke /\ position # None =>
           /\ position <= player.position
           /\ player.position <= position + timeline'.stalled
           /\ position = player.position => timeline'.stalled = 0
    <2> SUFFICES ASSUME ~broke, position # None
                 PROVE  /\ position <= player.position
                        /\ player.position <= position + timeline'.stalled
                        /\ position = player.position => timeline'.stalled = 0
      OBVIOUS
    <2>1. CASE T!Previous # None /\ timeline.previous.position # None
      BY <1>1, <2>1, ReadingUnbroken
    <2>2. CASE T!Previous = None \/ timeline.previous.position = None
      <3>1. T!Shown = None
        <4>1. T!Previous # None => T!Previous = timeline.previous
          BY SomethingBefore DEF TimelineInv
        <4> QED
          BY <2>2, <4>1 DEF T!Shown
      <3>2. position = player.position
        BY <1>2, <3>1
      <3>3. T!Judged(position).stalled = 0
        <4>1. T!Previous # None => T!Previous.position = None
          BY <2>2, SomethingBefore DEF TimelineInv
        <4>2. T!Judged(position) = [seek |-> FALSE, stalled |-> 0]
          BY <4>1 DEF T!Judged
        <4> QED
          BY <4>2
      <3> QED
        BY <1>1, <1>3, <3>2, <3>3
    <2> QED
      BY <2>1, <2>2
  <1>5. ~player.playing => timeline'.stalled = 0
    BY <1>1, PausedOwesNothing
  <1>6. even' => timeline'.stalled = 0 /\ position # None
    BY <1>2, <1>3, <1>4
  <1>7. ~broke' /\ position # None =>
           /\ position <= player.position
           /\ player.position <= position + timeline'.stalled
    <2>1. CASE ~broke
      BY <1>4, <2>1
    <2>2. CASE position = player.position
      <3>1. timeline'.stalled \in Nat
        BY <1>1, <1>3
      <3> QED
        BY <1>3, <2>2, <3>1
    <2> QED
      BY <1>2, <2>1, <2>2
  <1>8. /\ position # None => position \in Nat
        /\ timeline'.stalled \in Nat
    BY <1>1, <1>3
  <1> QED
    BY <1>1, <1>3, <1>5, <1>6, <1>7, <1>8 DEF PlaceHolds

\* The player may pass from what the last reading saw of it by time alone.
LEMMA PassingKeeps ==
    ASSUME TimelineInv, T!Passes
    PROVE  TimelineInv'
  <1> DEFINE r == IF player.playing THEN ran + 1 ELSE ran
             at == IF player.playing THEN player.position + 1 ELSE player.position
  <1>1. /\ clock' = clock + 1 /\ ran' = r
        /\ player' = [player EXCEPT !.position = at]
        /\ UNCHANGED <<timeline, broke, even, base, seen, pauses, starts>>
    BY DEF T!Passes, T!Playing
  <1>2. /\ player \in [media : Media, playing : BOOLEAN, position : Nat]
        /\ player.position \in Nat /\ player.playing \in BOOLEAN
        /\ clock \in Nat /\ ran \in Nat
    BY DEF TimelineInv, TimelineTypes
  <1>3. at \in Nat /\ r \in Nat
    BY <1>2
  <1>4. /\ player'.media = player.media /\ player'.playing = player.playing
        /\ player'.position = at
        /\ player' \in [media : Media, playing : BOOLEAN, position : Nat]
    <2> HIDE DEF at
    <2> QED
      BY <1>1, <1>2, <1>3
  <1>5. TimelineTypes'
    <2> HIDE DEF at, r
    <2> QED
      BY <1>1, <1>2, <1>3, <1>4 DEF TimelineInv, TimelineTypes
  <1>6. timeline.previous # None =>
           /\ timeline.previous.at \in Nat /\ timeline.previous.playing \in BOOLEAN
           /\ timeline.previous.position \in Nat \cup {None}
    BY PreviousType DEF TimelineInv
  <1>7. PausesHold'
    <2>1. /\ timeline.watched <= base + seen + Intervals(pauses)
          /\ base + seen <= timeline.watched + Intervals(starts)
          /\ timeline.previous = None => timeline.watched = base /\ seen = 0
      BY DEF TimelineInv, PausesHold
    <2>2. ASSUME timeline.previous # None
          PROVE  LET previous == timeline.previous IN
                 /\ previous.at + ran' <= clock'
                 /\ previous.playing /\ (previous.at + ran' # clock' \/ ~player'.playing) =>
                       timeline.watched + ObservedLimit <= base + seen + Intervals(pauses)
                 /\ ~previous.playing /\ (ran' # 0 \/ player'.playing) =>
                       base + seen + ObservedLimit <= timeline.watched + Intervals(starts)
      BY <1>1, <1>2, <1>4, <1>6, <2>2 DEF TimelineInv, PausesHold
    <2> QED
      BY <1>1, <2>1, <2>2 DEF PausesHold
  <1>8. PlaceHolds'
    <2>1. ASSUME timeline.previous # None, ~broke
          PROVE  LET previous == timeline.previous IN
                 /\ timeline.open = player'.media
                 /\ previous.playing = player'.playing
                 /\ IF player'.playing THEN previous.at + ran' = clock' ELSE ran' = 0
                 /\ previous.position # None =>
                       /\ previous.position + ran' <= player'.position
                       /\ player'.position <= previous.position + timeline.stalled + ran'
      <3>1. timeline.stalled \in Nat
        BY DEF TimelineInv, TimelineTypes
      <3> QED
        BY <1>1, <1>2, <1>4, <1>6, <2>1, <3>1 DEF TimelineInv, PlaceHolds
    <2> QED
      BY <1>1, <2>1 DEF TimelineInv, PlaceHolds
  <1> QED
    BY <1>5, <1>7, <1>8 DEF TimelineInv

\* Whatever is done to the player breaks the place; only a pause and a start
\* matter to what is watched, and each leaves another interval for it.
LEMMA TurningKeeps ==
    ASSUME TimelineInv,
           player' \in [media : Media, playing : BOOLEAN, position : Nat],
           UNCHANGED <<timeline, clock, ran, even, base, seen>>, broke' = TRUE,
           \/ player'.playing = player.playing /\ UNCHANGED <<pauses, starts>>
           \/ player.playing /\ pauses' = pauses + 1 /\ UNCHANGED starts
           \/ ~player.playing /\ starts' = starts + 1 /\ UNCHANGED pauses
    PROVE  TimelineInv'
  <1>1. pauses \in Nat /\ starts \in Nat
    BY DEF TimelineInv, TimelineTypes
  <1>2. TimelineTypes'
    BY <1>1 DEF TimelineInv, TimelineTypes
  <1>3. PlaceHolds'
    BY DEF TimelineInv, PlaceHolds
  <1>4. PausesHold'
    <2> DEFINE w == timeline.watched
               p == Intervals(pauses)
               s == Intervals(starts)
               p2 == Intervals(pauses')
               s2 == Intervals(starts')
               a == timeline.previous.at
    <2>1. /\ w \in Nat /\ base \in Nat /\ seen \in Nat /\ ran \in Nat /\ clock \in Nat
          /\ p \in Nat /\ s \in Nat /\ ObservedLimit \in Nat
          /\ w <= base + seen + p /\ base + seen <= w + s
          /\ timeline.previous = None => w = base /\ seen = 0
          /\ player.playing \in BOOLEAN /\ player'.playing \in BOOLEAN
      BY <1>1, OneMoreInterval, TimelineAssumption DEF TimelineInv, TimelineTypes, PausesHold
    <2>2. timeline.previous # None =>
             /\ a \in Nat /\ timeline.previous.playing \in BOOLEAN
             /\ a + ran <= clock
             /\ timeline.previous.playing /\ (a + ran # clock \/ ~player.playing) =>
                  w + ObservedLimit <= base + seen + p
             /\ ~timeline.previous.playing /\ (ran # 0 \/ player.playing) =>
                  base + seen + ObservedLimit <= w + s
      BY PreviousType DEF TimelineInv, PausesHold
    <2>3. \/ player'.playing = player.playing /\ p2 = p /\ s2 = s
          \/ player.playing /\ p2 = p + ObservedLimit /\ s2 = s
          \/ ~player.playing /\ s2 = s + ObservedLimit /\ p2 = p
      BY <1>1, OneMoreInterval
    <2> HIDE DEF w, p, s, p2, s2, a
    <2>4. w <= base + seen + p2 /\ base + seen <= w + s2
      BY <2>1, <2>3
    <2>5. timeline.previous # None =>
             /\ timeline.previous.playing /\ (a + ran # clock \/ ~player'.playing) =>
                  w + ObservedLimit <= base + seen + p2
             /\ ~timeline.previous.playing /\ (ran # 0 \/ player'.playing) =>
                  base + seen + ObservedLimit <= w + s2
      BY <2>1, <2>2, <2>3
    <2> QED
      BY <2>1, <2>2, <2>4, <2>5 DEF PausesHold, w, p2, s2, a
  <1> QED
    BY <1>2, <1>3, <1>4 DEF TimelineInv

LEMMA TimelineKept ==
    ASSUME TimelineInv, [T!TimelineNext]_timelineAll
    PROVE  TimelineInv'
  <1>0. player \in [media : Media, playing : BOOLEAN, position : Nat]
    BY DEF TimelineInv, TimelineTypes
  <1>1. CASE T!Passes
    BY <1>1, PassingKeeps
  <1>2. CASE T!Pauses
    <2>1. player' \in [media : Media, playing : BOOLEAN, position : Nat]
      BY <1>0, <1>2 DEF T!Pauses
    <2> QED
      BY <1>2, <2>1, TurningKeeps DEF T!Pauses, T!Playing
  <1>3. CASE T!Starts
    <2>1. player' \in [media : Media, playing : BOOLEAN, position : Nat]
      BY <1>0, <1>3 DEF T!Starts
    <2> QED
      BY <1>3, <2>1, TurningKeeps DEF T!Starts, T!Playing
  <1>4. ASSUME NEW to \in Targets, T!Jumps(to)
        PROVE  TimelineInv'
    <2>1. /\ player' \in [media : Media, playing : BOOLEAN, position : Nat]
          /\ player'.playing = player.playing
      BY <1>0, <1>4, TimelineAssumption DEF T!Jumps
    <2> QED
      BY <1>4, <2>1, TurningKeeps DEF T!Jumps
  <1>5. ASSUME NEW media \in Media \ {player.media}, T!Opens(media)
        PROVE  TimelineInv'
    <2>1. /\ player' \in [media : Media, playing : BOOLEAN, position : Nat]
          /\ player'.playing = player.playing
      BY <1>0, <1>5 DEF T!Opens
    <2> QED
      BY <1>5, <2>1, TurningKeeps DEF T!Opens
  <1>6. ASSUME NEW position \in {player.position, None, T!Shown}, T!Reads(position)
        PROVE  TimelineInv'
    <2>1. position \in Nat \cup {None}
      BY <1>0, ReadingIsOfPlaces DEF TimelineInv
    <2> QED
      BY <1>6, <2>1, ReadingKeepsTypes, ReadingKeepsPauses, ReadingKeepsPlace DEF TimelineInv
  <1>7. CASE UNCHANGED timelineAll
    BY <1>7 DEF timelineAll, TimelineInv, TimelineTypes, PausesHold, PlaceHolds
  <1> QED
    BY <1>1, <1>2, <1>3, <1>4, <1>5, <1>6, <1>7 DEF T!TimelineNext

LEMMA TimelineStarts ==
    ASSUME MCInit
    PROVE  TimelineInv
  <1>1. T!TimelineInit
    BY DEF MCInit
  <1>2. timeline \in [watched : Nat, stalled : Nat, open : Media \cup {None},
                      previous : Shots \cup {None}]
        /\ timeline.stalled = 0 /\ timeline.previous = None
    <2>1. PICK total \in Nat, m \in Media \cup {None} :
            timeline = [watched |-> total, previous |-> None, stalled |-> 0, open |-> m]
      <3>1. CASE timeline = T!New
        BY <3>1 DEF T!New
      <3>2. CASE \E total \in Resumed, m \in Media :
                   timeline = [T!New EXCEPT !.watched = total, !.open = m]
        <4>1. PICK total \in Resumed, m \in Media :
                timeline = [T!New EXCEPT !.watched = total, !.open = m]
          BY <3>2
        <4>2. timeline = [watched |-> total, previous |-> None, stalled |-> 0, open |-> m]
          BY <4>1 DEF T!New
        <4> QED
          <5>1. total \in Nat
            BY TimelineAssumption
          <5> QED
            BY <4>2, <5>1
      <3> QED
        BY <1>1, <3>1, <3>2 DEF T!TimelineInit
    <2> QED
      BY <2>1
  <1>3. player \in [media : Media, playing : BOOLEAN, position : Nat]
    <2>1. player \in T!AnyPlayer
      BY <1>1 DEF T!TimelineInit
    <2> QED
      BY <2>1 DEF T!AnyPlayer
  <1>4. /\ clock = 0 /\ ran = 0 /\ broke = FALSE /\ even = FALSE
        /\ base = timeline.watched /\ seen = 0 /\ pauses = 0 /\ starts = 0
    BY <1>1 DEF T!TimelineInit
  <1>5. TimelineTypes
    BY <1>2, <1>3, <1>4 DEF TimelineTypes
  <1>6. PausesHold
    <2>1. timeline.watched \in Nat /\ timeline.previous = None
      BY <1>2
    <2> QED
      BY <1>4, <2>1, OneMoreInterval DEF PausesHold
  <1>7. PlaceHolds
    BY <1>2, <1>4 DEF PlaceHolds
  <1> QED
    BY <1>5, <1>6, <1>7 DEF TimelineInv

LEMMA TimelineAlways == MCSpec => []TimelineInv
  <1>1. TimelineInv /\ [MCNext]_MCVars => TimelineInv'
    <2>1. [MCNext]_MCVars => [T!TimelineNext]_timelineAll
      BY DEF MCNext, MCVars, VoiceStep, StreamStep, LengthsStep, KodiStep, TimelineStep
    <2> QED
      BY <2>1, TimelineKept
  <1> QED
    BY <1>1, TimelineStarts, PTL DEF MCSpec

\* What a reading says of a seek, by the place the last one left.
LEMMA ReadingTells ==
    ASSUME TimelineInv, NEW position \in {player.position, None, T!Shown}, T!Reads(position)
    PROVE  /\ seeked' => broke
           /\ (/\ even /\ position = player.position
               /\ T!Previous # None /\ T!Previous.playing = T!Playing
               /\ ran = T!Expects(T!Previous)
               /\ T!Far(position)) => seeked'
  <1>0. position \in Nat \cup {None}
    BY ReadingIsOfPlaces DEF TimelineInv
  <1>1. seeked' = T!Judged(position).seek
    BY <1>0, AfterReading DEF TimelineInv
  <1>2. ASSUME ~broke
        PROVE  ~T!Judged(position).seek
    <2>1. CASE /\ T!Previous # None /\ timeline.previous.position # None
               /\ position # None
      BY <1>0, <1>2, <2>1, ReadingUnbroken
    <2>2. CASE \/ T!Previous = None \/ timeline.previous.position = None
               \/ position = None
      <3>1. T!Previous # None => T!Previous = timeline.previous
        BY SomethingBefore DEF TimelineInv
      <3>2. T!Judged(position) = [seek |-> FALSE, stalled |-> 0]
        BY <2>2, <3>1 DEF T!Judged
      <3> QED
        BY <3>2
    <2> QED
      BY <2>1, <2>2
  <1>3. ASSUME even, position = player.position,
               T!Previous # None, T!Previous.playing = T!Playing, T!Far(position)
        PROVE  T!Judged(position).seek
    <2> DEFINE q == timeline.previous.position
               e == T!Expects(timeline.previous)
               j == T!Judged(position)
    <2>1. /\ T!Previous = timeline.previous /\ timeline.previous # None
          /\ T!Opened = timeline
      BY <1>3, SomethingBefore DEF TimelineInv
    <2>2. /\ timeline.previous.at \in Nat /\ clock \in Nat /\ ran \in Nat
          /\ timeline.previous.playing \in BOOLEAN
          /\ position \in Nat /\ SeekThreshold \in Nat
      BY <1>3, <2>1, PreviousType, TimelineAssumption DEF TimelineInv, TimelineTypes
    <2>3. q \in Nat /\ timeline.stalled = 0
      BY <1>3, <2>1, PreviousType DEF TimelineInv, PlaceHolds
    <2>4. e \in Nat
      <3>1. timeline.previous.at + ran <= clock
        BY <2>1 DEF TimelineInv, PausesHold
      <3> QED
        BY <2>2, <3>1 DEF T!Expects
    <2>5. j = IF position < q
                THEN [seek |-> q - position + e > SeekThreshold, stalled |-> 0]
              ELSE IF position - q < e
                THEN [seek |-> FALSE, stalled |-> 0 + e - (position - q)]
              ELSE [seek |-> position - q - e > 0 + SeekThreshold, stalled |-> 0]
      BY <1>3, <2>1, <2>2, <2>3, TimelineAssumption DEF T!Judged, T!Owed
    <2>6. \/ position > q + e + SeekThreshold
          \/ position < q /\ position + SeekThreshold < q + e
      BY <1>3, <2>1 DEF T!Far
    <2> HIDE DEF q, e, j
    <2>7. CASE position < q
      <3>1. j = [seek |-> q - position + e > SeekThreshold, stalled |-> 0]
        BY <2>5, <2>7
      <3>2. q - position + e > SeekThreshold
        BY <2>2, <2>3, <2>4, <2>6, <2>7
      <3> QED
        <4>1. j.seek = (q - position + e > SeekThreshold)
          BY <3>1
        <4>2. j.seek
          BY <3>2, <4>1
        <4> QED
          BY <4>2 DEF j
    <2>8. CASE ~(position < q)
      <3>1. ~(position - q < e) /\ position - q - e > 0 + SeekThreshold
        BY <2>2, <2>3, <2>4, <2>6, <2>8
      <3>2. j = [seek |-> position - q - e > 0 + SeekThreshold, stalled |-> 0]
        BY <2>5, <2>8, <3>1
      <3> QED
        <4>1. j.seek = (position - q - e > 0 + SeekThreshold)
          BY <3>2
        <4>2. j.seek
          BY <3>1, <4>1
        <4> QED
          BY <4>2 DEF j
    <2> QED
      BY <2>7, <2>8
  <1> QED
    BY <1>1, <1>2, <1>3

\* What a pause costs stays within one interval, however long it lasts, and what
\* was watched is otherwise what was played, on top of a total of the same media;
\* a position that lags and catches up is no seek, and one that jumped is
\* (PlayIsJudged), for any limits and any player.
THEOREM PlayIsWellJudged == MCSpec => PlayIsJudged
  <1>1. TimelineInv => T!PauseCosts
    BY DEF TimelineInv, PausesHold, Intervals, T!PauseCosts
  <1>2. TimelineInv /\ [MCNext]_MCVars =>
          [\A position \in {player.position, None, T!Shown} : T!Reads(position) =>
             /\ seeked' => broke
             /\ (/\ even /\ position = player.position
                 /\ T!Previous # None /\ T!Previous.playing = T!Playing /\ ran = T!Expects(T!Previous)
                 /\ T!Far(position)) => seeked']_(T!timelineVars)
    BY ReadingTells
  <1>3. MCSpec => []T!PauseCosts
    BY <1>1, TimelineAlways, PTL
  <1>4. MCSpec => T!SeeksAreJumps
    BY <1>2, TimelineAlways, PTL DEF MCSpec, T!SeeksAreJumps
  <1> QED
    BY <1>3, <1>4 DEF PlayIsJudged
=============================================================================
