---------------------------- MODULE DeliveryProofs ----------------------------
(***************************************************************************)
(* What holds of the places in the log for any lists, rules and pins, and  *)
(* whatever the service and the sender lose: a write is kept of an         *)
(* operation that is open, and the log is an Outbox.  And of what its      *)
(* operations rest on: which show a file is settled to be of, and where an *)
(* episode of it goes.                                                     *)
(***************************************************************************)
EXTENDS MCDelivery, FiniteSetTheorems, TLAPS

\* The tables of two columns are functions.
Table(t) == t = [b \in Backends |-> [i \in Numbers |-> t[b][i]]]

\* The cursor is in the log, what is set aside is behind it, and what a sender
\* has in its hands is decided.
InLog ==
    /\ log \in Seq(Operations) /\ Len(log) \in 0 .. MaxLog
    /\ cursor \in [Backends -> Nat]
    /\ Table(decided)
    /\ aside \in [Backends -> SUBSET Numbers]
    /\ sending \in [Backends -> [op : 0 .. MaxLog, answered : BOOLEAN]]
    /\ \A b \in Backends :
          /\ cursor[b] <= Len(log)
          /\ \A i \in aside[b] : i <= cursor[b]
          /\ sending[b].op # 0 => decided[b][sending[b].op] # NoWrite
          /\ sending[b].answered => sending[b].op # 0

PlacesHold == InLog /\ DecidedIsOpen

-----------------------------------------------------------------------------
\* What one entry of a table is set to.
Put(t, b, i, w) == [t EXCEPT ![b][i] = w]

LEMMA OneEntry ==
    ASSUME NEW t, Table(t), NEW b \in Backends, NEW i \in Numbers, NEW w
    PROVE  /\ Table(Put(t, b, i, w))
           /\ \A c \in Backends : \A j \in Numbers :
                 Put(t, b, i, w)[c][j] = IF c = b /\ j = i THEN w ELSE t[c][j]
<1>1. PICK u : u = Put(t, b, i, w)
  OBVIOUS
<1>2. DOMAIN t = Backends /\ \A c \in Backends : DOMAIN t[c] = Numbers
  BY DEF Table
<1>3. \A c \in Backends : \A j \in Numbers :
         u[c][j] = IF c = b /\ j = i THEN w ELSE t[c][j]
  BY <1>1, <1>2 DEF Put
<1>4. u = [c \in Backends |-> IF c = b THEN [t[b] EXCEPT ![i] = w] ELSE t[c]]
  BY <1>1, <1>2 DEF Put
<1>5. \A c \in Backends : u[c] = [j \in Numbers |-> u[c][j]]
  <2>1. SUFFICES ASSUME NEW c \in Backends PROVE u[c] = [j \in Numbers |-> u[c][j]]
    OBVIOUS
  <2>2. CASE c = b
    <3>1. u[c] = [t[b] EXCEPT ![i] = w]
      BY <1>4, <2>2
    <3>2. t[b] = [j \in Numbers |-> t[b][j]]
      BY DEF Table
    <3>3. QED
      BY <3>1, <3>2
  <2>3. CASE c # b
    BY <1>4, <2>3 DEF Table
  <2>4. QED
    BY <2>2, <2>3
<1>6. Table(u)
  BY <1>4, <1>5 DEF Table
<1>7. QED
  BY <1>1, <1>3, <1>6

\* Tables with the same entries are the same.
LEMMA SameTable ==
    ASSUME NEW t, Table(t), NEW u, Table(u),
           \A c \in Backends : \A j \in Numbers : u[c][j] = t[c][j]
    PROVE  u = t
<1>1. [c \in Backends |-> [j \in Numbers |-> u[c][j]]]
         = [c \in Backends |-> [j \in Numbers |-> t[c][j]]]
  OBVIOUS
<1>2. QED
  BY <1>1 DEF Table

-----------------------------------------------------------------------------
(***************************************************************************)
(* The invariant.                                                          *)
(***************************************************************************)

LEMMA PlacesHoldAtFirst == Init => PlacesHold
BY PlacesAssumption DEF Init, PlacesInit, PlacesHold, InLog, Table, DecidedIsOpen, AtRest, Numbers

\* What a kept write says of the operation it is of.
LEMMA KeptIsOpen ==
    ASSUME PlacesHold, NEW b \in Backends, NEW i \in Numbers, decided[b][i] # NoWrite
    PROVE  i = cursor[b] + 1 \/ i \in aside[b]
BY DEF PlacesHold, DecidedIsOpen

\* One operation is finished: what was kept of it is forgotten, and the cursor
\* goes no further than to it.
LEMMA Finished ==
    ASSUME PlacesHold, NEW b \in Backends, NEW i \in 1 .. Len(log),
           i = cursor[b] + 1 \/ i \in aside[b],
           \A j \in Numbers : decided[b][j] # NoWrite => j = i,
           log' = log, decided' = ForgetDecided(b, i), cursor' = Advance(b, i),
           NEW S \in {aside[b] \ {i}, aside[b] \cup {i}}, aside' = [aside EXCEPT ![b] = S],
           sending' = [sending EXCEPT ![b] = AtRest]
    PROVE  PlacesHold'
<1>1. i \in Numbers /\ MaxLog \in Nat /\ Len(log) \in 0 .. MaxLog
  BY PlacesAssumption DEF PlacesHold, InLog, Numbers
<1>0. decided' = Put(decided, b, i, NoWrite)
  BY DEF ForgetDecided, Put
<1>2. /\ Table(decided')
      /\ \A c \in Backends : \A j \in Numbers :
            decided'[c][j] = IF c = b /\ j = i THEN NoWrite ELSE decided[c][j]
  BY <1>0, <1>1, OneEntry DEF PlacesHold, InLog
<1>3. /\ cursor' \in [Backends -> Nat]
      /\ \A c \in Backends : cursor'[c] = IF c = b THEN Larger(cursor[b], i) ELSE cursor[c]
      /\ cursor'[b] = IF i = cursor[b] + 1 THEN i ELSE cursor[b]
  BY <1>1 DEF Advance, Larger, PlacesHold, InLog
<1>4. /\ aside' \in [Backends -> SUBSET Numbers]
      /\ \A c \in Backends : aside'[c] = IF c = b THEN S ELSE aside[c]
  BY <1>1 DEF PlacesHold, InLog
<1>5. /\ sending' \in [Backends -> [op : 0 .. MaxLog, answered : BOOLEAN]]
      /\ \A c \in Backends : sending'[c] = IF c = b THEN AtRest ELSE sending[c]
  BY <1>1 DEF PlacesHold, InLog, AtRest
<1>6. \A j \in Numbers : decided'[b][j] = NoWrite
  BY <1>2
<1>7. ASSUME NEW c \in Backends, c # b
       PROVE  /\ cursor'[c] = cursor[c] /\ aside'[c] = aside[c] /\ sending'[c] = sending[c]
              /\ \A j \in Numbers : decided'[c][j] = decided[c][j]
  BY <1>2, <1>3, <1>4, <1>5, <1>7
<1>8. InLog'
  <2>1. ASSUME NEW c \in Backends
        PROVE  /\ cursor'[c] <= Len(log')
               /\ \A j \in aside'[c] : j <= cursor'[c]
               /\ sending'[c].op # 0 => decided'[c][sending'[c].op] # NoWrite
               /\ sending'[c].answered => sending'[c].op # 0
    <3>1. CASE c = b
      <4>1. cursor'[c] <= Len(log') /\ \A j \in aside'[c] : j <= cursor'[c]
        <5>1. cursor[b] \in Nat /\ cursor[b] <= Len(log) /\ \A j \in aside[b] : j \in Nat /\ j <= cursor[b]
          BY DEF PlacesHold, InLog, Numbers
        <5>2. cursor'[b] \in {cursor[b], i} /\ cursor'[b] >= cursor[b] /\ cursor'[b] >= i
          BY <1>1, <1>3, <5>1 DEF Larger
        <5>3. \A j \in aside'[b] : j = i \/ j \in aside[b]
          BY <1>4
        <5>4. QED
          BY <1>1, <3>1, <5>1, <5>2, <5>3
      <4>2. QED
        BY <4>1, <1>5, <3>1 DEF AtRest
    <3>2. CASE c # b
      <4>1. sending[c].op \in Numbers \/ sending[c].op = 0
        BY <1>1 DEF PlacesHold, InLog, Numbers
      <4>2. /\ cursor[c] <= Len(log)
            /\ \A j \in aside[c] : j <= cursor[c]
            /\ sending[c].op # 0 => decided[c][sending[c].op] # NoWrite
            /\ sending[c].answered => sending[c].op # 0
        BY DEF PlacesHold, InLog
      <4>3. QED
        BY <4>1, <4>2, <1>7, <3>2
    <3>3. QED
      BY <3>1, <3>2
  <2>2. log' \in Seq(Operations) /\ Len(log') \in 0 .. MaxLog
    BY DEF PlacesHold, InLog
  <2>3. QED
    BY <2>1, <2>2, <1>2, <1>3, <1>4, <1>5 DEF InLog, Table, Numbers
<1>9. DecidedIsOpen'
  <2>1. ASSUME NEW c \in Backends, NEW j \in Numbers, decided'[c][j] # NoWrite
        PROVE  /\ j = cursor'[c] + 1 \/ j \in aside'[c]
               /\ \A k \in Numbers : decided'[c][k] # NoWrite => k = j
               /\ sending'[c].op \in {0, j}
    <3>1. c # b
      BY <2>1, <1>6
    <3>2. decided[c][j] # NoWrite
      BY <2>1, <3>1, <1>7
    <3>3. /\ j = cursor[c] + 1 \/ j \in aside[c]
          /\ \A k \in Numbers : decided[c][k] # NoWrite => k = j
          /\ sending[c].op \in {0, j}
      BY <3>2 DEF PlacesHold, DecidedIsOpen
    <3>4. QED
      BY <3>1, <3>3, <1>7
  <2>2. QED
    BY <2>1 DEF DecidedIsOpen, Numbers
<1>10. QED
  BY <1>8, <1>9 DEF PlacesHold

\* Where a sender puts down what it has in its hands, and no place changes.
LEMMA PutDown ==
    ASSUME PlacesHold, UNCHANGED placeVars,
           NEW B \in SUBSET Backends,
           sending' = [b \in Backends |-> IF b \in B THEN AtRest ELSE sending[b]]
    PROVE  PlacesHold'
<1>1. MaxLog \in Nat
  BY PlacesAssumption
<1>2. \A b \in Backends : sending'[b] = AtRest \/ sending'[b] = sending[b]
  OBVIOUS
<1>3. sending' \in [Backends -> [op : 0 .. MaxLog, answered : BOOLEAN]]
  BY <1>1 DEF PlacesHold, InLog, AtRest
<1>4. InLog'
  BY <1>2, <1>3 DEF PlacesHold, InLog, placeVars, Table, Numbers, AtRest
<1>5. DecidedIsOpen'
  BY <1>2 DEF PlacesHold, DecidedIsOpen, placeVars, Numbers, AtRest
<1>6. QED
  BY <1>4, <1>5 DEF PlacesHold

\* The operation a sender finishes is one whose write was kept, which is open.
LEMMA FinishedIsOpen ==
    ASSUME PlacesHold, NEW b \in Backends, sending[b].op # 0
    PROVE  LET i == sending[b].op IN
           /\ i \in Numbers
           /\ i = cursor[b] + 1 \/ i \in aside[b]
           /\ \A j \in Numbers : decided[b][j] # NoWrite => j = i
<1>1. sending[b].op \in Numbers
  BY PlacesAssumption DEF PlacesHold, InLog, Numbers
<1>2. decided[b][sending[b].op] # NoWrite
  BY DEF PlacesHold, InLog
<1>3. QED
  BY <1>1, <1>2 DEF PlacesHold, DecidedIsOpen

LEMMA RegistersKeeps ==
    ASSUME PlacesHold, NEW o \in Operations, Registers(o)
    PROVE  PlacesHold'
<1>1. /\ MaxLog \in Nat /\ Len(log) \in 0 .. MaxLog /\ Len(log) < MaxLog
      /\ UNCHANGED <<cursor, decided, aside, sending>>
  BY PlacesAssumption DEF PlacesHold, InLog, Registers, Enqueue
<1>2. QED
  BY <1>1 DEF PlacesHold, InLog, DecidedIsOpen, Table, Numbers, Registers, Enqueue

LEMMA ConfirmKeeps ==
    ASSUME PlacesHold, NEW b \in Backends, Confirm(b)
    PROVE  PlacesHold'
<1>1. PICK i : i = sending[b].op
  OBVIOUS
<1>2. i # 0 /\ i \in 1 .. Len(log)
  BY <1>1 DEF PlacesHold, InLog, Confirm, Delivered
<1>3. /\ i = cursor[b] + 1 \/ i \in aside[b]
      /\ \A j \in Numbers : decided[b][j] # NoWrite => j = i
  BY <1>1, <1>2, FinishedIsOpen
<1>4. /\ log' = log /\ decided' = ForgetDecided(b, i) /\ cursor' = Advance(b, i)
      /\ aside' = [aside EXCEPT ![b] = aside[b] \ {i}]
      /\ sending' = [sending EXCEPT ![b] = AtRest]
  BY <1>1 DEF Confirm, Delivered
<1>5. QED
  BY <1>2, <1>3, <1>4, Finished

LEMMA HasNoWorkKeeps ==
    ASSUME PlacesHold, NEW b \in Backends, HasNoWork(b)
    PROVE  PlacesHold'
<1>1. PICK i : i = sending[b].op
  OBVIOUS
<1>2. i # 0 /\ i \in 1 .. Len(log)
  BY <1>1 DEF HasNoWork, SetAside
<1>3. /\ i = cursor[b] + 1 \/ i \in aside[b]
      /\ \A j \in Numbers : decided[b][j] # NoWrite => j = i
  BY <1>1, <1>2, FinishedIsOpen
<1>4. /\ log' = log /\ decided' = ForgetDecided(b, i) /\ cursor' = Advance(b, i)
      /\ aside' = [aside EXCEPT ![b] = aside[b] \cup {i}]
      /\ sending' = [sending EXCEPT ![b] = AtRest]
  BY <1>1 DEF HasNoWork, SetAside
<1>5. QED
  BY <1>2, <1>3, <1>4, Finished

\* What may be taken up is open, and no other is decided.
LEMMA TakenIsOpen ==
    ASSUME PlacesHold, NEW b \in Backends, NEW i \in Numbers, MayTake(b, i)
    PROVE  /\ i = cursor[b] + 1 \/ i \in aside[b]
           /\ \A j \in Numbers : decided[b][j] # NoWrite => j = i
<1>1. CASE decided[b][i] # NoWrite
  BY <1>1 DEF PlacesHold, DecidedIsOpen
<1>2. CASE decided[b][i] = NoWrite
  BY <1>2 DEF MayTake, IsNext
<1>3. QED
  BY <1>1, <1>2

LEMMA TakeUpKeeps ==
    ASSUME PlacesHold, NEW b \in Backends, NEW i \in Numbers, TakeUp(b, i)
    PROVE  PlacesHold'
<1>1. /\ MaxLog \in Nat /\ i \in 1 .. Len(log) /\ sending[b] = AtRest
      /\ i = cursor[b] + 1 \/ i \in aside[b]
      /\ \A j \in Numbers : decided[b][j] # NoWrite => j = i
  BY TakenIsOpen, PlacesAssumption DEF TakeUp
<1>2. CASE SetAside(b, i) /\ UNCHANGED sending
  <2>1. /\ log' = log /\ decided' = ForgetDecided(b, i) /\ cursor' = Advance(b, i)
        /\ aside' = [aside EXCEPT ![b] = aside[b] \cup {i}]
    BY <1>2 DEF SetAside
  <2>2. sending' = [sending EXCEPT ![b] = AtRest]
    BY <1>1, <1>2 DEF PlacesHold, InLog
  <2>3. QED
    BY <1>1, <2>1, <2>2, Finished
<1>3. ASSUME UNCHANGED <<log, cursor, aside>>, Table(decided'), decided'[b][i] # NoWrite,
             \A c \in Backends : \A j \in Numbers :
                 c # b \/ j # i => decided'[c][j] = decided[c][j],
             sending' = [sending EXCEPT ![b].op = i]
      PROVE  PlacesHold'
  <2>0. sending \in [Backends -> [op : 0 .. MaxLog, answered : BOOLEAN]] /\ i \in 0 .. MaxLog
    BY <1>1 DEF PlacesHold, InLog, Numbers
  <2>1. /\ sending' \in [Backends -> [op : 0 .. MaxLog, answered : BOOLEAN]]
        /\ sending'[b].op = i /\ ~sending'[b].answered
        /\ \A c \in Backends : c # b => sending'[c] = sending[c]
    <3>1. /\ sending'[b] = [sending[b] EXCEPT !.op = i]
          /\ \A c \in Backends : c # b => sending'[c] = sending[c]
      BY <1>3, <2>0
    <3>2. sending[b] \in [op : 0 .. MaxLog, answered : BOOLEAN] /\ ~sending[b].answered
      BY <1>1, <2>0 DEF AtRest
    <3>3. /\ sending'[b] \in [op : 0 .. MaxLog, answered : BOOLEAN]
          /\ sending'[b].op = i /\ ~sending'[b].answered
      BY <2>0, <3>1, <3>2
    <3>4. QED
      BY <1>3, <2>0, <3>1, <3>3
  <2>2. ASSUME NEW c \in Backends
        PROVE  /\ sending'[c].op # 0 => decided'[c][sending'[c].op] # NoWrite
               /\ sending'[c].answered => sending'[c].op # 0
    <3>1. CASE c = b
      BY <1>3, <2>1, <3>1
    <3>2. CASE c # b
      <4>1. sending[c].op \in Numbers \/ sending[c].op = 0
        BY <1>1 DEF PlacesHold, InLog, Numbers
      <4>2. /\ sending[c].op # 0 => decided[c][sending[c].op] # NoWrite
            /\ sending[c].answered => sending[c].op # 0
        BY DEF PlacesHold, InLog
      <4>3. QED
        BY <1>3, <2>1, <3>2, <4>1, <4>2
    <3>3. QED
      BY <3>1, <3>2
  <2>3. InLog'
    BY <1>3, <2>1, <2>2 DEF PlacesHold, InLog, Table, Numbers
  <2>4. ASSUME NEW c \in Backends, NEW j \in Numbers, decided'[c][j] # NoWrite
        PROVE  /\ j = cursor[c] + 1 \/ j \in aside[c]
               /\ \A k \in Numbers : decided'[c][k] # NoWrite => k = j
               /\ sending'[c].op \in {0, j}
    <3>1. CASE c = b
      BY <1>1, <1>3, <2>1, <2>4, <3>1
    <3>2. CASE c # b
      <4>1. decided[c][j] # NoWrite /\ \A k \in Numbers : decided'[c][k] = decided[c][k]
        BY <1>3, <2>4, <3>2
      <4>2. QED
        BY <4>1, <2>1, <3>2 DEF PlacesHold, DecidedIsOpen
    <3>3. QED
      BY <3>1, <3>2
  <2>5. DecidedIsOpen'
    BY <1>3, <2>4 DEF DecidedIsOpen, Numbers
  <2>6. QED
    BY <2>3, <2>5 DEF PlacesHold
<1>4. CASE KeptWrite(b, i) # NoWrite /\ UNCHANGED placeVars /\ sending' = [sending EXCEPT ![b].op = i]
  BY <1>3, <1>4 DEF KeptWrite, placeVars, PlacesHold, InLog, Table, Numbers
<1>5. CASE /\ Decision(b, i) # NoWrite /\ Decide(b, i, Decision(b, i))
           /\ sending' = [sending EXCEPT ![b].op = i]
  <2>1. PICK w : w = Decision(b, i)
    OBVIOUS
  <2>2. decided' = Put(decided, b, i, w)
    BY <1>5, <2>1 DEF Decide, Put
  <2>3. /\ Table(decided')
        /\ \A c \in Backends : \A j \in Numbers :
              decided'[c][j] = IF c = b /\ j = i THEN w ELSE decided[c][j]
    BY <2>2, OneEntry DEF PlacesHold, InLog
  <2>4. QED
    BY <1>3, <1>5, <2>1, <2>3 DEF Decide
<1>6. QED
  BY <1>2, <1>4, <1>5 DEF TakeUp

LEMMA NextKeepsPlaces == PlacesHold /\ [Next]_vars => PlacesHold'
<1> SUFFICES ASSUME PlacesHold, [Next]_vars PROVE PlacesHold'
  OBVIOUS
<1>1. ASSUME NEW o \in Operations, Registers(o) PROVE PlacesHold'
  BY <1>1, RegistersKeeps
<1>2. ASSUME UNCHANGED placeVars, UNCHANGED sending PROVE PlacesHold'
  BY <1>2 DEF PlacesHold, InLog, DecidedIsOpen, Table, Numbers, placeVars
<1>3. CASE DaemonDies
  <2>1. sending' = [b \in Backends |-> IF b \in Backends THEN AtRest ELSE sending[b]]
    BY <1>3 DEF DaemonDies
  <2>2. UNCHANGED placeVars
    BY <1>3 DEF DaemonDies
  <2>3. QED
    BY <2>1, <2>2, PutDown
<1>4. ASSUME NEW b \in Backends, AnswerIsLost(b) \/ WriteIsLost(b) PROVE PlacesHold'
  <2>1. sending' = [c \in Backends |-> IF c \in {b} THEN AtRest ELSE sending[c]]
    BY <1>4 DEF AnswerIsLost, WriteIsLost, PlacesHold, InLog
  <2>2. UNCHANGED placeVars
    BY <1>4 DEF AnswerIsLost, WriteIsLost, Arrives, placeVars
  <2>3. QED
    BY <2>1, <2>2, PutDown
<1>5. ASSUME NEW b \in Backends, Answered(b) PROVE PlacesHold'
  <2>1. sending[b].op # 0 /\ UNCHANGED placeVars /\ sending' = [sending EXCEPT ![b].answered = TRUE]
    BY <1>5 DEF Answered, Arrives
  <2>2. /\ sending' \in [Backends -> [op : 0 .. MaxLog, answered : BOOLEAN]]
        /\ \A c \in Backends : sending'[c].op = sending[c].op
        /\ \A c \in Backends : c # b => sending'[c] = sending[c]
    BY <2>1 DEF PlacesHold, InLog
  <2>3. InLog'
    BY <2>1, <2>2 DEF PlacesHold, InLog, placeVars, Table, Numbers
  <2>4. DecidedIsOpen'
    BY <2>1, <2>2 DEF PlacesHold, DecidedIsOpen, placeVars, Numbers
  <2>5. QED
    BY <2>3, <2>4 DEF PlacesHold
<1>6. ASSUME NEW b \in Backends, DryRun(b) \/ Files(b) PROVE PlacesHold'
  BY <1>2, <1>6 DEF DryRun, Files
<1>7. ASSUME NEW b \in Backends, NEW e \in Entries, Removes(b, e) PROVE PlacesHold'
  BY <1>2, <1>7 DEF Removes
<1>8. CASE UNCHANGED vars
  BY <1>2, <1>8 DEF vars
<1>9. QED
  BY <1>1, <1>3, <1>4, <1>5, <1>6, <1>7, <1>8, ConfirmKeeps, HasNoWorkKeeps, TakeUpKeeps DEF Next

LEMMA PlacesAlwaysHold == Spec => []PlacesHold
BY PlacesHoldAtFirst, NextKeepsPlaces, PTL DEF Spec

\* Whatever is lost and wherever the daemon ends, a write is kept of one
\* operation at most, one that is next or was set aside, and a sender has no
\* other in its hands (store/src/delivery.rs).
THEOREM KeptWriteIsOpen == Spec => []DecidedIsOpen
<1>1. PlacesHold => DecidedIsOpen
  BY DEF PlacesHold
<1>2. QED
  BY <1>1, PlacesAlwaysHold, PTL

-----------------------------------------------------------------------------
(***************************************************************************)
(* The log is an Outbox.                                                   *)
(***************************************************************************)

Fate == [b \in Backends |-> [i \in 1 .. MaxLog |-> FateOf(b, i)]]

\* One operation is finished: its fate alone changes, and it was the first ahead
\* or had been set aside.
LEMMA FinishedIsTaken ==
    ASSUME PlacesHold, NEW b \in Backends, NEW i \in 1 .. Len(log),
           i = cursor[b] + 1 \/ i \in aside[b],
           log' = log, cursor' = Advance(b, i),
           NEW f \in {"delivered", "aside"},
           aside' = [aside EXCEPT ![b] = IF f = "aside" THEN aside[b] \cup {i} ELSE aside[b] \ {i}]
    PROVE  [O!Next]_(O!vars)
<1>1. i \in Numbers /\ MaxLog \in Nat /\ Len(log) \in 0 .. MaxLog /\ Numbers = 1 .. MaxLog
  BY PlacesAssumption DEF PlacesHold, InLog, Numbers
<1>2. /\ cursor[b] \in Nat
      /\ \A c \in Backends : cursor'[c] = IF c = b THEN Larger(cursor[b], i) ELSE cursor[c]
      /\ \A j \in aside[b] : j \in Nat /\ j <= cursor[b]
      /\ aside[b] \subseteq Numbers
  BY <1>1 DEF Advance, PlacesHold, InLog
<1>3. \A c \in Backends :
         aside'[c] = IF c = b THEN (IF f = "aside" THEN aside[b] \cup {i} ELSE aside[b] \ {i})
                     ELSE aside[c]
  BY DEF PlacesHold, InLog
<1>4. /\ Table(Fate) /\ Table(Fate')
      /\ \A c \in Backends : \A j \in Numbers :
            Fate[c][j] = FateOf(c, j) /\ Fate'[c][j] = FateOf(c, j)'
  BY <1>1 DEF Fate, Table, Numbers
<1>5. ASSUME NEW c \in Backends, NEW j \in Numbers
      PROVE  FateOf(c, j)' = IF c = b /\ j = i THEN f ELSE FateOf(c, j)
  <2>1. CASE c # b
    BY <1>2, <1>3, <2>1 DEF FateOf
  <2>2. CASE c = b /\ j = i
    <3>1. cursor'[b] >= i /\ cursor'[b] \in Nat
      BY <1>1, <1>2 DEF Larger
    <3>2. i \in aside'[b] <=> f = "aside"
      BY <1>3
    <3>3. QED
      BY <1>1, <2>2, <3>1, <3>2 DEF FateOf
  <2>3. CASE c = b /\ j # i
    <3>1. j > cursor'[b] <=> j > cursor[b]
      BY <1>1, <1>2, <2>3 DEF Larger
    <3>2. j \in aside'[b] <=> j \in aside[b]
      BY <1>3, <2>3
    <3>3. cursor'[b] \in Nat /\ j \in Nat
      BY <1>1, <1>2 DEF Larger
    <3>4. QED
      BY <1>2, <2>3, <3>1, <3>2, <3>3 DEF FateOf
  <2>4. QED
    BY <2>1, <2>2, <2>3
<1>6. Fate' = [Fate EXCEPT ![b][i] = f]
  <2>1. PICK H, G : H = Fate /\ G = Fate'
    OBVIOUS
  <2>2. /\ Table(H) /\ Table(G)
        /\ \A c \in Backends : \A j \in Numbers : G[c][j] = IF c = b /\ j = i THEN f ELSE H[c][j]
    BY <1>4, <1>5, <2>1
  <2>3. G = Put(H, b, i, f)
    BY <1>1, <2>2, OneEntry, SameTable
  <2>4. QED
    BY <2>1, <2>3 DEF Put
<1>7. CASE i = cursor[b] + 1
  <2>1. Fate[b][i] = "ahead" /\ \A j \in 1 .. i - 1 : Fate[b][j] # "ahead"
    BY <1>1, <1>2, <1>4, <1>7 DEF FateOf
  <2>2. O!Take(b, i)
    BY <1>1, <1>6, <2>1 DEF O!Take, Fate
  <2>3. QED
    BY <1>1, <2>2 DEF O!Next
<1>8. CASE i \in aside[b] /\ f = "delivered"
  <2>1. Fate[b][i] = "aside"
    BY <1>1, <1>2, <1>4, <1>8 DEF FateOf
  <2>2. O!TakeUp(b, i)
    BY <1>1, <1>6, <1>8, <2>1 DEF O!TakeUp, Fate
  <2>3. QED
    BY <1>1, <2>2 DEF O!Next
<1>9. CASE i \in aside[b] /\ f = "aside"
  <2>1. FateOf(b, i) = "aside"
    BY <1>1, <1>2, <1>9 DEF FateOf
  <2>2. \A c \in Backends : \A j \in Numbers : Fate'[c][j] = Fate[c][j]
    BY <1>4, <1>5, <1>9, <2>1
  <2>3. Fate' = Fate
    BY <1>4, <2>2, SameTable
  <2>4. QED
    BY <2>3 DEF O!vars, Fate
<1>10. QED
  BY <1>7, <1>8, <1>9

\* What one step of Delivery is to the Outbox.
LEMMA StepIsOutbox == PlacesHold /\ [Next]_vars => [O!Next]_(O!vars)
<1> SUFFICES ASSUME PlacesHold, [Next]_vars PROVE [O!Next]_(O!vars)
  OBVIOUS
<1>1. ASSUME log' = log, cursor' = cursor, aside' = aside PROVE [O!Next]_(O!vars)
  BY <1>1 DEF O!vars, FateOf
<1>2. ASSUME NEW o \in Operations, Registers(o) PROVE [O!Next]_(O!vars)
  <2>1. Len(log') = Len(log) + 1 /\ Len(log) < MaxLog
    BY <1>2 DEF Registers, Enqueue, PlacesHold, InLog
  <2>2. cursor' = cursor /\ aside' = aside
    BY <1>2 DEF Registers, Enqueue
  <2>3. O!Queue
    BY <2>1, <2>2 DEF O!Queue, FateOf
  <2>4. QED
    BY <2>3 DEF O!Next
<1>3. ASSUME NEW b \in Backends, NEW i \in 1 .. Len(log), i = cursor[b] + 1 \/ i \in aside[b],
             SetAside(b, i)
      PROVE  [O!Next]_(O!vars)
  <2>1. /\ log' = log /\ cursor' = Advance(b, i)
        /\ aside' = [aside EXCEPT ![b] = IF "aside" = "aside" THEN aside[b] \cup {i} ELSE aside[b] \ {i}]
    BY <1>3 DEF SetAside
  <2>2. QED
    BY <1>3, <2>1, FinishedIsTaken
<1>4. ASSUME NEW b \in Backends, Confirm(b) PROVE [O!Next]_(O!vars)
  <2>1. PICK i : i = sending[b].op
    OBVIOUS
  <2>2. i # 0 /\ i \in 1 .. Len(log)
    BY <1>4, <2>1 DEF Confirm, Delivered, PlacesHold, InLog
  <2>3. i = cursor[b] + 1 \/ i \in aside[b]
    BY <2>1, <2>2, FinishedIsOpen
  <2>4. /\ log' = log /\ cursor' = Advance(b, i)
        /\ aside' = [aside EXCEPT ![b] = IF "delivered" = "aside" THEN aside[b] \cup {i} ELSE aside[b] \ {i}]
    BY <1>4, <2>1 DEF Confirm, Delivered
  <2>5. QED
    BY <2>2, <2>3, <2>4, FinishedIsTaken
<1>5. ASSUME NEW b \in Backends, HasNoWork(b) PROVE [O!Next]_(O!vars)
  <2>1. PICK i : i = sending[b].op
    OBVIOUS
  <2>2. i # 0 /\ i \in 1 .. Len(log) /\ SetAside(b, i)
    BY <1>5, <2>1 DEF HasNoWork, SetAside
  <2>3. i = cursor[b] + 1 \/ i \in aside[b]
    BY <2>1, <2>2, FinishedIsOpen
  <2>4. QED
    BY <1>3, <2>2, <2>3
<1>6. ASSUME NEW b \in Backends, NEW i \in Numbers, TakeUp(b, i) PROVE [O!Next]_(O!vars)
  <2>1. CASE SetAside(b, i)
    <3>1. i \in 1 .. Len(log) /\ MayTake(b, i)
      BY <1>6 DEF TakeUp
    <3>2. QED
      BY <1>3, <2>1, <3>1, TakenIsOpen
  <2>2. CASE UNCHANGED placeVars \/ Decide(b, i, Decision(b, i))
    BY <1>1, <2>2 DEF placeVars, Decide
  <2>3. QED
    BY <1>6, <2>1, <2>2 DEF TakeUp
<1>7. ASSUME NEW b \in Backends,
             DryRun(b) \/ Answered(b) \/ AnswerIsLost(b) \/ WriteIsLost(b) \/ Files(b)
      PROVE  [O!Next]_(O!vars)
  BY <1>1, <1>7 DEF DryRun, Answered, AnswerIsLost, WriteIsLost, Arrives, Files, placeVars
<1>8. ASSUME NEW b \in Backends, NEW e \in Entries, Removes(b, e) PROVE [O!Next]_(O!vars)
  BY <1>1, <1>8 DEF Removes, placeVars
<1>9. CASE DaemonDies \/ UNCHANGED vars
  BY <1>1, <1>9 DEF DaemonDies, vars, placeVars
<1>10. QED
  BY <1>2, <1>4, <1>5, <1>6, <1>7, <1>8, <1>9 DEF Next

\* The log and the places in it are an Outbox for each backend: operations are
\* taken in the order they were queued, none is passed over, one set aside may
\* only be delivered later, and what is delivered stays so, whatever the service
\* and the sender lose (store/src/queue.rs, delivery.rs).
THEOREM DeliveryIsOutbox == Spec => OutboxSpec
<1>1. Init => O!Init
  BY PlacesAssumption DEF Init, PlacesInit, O!Init, FateOf
<1>2. QED
  BY <1>1, PlacesAlwaysHold, StepIsOutbox, PTL DEF Spec, OutboxSpec, O!Spec
-----------------------------------------------------------------------------
(***************************************************************************)
(* What sending does to the list.                                          *)
(***************************************************************************)

ServiceTable == service = [b \in Backends |-> [e \in Entries |-> service[b][e]]]

\* An operation that is open and of which no write is kept has changed nothing;
\* one whose kept write changed the list left the entry as that write says, so
\* that sending it again changes nothing.
Counted(b, i) ==
    /\ changes[b][i] \in {0, 1}
    /\ decided[b][i] = NoWrite /\ (i > cursor[b] \/ i \in aside[b]) => changes[b][i] = 0
    /\ decided[b][i] # NoWrite /\ changes[b][i] # 0 =>
          /\ decided[b][i].entry \in Works
          /\ service[b][decided[b][i].entry] = decided[b][i].standing

ChangesHold ==
    /\ ServiceTable
    /\ Table(changes)
    /\ \A b \in Backends : \A i \in Numbers : Counted(b, i)

\* A step that leaves the service, the writes kept and the places alone.
LEMMA SameCounts ==
    ASSUME ChangesHold, UNCHANGED <<cursor, decided, aside, service, changes>>
    PROVE  ChangesHold'
BY DEF ChangesHold, ServiceTable, Table, Counted, Numbers

\* An operation is finished: nothing is kept of it, and if it stays open it
\* changed nothing.
LEMMA FinishedCounts ==
    ASSUME PlacesHold, ChangesHold, NEW b \in Backends, NEW i \in Numbers,
           i = cursor[b] + 1 \/ i \in aside[b],
           decided' = ForgetDecided(b, i), cursor' = Advance(b, i),
           NEW S \in {aside[b] \ {i}, aside[b] \cup {i}}, aside' = [aside EXCEPT ![b] = S],
           i \in S => changes[b][i] = 0,
           UNCHANGED <<service, changes>>
    PROVE  ChangesHold'
<1>1. /\ Table(decided')
      /\ \A c \in Backends : \A j \in Numbers :
            decided'[c][j] = IF c = b /\ j = i THEN NoWrite ELSE decided[c][j]
  <2>1. decided' = Put(decided, b, i, NoWrite)
    BY DEF ForgetDecided, Put
  <2>2. Table(decided)
    BY DEF PlacesHold, InLog
  <2> QED BY <2>1, <2>2, OneEntry
<1>2. /\ \A c \in Backends : cursor'[c] = IF c = b THEN Larger(cursor[b], i) ELSE cursor[c]
      /\ \A c \in Backends : aside'[c] = IF c = b THEN S ELSE aside[c]
      /\ cursor[b] \in Nat
  BY DEF Advance, PlacesHold, InLog
<1>3. ASSUME NEW c \in Backends, NEW j \in Numbers PROVE Counted(c, j)'
  <2>0. Counted(c, j)
    BY DEF ChangesHold
  <2>1. CASE c # b
    BY <2>0, <2>1, <1>1, <1>2 DEF Counted
  <2>2. CASE c = b /\ j # i
    <3>1. j > cursor'[b] => j > cursor[b]
      BY <1>2 DEF Larger, Numbers
    <3>2. j \in aside'[b] <=> j \in aside[b]
      BY <1>2, <2>2
    <3> QED BY <2>0, <2>2, <3>1, <3>2, <1>1 DEF Counted
  <2>3. CASE c = b /\ j = i
    <3>1. ~(i > cursor'[b])
      BY <1>2 DEF Larger, Numbers
    <3>2. i \in aside'[b] <=> i \in S
      BY <1>2
    <3> QED BY <2>0, <2>3, <3>1, <3>2, <1>1 DEF Counted
  <2> QED BY <2>1, <2>2, <2>3
<1> QED BY <1>3 DEF ChangesHold, ServiceTable, Table, Numbers

\* The service takes a write: nothing else changes at the service, and the
\* operation changed the list only if the entry was not left so before.
LEMMA ArrivesAt ==
    ASSUME ChangesHold, PlacesHold, NEW b \in Backends, Arrives(b),
           NEW i, i = sending[b].op, NEW write, write = decided[b][i]
    PROVE  /\ i \in Numbers /\ write # NoWrite /\ write.entry \in Works
           /\ ServiceTable' /\ Table(changes')
           /\ \A c \in Backends : \A e \in Entries :
                 service'[c][e] = IF c = b /\ e = write.entry THEN write.standing ELSE service[c][e]
           /\ \A c \in Backends : \A j \in Numbers :
                 changes'[c][j] = IF c = b /\ j = i /\ service[b][write.entry] # write.standing
                                  THEN changes[c][j] + 1 ELSE changes[c][j]
<1>1. /\ i # 0 /\ write # NoWrite /\ write.entry \in Works
      /\ service' = [service EXCEPT ![b][write.entry] = write.standing]
      /\ changes' = [changes EXCEPT ![b][i] =
                        IF service[b][write.entry] = write.standing THEN @ ELSE @ + 1]
  BY DEF Arrives
<1>2. i \in Numbers
  BY <1>1, FinishedIsOpen
<1>3. write.entry \in Entries
  BY <1>1, DeliveryAssumption
<1>4. /\ ServiceTable'
      /\ \A c \in Backends : \A e \in Entries :
            service'[c][e] = IF c = b /\ e = write.entry THEN write.standing ELSE service[c][e]
  <2> DEFINE t == service
             x == write.entry
             w == write.standing
  <2>1. DOMAIN t = Backends /\ \A c \in Backends : DOMAIN t[c] = Entries
    BY DEF ChangesHold, ServiceTable
  <2>2. service' = [c \in Backends |-> IF c = b THEN [t[b] EXCEPT ![x] = w] ELSE t[c]]
    BY <1>1, <2>1
  <2>3. \A c \in Backends : t[c] = [e \in Entries |-> t[c][e]]
    BY DEF ChangesHold, ServiceTable
  <2> HIDE DEF t, x, w
  <2>4. [t[b] EXCEPT ![x] = w] = [e \in Entries |-> IF e = x THEN w ELSE t[b][e]]
    BY <2>3
  <2>5. \A c \in Backends : service'[c] = IF c = b THEN [e \in Entries |-> IF e = x THEN w ELSE t[b][e]]
                                          ELSE t[c]
    BY <2>2, <2>4
  <2>6. \A c \in Backends : \A e \in Entries :
           service'[c][e] = IF c = b /\ e = x THEN w ELSE t[c][e]
    BY <2>5
  <2>7. \A c \in Backends : service'[c] = [e \in Entries |-> service'[c][e]]
    BY <2>3, <2>5
  <2>8. service' = [c \in Backends |-> [e \in Entries |-> service'[c][e]]]
    BY <2>2, <2>7
  <2> QED BY <2>6, <2>8 DEF ServiceTable, t, x, w
<1>5. PICK n : n = IF service[b][write.entry] = write.standing THEN changes[b][i] ELSE changes[b][i] + 1
  OBVIOUS
<1>6. Table(changes)
  BY DEF ChangesHold
<1>7. changes' = Put(changes, b, i, n)
  <2>1. DOMAIN changes = Backends /\ DOMAIN changes[b] = Numbers
    BY <1>6 DEF Table
  <2>2. n = IF service[b][write.entry] = write.standing THEN changes[b][i] ELSE changes[b][i] + 1
    BY <1>5
  <2>3. changes' = [changes EXCEPT ![b] = [changes[b] EXCEPT ![i] = n]]
    BY ONLY <1>1, <2>2, <2>1, <1>2
  <2> QED BY <2>1, <2>3, <1>2 DEF Put
<1>8. /\ Table(changes')
      /\ \A c \in Backends : \A j \in Numbers :
            changes'[c][j] = IF c = b /\ j = i THEN n ELSE changes[c][j]
  BY <1>2, <1>6, <1>7, OneEntry
<1>9. \A c \in Backends : \A j \in Numbers :
         changes'[c][j] = IF c = b /\ j = i /\ service[b][write.entry] # write.standing
                          THEN changes[c][j] + 1 ELSE changes[c][j]
  <2>1. CASE service[b][write.entry] = write.standing
    BY <1>5, <1>8, <2>1
  <2>2. CASE service[b][write.entry] # write.standing
    <3>1. n = changes[b][i] + 1
      BY <1>5, <2>2
    <3> QED BY <1>8, <2>2, <3>1
  <2> QED BY <2>1, <2>2
<1> QED BY <1>1, <1>2, <1>4, <1>8, <1>9

LEMMA ArrivesCounts ==
    ASSUME PlacesHold, ChangesHold, NEW b \in Backends, Arrives(b)
    PROVE  ChangesHold'
<1>0. PICK i, write : i = sending[b].op /\ write = decided[b][i]
  OBVIOUS
<1>1. /\ i \in Numbers /\ write # NoWrite /\ write.entry \in Works
      /\ ServiceTable' /\ Table(changes')
      /\ \A c \in Backends : \A e \in Entries :
            service'[c][e] = IF c = b /\ e = write.entry THEN write.standing ELSE service[c][e]
      /\ \A c \in Backends : \A j \in Numbers :
            changes'[c][j] = IF c = b /\ j = i /\ service[b][write.entry] # write.standing
                             THEN changes[c][j] + 1 ELSE changes[c][j]
  BY <1>0, ArrivesAt
<1>2. UNCHANGED <<cursor, decided, aside>>
  BY DEF Arrives, placeVars
<1>3. \A j \in Numbers : decided[b][j] # NoWrite => j = i
  BY <1>0, <1>1, FinishedIsOpen DEF Numbers
<1>4. ASSUME NEW c \in Backends, NEW j \in Numbers PROVE Counted(c, j)'
  <2>0. Counted(c, j)
    BY DEF ChangesHold
  <2>1. CASE c = b /\ j = i
    <3>1. service'[b][write.entry] = write.standing
      BY <1>1, DeliveryAssumption
    <3>2. service[b][write.entry] # write.standing => changes[b][i] = 0
      BY <1>0, <1>1, <2>0, <2>1 DEF Counted
    <3>3. changes'[b][i] \in {0, 1}
      BY <1>1, <2>0, <2>1, <3>2 DEF Counted
    <3> QED BY <1>0, <1>1, <1>2, <2>1, <3>1, <3>3 DEF Counted
  <2>2. CASE c = b /\ j # i
    BY <1>1, <1>2, <1>3, <2>0, <2>2 DEF Counted
  <2>3. CASE c # b
    BY <1>1, <1>2, <2>0, <2>3, DeliveryAssumption DEF Counted
  <2> QED BY <2>1, <2>2, <2>3
<1> QED BY <1>1, <1>4 DEF ChangesHold, Numbers

LEMMA TakeUpCounts ==
    ASSUME PlacesHold, ChangesHold, NEW b \in Backends, NEW i \in Numbers, TakeUp(b, i)
    PROVE  ChangesHold'
<1>1. i = cursor[b] + 1 \/ i \in aside[b]
  BY TakenIsOpen DEF TakeUp
<1>2. UNCHANGED <<service, changes>>
  BY DEF TakeUp, listVars
<1>3. Counted(b, i)
  BY DEF ChangesHold
<1>4. cursor[b] \in Nat
  BY DEF PlacesHold, InLog
<1>5. decided[b][i] = NoWrite => changes[b][i] = 0
  BY <1>1, <1>3, <1>4 DEF Counted, Numbers
<1>6. CASE UNCHANGED placeVars
  BY <1>2, <1>6, SameCounts DEF placeVars
<1>7. CASE /\ KeptWrite(b, i) = NoWrite /\ Decision(b, i) # NoWrite
           /\ Decide(b, i, Decision(b, i))
  <2>1. PICK w : w = Decision(b, i)
    OBVIOUS
  <2>2. decided' = Put(decided, b, i, w) /\ UNCHANGED <<cursor, aside>>
    BY <1>7, <2>1 DEF Decide, Put
  <2>3. \A c \in Backends : \A j \in Numbers :
            decided'[c][j] = IF c = b /\ j = i THEN w ELSE decided[c][j]
    BY <2>2, OneEntry DEF PlacesHold, InLog
  <2>4. w # NoWrite /\ changes[b][i] = 0
    BY <1>5, <1>7, <2>1 DEF KeptWrite
  <2>5. ASSUME NEW c \in Backends, NEW j \in Numbers PROVE Counted(c, j)'
    <3>1. Counted(c, j)
      BY DEF ChangesHold
    <3> QED BY <1>2, <2>2, <2>3, <2>4, <3>1 DEF Counted
  <2> QED BY <1>2, <2>5 DEF ChangesHold, ServiceTable, Table, Numbers
<1>8. CASE KeptWrite(b, i) = NoWrite /\ SetAside(b, i)
  <2>1. /\ decided' = ForgetDecided(b, i) /\ cursor' = Advance(b, i)
        /\ aside' = [aside EXCEPT ![b] = aside[b] \cup {i}]
    BY <1>8 DEF SetAside
  <2>2. changes[b][i] = 0
    BY <1>5, <1>8 DEF KeptWrite
  <2> QED BY <1>1, <1>2, <2>1, <2>2, FinishedCounts
<1> QED BY <1>6, <1>7, <1>8 DEF TakeUp

LEMMA HasNoWorkCounts ==
    ASSUME PlacesHold, ChangesHold, NEW b \in Backends, HasNoWork(b)
    PROVE  ChangesHold'
<1>1. PICK i : i = sending[b].op
  OBVIOUS
<1>2. i \in Numbers /\ (i = cursor[b] + 1 \/ i \in aside[b])
  BY <1>1, FinishedIsOpen DEF HasNoWork
<1>3. /\ decided[b][i] # NoWrite /\ decided[b][i].entry \notin Works
      /\ decided' = ForgetDecided(b, i) /\ cursor' = Advance(b, i)
      /\ aside' = [aside EXCEPT ![b] = aside[b] \cup {i}]
      /\ UNCHANGED <<service, changes>>
  BY <1>1 DEF HasNoWork, SetAside, listVars
<1>4. changes[b][i] = 0
  BY <1>2, <1>3 DEF ChangesHold, Counted
<1> QED BY <1>2, <1>3, <1>4, FinishedCounts

LEMMA ConfirmCounts ==
    ASSUME PlacesHold, ChangesHold, NEW b \in Backends, Confirm(b)
    PROVE  ChangesHold'
<1>1. PICK i : i = sending[b].op
  OBVIOUS
<1>2. i # 0
  BY <1>1 DEF Confirm, PlacesHold, InLog
<1>3. i \in Numbers /\ (i = cursor[b] + 1 \/ i \in aside[b])
  BY <1>1, <1>2, FinishedIsOpen
<1>4. /\ decided' = ForgetDecided(b, i) /\ cursor' = Advance(b, i)
      /\ aside' = [aside EXCEPT ![b] = aside[b] \ {i}]
      /\ UNCHANGED <<service, changes>>
  BY <1>1 DEF Confirm, Delivered, listVars
<1> QED BY <1>3, <1>4, FinishedCounts

\* The user takes an entry off: what was to be written to it counts again.
LEMMA RemovesCounts ==
    ASSUME ChangesHold, NEW b \in Backends, NEW e \in Entries, Removes(b, e)
    PROVE  ChangesHold'
<1> DEFINE counts == [i \in Numbers |->
                        IF decided[b][i] # NoWrite /\ decided[b][i].entry = e
                        THEN 0 ELSE changes[b][i]]
           left == [service[b] EXCEPT ![e] = None]
<1>1. /\ service' = [service EXCEPT ![b][e] = None]
      /\ changes' = [changes EXCEPT ![b] = counts]
      /\ UNCHANGED <<cursor, decided, aside>>
  BY DEF Removes, placeVars
<1>2. /\ DOMAIN service = Backends /\ DOMAIN changes = Backends
      /\ \A c \in Backends : service[c] = [d \in Entries |-> service[c][d]]
      /\ \A c \in Backends : changes[c] = [i \in Numbers |-> changes[c][i]]
  BY DEF ChangesHold, ServiceTable, Table
<1>3. /\ service' = [c \in Backends |-> IF c = b THEN left ELSE service[c]]
      /\ changes' = [c \in Backends |-> IF c = b THEN counts ELSE changes[c]]
  BY <1>1, <1>2
<1>4. /\ left = [d \in Entries |-> left[d]]
      /\ \A d \in Entries : left[d] = IF d = e THEN None ELSE service[b][d]
      /\ counts = [i \in Numbers |-> counts[i]]
      /\ \A i \in Numbers : counts[i] = IF decided[b][i] # NoWrite /\ decided[b][i].entry = e
                                        THEN 0 ELSE changes[b][i]
  BY <1>2
<1> HIDE DEF counts, left
<1>5. /\ \A c \in Backends : service'[c] = [d \in Entries |-> service'[c][d]]
      /\ \A c \in Backends : changes'[c] = [i \in Numbers |-> changes'[c][i]]
  BY <1>2, <1>3, <1>4
<1>6. ServiceTable' /\ Table(changes')
  BY <1>3, <1>5 DEF ServiceTable, Table, Numbers
<1>7. ASSUME NEW c \in Backends, NEW j \in Numbers PROVE Counted(c, j)'
  <2>1. Counted(c, j)
    BY DEF ChangesHold
  <2>2. CASE c # b
    BY <1>1, <1>3, <2>1, <2>2 DEF Counted
  <2>3. CASE c = b
    <3>1. \A d \in Works : service'[b][d] = IF d = e THEN None ELSE service[b][d]
      BY <1>3, <1>4, DeliveryAssumption
    <3>2. changes'[b][j] = IF decided[b][j] # NoWrite /\ decided[b][j].entry = e
                           THEN 0 ELSE changes[b][j]
      BY <1>3, <1>4
    <3> QED BY <1>1, <2>1, <2>3, <3>1, <3>2 DEF Counted
  <2> QED BY <2>2, <2>3
<1> QED BY <1>6, <1>7 DEF ChangesHold, Numbers

LEMMA ChangesHoldAtFirst == Init => ChangesHold
<1> SUFFICES ASSUME Init PROVE ChangesHold
  OBVIOUS
<1>1. PICK list \in FirstLists : service = [b \in Backends |-> list]
  BY DEF Init
<1>2. list = [e \in Entries |-> list[e]]
  BY DeliveryAssumption
<1>3. ServiceTable
  BY <1>1, <1>2 DEF ServiceTable
<1>4. \A b \in Backends : \A i \in Numbers : changes[b][i] = 0 /\ decided[b][i] = NoWrite
  BY DEF Init, PlacesInit
<1>5. Table(changes)
  BY DEF Init, Table
<1> QED BY <1>3, <1>4, <1>5 DEF ChangesHold, Counted

LEMMA NextKeepsChanges == PlacesHold /\ ChangesHold /\ [Next]_vars => ChangesHold'
<1> SUFFICES ASSUME PlacesHold, ChangesHold, [Next]_vars PROVE ChangesHold'
  OBVIOUS
<1>1. ASSUME NEW o \in Operations, Registers(o) PROVE ChangesHold'
  BY <1>1, SameCounts DEF Registers, Enqueue, listVars
<1>2. ASSUME NEW b \in Backends, Answered(b) \/ AnswerIsLost(b) PROVE ChangesHold'
  BY <1>2, ArrivesCounts DEF Answered, AnswerIsLost
<1>3. ASSUME NEW b \in Backends, DryRun(b) \/ WriteIsLost(b) \/ Files(b) PROVE ChangesHold'
  BY <1>3, SameCounts DEF DryRun, WriteIsLost, Files, placeVars, listVars
<1>4. CASE DaemonDies \/ UNCHANGED vars
  BY <1>4, SameCounts DEF DaemonDies, vars, placeVars, listVars
<1> QED
  BY <1>1, <1>2, <1>3, <1>4, TakeUpCounts, HasNoWorkCounts, ConfirmCounts, RemovesCounts DEF Next

LEMMA ChangesAlwaysHold == Spec => []ChangesHold
BY ChangesHoldAtFirst, NextKeepsChanges, PlacesAlwaysHold, PTL DEF Spec

\* However often a write is sent, with its answer lost or the process ended
\* before it was confirmed, an operation changes the list once: what is decided
\* is kept until it is confirmed and sent again as it was (store/src/delivery.rs).
THEOREM ChangingOnce == Spec => []ChangedOnce
<1>1. ChangesHold => ChangedOnce
  <2> SUFFICES ASSUME ChangesHold, NEW b \in Backends, NEW i \in Numbers PROVE changes[b][i] <= 1
    BY DEF ChangedOnce
  <2>1. changes[b][i] \in {0, 1}
    BY DEF ChangesHold, Counted
  <2> QED BY <2>1
<1> QED BY <1>1, ChangesAlwaysHold, PTL
-----------------------------------------------------------------------------
(***************************************************************************)
(* What the dry run said.                                                  *)
(***************************************************************************)

\* A set of numbers has a least: what an induction over the log comes to, since
\* the finite sets 0 .. n are well ordered by inclusion.
LEMMA LeastOf ==
    ASSUME NEW T, T \subseteq Nat, T # {}
    PROVE  \E n \in T : \A m \in T : n <= m
<1> DEFINE upTo == {0 .. n : n \in T}
           below == StrictSubsetOrdering(Nat)
<1>1. \A n \in T : 0 .. n \in FiniteSubsetsOf(Nat)
  BY FS_Interval DEF FiniteSubsetsOf
<1>2. \E x \in upTo : \A y \in upTo : <<y, x>> \notin below
  <2>1. IsWellFoundedOn(below, FiniteSubsetsOf(Nat))
    BY FS_StrictSubsetOrderingWellFounded
  <2>2. upTo \subseteq FiniteSubsetsOf(Nat) /\ upTo # {}
    BY <1>1
  <2> HIDE DEF upTo, below
  <2> QED BY <2>1, <2>2, WFMin
<1>3. PICK n \in T : \A m \in T : <<0 .. m, 0 .. n>> \notin below
  BY <1>2
<1>4. ASSUME NEW m \in T, m < n PROVE FALSE
  <2>1. 0 .. m \subseteq 0 .. n /\ n \in 0 .. n /\ n \notin 0 .. m
    BY <1>4
  <2>2. 0 .. m \in SUBSET Nat /\ 0 .. n \in SUBSET Nat
    OBVIOUS
  <2>3. <<0 .. m, 0 .. n>> \in below
    BY <2>1, <2>2 DEF StrictSubsetOrdering
  <2> QED BY <2>3, <1>3
<1> QED BY <1>4

\* What a rehearsal holds, one operation after the other.
OnEntries(left) == left = [e \in Entries |-> left[e]]

LeftAlone == [e \in Entries |-> None]

Steps(b, f, n) ==
    f = [i \in cursor[b] .. n |-> IF i = cursor[b] THEN LeftAlone ELSE Leave(b, f[i - 1], log[i])]

\* The steps are there, however long the log.
LEMMA StepsExist ==
    ASSUME NEW b, cursor[b] \in Nat, NEW n \in Nat, cursor[b] <= n
    PROVE  \E f : Steps(b, f, n)
<1> DEFINE c == cursor[b]
           T == {m \in Nat : c <= m /\ ~ \E f : Steps(b, f, m)}
<1>1. SUFFICES ASSUME T # {} PROVE FALSE
  OBVIOUS
<1>2. PICK m \in T : \A k \in T : m <= k
  BY <1>1, LeastOf
<1>3. CASE m = c
  <2> DEFINE f == [i \in c .. c |-> LeftAlone]
  <2>1. Steps(b, f, c)
    BY DEF Steps
  <2> QED BY <1>3, <2>1
<1>4. CASE m # c
  <2>1. m \in Nat /\ c < m /\ m - 1 \in Nat /\ c <= m - 1 /\ m - 1 \notin T
    BY <1>2, <1>4
  <2>2. PICK f : Steps(b, f, m - 1)
    BY <2>1
  <2> DEFINE g == [i \in c .. m |-> IF i = m THEN Leave(b, f[m - 1], log[m]) ELSE f[i]]
  <2>3. \A i \in c .. m - 1 : f[i] = IF i = c THEN LeftAlone ELSE Leave(b, f[i - 1], log[i])
    BY <2>2 DEF Steps
  <2>4. ASSUME NEW i \in c .. m
        PROVE  g[i] = IF i = c THEN LeftAlone ELSE Leave(b, g[i - 1], log[i])
    <3>1. CASE i = m
      <4>1. g[m] = Leave(b, f[m - 1], log[m]) /\ g[m - 1] = f[m - 1] /\ m # c
        BY <2>1
      <4> QED BY <3>1, <4>1
    <3>2. CASE i # m
      <4>1. i \in c .. m - 1 /\ g[i] = f[i] /\ (i # c => g[i - 1] = f[i - 1])
        BY <2>1, <3>2
      <4> QED BY <2>3, <4>1
    <3> QED BY <3>1, <3>2
  <2>5. g = [i \in c .. m |-> g[i]]
    OBVIOUS
  <2> HIDE DEF g
  <2>6. g = [i \in c .. m |-> IF i = c THEN LeftAlone ELSE Leave(b, g[i - 1], log[i])]
    BY <2>4, <2>5
  <2>7. Steps(b, g, m)
    BY <2>6 DEF Steps
  <2> QED BY <2>7, <1>2
<1> QED BY <1>3, <1>4

\* The rehearsal is the last of them.
LEMMA RehearsedIsLast ==
    ASSUME NEW b, cursor[b] \in Nat, Len(log) \in Nat, cursor[b] <= Len(log)
    PROVE  \E f : Steps(b, f, Len(log)) /\ Rehearsed(b) = f[Len(log)]
<1> DEFINE f == CHOOSE f : Steps(b, f, Len(log))
<1>1. Steps(b, f, Len(log))
  BY StepsExist
<1>2. Rehearsed(b) = f[Len(log)]
  BY DEF Rehearsed, Steps, LeftAlone
<1> QED BY <1>1, <1>2
\* Leave is of what the store holds of the backend's list.
LEMMA SameLeave ==
    ASSUME NEW b, held'[b] = held[b], known'[b] = known[b], NEW left,
           NEW i, log'[i] = log[i]
    PROVE  Leave(b, left, log[i])' = Leave(b, left, log[i])
<1>1. Destination(b, log[i])' = Destination(b, log[i])
  BY DEF Destination, OwnEntry, CountAt, Listed
<1>2. PICK to : to = Destination(b, log[i])
  OBVIOUS
<1>3. PICK before : before = Before(b, left, to.entry)
  OBVIOUS
<1>4. PICK after : after = Left(b, to, before)
  OBVIOUS
<1>5. Left(b, to, before)' = after
  BY <1>4 DEF Left, Departed, CountAt, Listed
<1>6. Before(b, left, to.entry)' = before
  BY <1>3 DEF Before
<1>7. Before(b, left, Destination(b, log[i]).entry)' = before
  BY <1>1, <1>2, <1>6 DEF Before
<1>8. Left(b, Destination(b, log[i]), Before(b, left, Destination(b, log[i]).entry))' = after
  BY <1>1, <1>2, <1>5, <1>7 DEF Left, Departed, CountAt, Listed
<1>9. Leave(b, left, log[i]) = IF to.by = "none" \/ after = None THEN left ELSE [left EXCEPT ![to.entry] = after]
  BY <1>2, <1>3, <1>4 DEF Leave
<1>10. Leave(b, left, log[i])' = IF to.by = "none" \/ after = None THEN left ELSE [left EXCEPT ![to.entry] = after]
  BY <1>1, <1>2, <1>8 DEF Leave
<1> QED BY <1>9, <1>10
\* The list is as the operations planned so far leave it, in what the service has.
InStep(b, left) == \A e \in Works : service[b][e] = Before(b, left, e)

\* A write w is on its way, that takes the list from left to next.
Between(b, w, left, next) ==
    \A e \in Works :
        /\ e = w.entry => Before(b, next, e) = w.standing
        /\ e # w.entry => Before(b, next, e) = Before(b, left, e)
        /\ service[b][e] \in {Before(b, left, e), Before(b, next, e)}

\* What one more operation leaves of an entry.
LEMMA LeaveAt ==
    ASSUME NEW b, NEW left, OnEntries(left), NEW op,
           NEW to, to = Destination(b, op), NEW after, after = Left(b, to, Before(b, left, to.entry))
    PROVE  /\ OnEntries(Leave(b, left, op))
           /\ \A e \in Works :
                 Before(b, Leave(b, left, op), e)
                    = IF to.by # "none" /\ after # None /\ e = to.entry THEN after ELSE Before(b, left, e)
<1>1. PICK next : next = Leave(b, left, op)
  OBVIOUS
<1>2. next = IF to.by = "none" \/ after = None THEN left ELSE [left EXCEPT ![to.entry] = after]
  BY <1>1 DEF Leave
<1>3. left = [e \in Entries |-> left[e]]
  BY DEF OnEntries
<1>4. CASE to.by = "none" \/ after = None
  BY <1>1, <1>2, <1>4
<1>5. CASE to.by # "none" /\ after # None
  <2>1. next = [left EXCEPT ![to.entry] = after]
    BY <1>2, <1>5
  <2>2. /\ next = [e \in Entries |-> next[e]]
        /\ \A e \in Entries : next[e] = IF e = to.entry THEN after ELSE left[e]
    BY <1>3, <2>1
  <2>3. \A e \in Works : Before(b, next, e) = IF e = to.entry THEN after ELSE Before(b, left, e)
    BY <1>5, <2>2, DeliveryAssumption DEF Before
  <2> QED BY <1>1, <1>5, <2>2, <2>3 DEF OnEntries
<1> QED BY <1>4, <1>5

\* What the sender decides is what the rehearsal says, where the list is in step.
LEMMA DecidesAsRehearsed ==
    ASSUME NEW b, NEW i, NEW left, OnEntries(left), InStep(b, left)
    PROVE  /\ NothingToWrite(b, i) => InStep(b, Leave(b, left, log[i]))
           /\ ~NothingToWrite(b, i) => Between(b, Decision(b, i), left, Leave(b, left, log[i]))
<1>1. PICK to : to = Destination(b, log[i])
  OBVIOUS
<1>2. PICK after, next : after = Left(b, to, Before(b, left, to.entry)) /\ next = Leave(b, left, log[i])
  OBVIOUS
<1>3. \A e \in Works :
         Before(b, next, e) = IF to.by # "none" /\ after # None /\ e = to.entry
                              THEN after ELSE Before(b, left, e)
  BY <1>1, <1>2, LeaveAt
<1>4. to.entry \in Works => service[b][to.entry] = Before(b, left, to.entry)
  BY DEF InStep
<1>5. PICK standing : standing = Left(b, to, service[b][to.entry])
  OBVIOUS
<1>6. to.entry \in Works => standing = after
  BY <1>2, <1>4, <1>5
<1>7. NothingToWrite(b, i) <=> to.by = "none" \/ standing = None
  BY <1>1, <1>5 DEF NothingToWrite
<1>8. ASSUME NothingToWrite(b, i) PROVE InStep(b, next)
  BY <1>3, <1>6, <1>7, <1>8 DEF InStep
<1>9. ASSUME ~NothingToWrite(b, i) PROVE Between(b, Decision(b, i), left, next)
  <2>1. PICK w : w = Decision(b, i)
    OBVIOUS
  <2>2. w.entry = to.entry /\ w.standing = standing
    BY <1>1, <1>5, <1>9, <2>1 DEF Decision
  <2>3. Between(b, w, left, next)
    BY <1>3, <1>6, <1>7, <1>9, <2>2 DEF Between, InStep
  <2> QED BY <2>1, <2>3
<1> QED BY <1>2, <1>8, <1>9

-----------------------------------------------------------------------------
\* The steps that are left of what the last dry run said.
Leads(b, f) ==
    /\ \A i \in cursor[b] .. foretold[b].upTo : OnEntries(f[i])
    /\ \A i \in cursor[b] + 1 .. foretold[b].upTo : f[i] = Leave(b, f[i - 1], log[i])
    /\ f[foretold[b].upTo] = foretold[b].left

\* Between two operations the list is as those steps leave it at the cursor, and
\* while a write is on its way it is so or as the next step leaves it.
OnTheWay(b, f) ==
    /\ (\A i \in Numbers : decided[b][i] = NoWrite) => InStep(b, f[cursor[b]])
    /\ cursor[b] < foretold[b].upTo =>
          \A i \in Numbers : decided[b][i] # NoWrite =>
              Between(b, decided[b][i], f[cursor[b]], f[i])

\* Nothing but the next operation is taken up while the dry run is good.
InOrder(b) ==
    /\ foretold[b].upTo \in 1 .. Len(log)
    /\ \A i \in Numbers : decided[b][i] # NoWrite => i = cursor[b] + 1

Foretelling(b) ==
    foretold[b].upTo > 0 =>
        /\ InOrder(b)
        /\ cursor[b] <= foretold[b].upTo => \E f : Leads(b, f) /\ OnTheWay(b, f)

\* What was answered is at the service.
AnsweredIsThere(b) ==
    sending[b].answered =>
        LET w == decided[b][sending[b].op] IN
        w.entry \in Works /\ service[b][w.entry] = w.standing

Rows ==
    /\ DOMAIN held = Backends
    /\ DOMAIN known = Backends
    /\ DOMAIN foretold = Backends

ForetoldHolds ==
    /\ Rows
    /\ \A b \in Backends : Foretelling(b) /\ AnsweredIsThere(b)

\* The steps that are left stay as the log grows and operations are finished.
LEMMA LeadsStays ==
    ASSUME NEW b, NEW f, foretold[b].upTo \in 1 .. Len(log), Leads(b, f),
           held'[b] = held[b], known'[b] = known[b], foretold'[b] = foretold[b],
           cursor[b] \in Nat, cursor'[b] \in Nat, cursor'[b] >= cursor[b],
           \A i \in 1 .. Len(log) : log'[i] = log[i],
           Len(log) \in Nat
    PROVE  Leads(b, f)'
<1>1. ASSUME NEW i \in cursor[b] + 1 .. foretold[b].upTo PROVE f[i] = Leave(b, f[i - 1], log[i])'
  <2>1. log'[i] = log[i]
    OBVIOUS
  <2>2. f[i] = Leave(b, f[i - 1], log[i])
    BY DEF Leads
  <2>3. PICK left : left = f[i - 1]
    OBVIOUS
  <2>4. Leave(b, left, log[i])' = Leave(b, left, log[i])
    BY <2>1, SameLeave
  <2> QED BY <2>2, <2>3, <2>4
<1>2. \A i \in cursor'[b] .. foretold'[b].upTo : OnEntries(f[i])'
  BY DEF Leads, OnEntries
<1>3. \A i \in cursor'[b] + 1 .. foretold'[b].upTo : f[i] = Leave(b, f[i - 1], log[i])'
  BY <1>1
<1>4. f[foretold'[b].upTo] = foretold'[b].left
  BY DEF Leads
<1> QED BY <1>2, <1>3, <1>4 DEF Leads

\* What a dry run said of a list that a step leaves alone.
LEMMA StaysForetold ==
    ASSUME NEW b, Foretelling(b),
           held'[b] = held[b], known'[b] = known[b], foretold'[b] = foretold[b],
           cursor'[b] = cursor[b], service'[b] = service[b],
           \A i \in Numbers : decided'[b][i] = decided[b][i],
           \A i \in 1 .. Len(log) : log'[i] = log[i],
           Len(log) \in Nat, Len(log') \in Nat, Len(log') >= Len(log), cursor[b] \in Nat
    PROVE  Foretelling(b)'
<1>1. SUFFICES ASSUME foretold[b].upTo > 0 PROVE Foretelling(b)'
  BY DEF Foretelling
<1>2. InOrder(b) /\ InOrder(b)'
  BY <1>1 DEF Foretelling, InOrder, Numbers
<1>3. ASSUME cursor[b] <= foretold[b].upTo PROVE \E f : Leads(b, f)' /\ OnTheWay(b, f)'
  <2>1. PICK f : Leads(b, f) /\ OnTheWay(b, f)
    BY <1>1, <1>3 DEF Foretelling
  <2>2. Leads(b, f)'
    BY <1>2, <2>1, LeadsStays DEF InOrder
  <2>3. OnTheWay(b, f)'
    <3>1. (\A i \in Numbers : decided'[b][i] = NoWrite) => InStep(b, f[cursor[b]])'
      BY <2>1 DEF OnTheWay, InStep, Before
    <3>2. ASSUME NEW i \in Numbers, cursor[b] < foretold[b].upTo, decided[b][i] # NoWrite
          PROVE  Between(b, decided[b][i], f[cursor[b]], f[i])'
      <4>1. Between(b, decided[b][i], f[cursor[b]], f[i])
        BY <2>1, <3>2 DEF OnTheWay
      <4> QED BY <4>1 DEF Between, Before
    <3> QED BY <3>1, <3>2 DEF OnTheWay, Numbers
  <2> QED BY <2>2, <2>3
<1> QED BY <1>1, <1>2, <1>3 DEF Foretelling

\* The next operation is finished, and the list is as the step of it leaves it.
LEMMA FinishedForetold ==
    ASSUME PlacesHold, NEW b \in Backends, NEW i \in 1 .. Len(log), i = cursor[b] + 1,
           Foretelling(b),
           \A j \in Numbers : decided[b][j] # NoWrite => j = i,
           decided' = ForgetDecided(b, i), cursor' = Advance(b, i),
           UNCHANGED <<log, held, known, service>>, foretold'[b] = foretold[b],
           ASSUME NEW f, Leads(b, f), OnTheWay(b, f),
                  foretold[b].upTo \in Nat, i <= foretold[b].upTo
           PROVE  InStep(b, f[i])
    PROVE  Foretelling(b)'
<1>1. SUFFICES ASSUME foretold[b].upTo > 0 PROVE Foretelling(b)'
  BY DEF Foretelling
<1>2. /\ cursor[b] \in Nat /\ Len(log) \in Nat /\ foretold[b].upTo \in 1 .. Len(log)
      /\ i \in Numbers
  BY <1>1, PlacesAssumption DEF PlacesHold, InLog, Foretelling, InOrder, Numbers
<1>3. cursor'[b] = i
  BY <1>2 DEF Advance, Larger, PlacesHold, InLog
<1>4. \A j \in Numbers : decided'[b][j] = NoWrite
  <2>1. decided' = Put(decided, b, i, NoWrite) /\ Table(decided)
    BY DEF ForgetDecided, Put, PlacesHold, InLog
  <2> QED BY <1>2, <2>1, OneEntry
<1>5. InOrder(b)'
  BY <1>2, <1>4 DEF InOrder, Numbers
<1>6. ASSUME i <= foretold[b].upTo PROVE \E f : Leads(b, f)' /\ OnTheWay(b, f)'
  <2>1. PICK f : Leads(b, f) /\ OnTheWay(b, f)
    BY <1>1, <1>2, <1>6 DEF Foretelling
  <2>2. Leads(b, f)'
    BY <1>2, <1>3, <2>1, LeadsStays
  <2>3. InStep(b, f[i])
    BY <1>2, <1>6, <2>1
  <2>4. OnTheWay(b, f)'
    BY <1>3, <1>4, <2>3 DEF OnTheWay, InStep, Before, Numbers
  <2> QED BY <2>2, <2>4
<1> QED BY <1>1, <1>3, <1>5, <1>6 DEF Foretelling
\* A list that a step leaves alone, but for what its sender may put down.
LEMMA AloneForetold ==
    ASSUME PlacesHold, ForetoldHolds, NEW b \in Backends,
           held'[b] = held[b], known'[b] = known[b], foretold'[b] = foretold[b],
           cursor'[b] = cursor[b], service'[b] = service[b],
           \A i \in Numbers : decided'[b][i] = decided[b][i],
           sending'[b] = sending[b] \/ ~sending'[b].answered,
           log' = log \/ \E o : log' = Append(log, o)
    PROVE  Foretelling(b)' /\ AnsweredIsThere(b)'
<1>1. /\ log \in Seq(Operations) /\ cursor[b] \in Nat
      /\ sending[b].answered => sending[b].op \in Numbers
  BY PlacesAssumption DEF PlacesHold, InLog, Numbers
<1>2. /\ Len(log) \in Nat /\ Len(log') \in Nat /\ Len(log') >= Len(log)
      /\ \A i \in 1 .. Len(log) : log'[i] = log[i]
  <2>1. CASE log' = log
    BY <1>1, <2>1
  <2>2. ASSUME NEW o, log' = Append(log, o)
        PROVE  /\ Len(log) \in Nat /\ Len(log') \in Nat /\ Len(log') >= Len(log)
               /\ \A i \in 1 .. Len(log) : log'[i] = log[i]
    <3>1. log \in Seq(Operations \cup {o}) /\ o \in Operations \cup {o}
      BY <1>1
    <3> QED BY <2>2, <3>1
  <2> QED BY <2>1, <2>2
<1>3. Foretelling(b)'
  BY <1>1, <1>2, StaysForetold DEF ForetoldHolds
<1>4. AnsweredIsThere(b)'
  <2>1. AnsweredIsThere(b)
    BY DEF ForetoldHolds
  <2> QED BY <1>1, <2>1 DEF AnsweredIsThere
<1> QED BY <1>3, <1>4

\* What a dry run said is no longer kept.
LEMMA ForgottenForetold ==
    ASSUME NEW b, foretold'[b] = NoDryRun
    PROVE  Foretelling(b)'
BY DEF Foretelling, NoDryRun

LEMMA RegistersForetold ==
    ASSUME PlacesHold, ForetoldHolds, NEW o \in Operations, Registers(o)
    PROVE  ForetoldHolds'
<1>1. /\ UNCHANGED <<cursor, decided, held, known, service, foretold, sending>>
      /\ log' = Append(log, o)
  BY DEF Registers, Enqueue, listVars
<1>2. Rows'
  BY <1>1 DEF ForetoldHolds, Rows
<1> QED BY <1>1, <1>2, AloneForetold DEF ForetoldHolds

\* The sender, or every one, puts down what it has.
LEMMA PutDownForetold ==
    ASSUME PlacesHold, ForetoldHolds,
           UNCHANGED <<placeVars, listVars, foretold>>,
           \A b \in Backends : sending'[b] = sending[b] \/ ~sending'[b].answered
    PROVE  ForetoldHolds'
<1>1. Rows'
  BY DEF ForetoldHolds, Rows, listVars
<1> QED BY <1>1, AloneForetold DEF ForetoldHolds, placeVars, listVars

LEMMA ArrivesForetold ==
    ASSUME PlacesHold, ChangesHold, ForetoldHolds, NEW b \in Backends, Arrives(b),
           NEW i, i = sending[b].op, NEW write, write = decided[b][i]
    PROVE  /\ Rows' /\ \A c \in Backends : Foretelling(c)'
           /\ write.entry \in Works /\ service'[b][write.entry] = write.standing
<1>1. /\ i \in Numbers /\ write # NoWrite /\ write.entry \in Works
      /\ ServiceTable /\ ServiceTable'
      /\ \A c \in Backends : \A e \in Entries :
            service'[c][e] = IF c = b /\ e = write.entry THEN write.standing ELSE service[c][e]
  BY ArrivesAt DEF ChangesHold
<1>2. UNCHANGED <<placeVars, held, known, foretold>>
  BY DEF Arrives
<1>3. \A e \in Works : service'[b][e] = IF e = write.entry THEN write.standing ELSE service[b][e]
  BY <1>1, DeliveryAssumption
<1>4. ASSUME NEW c \in Backends, c # b PROVE Foretelling(c)'
  <2>1. service'[c] = service[c]
    <3>1. [e \in Entries |-> service'[c][e]] = [e \in Entries |-> service[c][e]]
      BY <1>1, <1>4
    <3> QED BY <1>1, <3>1 DEF ServiceTable
  <2>2. cursor[c] \in Nat /\ Len(log) \in Nat
    BY DEF PlacesHold, InLog
  <2>3. Foretelling(c)
    BY DEF ForetoldHolds
  <2> QED BY <1>2, <2>1, <2>2, <2>3, StaysForetold DEF placeVars
<1>5. Foretelling(b)'
  <2>1. SUFFICES ASSUME foretold[b].upTo > 0 PROVE Foretelling(b)'
    BY <1>2 DEF Foretelling
  <2>2. InOrder(b)
    BY <2>1 DEF ForetoldHolds, Foretelling
  <2>3. InOrder(b)'
    BY <1>2, <2>2 DEF InOrder, placeVars, Numbers
  <2>4. ASSUME cursor[b] <= foretold[b].upTo PROVE \E f : Leads(b, f)' /\ OnTheWay(b, f)'
    <3>1. PICK f : Leads(b, f) /\ OnTheWay(b, f)
      BY <2>1, <2>4 DEF ForetoldHolds, Foretelling
    <3>2. Leads(b, f)'
      <4>1. cursor[b] \in Nat /\ Len(log) \in Nat
        BY DEF PlacesHold, InLog
      <4> QED BY <1>2, <2>2, <3>1, <4>1, LeadsStays DEF InOrder, placeVars
    <3>3. ~ \A j \in Numbers : decided'[b][j] = NoWrite
      BY <1>1, <1>2 DEF placeVars
    <3>4. ASSUME cursor[b] < foretold[b].upTo, NEW j \in Numbers, decided[b][j] # NoWrite
          PROVE  Between(b, decided[b][j], f[cursor[b]], f[j])'
      <4>1. Between(b, decided[b][j], f[cursor[b]], f[j])
        BY <3>1, <3>4 DEF OnTheWay
      <4>2. j = i
        BY <1>1, <2>2, <3>4 DEF InOrder
      <4>3. PICK left, next : left = f[cursor[b]] /\ next = f[j]
        OBVIOUS
      <4>4. \A e : Before(b, left, e)' = Before(b, left, e) /\ Before(b, next, e)' = Before(b, next, e)
        BY <1>2 DEF Before
      <4>5. \A e \in Works :
               /\ e = write.entry => Before(b, next, e) = write.standing
               /\ e # write.entry => Before(b, next, e) = Before(b, left, e)
               /\ service[b][e] \in {Before(b, left, e), Before(b, next, e)}
        BY <4>1, <4>2, <4>3 DEF Between
      <4>6. \A e \in Works : service'[b][e] \in {Before(b, left, e), Before(b, next, e)}
        BY <1>3, <4>5
      <4>7. Between(b, write, left, next)'
        BY <4>4, <4>5, <4>6 DEF Between
      <4>8. cursor' = cursor /\ decided' = decided
        BY <1>2 DEF placeVars
      <4> QED BY <4>2, <4>3, <4>7, <4>8 DEF Between, Before
    <3>5. OnTheWay(b, f)'
      BY <1>2, <3>3, <3>4 DEF OnTheWay, placeVars, Numbers
    <3> QED BY <3>2, <3>5
  <2> QED BY <1>2, <2>1, <2>3, <2>4 DEF Foretelling, placeVars
<1>6. Rows'
  BY <1>2 DEF ForetoldHolds, Rows
<1>7. service'[b][write.entry] = write.standing
  BY <1>1, <1>3
<1> QED BY <1>1, <1>4, <1>5, <1>6, <1>7
LEMMA AnsweredForetold ==
    ASSUME PlacesHold, ChangesHold, ForetoldHolds, NEW b \in Backends,
           Answered(b) \/ AnswerIsLost(b)
    PROVE  ForetoldHolds'
<1>1. Arrives(b) /\ UNCHANGED <<decided, cursor, aside, log>>
  BY DEF Answered, AnswerIsLost, Arrives, placeVars
<1>2. PICK i, write : i = sending[b].op /\ write = decided[b][i]
  OBVIOUS
<1>3. /\ Rows' /\ \A c \in Backends : Foretelling(c)'
      /\ write.entry \in Works /\ service'[b][write.entry] = write.standing
  BY <1>1, <1>2, ArrivesForetold
<1>4. ASSUME NEW c \in Backends PROVE AnsweredIsThere(c)'
  <2>1. /\ sending'[b].op = i \/ ~sending'[b].answered
        /\ \A d \in Backends : d # b => sending'[d] = sending[d]
    BY <1>2 DEF Answered, AnswerIsLost, PlacesHold, InLog, AtRest
  <2>2. CASE c = b
    BY <1>1, <1>2, <1>3, <2>1, <2>2 DEF AnsweredIsThere
  <2>3. CASE c # b
    <3>1. \A e \in Works : service'[c][e] = service[c][e]
      BY <1>1, <1>2, <2>3, ArrivesAt, DeliveryAssumption
    <3>2. AnsweredIsThere(c)
      BY DEF ForetoldHolds
    <3> QED BY <1>1, <2>1, <2>3, <3>1, <3>2 DEF AnsweredIsThere
  <2> QED BY <2>2, <2>3
<1> QED BY <1>3, <1>4 DEF ForetoldHolds

\* A list is filed, or the user takes an entry off: the dry run is forgotten.
LEMMA FilesForetold ==
    ASSUME PlacesHold, ChangesHold, ForetoldHolds, NEW b \in Backends,
           Files(b) \/ \E e \in Entries : Removes(b, e)
    PROVE  ForetoldHolds'
<1>1. /\ UNCHANGED <<placeVars, sending>>
      /\ foretold' = [foretold EXCEPT ![b] = NoDryRun]
      /\ \/ held' = [held EXCEPT ![b] = service[b]]
         \/ held' = held
      /\ DOMAIN known' = DOMAIN known
      /\ \A c \in Backends : c # b => known'[c] = known[c]
      /\ \A c \in Backends : c # b => service'[c] = service[c]
      /\ service' = service \/ sending[b] = AtRest
  <2>1. DOMAIN known = Backends /\ DOMAIN service = Backends
    BY DEF ForetoldHolds, Rows, ChangesHold, ServiceTable
  <2>2. CASE Files(b)
    BY <2>1, <2>2 DEF Files
  <2>3. ASSUME NEW e \in Entries, Removes(b, e)
        PROVE  /\ UNCHANGED <<placeVars, sending, held, known>>
               /\ foretold' = [foretold EXCEPT ![b] = NoDryRun]
               /\ \A c \in Backends : c # b => service'[c] = service[c]
               /\ sending[b] = AtRest
    BY <2>1, <2>3 DEF Removes
  <2> QED BY <2>2, <2>3
<1>2. Rows'
  BY <1>1 DEF ForetoldHolds, Rows
<1>3. ASSUME NEW c \in Backends, c # b PROVE Foretelling(c)' /\ AnsweredIsThere(c)'
  <2>1. /\ held'[c] = held[c] /\ known'[c] = known[c] /\ foretold'[c] = foretold[c]
        /\ service'[c] = service[c]
    BY <1>1, <1>3 DEF ForetoldHolds, Rows
  <2> QED BY <1>1, <2>1, AloneForetold DEF placeVars
<1>4. Foretelling(b)'
  BY <1>1, ForgottenForetold DEF ForetoldHolds, Rows
<1>5. AnsweredIsThere(b)'
  BY <1>1 DEF ForetoldHolds, AnsweredIsThere, placeVars, AtRest
<1> QED BY <1>2, <1>3, <1>4, <1>5 DEF ForetoldHolds

\* A sender finishes what it has in its hands, which is the next operation while
\* a dry run is good, and the others' lists stay.
LEMMA HandsForetold ==
    ASSUME PlacesHold, ForetoldHolds, NEW b \in Backends, NEW i \in 1 .. Len(log),
           decided[b][i] # NoWrite, \A j \in Numbers : decided[b][j] # NoWrite => j = i,
           log' = log, decided' = ForgetDecided(b, i), cursor' = Advance(b, i),
           UNCHANGED <<listVars, foretold>>, sending' = [sending EXCEPT ![b] = AtRest],
           \/ decided[b][i].entry \notin Works
           \/ service[b][decided[b][i].entry] = decided[b][i].standing
    PROVE  ForetoldHolds'
<1>1. /\ i \in Numbers /\ Table(decided)
      /\ \A c \in Backends : c # b => cursor'[c] = cursor[c] /\ sending'[c] = sending[c]
      /\ ~sending'[b].answered
  BY PlacesAssumption DEF PlacesHold, InLog, Advance, AtRest, Numbers
<1>2. \A c \in Backends : \A j \in Numbers : c # b => decided'[c][j] = decided[c][j]
  <2>1. decided' = Put(decided, b, i, NoWrite)
    BY DEF ForgetDecided, Put
  <2> QED BY <1>1, <2>1, OneEntry
<1>3. Rows'
  BY DEF ForetoldHolds, Rows, listVars
<1>4. ASSUME NEW c \in Backends, c # b PROVE Foretelling(c)' /\ AnsweredIsThere(c)'
  BY <1>1, <1>2, <1>4, AloneForetold DEF listVars
<1>5. Foretelling(b)'
  <2>1. SUFFICES ASSUME foretold[b].upTo > 0 PROVE Foretelling(b)'
    BY DEF Foretelling
  <2>2. i = cursor[b] + 1 /\ Foretelling(b)
    BY <1>1, <2>1 DEF ForetoldHolds, Foretelling, InOrder
  <2>3. ASSUME NEW f, Leads(b, f), OnTheWay(b, f), i <= foretold[b].upTo PROVE InStep(b, f[i])
    <3>1. cursor[b] < foretold[b].upTo
      BY <2>1, <2>2, <2>3 DEF PlacesHold, InLog, Foretelling, InOrder
    <3>2. Between(b, decided[b][i], f[cursor[b]], f[i])
      BY <1>1, <2>3, <3>1 DEF OnTheWay
    <3> QED BY <3>2 DEF Between, InStep
  <2>4. UNCHANGED <<log, held, known, service>> /\ foretold'[b] = foretold[b]
    BY DEF listVars
  <2> QED BY <2>2, <2>3, <2>4, FinishedForetold
<1>6. AnsweredIsThere(b)'
  BY <1>1 DEF AnsweredIsThere
<1> QED BY <1>3, <1>4, <1>5, <1>6 DEF ForetoldHolds

LEMMA HasNoWorkForetold ==
    ASSUME PlacesHold, ForetoldHolds, NEW b \in Backends, HasNoWork(b)
    PROVE  ForetoldHolds'
<1>1. PICK i : i = sending[b].op
  OBVIOUS
<1>2. i \in Numbers /\ \A j \in Numbers : decided[b][j] # NoWrite => j = i
  BY <1>1, FinishedIsOpen DEF HasNoWork
<1>3. /\ i \in 1 .. Len(log) /\ decided[b][i] # NoWrite /\ decided[b][i].entry \notin Works
      /\ log' = log /\ decided' = ForgetDecided(b, i) /\ cursor' = Advance(b, i)
      /\ UNCHANGED <<listVars, foretold>> /\ sending' = [sending EXCEPT ![b] = AtRest]
  BY <1>1 DEF HasNoWork, SetAside
<1> QED BY <1>2, <1>3, HandsForetold

LEMMA ConfirmForetold ==
    ASSUME PlacesHold, ForetoldHolds, NEW b \in Backends, Confirm(b)
    PROVE  ForetoldHolds'
<1>1. PICK i : i = sending[b].op
  OBVIOUS
<1>2. i # 0 /\ decided[b][i] # NoWrite
  BY <1>1 DEF Confirm, PlacesHold, InLog
<1>3. i \in Numbers /\ \A j \in Numbers : decided[b][j] # NoWrite => j = i
  BY <1>1, <1>2, FinishedIsOpen
<1>4. /\ i \in 1 .. Len(log)
      /\ log' = log /\ decided' = ForgetDecided(b, i) /\ cursor' = Advance(b, i)
      /\ UNCHANGED <<listVars, foretold>> /\ sending' = [sending EXCEPT ![b] = AtRest]
  BY <1>1 DEF Confirm, Delivered
<1>5. service[b][decided[b][i].entry] = decided[b][i].standing
  BY <1>1 DEF Confirm, ForetoldHolds, AnsweredIsThere
<1> QED BY <1>2, <1>3, <1>4, <1>5, HandsForetold
\* An operation is taken up: the next one is decided as the dry run said, and one
\* that was set aside is none it spoke of.
LEMMA TakeUpForetold ==
    ASSUME PlacesHold, ForetoldHolds, NEW b \in Backends, NEW i \in Numbers, TakeUp(b, i)
    PROVE  ForetoldHolds'
<1>1. /\ sending[b] = AtRest /\ i \in 1 .. Len(log) /\ MayTake(b, i)
      /\ Heeds(b, i) /\ UNCHANGED listVars
  BY DEF TakeUp
<1>2. /\ cursor[b] \in Nat /\ Len(log) \in Nat /\ Table(decided)
      /\ i = cursor[b] + 1 \/ i \in aside[b]
      /\ \A j \in aside[b] : j <= cursor[b]
      /\ \A j \in Numbers : decided[b][j] # NoWrite => j = i
      /\ \A c \in Backends : sending[c] \in [op : 0 .. MaxLog, answered : BOOLEAN]
  BY <1>1, TakenIsOpen DEF PlacesHold, InLog
<1>3. foretold'[b] = (IF i > cursor[b] THEN foretold[b] ELSE NoDryRun)
      /\ \A c \in Backends : c # b => foretold'[c] = foretold[c]
  BY <1>1 DEF Heeds, ForetoldHolds, Rows
<1>4. Rows'
  BY <1>1 DEF Heeds, ForetoldHolds, Rows, listVars
<1>5. /\ ~sending'[b].answered
      /\ \A c \in Backends : c # b => sending'[c] = sending[c]
  <2>1. sending' = [sending EXCEPT ![b].op = i] \/ sending' = sending
    BY DEF TakeUp
  <2>2. sending \in [Backends -> [op : 0 .. MaxLog, answered : BOOLEAN]]
    BY DEF PlacesHold, InLog
  <2>3. CASE sending' = [sending EXCEPT ![b].op = i]
    <3>1. sending'[b] = [sending[b] EXCEPT !.op = i]
      BY <2>2, <2>3
    <3>2. sending'[b].answered = sending[b].answered
      BY <1>2, <3>1
    <3> QED BY <1>1, <2>2, <2>3, <3>2 DEF AtRest
  <2>4. CASE sending' = sending
    BY <1>1, <2>4 DEF AtRest
  <2> QED BY <2>1, <2>3, <2>4
<1>6. AnsweredIsThere(b)'
  BY <1>5 DEF AnsweredIsThere
<1>7. Foretelling(b)
  BY DEF ForetoldHolds
<1>8. CASE KeptWrite(b, i) # NoWrite /\ UNCHANGED placeVars
  <2>1. CASE i > cursor[b]
    <3>1. foretold'[b] = foretold[b]
      BY <1>3, <2>1
    <3> QED BY <1>1, <1>3, <1>4, <1>5, <1>8, <3>1, AloneForetold DEF ForetoldHolds, placeVars, listVars
  <2>2. CASE ~(i > cursor[b])
    <3>1. Foretelling(b)'
      BY <1>3, <2>2, ForgottenForetold
    <3>2. ASSUME NEW c \in Backends, c # b PROVE Foretelling(c)' /\ AnsweredIsThere(c)'
      BY <1>1, <1>3, <1>5, <1>8, <3>2, AloneForetold DEF placeVars, listVars
    <3> QED BY <1>4, <1>6, <3>1, <3>2 DEF ForetoldHolds
  <2> QED BY <2>1, <2>2
<1>9. ASSUME KeptWrite(b, i) = NoWrite, log' = log,
             \A c \in Backends : c # b =>
                 /\ cursor'[c] = cursor[c]
                 /\ \A j \in Numbers : decided'[c][j] = decided[c][j],
             i = cursor[b] + 1 => Foretelling(b)'
      PROVE  ForetoldHolds'
  <2>1. ASSUME NEW c \in Backends, c # b PROVE Foretelling(c)' /\ AnsweredIsThere(c)'
    BY <1>1, <1>3, <1>5, <1>9, <2>1, AloneForetold DEF listVars
  <2>2. CASE i = cursor[b] + 1
    BY <1>4, <1>6, <1>9, <2>1, <2>2 DEF ForetoldHolds
  <2>3. CASE i # cursor[b] + 1
    <3>1. ~(i > cursor[b])
      BY <1>2, <2>3 DEF Numbers
    <3>2. Foretelling(b)'
      BY <1>3, <3>1, ForgottenForetold
    <3> QED BY <1>4, <1>6, <2>1, <3>2 DEF ForetoldHolds
  <2> QED BY <2>2, <2>3
<1>10. KeptWrite(b, i) = NoWrite => \A j \in Numbers : decided[b][j] = NoWrite
  BY <1>2 DEF KeptWrite
<1>11. CASE /\ KeptWrite(b, i) = NoWrite /\ Decision(b, i) # NoWrite
            /\ Decide(b, i, Decision(b, i))
  <2>1. PICK w : w = Decision(b, i)
    OBVIOUS
  <2>2. w # NoWrite /\ decided' = Put(decided, b, i, w) /\ UNCHANGED <<log, cursor, aside>>
    BY <1>11, <2>1 DEF Decide, Put
  <2>3. \A c \in Backends : \A j \in Numbers :
            decided'[c][j] = IF c = b /\ j = i THEN w ELSE decided[c][j]
    BY <1>2, <2>2, OneEntry
  <2>4. ASSUME i = cursor[b] + 1 PROVE Foretelling(b)'
    <3>1. SUFFICES ASSUME foretold[b].upTo > 0 PROVE Foretelling(b)'
      BY <1>2, <1>3, <2>4 DEF Foretelling
    <3>2. foretold'[b] = foretold[b]
      BY <1>2, <1>3, <2>4
    <3>3. InOrder(b)
      BY <1>7, <3>1 DEF Foretelling
    <3>4. InOrder(b)'
      BY <1>2, <1>10, <1>11, <2>2, <2>3, <2>4, <3>2, <3>3 DEF InOrder, Numbers
    <3>5. ASSUME cursor[b] <= foretold[b].upTo PROVE \E f : Leads(b, f)' /\ OnTheWay(b, f)'
      <4>1. PICK f : Leads(b, f) /\ OnTheWay(b, f)
        BY <1>7, <3>1, <3>5 DEF Foretelling
      <4>2. Leads(b, f)'
        BY <1>1, <1>2, <2>2, <3>2, <3>3, <4>1, LeadsStays DEF InOrder, listVars
      <4>3. PICK left : left = f[cursor[b]]
        OBVIOUS
      <4>4. InStep(b, left) /\ OnEntries(left)
        BY <1>2, <1>10, <1>11, <3>3, <3>5, <4>1, <4>3 DEF OnTheWay, Leads, InOrder
      <4>5. ASSUME cursor[b] < foretold[b].upTo PROVE Between(b, w, left, f[i])'
        <5>1. f[i] = Leave(b, left, log[i])
          BY <1>2, <2>4, <3>3, <4>1, <4>3, <4>5 DEF Leads, InOrder
        <5>2. ~NothingToWrite(b, i)
          BY <2>1, <2>2 DEF Decision
        <5>3. Between(b, w, left, f[i])
          BY <2>1, <4>4, <5>1, <5>2, DecidesAsRehearsed
        <5>4. held' = held /\ service' = service
          BY <1>1 DEF listVars
        <5> QED BY <5>3, <5>4 DEF Between, Before
      <4>6. \A j \in Numbers : decided'[b][j] # NoWrite <=> j = i
        BY <1>10, <1>11, <2>2, <2>3
      <4>7. decided'[b][i] = w /\ f[cursor'[b]] = left
        BY <2>2, <2>3, <4>3
      <4>8. OnTheWay(b, f)'
        <5>1. ~ \A j \in Numbers : decided'[b][j] = NoWrite
          BY <4>6
        <5>2. ASSUME cursor'[b] < foretold'[b].upTo, NEW j \in Numbers, decided'[b][j] # NoWrite
              PROVE  Between(b, decided[b][j], f[cursor[b]], f[j])'
          <6>1. Between(b, w, left, f[i])'
            BY <2>2, <3>2, <4>5, <5>2
          <6>2. j = i
            BY <4>6, <5>2
          <6> QED BY <4>7, <6>1, <6>2 DEF Between, Before
        <5> QED BY <5>1, <5>2 DEF OnTheWay, Numbers
      <4> QED BY <4>2, <4>8
    <3> QED BY <2>2, <3>1, <3>2, <3>4, <3>5 DEF Foretelling
  <2> QED BY <1>9, <1>11, <2>2, <2>3, <2>4
<1>12. CASE KeptWrite(b, i) = NoWrite /\ NothingToWrite(b, i) /\ SetAside(b, i)
  <2>1. log' = log /\ decided' = ForgetDecided(b, i) /\ cursor' = Advance(b, i)
    BY <1>12 DEF SetAside
  <2>2. \A c \in Backends : c # b =>
            cursor'[c] = cursor[c] /\ \A j \in Numbers : decided'[c][j] = decided[c][j]
    <3>1. decided' = Put(decided, b, i, NoWrite)
      BY <2>1 DEF ForgetDecided, Put
    <3> QED BY <1>2, <2>1, <3>1, OneEntry DEF Advance, PlacesHold, InLog
  <2>3. ASSUME i = cursor[b] + 1 PROVE Foretelling(b)'
    <3>1. foretold'[b] = foretold[b] /\ UNCHANGED <<log, held, known, service>>
      BY <1>1, <1>2, <1>3, <2>1, <2>3 DEF listVars
    <3>2. ASSUME NEW f, Leads(b, f), OnTheWay(b, f),
                 foretold[b].upTo \in Nat, i <= foretold[b].upTo
          PROVE  InStep(b, f[i])
      <4>2. PICK left : left = f[cursor[b]]
        OBVIOUS
      <4>3. InStep(b, left) /\ OnEntries(left)
        BY <1>2, <1>10, <1>12, <2>3, <3>2, <4>2 DEF OnTheWay, Leads
      <4>4. f[i] = Leave(b, left, log[i])
        BY <1>2, <2>3, <3>2, <4>2 DEF Leads
      <4> QED BY <1>12, <4>3, <4>4, DecidesAsRehearsed
    <3> QED BY <1>1, <1>2, <1>7, <2>1, <2>3, <3>1, <3>2, FinishedForetold
  <2> QED BY <1>9, <1>12, <2>1, <2>2, <2>3
<1> QED BY <1>8, <1>11, <1>12 DEF TakeUp
\* A dry run reads a list that is filed as it is, with nothing decided.
LEMMA DryRunForetold ==
    ASSUME PlacesHold, ChangesHold, ForetoldHolds, NEW b \in Backends, DryRun(b)
    PROVE  ForetoldHolds'
<1>1. /\ held[b] = service[b] /\ \A i \in Numbers : decided[b][i] = NoWrite
      /\ foretold' = [foretold EXCEPT ![b] = [upTo |-> Len(log), left |-> Rehearsed(b)]]
      /\ UNCHANGED <<placeVars, listVars, sending>>
  BY DEF DryRun
<1>2. cursor[b] \in Nat /\ Len(log) \in Nat /\ cursor[b] <= Len(log)
  BY DEF PlacesHold, InLog
<1>3. /\ foretold'[b].upTo = Len(log) /\ foretold'[b].left = Rehearsed(b)
      /\ \A c \in Backends : c # b => foretold'[c] = foretold[c]
      /\ Rows'
  BY <1>1 DEF ForetoldHolds, Rows, listVars
<1>4. ASSUME NEW c \in Backends, c # b PROVE Foretelling(c)' /\ AnsweredIsThere(c)'
  BY <1>1, <1>3, <1>4, AloneForetold DEF placeVars, listVars
<1>5. AnsweredIsThere(b)'
  BY <1>1 DEF ForetoldHolds, AnsweredIsThere, placeVars, listVars
<1>6. Foretelling(b)'
  <2>1. PICK f : Steps(b, f, Len(log)) /\ Rehearsed(b) = f[Len(log)]
    BY <1>2, RehearsedIsLast
  <2>2. \A i \in cursor[b] .. Len(log) :
           f[i] = IF i = cursor[b] THEN LeftAlone ELSE Leave(b, f[i - 1], log[i])
    BY <2>1 DEF Steps
  <2>3. \A i \in cursor[b] + 1 .. Len(log) : f[i] = Leave(b, f[i - 1], log[i])
    BY <1>2, <2>2
  <2>4. f[cursor[b]] = LeftAlone
    BY <1>2, <2>2
  <2>5. \A i \in cursor[b] .. Len(log) : OnEntries(f[i])
    <3> DEFINE T == {i \in Nat : i \in cursor[b] .. Len(log) /\ ~ OnEntries(f[i])}
    <3>1. SUFFICES ASSUME T # {} PROVE FALSE
      BY <1>2
    <3>2. PICK i \in T : \A j \in T : i <= j
      BY <3>1, LeastOf
    <3>3. CASE i = cursor[b]
      BY <2>4, <3>2, <3>3 DEF OnEntries, LeftAlone
    <3>4. CASE i # cursor[b]
      <4>1. i - 1 \in cursor[b] .. Len(log) /\ i - 1 \notin T /\ i - 1 \in Nat
        BY <1>2, <3>2, <3>4
      <4>2. OnEntries(f[i - 1]) /\ f[i] = Leave(b, f[i - 1], log[i])
        BY <1>2, <2>3, <3>2, <3>4, <4>1
      <4>3. PICK left : left = f[i - 1]
        OBVIOUS
      <4>4. OnEntries(Leave(b, left, log[i]))
        BY <4>2, <4>3, LeaveAt
      <4> QED BY <3>2, <4>2, <4>3, <4>4
    <3> QED BY <3>3, <3>4
  <2>6. \A e \in Works : service[b][e] = Before(b, LeftAlone, e)
    BY <1>1, DeliveryAssumption DEF Before, LeftAlone
  <2>7. UNCHANGED <<log, cursor, decided, aside, service, held, known>>
    BY <1>1 DEF placeVars, listVars
  <2>8. ASSUME NEW i \in cursor[b] + 1 .. Len(log) PROVE f[i] = Leave(b, f[i - 1], log[i])'
    <3>1. PICK left : left = f[i - 1]
      OBVIOUS
    <3>2. Leave(b, left, log[i])' = Leave(b, left, log[i])
      BY <2>7, SameLeave
    <3> QED BY <2>3, <3>1, <3>2
  <2>9. Leads(b, f)'
    <3>1. \A i \in cursor'[b] .. foretold'[b].upTo : OnEntries(f[i])'
      BY <1>3, <2>5, <2>7 DEF OnEntries
    <3>2. \A i \in cursor'[b] + 1 .. foretold'[b].upTo : f[i] = Leave(b, f[i - 1], log[i])'
      BY <1>3, <2>7, <2>8
    <3> QED BY <1>3, <2>1, <3>1, <3>2 DEF Leads
  <2>10. OnTheWay(b, f)'
    <3>1. InStep(b, f[cursor[b]])'
      BY <2>4, <2>6, <2>7 DEF InStep, Before
    <3>2. \A i \in Numbers : decided'[b][i] = NoWrite
      BY <1>1, <2>7
    <3> QED BY <3>1, <3>2 DEF OnTheWay, Numbers
  <2>11. foretold'[b].upTo > 0 => InOrder(b)'
    BY <1>1, <1>2, <1>3, <2>7 DEF InOrder, Numbers
  <2> QED BY <2>9, <2>10, <2>11 DEF Foretelling
<1> QED BY <1>3, <1>4, <1>5, <1>6 DEF ForetoldHolds

LEMMA ForetoldHoldsAtFirst == Init => ForetoldHolds
<1> SUFFICES ASSUME Init PROVE ForetoldHolds
  OBVIOUS
<1>1. /\ foretold = [b \in Backends |-> NoDryRun] /\ sending = [b \in Backends |-> AtRest]
      /\ held = service /\ DOMAIN known = Backends
      /\ \E list \in FirstLists : service = [b \in Backends |-> list]
  BY DEF Init
<1>2. Rows
  BY <1>1 DEF Rows
<1> QED BY <1>1, <1>2 DEF ForetoldHolds, Foretelling, AnsweredIsThere, NoDryRun, AtRest

LEMMA NextKeepsForetold == PlacesHold /\ ChangesHold /\ ForetoldHolds /\ [Next]_vars => ForetoldHolds'
<1> SUFFICES ASSUME PlacesHold, ChangesHold, ForetoldHolds, [Next]_vars PROVE ForetoldHolds'
  OBVIOUS
<1>1. ASSUME NEW b \in Backends, WriteIsLost(b) PROVE ForetoldHolds'
  <2>1. /\ UNCHANGED <<placeVars, listVars, foretold>>
        /\ \A c \in Backends : sending'[c] = sending[c] \/ ~sending'[c].answered
    BY <1>1 DEF WriteIsLost, PlacesHold, InLog, AtRest
  <2> QED BY <2>1, PutDownForetold
<1>2. CASE DaemonDies
  <2>1. /\ UNCHANGED <<placeVars, listVars, foretold>>
        /\ \A c \in Backends : sending'[c] = sending[c] \/ ~sending'[c].answered
    BY <1>2 DEF DaemonDies, AtRest
  <2> QED BY <2>1, PutDownForetold
<1>3. CASE UNCHANGED vars
  BY <1>3, PutDownForetold DEF vars
<1> QED
  BY <1>1, <1>2, <1>3, RegistersForetold, AnsweredForetold, FilesForetold, HasNoWorkForetold,
     ConfirmForetold, TakeUpForetold, DryRunForetold DEF Next

\* Sending the operations one by one leaves each entry the service has as the dry
\* run said, where the list was not filed or changed meanwhile: whatever is lost,
\* whatever is set aside on the way and however long the log (daemon/src/delivery.rs).
THEOREM SentAsForetold == Spec => []ForetoldIsSent
<1>1. PlacesHold /\ ForetoldHolds => ForetoldIsSent
  <2> SUFFICES ASSUME PlacesHold, ForetoldHolds, NEW b \in Backends,
                      foretold[b].upTo > 0, cursor[b] = foretold[b].upTo,
                      \A i \in Numbers : decided[b][i] = NoWrite,
                      NEW e \in Works
               PROVE  service[b][e] = IF foretold[b].left[e] = None THEN held[b][e]
                                      ELSE foretold[b].left[e]
    BY DEF ForetoldIsSent
  <2>1. cursor[b] \in Nat
    BY DEF PlacesHold, InLog
  <2>2. PICK f : Leads(b, f) /\ OnTheWay(b, f)
    BY <2>1 DEF ForetoldHolds, Foretelling
  <2>3. f[cursor[b]] = foretold[b].left /\ InStep(b, f[cursor[b]])
    BY <2>2 DEF Leads, OnTheWay
  <2> QED BY <2>3 DEF InStep, Before
<1>2. Spec => []ForetoldHolds
  BY ForetoldHoldsAtFirst, NextKeepsForetold, PlacesAlwaysHold, ChangesAlwaysHold, PTL DEF Spec
<1> QED BY <1>1, <1>2, PlacesAlwaysHold, PTL
-----------------------------------------------------------------------------
(***************************************************************************)
(* What a file is settled to be of.  While facts are only learned, what    *)
(* refused a show refuses it still, so that fewer and fewer are left: the  *)
(* show that was left alone once is the only one that can be again.        *)
(***************************************************************************)

\* Of one show that was answered it is that one, and of several nothing else is
\* left than the one that was first left alone.
OnlyIt ==
    /\ was = None => F!Named = None
    /\ was # None => IF F!Only(name.shows) # None THEN was = F!Only(name.shows)
                     ELSE F!Left \subseteq {was}

SettlingInv ==
    /\ facts \in [Shows -> Facts \cup {None}]
    /\ name \in Spelled
    /\ OnlyIt

\* A show that is the only one of some is all of them.
LEMMA OnlyOne ==
    ASSUME NEW X, F!Only(X) # None
    PROVE  X = {F!Only(X)}
<1>1. PICK s \in X : X = {s}
  BY DEF F!Only
<1>2. (CHOOSE x \in X : TRUE) = s
  BY <1>1
<1>3. QED
  BY <1>1, <1>2 DEF F!Only

\* What the session takes of a file is the one show that was answered, or of
\* several the one that is left.
LEMMA NamedIsOnly == was = F!Named => OnlyIt
<1>1. SUFFICES ASSUME was = F!Named, was # None
               PROVE  IF F!Only(name.shows) # None THEN was = F!Only(name.shows)
                      ELSE F!Left \subseteq {was}
  BY DEF OnlyIt
<1>2. was = F!Settled
  BY <1>1 DEF F!Named
<1>3. CASE F!Only(name.shows) # None
  <2>1. was = F!Only(F!Stands)
    BY <1>2, <1>3 DEF F!Settled
  <2>2. F!Stands = {was}
    BY <1>1, <2>1, OnlyOne
  <2>3. name.shows = {F!Only(name.shows)}
    BY <1>3, OnlyOne
  <2>4. QED
    BY <1>3, <2>2, <2>3 DEF F!Stands
<1>4. CASE F!Only(name.shows) = None
  <2>1. was = F!Only(F!Left)
    BY <1>1, <1>2, <1>4 DEF F!Settled
  <2>2. QED
    BY <1>1, <1>4, <2>1, OnlyOne
<1>5. QED
  BY <1>3, <1>4

LEMMA NamedIsOnlyNext == (was = F!Named => OnlyIt)'
BY NamedIsOnly, PTL

\* A show that was first named stays so, where none is left that was not before.
LEMMA HeedsKeeps ==
    ASSUME SettlingInv, F!Heeds, name' = name, F!Left' \subseteq F!Left
    PROVE  OnlyIt'
<1>1. CASE was = None
  <2>1. was' = F!Named'
    BY <1>1 DEF F!Heeds
  <2>2. QED
    BY <2>1, NamedIsOnlyNext
<1>2. CASE was # None
  <2>1. was' = was
    BY <1>2 DEF F!Heeds
  <2>2. F!Only(name.shows)' = F!Only(name.shows)
    BY DEF F!Only
  <2>3. QED
    BY <1>2, <2>1, <2>2 DEF SettlingInv, OnlyIt
<1>3. QED
  BY <1>1, <1>2

\* A fact that was not known refuses nothing: what refused a show before it was
\* learned refuses it after.
LEMMA LearnedRefuses ==
    ASSUME NEW f \in Facts, NEW fact \in {"episodes", "length", "year", "broadcast"},
           f[fact] = None, NEW value, NEW g, g = [f EXCEPT ![fact] = value], NEW year
    PROVE  /\ F!Refuses(f, year) => F!Refuses(g, year)
           /\ F!PastCount(f) => F!PastCount(g)
<1>1. /\ g.released = f.released
      /\ f.year = None \/ g.year = f.year
      /\ f.broadcast = None \/ g.broadcast = f.broadcast
      /\ f.episodes = None \/ g.episodes = f.episodes
      /\ f.length = None \/ g.length = f.length
  BY DEF Facts
<1>2. None # TRUE
  BY InputsAssumption
<1>3. F!IsShort(f) => F!IsShort(g)
  BY <1>1 DEF F!IsShort
<1>4. QED
  BY <1>1, <1>2, <1>3 DEF F!Refuses, F!PastCount

LEMMA LearnsKeeps ==
    ASSUME SettlingInv, NEW show \in Shows,
           NEW fact \in {"episodes", "length", "year", "broadcast"}, F!Learns(show, fact)
    PROVE  SettlingInv'
<1>1. PICK value \in Learnable[show][fact] : facts' = [facts EXCEPT ![show][fact] = value]
  BY DEF F!Learns
<1>2. PICK f : f = facts[show]
  OBVIOUS
<1>3. PICK g : g = [f EXCEPT ![fact] = value]
  OBVIOUS
<1>4. f \in Facts /\ f[fact] = None
  BY <1>2 DEF SettlingInv, F!Learns
<1>5. g \in Facts
  <2>1. Learnable[show] \in Lessons
    BY InputsAssumption
  <2>2. value \in IF fact = "broadcast" THEN BOOLEAN ELSE Nat
    BY <1>1, <2>1 DEF Lessons
  <2>3. QED
    BY <1>3, <1>4, <2>2 DEF Facts
<1>6. facts' = [facts EXCEPT ![show] = g]
  BY <1>1, <1>2, <1>3
<1>7. /\ facts' \in [Shows -> Facts \cup {None}]
      /\ facts'[show] = g /\ \A s \in Shows : s # show => facts'[s] = facts[s]
  BY <1>5, <1>6 DEF SettlingInv
<1>8. name' = name /\ reading' = reading /\ F!Heeds
  BY DEF F!Learns
<1>9. g # None /\ f # None
  BY <1>4, <1>5, InputsAssumption
<1>10. F!Left' \subseteq F!Left
  <2>1. SUFFICES ASSUME NEW s \in F!Left' PROVE s \in F!Left
    OBVIOUS
  <2>2. s \in name.shows /\ s \in Shows
    BY <1>8, InputsAssumption DEF F!Left, F!Stands, SettlingInv
  <2>3. CASE s # show
    BY <1>7, <1>8, <2>2, <2>3
      DEF F!Left, F!Stands, F!Refuses, F!PastCount, F!IsShort, F!Length, F!YearAgainst
  <2>4. CASE s = show
    <3>1. F!YearAgainst(s)' = F!YearAgainst(s) /\ F!Length' = F!Length
      BY <1>8 DEF F!YearAgainst, F!Length
    <3>2. ~F!Refuses(g, F!YearAgainst(s)) /\ ~F!PastCount(g)
      BY <1>7, <1>8, <1>9, <2>4, <3>1
        DEF F!Left, F!Stands, F!Refuses, F!PastCount, F!IsShort
    <3>3. ~F!Refuses(f, F!YearAgainst(s)) /\ ~F!PastCount(f)
      BY <1>3, <1>4, <3>2, LearnedRefuses
    <3>4. QED
      BY <1>2, <2>2, <2>4, <3>3 DEF F!Left, F!Stands
  <2>5. QED
    BY <2>3, <2>4
<1>11. QED
  BY <1>7, <1>8, <1>10, HeedsKeeps DEF SettlingInv

LEMMA IsReleasedKeeps ==
    ASSUME SettlingInv, NEW show \in Shows, F!IsReleased(show)
    PROVE  SettlingInv'
<1>1. PICK f : f = facts[show]
  OBVIOUS
<1>2. PICK g : g = [f EXCEPT !.released = TRUE]
  OBVIOUS
<1>3. facts' = [facts EXCEPT ![show] = g]
  BY <1>1, <1>2 DEF F!IsReleased
<1>4. g \in Facts
  BY <1>1, <1>2 DEF F!IsReleased, SettlingInv, Facts
<1>5. facts' \in [Shows -> Facts \cup {None}]
  BY <1>3, <1>4 DEF SettlingInv
<1>6. name' = name /\ was' = F!Named'
  BY DEF F!IsReleased
<1>7. QED
  BY <1>5, <1>6, NamedIsOnlyNext DEF SettlingInv

LEMMA IsReadKeeps ==
    ASSUME SettlingInv, NEW r \in Readings, F!IsRead(r)
    PROVE  SettlingInv'
<1>1. facts' = facts /\ name' = name
  BY DEF F!IsRead
<1>2. CASE F!Length \in {None, F!Length'}
  <2>1. F!Heeds
    BY <1>2 DEF F!IsRead
  <2>2. \A s, f : F!YearAgainst(s)' = F!YearAgainst(s) /\ (F!IsShort(f) => F!IsShort(f)')
    BY <1>1, <1>2 DEF F!YearAgainst, F!IsShort
  <2>3. F!Left' \subseteq F!Left
    BY <1>1, <2>2 DEF F!Left, F!Stands, F!Refuses, F!PastCount
  <2>4. QED
    BY <1>1, <2>1, <2>3, HeedsKeeps DEF SettlingInv
<1>3. CASE F!Length \notin {None, F!Length'}
  <2>1. was' = F!Named'
    BY <1>3 DEF F!IsRead
  <2>2. QED
    BY <1>1, <2>1, NamedIsOnlyNext DEF SettlingInv
<1>4. QED
  BY <1>2, <1>3

\* A file that was counted as of one show is never counted as of another, whatever
\* its name spells and reaches, and whatever is learned of how many shows
\* (NeverOfAnother).
THEOREM SettledOnce == MCSpec => []NeverOfAnother
<1> DEFINE Inv == part = "settling" => SettlingInv
<1>1. MCInit => Inv
  BY NamedIsOnly, InputsAssumption DEF MCInit, F!SettlingInit, SettlingInv
<1>2. Inv /\ [MCNext]_<<part, inputAll, deliveryAll, fileAll>> => Inv'
  <2>1. SUFFICES ASSUME SettlingInv, part = "settling", part' = "settling",
                        [MCNext]_<<part, inputAll, deliveryAll, fileAll>>
                 PROVE  SettlingInv'
    BY DEF MCNext, DeliveryStep, ResolvingStep, SettlingStep
  <2>2. CASE F!SettlingNext
    BY <2>1, <2>2, LearnsKeeps, IsReleasedKeeps, IsReadKeeps DEF F!SettlingNext
  <2>3. CASE UNCHANGED fileAll
    BY <2>1, <2>3 DEF fileAll, SettlingInv, OnlyIt, F!Named, F!Settled, F!Left, F!Stands,
      F!Only, F!Refuses, F!PastCount, F!IsShort, F!Length, F!YearAgainst
  <2>4. QED
    BY <2>1, <2>2, <2>3 DEF MCNext, DeliveryStep, ResolvingStep, SettlingStep
<1>3. Inv => NeverOfAnother
  <2>1. SUFFICES ASSUME SettlingInv, F!Named # None PROVE F!Named = was
    BY DEF NeverOfAnother, F!NeverOfAnother
  <2>2. was # None
    BY <2>1 DEF SettlingInv, OnlyIt
  <2>3. F!Named = F!Settled
    BY <2>1 DEF F!Named
  <2>4. CASE F!Only(name.shows) # None
    <3>1. F!Stands = {F!Named}
      BY <2>1, <2>3, <2>4, OnlyOne DEF F!Settled
    <3>2. name.shows = {was}
      BY <2>1, <2>2, <2>4, OnlyOne DEF SettlingInv, OnlyIt
    <3>3. QED
      BY <3>1, <3>2 DEF F!Stands
  <2>5. CASE F!Only(name.shows) = None
    <3>1. F!Left = {F!Named}
      BY <2>1, <2>3, <2>5, OnlyOne DEF F!Settled
    <3>2. QED
      BY <2>1, <2>2, <2>5, <3>1 DEF SettlingInv, OnlyIt
  <2>6. QED
    BY <2>4, <2>5
<1>4. QED
  BY <1>1, <1>2, <1>3, PTL DEF MCSpec

-----------------------------------------------------------------------------
(***************************************************************************)
(* Where an episode goes.  The lines of a file with every ! written out    *)
(* are numbered 2 i - 1 and 2 i for the rule i: the first of them that     *)
(* takes an episode is of the first rule that does, and sends it as that   *)
(* rule does.                                                              *)
(***************************************************************************)

ResolvingInv ==
    /\ rules \in R!Files
    /\ count \in Counts
    /\ episode \in Episodes

\* A file is a sequence of rules.
LEMMA FileIsOfRules ==
    ASSUME ResolvingInv
    PROVE  /\ DOMAIN rules \subseteq Nat \ {0}
           /\ \A i \in DOMAIN rules : rules[i] \in R!AnyRules
BY DEF ResolvingInv, R!Files

\* The least of some numbers, as resolving takes it.
LEMMA LeastIs ==
    ASSUME NEW T, T \subseteq Nat, NEW m \in T, \A n \in T : m <= n
    PROVE  R!Min(T) = m
<1>1. \A x \in T : (\A n \in T : x <= n) => x = m
  OBVIOUS
<1>2. QED
  BY <1>1 DEF R!Min

\* The rule i with its ! written out is its line 2 i - 1, and 2 i where it has one.
LEMMA WrittenOut ==
    ASSUME ResolvingInv, NEW n
    PROVE  n \in DOMAIN R!Plainly <=>
              \E i \in DOMAIN rules : n = 2 * i - 1 \/ (rules[i].again /\ n = 2 * i)
BY DEF R!Plainly

LEMMA Lines ==
    ASSUME ResolvingInv, NEW i \in DOMAIN rules
    PROVE  /\ R!Plainly[2 * i - 1] = rules[i]
           /\ rules[i].again =>
                 R!Plainly[2 * i] = [rules[i] EXCEPT !.from.work = rules[i].to.work]
<1>1. i \in Nat \ {0}
  BY FileIsOfRules
<1>2. /\ 2 * i - 1 \in DOMAIN R!Plainly
      /\ rules[i].again => 2 * i \in DOMAIN R!Plainly
  BY WrittenOut
<1>3. /\ ((2 * i - 1) + 1) \div 2 = i /\ (2 * i - 1) % 2 = 1
      /\ (2 * i + 1) \div 2 = i /\ (2 * i) % 2 = 0
  BY <1>1
<1>4. QED
  BY <1>2, <1>3 DEF R!Plainly

\* A line takes an episode and sends it as its rule does.
LEMMA LineIsOfRule ==
    ASSUME ResolvingInv, NEW i \in DOMAIN rules, NEW line,
           \/ line = rules[i]
           \/ line = [rules[i] EXCEPT !.from.work = rules[i].to.work]
    PROVE  /\ R!Holds(line.from, episode) <=> R!Holds(rules[i].from, episode)
           /\ R!Sends(line, episode) = R!Sends(rules[i], episode)
<1>1. CASE line = rules[i]
  BY <1>1
<1>2. CASE line = [rules[i] EXCEPT !.from.work = rules[i].to.work]
  <2>1. PICK rule : rule = rules[i]
    OBVIOUS
  <2>2. rule \in R!AnyRules
    BY <2>1, FileIsOfRules
  <2>3. /\ line.to = rule.to
        /\ line.from.first = rule.from.first /\ line.from.last = rule.from.last
    BY <1>2, <2>1, <2>2 DEF R!AnyRules, R!Ends
  <2>4. QED
    BY <2>1, <2>3 DEF R!Holds, R!Sends, R!SentEpisode, R!Alone
<1>3. QED
  BY <1>1, <1>2

\* redirect answers what the first of the written-out lines says.
LEMMA RedirectIsPlain == ResolvingInv => R!RedirectIsOfTheFile
<1> SUFFICES ASSUME ResolvingInv PROVE R!RedirectIsOfTheFile
  OBVIOUS
<1> DEFINE takers == {i \in DOMAIN rules : R!Takes(rules[i], Own, episode)}
           lines == {n \in DOMAIN R!Plainly :
                        /\ R!Plainly[n].from.work = Own
                        /\ R!Holds(R!Plainly[n].from, episode)}
<1>1. /\ takers \subseteq Nat \ {0} /\ takers \subseteq DOMAIN rules
      /\ lines \subseteq Nat
      /\ \A i \in DOMAIN rules : i \in Nat \ {0}
  BY FileIsOfRules, WrittenOut
<1>2. ASSUME NEW n \in lines
      PROVE  \E i \in takers :
                /\ n = 2 * i - 1 \/ n = 2 * i
                /\ R!Sends(R!Plainly[n], episode) = R!Sends(rules[i], episode)
  <2>1. PICK i \in DOMAIN rules : n = 2 * i - 1 \/ (rules[i].again /\ n = 2 * i)
    BY <1>2, WrittenOut
  <2>2. CASE n = 2 * i - 1
    <3>1. R!Plainly[n] = rules[i]
      BY <2>1, <2>2, Lines
    <3>2. i \in takers
      BY <1>2, <2>1, <3>1 DEF R!Takes
    <3>3. QED
      BY <2>2, <3>1, <3>2
  <2>3. CASE rules[i].again /\ n = 2 * i
    <3>1. R!Plainly[n] = [rules[i] EXCEPT !.from.work = rules[i].to.work]
      BY <2>3, Lines
    <3>2. R!Plainly[n].from.work = rules[i].to.work
      <4>1. PICK rule : rule = rules[i]
        OBVIOUS
      <4>2. rule \in R!AnyRules
        BY <4>1, FileIsOfRules
      <4>3. QED
        BY <3>1, <4>1, <4>2 DEF R!AnyRules, R!Ends
    <3>3. QED
      BY <1>2, <2>3, <3>1, <3>2, LineIsOfRule DEF R!Takes
  <2>4. QED
    BY <2>1, <2>2, <2>3
<1>3. ASSUME NEW i \in takers
      PROVE  2 * i - 1 \in lines \/ 2 * i \in lines
  <2>1. R!Holds(rules[i].from, episode) /\ i \in DOMAIN rules
    BY DEF R!Takes
  <2>2. CASE rules[i].from.work = Own
    BY <2>1, <2>2, Lines, WrittenOut
  <2>3. CASE rules[i].again /\ rules[i].to.work = Own
    <3>1. 2 * i \in DOMAIN R!Plainly
      BY <2>1, <2>3, WrittenOut
    <3>2. R!Plainly[2 * i] = [rules[i] EXCEPT !.from.work = rules[i].to.work]
      BY <2>1, <2>3, Lines
    <3>3. R!Holds(R!Plainly[2 * i].from, episode)
      BY <2>1, <3>2, LineIsOfRule
    <3>4. R!Plainly[2 * i].from.work = Own
      <4>1. PICK rule : rule = rules[i]
        OBVIOUS
      <4>2. rule \in R!AnyRules
        BY <2>1, <4>1, FileIsOfRules
      <4>3. QED
        BY <2>3, <3>2, <4>1, <4>2 DEF R!AnyRules, R!Ends
    <3>5. QED
      BY <3>1, <3>3, <3>4
  <2>4. QED
    BY <2>2, <2>3 DEF R!Takes
<1> HIDE DEF takers, lines
<1>4. R!Redirect(rules, Own, episode) =
        IF lines = {} THEN R!NoRule ELSE R!Sends(R!Plainly[R!Min(lines)], episode)
  <2>1. R!Redirect(rules, Own, episode) =
          IF takers = {} THEN R!NoRule ELSE R!Sends(rules[R!Min(takers)], episode)
    BY DEF R!Redirect, takers
  <2>2. CASE lines = {}
    BY <1>3, <2>1, <2>2
  <2>3. CASE lines # {}
    <3>1. takers # {} /\ takers \subseteq Nat
      BY <1>1, <1>2, <2>3
    <3>2. PICK k \in lines : \A n \in lines : k <= n
      BY <1>1, <2>3, LeastOf
    <3>3. PICK m \in takers : \A i \in takers : m <= i
      BY <3>1, LeastOf
    <3>4. PICK i \in takers :
             /\ k = 2 * i - 1 \/ k = 2 * i
             /\ R!Sends(R!Plainly[k], episode) = R!Sends(rules[i], episode)
      BY <1>2, <3>2
    <3>5. m <= i /\ (k <= 2 * m - 1 \/ k <= 2 * m)
      BY <1>3, <3>2, <3>3, <3>4
    <3>6. i = m
      BY <1>1, <3>1, <3>3, <3>4, <3>5
    <3>7. R!Min(lines) = k /\ R!Min(takers) = m
      BY <1>1, <3>1, <3>2, <3>3, LeastIs
    <3>8. QED
      BY <2>1, <2>3, <3>1, <3>4, <3>6, <3>7
  <2>4. QED
    BY <2>2, <2>3
<1>5. QED
  BY <1>4 DEF R!RedirectIsOfTheFile, lines

\* What goes to the show's own entry without a rule is one of its episodes.
LEMMA OwnEntryHolds ==
    ASSUME ResolvingInv, R!Answer.by = "entry"
    PROVE  /\ R!Answer.episode \in Nat \ {0}
           /\ count = None \/ R!Answer.episode <= count
<1>1. /\ count \in Nat \cup {None} /\ episode \in Nat \cup {None} /\ None \notin Nat
  BY InputsAssumption, ResolvingAssumption DEF ResolvingInv
<1>2. (IF episode = None THEN {} ELSE R!PinsOf({}, Show, episode)) = {}
  BY DEF R!PinsOf
<1>3. /\ \A why : R!Answer # R!Unresolved(why)
      /\ \A entry, n : R!Answer # R!Resolved("rule", entry, n)
  BY DEF R!Unresolved, R!Resolved
<1>4. CASE episode = None
  <2>1. R!Answer =
          IF Own = None THEN R!Unresolved("not listed")
          ELSE IF count = 1 THEN R!Resolved("entry", Own, 1) ELSE R!Unresolved("no episode")
    BY <1>2, <1>4 DEF R!Answer, R!Resolve, R!Listed
  <2>2. count = 1 /\ R!Answer = R!Resolved("entry", Own, 1)
    BY <1>3, <2>1
  <2>3. R!Answer.episode = 1
    BY <2>2 DEF R!Resolved
  <2>4. QED
    BY <2>2, <2>3
<1>5. CASE episode # None /\ count # None /\ episode \in 1 .. count
  <2>1. R!Answer =
          IF Own = None THEN R!Unresolved("not listed") ELSE R!Resolved("entry", Own, episode)
    BY <1>2, <1>5 DEF R!Answer, R!Resolve, R!Listed
  <2>2. R!Answer = R!Resolved("entry", Own, episode)
    BY <1>3, <2>1
  <2>3. R!Answer.episode = episode
    BY <2>2 DEF R!Resolved
  <2>4. QED
    BY <1>1, <1>5, <2>3
<1>6. CASE episode # None /\ ~(count # None /\ episode \in 1 .. count)
  <2>1. R!Answer =
          IF Own = None THEN R!Unresolved("not listed") ELSE R!OutOfCount(Own, count, episode, rules)
    BY <1>2, <1>6 DEF R!Answer, R!Resolve, R!Listed
  <2>2. R!Answer = R!OutOfCount(Own, count, episode, rules)
    BY <1>3, <2>1
  <2> DEFINE first == IF count = None THEN {} ELSE R!OfTheFirstSeason(episode, count)
             anyOf == CHOOSE n \in first : TRUE
  <2>3. \A n \in first : count \in Nat /\ n \in 1 .. count
    BY <1>1 DEF R!OfTheFirstSeason
  <2>4. first # {} => anyOf \in first
    OBVIOUS
  <2>5. \/ first # {} /\ R!Answer = R!Resolved("entry", Own, anyOf)
        \/ count = None /\ episode > 0 /\ R!Answer = R!Resolved("entry", Own, episode)
    <3>1. PICK sent : sent = R!Redirect(rules, Own, episode)
      OBVIOUS
    <3>2. R!Answer =
            CASE sent.taken /\ sent.numbered -> R!Resolved("rule", sent.entry, sent.episode)
              [] sent.taken /\ ~sent.numbered -> R!Unresolved("unnumbered")
              [] ~sent.taken /\ first # {} -> R!Resolved("entry", Own, anyOf)
              [] ~sent.taken /\ count = None /\ episode > 0 -> R!Resolved("entry", Own, episode)
              [] ~sent.taken /\ count # None /\ first = {} /\ R!IsOfALaterSeason(episode, count) ->
                    R!Unresolved("later season")
              [] OTHER -> R!Unresolved("outside")
      BY <2>2, <3>1 DEF R!OutOfCount
    <3>3. (sent.taken \in BOOLEAN) /\ ((sent.taken = TRUE) => sent.numbered \in BOOLEAN)
      BY <3>1 DEF R!Redirect, R!NoRule, R!Sends, R!Unnumbered, R!To
    <3> HIDE DEF first, anyOf
    <3>4. CASE sent.taken = TRUE
      <4>1. R!Answer = IF sent.numbered = TRUE THEN R!Resolved("rule", sent.entry, sent.episode)
                       ELSE R!Unresolved("unnumbered")
        BY <3>2, <3>3, <3>4
      <4>2. QED
        BY <1>3, <4>1
    <3>5. CASE sent.taken = FALSE
      <4>1. CASE first # {}
        <5>1. count # None
          BY <1>1, <2>3, <4>1
        <5>2. QED
          BY <3>2, <3>5, <4>1, <5>1
      <4>2. CASE first = {} /\ count = None /\ episode > 0
        BY <3>2, <3>5, <4>2
      <4>3. CASE first = {} /\ ~(count = None /\ episode > 0)
        <5>1. R!Answer = IF count # None /\ R!IsOfALaterSeason(episode, count)
                         THEN R!Unresolved("later season") ELSE R!Unresolved("outside")
          BY <3>2, <3>5, <4>3
        <5>2. QED
          BY <1>3, <5>1
      <4>4. QED
        BY <4>1, <4>2, <4>3
    <3>6. QED
      BY <3>3, <3>4, <3>5
  <2> HIDE DEF first, anyOf
  <2>6. \/ first # {} /\ R!Answer.episode = anyOf
        \/ count = None /\ episode > 0 /\ R!Answer.episode = episode
    BY <2>5 DEF R!Resolved
  <2>7. QED
    BY <1>1, <1>6, <2>3, <2>4, <2>6
<1>7. QED
  BY <1>4, <1>5, <1>6

LEMMA OwnEntryTakes == ResolvingInv => R!OwnEntryTakesIt
<1> SUFFICES ASSUME ResolvingInv, R!Answer.by = "entry",
                    NEW s \in R!P!Statuses, NEW n \in 0 .. 3, NEW held0,
                    held0 = [R!P!Nowhere EXCEPT !.status = s, !.progress = n],
                    R!P!WritesNothing(held0, count, R!Answer.episode), s # "completed"
             PROVE  R!Answer.episode <= n
  BY DEF R!OwnEntryTakesIt
<1>1. /\ R!Answer.episode \in Nat \ {0}
      /\ count = None \/ R!Answer.episode <= count
      /\ count \in Nat \cup {None}
  BY OwnEntryHolds, InputsAssumption DEF ResolvingInv
<1>2. held0.status = s /\ held0.progress = n
  BY DEF R!P!Nowhere
<1>3. QED
  BY <1>1, <1>2 DEF R!P!WritesNothing, R!P!Past

\* An episode goes where the rules send it, read as the comments of relations.rs
\* tell them, for any file of rules and any count; and an episode that no rule
\* sends is taken by its entry (ResolvedAsWritten).
THEOREM EpisodesGoAsWritten == MCSpec => []ResolvedAsWritten
<1> DEFINE Inv == part = "resolving" => ResolvingInv
<1>1. MCInit => Inv
  BY DEF MCInit, R!Init, ResolvingInv
<1>2. Inv /\ [MCNext]_<<part, inputAll, deliveryAll, fileAll>> => Inv'
  BY DEF MCNext, DeliveryStep, ResolvingStep, SettlingStep, R!Next, R!Ask, inputAll, ResolvingInv
<1>3. Inv => ResolvedAsWritten
  BY RedirectIsPlain, OwnEntryTakes DEF ResolvedAsWritten
<1>4. QED
  BY <1>1, <1>2, <1>3, PTL DEF MCSpec
=============================================================================
