-------------------------- MODULE SupervisorProofs --------------------------
(***************************************************************************)
(* What holds of the supervisor whatever its tasks, its limits and the     *)
(* stops of its process are.                                               *)
(***************************************************************************)
EXTENDS Supervisor, TLAPS

\* A saturating difference is a number, and never more than it is taken from.
LEMMA LessType ==
    ASSUME NEW n \in Nat, NEW m \in Nat
    PROVE  /\ Less(n, m) \in Nat
           /\ Less(n, m) <= n
  BY DEF Less

\* What is left of a wait is no longer than the ceiling.
LEMMA LessWait ==
    ASSUME NEW n \in 0 .. Ceiling, NEW m \in Nat
    PROVE  Less(n, m) \in 0 .. Ceiling
  BY SupervisorAssumption DEF Less

\* The lesser of two numbers is a number, and no more than either.
LEMMA LeastType ==
    ASSUME NEW n \in Nat, NEW m \in Nat
    PROVE  /\ Least(n, m) \in Nat
           /\ Least(n, m) <= n
           /\ Least(n, m) <= m
  BY DEF Least

\* No wait is longer than BACKOFF_CEILING, however many faults there were.
LEMMA BackoffCapped ==
    ASSUME NEW n \in Nat
    PROVE  Backoff(n) \in 0 .. Ceiling
  <1> DEFINE k == Least(Less(n, 1), 16)
  <1>1. k \in 0 .. 16
    <2>1. Less(n, 1) \in Nat
      BY LessType
    <2>2. k \in Nat /\ k <= 16
      BY <2>1, LeastType
    <2> QED
      BY <2>2
  <1>2. 2 ^ k \in Nat
    BY <1>1, DoublingAssumption
  <1> HIDE DEF k
  <1>3. Base * 2 ^ k \in Nat
    BY <1>2, SupervisorAssumption
  <1> DEFINE doubled == Base * 2 ^ k
  <1>4. Least(doubled, Ceiling) \in 0 .. Ceiling
    <2>1. doubled \in Nat /\ Ceiling \in Nat
      BY <1>3, SupervisorAssumption
    <2> HIDE DEF doubled
    <2>2. Least(doubled, Ceiling) \in Nat /\ Least(doubled, Ceiling) <= Ceiling
      BY <2>1, LeastType
    <2> QED
      BY <2>1, <2>2
  <1> QED
    BY <1>4 DEF Backoff, k, doubled

-----------------------------------------------------------------------------
(***************************************************************************)
(* Type correctness.                                                       *)
(***************************************************************************)

\* What is counted of the time an attempt did not run is a number.
LEMMA OffType ==
    ASSUME TypeOK, NEW t \in Tasks
    PROVE  OffNow(t) \in Nat
  <1>1. age[t] \in Nat /\ off[t] \in Nat /\ idle \in Nat
    BY DEF TypeOK
  <1>2. Less(idle, WakeEvery) \in Nat
    BY <1>1, LessType, SupervisorAssumption
  <1>3. NotRun \in Nat
    BY <1>2 DEF NotRun
  <1>4. Least(NotRun, age[t]) \in Nat
    BY <1>1, <1>3, LeastType
  <1> QED
    BY <1>1, <1>4 DEF OffNow

\* A row starts again or goes on, and is a number either way.
LEMMA SoFarType ==
    ASSUME TypeOK, NEW t \in Tasks
    PROVE  /\ PanicsSoFar(t) \in 0 .. RestartLimit
           /\ FaultsSoFar(t) \in Nat
  BY SupervisorAssumption DEF PanicsSoFar, FaultsSoFar, TypeOK

\* Dealing with an attempt keeps every type, whatever it is dealt with by: one
\* more panic only where the limit is not reached, and a wait no longer than
\* the ceiling.
LEMMA DealType ==
    ASSUME TypeOK, NEW t \in Tasks,
           NEW p \in {0, 1}, NEW f \in {0, 1},
           NEW next \in {"waiting", "stopped"},
           NEW why \in Outcomes,
           NEW delay \in 0 .. Ceiling,
           p = 1 => PanicsSoFar(t) < RestartLimit,
           Deal(t, p, f, next, why, delay)
    PROVE  TypeOK'
  <1>1. PanicsSoFar(t) + p \in 0 .. RestartLimit /\ FaultsSoFar(t) + f \in Nat
    BY SoFarType, SupervisorAssumption
  <1>2. /\ panics' = [panics EXCEPT ![t] = PanicsSoFar(t) + p]
        /\ faults' = [faults EXCEPT ![t] = FaultsSoFar(t) + f]
    BY DEF Deal, PanicsSoFar, FaultsSoFar, TypeOK
  <1>3. panics' \in [Tasks -> 0 .. RestartLimit] /\ faults' \in [Tasks -> Nat]
    BY <1>1, <1>2 DEF TypeOK
  <1>4. /\ phase' \in [Tasks -> {"waiting", "working", "ended", "stopped"}]
        /\ outcome' \in [Tasks -> Outcomes]
        /\ wait' \in [Tasks -> 0 .. Ceiling]
    BY DEF Deal, TypeOK
  <1>5. off' \in [Tasks -> Nat]
    BY OffType DEF Deal, OffAfter
  <1>6. /\ age' \in [Tasks -> Nat] /\ ran' \in [Tasks -> Nat]
        /\ stops' \in [Tasks -> Nat]
    BY DEF Deal, TypeOK
  <1>7. atMost' \in [Tasks -> Nat] /\ atLeast' \in [Tasks -> Nat]
    <2> DEFINE one == IF outcome[t] = "panic" THEN 1 ELSE 0
               Row(n) == Least(n + one, RestartLimit + 2)
               most == Row(IF SurelyWorked(t) THEN 0 ELSE atMost[t])
               least == Row(IF MayHaveWorked(t) THEN 0 ELSE atLeast[t])
    <2>1. ASSUME NEW n \in Nat
          PROVE  Row(n) \in Nat
      <3>1. one \in Nat /\ n + one \in Nat /\ RestartLimit + 2 \in Nat
        BY SupervisorAssumption
      <3> HIDE DEF one
      <3> QED
        BY <3>1, LeastType
    <2>2. most \in Nat /\ least \in Nat
      <3> HIDE DEF Row
      <3> QED
        BY <2>1 DEF TypeOK
    <2>3. /\ atMost' = [atMost EXCEPT ![t] = most]
          /\ atLeast' = [atLeast EXCEPT ![t] = least]
      BY DEF Deal
    <2> HIDE DEF most, least
    <2> QED
      BY <2>2, <2>3 DEF TypeOK
  <1>8. idle' \in Nat /\ tickIn' \in Nat /\ late' \in Nat
    BY DEF Deal, TypeOK
  <1> QED
    BY <1>3, <1>4, <1>5, <1>6, <1>7, <1>8 DEF TypeOK

\* Every step keeps the types.
LEMMA TypesKept ==
    ASSUME TypeOK, [Next]_vars
    PROVE  TypeOK'
  <1> USE SupervisorAssumption
  <1>1. CASE Tick
    <2>1. wait' \in [Tasks -> 0 .. Ceiling] /\ tickIn' \in Nat
      <3>1. ASSUME NEW t \in Tasks
            PROVE  Less(wait[t], 1) \in 0 .. Ceiling
        <4>1. wait[t] \in 0 .. Ceiling
          BY DEF TypeOK
        <4> QED
          BY <4>1, LessWait
      <3>2. Less(tickIn, 1) \in Nat
        BY LessType DEF TypeOK
      <3> QED
        BY <1>1, <3>1, <3>2 DEF Tick
    <2>2. age' \in [Tasks -> Nat] /\ ran' \in [Tasks -> Nat]
      BY <1>1 DEF Tick, TypeOK
    <2>3. idle' \in Nat /\ late' \in Nat
      BY <1>1 DEF Tick, TypeOK
    <2> QED
      BY <1>1, <2>1, <2>2, <2>3 DEF Tick, TypeOK, countVars
  <1>2. ASSUME NEW d \in Stops, Stop(d)
        PROVE  TypeOK'
    <2>1. wait' \in [Tasks -> 0 .. Ceiling] /\ tickIn' \in Nat
      <3>1. ASSUME NEW t \in Tasks
            PROVE  Less(wait[t], d) \in 0 .. Ceiling
        <4>1. wait[t] \in 0 .. Ceiling /\ d \in Nat
          BY DEF TypeOK
        <4> QED
          BY <4>1, LessWait
      <3>2. Less(tickIn, d) \in Nat
        BY LessType DEF TypeOK
      <3> QED
        BY <1>2, <3>1, <3>2 DEF Stop
    <2>2. age' \in [Tasks -> Nat] /\ stops' \in [Tasks -> Nat]
      BY <1>2 DEF Stop, TypeOK
    <2>3. idle' \in Nat
      BY <1>2 DEF Stop, TypeOK
    <2> QED
      BY <1>2, <2>1, <2>2, <2>3 DEF Stop, TypeOK, countVars
  <1>3. ASSUME NEW t \in Tasks, Begin(t)
        PROVE  TypeOK'
    BY <1>3 DEF Begin, TypeOK, countVars, runVars, clockVars
  <1>4. ASSUME NEW t \in Tasks, End(t)
        PROVE  TypeOK'
    BY <1>4 DEF End, TypeOK, Outcomes, countVars, runVars, clockVars
  <1>5. CASE Wake
    <2>1. off' \in [Tasks -> Nat]
      BY <1>5, OffType DEF Wake
    <2> QED
      BY <1>5, <2>1 DEF Wake, TypeOK, attemptVars, countVars, runVars
  <1>6. ASSUME NEW t \in Tasks, Stopped(t)
        PROVE  TypeOK'
    <2>1. outcome[t] \in Outcomes /\ 0 \in 0 .. Ceiling
      BY DEF TypeOK
    <2> QED
      BY <1>6, <2>1, DealType DEF Stopped
  <1>7. ASSUME NEW t \in Tasks, Retried(t)
        PROVE  TypeOK'
    <2>1. Backoff(FaultsSoFar(t) + 1) \in 0 .. Ceiling
      BY SoFarType, BackoffCapped
    <2>2. "none" \in Outcomes
      BY DEF Outcomes
    <2> QED
      BY <1>7, <2>1, <2>2, DealType DEF Retried
  <1>8. ASSUME NEW t \in Tasks, Restarted(t)
        PROVE  TypeOK'
    <2>1. "none" \in Outcomes /\ 0 \in 0 .. Ceiling
      BY DEF Outcomes
    <2> QED
      BY <1>8, <2>1, DealType DEF Restarted
  <1>9. ASSUME NEW t \in Tasks, GivenUp(t)
        PROVE  TypeOK'
    <2>1. "exhausted" \in Outcomes /\ 0 \in 0 .. Ceiling
      BY DEF Outcomes
    <2> QED
      BY <1>9, <2>1, DealType DEF GivenUp
  <1>10. CASE UNCHANGED vars
    BY <1>10 DEF TypeOK, vars, attemptVars, countVars, runVars, clockVars
  <1> QED
    BY <1>1, <1>2, <1>3, <1>4, <1>5, <1>6, <1>7, <1>8, <1>9, <1>10
       DEF Next, Join, Returned

\* Every type is kept, no task is started again after more panics than
\* RESTART_LIMIT, and none waits for longer than BACKOFF_CEILING.
THEOREM SupervisorTypes == Spec => []TypeOK
  <1>1. Init => TypeOK
    BY SupervisorAssumption DEF Init, TypeOK, Outcomes
  <1>2. TypeOK /\ [Next]_vars => TypeOK'
    BY TypesKept
  <1> QED
    BY <1>1, <1>2, PTL DEF Spec

-----------------------------------------------------------------------------
(***************************************************************************)
(* What is counted of a run.  OffNow of an attempt is what was taken off it *)
(* up to the last wake, and what this one would take off: the time since   *)
(* that wake, less WakeEvery.  Of that time some was a stop, some a Tick.  *)
(* That it is a stop is known only together: through Least(idle, age),     *)
(* which is the most that can be pending of a stop, and through the ticker, *)
(* which a process that runs is no more than Late behind.                  *)
(***************************************************************************)

\* What goes unseen of n stops, and what the wakes around them were late by.
Unseen(n) == (WakeEvery + Late) * n
LateBy(n) == Late * n

\* Each stop adds the same to either.
LEMMA OneMoreStop ==
    ASSUME NEW n \in Nat
    PROVE  /\ Unseen(n) \in Nat /\ LateBy(n) \in Nat
           /\ Unseen(n + 1) = Unseen(n) + WakeEvery + Late
           /\ LateBy(n + 1) = LateBy(n) + Late
           /\ Unseen(0) = 0 /\ LateBy(0) = 0
  <1>1. WakeEvery \in Nat /\ Late \in Nat
    BY SupervisorAssumption
  <1>2. ASSUME NEW k \in Nat
        PROVE  k * n \in Nat /\ k * (n + 1) = k * n + k /\ k * 0 = 0
    OBVIOUS
  <1>3. WakeEvery + Late \in Nat
    BY <1>1
  <1>4. (WakeEvery + Late) * (n + 1) = (WakeEvery + Late) * n + (WakeEvery + Late)
    BY <1>2, <1>3
  <1>5. /\ (WakeEvery + Late) * n \in Nat /\ (WakeEvery + Late) * 0 = 0
        /\ Late * n \in Nat /\ Late * (n + 1) = Late * n + Late /\ Late * 0 = 0
    BY <1>1, <1>2, <1>3
  <1> DEFINE u == (WakeEvery + Late) * n
             v == (WakeEvery + Late) * (n + 1)
  <1>6. u \in Nat /\ v = u + (WakeEvery + Late)
    BY <1>4, <1>5
  <1> HIDE DEF u, v
  <1>7. v = u + WakeEvery + Late
    BY <1>1, <1>6
  <1> QED
    BY <1>5, <1>7 DEF Unseen, LateBy, u, v

\* The ticker is due within WakeEvery of a wake, and a process that runs
\* answers it within Late.
ClockIsBounded ==
    /\ tickIn <= WakeEvery
    /\ late <= Late
    /\ tickIn > 0 => idle + tickIn <= WakeEvery

\* Of what an attempt did not run, a its age, r what it ran and o what was taken
\* off it, everything was taken off but for u, what goes unseen of its stops; or
\* the last stop is pending, as part of the time i since the last wake.
NotLess(i, a, o, r, u) ==
    \/ a <= r + o + u
    \/ a + WakeEvery + Late <= r + o + Least(i, a) + u

\* What the next wake would take off at the most.
Pending(i, a) == Least(Less(i, WakeEvery), a)

\* No more was taken off an attempt than it did not run, but for what a wake was
\* late by for each stop, l, and once before; or that one is not spent, and what
\* the next wake would take off is what was a stop and the d it is late by.
NotMore(i, d, a, o, r, l) ==
    \/ i <= WakeEvery + d /\ o + r <= a + l + Late
    \/ o + Pending(i, a) + r <= a + l + d

\* A task that is not at work has no time to be counted.
NothingKept(t) == age[t] = 0 /\ ran[t] = 0 /\ stops[t] = 0 /\ off[t] = 0

Counting(t) ==
    IF HasBegun(t)
    THEN /\ ran[t] <= age[t]
         /\ NotLess(idle, age[t], off[t], ran[t], Unseen(stops[t]))
         /\ NotMore(idle, late, age[t], off[t], ran[t], LateBy(stops[t]))
    ELSE NothingKept(t)

RunInv ==
    /\ TypeOK
    /\ ClockIsBounded
    /\ \A t \in Tasks : Counting(t)

\* The least of two numbers is one of them, and what is left is what it is.
LEMMA LeastLess ==
    ASSUME NEW n \in Nat, NEW m \in Nat
    PROVE  /\ Least(n, m) = (IF n < m THEN n ELSE m)
           /\ Less(n, m) = (IF m < n THEN n - m ELSE 0)
           /\ Least(n, m) \in Nat /\ Less(n, m) \in Nat
  BY DEF Least, Less

\* Where every stop up to this wake is taken off, what an attempt is counted for
\* is what it ran, within what the stops allow.
LEMMA CountedAtAWake ==
    ASSUME RunInv, NEW t \in Tasks, HasBegun(t)
    PROVE  /\ age[t] <= ran[t] + OffNow(t) + Unseen(stops[t])
           /\ OffNow(t) + ran[t] <= age[t] + LateBy(stops[t]) + Late
           /\ OffNow(t) \in Nat
  <1> DEFINE i == idle
             a == age[t]
             o == off[t]
             r == ran[t]
             u == Unseen(stops[t])
             l == LateBy(stops[t])
             w == Less(i, WakeEvery)
             n == NotRun
             g == OffNow(t)
  <1>1. /\ i \in Nat /\ a \in Nat /\ o \in Nat /\ r \in Nat /\ late \in Nat
        /\ u \in Nat /\ l \in Nat /\ WakeEvery \in Nat /\ Late \in Nat
    <2>1. stops[t] \in Nat
      BY DEF RunInv, TypeOK
    <2> QED
      BY <2>1, OneMoreStop, SupervisorAssumption DEF RunInv, TypeOK
  <1>2. w = (IF WakeEvery < i THEN i - WakeEvery ELSE 0) /\ w \in Nat
    BY <1>1, LeastLess
  <1>3. n = (IF w > Late THEN w ELSE 0) /\ n \in Nat
    <2>1. n = (IF w > Late THEN w ELSE 0)
      BY DEF NotRun
    <2> HIDE DEF n, w
    <2> QED
      BY <2>1, <1>2
  <1>4. g = o + (IF n < a THEN n ELSE a)
    <2>1. g = o + Least(n, a)
      BY DEF OffNow
    <2> HIDE DEF n, g, a
    <2> QED
      BY <2>1, <1>1, <1>3, LeastLess
  <1>5. late <= Late
    BY DEF RunInv, ClockIsBounded
  <1>6. \/ a <= r + o + u
        \/ a + WakeEvery + Late <= r + o + (IF i < a THEN i ELSE a) + u
    <2>1. NotLess(i, a, o, r, u)
      BY DEF RunInv, Counting
    <2>2. Least(i, a) = (IF i < a THEN i ELSE a)
      BY <1>1, LeastLess
    <2> QED
      BY <2>1, <2>2 DEF NotLess
  <1>7. \/ i <= WakeEvery + late /\ o + r <= a + l + Late
        \/ o + (IF w < a THEN w ELSE a) + r <= a + l + late
    <2>1. NotMore(i, late, a, o, r, l)
      BY DEF RunInv, Counting
    <2>2. Least(w, a) = (IF w < a THEN w ELSE a)
      BY <1>1, <1>2, LeastLess
    <2> QED
      BY <2>1, <2>2 DEF NotMore, Pending
  <1> HIDE DEF i, a, o, r, u, l, w, n, g
  <1>8. a <= r + g + u
    BY <1>1, <1>2, <1>3, <1>4, <1>6
  <1>9. g + r <= a + l + Late
    BY <1>1, <1>2, <1>3, <1>4, <1>5, <1>7
  <1>10. g \in Nat
    BY <1>1, <1>3, <1>4
  <1> QED
    BY <1>8, <1>9, <1>10 DEF a, r, g, u, l

\* The numbers of an attempt, and what a unit in which the process runs, a stop
\* and a wake make of them.
LEMMA RunsOn ==
    ASSUME NEW i \in Nat, NEW d \in Nat, NEW a \in Nat, NEW o \in Nat, NEW r \in Nat,
           NEW u \in Nat, NEW l \in Nat, NEW k \in Nat, NEW e \in {0, 1},
           k > 0 => i + k <= WakeEvery,
           r <= a, NotLess(i, a, o, r, u), NotMore(i, d, a, o, r, l)
    PROVE  LET later == IF k = 0 THEN d + 1 ELSE d IN
           /\ r + e <= a + e
           /\ NotLess(i + 1, a + e, o, r + e, u)
           /\ NotMore(i + 1, later, a + e, o, r + e, l)
  <1> DEFINE later == IF k = 0 THEN d + 1 ELSE d
             p == Less(i, WakeEvery)
             q == Less(i + 1, WakeEvery)
  <1>1. WakeEvery \in Nat /\ Late \in Nat /\ later \in Nat
    BY SupervisorAssumption
  <1>2. /\ p = (IF WakeEvery < i THEN i - WakeEvery ELSE 0) /\ p \in Nat
        /\ q = (IF WakeEvery < i + 1 THEN i + 1 - WakeEvery ELSE 0) /\ q \in Nat
    BY <1>1 DEF Less
  <1>3. /\ Least(i, a) = (IF i < a THEN i ELSE a)
        /\ Least(i + 1, a + e) = (IF i + 1 < a + e THEN i + 1 ELSE a + e)
    BY DEF Least
  <1>4. Least(p, a) = (IF p < a THEN p ELSE a)
    <2> HIDE DEF p
    <2> QED
      BY <1>2 DEF Least
  <1>5. Least(q, a + e) = (IF q < a + e THEN q ELSE a + e)
    <2> HIDE DEF q
    <2> QED
      BY <1>2 DEF Least
  <1>6. NotLess(i + 1, a + e, o, r + e, u)
    BY <1>1, <1>3 DEF NotLess
  <1>7. NotMore(i + 1, later, a + e, o, r + e, l)
    <2>1. \/ i <= WakeEvery + d /\ o + r <= a + l + Late
          \/ o + (IF p < a THEN p ELSE a) + r <= a + l + d
      BY <1>4 DEF NotMore, Pending
    <2>2. SUFFICES \/ i + 1 <= WakeEvery + later /\ o + (r + e) <= (a + e) + l + Late
                   \/ o + (IF q < a + e THEN q ELSE a + e) + (r + e) <= (a + e) + l + later
      BY <1>5 DEF NotMore, Pending
    <2>3. later = (IF k = 0 THEN d + 1 ELSE d)
      OBVIOUS
    <2> HIDE DEF p, q, later
    <2>4. CASE k = 0
      BY <1>1, <1>2, <2>1, <2>3, <2>4
    <2>5. CASE k > 0
      BY <1>1, <1>2, <2>1, <2>3, <2>5
    <2> QED
      BY <2>4, <2>5
  <1> QED
    BY <1>6, <1>7

LEMMA StandsStill ==
    ASSUME NEW i \in Nat, NEW d \in Nat, NEW a \in Nat, NEW o \in Nat, NEW r \in Nat,
           NEW u \in Nat, NEW l \in Nat, NEW s \in Nat,
           r <= a, NotLess(i, a, o, r, u), NotMore(i, d, a, o, r, l)
    PROVE  /\ r <= a + s
           /\ NotLess(i + s, a + s, o, r, u + WakeEvery + Late)
           /\ NotMore(i + s, d, a + s, o, r, l + Late)
  <1> DEFINE p == Less(i, WakeEvery)
             q == Less(i + s, WakeEvery)
  <1>1. WakeEvery \in Nat /\ Late \in Nat
    BY SupervisorAssumption
  <1>2. /\ p = (IF WakeEvery < i THEN i - WakeEvery ELSE 0) /\ p \in Nat
        /\ q = (IF WakeEvery < i + s THEN i + s - WakeEvery ELSE 0) /\ q \in Nat
    BY <1>1 DEF Less
  <1>3. /\ Least(i, a) = (IF i < a THEN i ELSE a)
        /\ Least(i + s, a + s) = (IF i + s < a + s THEN i + s ELSE a + s)
    BY DEF Least
  <1>4. Least(p, a) = (IF p < a THEN p ELSE a)
    <2> HIDE DEF p
    <2> QED
      BY <1>2 DEF Least
  <1>5. Least(q, a + s) = (IF q < a + s THEN q ELSE a + s)
    <2> HIDE DEF q
    <2> QED
      BY <1>2 DEF Least
  <1>6. NotLess(i + s, a + s, o, r, u + WakeEvery + Late)
    BY <1>1, <1>3 DEF NotLess
  <1>7. NotMore(i + s, d, a + s, o, r, l + Late)
    <2>1. \/ i <= WakeEvery + d /\ o + r <= a + l + Late
          \/ o + (IF p < a THEN p ELSE a) + r <= a + l + d
      BY <1>4 DEF NotMore, Pending
    <2>2. SUFFICES o + (IF q < a + s THEN q ELSE a + s) + r <= (a + s) + (l + Late) + d
      BY <1>5 DEF NotMore, Pending
    <2> HIDE DEF p, q
    <2>3. CASE i <= WakeEvery + d /\ o + r <= a + l + Late
      BY <1>1, <1>2, <2>3
    <2>4. CASE o + (IF p < a THEN p ELSE a) + r <= a + l + d
      BY <1>1, <1>2, <2>4
    <2> QED
      BY <2>1, <2>3, <2>4
  <1> QED
    BY <1>6, <1>7

LEMMA TakenOff ==
    ASSUME NEW d \in Nat, NEW a \in Nat, NEW o \in Nat, NEW r \in Nat,
           NEW u \in Nat, NEW l \in Nat,
           a <= r + o + u, o + r <= a + l + Late
    PROVE  NotLess(0, a, o, r, u) /\ NotMore(0, d, a, o, r, l)
  <1>1. 0 <= WakeEvery + d
    BY SupervisorAssumption
  <1> QED
    BY <1>1 DEF NotLess, NotMore

\* A task that is at work or has ended, as the numbers of it.
LEMMA CountingOf ==
    ASSUME RunInv, NEW t \in Tasks
    PROVE  /\ idle \in Nat /\ late \in Nat /\ tickIn \in Nat
           /\ age[t] \in Nat /\ off[t] \in Nat /\ ran[t] \in Nat /\ stops[t] \in Nat
           /\ Unseen(stops[t]) \in Nat /\ LateBy(stops[t]) \in Nat
           /\ HasBegun(t) => /\ ran[t] <= age[t]
                             /\ NotLess(idle, age[t], off[t], ran[t], Unseen(stops[t]))
                             /\ NotMore(idle, late, age[t], off[t], ran[t], LateBy(stops[t]))
           /\ ~HasBegun(t) => NothingKept(t)
  <1>1. stops[t] \in Nat
    BY DEF RunInv, TypeOK
  <1> QED
    BY <1>1, OneMoreStop DEF RunInv, TypeOK, Counting

\* A wake, at the ticker or where a task has ended, takes every stop up to it
\* off an attempt.
LEMMA WakeKeepsCounting ==
    ASSUME RunInv, NEW t \in Tasks,
           idle' = 0, late' \in Nat, phase'[t] = phase[t],
           age'[t] = age[t], ran'[t] = ran[t], stops'[t] = stops[t],
           off'[t] = OffNow(t)
    PROVE  Counting(t)'
  <1>1. CASE HasBegun(t)
    <2>1. HasBegun(t)'
      BY <1>1 DEF HasBegun
    <2>2. /\ age[t] <= ran[t] + OffNow(t) + Unseen(stops[t])
          /\ OffNow(t) + ran[t] <= age[t] + LateBy(stops[t]) + Late
          /\ OffNow(t) \in Nat
      BY <1>1, CountedAtAWake
    <2> DEFINE g == OffNow(t)
    <2>3. off'[t] = g /\ g \in Nat
      BY <2>2
    <2>4. /\ age[t] <= ran[t] + g + Unseen(stops[t])
          /\ g + ran[t] <= age[t] + LateBy(stops[t]) + Late
      BY <2>2
    <2> HIDE DEF g
    <2>5. /\ NotLess(0, age[t], g, ran[t], Unseen(stops[t]))
          /\ NotMore(0, late', age[t], g, ran[t], LateBy(stops[t]))
      BY <2>3, <2>4, CountingOf, TakenOff
    <2>6. ran[t] <= age[t]
      BY <1>1, CountingOf
    <2> QED
      BY <2>1, <2>3, <2>5, <2>6 DEF Counting
  <1>2. CASE ~HasBegun(t)
    <2>1. ~HasBegun(t)'
      BY <1>2 DEF HasBegun
    <2>2. OffNow(t) = off[t]
      BY <1>2 DEF OffNow
    <2>3. NothingKept(t)
      BY <1>2, CountingOf
    <2> QED
      BY <2>1, <2>2, <2>3 DEF Counting, NothingKept
  <1> QED
    BY <1>1, <1>2

\* Dealing with the attempt of t is a wake for every other, and t has nothing to
\* be counted.
LEMMA DealKeepsCounting ==
    ASSUME RunInv, TypeOK', NEW t \in Tasks,
           NEW p \in {0, 1}, NEW f \in {0, 1},
           NEW next \in {"waiting", "stopped"},
           NEW why \in Outcomes,
           NEW delay \in 0 .. Ceiling,
           Deal(t, p, f, next, why, delay)
    PROVE  RunInv'
  <1>1. ClockIsBounded'
    BY SupervisorAssumption DEF Deal, RunInv, ClockIsBounded, TypeOK
  <1>2. ASSUME NEW u \in Tasks
        PROVE  Counting(u)'
    <2>1. CASE u = t
      <3>1. /\ phase'[t] = next /\ age'[t] = 0 /\ ran'[t] = 0 /\ stops'[t] = 0
            /\ off'[t] = 0
        BY DEF Deal, OffAfter, RunInv, TypeOK
      <3>2. ~HasBegun(t)'
        BY <3>1 DEF HasBegun
      <3> QED
        BY <2>1, <3>1, <3>2 DEF Counting, NothingKept
    <2>2. CASE u # t
      <3>1. /\ idle' = 0 /\ late' = late /\ phase'[u] = phase[u]
            /\ age'[u] = age[u] /\ ran'[u] = ran[u] /\ stops'[u] = stops[u]
        BY <2>2 DEF Deal, RunInv, TypeOK
      <3>2. off'[u] = OffNow(u)
        BY <2>2 DEF Deal, OffAfter
      <3>3. late' \in Nat
        BY <3>1 DEF RunInv, TypeOK
      <3> QED
        BY <3>1, <3>2, <3>3, WakeKeepsCounting
    <2> QED
      BY <2>1, <2>2
  <1> QED
    BY <1>1, <1>2 DEF RunInv

\* What is counted of an attempt is kept by every step.
LEMMA RunInvKept ==
    ASSUME RunInv, TypeOK', [Next]_vars
    PROVE  RunInv'
  <1> USE SupervisorAssumption
  <1>0. /\ idle \in Nat /\ tickIn \in Nat /\ late \in Nat
        /\ ClockIsBounded /\ TypeOK
    BY DEF RunInv, TypeOK
  <1>1. CASE Tick
    <2>1. ClockIsBounded'
      <3>1. /\ idle' = idle + 1 /\ tickIn' = (IF 1 < tickIn THEN tickIn - 1 ELSE 0)
            /\ late' = (IF tickIn = 0 THEN late + 1 ELSE late)
            /\ tickIn > 0 \/ late < Late
        BY <1>0, <1>1 DEF Tick, Less
      <3> QED
        BY <1>0, <3>1 DEF ClockIsBounded
    <2>2. ASSUME NEW t \in Tasks
          PROVE  Counting(t)'
      <3>1. /\ phase' = phase /\ stops'[t] = stops[t] /\ off'[t] = off[t]
            /\ idle' = idle + 1
            /\ late' = (IF tickIn = 0 THEN late + 1 ELSE late)
        BY <1>1 DEF Tick
      <3>2. CASE HasBegun(t)
        <4>1. PICK e \in {0, 1} : age'[t] = age[t] + e /\ ran'[t] = ran[t] + e
          <5>1. CASE Aging(t)
            BY <1>1, <5>1 DEF Tick
          <5>2. CASE ~Aging(t)
            <6>1. age'[t] = age[t] + 0 /\ ran'[t] = ran[t] + 0
              BY <1>1, <5>2, CountingOf DEF Tick
            <6> QED
              BY <6>1
          <5> QED
            BY <5>1, <5>2
        <4>2. tickIn > 0 => idle + tickIn <= WakeEvery
          BY <1>0 DEF ClockIsBounded
        <4>3. /\ ran[t] + e <= age[t] + e
              /\ NotLess(idle + 1, age[t] + e, off[t], ran[t] + e, Unseen(stops[t]))
              /\ NotMore(idle + 1, IF tickIn = 0 THEN late + 1 ELSE late, age[t] + e,
                         off[t], ran[t] + e, LateBy(stops[t]))
          BY <3>2, <4>2, CountingOf, RunsOn
        <4>4. HasBegun(t)'
          BY <3>1, <3>2 DEF HasBegun
        <4> QED
          BY <3>1, <4>1, <4>3, <4>4 DEF Counting
      <3>3. CASE ~HasBegun(t)
        <4>1. NothingKept(t)
          BY <3>3, CountingOf
        <4>2. ~Aging(t)
          BY <3>3 DEF Aging, HasBegun
        <4>3. age'[t] = age[t] /\ ran'[t] = ran[t]
          BY <1>1, <4>2 DEF Tick
        <4>4. ~HasBegun(t)'
          BY <3>1, <3>3 DEF HasBegun
        <4> QED
          BY <3>1, <4>1, <4>3, <4>4 DEF Counting, NothingKept
      <3> QED
        BY <3>2, <3>3
    <2> QED
      BY <2>1, <2>2 DEF RunInv
  <1>2. ASSUME NEW d \in Stops, Stop(d)
        PROVE  RunInv'
    <2>0. d \in Nat
      OBVIOUS
    <2>1. ClockIsBounded'
      <3>1. /\ idle' = idle + d /\ tickIn' = (IF d < tickIn THEN tickIn - d ELSE 0)
            /\ late' = late
        BY <1>2 DEF Stop, Less
      <3> QED
        BY <1>0, <2>0, <3>1 DEF ClockIsBounded
    <2>2. ASSUME NEW t \in Tasks
          PROVE  Counting(t)'
      <3>1. /\ phase' = phase /\ ran'[t] = ran[t] /\ off'[t] = off[t]
            /\ idle' = idle + d /\ late' = late
        BY <1>2 DEF Stop
      <3>2. CASE HasBegun(t)
        <4>1. age'[t] = age[t] + d /\ stops'[t] = stops[t] + 1
          BY <1>2, <3>2 DEF Stop
        <4>2. /\ Unseen(stops'[t]) = Unseen(stops[t]) + WakeEvery + Late
              /\ LateBy(stops'[t]) = LateBy(stops[t]) + Late
          BY <4>1, CountingOf, OneMoreStop
        <4>3. /\ ran[t] <= age[t] + d
              /\ NotLess(idle + d, age[t] + d, off[t], ran[t],
                         Unseen(stops[t]) + WakeEvery + Late)
              /\ NotMore(idle + d, late, age[t] + d, off[t], ran[t],
                         LateBy(stops[t]) + Late)
          BY <2>0, <3>2, CountingOf, StandsStill
        <4>4. HasBegun(t)'
          BY <3>1, <3>2 DEF HasBegun
        <4> QED
          BY <3>1, <4>1, <4>2, <4>3, <4>4 DEF Counting
      <3>3. CASE ~HasBegun(t)
        <4>1. NothingKept(t)
          BY <3>3, CountingOf
        <4>2. age'[t] = age[t] /\ stops'[t] = stops[t]
          BY <1>2, <3>3 DEF Stop
        <4>3. ~HasBegun(t)'
          BY <3>1, <3>3 DEF HasBegun
        <4> QED
          BY <3>1, <4>1, <4>2, <4>3 DEF Counting, NothingKept
      <3> QED
        BY <3>2, <3>3
    <2> QED
      BY <2>1, <2>2 DEF RunInv
  <1>3. ASSUME NEW t \in Tasks, Begin(t)
        PROVE  RunInv'
    <2>1. ClockIsBounded'
      BY <1>0, <1>3 DEF Begin, ClockIsBounded, clockVars
    <2>2. ASSUME NEW u \in Tasks
          PROVE  Counting(u)'
      <3>0. UNCHANGED <<idle, late, age, ran, stops, off>>
        BY <1>3 DEF Begin, clockVars, runVars
      <3>1. CASE u = t
        <4>1. NothingKept(t)
          BY <1>3, CountingOf DEF Begin, HasBegun
        <4>2. ran'[t] <= age'[t]
          BY <3>0, <4>1 DEF NothingKept
        <4>3. /\ NotLess(idle, 0, 0, 0, 0)
              /\ NotMore(idle, late, 0, 0, 0, 0)
          <5>1. Pending(idle, 0) = 0
            BY <1>0, LeastLess DEF Pending
          <5> QED
            BY <1>0, <5>1 DEF NotLess, NotMore
        <4>4. Unseen(stops[t]) = 0 /\ LateBy(stops[t]) = 0
          BY <4>1, OneMoreStop DEF NothingKept
        <4>5. HasBegun(t)'
          BY <1>3 DEF Begin, HasBegun, RunInv, TypeOK
        <4>6. age'[t] = 0 /\ off'[t] = 0 /\ ran'[t] = 0
          BY <3>0, <4>1 DEF NothingKept
        <4> QED
          BY <3>0, <3>1, <4>2, <4>3, <4>4, <4>5, <4>6 DEF Counting
      <3>2. CASE u # t
        <4>1. phase'[u] = phase[u]
          BY <1>3, <3>2 DEF Begin
        <4> QED
          BY <3>0, <4>1 DEF RunInv, Counting, HasBegun, NothingKept
      <3> QED
        BY <3>1, <3>2
    <2> QED
      BY <2>1, <2>2 DEF RunInv
  <1>4. ASSUME NEW t \in Tasks, End(t)
        PROVE  RunInv'
    <2>1. ClockIsBounded'
      BY <1>0, <1>4 DEF End, ClockIsBounded, clockVars
    <2>2. ASSUME NEW u \in Tasks
          PROVE  Counting(u)'
      <3>1. UNCHANGED <<idle, late, age, ran, stops, off>>
        BY <1>4 DEF End, clockVars, runVars
      <3>2. HasBegun(u)' <=> HasBegun(u)
        BY <1>4 DEF End, HasBegun, RunInv, TypeOK
      <3> QED
        BY <3>1, <3>2 DEF RunInv, Counting, NothingKept
    <2> QED
      BY <2>1, <2>2 DEF RunInv
  <1>5. CASE Wake
    <2>1. ClockIsBounded'
      BY <1>0, <1>5 DEF Wake, ClockIsBounded
    <2>2. ASSUME NEW t \in Tasks
          PROVE  Counting(t)'
      <3>1. /\ idle' = 0 /\ late' \in Nat /\ phase'[t] = phase[t]
            /\ age'[t] = age[t] /\ ran'[t] = ran[t] /\ stops'[t] = stops[t]
        BY <1>5 DEF Wake, attemptVars, runVars
      <3>2. off'[t] = OffNow(t)
        BY <1>5 DEF Wake
      <3> QED
        BY <3>1, <3>2, WakeKeepsCounting
    <2> QED
      BY <2>1, <2>2 DEF RunInv
  <1>6. ASSUME NEW t \in Tasks, Join(t)
        PROVE  RunInv'
    <2>1. CASE Stopped(t)
      <3>1. outcome[t] \in Outcomes /\ 0 \in 0 .. Ceiling
        BY <1>0 DEF TypeOK
      <3> QED
        BY <2>1, <3>1, DealKeepsCounting DEF Stopped
    <2>2. CASE Retried(t)
      <3>1. Backoff(FaultsSoFar(t) + 1) \in 0 .. Ceiling
        BY <1>0, SoFarType, BackoffCapped
      <3> QED
        BY <2>2, <3>1, DealKeepsCounting DEF Retried, Outcomes
    <2>3. CASE Restarted(t)
      BY <2>3, DealKeepsCounting DEF Restarted, Outcomes
    <2>4. CASE GivenUp(t)
      BY <2>4, DealKeepsCounting DEF GivenUp, Outcomes
    <2> QED
      BY <1>6, <2>1, <2>2, <2>3, <2>4 DEF Join
  <1>7. CASE UNCHANGED vars
    <2>1. UNCHANGED <<idle, late, tickIn, age, ran, stops, off, phase>>
      BY <1>7 DEF vars, attemptVars, runVars, clockVars
    <2> QED
      BY <2>1 DEF RunInv, ClockIsBounded, Counting, HasBegun, NothingKept
  <1> QED
    BY <1>1, <1>2, <1>3, <1>4, <1>5, <1>6, <1>7 DEF Next, Returned

\* What is counted of a run while it goes on is what is seen of it at a wake.
LEMMA CountedIsSeen ==
    ASSUME RunInv
    PROVE  EveryRunIsSeen
  <1> SUFFICES ASSUME NEW t \in Tasks, HasBegun(t)
               PROVE  /\ RunSeen(t) <= ran[t] + (WakeEvery + Late) * stops[t]
                      /\ ran[t] <= RunSeen(t) + Late * (stops[t] + 1)
    BY DEF EveryRunIsSeen
  <1>1. /\ age[t] <= ran[t] + OffNow(t) + Unseen(stops[t])
        /\ OffNow(t) + ran[t] <= age[t] + LateBy(stops[t]) + Late
        /\ OffNow(t) \in Nat
    BY CountedAtAWake
  <1> DEFINE g == OffNow(t)
             c == RunSeen(t)
  <1>2. c = (IF g < age[t] THEN age[t] - g ELSE 0)
    BY DEF RunSeen, Less
  <1>3. /\ g \in Nat /\ age[t] <= ran[t] + g + Unseen(stops[t])
        /\ g + ran[t] <= age[t] + LateBy(stops[t]) + Late
    BY <1>1
  <1>4. LateBy(stops[t] + 1) = LateBy(stops[t]) + Late
    BY CountingOf, OneMoreStop
  <1>5. Late \in Nat
    BY SupervisorAssumption
  <1> HIDE DEF g, c
  <1>6. c <= ran[t] + Unseen(stops[t])
    BY <1>2, <1>3, CountingOf
  <1>7. ran[t] <= c + LateBy(stops[t] + 1)
    BY <1>2, <1>3, <1>4, <1>5, CountingOf
  <1> QED
    BY <1>6, <1>7 DEF c, Unseen, LateBy

\* Where no attempt has begun nothing is counted, of a run or in a row.
NothingBegun ==
    /\ phase \in [Tasks -> {"waiting", "stopped"}]
    /\ outcome \in [Tasks -> {"none", "finished"}]
    /\ wait = [t \in Tasks |-> 0] /\ age = wait /\ off = wait
    /\ panics = wait /\ faults = wait
    /\ ran = wait /\ stops = wait /\ atMost = wait /\ atLeast = wait
    /\ idle = 0 /\ tickIn = 0 /\ late = 0

LEMMA NothingIsCounted ==
    ASSUME NothingBegun
    PROVE  RunInv
  <1> USE SupervisorAssumption
  <1>1. TypeOK
    BY DEF NothingBegun, TypeOK, Outcomes
  <1>2. ClockIsBounded
    BY DEF NothingBegun, ClockIsBounded
  <1>3. ASSUME NEW t \in Tasks
        PROVE  Counting(t)
    BY DEF NothingBegun, Counting, HasBegun, NothingKept
  <1> QED
    BY <1>1, <1>2, <1>3 DEF RunInv

\* What the supervisor would count of the run of an attempt is what it ran: more
\* by what goes unseen of each stop at the most, and less by what the wakes were
\* late by, whichever task ends when and whatever stops the process.
THEOREM RunsAreCounted == Spec => []EveryRunIsSeen
  <1>1. Init => RunInv
    <2>1. Init => NothingBegun
      BY DEF Init, NothingBegun
    <2> QED
      BY <2>1, NothingIsCounted
  <1>2. RunInv /\ TypeOK' /\ [Next]_vars => RunInv'
    BY RunInvKept
  <1>3. RunInv => EveryRunIsSeen
    BY CountedIsSeen
  <1> QED
    BY <1>1, <1>2, <1>3, SupervisorTypes, PTL DEF Spec

-----------------------------------------------------------------------------
(***************************************************************************)
(* Panics in a row.  The supervisor starts a row again where its own count *)
(* of a run says so, which lies between the two of the observers: where one *)
(* is sure that an attempt worked it worked, and where it worked the other *)
(* takes it that it may have.                                              *)
(***************************************************************************)
LEMMA WorkIsSeen ==
    ASSUME EveryRunIsSeen, TypeOK, NEW t \in Tasks, HasBegun(t)
    PROVE  /\ SurelyWorked(t) => Worked(t)
           /\ Worked(t) => MayHaveWorked(t)
  <1> DEFINE c == RunSeen(t)
             m == Late * (stops[t] + 1)
             n == (WakeEvery + Late) * stops[t]
             k == Less(ran[t], m)
  <1>1. c <= ran[t] + n /\ ran[t] <= c + m
    BY DEF EveryRunIsSeen
  <1>2. stops[t] \in Nat /\ ran[t] \in Nat /\ Progress \in Nat /\ Progress > 0
    BY SupervisorAssumption DEF TypeOK
  <1>3. m \in Nat /\ n \in Nat
    <2>1. m = LateBy(stops[t] + 1) /\ n = Unseen(stops[t])
      BY DEF LateBy, Unseen
    <2>2. stops[t] + 1 \in Nat
      BY <1>2
    <2> HIDE DEF m, n
    <2> QED
      BY <1>2, <2>1, <2>2, OneMoreStop
  <1>4. c \in Nat
    <2>1. age[t] \in Nat /\ OffNow(t) \in Nat
      BY OffType DEF TypeOK
    <2> QED
      BY <2>1, LessType DEF RunSeen
  <1>5. k = (IF m < ran[t] THEN ran[t] - m ELSE 0)
    BY DEF Less
  <1> HIDE DEF c, m, n, k
  <1>6. k >= Progress => c >= Progress
    BY <1>1, <1>2, <1>3, <1>4, <1>5
  <1>7. c >= Progress => ran[t] + n >= Progress
    BY <1>1, <1>2, <1>3, <1>4
  <1> QED
    BY <1>6, <1>7 DEF SurelyWorked, Worked, MayHaveWorked, c, m, n, k

\* A task is given up only where it stops, and the rows are those of PanicsInARow.
RowInv ==
    /\ PanicsInARow
    /\ \A t \in Tasks : outcome[t] = "exhausted" => phase[t] = "stopped"

\* What dealing with an attempt makes of the three rows.
LEMMA DealtRows ==
    ASSUME TypeOK, TypeOK', EveryRunIsSeen, RowInv, NEW t \in Tasks, phase[t] = "ended",
           NEW p \in {0, 1}, NEW f \in {0, 1},
           NEW next \in {"waiting", "stopped"},
           NEW why \in Outcomes,
           NEW delay \in 0 .. Ceiling,
           Deal(t, p, f, next, why, delay),
           next = "waiting" => p = (IF outcome[t] = "panic" THEN 1 ELSE 0),
           next = "waiting" => PanicsSoFar(t) + p <= RestartLimit,
           why = "exhausted" => /\ next = "stopped" /\ outcome[t] = "panic"
                                /\ PanicsSoFar(t) >= RestartLimit
    PROVE  RowInv'
  <1> DEFINE one == IF outcome[t] = "panic" THEN 1 ELSE 0
             most == IF SurelyWorked(t) THEN 0 ELSE atMost[t]
             least == IF MayHaveWorked(t) THEN 0 ELSE atLeast[t]
             row == PanicsSoFar(t)
  <1>1. /\ atMost' = [atMost EXCEPT ![t] = Least(most + one, RestartLimit + 2)]
        /\ atLeast' = [atLeast EXCEPT ![t] = Least(least + one, RestartLimit + 2)]
        /\ phase' = [phase EXCEPT ![t] = next]
        /\ outcome' = [outcome EXCEPT ![t] = why]
        /\ panics' = [panics EXCEPT ![t] = row + p]
    BY DEF Deal, PanicsSoFar, TypeOK
  <1>2. /\ atMost'[t] = Least(most + one, RestartLimit + 2)
        /\ atLeast'[t] = Least(least + one, RestartLimit + 2)
        /\ phase'[t] = next /\ outcome'[t] = why
        /\ panics'[t] = row + p
    <2> HIDE DEF most, least, one, row
    <2> QED
      BY <1>1 DEF TypeOK
  <1>3. /\ atLeast[t] <= panics[t] /\ panics[t] <= atMost[t]
        /\ panics[t] \in 0 .. RestartLimit /\ atLeast[t] \in Nat /\ atMost[t] \in Nat
        /\ RestartLimit \in Nat
    BY SupervisorAssumption DEF RowInv, PanicsInARow, TypeOK
  <1>4. /\ SurelyWorked(t) => Worked(t)
        /\ Worked(t) => MayHaveWorked(t)
    BY WorkIsSeen DEF HasBegun
  <1>5. /\ least <= row /\ row <= most /\ row \in 0 .. RestartLimit
        /\ least \in Nat /\ most \in Nat /\ one \in {0, 1}
    BY <1>3, <1>4 DEF PanicsSoFar
  <1>6. outcome[t] = "panic" <=> one = 1
    OBVIOUS
  <1>7. next = "waiting" => p = one
    OBVIOUS
  <1> HIDE DEF most, least, one, row
  <1>8. /\ atMost'[t] = (IF most + one < RestartLimit + 2
                         THEN most + one ELSE RestartLimit + 2)
        /\ atLeast'[t] = (IF least + one < RestartLimit + 2
                          THEN least + one ELSE RestartLimit + 2)
    BY <1>2 DEF Least
  <1>9. next = "waiting" => atLeast'[t] <= panics'[t] /\ panics'[t] <= atMost'[t]
    <2>1. ASSUME next = "waiting"
          PROVE  row + one <= RestartLimit
      BY <2>1, <1>7 DEF row
    <2> QED
      BY <1>2, <1>3, <1>5, <1>7, <1>8, <2>1
  <1>10. atLeast'[t] <= RestartLimit + 1
    BY <1>3, <1>5, <1>8
  <1>11. why = "exhausted" => atMost'[t] > RestartLimit
    <2>1. ASSUME why = "exhausted"
          PROVE  one = 1 /\ row >= RestartLimit
      BY <2>1, <1>6 DEF row
    <2> QED
      BY <1>3, <1>5, <1>8, <2>1
  <1>12. ASSUME NEW u \in Tasks, u # t
         PROVE  /\ atMost'[u] = atMost[u] /\ atLeast'[u] = atLeast[u]
                /\ panics'[u] = panics[u] /\ phase'[u] = phase[u]
                /\ outcome'[u] = outcome[u]
    BY <1>1, <1>12 DEF TypeOK
  <1>13. why = "exhausted" => next = "stopped"
    OBVIOUS
  <1>14. ASSUME NEW u \in Tasks
         PROVE  /\ phase'[u] # "stopped"
                     => atLeast'[u] <= panics'[u] /\ panics'[u] <= atMost'[u]
                /\ atLeast'[u] <= RestartLimit + 1
                /\ outcome'[u] = "exhausted" => atMost'[u] > RestartLimit
                /\ outcome'[u] = "exhausted" => phase'[u] = "stopped"
    <2>1. CASE u = t
      BY <1>2, <1>9, <1>10, <1>11, <1>13, <2>1
    <2>2. CASE u # t
      BY <1>12, <2>2 DEF RowInv, PanicsInARow
    <2> QED
      BY <2>1, <2>2
  <1> QED
    BY <1>14 DEF RowInv, PanicsInARow

\* Every step keeps the rows.
LEMMA RowsKept ==
    ASSUME TypeOK, TypeOK', EveryRunIsSeen, RowInv, [Next]_vars
    PROVE  RowInv'
  <1>1. ASSUME UNCHANGED <<phase, outcome, panics, atMost, atLeast>>
        PROVE  RowInv'
    BY <1>1 DEF RowInv, PanicsInARow
  <1>2. CASE Tick
    BY <1>1, <1>2 DEF Tick, countVars
  <1>3. ASSUME NEW d \in Stops, Stop(d)
        PROVE  RowInv'
    BY <1>1, <1>3 DEF Stop, countVars
  <1>4. ASSUME NEW t \in Tasks, Begin(t)
        PROVE  RowInv'
    <2>1. UNCHANGED <<outcome, panics, atMost, atLeast>>
      BY <1>4 DEF Begin, countVars
    <2>2. ASSUME NEW u \in Tasks
          PROVE  phase'[u] = "stopped" <=> phase[u] = "stopped"
      BY <1>4 DEF Begin, TypeOK
    <2> QED
      BY <2>1, <2>2 DEF RowInv, PanicsInARow
  <1>5. ASSUME NEW t \in Tasks, End(t)
        PROVE  RowInv'
    <2>1. UNCHANGED <<panics, atMost, atLeast>>
      BY <1>5 DEF End, countVars
    <2>2. ASSUME NEW u \in Tasks
          PROVE  /\ phase'[u] = "stopped" <=> phase[u] = "stopped"
                 /\ outcome'[u] = "exhausted" => outcome[u] = "exhausted"
      BY <1>5 DEF End, TypeOK
    <2> QED
      BY <2>1, <2>2 DEF RowInv, PanicsInARow
  <1>6. CASE Wake
    BY <1>1, <1>6 DEF Wake, attemptVars, countVars
  <1>7. ASSUME NEW t \in Tasks, Join(t)
        PROVE  RowInv'
    <2>0. PanicsSoFar(t) \in 0 .. RestartLimit /\ RestartLimit \in Nat
      BY SoFarType, SupervisorAssumption
    <2>1. CASE Stopped(t)
      <3>1. /\ outcome[t] \in Outcomes /\ 0 \in 0 .. Ceiling
            /\ outcome[t] # "exhausted" /\ phase[t] = "ended"
        BY <2>1, SupervisorAssumption DEF Stopped, Outcomes
      <3> QED
        BY <2>1, <3>1, DealtRows DEF Stopped
    <2>2. CASE Retried(t)
      <3>1. Backoff(FaultsSoFar(t) + 1) \in 0 .. Ceiling
        BY SoFarType, BackoffCapped
      <3>2. /\ outcome[t] = "transient" /\ phase[t] = "ended" /\ "none" \in Outcomes
            /\ PanicsSoFar(t) + 0 <= RestartLimit
        BY <2>0, <2>2 DEF Retried, Outcomes
      <3>3. Deal(t, 0, 1, "waiting", "none", Backoff(FaultsSoFar(t) + 1))
        BY <2>2 DEF Retried
      <3> QED
        BY <3>1, <3>2, <3>3, DealtRows
    <2>3. CASE Restarted(t)
      <3>1. /\ outcome[t] = "panic" /\ phase[t] = "ended" /\ "none" \in Outcomes
            /\ PanicsSoFar(t) + 1 <= RestartLimit /\ 0 \in 0 .. Ceiling
        BY <2>0, <2>3, SupervisorAssumption DEF Restarted, Outcomes
      <3>2. Deal(t, 1, 0, "waiting", "none", 0)
        BY <2>3 DEF Restarted
      <3> QED
        BY <3>1, <3>2, DealtRows
    <2>4. CASE GivenUp(t)
      <3>1. /\ outcome[t] = "panic" /\ phase[t] = "ended" /\ "exhausted" \in Outcomes
            /\ PanicsSoFar(t) >= RestartLimit /\ 0 \in 0 .. Ceiling
        BY <2>4, SupervisorAssumption DEF GivenUp, Outcomes
      <3>2. Deal(t, 0, 0, "stopped", "exhausted", 0)
        BY <2>4 DEF GivenUp
      <3> QED
        BY <3>1, <3>2, DealtRows
    <2> QED
      BY <1>7, <2>1, <2>2, <2>3, <2>4 DEF Join
  <1>8. CASE UNCHANGED vars
    BY <1>1, <1>8 DEF vars, attemptVars, countVars
  <1> QED
    BY <1>2, <1>3, <1>4, <1>5, <1>6, <1>7, <1>8 DEF Next, Returned

LEMMA NothingInARow ==
    ASSUME NothingBegun
    PROVE  RowInv
  BY SupervisorAssumption DEF NothingBegun, RowInv, PanicsInARow

\* What is counted of the runs and in a row is kept together.
LEMMA CountsKept ==
    ASSUME RunInv, RowInv, [Next]_vars
    PROVE  RunInv' /\ RowInv'
  <1>1. TypeOK'
    BY TypesKept DEF RunInv
  <1>2. RunInv'
    BY <1>1, RunInvKept
  <1>3. RowInv'
    BY <1>1, CountedIsSeen, RowsKept DEF RunInv
  <1> QED
    BY <1>2, <1>3

\* A task is given up on for a row of panics of RESTART_LIMIT and one more, as one
\* counts who sees what its attempts ran, and never panics for longer than that,
\* whatever it waits for and whenever the process is stopped.
THEOREM GivenUpForARow == Spec => []PanicsInARow
  <1>1. Init => RowInv
    <2>1. Init => NothingBegun
      BY DEF Init, NothingBegun
    <2> QED
      BY <2>1, NothingInARow
  <1>2. TypeOK /\ TypeOK' /\ EveryRunIsSeen /\ RowInv /\ [Next]_vars => RowInv'
    BY RowsKept
  <1>3. RowInv => PanicsInARow
    BY DEF RowInv
  <1> QED
    BY <1>1, <1>2, <1>3, SupervisorTypes, RunsAreCounted, PTL DEF Spec
=============================================================================
