---------------------------- MODULE ListingProofs ----------------------------
(***************************************************************************)
(* What holds of the list's task whatever the settings, the service and    *)
(* those who log in do, and of the requests of the client it reads with,   *)
(* however many ask at once.                                               *)
(***************************************************************************)
EXTENDS MCListing, FiniteSetTheorems, TLAPS

-----------------------------------------------------------------------------
(***************************************************************************)
(* A new token.                                                            *)
(***************************************************************************)
\* A token that was kept since the reading took its own has a login behind it
\* that has yet to wake the task, or its permit, unless its connection was dropped.
TokenIsLooked ==
    doing = "list" \/ (doing = "waiting" /\ outcome = "refused") =>
        kept \in {0, tried, stranded} \/ loggedIn \/ waking # {}

\* A login that keeps a token while the one before is being tried is not lost
\* (Wakes::logged_in, Reader::run).
THEOREM LoginIsNotLost == Spec => []NewTokenIsTried
<1>1. Init => TokenIsLooked
      BY DEF Init, Started, TokenIsLooked
<1>2. TokenIsLooked /\ [Next]_vars => TokenIsLooked'
  <2> SUFFICES ASSUME TokenIsLooked, [Next]_vars PROVE TokenIsLooked'
      OBVIOUS
  <2>1. CASE WokenByLogin \/ WokenByTime
        BY <2>1 DEF WokenByLogin, WokenByTime, Begin, TokenIsLooked
  <2>2. CASE WokenByMiss
        BY <2>2 DEF WokenByMiss, account, history, TokenIsLooked
  <2>3. CASE FindsToken
        BY <2>3 DEF FindsToken, account, history, TokenIsLooked
  <2>4. ASSUME NEW reason, FindsNone(reason) PROVE TokenIsLooked'
        BY <2>4 DEF FindsNone, Ends, TokenIsLooked
  <2>5. ASSUME NEW why \in Reasons, IsRefused(why) PROVE TokenIsLooked'
        BY <2>5 DEF IsRefused, Ends, account, permits, TokenIsLooked
  <2>6. ASSUME NEW reason, NEW again, FailsWith(reason, again) PROVE TokenIsLooked'
        BY <2>6 DEF FailsWith, Ends, TokenIsLooked
  <2>7. ASSUME NEW a \in Asked, IsAskedToWait(a) PROVE TokenIsLooked'
        BY <2>7 DEF IsAskedToWait, Ends, TokenIsLooked
  <2>8. CASE GoesThrough \/ TaskRestarts
        BY <2>8 DEF GoesThrough, TaskRestarts, TokenIsLooked
  <2>9. CASE Miss \/ Logout \/ ConnectionsDrop
        BY <2>9 DEF Miss, Logout, ConnectionsDrop, taskVars, permits, account, history, TokenIsLooked
  <2>10. CASE Tick
        BY <2>10 DEF Tick, permits, account, TokenIsLooked
  <2>11. ASSUME NEW c \in Clients, KeepsToken(c) PROVE TokenIsLooked'
        BY <2>11 DEF KeepsToken, taskVars, permits, history, TokenIsLooked
  <2>12. ASSUME NEW c \in Clients, WakesTask(c) PROVE TokenIsLooked'
        BY <2>12 DEF WakesTask, Held, TokenIsLooked
  <2>13. CASE UNCHANGED vars
        BY <2>13 DEF vars, taskVars, permits, account, history, TokenIsLooked
  <2> QED BY <2>1, <2>2, <2>3, <2>4, <2>5, <2>6, <2>7, <2>8, <2>9, <2>10, <2>11, <2>12, <2>13
          DEF Next, Woken, Ended, Around, FindsNoToken, IsGivenNoToken, Fails, IsNotKept
<1>3. TokenIsLooked => NewTokenIsTried
      BY DEF TokenIsLooked, NewTokenIsTried
<1> QED BY <1>1, <1>2, <1>3, PTL DEF Spec

-----------------------------------------------------------------------------
(***************************************************************************)
(* How long the service is left alone.                                     *)
(***************************************************************************)
\* What a power of two is, from how many subsets a set has.
LEMMA PowersDouble ==
    ASSUME NEW n \in Nat
    PROVE  2 ^ n \in Nat /\ 2 ^ (n + 1) = 2 * 2 ^ n
  <1> DEFINE S == 1 .. n
             T == SUBSET S
             U == {t \cup {n + 1} : t \in T}
  <1>1. IsFiniteSet(S) /\ Cardinality(S) = n /\ n + 1 \notin S
    BY FS_Interval
  <1>2. IsFiniteSet(T) /\ Cardinality(T) = 2 ^ n
    BY <1>1, FS_SUBSET
  <1>3. Cardinality(T) \in Nat
    BY <1>2, FS_CardinalityType
  <1>4. IsFiniteSet(U) /\ Cardinality(U) = Cardinality(T)
    <2> DEFINE f == [t \in T |-> t \cup {n + 1}]
    <2>1. f \in [T -> U]
      OBVIOUS
    <2>2. ASSUME NEW s \in T, NEW t \in T, f[s] = f[t]
          PROVE  s = t
      <3>1. s \cup {n + 1} = t \cup {n + 1}
        BY <2>2
      <3>2. n + 1 \notin s /\ n + 1 \notin t
        BY <1>1
      <3> QED
        BY <3>1, <3>2
    <2>3. \A u \in U : \E t \in T : f[t] = u
      OBVIOUS
    <2> HIDE DEF f
    <2>4. f \in Bijection(T, U)
      BY <2>1, <2>2, <2>3 DEF Bijection, Injection, IsInjective, Surjection
    <2>5. ExistsBijection(T, U)
      BY <2>4 DEF ExistsBijection
    <2> QED
      BY <1>2, <2>5, FS_Bijection
  <1>5. T \cap U = {}
    BY <1>1
  <1>6. SUBSET (S \cup {n + 1}) = T \cup U
    <2>1. ASSUME NEW v \in SUBSET (S \cup {n + 1})
          PROVE  v \in T \cup U
      <3>1. CASE n + 1 \in v
        <4>1. v = (v \ {n + 1}) \cup {n + 1} /\ v \ {n + 1} \in T
          BY <3>1
        <4> QED
          BY <4>1
      <3>2. CASE n + 1 \notin v
        BY <3>2
      <3> QED
        BY <3>1, <3>2
    <2>2. T \cup U \subseteq SUBSET (S \cup {n + 1})
      OBVIOUS
    <2> QED
      BY <2>1, <2>2
  <1>7. IsFiniteSet(S \cup {n + 1}) /\ Cardinality(S \cup {n + 1}) = n + 1
    BY <1>1, FS_AddElement
  <1>8. Cardinality(SUBSET (S \cup {n + 1})) = 2 ^ (n + 1)
    BY <1>7, FS_SUBSET
  <1> HIDE DEF S, T, U
  <1>9. Cardinality(T \cup U) = Cardinality(T) + Cardinality(U) - Cardinality({})
    BY <1>2, <1>4, <1>5, FS_Union
  <1>10. Cardinality(T \cup U) = 2 * Cardinality(T)
    BY <1>3, <1>4, <1>9, FS_EmptySet
  <1> QED
    BY <1>2, <1>3, <1>6, <1>8, <1>10

\* How long a failure waits at least after so many.
After(n) == LessOf(FirstRetry * 2 ^ n, LastRetry)

LEMMA Doubling ==
    ASSUME NEW n \in Nat, NEW w \in Nat, After(n) <= w
    PROVE  /\ After(n) \in Nat /\ After(n + 1) \in Nat /\ Doubled(w) \in Nat
           /\ After(n) <= LastRetry
           /\ After(n) <= After(n + 1) /\ After(n + 1) <= Doubled(w)
  <1>1. PICK p \in Nat : p = 2 ^ n /\ 2 ^ (n + 1) = 2 * p
    BY PowersDouble
  <1>2. FirstRetry \in Nat /\ LastRetry \in Nat
    BY ListingAssumption
  <1>3. PICK q \in Nat : q = FirstRetry * p
    BY <1>1, <1>2
  <1>4. FirstRetry * 2 ^ n = q /\ FirstRetry * 2 ^ (n + 1) = 2 * q
    BY <1>1, <1>2, <1>3
  <1> QED
    BY <1>2, <1>3, <1>4 DEF After, Doubled, LessOf

Outcomes == {"read", "refused", "noToken", "failed"}

TimesOK ==
    /\ outcome \in Outcomes
    /\ doing \in {"waiting", "token", "list"}
    /\ wait \in Nat /\ failures \in 0 .. Long /\ rest \in 0 .. Long
    /\ due \in Nat \cup {Off} /\ since \in Nat \cup {Off} /\ asked \in Asked \cup {Off}

\* The next reading is due no sooner than the service is owed, whenever it is due
\* at all.
RestInv ==
    /\ TimesOK
    /\ After(failures) <= wait
    /\ outcome = "failed" /\ asked = Off => failures > 0
    /\ due # Off => Owed # Off /\ due + rest >= Owed

LEMMA OwedIs ==
    ASSUME TimesOK
    PROVE  /\ outcome = "read" => Owed = 0
           /\ outcome = "refused" => Owed = Off
           /\ outcome = "noToken" => Owed = Refresh
           /\ outcome = "failed" /\ asked # Off => Owed = asked
           /\ outcome = "failed" /\ asked = Off => Owed = After(failures - 1)
  BY DEF TimesOK, Outcomes, Owed, After

\* What is owed is never longer than is told apart.
LEMMA OwedIsShort ==
    ASSUME RestInv, Owed # Off
    PROVE  Owed \in Nat /\ Owed <= Long
  <1>0. TimesOK
    BY DEF RestInv
  <1>1. /\ Off \notin Nat /\ Long \in Nat /\ LastRetry \in Nat /\ LastRetry <= Long
        /\ Refresh # Off => Refresh \in Nat /\ Refresh <= Long
        /\ \A a \in Asked : a \in Nat /\ a <= Long
    BY ListingAssumption DEF Periods
  <1>2. CASE outcome = "read"
    BY <1>0, <1>1, <1>2, OwedIs
  <1>3. CASE outcome = "refused"
    BY <1>0, <1>3, OwedIs
  <1>4. CASE outcome = "noToken"
    BY <1>0, <1>1, <1>4, OwedIs
  <1>5. CASE outcome = "failed" /\ asked # Off
    BY <1>0, <1>1, <1>5, OwedIs DEF TimesOK
  <1>6. CASE outcome = "failed" /\ asked = Off
    <2>1. failures - 1 \in Nat
      BY <1>1, <1>6 DEF RestInv, TimesOK
    <2>2. \E w \in Nat : After(failures - 1) <= w
      BY <1>1 DEF After, LessOf
    <2> QED
      BY <1>0, <1>1, <1>6, <2>1, <2>2, OwedIs, Doubling
  <1> QED
    BY <1>0, <1>2, <1>3, <1>4, <1>5, <1>6 DEF TimesOK, Outcomes

LEMMA RestStarts == Init => RestInv
  <1> SUFFICES ASSUME Init
               PROVE  RestInv
    OBVIOUS
  <1>1. /\ outcome = "read" /\ wait = FirstRetry /\ since = Off /\ doing = "waiting"
        /\ due = (IF AtStart THEN 0 ELSE Refresh)
        /\ rest = Long /\ failures = 0 /\ asked = Off
    BY DEF Init, Started, DueAtStart, Refreshed
  <1>2. /\ FirstRetry \in Nat /\ LastRetry \in Nat /\ Long \in Nat
        /\ Refresh \in Nat \cup {Off}
    BY ListingAssumption DEF Periods
  <1>3. TimesOK
    BY <1>1, <1>2 DEF TimesOK, Outcomes
  <1>4. After(0) <= FirstRetry
    <2>1. 2 ^ 0 = 1
      OBVIOUS
    <2> QED
      BY <1>2, <2>1 DEF After, LessOf
  <1>5. Owed = 0
    BY <1>1, <1>3, OwedIs
  <1> QED
    BY <1>1, <1>2, <1>3, <1>4, <1>5, ListingAssumption DEF RestInv

\* A step that leaves what a reading left of them alone.
LEMMA RestIsLeft ==
    ASSUME RestInv, UNCHANGED <<outcome, wait, due, failures, rest, asked>>,
           doing' \in {"waiting", "token", "list"}, since' \in Nat \cup {Off}
    PROVE  RestInv'
  BY DEF RestInv, TimesOK, Owed, After

\* A reading begins, is brought forward by a miss, or finds its token; and what
\* goes on around the task.
LEMMA RestIsKeptAround ==
    ASSUME RestInv, \/ WokenByLogin \/ WokenByTime \/ FindsToken \/ Miss \/ Logout
                    \/ ConnectionsDrop
                    \/ \E c \in Clients : KeepsToken(c) \/ WakesTask(c)
    PROVE  RestInv'
  <1>0. TimesOK
    BY DEF RestInv
  <1>1. UNCHANGED <<outcome, wait, due, failures, rest, asked>>
    BY DEF WokenByLogin, WokenByTime, Begin, FindsToken, Miss, Logout, ConnectionsDrop,
           KeepsToken, WakesTask, taskVars, history
  <1>2. doing' \in {"waiting", "token", "list"} /\ since' \in Nat \cup {Off}
    BY <1>0 DEF WokenByLogin, WokenByTime, Begin, FindsToken, Miss, Logout, ConnectionsDrop,
           KeepsToken, WakesTask, taskVars, TimesOK
  <1> QED
    BY <1>1, <1>2, RestIsLeft

LEMMA RestIsKeptByMiss ==
    ASSUME RestInv, WokenByMiss
    PROVE  RestInv'
  <1>0. TimesOK
    BY DEF RestInv
  <1>1. /\ due' = (IF Heard THEN Sooner(due, Earliest) ELSE due)
        /\ UNCHANGED <<outcome, wait, since, doing, failures, rest, asked>>
    BY DEF WokenByMiss, DueAfterMiss, history
  <1>2. CASE Heard
    <2>1. outcome = "read" /\ OnMiss \in Nat
      BY <1>2, ListingAssumption DEF Heard, Periods
    <2>2. Earliest \in Nat
      BY <1>0, <2>1 DEF Earliest, TimesOK
    <2>3. due' \in Nat \cup {Off}
      BY <1>0, <1>1, <1>2, <2>2 DEF Sooner, TimesOK
    <2>4. TimesOK'
      BY <1>0, <1>1, <2>3 DEF TimesOK
    <2>5. outcome' = "read" /\ rest' \in Nat
      BY <1>0, <1>1, <2>1, ListingAssumption DEF TimesOK
    <2>6. Owed' = 0
      BY <2>5 DEF Owed
    <2>7. due' # Off => Owed' # Off /\ due' + rest' >= Owed'
      <3>1. 0 # Off
        BY ListingAssumption
      <3>2. due' # Off => due' + rest' >= 0
        <4> SUFFICES ASSUME due' # Off
                     PROVE  due' + rest' >= 0
          OBVIOUS
        <4>1. due' \in Nat
          BY <2>3
        <4>2. rest' \in Nat
          BY <2>5
        <4>3. \A a, b \in Nat : a + b >= 0
          OBVIOUS
        <4> QED
          BY <4>1, <4>2, <4>3
      <3> QED
        BY <2>6, <3>1, <3>2
    <2> QED
      BY <1>1, <2>4, <2>5, <2>7 DEF RestInv, After
  <1>3. CASE ~Heard
    BY <1>0, <1>1, <1>3, RestIsLeft DEF TimesOK
  <1> QED
    BY <1>2, <1>3

\* A unit less is due and one more has passed, or enough had.
LEMMA RestIsKeptByTime ==
    ASSUME RestInv, Tick
    PROVE  RestInv'
  <1>0. TimesOK
    BY DEF RestInv
  <1>1. /\ due' = (IF due \in {0, Off} THEN due ELSE due - 1)
        /\ since' = (IF since = Off THEN Off ELSE LessOf(since + 1, Long))
        /\ rest' = LessOf(rest + 1, Long)
        /\ UNCHANGED <<outcome, wait, doing, failures, asked>>
    BY DEF Tick
  <1>2. Long \in Nat /\ Off \notin Nat
    BY ListingAssumption
  <1>3. TimesOK'
    BY <1>0, <1>1, <1>2 DEF TimesOK, LessOf
  <1>4. Owed' = Owed
    BY <1>1 DEF Owed
  <1>5. ASSUME due' # Off
        PROVE  Owed' # Off /\ due' + rest' >= Owed'
    <2>1. due # Off /\ due \in Nat /\ rest \in 0 .. Long
      BY <1>0, <1>1, <1>5 DEF TimesOK
    <2>2. Owed # Off /\ due + rest >= Owed
      BY <2>1 DEF RestInv
    <2>3. PICK o \in Nat : o = Owed /\ o <= Long
      BY <2>2, OwedIsShort
    <2>4. due + rest >= o
      BY <2>2, <2>3
    <2>5. due' + rest' >= o
      BY <1>1, <1>2, <2>1, <2>3, <2>4 DEF LessOf
    <2> QED
      BY <1>4, <2>2, <2>3, <2>5
  <1> QED
    BY <1>1, <1>3, <1>5 DEF RestInv, After

\* The ways a reading can fail.
FailsSomehow ==
    \/ FindsNoToken
    \/ \E why \in Reasons : IsGivenNoToken(why) \/ IsRefused(why) \/ Fails(why) \/ IsNotKept(why)
    \/ \E after \in Asked : IsAskedToWait(after)

\* What a reading that ended leaves.
LEMMA RestIsKeptAtTheEnd ==
    ASSUME RestInv,
           FailsSomehow \/ GoesThrough
    PROVE  RestInv'
  <1>0. TimesOK /\ After(failures) <= wait
    BY DEF RestInv
  <1>1. /\ Off \notin Nat /\ Long \in Nat /\ LastRetry \in Nat /\ LastRetry <= Long
        /\ FirstRetry \in Nat /\ 0 < LastRetry /\ 0 < Long
        /\ Refresh \in Nat \cup {Off} /\ Asked \subseteq Nat
    BY ListingAssumption DEF Periods
  <1>2. ASSUME NEW reason, FindsNone(reason)
        PROVE  RestInv'
    <2>1. /\ outcome' = "noToken" /\ due' = Refresh /\ rest' = 0 /\ asked' = Off
          /\ doing' = "waiting" /\ UNCHANGED <<wait, failures, since>>
      BY <1>2 DEF FindsNone, Ends, Refreshed
    <2>2. TimesOK'
      BY <1>0, <1>1, <2>1 DEF TimesOK, Outcomes
    <2>3. Owed' = Refresh
      BY <2>1 DEF Owed
    <2> QED
      BY <1>0, <1>1, <2>1, <2>2, <2>3 DEF RestInv, After
  <1>3. ASSUME NEW why, IsRefused(why)
        PROVE  RestInv'
    <2>1. /\ outcome' = "refused" /\ due' = Off /\ rest' = 0 /\ asked' = Off
          /\ doing' = "waiting" /\ UNCHANGED <<wait, failures, since>>
      BY <1>3 DEF IsRefused, Ends
    <2>2. TimesOK'
      BY <1>0, <1>1, <2>1 DEF TimesOK, Outcomes
    <2> QED
      BY <1>0, <2>1, <2>2 DEF RestInv, After
  <1>4. ASSUME NEW reason, NEW again, FailsWith(reason, again)
        PROVE  RestInv'
    <2>1. /\ outcome' = "failed" /\ due' = wait /\ rest' = 0 /\ asked' = Off
          /\ doing' = "waiting" /\ since' = since
          /\ wait' = Doubled(wait) /\ failures' = LessOf(failures + 1, Long)
      BY <1>4 DEF FailsWith, Ends
    <2>2. failures \in Nat /\ failures <= Long /\ wait \in Nat
      BY <1>0, <1>1 DEF TimesOK
    <2>3. /\ After(failures) <= After(failures + 1) /\ After(failures + 1) <= Doubled(wait)
          /\ After(failures) \in Nat /\ After(failures + 1) \in Nat /\ Doubled(wait) \in Nat
      BY <1>0, <2>2, Doubling
    <2>4. /\ failures' \in 0 .. Long /\ failures' > 0
          /\ failures' = failures + 1 \/ failures' = failures
      BY <1>1, <2>1, <2>2 DEF LessOf
    <2>5. TimesOK'
      BY <1>0, <1>1, <2>1, <2>2, <2>3, <2>4 DEF TimesOK, Outcomes
    <2>6. After(failures') <= wait'
      BY <2>1, <2>3, <2>4
    <2>7. After(failures' - 1) \in Nat /\ After(failures' - 1) <= wait
      <3>1. CASE failures' = failures + 1
        <4>1. failures' - 1 = failures
          BY <2>2, <3>1
        <4> QED
          BY <1>0, <2>3, <4>1
      <3>2. CASE failures' = failures
        <4>1. failures - 1 \in Nat /\ (failures - 1) + 1 = failures
          BY <2>2, <2>4, <3>2
        <4>2. \E w \in Nat : After(failures - 1) <= w
          BY <1>1 DEF After, LessOf
        <4>3. After(failures - 1) \in Nat /\ After(failures - 1) <= After((failures - 1) + 1)
          BY <4>1, <4>2, Doubling
        <4>4. After(failures - 1) <= After(failures)
          BY <4>1, <4>3
        <4> QED
          BY <1>0, <2>2, <2>3, <3>2, <4>3, <4>4
      <3> QED
        BY <2>4, <3>1, <3>2
    <2>8. Owed' = After(failures' - 1)
      BY <2>1 DEF Owed, After
    <2>9. due' # Off => Owed' # Off /\ due' + rest' >= Owed'
      BY <1>1, <2>1, <2>2, <2>7, <2>8
    <2> QED
      BY <2>4, <2>5, <2>6, <2>9 DEF RestInv, After
  <1>5. ASSUME NEW a \in Asked, IsAskedToWait(a)
        PROVE  RestInv'
    <2>1. /\ outcome' = "failed" /\ due' = a /\ rest' = 0 /\ asked' = a
          /\ doing' = "waiting" /\ UNCHANGED <<wait, failures, since>>
      BY <1>5 DEF IsAskedToWait, Ends
    <2>2. TimesOK'
      BY <1>0, <1>1, <2>1 DEF TimesOK, Outcomes
    <2>3. a \in Nat /\ a # Off
      BY <1>1
    <2>4. Owed' = a
      BY <2>1, <2>3 DEF Owed
    <2> QED
      BY <1>0, <2>1, <2>2, <2>3, <2>4 DEF RestInv, After
  <1>6. CASE GoesThrough
    <2>1. /\ outcome' = "read" /\ due' = Refresh /\ rest' = 0 /\ asked' = Off
          /\ doing' = "waiting" /\ wait' = FirstRetry /\ failures' = 0 /\ since' = since
      BY <1>6 DEF GoesThrough, Refreshed
    <2>2. TimesOK'
      BY <1>0, <1>1, <2>1 DEF TimesOK, Outcomes
    <2>3. After(0) <= FirstRetry
      <3>1. 2 ^ 0 = 1
        OBVIOUS
      <3> QED
        BY <1>1, <3>1 DEF After, LessOf
    <2>4. Owed' = 0
      BY <2>1 DEF Owed
    <2> QED
      BY <1>1, <2>1, <2>2, <2>3, <2>4 DEF RestInv, After
  <1> QED
    BY <1>2, <1>3, <1>4, <1>5, <1>6 DEF FailsSomehow, FindsNoToken, IsGivenNoToken, Fails, IsNotKept

LEMMA RestIsKeptByARestart ==
    ASSUME RestInv, TaskRestarts
    PROVE  RestInv'
  <1>0. TimesOK
    BY DEF RestInv
  <1>1. /\ outcome' = "read" /\ wait' = FirstRetry /\ since' = Off /\ doing' = "waiting"
        /\ due' = (IF AtStart THEN 0 ELSE Refresh)
        /\ rest' = 0 /\ failures' = 0 /\ asked' = Off
    BY DEF TaskRestarts, DueAtStart, Refreshed
  <1>2. /\ FirstRetry \in Nat /\ LastRetry \in Nat /\ Long \in Nat
        /\ Refresh \in Nat \cup {Off} /\ Off \notin Nat
    BY ListingAssumption DEF Periods
  <1>3. TimesOK'
    BY <1>1, <1>2 DEF TimesOK, Outcomes
  <1>4. After(0) <= FirstRetry
    <2>1. 2 ^ 0 = 1
      OBVIOUS
    <2> QED
      BY <1>2, <2>1 DEF After, LessOf
  <1>5. Owed' = 0
    BY <1>1 DEF Owed
  <1> QED
    BY <1>1, <1>2, <1>3, <1>4, <1>5 DEF RestInv, After

LEMMA RestIsKept ==
    ASSUME RestInv, [Next]_vars
    PROVE  RestInv'
  <1>1. CASE Next
    BY <1>1, RestIsKeptAround, RestIsKeptByMiss, RestIsKeptByTime, RestIsKeptAtTheEnd,
       RestIsKeptByARestart
    DEF Next, Woken, Ended, Around, FailsSomehow
  <1>2. CASE UNCHANGED vars
    <2>1. UNCHANGED <<outcome, wait, due, since, doing, failures, rest, asked>>
      BY <1>2 DEF vars, taskVars, history
    <2> QED
      BY <2>1, RestIsLeft DEF RestInv, TimesOK
  <1> QED
    BY <1>1, <1>2

\* A service that failed is left alone for as long as it asked for, or for FIRST_RETRY
\* doubled with every failure up to LAST_RETRY, whatever names are missed meanwhile
\* (Reader::run): only a login brings a reading before.
THEOREM TheServiceIsLeftAlone == MCSpec => LeftAlone
  <1>1. MCInit => RestInv
    BY RestStarts DEF MCInit
  <1>2. RestInv /\ [MCNext]_<<part, vars, anilistAll>> => RestInv'
    <2> SUFFICES ASSUME RestInv, [MCNext]_<<part, vars, anilistAll>>
                 PROVE  RestInv'
      OBVIOUS
    <2>1. [Next]_vars
      BY DEF MCNext, TaskStep, ClientStep
    <2> QED
      BY <2>1, RestIsKept
  <1>3. RestInv /\ [MCNext]_<<part, vars, anilistAll>> =>
            [Begins /\ ~forLogin' => Owed # Off /\ rest >= Owed]_vars
    <2> SUFFICES ASSUME RestInv, MCNext, Begins, ~forLogin', ~(UNCHANGED vars)
                 PROVE  Owed # Off /\ rest >= Owed
      BY DEF MCNext, TaskStep, ClientStep
    <2>1. Next
      BY DEF MCNext, TaskStep, ClientStep
    <2>2. doing = "waiting" /\ doing' = "token"
      BY DEF Begins
    <2>3. WokenByTime
      BY <2>1, <2>2
      DEF Next, Woken, Ended, Around, WokenByLogin, Begin, WokenByMiss, FindsToken, FindsNoToken,
          IsGivenNoToken, FindsNone, IsRefused, Fails, IsNotKept, FailsWith, IsAskedToWait, Ends, GoesThrough, TaskRestarts, Miss, Logout, Tick,
          ConnectionsDrop, KeepsToken, WakesTask, taskVars
    <2>4. due = 0 /\ due # Off
      BY <2>3, ListingAssumption DEF WokenByTime
    <2>5. Owed # Off /\ due + rest >= Owed
      BY <2>4 DEF RestInv
    <2>6. rest \in Nat
      BY ListingAssumption DEF RestInv, TimesOK
    <2>7. PICK o \in Nat : o = Owed
      BY <2>5, OwedIsShort
    <2>8. rest >= o
      BY <2>4, <2>5, <2>6, <2>7
    <2> QED
      BY <2>5, <2>7, <2>8
  <1> QED
    BY <1>1, <1>2, <1>3, PTL DEF MCSpec, LeftAlone

-----------------------------------------------------------------------------
(***************************************************************************)
(* What is said of a failure.                                              *)
(***************************************************************************)
\* What was said last is the one failure that is not excused, and a reading that a
\* login brought finds nothing said.
SaidInv ==
    /\ excused = Failures \ {said}
    /\ doing # "waiting" /\ forLogin => said = <<>>

\* Nothing said is no failure.
LEMMA NoFailure == <<>> \notin Failures
  <1>1. \A a, b : <<a, b>> # <<>>
    OBVIOUS
  <1>2. NoToken # <<>>
    BY DEF NoToken
  <1> QED
    BY <1>1, <1>2 DEF Failures

\* A step that ends a reading says what SaidOnce lets it say.
Says ==
    /\ failure' # <<>> => (told' <=> failure' \in excused)
    /\ forLogin' => told'

\* A reading that ends with a failure tells it where it is not what was said last.
LEMMA Telling ==
    ASSUME SaidInv, doing # "waiting", NEW reason \in Failures, NEW again, NEW o, NEW pause,
           Tell(reason, again), Ends(o, reason, pause)
    PROVE  SaidInv' /\ Says
  <1>1. /\ said' = reason /\ told' = (said # reason) /\ failure' = reason
        /\ excused' = Failures \ {reason} /\ doing' = "waiting" /\ forLogin' = forLogin
    BY DEF Tell, Ends
  <1>2. Failures' = Failures
    BY DEF Failures, NoToken
  <1>3. reason # <<>>
    BY NoFailure
  <1>4. reason \in excused <=> said # reason
    BY DEF SaidInv
  <1>5. forLogin => said = <<>>
    BY DEF SaidInv
  <1>6. SaidInv'
    BY <1>1, <1>2 DEF SaidInv
  <1> QED
    BY <1>1, <1>3, <1>4, <1>5, <1>6 DEF Says

LEMMA FailureIsTold ==
    ASSUME SaidInv, FailsSomehow
    PROVE  doing # "waiting" /\ SaidInv' /\ Says
  <1>1. CASE FindsNoToken
    <2>1. NoToken \in Failures
      BY DEF Failures
    <2> QED
      BY <1>1, <2>1, Telling DEF FindsNoToken, FindsNone
  <1>2. ASSUME NEW why \in Reasons, IsGivenNoToken(why)
        PROVE  doing # "waiting" /\ SaidInv' /\ Says
    <2>1. <<"secrets", why>> \in Failures
      BY DEF Failures
    <2> QED
      BY <1>2, <2>1, Telling DEF IsGivenNoToken, FindsNone
  <1>3. ASSUME NEW why \in Reasons, IsRefused(why)
        PROVE  doing # "waiting" /\ SaidInv' /\ Says
    <2>1. <<"refused", why>> \in Failures
      BY DEF Failures
    <2> QED
      BY <1>3, <2>1, Telling DEF IsRefused
  <1>4. ASSUME NEW why \in Reasons, Fails(why) \/ IsNotKept(why)
        PROVE  doing # "waiting" /\ SaidInv' /\ Says
    <2>1. <<"list", why>> \in Failures /\ <<"store", why>> \in Failures
      BY DEF Failures
    <2>2. ASSUME NEW reason \in Failures, NEW again, FailsWith(reason, again)
          PROVE  doing # "waiting" /\ SaidInv' /\ Says
      BY <2>2, Telling DEF FailsWith
    <2> QED
      BY <1>4, <2>1, <2>2 DEF Fails, IsNotKept
  <1>5. ASSUME NEW after \in Asked, IsAskedToWait(after)
        PROVE  doing # "waiting" /\ SaidInv' /\ Says
    <2>1. <<"asked", after>> \in Failures
      BY DEF Failures
    <2> QED
      BY <1>5, <2>1, Telling DEF IsAskedToWait
  <1> QED
    BY <1>1, <1>2, <1>3, <1>4, <1>5 DEF FailsSomehow

\* A login leaves nothing said, and a reading that is due begins for none.
LEMMA SaidAsItBegins ==
    ASSUME SaidInv, WokenByLogin \/ WokenByTime
    PROVE  SaidInv' /\ doing' # "waiting"
  <1>0. Failures' = Failures
    BY DEF Failures, NoToken
  <1>1. CASE WokenByLogin
    <2>1. said' = <<>> /\ excused' = Failures /\ doing' = "token"
      BY <1>1 DEF WokenByLogin, Begin, SaidAtLogin
    <2> QED
      BY <1>0, <2>1, NoFailure DEF SaidInv
  <1>2. CASE WokenByTime
    <2>1. doing' = "token" /\ forLogin' = FALSE /\ said' = said /\ excused' = excused
      BY <1>2 DEF WokenByTime, Begin
    <2> QED
      BY <1>0, <2>1 DEF SaidInv
  <1> QED
    BY <1>1, <1>2

LEMMA SaidIsLeft ==
    ASSUME SaidInv, UNCHANGED <<said, excused, forLogin>>, doing = "waiting" <=> doing' = "waiting"
    PROVE  SaidInv'
  BY DEF SaidInv, Failures, NoToken

\* A step keeps what was said, and says what it may.
LEMMA SaidIsKept ==
    ASSUME SaidInv, Next
    PROVE  /\ SaidInv'
           /\ doing # "waiting" /\ doing' = "waiting" => Says
  <1>0. Failures' = Failures
    BY DEF Failures, NoToken
  <1>1. CASE WokenByLogin \/ WokenByTime
    BY <1>1, SaidAsItBegins
  <1>2. CASE FailsSomehow
    BY <1>2, FailureIsTold
  <1>3. CASE GoesThrough
    <2>1. said' = <<>> /\ told' = TRUE /\ failure' = <<>> /\ doing' = "waiting" /\ excused' = Failures
      BY <1>3 DEF GoesThrough
    <2> QED
      BY <1>0, <2>1, NoFailure DEF SaidInv, Says
  <1>4. CASE TaskRestarts
    <2>1. said' = <<>> /\ failure' = <<>> /\ doing' = "waiting" /\ excused' = Failures /\ forLogin' = FALSE
      BY <1>4 DEF TaskRestarts
    <2> QED
      BY <1>0, <2>1, NoFailure DEF SaidInv, Says
  <1>5. CASE \/ WokenByMiss \/ FindsToken \/ Miss \/ Logout \/ Tick \/ ConnectionsDrop
             \/ \E c \in Clients : KeepsToken(c) \/ WakesTask(c)
    <2>1. UNCHANGED <<said, excused, forLogin>> /\ (doing = "waiting" <=> doing' = "waiting")
      BY <1>5 DEF WokenByMiss, FindsToken, Miss, Logout, Tick, ConnectionsDrop, KeepsToken,
                  WakesTask, taskVars, history
    <2> QED
      BY <2>1, SaidIsLeft
  <1> QED
    BY <1>1, <1>2, <1>3, <1>4, <1>5 DEF Next, Woken, Ended, Around, FailsSomehow

\* A failure is said once, however often it comes again and however long the task then
\* waits, and is said again where another came between, a reading went through or a
\* login came; another wait AniList asks for is another failure; and whoever logs in
\* reads in the log what came of it (tell and Reader::run).
THEOREM FailuresAreSaidOnce == MCSpec => SaidOnce
  <1>1. MCInit => SaidInv
    BY NoFailure DEF MCInit, Init, Started, SaidInv
  <1>2. SaidInv /\ [MCNext]_<<part, vars, anilistAll>> => SaidInv'
    <2> SUFFICES ASSUME SaidInv, [MCNext]_<<part, vars, anilistAll>>
                 PROVE  SaidInv'
      OBVIOUS
    <2>1. CASE Next
      BY <2>1, SaidIsKept
    <2>2. CASE UNCHANGED vars
      BY <2>2, SaidIsLeft DEF vars, taskVars, history
    <2> QED
      BY <2>1, <2>2 DEF MCNext, TaskStep, ClientStep
  <1>3. SaidInv /\ [MCNext]_<<part, vars, anilistAll>> =>
            [doing # "waiting" /\ doing' = "waiting" =>
                /\ failure' # <<>> => (told' <=> failure' \in excused)
                /\ forLogin' => told']_vars
    BY SaidIsKept DEF MCNext, TaskStep, ClientStep, Says
  <1> QED
    BY <1>1, <1>2, <1>3, PTL DEF MCSpec, SaidOnce

-----------------------------------------------------------------------------
(***************************************************************************)
(* The turns of requests.                                                  *)
(***************************************************************************)
Places == {"idle", "waiting", "sent"}

\* The turns taken are the pace apart, of each other, of the last request and of the
\* next turn, and none is sooner than what was asked for as it was taken.
TurnsInv ==
    /\ next \in Nat /\ held \in Nat /\ held <= next
    /\ sinceSent \in 0 .. Pace /\ Pace <= sinceSent + next
    /\ call \in [Callers -> [at : Places, left : Nat]]
    /\ obliged \in [Callers -> Nat]
    /\ \A c \in Callers :
          call[c].at = "waiting" =>
             /\ obliged[c] <= call[c].left
             /\ Pace <= sinceSent + call[c].left
             /\ call[c].left + Pace <= next
    /\ \A c, d \in Callers :
          c # d /\ call[c].at = "waiting" /\ call[d].at = "waiting" =>
             call[c].left + Pace <= call[d].left \/ call[d].left + Pace <= call[c].left

LEMMA TurnsStart == A!Init => TurnsInv
  <1> SUFFICES ASSUME A!Init
               PROVE  TurnsInv
    OBVIOUS
  <1>1. /\ next = 0 /\ held = 0 /\ sinceSent = Pace
        /\ call = [c \in Callers |-> A!AtRest] /\ obliged = [c \in Callers |-> 0]
    BY DEF A!Init
  <1>2. Pace \in Nat
    BY AniListAssumption
  <1>3. A!AtRest \in [at : Places, left : Nat] /\ A!AtRest.at = "idle"
    BY DEF A!AtRest, Places
  <1>4. /\ call \in [Callers -> [at : Places, left : Nat]]
        /\ \A c \in Callers : call[c].at = "idle"
    BY <1>1, <1>3
  <1> QED
    BY <1>1, <1>2, <1>4 DEF TurnsInv

\* What the step of one caller leaves where it takes no turn, and the turns keep to
\* what the others took.
LEMMA TurnIsGone ==
    ASSUME TurnsInv, NEW c \in Callers,
           NEW k \in [at : Places, left : Nat], k.at # "waiting",
           call' = [call EXCEPT ![c] = k],
           obliged' \in [Callers -> Nat], \A d \in Callers : d # c => obliged'[d] = obliged[d],
           next' \in Nat, held' \in Nat, next <= next', held' <= next', sinceSent' = sinceSent
    PROVE  TurnsInv'
  <1>1. call' \in [Callers -> [at : Places, left : Nat]]
    BY DEF TurnsInv
  <1>2. \A d \in Callers : call'[d] = IF d = c THEN k ELSE call[d]
    BY DEF TurnsInv
  <1>3. \A d \in Callers : call'[d].at = "waiting" => d # c /\ call'[d] = call[d]
    BY <1>2
  <1>4. /\ next \in Nat /\ sinceSent \in 0 .. Pace /\ Pace \in Nat
        /\ Pace <= sinceSent + next
    BY AniListAssumption DEF TurnsInv
  <1>5. Pace <= sinceSent' + next'
    <2>1. \A p, s, m, n \in Nat : p <= s + m /\ m <= n => p <= s + n
      OBVIOUS
    <2>2. sinceSent \in Nat
      BY <1>4
    <2> QED
      BY <1>4, <2>1, <2>2
  <1>6. ASSUME NEW d \in Callers, call'[d].at = "waiting"
        PROVE  /\ obliged'[d] <= call'[d].left
               /\ Pace <= sinceSent' + call'[d].left
               /\ call'[d].left + Pace <= next'
    <2>1. d # c /\ call'[d] = call[d] /\ call[d].at = "waiting" /\ obliged'[d] = obliged[d]
      BY <1>3, <1>6
    <2>2. /\ obliged[d] <= call[d].left /\ Pace <= sinceSent + call[d].left
          /\ call[d].left + Pace <= next /\ call[d].left \in Nat
      BY <2>1 DEF TurnsInv
    <2>3. call[d].left + Pace <= next'
      BY <1>4, <2>2
    <2> QED
      BY <2>1, <2>2, <2>3
  <1>7. ASSUME NEW d \in Callers, NEW e \in Callers, d # e,
               call'[d].at = "waiting", call'[e].at = "waiting"
        PROVE  call'[d].left + Pace <= call'[e].left \/ call'[e].left + Pace <= call'[d].left
    BY <1>3, <1>7 DEF TurnsInv
  <1> QED
    BY <1>1, <1>4, <1>5, <1>6, <1>7 DEF TurnsInv

\* A turn is taken after every other.
LEMMA TurnIsTaken ==
    ASSUME TurnsInv, NEW c \in Callers, call[c].at # "waiting", A!TakesTurn(c),
           UNCHANGED <<sinceSent, held>>
    PROVE  TurnsInv'
  <1> DEFINE k == [at |-> "waiting", left |-> next]
  <1>1. /\ call' = [call EXCEPT ![c] = k] /\ next' = next + Pace
        /\ obliged' = [obliged EXCEPT ![c] = held]
    BY DEF A!TakesTurn, A!AfterTurn
  <1>2. /\ next \in Nat /\ held \in Nat /\ held <= next /\ Pace \in Nat
        /\ sinceSent \in 0 .. Pace /\ Pace <= sinceSent + next
    BY AniListAssumption DEF TurnsInv
  <1>3. k \in [at : Places, left : Nat] /\ k.left = next /\ k.at = "waiting"
    BY <1>2 DEF Places
  <1> HIDE DEF k
  <1>4. call' \in [Callers -> [at : Places, left : Nat]] /\ obliged' \in [Callers -> Nat]
    BY <1>1, <1>2, <1>3 DEF TurnsInv
  <1>5. \A d \in Callers : /\ call'[d] = IF d = c THEN k ELSE call[d]
                           /\ obliged'[d] = IF d = c THEN held ELSE obliged[d]
    BY <1>1 DEF TurnsInv
  <1>6. /\ next' \in Nat /\ held' \in Nat /\ held' <= next' /\ next + Pace <= next'
        /\ Pace <= sinceSent' + next' /\ next <= next'
    BY <1>1, <1>2
  <1>7. ASSUME NEW d \in Callers, call'[d].at = "waiting"
        PROVE  /\ obliged'[d] <= call'[d].left
               /\ Pace <= sinceSent' + call'[d].left
               /\ call'[d].left + Pace <= next'
               /\ d # c => call'[d] = call[d] /\ call[d].left + Pace <= next
    <2>1. CASE d = c
      BY <1>2, <1>3, <1>5, <1>6, <2>1
    <2>2. CASE d # c
      <3>1. call'[d] = call[d] /\ obliged'[d] = obliged[d] /\ call[d].at = "waiting"
        BY <1>5, <1>7, <2>2
      <3>2. /\ obliged[d] <= call[d].left /\ Pace <= sinceSent + call[d].left
            /\ call[d].left + Pace <= next /\ call[d].left \in Nat
        BY <3>1 DEF TurnsInv
      <3>3. call[d].left + Pace <= next'
        BY <1>2, <1>6, <3>2
      <3> QED
        BY <3>1, <3>2, <3>3
    <2> QED
      BY <2>1, <2>2
  <1>8. ASSUME NEW d \in Callers, NEW e \in Callers, d # e,
               call'[d].at = "waiting", call'[e].at = "waiting"
        PROVE  call'[d].left + Pace <= call'[e].left \/ call'[e].left + Pace <= call'[d].left
    <2>1. CASE d = c
      BY <1>3, <1>5, <1>7, <1>8, <2>1
    <2>2. CASE e = c
      BY <1>3, <1>5, <1>7, <1>8, <2>2
    <2>3. CASE d # c /\ e # c
      BY <1>5, <1>8, <2>3 DEF TurnsInv
    <2> QED
      BY <2>1, <2>2, <2>3
  <1> QED
    BY <1>2, <1>4, <1>6, <1>7, <1>8 DEF TurnsInv

\* A request is sent as its turn has come, with every other turn the pace away.
LEMMA RequestIsSent ==
    ASSUME TurnsInv, NEW c \in Callers, A!Sends(c)
    PROVE  TurnsInv' /\ sinceSent = Pace
  <1> DEFINE k == [at |-> "sent", left |-> Deadline]
  <1>1. /\ call[c].at = "waiting" /\ call[c].left = 0
        /\ call' = [call EXCEPT ![c] = k] /\ sinceSent' = 0
        /\ UNCHANGED <<next, held, obliged>>
    BY DEF A!Sends
  <1>2. /\ next \in Nat /\ held \in Nat /\ held <= next /\ Pace \in Nat
        /\ sinceSent \in 0 .. Pace
    BY AniListAssumption DEF TurnsInv
  <1>3. Pace <= sinceSent + 0 /\ 0 + Pace <= next
    BY <1>1 DEF TurnsInv
  <1>4. sinceSent = Pace /\ Pace <= next
    BY <1>2, <1>3
  <1>5. k \in [at : Places, left : Nat] /\ k.at = "sent"
    BY AniListAssumption DEF Places
  <1> HIDE DEF k
  <1>6. call' \in [Callers -> [at : Places, left : Nat]]
    BY <1>1, <1>5 DEF TurnsInv
  <1>7. \A d \in Callers : call'[d] = IF d = c THEN k ELSE call[d]
    BY <1>1 DEF TurnsInv
  <1>8. \A d \in Callers : call'[d].at = "waiting" =>
            d # c /\ call'[d] = call[d] /\ call[d].at = "waiting"
    BY <1>5, <1>7
  <1>9. ASSUME NEW d \in Callers, call'[d].at = "waiting"
        PROVE  /\ obliged'[d] <= call'[d].left
               /\ Pace <= sinceSent' + call'[d].left
               /\ call'[d].left + Pace <= next'
    <2>1. d # c /\ call'[d] = call[d] /\ call[d].at = "waiting" /\ obliged'[d] = obliged[d]
      BY <1>1, <1>8, <1>9
    <2>2. /\ obliged[d] <= call[d].left /\ call[d].left + Pace <= next
          /\ call[d].left \in Nat
      BY <2>1 DEF TurnsInv
    <2>3. call[c].left + Pace <= call[d].left \/ call[d].left + Pace <= call[c].left
      BY <1>1, <2>1 DEF TurnsInv
    <2>4. Pace <= call[d].left
      <3>1. Pace # 0
        BY AniListAssumption
      <3>2. 0 + Pace <= call[d].left \/ call[d].left + Pace <= 0
        BY <1>1, <2>3
      <3> QED
        BY <1>2, <2>2, <3>1, <3>2
    <2>5. Pace <= 0 + call[d].left
      BY <1>2, <2>2, <2>4
    <2> QED
      BY <1>1, <2>1, <2>2, <2>5
  <1>10. ASSUME NEW d \in Callers, NEW e \in Callers, d # e,
                call'[d].at = "waiting", call'[e].at = "waiting"
         PROVE  call'[d].left + Pace <= call'[e].left \/ call'[e].left + Pace <= call'[d].left
    BY <1>8, <1>10 DEF TurnsInv
  <1>11. /\ sinceSent' \in 0 .. Pace /\ Pace <= sinceSent' + next' /\ obliged' \in [Callers -> Nat]
         /\ next' \in Nat /\ held' \in Nat /\ held' <= next'
    <2>1. obliged' \in [Callers -> Nat]
      BY <1>1 DEF TurnsInv
    <2>2. sinceSent' \in 0 .. Pace /\ Pace <= sinceSent' + next'
      BY <1>1, <1>2, <1>4
    <2> QED
      BY <1>1, <1>2, <2>1, <2>2
  <1> QED
    BY <1>4, <1>6, <1>9, <1>10, <1>11 DEF TurnsInv

\* A request ends, whatever came of it, or the task that made it is dropped.
LEMMA RequestEnds ==
    ASSUME TurnsInv, NEW c \in Callers, A!Ends(c),
           next' \in Nat, held' \in Nat, next <= next', held' <= next', sinceSent' = sinceSent
    PROVE  TurnsInv'
  <1>1. call' = [call EXCEPT ![c] = A!AtRest] /\ obliged' = [obliged EXCEPT ![c] = 0]
    BY DEF A!Ends
  <1>2. A!AtRest \in [at : Places, left : Nat] /\ A!AtRest.at # "waiting"
    BY DEF A!AtRest, Places
  <1>3. obliged' \in [Callers -> Nat] /\ \A d \in Callers : d # c => obliged'[d] = obliged[d]
    BY <1>1 DEF TurnsInv
  <1> QED
    BY <1>1, <1>2, <1>3, TurnIsGone

\* A refusal puts the next turn off, and never brings it forward.
LEMMA RefusalHolds ==
    ASSUME TurnsInv, NEW c \in Callers, NEW after \in Asked \cup {None}, A!IsRefused(c, after)
    PROVE  TurnsInv'
  <1> DEFINE until == (IF after = None THEN Wait ELSE after) + Margin
  <1>1. /\ next' = A!Later(next, until) /\ held' = A!Later(held, until)
        /\ A!Ends(c) /\ sinceSent' = sinceSent
    BY DEF A!IsRefused, A!HeldOff
  <1>2. until \in Nat
    BY AniListAssumption
  <1> HIDE DEF until
  <1>3. next \in Nat /\ held \in Nat /\ held <= next
    BY DEF TurnsInv
  <1>4. next' \in Nat /\ held' \in Nat /\ next <= next' /\ held' <= next'
    BY <1>1, <1>2, <1>3 DEF A!Later
  <1> QED
    BY <1>1, <1>4, RequestEnds

\* A unit passes.
LEMMA UnitPasses ==
    ASSUME TurnsInv, A!Passes
    PROVE  TurnsInv'
  <1>1. /\ \A c \in Callers : call[c] # A!AtRest => call[c].left > 0
        /\ next' = A!Less(next) /\ held' = A!Less(held)
        /\ call' = [c \in Callers |-> [call[c] EXCEPT !.left = A!Less(@)]]
        /\ sinceSent' = (IF sinceSent < Pace THEN sinceSent + 1 ELSE sinceSent)
        /\ obliged' = [c \in Callers |-> A!Less(obliged[c])]
    BY DEF A!Passes
  <1>2. /\ next \in Nat /\ held \in Nat /\ held <= next /\ Pace \in Nat
        /\ sinceSent \in Nat /\ sinceSent <= Pace /\ Pace <= sinceSent + next
    BY AniListAssumption DEF TurnsInv
  <1>3. \A n \in Nat : A!Less(n) \in Nat /\ A!Less(n) <= n /\ (n > 0 => A!Less(n) = n - 1)
    BY DEF A!Less
  <1>4. \A m, n \in Nat : m <= n => A!Less(m) <= A!Less(n)
    BY DEF A!Less
  <1>5. /\ next' \in Nat /\ held' \in Nat /\ held' <= next' /\ sinceSent' \in 0 .. Pace
        /\ sinceSent' \in Nat
    BY <1>1, <1>2, <1>3, <1>4
  <1>6. Pace <= sinceSent' + next'
    BY <1>1, <1>2 DEF A!Less
  <1>7. \A c \in Callers : call[c] \in [at : Places, left : Nat] /\ obliged[c] \in Nat
    BY DEF TurnsInv
  <1>8. \A c \in Callers : /\ call'[c].at = call[c].at /\ call'[c].left = A!Less(call[c].left)
                           /\ obliged'[c] = A!Less(obliged[c])
    BY <1>1, <1>7
  <1>9. call' \in [Callers -> [at : Places, left : Nat]] /\ obliged' \in [Callers -> Nat]
    BY <1>1, <1>3, <1>7
  <1>10. ASSUME NEW c \in Callers, call'[c].at = "waiting"
         PROVE  /\ call[c].at = "waiting" /\ call[c].left \in Nat /\ call[c].left > 0
                /\ call'[c].left = call[c].left - 1
    <2>1. call[c].at = "waiting" /\ A!AtRest.at = "idle"
      BY <1>8, <1>10 DEF A!AtRest
    <2>2. call[c] # A!AtRest
      BY <2>1
    <2> QED
      BY <1>1, <1>3, <1>7, <1>8, <2>1, <2>2
  <1>11. ASSUME NEW c \in Callers, call'[c].at = "waiting"
         PROVE  /\ obliged'[c] <= call'[c].left
                /\ Pace <= sinceSent' + call'[c].left
                /\ call'[c].left + Pace <= next'
    <2>1. /\ call[c].at = "waiting" /\ call[c].left \in Nat /\ call[c].left > 0
          /\ call'[c].left = call[c].left - 1
      BY <1>10, <1>11
    <2>2. /\ obliged[c] <= call[c].left /\ Pace <= sinceSent + call[c].left
          /\ call[c].left + Pace <= next
      BY <2>1 DEF TurnsInv
    <2>3. obliged'[c] <= call'[c].left
      BY <1>4, <1>7, <1>8, <2>1, <2>2
    <2>4. Pace <= sinceSent' + call'[c].left
      BY <1>1, <1>2, <2>1, <2>2
    <2>5. call'[c].left + Pace <= next'
      BY <1>1, <1>2, <2>1, <2>2 DEF A!Less
    <2> QED
      BY <2>3, <2>4, <2>5
  <1>12. ASSUME NEW c \in Callers, NEW d \in Callers, c # d,
                call'[c].at = "waiting", call'[d].at = "waiting"
         PROVE  call'[c].left + Pace <= call'[d].left \/ call'[d].left + Pace <= call'[c].left
    <2>1. /\ call[c].at = "waiting" /\ call[c].left \in Nat
          /\ call'[c].left = call[c].left - 1
      BY <1>10, <1>12
    <2>2. /\ call[d].at = "waiting" /\ call[d].left \in Nat
          /\ call'[d].left = call[d].left - 1
      BY <1>10, <1>12
    <2>3. call[c].left + Pace <= call[d].left \/ call[d].left + Pace <= call[c].left
      BY <1>12, <2>1, <2>2 DEF TurnsInv
    <2> QED
      BY <1>2, <2>1, <2>2, <2>3
  <1> QED
    BY <1>5, <1>6, <1>9, <1>11, <1>12 DEF TurnsInv

LEMMA TurnsAreKept ==
    ASSUME TurnsInv, A!Next
    PROVE  TurnsInv'
  <1>0. next \in Nat /\ held \in Nat /\ held <= next /\ next <= next
    BY DEF TurnsInv
  <1>1. CASE A!Passes
    BY <1>1, UnitPasses
  <1>2. ASSUME NEW c \in Callers, A!Sends(c)
        PROVE  TurnsInv'
    BY <1>2, RequestIsSent
  <1>3. ASSUME NEW c \in Callers, A!Fails(c) \/ A!TimesOut(c) \/ A!IsDropped(c)
        PROVE  TurnsInv'
    <2>1. A!Ends(c) /\ UNCHANGED <<next, held, sinceSent>>
      BY <1>3 DEF A!Fails, A!TimesOut, A!IsDropped
    <2> QED
      BY <1>0, <2>1, RequestEnds
  <1>4. ASSUME NEW c \in Callers, A!AccountIsRead(c)
        PROVE  TurnsInv'
    <2>1. /\ call[c].at # "waiting" /\ UNCHANGED <<held, sinceSent>>
          /\ A!TakesTurn(c) \/ (A!Ends(c) /\ next' = next)
      BY <1>4 DEF A!AccountIsRead
    <2> QED
      BY <1>0, <2>1, RequestEnds, TurnIsTaken
  <1>5. ASSUME NEW c \in Callers, NEW list \in BOOLEAN, A!Begins(c, list)
        PROVE  TurnsInv'
    <2>1. call[c].at # "waiting" /\ A!TakesTurn(c) /\ UNCHANGED <<held, sinceSent>>
      BY <1>5 DEF A!Begins, A!AtRest
    <2> QED
      BY <2>1, TurnIsTaken
  <1>6. ASSUME NEW c \in Callers, NEW after \in Asked \cup {None}, A!IsRefused(c, after)
        PROVE  TurnsInv'
    BY <1>6, RefusalHolds
  <1>7. ASSUME NEW c \in Callers, NEW chunk \in SomeChunks, A!ChunkIsRead(c, chunk)
        PROVE  TurnsInv'
    <2>1. /\ call[c].at # "waiting" /\ UNCHANGED <<held, sinceSent>>
          /\ A!TakesTurn(c) \/ (A!Ends(c) /\ next' = next)
      BY <1>7 DEF A!ChunkIsRead
    <2> QED
      BY <1>0, <2>1, RequestEnds, TurnIsTaken
  <1> QED
    BY <1>1, <1>2, <1>3, <1>4, <1>5, <1>6, <1>7 DEF A!Next

LEMMA TurnsAlways == MCSpec => []TurnsInv
  <1>1. MCInit => TurnsInv
    BY TurnsStart DEF MCInit
  <1>2. TurnsInv /\ [MCNext]_<<part, vars, anilistAll>> => TurnsInv'
    <2> SUFFICES ASSUME TurnsInv, [MCNext]_<<part, vars, anilistAll>>
                 PROVE  TurnsInv'
      OBVIOUS
    <2>1. CASE A!Next
      BY <2>1, TurnsAreKept
    <2>2. CASE UNCHANGED anilistAll
      BY <2>2 DEF anilistAll, TurnsInv
    <2> QED
      BY <2>1, <2>2 DEF MCNext, TaskStep, ClientStep
  <1> QED
    BY <1>1, <1>2, PTL DEF MCSpec

\* A request sent after a refusal is sent no sooner than the wait it asked for and the
\* margin have passed, whatever shorter wait is asked for since (AniList::turn).
THEOREM HoldsAreWaitedOut == MCSpec => []HoldIsKept
  <1>1. TurnsInv => HoldIsKept
    BY DEF TurnsInv, HoldIsKept, A!HoldIsKept
  <1> QED
    BY <1>1, TurnsAlways, PTL

\* No two requests are sent closer than PACE, however many callers there are,
\* whichever is dropped and whatever wait is asked for (AniList::turn).
THEOREM RequestsAreApart == MCSpec => SentApart
  <1>1. TurnsInv /\ [MCNext]_<<part, vars, anilistAll>> =>
            [\A c \in Callers : A!Sends(c) => sinceSent = Pace]_(A!vars)
    BY RequestIsSent
  <1> QED
    BY <1>1, TurnsAlways, PTL DEF MCSpec, SentApart, A!SentApart
=============================================================================
