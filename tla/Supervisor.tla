----------------------------- MODULE Supervisor -----------------------------
(***************************************************************************)
(* The supervisor of crates/daemon/src/supervisor.rs: it starts every task *)
(* again that ended in a fault or a panic, counts either in a row, and     *)
(* takes a row to be over where the attempt that ended had worked for      *)
(* PROGRESS_INTERVAL.                                                      *)
(*                                                                         *)
(* The process may be stopped and go on: a laptop sleeps, a shell suspends *)
(* it.  The clock goes on meanwhile and nothing else does.  Tick is a unit *)
(* of time in which the process runs, Stop(d) one of d units in which it   *)
(* does not.  Instants are kept as the time since them, idle for woke and  *)
(* age for working_since.                                                  *)
(*                                                                         *)
(* ran and stops are of the model: how long an attempt really ran, and how *)
(* many stops fell in it.  atMost and atLeast count the panics in a row as *)
(* one who saw that would, taking every attempt that might have worked for *)
(* one that did not, or for one that did; both are kept up to one more     *)
(* than a task may panic.                                                  *)
(***************************************************************************)
EXTENDS SupervisorLimits

VARIABLES
    phase,      \* waiting to begin, working, ended and not dealt with, stopped
    outcome,    \* what an attempt ended with, or what stopped the task
    wait,       \* what is left of the wait before an attempt
    age,        \* the time since working_since
    off,        \* Supervised::not_run_for
    panics, faults,
    idle,       \* the time since the last wake
    tickIn,     \* the time until the ticker is due
    late,       \* how long the process ran with the ticker due
    ran, stops, atMost, atLeast

attemptVars == <<phase, outcome, wait>>

countVars == <<panics, faults, atMost, atLeast>>

runVars == <<age, ran, stops>>

clockVars == <<idle, tickIn, late>>

vars == <<attemptVars, countVars, runVars, off, clockVars>>

Outcomes == {"none", "finished", "permanent", "transient", "panic", "exhausted"}

Less(a, b) == IF b < a THEN a - b ELSE 0

Least(a, b) == IF a < b THEN a ELSE b

\* The wait before the attempt after the n-th fault in a row.
Backoff(n) == Least(Base * 2 ^ Least(Less(n, 1), 16), Ceiling)

HasBegun(t) == phase[t] \in {"working", "ended"}

\* What the supervisor takes for a stop of the process at this wake.
NotRun == IF Less(idle, WakeEvery) > Late THEN Less(idle, WakeEvery) ELSE 0

\* A mutant: an attempt loses what it never ran.
OffNowUncapped(t) == IF HasBegun(t) THEN off[t] + NotRun ELSE off[t]

\* Supervised::take_off, up to this wake.
OffNow(t) == IF HasBegun(t) THEN off[t] + Least(NotRun, age[t]) ELSE off[t]

\* The run of an attempt as the supervisor counts it at this wake.
RunSeen(t) == Less(age[t], OffNow(t))

\* A mutant: the run is counted on the clock alone.
WorkedOnTheClock(t) == age[t] >= Progress

Worked(t) == RunSeen(t) >= Progress

\* Whether an attempt has worked by what it really ran, and whether it may be
\* taken to have: a stop as long as a wake and what it is late by goes unseen,
\* and as much as a wake is late by may be taken for one.
SurelyWorked(t) == Less(ran[t], Late * (stops[t] + 1)) >= Progress
MayHaveWorked(t) == ran[t] + (WakeEvery + Late) * stops[t] >= Progress

Init ==
    /\ phase = [t \in Tasks |-> "waiting"]
    /\ outcome = [t \in Tasks |-> "none"]
    /\ wait = [t \in Tasks |-> 0]
    /\ age = [t \in Tasks |-> 0]
    /\ off = [t \in Tasks |-> 0]
    /\ panics = [t \in Tasks |-> 0]
    /\ faults = [t \in Tasks |-> 0]
    /\ idle = 0 /\ tickIn = 0 /\ late = 0    \* the first tick is due at once
    /\ ran = [t \in Tasks |-> 0]
    /\ stops = [t \in Tasks |-> 0]
    /\ atMost = [t \in Tasks |-> 0]
    /\ atLeast = [t \in Tasks |-> 0]

-----------------------------------------------------------------------------
(***************************************************************************)
(* Time, and the attempts.                                                 *)
(***************************************************************************)

\* run goes on for as long as a task is not stopped.
Running == \E t \in Tasks : phase[t] # "stopped"

Aging(t) == phase[t] = "working" /\ age[t] < MaxAge

\* The process runs.  The supervisor deals at once with an attempt that ended
\* and is no more than Late behind its ticker.
Tick ==
    /\ Running
    /\ \A t \in Tasks : phase[t] # "ended"
    /\ idle < MaxAge
    /\ tickIn > 0 \/ late < Late
    /\ idle' = idle + 1
    /\ tickIn' = Less(tickIn, 1)
    /\ late' = IF tickIn = 0 THEN late + 1 ELSE late
    /\ wait' = [t \in Tasks |-> Less(wait[t], 1)]
    /\ age' = [t \in Tasks |-> IF Aging(t) THEN age[t] + 1 ELSE age[t]]
    /\ ran' = [t \in Tasks |-> IF Aging(t) THEN ran[t] + 1 ELSE ran[t]]
    /\ UNCHANGED <<phase, outcome, countVars, stops, off>>

\* The process does not run for d units.
Stop(d) ==
    /\ Running
    /\ idle + d <= MaxAge
    /\ \A t \in Tasks : age[t] + d <= MaxAge
    /\ idle' = idle + d
    /\ tickIn' = Less(tickIn, d)
    /\ wait' = [t \in Tasks |-> Less(wait[t], d)]
    /\ age' = [t \in Tasks |-> IF HasBegun(t) THEN age[t] + d ELSE age[t]]
    /\ stops' = [t \in Tasks |-> IF HasBegun(t) THEN stops[t] + 1 ELSE stops[t]]
    /\ UNCHANGED <<phase, outcome, countVars, ran, off, late>>

\* The wait is over, and the attempt notes it itself.
Begin(t) ==
    /\ phase[t] = "waiting" /\ wait[t] = 0
    /\ phase' = [phase EXCEPT ![t] = "working"]
    /\ UNCHANGED <<outcome, wait, countVars, runVars, off, clockVars>>

\* The body returns or panics.
End(t) ==
    /\ phase[t] = "working"
    /\ phase' = [phase EXCEPT ![t] = "ended"]
    /\ \E o \in {"finished", "permanent", "transient", "panic"} :
          /\ o = "transient" => faults[t] < MaxFaults
          /\ outcome' = [outcome EXCEPT ![t] = o]
    /\ UNCHANGED <<wait, countVars, runVars, off, clockVars>>

-----------------------------------------------------------------------------
(***************************************************************************)
(* The supervisor.  It accounts for a stop at every wake.                  *)
(***************************************************************************)

\* The ticker fires, and is next due a wake after that.  (An attempt that has
\* ended is preferred where it is seen; it may end after it was looked for.)
Wake ==
    /\ Running
    /\ tickIn = 0
    /\ off' = [t \in Tasks |-> OffNow(t)]
    /\ idle' = 0 /\ tickIn' = WakeEvery /\ late' = 0
    /\ UNCHANGED <<attemptVars, countVars, runVars>>

\* A mutant: the stop is taken off the attempt that ended alone.
OffOfEnded(t) == [off EXCEPT ![t] = 0]

\* What a stop noticed at this wake is taken off: every attempt but the one that
\* ended, which is counted.
OffAfter(t) == [u \in Tasks |-> IF u = t THEN 0 ELSE OffNow(u)]

\* What is true of t alone once its ended attempt is dealt with: rows that
\* count from here, one more of panics or faults, and the attempt it starts.
Deal(t, p, f, next, why, delay) ==
    /\ panics' = [panics EXCEPT ![t] = (IF Worked(t) THEN 0 ELSE @) + p]
    /\ faults' = [faults EXCEPT ![t] = (IF Worked(t) THEN 0 ELSE @) + f]
    /\ phase' = [phase EXCEPT ![t] = next]
    /\ outcome' = [outcome EXCEPT ![t] = why]
    /\ wait' = [wait EXCEPT ![t] = delay]
    /\ off' = OffAfter(t)
    /\ age' = [age EXCEPT ![t] = 0]
    /\ ran' = [ran EXCEPT ![t] = 0]
    /\ stops' = [stops EXCEPT ![t] = 0]
    /\ LET one == IF outcome[t] = "panic" THEN 1 ELSE 0
           Row(n) == Least(n + one, RestartLimit + 2) IN
          /\ atMost' = [atMost EXCEPT ![t] = Row(IF SurelyWorked(t) THEN 0 ELSE @)]
          /\ atLeast' = [atLeast EXCEPT ![t] = Row(IF MayHaveWorked(t) THEN 0 ELSE @)]
    /\ idle' = 0
    /\ UNCHANGED <<tickIn, late>>

PanicsSoFar(t) == IF Worked(t) THEN 0 ELSE panics[t]
FaultsSoFar(t) == IF Worked(t) THEN 0 ELSE faults[t]

\* It finished, or failed in a way that will not pass.
Stopped(t) ==
    /\ phase[t] = "ended" /\ outcome[t] \in {"finished", "permanent"}
    /\ Deal(t, 0, 0, "stopped", outcome[t], 0)

\* A mutant: a task that fails is given up as one that panics is.
RetriedToTheLimit(t) ==
    /\ phase[t] = "ended" /\ outcome[t] = "transient"
    /\ LET next == IF FaultsSoFar(t) < RestartLimit THEN "waiting" ELSE "stopped" IN
       Deal(t, 0, 1, next, "none", Backoff(FaultsSoFar(t) + 1))

\* A failure that is expected to pass.
Retried(t) ==
    /\ phase[t] = "ended" /\ outcome[t] = "transient"
    /\ Deal(t, 0, 1, "waiting", "none", Backoff(FaultsSoFar(t) + 1))

Restarted(t) ==
    /\ phase[t] = "ended" /\ outcome[t] = "panic"
    /\ PanicsSoFar(t) < RestartLimit
    /\ Deal(t, 1, 0, "waiting", "none", 0)

GivenUp(t) ==
    /\ phase[t] = "ended" /\ outcome[t] = "panic"
    /\ PanicsSoFar(t) >= RestartLimit
    /\ Deal(t, 0, 0, "stopped", "exhausted", 0)

Join(t) == Stopped(t) \/ Retried(t) \/ Restarted(t) \/ GivenUp(t)

\* No task is left and run has returned.
Returned == ~Running /\ UNCHANGED vars

Next ==
    \/ Tick
    \/ \E d \in Stops : Stop(d)
    \/ \E t \in Tasks : Begin(t) \/ End(t) \/ Join(t)
    \/ Wake
    \/ Returned

Spec == Init /\ [][Next]_vars

\* While the process is not stopped for ever, time passes, the supervisor
\* wakes and deals with what ended, and what is spawned is scheduled.
FairSpec ==
    /\ Spec
    /\ WF_vars(Tick) /\ WF_vars(Wake)
    /\ \A t \in Tasks : WF_vars(Begin(t)) /\ WF_vars(Join(t))

-----------------------------------------------------------------------------
\* No task is started again after more panics than RESTART_LIMIT, and none
\* waits for longer than BACKOFF_CEILING.
TypeOK ==
    /\ phase \in [Tasks -> {"waiting", "working", "ended", "stopped"}]
    /\ outcome \in [Tasks -> Outcomes]
    /\ wait \in [Tasks -> 0 .. Ceiling]
    /\ age \in [Tasks -> Nat] /\ off \in [Tasks -> Nat]
    /\ ran \in [Tasks -> Nat] /\ stops \in [Tasks -> Nat]
    /\ panics \in [Tasks -> 0 .. RestartLimit] /\ faults \in [Tasks -> Nat]
    /\ atMost \in [Tasks -> Nat] /\ atLeast \in [Tasks -> Nat]
    /\ idle \in Nat /\ tickIn \in Nat /\ late \in Nat

\* What the supervisor would count of a run is what the attempt ran: more by
\* what goes unseen of each stop at the most (WAKE and LATE together), and
\* less by what a wake was late for each stop and for the one before it.
EveryRunIsSeen ==
    \A t \in Tasks : HasBegun(t) =>
        /\ RunSeen(t) <= ran[t] + (WakeEvery + Late) * stops[t]
        /\ ran[t] <= RunSeen(t) + Late * (stops[t] + 1)

\* A task is given up on for no fewer panics in a row than RESTART_LIMIT
\* allows and one, and never goes on panicking for more: neither its waits nor
\* a process that did not run are taken for work, and work is not missed.
PanicsInARow ==
    \A t \in Tasks :
        /\ phase[t] # "stopped" => atLeast[t] <= panics[t] /\ panics[t] <= atMost[t]
        /\ atLeast[t] <= RestartLimit + 1
        /\ outcome[t] = "exhausted" => atMost[t] > RestartLimit

\* A task whose attempt ended is at work again or stopped in the end, and one
\* that failed in a way expected to pass is always at work again, whatever the
\* other tasks do: neither a wait nor a task that panics keeps another waiting.
EndedIsDealtWith ==
    \A t \in Tasks :
        /\ phase[t] = "ended" ~> phase[t] \in {"working", "stopped"}
        /\ phase[t] = "ended" /\ outcome[t] = "transient" ~> phase[t] = "working"
=============================================================================
