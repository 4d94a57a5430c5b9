---------------------------- MODULE MCSupervisor ----------------------------
(***************************************************************************)
(* Instances of Supervisor for TLC.  In one a single task is left, and the *)
(* proportions of the code are kept as far as small numbers can: LATE is   *)
(* the least, WAKE as much, and PROGRESS_INTERVAL more than both.  In the  *)
(* other every task is there and wakes are never late, so that a stop      *)
(* shorter than the work of an attempt is seen while another waits.        *)
(***************************************************************************)
EXTENDS Supervisor

CONSTANTS
    Alone,                  \* the task that is left
    ShortProgress, ShortStops, ShortAge, FewFaults

VARIABLE tasks              \* "one" or "all", for good

W == INSTANCE Supervisor WITH
        Late <- 0, Progress <- ShortProgress, Stops <- ShortStops,
        MaxAge <- ShortAge, MaxFaults <- FewFaults, Ceiling <- Base

MCVars == <<tasks, vars>>

MCInit ==
    /\ tasks \in {"one", "all"}
    /\ phase = [t \in Tasks |-> IF tasks = "all" \/ t = Alone THEN "waiting" ELSE "stopped"]
    /\ outcome = [t \in Tasks |-> IF phase[t] = "stopped" THEN "finished" ELSE "none"]
    /\ wait = [t \in Tasks |-> 0]
    /\ age = wait /\ off = wait /\ panics = wait /\ faults = wait
    /\ ran = wait /\ stops = wait /\ atMost = wait /\ atLeast = wait
    /\ idle = 0 /\ tickIn = 0 /\ late = 0

One(action) == tasks = "one" /\ action /\ UNCHANGED tasks
All(action) == tasks = "all" /\ action /\ UNCHANGED tasks

MCNext == One(Next) \/ All(W!Next)

\* What FairSpec of Supervisor is fair to.
Ticks == One(Tick) \/ All(W!Tick)
Wakes == One(Wake) \/ All(W!Wake)
Begins(t) == Begin(t) /\ UNCHANGED tasks
Joins(t) == One(Join(t)) \/ All(W!Join(t))

\* What the supervisor counts of a run is what the attempt ran, within what goes
\* unseen of a stop and what a wake is late by; where a stop is noticed through
\* the end of one task, it is taken off the others as well (EveryRunIsSeen).
RunsAreSeen == IF tasks = "one" THEN EveryRunIsSeen ELSE W!EveryRunIsSeen
=============================================================================
