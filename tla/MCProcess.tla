------------------------------ MODULE MCProcess ------------------------------
(***************************************************************************)
(* Instances of Starting and of Supervisor for TLC: how the process comes  *)
(* to run, and how it runs its tasks.  A behaviour is of one of the two.   *)
(*                                                                         *)
(* Daemons of two builds, and three migrations for the seven of            *)
(* MIGRATIONS, the second of which, as there, builds the table of the      *)
(* shows again and would do so twice.                                      *)
(***************************************************************************)
EXTENDS Starting, SupervisorLimits

CONSTANTS
    Parts,
    old, new, other, socket,
    Alone, ShortProgress, ShortStops, ShortAge, FewFaults

\* What the instance of every task takes of its constants.
ASSUME ShortAssumption ==
    /\ ShortProgress \in Nat \ {0}
    /\ ShortStops \subseteq Nat \ {0}
    /\ ShortAge \in Nat
    /\ FewFaults \in Nat

MCKnows == [d \in Daemons |-> IF d = old THEN 2 ELSE 3]

MCSocketOf == [d \in Daemons |-> socket]

VARIABLES
    part,
    attempt, outcome, wait, age, off, panics, faults, idle, tickIn, late,
    ran, stops, atMost, atLeast, tasks

S == INSTANCE MCSupervisor WITH phase <- attempt

tasksAll == <<attempt, outcome, wait, age, off, panics, faults, idle, tickIn, late,
              ran, stops, atMost, atLeast, tasks>>

Daemon == part = "starting"
Supervises == part = "supervisor"

\* What stands still has one value, so that no behaviour is there twice.
MCInit ==
    /\ part \in Parts
    /\ Init /\ S!MCInit
    /\ Daemon => tasks = "one"
    /\ Supervises => db.version = 0

DaemonStep == Daemon /\ Next /\ UNCHANGED <<part, tasksAll>>

TaskStep == Supervises /\ S!MCNext /\ UNCHANGED <<part, vars>>

MCNext == DaemonStep \/ TaskStep

\* As FairSpec of Supervisor where the behaviour is of it.
MCSpec ==
    /\ MCInit /\ [][MCNext]_<<part, vars, tasksAll>>
    /\ WF_tasksAll(Supervises /\ S!Ticks) /\ WF_tasksAll(Supervises /\ S!Wakes)
    /\ \A t \in Tasks :
          WF_tasksAll(Supervises /\ S!Begins(t)) /\ WF_tasksAll(Supervises /\ S!Joins(t))

\* What the supervisor counts of a run is what the attempt ran, within what goes
\* unseen of a stop and what a wake is late by; where a stop is noticed through
\* the end of one task, it is taken off the others as well (account_for_a_stop).
EveryRunIsSeen == Supervises => S!RunsAreSeen

\* A task is given up on for a row of panics as long as RESTART_LIMIT allows and
\* one more, no shorter and no longer (Supervisor::run).
PanicsInARow == Supervises => S!PanicsInARow

\* A task whose attempt ended is at work again or stopped in the end, whatever
\* the other tasks do (Supervisor::run).
EndedIsDealtWith == S!EndedIsDealtWith
=============================================================================
