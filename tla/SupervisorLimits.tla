-------------------------- MODULE SupervisorLimits --------------------------
(***************************************************************************)
(* The constants of crates/daemon/src/supervisor.rs, in units of time, and *)
(* how far a model of it goes.  They are apart so that they are those of   *)
(* an instance as well.                                                    *)
(***************************************************************************)
EXTENDS Naturals

CONSTANTS
    Tasks,
    RestartLimit,   \* RESTART_LIMIT
    Base,           \* BACKOFF_BASE
    Ceiling,        \* BACKOFF_CEILING
    Progress,       \* PROGRESS_INTERVAL
    WakeEvery,      \* WAKE
    Late,           \* LATE
    Stops,          \* how long the process can be stopped
    MaxAge,         \* bound: how far the time of an attempt, and since a wake, is kept
    MaxFaults       \* bound: faults in a row

ASSUME SupervisorAssumption ==
    /\ RestartLimit \in Nat
    /\ Base \in Nat \ {0}
    /\ Ceiling \in Nat /\ Base <= Ceiling
    /\ Progress \in Nat \ {0}
    /\ WakeEvery \in Nat \ {0}
    /\ Late \in Nat
    /\ Stops \subseteq Nat \ {0}
    /\ MaxAge \in Nat
    /\ MaxFaults \in Nat

\* The provers know nothing of powers: that the doubling of a wait, which is
\* clamped at sixteen times, is a number is left to TLC.
ASSUME DoublingAssumption == \A n \in 0 .. 16 : 2 ^ n \in Nat
=============================================================================
