-------------------------------- MODULE Outbox --------------------------------
(***************************************************************************)
(* What the log of operations promises each backend: an operation is ahead *)
(* of it, delivered or set aside.  Those ahead are taken in the order of   *)
(* the log, none is passed over, and one that is delivered stays so.       *)
(***************************************************************************)
EXTENDS Naturals

CONSTANTS Backends, MaxLog

VARIABLES
    queued, \* how many operations there are
    fate    \* what became of each, for each backend

vars == <<queued, fate>>

Fates == {"ahead", "delivered", "aside"}

Init ==
    /\ queued = 0
    /\ fate = [b \in Backends |-> [i \in 1 .. MaxLog |-> "ahead"]]

Queue ==
    /\ queued < MaxLog
    /\ queued' = queued + 1
    /\ UNCHANGED fate

\* The first operation ahead is delivered or set aside.
Take(b, i) ==
    /\ i \in 1 .. queued /\ fate[b][i] = "ahead"
    /\ \A j \in 1 .. i - 1 : fate[b][j] # "ahead"
    /\ \E f \in {"delivered", "aside"} : fate' = [fate EXCEPT ![b][i] = f]
    /\ UNCHANGED queued

\* One that was set aside is delivered after all.
TakeUp(b, i) ==
    /\ i \in 1 .. queued /\ fate[b][i] = "aside"
    /\ fate' = [fate EXCEPT ![b][i] = "delivered"]
    /\ UNCHANGED queued

Next == Queue \/ \E b \in Backends : \E i \in 1 .. MaxLog : Take(b, i) \/ TakeUp(b, i)

Spec == Init /\ [][Next]_vars
=============================================================================
