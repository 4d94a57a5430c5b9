------------------------------- MODULE Ledger -------------------------------
(***************************************************************************)
(* What the program promises of an episode, whatever the players do and    *)
(* however often it is stopped: the last viewing is remembered; its total  *)
(* never falls until the viewing registers; it registers at a total the     *)
(* policy counts as watched; and another viewing begins no sooner than its *)
(* first seconds have been played.                                         *)
(***************************************************************************)
EXTENDS Readings

VARIABLES viewing, times

vars == <<viewing, times>>

Init ==
    /\ viewing = [e \in Episodes |-> Nothing]
    /\ times = [e \in Episodes |-> 0]

\* More of the viewing is watched, or another viewing begins.
Watch(e) ==
    /\ viewing'[e] = Watching(viewing'[e].watched)
    /\ viewing'[e].watched >= viewing[e].watched
    /\ viewing[e].is = "registered" => viewing'[e].watched >= FirstSeconds
    /\ viewing' = [viewing EXCEPT ![e] = viewing'[e]]
    /\ UNCHANGED times

\* The viewing has been watched far enough, and counts once.
Register(e) ==
    /\ viewing[e].is = "watching"
    /\ EnoughKept(viewing[e].watched)
    /\ viewing' = [viewing EXCEPT ![e] = Registered]
    /\ times' = [times EXCEPT ![e] = @ + 1]

Next == \E e \in Episodes : Watch(e) \/ Register(e)

Spec == Init /\ [][Next]_vars
=============================================================================
