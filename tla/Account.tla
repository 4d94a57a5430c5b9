------------------------------- MODULE Account -------------------------------
(***************************************************************************)
(* What one who reads what the daemon says is promised, where only so much *)
(* is held for a reader that falls behind: everything is accounted for in  *)
(* order, as itself or in a count of what was missed that stands where it  *)
(* would have stood, and nothing is missed by a reader who is no more than *)
(* Held behind.                                                            *)
(***************************************************************************)
EXTENDS Naturals

CONSTANT Held       \* how much is held for a reader

VARIABLES
    said,       \* how much was said
    upTo,       \* how much of it is accounted for
    last        \* what the reader was told last

vars == <<said, upTo, last>>

Nothing == [is |-> "nothing"]

\* The k-th thing said.
Line(k) == [is |-> "line", line |-> k]

Missed(n) == [is |-> "missed", lines |-> n]

\* The reader's own end failed to take it.
Refused == [is |-> "refused"]

Init == said = 0 /\ upTo = 0 /\ last = Nothing

Say == said' = said + 1 /\ UNCHANGED <<upTo, last>>

Hear ==
    /\ upTo < said
    /\ upTo' = upTo + 1
    /\ last' \in {Line(upTo'), Refused}
    /\ UNCHANGED said

\* Something that is held follows what was missed.
Miss ==
    /\ \E n \in 1 .. said - upTo :
          /\ n + Held <= said - upTo
          /\ upTo' = upTo + n
          /\ last' \in {Missed(n), Refused}
    /\ UNCHANGED said

Next == Say \/ Hear \/ Miss

Spec == Init /\ [][Next]_vars
=============================================================================
