---------------------------- MODULE MCDetection -----------------------------
(***************************************************************************)
(* Instances of Detection for TLC: two players; one tick stands for about  *)
(* five seconds, so that OBSERVED_LIMIT and FIRST_SECONDS are two of them. *)
(***************************************************************************)
EXTENDS Detection, TLC

\* A file whose length is known asks for less than the fallback does.
MCNeeded == [l \in AnyLength |-> IF l = Unreported THEN 3 ELSE 2]

\* The least that tells the two apart, for two players in a short evening.
MCNeededShort == [l \in AnyLength |-> IF l = Unreported THEN 2 ELSE 1]

Symmetric == Permutations(Players) \cup Permutations(Episodes) \cup Permutations(Files)
=============================================================================
