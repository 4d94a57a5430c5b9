----------------------------- MODULE WatchStore -----------------------------
(***************************************************************************)
(* What the store keeps of an episode, crates/store/src/watching.rs and    *)
(* record.rs: its row of the table watching, and its rows of the table     *)
(* episodes_seen.  Each operation is one transaction of SQLite, so it      *)
(* happens whole or not at all.                                            *)
(*                                                                         *)
(* row and total are the row of watching (none, a total being watched, or  *)
(* a total marked registered), the total in whole milliseconds.  seen      *)
(* counts the rows of episodes_seen; the same transaction puts as many     *)
(* operations in sync_queue.                                               *)
(***************************************************************************)
EXTENDS Readings

VARIABLES row, total, seen

storeVars == <<row, total, seen>>

StoreInit ==
    /\ row = [e \in Episodes |-> "none"]
    /\ total = [e \in Episodes |-> 0]
    /\ seen = [e \in Episodes |-> 0]

\* A mutant: an episode whose row is gone was never seen.
KeptOfRow(e) ==
    IF row[e] = "registered" THEN Registered
    ELSE IF row[e] = "watching" THEN Watching(total[e] * Grain)
    ELSE Nothing

\* Store::resume
KeptOf(e) ==
    IF row[e] = "registered" \/ (row[e] = "none" /\ seen[e] > 0) THEN Registered
    ELSE IF row[e] = "watching" THEN Watching(total[e] * Grain)
    ELSE Nothing

\* Store::keep takes the place of the row, its mark included.
StoreKeep(e, w) ==
    /\ row' = [row EXCEPT ![e] = "watching"]
    /\ total' = [total EXCEPT ![e] = Whole(w)]
    /\ UNCHANGED seen

\* Store::record marks the row where there is one.
StoreRecord(e) ==
    /\ seen' = [seen EXCEPT ![e] = @ + 1]
    /\ row' = [row EXCEPT ![e] = IF @ = "none" THEN @ ELSE "registered"]
    /\ UNCHANGED total

\* A mutant: the total of a sitting that is over goes, and the mark stays.
StoreCloseTotal(e) ==
    /\ row' = [row EXCEPT ![e] = IF @ = "watching" THEN "none" ELSE @]
    /\ total' = [total EXCEPT ![e] = IF row[e] = "watching" THEN 0 ELSE @]
    /\ UNCHANGED seen

\* Store::close deletes the row where it is marked.
StoreClose(e) ==
    /\ row' = [row EXCEPT ![e] = IF @ = "registered" THEN "none" ELSE @]
    /\ total' = [total EXCEPT ![e] = IF row[e] = "registered" THEN 0 ELSE @]
    /\ UNCHANGED seen

StoreTypeOK ==
    /\ row \in [Episodes -> {"none", "watching", "registered"}]
    /\ total \in [Episodes -> Nat]
    /\ seen \in [Episodes -> Nat]
=============================================================================
