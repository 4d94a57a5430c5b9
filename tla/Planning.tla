------------------------------ MODULE Planning ------------------------------
(***************************************************************************)
(* What a viewing writes to an entry of a list (crates/sync/src/plan.rs).  *)
(* A standing is the status, progress, rewatches and dates of an entry,    *)
(* None where there is no date.                                            *)
(***************************************************************************)
EXTENDS Naturals

CONSTANTS
    None,       \* a date, a count or an entry that there is not
    MaxNumber   \* u32::MAX

Statuses == {"planned", "watching", "rewatching", "completed", "on hold", "dropped"}

\* An entry planned and not begun, as which a work on no list is taken.
Nowhere ==
    [status |-> "planned", progress |-> 0, rewatches |-> 0, started |-> None, completed |-> None]

OnceMore(n) == IF n < MaxNumber THEN n + 1 ELSE n

Past(count, episode) == count # None /\ episode > count

\* Episode 0, one past the count, a rewatch that does not begin at the first
\* and a conflict write nothing.
WritesNothing(held, count, episode) ==
    \/ episode = 0 \/ Past(count, episode)
    \/ held.status = "completed" /\ episode # 1
    \/ held.status # "completed" /\ episode <= held.progress

\* What is written where something is.
After(held, count, episode, day) ==
    LET begun == IF held.started = None THEN day ELSE held.started
        again == OnceMore(held.rewatches) IN
    CASE held.status \notin {"completed", "rewatching"} /\ count = episode ->
            [held EXCEPT !.status = "completed", !.progress = episode,
                         !.started = begun, !.completed = day]
      [] held.status \notin {"completed", "rewatching"} /\ count # episode ->
            [held EXCEPT !.status = "watching", !.progress = episode, !.started = begun]
      [] held.status = "completed" /\ count = 1 ->
            [held EXCEPT !.progress = 1, !.rewatches = again]
      [] held.status = "completed" /\ count # 1 ->
            [held EXCEPT !.status = "rewatching", !.progress = 1]
      [] held.status = "rewatching" /\ count = episode ->
            [held EXCEPT !.status = "completed", !.progress = episode, !.rewatches = again]
      [] held.status = "rewatching" /\ count # episode ->
            [held EXCEPT !.progress = episode]
=============================================================================
