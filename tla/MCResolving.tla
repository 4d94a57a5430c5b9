----------------------------- MODULE MCResolving -----------------------------
(***************************************************************************)
(* Resolving against what it is documented to compute: every list of two   *)
(* rules at most that the file may hold, with every episode of an entry of *)
(* every count.                                                            *)
(***************************************************************************)
EXTENDS Resolving

P == INSTANCE Planning

CONSTANTS
    Show, Own, Other, \* a show, its entry and another
    Counts,           \* counts of its entry
    Episodes,         \* episodes asked for
    Taken, Sent       \* ranges of the two halves of a rule

Ends(works, ranges) ==
    {e \in [work : works, first : {r[1] : r \in ranges}, last : {r[2] : r \in ranges}] :
        <<e.first, e.last>> \in ranges}

AnyRules ==
    {r \in [from : Ends({Own, Other}, Taken), to : Ends({Own, Other, None}, Sent), again : BOOLEAN] :
        IsRule(r)}

Files == {<<>>} \cup {<<r>> : r \in AnyRules} \cup (AnyRules \X {r \in AnyRules : r.from.work = Own \/ r.again})

VARIABLES rules, count, episode

Input == <<rules, count, episode>>

Init == rules \in Files /\ count \in Counts /\ episode \in Episodes

Ask(e) == episode' = e /\ UNCHANGED <<rules, count>>

Next == \E e \in Episodes : Ask(e)

Spec == Init /\ [][Next]_Input

Listed == [entry |-> Own, count |-> count]

Answer == Resolve(Show, episode, Listed, {}, rules)

\* The file with every ! written out: a rule that ends in one is two, the second
\* of them right after the first.
Plainly ==
    LET repeated == {i \in DOMAIN rules : rules[i].again}
        rule(n) == rules[(n + 1) \div 2] IN
    [n \in {2 * i - 1 : i \in DOMAIN rules} \cup {2 * i : i \in repeated} |->
        IF n % 2 = 1 THEN rule(n) ELSE [rule(n) EXCEPT !.from.work = rule(n).to.work]]

-----------------------------------------------------------------------------
\* redirect answers what the file says with every ! written out, as the comments
\* of relations.rs tell it: the first of those rules decides.
RedirectIsOfTheFile ==
    episode # None =>
        LET taking == {i \in DOMAIN Plainly :
                          Plainly[i].from.work = Own /\ Holds(Plainly[i].from, episode)} IN
        Redirect(rules, Own, episode) =
            IF taking = {} THEN NoRule ELSE Sends(Plainly[Min(taking)], episode)

\* What goes to the show's own entry without a rule is within its count, so
\* that a viewing of it is never refused as past the count or as episode 0.
OwnEntryTakesIt ==
    Answer.by = "entry" =>
        \A s \in P!Statuses, n \in 0 .. 3 :
            LET held == [P!Nowhere EXCEPT !.status = s, !.progress = n] IN
            P!WritesNothing(held, count, Answer.episode) =>
                s = "completed" \/ Answer.episode <= n
=============================================================================
