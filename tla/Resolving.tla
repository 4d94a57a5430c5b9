------------------------------ MODULE Resolving ------------------------------
(***************************************************************************)
(* Which episode of which entry an episode of a show is                    *)
(* (crates/sync/src: relations.rs, resolve.rs), and the pins it asks first *)
(* (crates/core/src/pin.rs), in the column of one service.                 *)
(***************************************************************************)
EXTENDS Naturals, Sequences, FiniteSetsExt

CONSTANTS
    None,       \* a number, a count, an end or an entry that is not known
    Hundred,    \* what seasons are numbered by
    MaxNumber   \* u32::MAX

ASSUME ResolvingAssumption ==
    /\ None \notin Nat
    /\ Hundred \in Nat \ {0}
    /\ MaxNumber \in Nat

-----------------------------------------------------------------------------
(***************************************************************************)
(* relations.rs.  An end of a rule is a work and its episodes, open where  *)
(* last is None.                                                           *)
(***************************************************************************)

Holds(end, episode) == episode >= end.first /\ (end.last = None \/ episode <= end.last)

Alone(end) == end.last = end.first

\* What rule refuses of a line: ends of two lengths, or open on one side.
IsRule(rule) ==
    /\ (rule.from.last = None) <=> (rule.to.last = None)
    /\ Alone(rule.to) \/ rule.to.last = None
          \/ rule.to.last - rule.to.first = rule.from.last - rule.from.first

\* A mutant: a rule takes the episodes of its first work alone.
TakesOfFirst(rule, work, episode) == Holds(rule.from, episode) /\ rule.from.work = work

Takes(rule, work, episode) ==
    /\ Holds(rule.from, episode)
    /\ rule.from.work = work \/ (rule.again /\ rule.to.work = work)

NoRule == [taken |-> FALSE]

Unnumbered == [taken |-> TRUE, numbered |-> FALSE]

To(work, episode) == [taken |-> TRUE, numbered |-> TRUE, entry |-> work, episode |-> episode]

SentEpisode(rule, episode) ==
    IF Alone(rule.to) THEN rule.to.first ELSE rule.to.first + (episode - rule.from.first)

Sends(rule, episode) ==
    IF rule.to.work = None \/ SentEpisode(rule, episode) > MaxNumber
    THEN Unnumbered
    ELSE To(rule.to.work, SentEpisode(rule, episode))

\* The first rule that takes the episode decides.
Redirect(rules, work, episode) ==
    LET taking == {i \in DOMAIN rules : Takes(rules[i], work, episode)} IN
    IF taking = {} THEN NoRule ELSE Sends(rules[Min(taking)], episode)

-----------------------------------------------------------------------------
(***************************************************************************)
(* pin.rs.  A pin takes a run of a show's episodes to a run of an entry's, *)
(* as long, that begins at 1 at the earliest.                              *)
(***************************************************************************)

IsPin(pin) ==
    /\ pin.first <= pin.last /\ pin.to <= pin.toLast
    /\ pin.last - pin.first = pin.toLast - pin.to
    /\ pin.to # 0

\* The pins that take the episode, at most one (Naming.PinsApart).
PinsOf(pins, show, episode) ==
    {p \in pins : p.show = show /\ episode \in p.first .. p.last}

-----------------------------------------------------------------------------
(***************************************************************************)
(* resolve.  listed is the entry of the show, None where it has none, and  *)
(* its count, None where the list holds none.                              *)
(***************************************************************************)

\* A mutant: a season is read by the hundred whatever the count.
FirstSeasonOfAny(episode, count) ==
    IF episode > Hundred THEN {episode - Hundred} ELSE {}

\* The episode of the first season that is named by the hundred, if it is one.
OfTheFirstSeason(episode, count) ==
    {n \in 1 .. count : count < Hundred /\ episode = Hundred + n}

IsOfALaterSeason(episode, count) ==
    count < Hundred /\ episode \div Hundred \in 2 .. 9 /\ episode % Hundred > 0

Resolved(by, entry, episode) == [by |-> by, entry |-> entry, episode |-> episode]

Unresolved(why) == [by |-> "none", why |-> why]

\* Where the count does not hold the episode.
OutOfCount(entry, count, episode, rules) ==
    LET sent == Redirect(rules, entry, episode)
        first == IF count = None THEN {} ELSE OfTheFirstSeason(episode, count) IN
    CASE sent.taken /\ sent.numbered -> Resolved("rule", sent.entry, sent.episode)
      [] sent.taken /\ ~sent.numbered -> Unresolved("unnumbered")
      [] ~sent.taken /\ first # {} -> Resolved("entry", entry, CHOOSE n \in first : TRUE)
      [] ~sent.taken /\ count = None /\ episode > 0 -> Resolved("entry", entry, episode)
      [] ~sent.taken /\ count # None /\ first = {} /\ IsOfALaterSeason(episode, count) ->
            Unresolved("later season")
      [] OTHER -> Unresolved("outside")

Resolve(show, episode, listed, pins, rules) ==
    LET pinned == IF episode = None THEN {} ELSE PinsOf(pins, show, episode)
        count == listed.count IN
    CASE pinned # {} ->
            LET p == CHOOSE p \in pinned : TRUE
            IN  Resolved("pin", p.entry, p.to + (episode - p.first))
      [] pinned = {} /\ listed.entry = None -> Unresolved("not listed")
      [] pinned = {} /\ listed.entry # None /\ episode = None ->
            IF count = 1 THEN Resolved("entry", listed.entry, 1) ELSE Unresolved("no episode")
      [] OTHER ->
            IF count # None /\ episode \in 1 .. count
            THEN Resolved("entry", listed.entry, episode)
            ELSE OutOfCount(listed.entry, count, episode, rules)
=============================================================================
