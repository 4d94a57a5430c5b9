------------------------------ MODULE MCNaming ------------------------------
(***************************************************************************)
(* Instances of Naming for TLC.  Two entries, one spelled with a mark a    *)
(* file cannot carry, so that the plain key reaches both; a text of the    *)
(* same key as another; and lists that hold both, one, and a title changed.*)
(***************************************************************************)
EXTENDS Naming, TLC

CONSTANTS plain, marked, again, short, kPlain, kMarked, kShort, e1, e2

MCNames == {plain, marked, again, short}

MCTyped == {plain, again}

MCKeys == {kPlain, kMarked, kShort}

\* The texts of an instance that has fewer are those it names.
MCKeyOf ==
    [n \in Names |->
        (plain :> kPlain @@ again :> kPlain @@ marked :> kMarked @@ short :> kShort)[n]]

MCPlain == kPlain :> kPlain @@ kMarked :> kPlain @@ kShort :> kShort

Entry(title, spelled) == [title |-> title, spellings |-> spelled]

\* Both entries, the second retitled and no longer of the marked key, and the
\* first alone.
MCLists ==
    {e1 :> Entry(plain, {}) @@ e2 :> Entry(marked, {short}),
     e1 :> Entry(plain, {}) @@ e2 :> Entry(short, {}),
     e1 :> Entry(plain, {})}

MCRuns == {<<1, 2>>, <<1, 3>>, <<3, 3>>}

\* Bound: pins are given while no more than two shows are filed and no name is
\* being given.  The recognizer in place knows nothing of them.
FewPins ==
    pins # {} => Len(titles) <= 2 /\ refused = {} /\ \A c \in Callers : pending[c] = Idle
=============================================================================
