------------------------------ MODULE ListStore ------------------------------
(***************************************************************************)
(* What the store keeps of a list: the shows, which entry each is linked   *)
(* to, what the entries held when the list was last read, the names kept   *)
(* as shows, and the names and pins the user gave (crates/store/src:       *)
(* list.rs, names.rs, assignments.rs, pins.rs).                            *)
(*                                                                         *)
(* Each operation is one transaction.  A text is a member of Names and its *)
(* key KeyOf[text], NoKey where it spells no letters.  Shows are numbered  *)
(* from 1 as they are filed, and 0 is none.                                *)
(***************************************************************************)
EXTENDS Naturals, Sequences, FiniteSets

CONSTANTS
    Names,      \* titles, spellings and texts the user types
    Keys,       \* their keys
    KeyOf,      \* Key::from_title
    NoKey,
    Plain,      \* Key::without_marks
    Entries,    \* entries of the backend, by the service's number
    Lists,      \* lists the service may answer
    MaxShows    \* bound: shows filed

ListStoreListed == [title : Names, spellings : SUBSET Names]

ASSUME ListStoreAssumption ==
    /\ NoKey \notin Keys
    /\ KeyOf \in [Names -> Keys \cup {NoKey}]
    /\ Plain \in [Keys -> Keys] /\ \A k \in Keys : Plain[Plain[k]] = Plain[k]
    /\ \A list \in Lists :
          /\ DOMAIN list \subseteq Entries /\ IsFiniteSet(DOMAIN list)
          /\ list \in [DOMAIN list -> ListStoreListed]
    /\ MaxShows \in Nat

VARIABLES
    titles,     \* table shows: titles[s] is the title of show s
    links,      \* table backend_ids: the show of an entry, 0 where not linked
    onList,     \* table list_entries: the entries of the list
    spellings,  \* and the spellings of each
    names,      \* table names: the show a key is kept as, 0 where not kept
    assigned,   \* table assignments: the show a text means, 0 where none
    pins        \* table pins

listVars == <<titles, links, onList, spellings>>

storeVars == <<listVars, names, assigned, pins>>

Filed == 1 .. Len(titles)

KeysOf(texts) == {KeyOf[n] : n \in texts} \ {NoKey}

ListStoreInit ==
    /\ titles = <<>>
    /\ links = [e \in Entries |-> 0]
    /\ onList = {}
    /\ spellings = [e \in Entries |-> {}]
    /\ names = [k \in Keys |-> 0]
    /\ assigned = [n \in Names |-> 0]
    /\ pins = {}

-----------------------------------------------------------------------------
(***************************************************************************)
(* Store::file.                                                            *)
(***************************************************************************)

\* The shows of entries that are not in list, title or spelling of which has
\* this key.
DepartedUnder(k, list) ==
    {links[e] : e \in {d \in Entries \ DOMAIN list :
                          links[d] # 0 /\ k \in KeysOf({titles[links[d]]} \cup spellings[d])}}

\* A mutant: an entry that leaves takes back the keys of its names.
NamesOverwritten(list) ==
    {kept \in [Keys -> 0 .. Len(titles)] :
        \A k \in Keys :
            IF DepartedUnder(k, list) = {}
            THEN kept[k] = names[k]
            ELSE kept[k] \in DepartedUnder(k, list)}

\* A mutant: the titles of entries that leave are kept, and not their spellings.
NamesOfListed(list) ==
    {kept \in [Keys -> 0 .. Len(titles)] :
        \A k \in Keys :
            LET gone == {links[e] : e \in {d \in onList \ DOMAIN list : k = KeyOf[titles[links[d]]]}} IN
            IF names[k] # 0 \/ gone = {} THEN kept[k] = names[k] ELSE kept[k] \in gone}

\* keep_names_of_departed: a key kept already keeps the show it has, and of two
\* entries that leave with one key the first the query answers has it.
NamesAfter(list) ==
    {kept \in [Keys -> 0 .. Len(titles)] :
        \A k \in Keys :
            IF names[k] # 0 \/ DepartedUnder(k, list) = {}
            THEN kept[k] = names[k]
            ELSE kept[k] \in DepartedUnder(k, list)}

Unlinked(list) == {e \in DOMAIN list : links[e] = 0}

\* The shows filed for entries that have none, in the order of the list, which
\* is any.
Numberings(list) ==
    LET n == Len(titles) IN
    {f \in [Unlinked(list) -> n + 1 .. n + Cardinality(Unlinked(list))] :
        \A d, e \in Unlinked(list) : f[d] = f[e] => d = e}

LinksAfter(list, number) ==
    [e \in Entries |-> IF e \in Unlinked(list) THEN number[e] ELSE links[e]]

\* link: a show takes the title of its entry, and a new one is filed with it.
TitlesAfter(list, number) ==
    LET after == LinksAfter(list, number)
        entryOf(s) == {e \in DOMAIN list : after[e] = s} IN
    [s \in 1 .. Len(titles) + Cardinality(Unlinked(list)) |->
        IF entryOf(s) = {} THEN titles[s] ELSE list[CHOOSE e \in entryOf(s) : TRUE].title]

StoreFile(list) ==
    /\ Len(titles) + Cardinality(Unlinked(list)) <= MaxShows
    /\ names' \in NamesAfter(list)
    /\ \E number \in Numberings(list) :
          /\ links' = LinksAfter(list, number)
          /\ titles' = TitlesAfter(list, number)
    /\ onList' = DOMAIN list
    /\ spellings' = [e \in Entries |-> IF e \in DOMAIN list THEN list[e].spellings ELSE {}]
    /\ UNCHANGED <<assigned, pins>>

-----------------------------------------------------------------------------
(***************************************************************************)
(* Names and pins.                                                         *)
(***************************************************************************)

\* Store::unlisted: the show a key is kept as, filed where it is not kept.
StoreUnlisted(k, title) ==
    /\ \/ names[k] # 0 /\ UNCHANGED <<titles, names>>
       \/ /\ names[k] = 0 /\ Len(titles) < MaxShows
          /\ titles' = Append(titles, title)
          /\ names' = [names EXCEPT ![k] = Len(titles) + 1]
    /\ UNCHANGED <<links, onList, spellings, assigned, pins>>

\* Store::assign: spelled means show, in place of the texts displaced.
StoreAssign(spelled, show, displaced) ==
    /\ assigned' = [n \in Names |-> IF n = spelled THEN show
                                    ELSE IF n \in displaced THEN 0 ELSE assigned[n]]
    /\ UNCHANGED <<listVars, names, pins>>

\* Store::unassign.
StoreUnassign(spelled) ==
    /\ assigned' = [assigned EXCEPT ![spelled] = 0]
    /\ UNCHANGED <<listVars, names, pins>>

\* The table holds one pin of a show that begins at an episode.
SamePlace(p, q) == p.show = q.show /\ p.first = q.first

\* Store::pin.
StorePin(p) ==
    /\ pins' = {q \in pins : ~SamePlace(p, q)} \cup {p}
    /\ UNCHANGED <<listVars, names, assigned>>

\* Store::unpin.
StoreUnpin(show, first, last) ==
    /\ pins' = {q \in pins : ~(q.show = show /\ q.first = first /\ q.last = last)}
    /\ UNCHANGED <<listVars, names, assigned>>
=============================================================================
