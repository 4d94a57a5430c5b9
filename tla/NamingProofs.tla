----------------------------- MODULE NamingProofs -----------------------------
(***************************************************************************)
(* Theorems about Naming: what the store holds of names and pins, for any  *)
(* list, any names and any number of connections.                          *)
(***************************************************************************)
EXTENDS Naming, FiniteSetTheorems, TLAPS

-----------------------------------------------------------------------------
(***************************************************************************)
(* Pins.                                                                   *)
(***************************************************************************)

\* Store::pin after the check for an overlap leaves the pins of a show apart:
\* what it overlaps is of the same episodes, and gives way.
LEMMA PinKeepsApart ==
    ASSUME NEW p, PinsApart, MayBePinned(p), StorePin(p)
    PROVE  PinsApart'
<1>1. pins' = {q \in pins : ~SamePlace(p, q)} \cup {p}
      BY DEF StorePin
<1>2. ASSUME NEW r \in pins, ~SamePlace(p, r), r.show = p.show, Overlap(p, r) \/ Overlap(r, p)
      PROVE  FALSE
  <2>1. r \in Overlapped(p)
        BY <1>2 DEF Overlapped, Overlap
  <2>2. PICK q \in Overlapped(p) : q.first = p.first /\ q.last = p.last
        BY <2>1 DEF MayBePinned
  <2>3. q \in pins /\ q.show = r.show
        BY <2>2, <1>2 DEF Overlapped
  <2>4. Overlap(q, r)
        BY <2>2, <1>2 DEF Overlap
  <2>5. q # r
        BY <2>2, <1>2 DEF SamePlace
  <2> QED BY <2>3, <2>4, <2>5, <1>2 DEF PinsApart
<1>3. SUFFICES ASSUME NEW q \in pins', NEW r \in pins', q.show = r.show, q # r
               PROVE  ~Overlap(q, r)
      BY DEF PinsApart, Overlap
<1>4. CASE q = p
      BY <1>1, <1>2, <1>3, <1>4
<1>5. CASE r = p
      BY <1>1, <1>2, <1>3, <1>5
<1>6. CASE q # p /\ r # p
      BY <1>1, <1>3, <1>6 DEF PinsApart
<1> QED BY <1>4, <1>5, <1>6

\* No episode of a show is ever of two pins (Mapping::pin, Mapping::unpin).
THEOREM EpisodesOfOnePin == Spec => []PinsApart
<1>1. Init => PinsApart
      BY DEF Init, ListStoreInit, PinsApart
<1>2. PinsApart /\ [Next]_vars => PinsApart'
  <2> SUFFICES ASSUME PinsApart, [Next]_vars PROVE PinsApart'
      OBVIOUS
  <2>1. CASE pins' = pins
        BY <2>1 DEF PinsApart, Overlap
  <2>2. ASSUME NEW n \in Names, NEW r \in Runs, NEW e \in Entries, Pin(n, r, e)
        PROVE  PinsApart'
        BY <2>2, PinKeepsApart DEF Pin
  <2>3. ASSUME NEW n \in Names, NEW r \in Runs, Unpin(n, r)
        PROVE  PinsApart'
        BY <2>3 DEF Unpin, StoreUnpin, PinsApart, Overlap
  <2>4. CASE UNCHANGED vars
        BY <2>1, <2>4 DEF vars, storeVars
  <2>5. ASSUME NEW list \in Lists, File(list) PROVE pins' = pins
        BY <2>5 DEF File, StoreFile
  <2>6. ASSUME NEW c \in Clients, NEW n \in Typed, Unmap(c, n) PROVE pins' = pins
        BY <2>6 DEF Unmap, StoreUnassign
  <2>7. ASSUME NEW c \in Clients, NEW n \in Typed, NEW e \in Entries, Map(c, n, e)
        PROVE  pins' = pins
        BY <2>7 DEF Map, StoreAssign
  <2>8. ASSUME NEW n \in Names, Unrecognized(n) PROVE pins' = pins
        BY <2>8 DEF Unrecognized, StoreUnlisted
  <2>9. CASE BeginRound \/ DaemonRestarts \/ \E c \in Callers : PutInPlace(c)
        BY <2>1, <2>9 DEF BeginRound, DaemonRestarts, PutInPlace, storeVars
  <2> QED BY <2>1, <2>2, <2>3, <2>4, <2>5, <2>6, <2>7, <2>8, <2>9 DEF Next
<1> QED BY <1>1, <1>2, PTL DEF Spec

-----------------------------------------------------------------------------
(***************************************************************************)
(* Names given.                                                            *)
(***************************************************************************)

\* The invariant: a text that is given is of one key with no other.
TextsApart ==
    /\ assigned = [n \in Names |-> assigned[n]]
    /\ OneNameOfAKey

\* Mapping::map displaces every text of the key, in force or not.
LEMMA MapKeepsOneName ==
    ASSUME TextsApart, NEW spelled \in Names, NEW show,
           StoreAssign(spelled, show, Displaced(KeyOf[spelled]))
    PROVE  TextsApart'
<1>1. assigned' = [n \in Names |-> IF n = spelled THEN show
                                   ELSE IF n \in Displaced(KeyOf[spelled]) THEN 0 ELSE assigned[n]]
      BY DEF StoreAssign
<1>2. ASSUME NEW n \in Names, assigned'[n] # 0, n # spelled
      PROVE  assigned[n] # 0 /\ KeyOf[n] # KeyOf[spelled]
      BY <1>1, <1>2 DEF Displaced, Given
<1>3. ASSUME NEW k \in Keys, NEW m \in Given(k)', NEW n \in Given(k)'
      PROVE  m = n
  <2>1. /\ m \in Names /\ assigned'[m] # 0 /\ KeyOf[m] = k
        /\ n \in Names /\ assigned'[n] # 0 /\ KeyOf[n] = k
        BY <1>3 DEF Given
  <2>2. CASE m = spelled \/ n = spelled
        BY <1>2, <2>1, <2>2
  <2>3. CASE m # spelled /\ n # spelled
    <3>1. m \in Given(k) /\ n \in Given(k)
          BY <1>2, <2>1, <2>3 DEF Given
    <3> QED BY <3>1 DEF TextsApart, OneNameOfAKey
  <2> QED BY <2>2, <2>3
<1> QED BY <1>1, <1>3 DEF TextsApart, OneNameOfAKey

\* A text that is taken back leaves the rest as they were.
LEMMA UnmapKeepsOneName ==
    ASSUME TextsApart, NEW given \in Names, StoreUnassign(given)
    PROVE  TextsApart'
<1>1. assigned' = [n \in Names |-> IF n = given THEN 0 ELSE assigned[n]]
      BY DEF StoreUnassign, TextsApart
<1>2. ASSUME NEW k \in Keys, NEW m \in Given(k)' PROVE m \in Given(k)
      BY <1>1, <1>2 DEF Given
<1>3. OneNameOfAKey'
      BY <1>2 DEF OneNameOfAKey, TextsApart
<1> QED BY <1>1, <1>3 DEF TextsApart

\* The store holds one text of a key at most, whatever lists are filed between
\* (Mapping::map, Mapping::unmap).
THEOREM OneNameForEachKey == Spec => []OneNameOfAKey
<1>1. Init => TextsApart
      BY DEF Init, ListStoreInit, TextsApart, OneNameOfAKey, Given
<1>2. TextsApart /\ [Next]_vars => TextsApart'
  <2> SUFFICES ASSUME TextsApart, [Next]_vars PROVE TextsApart'
      OBVIOUS
  <2>1. CASE assigned' = assigned
        BY <2>1 DEF TextsApart, OneNameOfAKey, Given
  <2>2. ASSUME NEW c \in Clients, NEW n \in Typed, NEW e \in Entries, Map(c, n, e)
        PROVE  TextsApart'
    <3>1. n \in Names
          BY NamingAssumption
    <3>2. StoreAssign(n, links[e], Displaced(KeyOf[n]))
          BY ONLY <2>2 DEF Map
    <3> QED BY <3>1, <3>2, MapKeepsOneName
  <2>3. ASSUME NEW c \in Clients, NEW n \in Typed, Unmap(c, n) PROVE TextsApart'
    <3>1. PICK given \in Given(KeyOf[n]) : StoreUnassign(given)
          BY <2>3 DEF Unmap
    <3>2. given \in Names
          BY <3>1 DEF Given
    <3> QED BY <3>1, <3>2, UnmapKeepsOneName
  <2>4. ASSUME NEW list \in Lists, File(list) PROVE assigned' = assigned
        BY <2>4 DEF File, StoreFile
  <2>5. ASSUME NEW n \in Names, NEW r \in Runs, NEW e \in Entries, Pin(n, r, e)
        PROVE  assigned' = assigned
        BY <2>5 DEF Pin, StorePin
  <2>6. ASSUME NEW n \in Names, NEW r \in Runs, Unpin(n, r) PROVE assigned' = assigned
        BY <2>6 DEF Unpin, StoreUnpin
  <2>7. ASSUME NEW n \in Names, Unrecognized(n) PROVE assigned' = assigned
        BY <2>7 DEF Unrecognized, StoreUnlisted
  <2>8. CASE BeginRound \/ DaemonRestarts \/ \E c \in Callers : PutInPlace(c)
        BY <2>1, <2>8 DEF BeginRound, DaemonRestarts, PutInPlace, storeVars
  <2>9. CASE UNCHANGED vars
        BY <2>1, <2>9 DEF vars, storeVars
  <2> QED BY <2>1, <2>2, <2>3, <2>4, <2>5, <2>6, <2>7, <2>8, <2>9 DEF Next
<1>3. TextsApart => OneNameOfAKey
      BY DEF TextsApart
<1> QED BY <1>1, <1>2, <1>3, PTL DEF Spec

-----------------------------------------------------------------------------
(***************************************************************************)
(* What a name in force may take.                                          *)
(***************************************************************************)

\* A recognizer none of whose names takes the files of another entry.
TakesNone(recognizer) ==
    \A k \in Keys : recognizer.altnames[k] # 0 =>
        \A other \in recognizer.reached[k] :
            recognizer.reached[k] = {other} => other = recognizer.altnames[k]

\* The invariant: the recognizer in place and those that will be put there.
AllTakeNone ==
    /\ pending = [c \in Callers |-> pending[c]]
    /\ TakesNone(current)
    /\ \A c \in Callers : pending[c] # Idle => TakesNone(pending[c])

\* named makes every name again against the corpus (recognizer_of).
LEMMA KeptTakesNone == TakesNone(Kept)
<1> SUFFICES ASSUME NEW k \in Keys, Altnames[k] # 0, NEW other \in Reached(k), Reached(k) = {other}
             PROVE  other = Altnames[k]
    BY DEF TakesNone, Kept
<1> DEFINE chosen == CHOOSE n \in InForce(k) : TRUE
<1>1. Altnames[k] = IF InForce(k) = {} THEN 0 ELSE assigned[chosen]
      BY DEF Altnames
<1>2. chosen \in InForce(k)
      BY <1>1
<1>3. Nameable(k, assigned[chosen])
      BY <1>2 DEF InForce
<1> QED BY <1>1, <1>2, <1>3 DEF Nameable

\* Mapping::map checks the name it adds to those the store has.
LEMMA NamedTakesNone ==
    ASSUME NEW k \in Keys, NEW show, Nameable(k, show)
    PROVE  TakesNone([Kept EXCEPT !.altnames[k] = show])
<1> DEFINE r == [Kept EXCEPT !.altnames[k] = show]
<1>1. /\ r.reached = Kept.reached
      /\ r.altnames = [Kept.altnames EXCEPT ![k] = show]
      BY DEF Kept
<1>2. /\ Kept.reached[k] = Reached(k)
      /\ \A j \in Keys : r.altnames[j] = IF j = k THEN show ELSE Kept.altnames[j]
      BY <1>1 DEF Kept, Altnames
<1> HIDE DEF r
<1>3. TakesNone(r)
  <2> SUFFICES ASSUME NEW j \in Keys, r.altnames[j] # 0,
                      NEW other \in r.reached[j], r.reached[j] = {other}
               PROVE  other = r.altnames[j]
      BY DEF TakesNone
  <2>1. CASE j = k
        BY <1>1, <1>2, <2>1 DEF Nameable
  <2>2. CASE j # k
        BY <1>1, <1>2, <2>2, KeptTakesNone DEF TakesNone
  <2> QED BY <2>1, <2>2
<1> QED BY <1>3 DEF r

\* A caller that goes on with a recognizer that takes none.
LEMMA GoesOnTakesNone ==
    ASSUME AllTakeNone, NEW c \in Callers, NEW recognizer, TakesNone(recognizer),
           GoesOn(c, recognizer)
    PROVE  AllTakeNone'
<1>1. current' = current /\ pending' = [pending EXCEPT ![c] = recognizer]
      BY DEF GoesOn
<1>2. \A d \in Callers : pending'[d] = IF d = c THEN recognizer ELSE pending[d]
      BY <1>1 DEF AllTakeNone
<1>3. \A d \in Callers : pending'[d] # Idle => TakesNone(pending'[d])
      BY <1>2 DEF AllTakeNone
<1>4. pending' = [d \in Callers |-> pending'[d]]
      BY <1>1 DEF AllTakeNone
<1> QED BY <1>1, <1>3, <1>4 DEF AllTakeNone, TakesNone

\* A recognizer in place never takes the files of an entry that a text alone
\* reaches for another, however the list changed since the name was given.
THEOREM NoNameTakes == Spec => []NoNameTakesAnEntry
<1>1. Init => AllTakeNone
      BY KeptTakesNone DEF Init, AllTakeNone
<1>2. AllTakeNone /\ [Next]_vars => AllTakeNone'
  <2> SUFFICES ASSUME AllTakeNone, [Next]_vars PROVE AllTakeNone'
      OBVIOUS
  <2>0. TakesNone(Kept)'
        BY KeptTakesNone, PTL
  <2> DEFINE later == Kept'
  <2>1. TakesNone(later)
        BY <2>0 DEF TakesNone
  <2> HIDE DEF later
  <2>2. CASE UNCHANGED <<current, pending>>
        BY <2>2 DEF AllTakeNone, TakesNone
  <2>3. ASSUME NEW list \in Lists, File(list) PROVE AllTakeNone'
    <3>1. GoesOn(Reader, later) \/ Fails
          BY <2>3 DEF File, later
    <3> QED BY <2>1, <2>2, <3>1, GoesOnTakesNone DEF Fails, Callers
  <2>4. ASSUME NEW c \in Clients, NEW n \in Typed, Unmap(c, n) PROVE AllTakeNone'
    <3>1. GoesOn(c, later) \/ Fails
          BY <2>4 DEF Unmap, later
    <3> QED BY <2>1, <2>2, <3>1, GoesOnTakesNone DEF Fails, Callers
  <2>5. ASSUME NEW c \in Clients, NEW n \in Typed, NEW e \in Entries, Map(c, n, e)
        PROVE  AllTakeNone'
    <3> DEFINE k == KeyOf[n]
               named == [Kept EXCEPT !.altnames[k] = links[e]]
    <3>1. k \in Keys /\ Nameable(k, links[e]) /\ (GoesOn(c, named) \/ Fails)
          BY <2>5, NamingAssumption, ListStoreAssumption DEF Map
    <3>2. TakesNone(named)
          BY <3>1, NamedTakesNone
    <3> HIDE DEF named
    <3> QED BY <2>2, <3>1, <3>2, GoesOnTakesNone DEF Fails, Callers
  <2>6. ASSUME NEW c \in Callers, PutInPlace(c) PROVE AllTakeNone'
    <3>1. /\ current' = pending[c] /\ pending[c] # Idle
          /\ pending' = [pending EXCEPT ![c] = Idle]
          BY <2>6 DEF PutInPlace
    <3>2. TakesNone(current')
          BY <3>1 DEF AllTakeNone
    <3>3. \A d \in Callers : pending'[d] = IF d = c THEN Idle ELSE pending[d]
          BY <3>1 DEF AllTakeNone
    <3>4. pending' = [d \in Callers |-> pending'[d]]
          BY <3>1 DEF AllTakeNone
    <3> QED BY <3>2, <3>3, <3>4 DEF AllTakeNone, TakesNone
  <2>7. CASE DaemonRestarts
    <3>1. current' = Kept /\ pending' = [c \in Callers |-> Idle]
          BY <2>7 DEF DaemonRestarts
    <3> QED BY <3>1, KeptTakesNone DEF AllTakeNone, TakesNone
  <2>8. ASSUME NEW n \in Names, NEW r \in Runs, NEW e \in Entries, Pin(n, r, e)
        PROVE  UNCHANGED <<current, pending>>
        BY <2>8 DEF Pin, memoryVars
  <2>9. ASSUME NEW n \in Names, NEW r \in Runs, Unpin(n, r) PROVE UNCHANGED <<current, pending>>
        BY <2>9 DEF Unpin, memoryVars
  <2>10. ASSUME NEW n \in Names, Unrecognized(n) PROVE UNCHANGED <<current, pending>>
        BY <2>10 DEF Unrecognized, memoryVars
  <2>11. CASE BeginRound \/ UNCHANGED vars
        BY <2>2, <2>11 DEF BeginRound, vars, memoryVars
  <2> QED BY <2>2, <2>3, <2>4, <2>5, <2>6, <2>7, <2>8, <2>9, <2>10, <2>11 DEF Next
<1>3. AllTakeNone => NoNameTakesAnEntry
      BY DEF AllTakeNone, TakesNone, NoNameTakesAnEntry
<1> QED BY <1>1, <1>2, <1>3, PTL DEF Spec

-----------------------------------------------------------------------------
(***************************************************************************)
(* What a show is.                                                         *)
(***************************************************************************)

\* The invariant: the names kept are a table of the keys, and what is on the
\* list is linked to a show.
NamesTable == names = [k \in Keys |-> names[k]]

ListIsLinked ==
    /\ \E texts : titles \in Seq(texts)
    /\ onList \subseteq Entries
    /\ \A e \in onList : links[e] # 0

Identified == NamesTable /\ ListIsLinked

\* What a step does to the identity of shows and entries.
Same ==
    /\ \A e \in Entries : links[e] # 0 => links'[e] = links[e]
    /\ \A k \in Keys : names[k] # 0 => names'[k] = names[k]
    /\ \A e \in onList \ onList' :
          \A k \in Keys :
             k \in KeysOf({titles[links[e]]} \cup spellings[e]) => names'[k] # 0

\* Filing a list keeps the titles a sequence, and links all that is on the list.
LEMMA FileLinks ==
    ASSUME ListIsLinked, NEW list \in Lists, StoreFile(list)
    PROVE  ListIsLinked'
<1> DEFINE new == Cardinality(Unlinked(list))
<1>1. DOMAIN list \subseteq Entries /\ list \in [DOMAIN list -> ListStoreListed]
      BY ListStoreAssumption
<1>2. new \in Nat
  <2>1. IsFiniteSet(DOMAIN list) /\ Unlinked(list) \subseteq DOMAIN list
        BY ListStoreAssumption DEF Unlinked
  <2>2. IsFiniteSet(Unlinked(list))
        BY <2>1, FS_Subset
  <2> QED BY <2>2, FS_CardinalityType
<1>3. PICK number \in Numberings(list) :
          links' = LinksAfter(list, number) /\ titles' = TitlesAfter(list, number)
      BY DEF StoreFile
<1>4. onList' = DOMAIN list
      BY DEF StoreFile
<1>5. Len(titles) \in Nat
      BY DEF ListIsLinked
<1>6. \A e \in DOMAIN list : links'[e] # 0
  <2> SUFFICES ASSUME NEW e \in DOMAIN list PROVE links'[e] # 0
      OBVIOUS
  <2>1. links'[e] = IF e \in Unlinked(list) THEN number[e] ELSE links[e]
        BY <1>1, <1>3 DEF LinksAfter
  <2>2. e \notin Unlinked(list) => links[e] # 0
        BY DEF Unlinked
  <2>3. number \in [Unlinked(list) -> Len(titles) + 1 .. Len(titles) + new]
        BY DEF Numberings
  <2>4. e \in Unlinked(list) => number[e] # 0
        BY <1>2, <1>5, <2>3
  <2> QED BY <2>1, <2>2, <2>4
<1>7. \E texts : titles' \in Seq(texts)
  <2> DEFINE entryOf(s) == {e \in DOMAIN list : LinksAfter(list, number)[e] = s}
             title(s) == IF entryOf(s) = {} THEN titles[s]
                         ELSE list[CHOOSE e \in entryOf(s) : TRUE].title
             total == Len(titles) + new
             texts == {title(s) : s \in 1 .. total}
  <2>1. titles' = [s \in 1 .. total |-> title(s)]
        BY <1>3 DEF TitlesAfter
  <2>2. total \in Nat
        BY <1>2, <1>5
  <2>3. \A s \in 1 .. total : title(s) \in texts
        OBVIOUS
  <2> HIDE DEF title, total, texts
  <2>4. titles' \in Seq(texts)
        BY <2>1, <2>2, <2>3
  <2> QED BY <2>4
<1> QED BY <1>1, <1>4, <1>6, <1>7 DEF ListIsLinked

\* Filing a list links what was not linked, keeps what was not kept, and names
\* what departs (keep_names_of_departed).
LEMMA FileKeepsIdentity ==
    ASSUME Identified, NEW list \in Lists, StoreFile(list)
    PROVE  Identified' /\ Same
<1>1. PICK number \in Numberings(list) : links' = LinksAfter(list, number)
      BY DEF StoreFile
<1>2. names' \in NamesAfter(list) /\ onList' = DOMAIN list
      BY DEF StoreFile
<1>3. \A e \in Entries : links[e] # 0 => links'[e] = links[e]
      BY <1>1 DEF LinksAfter, Unlinked
<1>4. ASSUME NEW e \in onList \ onList', NEW k \in Keys,
             k \in KeysOf({titles[links[e]]} \cup spellings[e])
      PROVE  names'[k] # 0
  <2>1. e \in Entries \ DOMAIN list /\ links[e] # 0
        BY <1>2 DEF Identified, ListIsLinked
  <2>2. links[e] \in DepartedUnder(k, list) /\ 0 \notin DepartedUnder(k, list)
        BY <2>1, <1>4 DEF DepartedUnder
  <2> QED BY <1>2, <1>4, <2>2 DEF NamesAfter
<1> QED BY <1>2, <1>3, <1>4, FileLinks DEF NamesAfter, NamesTable, Identified, Same

\* A round files what it could not recognize.
LEMMA UnlistedKeepsIdentity ==
    ASSUME Identified, NEW k \in Keys, NEW title, StoreUnlisted(k, title)
    PROVE  Identified' /\ Same
<1>1. UNCHANGED <<links, onList, spellings>>
      BY DEF StoreUnlisted
<1>2. CASE UNCHANGED <<titles, names>>
      BY <1>1, <1>2 DEF Identified, NamesTable, ListIsLinked, Same
<1>3. CASE /\ names[k] = 0
           /\ titles' = Append(titles, title)
           /\ names' = [names EXCEPT ![k] = Len(titles) + 1]
  <2>1. PICK texts : titles \in Seq(texts)
        BY DEF Identified, ListIsLinked
  <2>2. titles' \in Seq(texts \cup {title})
    <3>1. titles \in Seq(texts \cup {title}) /\ title \in texts \cup {title}
          BY <2>1
    <3> QED BY <1>3, <3>1
  <2>3. NamesTable' /\ \A j \in Keys : names[j] # 0 => names'[j] = names[j]
        BY <1>3 DEF Identified, NamesTable
  <2> QED BY <1>1, <2>2, <2>3 DEF Identified, ListIsLinked, Same
<1> QED BY <1>2, <1>3 DEF StoreUnlisted

\* What a round refuses is a key, which a text without letters has none of.
LEMMA RefusedAreKeys ==
    ASSUME refused \subseteq Keys, [Next]_vars PROVE refused' \subseteq Keys
<1>1. CASE UNCHANGED refused
      BY <1>1
<1>2. ASSUME NEW list \in Lists, File(list) PROVE UNCHANGED refused
      BY <1>2 DEF File, GoesOn, Fails
<1>3. ASSUME NEW c \in Clients, NEW n \in Typed, Unmap(c, n) PROVE UNCHANGED refused
      BY <1>3 DEF Unmap, GoesOn, Fails
<1>4. ASSUME NEW c \in Clients, NEW n \in Typed, NEW e \in Entries, Map(c, n, e)
      PROVE  UNCHANGED refused
  <2>1. GoesOn(c, [Kept EXCEPT !.altnames[KeyOf[n]] = links[e]]) \/ Fails
        BY ONLY <1>4 DEF Map
  <2> QED BY <2>1 DEF GoesOn, Fails
<1>5. ASSUME NEW c \in Callers, PutInPlace(c) PROVE UNCHANGED refused
      BY <1>5 DEF PutInPlace
<1>6. ASSUME NEW n \in Names, NEW r \in Runs,
             Unpin(n, r) \/ \E e \in Entries : Pin(n, r, e)
      PROVE  UNCHANGED refused
      BY <1>6 DEF Unpin, Pin, memoryVars
<1>7. CASE BeginRound \/ DaemonRestarts
      BY <1>7 DEF BeginRound, DaemonRestarts, RefusedBy
<1>8. CASE UNCHANGED vars \/ \E n \in Names : Unrecognized(n)
      BY <1>8 DEF vars, memoryVars, Unrecognized
<1> QED BY <1>1, <1>2, <1>3, <1>4, <1>5, <1>6, <1>7, <1>8 DEF Next

\* An entry stays the show it is linked to, on the list or off it, and a key the
\* show it is kept as; and what leaves the list leaves its names (Store::file,
\* Store::unlisted).
THEOREM IdentityHolds == Spec => IdentityStays
<1> DEFINE Inv == Identified /\ refused \subseteq Keys
<1>1. Init => Inv
      BY DEF Init, ListStoreInit, NamesTable, ListIsLinked, Identified
<1>2. Inv /\ [Next]_vars => Inv' /\ [Same]_vars
  <2> SUFFICES ASSUME Inv, [Next]_vars PROVE Identified' /\ Same
      BY RefusedAreKeys
  <2>1. CASE UNCHANGED <<listVars, names>>
        BY <2>1 DEF Identified, NamesTable, ListIsLinked, Same, listVars
  <2>2. ASSUME NEW list \in Lists, File(list) PROVE Identified' /\ Same
        BY <2>2, FileKeepsIdentity DEF File
  <2>3. ASSUME NEW n \in Names, Unrecognized(n) PROVE Identified' /\ Same
    <3>1. StoreUnlisted(KeyOf[n], n) /\ KeyOf[n] \in Keys
          BY <2>3 DEF Unrecognized
    <3> QED BY <3>1, UnlistedKeepsIdentity
  <2>4. ASSUME NEW c \in Clients, NEW n \in Typed, Unmap(c, n) PROVE UNCHANGED <<listVars, names>>
        BY <2>4 DEF Unmap, StoreUnassign
  <2>5. ASSUME NEW c \in Clients, NEW n \in Typed, NEW e \in Entries, Map(c, n, e)
        PROVE  UNCHANGED <<listVars, names>>
    <3>1. StoreAssign(n, links[e], Displaced(KeyOf[n]))
          BY ONLY <2>5 DEF Map
    <3> QED BY <3>1 DEF StoreAssign
  <2>6. ASSUME NEW n \in Names, NEW r \in Runs, NEW e \in Entries, Pin(n, r, e)
        PROVE  UNCHANGED <<listVars, names>>
        BY <2>6 DEF Pin, StorePin
  <2>7. ASSUME NEW n \in Names, NEW r \in Runs, Unpin(n, r) PROVE UNCHANGED <<listVars, names>>
        BY <2>7 DEF Unpin, StoreUnpin
  <2>8. CASE BeginRound \/ DaemonRestarts \/ \E c \in Callers : PutInPlace(c)
        BY <2>1, <2>8 DEF BeginRound, DaemonRestarts, PutInPlace, storeVars
  <2>9. CASE UNCHANGED vars
        BY <2>1, <2>9 DEF vars, storeVars
  <2> QED BY <2>1, <2>2, <2>3, <2>4, <2>5, <2>6, <2>7, <2>8, <2>9 DEF Next
<1> QED BY <1>1, <1>2, PTL DEF Spec, IdentityStays, Same
-----------------------------------------------------------------------------
(***************************************************************************)
(* The recognizer in place.                                                *)
(***************************************************************************)

\* What is on the list is linked to a show that is filed, so that a show filed
\* after it leaves its title alone.
LinkedToFiled ==
    /\ ListIsLinked
    /\ \A e \in Entries : links[e] \in 0 .. Len(titles)

\* The invariant: one caller has the lock, and what it will put in place is of
\* the store as it left it.
PendingIsKept ==
    /\ pending = [c \in Callers |-> pending[c]]
    /\ \A c, d \in Callers : pending[c] # Idle /\ pending[d] # Idle => c = d
    /\ \A c \in Callers : pending[c] # Idle => pending[c] = Kept

InPlaceInv == LinkedToFiled /\ PendingIsKept /\ InPlaceIsOfTheStore

\* A list that is filed, and a name that is not recognized, leave each entry
\* linked to a show that is filed.
LEMMA FileLinksFiled ==
    ASSUME LinkedToFiled, NEW list \in Lists, StoreFile(list)
    PROVE  LinkedToFiled'
<1> DEFINE new == Cardinality(Unlinked(list))
<1>1. ListIsLinked'
      BY FileLinks DEF LinkedToFiled
<1>2. new \in Nat
  <2>1. IsFiniteSet(DOMAIN list) /\ Unlinked(list) \subseteq DOMAIN list
        BY ListStoreAssumption DEF Unlinked
  <2>2. IsFiniteSet(Unlinked(list))
        BY <2>1, FS_Subset
  <2> QED BY <2>2, FS_CardinalityType
<1>3. PICK number \in Numberings(list) :
          links' = LinksAfter(list, number) /\ titles' = TitlesAfter(list, number)
      BY DEF StoreFile
<1>4. Len(titles) \in Nat
      BY DEF LinkedToFiled, ListIsLinked
<1>5. Len(titles') = Len(titles) + new
  <2>1. DOMAIN titles' = 1 .. Len(titles) + new
        BY <1>3 DEF TitlesAfter
  <2>2. \E texts : titles' \in Seq(texts)
        BY <1>1 DEF ListIsLinked
  <2> HIDE DEF new
  <2> QED BY <2>1, <2>2, <1>2, <1>4
<1>6. number \in [Unlinked(list) -> Len(titles) + 1 .. Len(titles) + new]
      BY DEF Numberings
<1>7. \A e \in Entries : links'[e] = IF e \in Unlinked(list) THEN number[e] ELSE links[e]
      BY <1>3 DEF LinksAfter
<1> HIDE DEF new
<1>8. ASSUME NEW e \in Entries PROVE links'[e] \in 0 .. Len(titles')
  <2>1. CASE e \in Unlinked(list)
        BY <2>1, <1>2, <1>4, <1>5, <1>6, <1>7
  <2>2. CASE e \notin Unlinked(list)
        BY <2>2, <1>2, <1>4, <1>5, <1>7 DEF LinkedToFiled
  <2> QED BY <2>1, <2>2
<1> QED BY <1>1, <1>8 DEF LinkedToFiled

\* The recognizer of a store is the same where the lists and the names given are.
LEMMA KeptStays ==
    ASSUME UNCHANGED <<links, onList, spellings, assigned>>,
           \A e \in onList : titles'[links[e]] = titles[links[e]]
    PROVE  Kept' = Kept
<1>1. ASSUME NEW k PROVE Reached(k)' = Reached(k)
  <2>1. \A d \in onList : KeysOf({titles'[links[d]]} \cup spellings[d])
                        = KeysOf({titles[links[d]]} \cup spellings[d])
        OBVIOUS
  <2> QED BY <2>1 DEF Reached, KeysOf
<1>2. ASSUME NEW k, NEW show PROVE Nameable(k, show)' = Nameable(k, show)
      BY <1>1 DEF Nameable
<1>3. ASSUME NEW k PROVE InForce(k)' = InForce(k)
      BY <1>2 DEF InForce, Given
<1> QED BY <1>1, <1>3 DEF Kept, Altnames

\* A name that is given is in the recognizer of the store as it was, in the place
\* of every other text of its key: Mapping::map need not read the store again.
LEMMA NamedIsKept ==
    ASSUME NEW spelled \in Names, NEW show, show # 0, KeyOf[spelled] \in Keys,
           Nameable(KeyOf[spelled], show),
           StoreAssign(spelled, show, Displaced(KeyOf[spelled]))
    PROVE  Kept' = [Kept EXCEPT !.altnames[KeyOf[spelled]] = show]
<1> DEFINE k == KeyOf[spelled]
<1>1. UNCHANGED <<titles, links, onList, spellings>>
      BY DEF StoreAssign, listVars
<1>2. \A n \in Names :
          assigned'[n] = IF n = spelled THEN show ELSE IF n \in Given(k) THEN 0 ELSE assigned[n]
      BY DEF StoreAssign, Displaced
<1>3. ASSUME NEW j PROVE Reached(j)' = Reached(j)
      BY <1>1 DEF Reached
<1>4. ASSUME NEW j, NEW s PROVE Nameable(j, s)' = Nameable(j, s)
      BY <1>1, <1>3 DEF Nameable
<1>5. Altnames'[k] = show
  <2>1. Given(k)' = {spelled}
        BY <1>2 DEF Given
  <2>2. InForce(k)' = {n \in Given(k)' : Nameable(k, assigned[n])'}
        BY DEF InForce
  <2>3. Nameable(k, assigned[spelled])'
        BY <1>1, <1>2, <1>3 DEF Nameable
  <2>4. InForce(k)' = {spelled}
        BY <2>1, <2>2, <2>3
  <2>5. (CHOOSE n \in {spelled} : TRUE) = spelled
        OBVIOUS
  <2>6. Altnames'[k] = assigned'[CHOOSE n \in {spelled} : TRUE]
        BY <2>4 DEF Altnames
  <2> QED BY <2>5, <2>6, <1>2
<1>6. ASSUME NEW j \in Keys, j # k PROVE Altnames'[j] = Altnames[j]
  <2>1. ASSUME NEW n \in Names, KeyOf[n] = j PROVE assigned'[n] = assigned[n]
        BY <2>1, <1>2, <1>6 DEF Given
  <2>2. Given(j)' = Given(j)
        BY <2>1 DEF Given
  <2>3. \A n \in Given(j) : assigned'[n] = assigned[n]
        BY <2>1 DEF Given
  <2>4. InForce(j)' = InForce(j)
        BY <2>2, <2>3, <1>4 DEF InForce
  <2>5. InForce(j) \subseteq Given(j)
        BY DEF InForce
  <2>6. InForce(j) # {} => (CHOOSE n \in InForce(j) : TRUE) \in InForce(j)
        OBVIOUS
  <2> QED BY <2>3, <2>4, <2>5, <2>6 DEF Altnames
<1>7. Altnames' = [Altnames EXCEPT ![k] = show]
  <2>1. /\ Altnames = [j \in Keys |-> Altnames[j]]
        /\ Altnames' = [j \in Keys |-> Altnames'[j]]
        BY DEF Altnames
  <2> QED BY <2>1, <1>5, <1>6
<1> DEFINE reached == [j \in Keys |-> Reached(j)]
           after == Altnames'
<1>8. /\ Kept = [reached |-> reached, altnames |-> Altnames]
      /\ Kept' = [reached |-> reached, altnames |-> after]
      BY <1>3 DEF Kept
<1>9. after = [Altnames EXCEPT ![k] = show]
      BY <1>7
<1> HIDE DEF k, reached, after
<1>10. Kept' = [Kept EXCEPT !.altnames[k] = show]
      BY <1>8, <1>9
<1> QED BY <1>10 DEF k

\* A caller that goes on with a recognizer of what it wrote has the lock alone.
LEMMA GoesOnWithKept ==
    ASSUME PendingIsKept, LockFree, NEW c \in Callers, GoesOn(c, Kept')
    PROVE  PendingIsKept' /\ InPlaceIsOfTheStore'
<1>1. Kept' # Idle
      BY DEF Kept, Idle
<1> DEFINE later == Kept'
<1>2. pending' = [pending EXCEPT ![c] = later]
      BY DEF GoesOn
<1>3. \A d \in Callers : pending'[d] = IF d = c THEN later ELSE Idle
      BY <1>2 DEF PendingIsKept, LockFree
<1>4. pending' = [d \in Callers |-> pending'[d]]
      BY <1>2 DEF PendingIsKept
<1>5. PendingIsKept'
      BY <1>3, <1>4 DEF PendingIsKept, Idle
<1>6. ~LockFree'
      BY <1>1, <1>3 DEF LockFree, Idle
<1> QED BY <1>5, <1>6 DEF InPlaceIsOfTheStore

\* A call that fails after it wrote leaves the lock free, and is remembered.
LEMMA FailsWithNone ==
    ASSUME PendingIsKept, LockFree, Fails
    PROVE  PendingIsKept' /\ InPlaceIsOfTheStore'
BY DEF PendingIsKept, LockFree, Fails, InPlaceIsOfTheStore, Idle

\* A step that leaves the recognizers and what is kept alone.
LEMMA SameKept ==
    ASSUME PendingIsKept, InPlaceIsOfTheStore, UNCHANGED <<current, pending, outdated>>, Kept' = Kept
    PROVE  PendingIsKept' /\ InPlaceIsOfTheStore'
BY DEF PendingIsKept, LockFree, InPlaceIsOfTheStore, Idle

\* Whenever nobody has the store locked, the recognizer in place is of what the
\* store holds, unless a call failed after it wrote (Reader::filed, Mapping::map,
\* Mapping::unmap, Current::replace).
THEOREM InPlaceHolds == Spec => []InPlaceIsOfTheStore
<1>1. Init => InPlaceInv
  <2> SUFFICES ASSUME Init PROVE InPlaceInv
      OBVIOUS
  <2>1. titles = <<>> /\ onList = {} /\ \A e \in Entries : links[e] = 0
        BY DEF Init, ListStoreInit
  <2>2. <<>> \in Seq({}) /\ Len(<<>>) = 0
        OBVIOUS
  <2>3. LinkedToFiled
        BY <2>1, <2>2 DEF LinkedToFiled, ListIsLinked
  <2> QED BY <2>3 DEF Init, InPlaceInv, PendingIsKept, InPlaceIsOfTheStore
<1>2. InPlaceInv /\ [Next]_vars => InPlaceInv'
  <2> SUFFICES ASSUME InPlaceInv, [Next]_vars PROVE InPlaceInv'
      OBVIOUS
  <2> USE DEF InPlaceInv
  <2>1. ASSUME UNCHANGED listVars PROVE LinkedToFiled'
        BY <2>1 DEF LinkedToFiled, ListIsLinked, listVars
  <2>2. ASSUME UNCHANGED listVars, UNCHANGED assigned PROVE Kept' = Kept
        BY <2>2, KeptStays DEF listVars
  <2>3. ASSUME NEW list \in Lists, File(list) PROVE InPlaceInv'
    <3>1. LockFree /\ StoreFile(list) /\ (GoesOn(Reader, Kept') \/ Fails)
          BY <2>3 DEF File
    <3>2. Reader \in Callers
          BY DEF Callers
    <3> QED BY <3>1, <3>2, FileLinksFiled, GoesOnWithKept, FailsWithNone
  <2>4. ASSUME NEW c \in Clients, NEW n \in Typed, Unmap(c, n) PROVE InPlaceInv'
    <3>1. LockFree /\ (GoesOn(c, Kept') \/ Fails) /\ UNCHANGED listVars
          BY <2>4 DEF Unmap, StoreUnassign
    <3>2. c \in Callers
          BY DEF Callers
    <3> QED BY <2>1, <3>1, <3>2, GoesOnWithKept, FailsWithNone
  <2>5. ASSUME NEW c \in Clients, NEW n \in Typed, NEW e \in Entries, Map(c, n, e)
        PROVE  InPlaceInv'
    <3> DEFINE named == [Kept EXCEPT !.altnames[KeyOf[n]] = links[e]]
    <3>1. /\ LockFree /\ e \in onList /\ KeyOf[n] # NoKey
          /\ Nameable(KeyOf[n], links[e])
          /\ StoreAssign(n, links[e], Displaced(KeyOf[n]))
          /\ GoesOn(c, named) \/ Fails
          BY ONLY <2>5 DEF Map
    <3> HIDE DEF named
    <3>2. n \in Names /\ KeyOf[n] \in Keys /\ c \in Callers
          BY <3>1, NamingAssumption, ListStoreAssumption DEF Callers
    <3>3. links[e] # 0
          BY <3>1 DEF LinkedToFiled, ListIsLinked
    <3>4. Kept' = named
          BY <3>1, <3>2, <3>3, NamedIsKept DEF named
    <3>5. UNCHANGED listVars
          BY <3>1 DEF StoreAssign
    <3>6. GoesOn(c, Kept') \/ Fails
          BY <3>1, <3>4
    <3> QED BY <2>1, <3>1, <3>2, <3>5, <3>6, GoesOnWithKept, FailsWithNone
  <2>6. ASSUME NEW c \in Callers, PutInPlace(c) PROVE InPlaceInv'
    <3>1. /\ current' = pending[c] /\ pending[c] # Idle
          /\ pending' = [pending EXCEPT ![c] = Idle]
          /\ UNCHANGED listVars /\ UNCHANGED assigned
          BY <2>6 DEF PutInPlace, storeVars
    <3>2. current' = Kept'
          BY <2>2, <3>1 DEF PendingIsKept
    <3>3. \A d \in Callers : pending'[d] = Idle
          BY <3>1 DEF PendingIsKept
    <3>4. pending' = [d \in Callers |-> pending'[d]]
          BY <3>1 DEF PendingIsKept
    <3>5. PendingIsKept'
          BY <3>3, <3>4 DEF PendingIsKept, Idle
    <3> QED BY <2>1, <3>1, <3>2, <3>5 DEF InPlaceIsOfTheStore
  <2>7. CASE DaemonRestarts
    <3>1. /\ current' = Kept /\ pending' = [c \in Callers |-> Idle]
          /\ UNCHANGED listVars /\ UNCHANGED assigned
          BY <2>7 DEF DaemonRestarts, storeVars
    <3>2. Kept' = Kept
          BY <2>2, <3>1
    <3>3. PendingIsKept'
          BY <3>1 DEF PendingIsKept, Idle
    <3> QED BY <2>1, <3>1, <3>2, <3>3 DEF InPlaceIsOfTheStore
  <2>8. ASSUME NEW n \in Names, NEW r \in Runs,
               Unpin(n, r) \/ \E e \in Entries : Pin(n, r, e)
        PROVE  InPlaceInv'
    <3>1. UNCHANGED listVars /\ UNCHANGED assigned /\ UNCHANGED <<current, pending, outdated>>
          BY <2>8 DEF Unpin, Pin, StoreUnpin, StorePin, memoryVars
    <3> QED BY <2>1, <2>2, <3>1, SameKept
  <2>9. CASE BeginRound \/ UNCHANGED vars
    <3>1. UNCHANGED listVars /\ UNCHANGED assigned /\ UNCHANGED <<current, pending, outdated>>
          BY <2>9 DEF BeginRound, vars, storeVars, memoryVars
    <3> QED BY <2>1, <2>2, <3>1, SameKept
  <2>10. ASSUME NEW n \in Names, Unrecognized(n) PROVE InPlaceInv'
    <3>1. /\ UNCHANGED <<links, onList, spellings, assigned>>
          /\ UNCHANGED <<current, pending, outdated>>
          /\ titles' = titles \/ titles' = Append(titles, n)
          BY <2>10 DEF Unrecognized, StoreUnlisted, memoryVars
    <3>2. PICK texts : titles \in Seq(texts)
          BY DEF LinkedToFiled, ListIsLinked
    <3>3. titles' \in Seq(texts \cup {n}) /\ Len(titles') >= Len(titles)
      <4>1. titles \in Seq(texts \cup {n}) /\ n \in texts \cup {n}
            BY <3>2
      <4> QED BY <3>1, <4>1
    <3>4. \A s \in 1 .. Len(titles) : titles'[s] = titles[s]
          BY <3>1, <3>2
    <3>5. \A e \in onList : links[e] \in 1 .. Len(titles)
          BY <3>2 DEF LinkedToFiled, ListIsLinked
    <3>6. Kept' = Kept
          BY <3>1, <3>4, <3>5, KeptStays
    <3>7. LinkedToFiled'
          BY <3>1, <3>2, <3>3 DEF LinkedToFiled, ListIsLinked
    <3> QED BY <3>1, <3>6, <3>7, SameKept
  <2> QED BY <2>3, <2>4, <2>5, <2>6, <2>7, <2>8, <2>9, <2>10 DEF Next
<1> QED BY <1>1, <1>2, PTL DEF Spec, InPlaceInv
=============================================================================
