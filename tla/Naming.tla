------------------------------- MODULE Naming -------------------------------
(***************************************************************************)
(* What a name means: the recognizer in place (crates/daemon/src:          *)
(* recognition.rs), and those who put one there, the list's task as it     *)
(* files a list (listing.rs) and the calls of a client that give a name or *)
(* take one back (mapping.rs).  Pins are kept under the same lock.         *)
(*                                                                         *)
(* A call reads the store, writes it and puts a recognizer in place with   *)
(* the store locked.  The write is one step and the putting in place       *)
(* another: a round reads the recognizer in place without the lock, and    *)
(* the process may be killed between the two.  A call the store or the     *)
(* code refuses before it writes changes nothing and is no step.           *)
(***************************************************************************)
EXTENDS ListStore

CONSTANTS
    Reader,     \* the list's task
    Clients,    \* connections with a call under way
    Typed,      \* bound: texts the user gives as a name
    Runs        \* runs of episodes a client may pin

ASSUME NamingAssumption ==
    /\ Reader \notin Clients
    /\ Typed \subseteq Names
    /\ \A r \in Runs : r \in Nat \X Nat /\ r[1] <= r[2]

VARIABLES
    current,    \* the recognizer in place
    pending,    \* what a caller that has the lock will put in place
    outdated,   \* history: a call wrote and then failed to put one in place
    refused     \* the keys that the recognizer of the round under way refuses

memoryVars == <<current, pending, outdated, refused>>

vars == <<storeVars, memoryVars>>

Callers == Clients \cup {Reader}

\* reached is Corpus::candidates and altnames is Altnames::assigned, of each key.
Recognizers ==
    [reached : [Keys -> SUBSET (1 .. MaxShows)], altnames : [Keys -> 0 .. MaxShows]]

Idle == [idle |-> TRUE]

\* No name is given and no entry reached.  An entry near enough takes such a key
\* as well, which is a file that is not unlisted and changes nothing here.
RefusedBy(recognizer) ==
    {k \in Keys : recognizer.altnames[k] = 0 /\ recognizer.reached[k] = {}}

\* A mutant: nobody waits for the store.
LockedByNobody == \A c \in Callers : c = c

LockFree == \A c \in Callers : pending[c] = Idle

-----------------------------------------------------------------------------
(***************************************************************************)
(* What the store holds, as a recognizer.                                  *)
(***************************************************************************)

\* corpus_of: the listed entries a key reaches, which without marks is every
\* one of its letters.
Reached(k) ==
    {links[e] : e \in {d \in onList :
        \E f \in KeysOf({titles[links[d]]} \cup spellings[d]) : f = k \/ Plain[f] = k}}

\* A mutant: a name is in force whatever it would take.
NameableIfListed(k, show) == show \in {links[e] : e \in onList}

\* Altnames::record: the show is on the list, and the key does not already
\* reach one other entry.
Nameable(k, show) ==
    /\ show \in {links[e] : e \in onList}
    /\ \A other \in Reached(k) : Reached(k) = {other} => other = show

\* The texts given under a key.
Given(k) == {n \in Names : assigned[n] # 0 /\ KeyOf[n] = k}

\* named: those in force.
InForce(k) == {n \in Given(k) : Nameable(k, assigned[n])}

\* recognizer_of.
Altnames ==
    [k \in Keys |-> IF InForce(k) = {} THEN 0 ELSE assigned[CHOOSE n \in InForce(k) : TRUE]]

\* kept: a recognizer of what the store holds.
Kept == [reached |-> [k \in Keys |-> Reached(k)], altnames |-> Altnames]

-----------------------------------------------------------------------------
(***************************************************************************)
(* Calls that put a recognizer in place.                                   *)
(***************************************************************************)

\* What a caller that wrote goes on to put in place.
GoesOn(c, recognizer) ==
    /\ pending' = [pending EXCEPT ![c] = recognizer]
    /\ UNCHANGED <<current, outdated, refused>>

\* A read that fails after the write ends the call, with the recognizer left as
\* it is.
Fails ==
    /\ outdated' = TRUE
    /\ UNCHANGED <<current, pending, refused>>

\* Reader::filed.
File(list) ==
    /\ LockFree
    /\ StoreFile(list)
    /\ GoesOn(Reader, Kept') \/ Fails

\* A mutant: only the names in force are displaced.
DisplacedInForce(k) == InForce(k)

\* Every text of the key, in force or not.
Displaced(k) == Given(k)

\* Mapping::map.  Only the title of a show off the list, which the name meant
\* before, is read after the write.
Map(c, spelled, e) ==
    LET k == KeyOf[spelled]
        show == links[e] IN
    /\ LockFree
    /\ e \in onList /\ k # NoKey /\ Nameable(k, show)
    /\ StoreAssign(spelled, show, Displaced(k))
    /\ \/ GoesOn(c, [Kept EXCEPT !.altnames[k] = show])
       \/ Fails /\ \E n \in Given(k) : assigned[n] \notin {links[d] : d \in onList}

\* Mapping::unmap: the text of the key that was given.
Unmap(c, spelled) ==
    /\ LockFree
    /\ KeyOf[spelled] # NoKey
    /\ \E given \in Given(KeyOf[spelled]) : StoreUnassign(given)
    /\ GoesOn(c, Kept') \/ Fails

\* Current::replace, and the lock is given back.
PutInPlace(c) ==
    /\ pending[c] # Idle
    /\ current' = pending[c]
    /\ pending' = [pending EXCEPT ![c] = Idle]
    /\ outdated' = FALSE
    /\ UNCHANGED <<storeVars, refused>>

-----------------------------------------------------------------------------
(***************************************************************************)
(* Pins.                                                                   *)
(***************************************************************************)

\* show_named: the shows of that title, or where there are none of its key.
ShowsNamed(named) ==
    LET same == {s \in Filed : titles[s] = named} IN
    IF same # {} \/ KeyOf[named] = NoKey THEN same
    ELSE {s \in Filed : KeyOf[titles[s]] = KeyOf[named]}

\* Episodes::overlaps.
Overlap(p, q) == p.first <= q.last /\ q.first <= p.last

Overlapped(p) == {q \in pins : q.show = p.show /\ Overlap(p, q)}

\* A mutant: a pin that begins at the same episode is taken for the same.
MayBePinnedAgain(p) ==
    Overlapped(p) = {} \/ \E q \in Overlapped(p) : q.first = p.first

\* The first pin found that it overlaps is of the same episodes.
MayBePinned(p) ==
    \/ Overlapped(p) = {}
    \/ \E q \in Overlapped(p) : q.first = p.first /\ q.last = p.last

\* Mapping::pin.  The episodes of the entry, as many, are left out.
Pin(named, run, e) ==
    /\ LockFree
    /\ e \in onList
    /\ \E s \in ShowsNamed(named) :
          LET p == [show |-> s, first |-> run[1], last |-> run[2], entry |-> e] IN
          /\ ShowsNamed(named) = {s}
          /\ MayBePinned(p)
          /\ StorePin(p)
    /\ UNCHANGED memoryVars

\* Mapping::unpin.
Unpin(named, run) ==
    /\ LockFree
    /\ \E s \in ShowsNamed(named) :
          ShowsNamed(named) = {s} /\ StoreUnpin(s, run[1], run[2])
    /\ UNCHANGED memoryVars

-----------------------------------------------------------------------------
(***************************************************************************)
(* Rounds, and the process.                                                *)
(***************************************************************************)

\* A round takes the recognizer in place as it begins, and decides with it to
\* its end.
BeginRound ==
    /\ refused' = RefusedBy(current)
    /\ UNCHANGED <<storeVars, current, pending, outdated>>

\* unlisted: a name every stage of the round refused is the show its key is
\* kept as.
Unrecognized(spelled) ==
    LET k == KeyOf[spelled] IN
    /\ LockFree
    /\ k \in refused
    /\ StoreUnlisted(k, spelled)
    /\ UNCHANGED memoryVars

\* The process is killed and started again: serve puts in place what the store
\* holds.
DaemonRestarts ==
    /\ current' = Kept
    /\ pending' = [c \in Callers |-> Idle]
    /\ outdated' = FALSE
    /\ refused' = {}
    /\ UNCHANGED storeVars

Init ==
    /\ ListStoreInit
    /\ current = Kept
    /\ pending = [c \in Callers |-> Idle]
    /\ outdated = FALSE
    /\ refused = {}

Next ==
    \/ \E list \in Lists : File(list)
    \/ \E c \in Clients, n \in Typed : Unmap(c, n) \/ \E e \in Entries : Map(c, n, e)
    \/ \E c \in Callers : PutInPlace(c)
    \/ \E n \in Names, r \in Runs : Unpin(n, r) \/ \E e \in Entries : Pin(n, r, e)
    \/ BeginRound
    \/ \E n \in Names : Unrecognized(n)
    \/ DaemonRestarts

Spec == Init /\ [][Next]_vars

-----------------------------------------------------------------------------
\* Whenever nobody has the store locked, the recognizer in place is of what
\* the store holds, a list filed and a name given at once included, unless a
\* call failed after it wrote.
InPlaceIsOfTheStore == LockFree /\ ~outdated => current = Kept

\* The store holds one text of a key, those not in force included: what a name
\* means is never one of two texts by chance.
OneNameOfAKey == \A k \in Keys : \A m, n \in Given(k) : m = n

\* A name the user gave never takes the files of another entry that its text
\* alone reaches, however the list changed since it was given.
NoNameTakesAnEntry ==
    \A k \in Keys : current.altnames[k] # 0 =>
        \A other \in current.reached[k] :
            current.reached[k] = {other} => other = current.altnames[k]

\* Two pins of a show share no episode: an episode is of one pin's entry.
PinsApart == \A p, q \in pins : p.show = q.show /\ p # q => ~Overlap(p, q)

\* An entry stays the show it is linked to, on the list or off it, and a key
\* the show it is kept as, whatever is filed and whoever crashes; and an entry
\* that leaves the list leaves each of its names kept as some show.
IdentityStays ==
    [][/\ \A e \in Entries : links[e] # 0 => links'[e] = links[e]
       /\ \A k \in Keys : names[k] # 0 => names'[k] = names[k]
       /\ \A e \in onList \ onList' :
             \A k \in Keys :
                k \in KeysOf({titles[links[e]]} \cup spellings[e]) => names'[k] # 0]_vars
=============================================================================
