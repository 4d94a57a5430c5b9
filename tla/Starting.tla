------------------------------ MODULE Starting ------------------------------
(***************************************************************************)
(* How a daemon starts, up to where its tasks run (serve in                *)
(* crates/benshi/src/main.rs): it binds its socket (bind in                *)
(* crates/daemon/src/ipc.rs), opens the store (Store::open in              *)
(* crates/store/src/lib.rs) and brings it to its schema                    *)
(* (crates/store/src/migrate.rs).  Daemons may be of several builds, each  *)
(* with the migrations it knows; all of them share one database.           *)
(*                                                                         *)
(* The file system, the sockets and SQLite are external.  A socket is a    *)
(* file that outlives who bound it.  A commit is whole, and while the      *)
(* power holds it stays; power that fails leaves the database at any       *)
(* commit since the last that was synchronised.                            *)
(***************************************************************************)
EXTENDS Naturals

CONSTANTS
    Daemons,    \* who may be started, one process of each at a time
    SocketOf,   \* the path of the socket each works out
    Nothing,    \* no file at a path
    Scripts,    \* how many migrations there are
    Knows,      \* how many of them the build of each daemon knows
    Again,      \* scripts that run a second time without an error
    Versions,   \* schemas the database may be at first
    AtOnce      \* whether a daemon may be started while another is not listening yet

ASSUME StartingAssumption ==
    /\ Nothing \notin Daemons
    /\ Scripts \in Nat
    /\ Knows \in [Daemons -> 0 .. Scripts]
    /\ Again \subseteq 1 .. Scripts
    /\ Versions \subseteq 0 .. Scripts
    /\ AtOnce \in BOOLEAN

VARIABLES
    phase,      \* how far each daemon is
    file,       \* at each path, the daemon that bound the socket there
    db,         \* user_version, and the scripts the database holds the tables of
    synced,     \* the commits the power may leave the database at
    found       \* the version each daemon takes the database to be at

vars == <<phase, file, db, synced, found>>

Paths == {SocketOf[d] : d \in Daemons}

Binding == {"looking", "trying", "removing", "binding", "bound"}

Listens == {"opening", "migrating", "running"}

\* Not running: never started or killed, turned away for a daemon that listens,
\* refused by the database, or failed.
Over == {"off", "in use", "from the future", "failed"}

Databases == [version : 0 .. Scripts, tables : SUBSET (1 .. Scripts)]

AtVersion(n) == [version |-> n, tables |-> 1 .. n]

Goes(d, to) == phase' = [phase EXCEPT ![d] = to]

-----------------------------------------------------------------------------
(***************************************************************************)
(* bind.                                                                   *)
(***************************************************************************)

Start(d) ==
    /\ phase[d] \in Over
    /\ AtOnce \/ \A other \in Daemons : phase[other] \notin Binding
    /\ Goes(d, "looking")
    /\ UNCHANGED <<file, db, synced, found>>

\* path.exists().
Look(d) ==
    /\ phase[d] = "looking"
    /\ Goes(d, IF file[SocketOf[d]] = Nothing THEN "binding" ELSE "trying")
    /\ UNCHANGED <<file, db, synced, found>>

\* What a connect that does not block may answer: one to a socket nobody
\* accepts on fills its backlog.
Answers(path) ==
    IF file[path] = Nothing THEN {"missing"}
    ELSE IF phase[file[path]] \in Listens THEN {"connected", "full"}
    ELSE {"refused"}

\* A mutant: a backlog with no room is read as nobody.
OnlyConnected(answer) == answer = "connected"

\* still_listening: a refusal alone says that nobody is there.
StillListening(answer) == answer # "refused"

Try(d) ==
    /\ phase[d] = "trying"
    /\ \E answer \in Answers(SocketOf[d]) :
          Goes(d, IF StillListening(answer) THEN "in use" ELSE "removing")
    /\ UNCHANGED <<file, db, synced, found>>

\* remove_file, which fails where another took the file first.
Remove(d) ==
    /\ phase[d] = "removing"
    /\ Goes(d, IF file[SocketOf[d]] = Nothing THEN "failed" ELSE "binding")
    /\ file' = [file EXCEPT ![SocketOf[d]] = Nothing]
    /\ UNCHANGED <<db, synced, found>>

\* UnixListener::bind makes the file, unless there is one.
Bind(d) ==
    /\ phase[d] = "binding"
    /\ LET free == file[SocketOf[d]] = Nothing IN
          /\ Goes(d, IF free THEN "bound" ELSE "failed")
          /\ file' = IF free THEN [file EXCEPT ![SocketOf[d]] = d] ELSE file
    /\ UNCHANGED <<db, synced, found>>

\* And then listens on it.
Listen(d) ==
    /\ phase[d] = "bound"
    /\ Goes(d, "opening")
    /\ UNCHANGED <<file, db, synced, found>>

-----------------------------------------------------------------------------
(***************************************************************************)
(* Store::open and migrate::apply.                                         *)
(***************************************************************************)

\* A mutant: a database ahead of the build is taken as it is.
NotRefused(d) == FALSE

\* Error::FromTheFuture.
FromTheFuture(d) == db.version > Knows[d]

\* The version is read ahead of the first transaction, and not again.
ReadVersion(d) ==
    /\ phase[d] = "opening"
    /\ found' = [found EXCEPT ![d] = db.version]
    /\ Goes(d, IF FromTheFuture(d) THEN "from the future" ELSE "migrating")
    /\ UNCHANGED <<file, db, synced>>

\* A mutant: the version is not written in the transaction of the script.
CommitsApart(n) ==
    {[version |-> n, tables |-> db.tables \cup {n}], [db EXCEPT !.version = n]}

\* The one transaction of a migration.
Commits(n) == {[version |-> n, tables |-> db.tables \cup {n}]}

\* apply_after, one migration: a script that made its tables once fails where
\* it would make them again, and its transaction is rolled back.
Migrate(d) ==
    /\ phase[d] = "migrating" /\ found[d] < Knows[d]
    /\ LET n == found[d] + 1 IN
          IF n \in db.tables \ Again
          THEN /\ Goes(d, "failed")
               /\ UNCHANGED <<db, synced, found>>
          ELSE /\ db' \in Commits(n)
               /\ synced' = synced \cup {db'}
               /\ found' = [found EXCEPT ![d] = n]
               /\ UNCHANGED phase
    /\ UNCHANGED file

\* Every migration is applied, and the tasks are run.
Run(d) ==
    /\ phase[d] = "migrating" /\ found[d] >= Knows[d]
    /\ Goes(d, "running")
    /\ UNCHANGED <<file, db, synced, found>>

-----------------------------------------------------------------------------
\* A daemon fails at any step, is stopped by a signal or is killed.  Nothing
\* unlinks its socket.
End(d) ==
    /\ phase[d] \notin Over
    /\ Goes(d, "off")
    /\ UNCHANGED <<file, db, synced, found>>

\* SQLite writes the log into the database and synchronises it.
Checkpoint ==
    /\ synced' = {db}
    /\ UNCHANGED <<phase, file, db, found>>

\* A runtime directory is emptied as the machine starts, a temporary one need
\* not be.
PowerFails ==
    /\ phase' = [d \in Daemons |-> "off"]
    /\ db' \in synced
    /\ synced' = {db'}
    /\ file' \in {file, [p \in Paths |-> Nothing]}
    /\ UNCHANGED found

Init ==
    /\ phase = [d \in Daemons |-> "off"]
    /\ file = [p \in Paths |-> Nothing]
    /\ db \in {AtVersion(n) : n \in Versions}
    /\ synced = {db}
    /\ found = [d \in Daemons |-> 0]

Steps(d) ==
    \/ Start(d) \/ Look(d) \/ Try(d) \/ Remove(d) \/ Bind(d) \/ Listen(d)
    \/ ReadVersion(d) \/ Migrate(d) \/ Run(d) \/ End(d)

Next == (\E d \in Daemons : Steps(d)) \/ Checkpoint \/ PowerFails

Spec == Init /\ [][Next]_vars

-----------------------------------------------------------------------------
\* Every variable keeps its type.
TypeOK ==
    /\ phase \in [Daemons -> Over \cup Binding \cup Listens]
    /\ file \in [Paths -> Daemons \cup {Nothing}]
    /\ db \in Databases /\ synced \subseteq Databases
    /\ found \in [Daemons -> 0 .. Scripts]

\* A daemon that listens is the one its socket's path leads to, so that of two
\* that work out one socket only one goes on to the database: no daemon is
\* left running that nobody can reach (bind, ipc.rs).
EachIsReachable == \A d \in Daemons : phase[d] \in Listens => file[SocketOf[d]] = d

\* The database holds what the first user_version scripts make, whatever ended
\* between two of them and at whichever commit the power left it: the next
\* start applies each migration it has not seen, and no other (migrate.rs).
NumberIsOfTheSchema == \A left \in synced \cup {db} : left.tables = 1 .. left.version

\* A daemon whose tasks run does so on the schema of its build: no other build
\* brings the database to another while it is written to (main.rs).
RunsOnItsSchema == \A d \in Daemons : phase[d] = "running" => db.version = Knows[d]
=============================================================================
