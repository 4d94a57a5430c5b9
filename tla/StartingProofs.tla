---------------------------- MODULE StartingProofs ----------------------------
(***************************************************************************)
(* What holds of daemons that are started one after another, each once the *)
(* one before it listens or is over, for any daemons, builds and           *)
(* migrations, wherever they are killed and the power fails: each that     *)
(* listens is reachable, and where all work out one socket the version of  *)
(* the database is that of its schema and of the build that runs on it.    *)
(* And of the supervisor of a process, whose lemmas are those of           *)
(* SupervisorProofs, taken twice: for one task, and for all of them.       *)
(***************************************************************************)
EXTENDS MCProcess, TLAPS

Takes == Listens \cup {"bound"}

\* One daemon at a time is on its way to listen, a socket that is bound stays
\* where it was bound, and only one nobody listens on is about to be removed.
SocketsHold ==
    /\ phase \in [Daemons -> Over \cup Binding \cup Listens]
    /\ file \in [Paths -> Daemons \cup {Nothing}]
    /\ \A d, e \in Daemons : phase[d] \in Binding /\ phase[e] \in Binding => d = e
    /\ \A d \in Daemons : phase[d] \in Takes => file[SocketOf[d]] = d
    /\ \A d, e \in Daemons :
          phase[d] = "removing" /\ phase[e] \in Listens => SocketOf[d] # SocketOf[e]

\* A daemon that migrates the database takes it to be at the version it is at.
SchemasHold ==
    /\ found \in [Daemons -> 0 .. Scripts]
    /\ db \in Databases /\ synced \subseteq Databases
    /\ NumberIsOfTheSchema
    /\ RunsOnItsSchema
    /\ \A d \in Daemons : phase[d] = "migrating" => found[d] = db.version /\ db.version <= Knows[d]

-----------------------------------------------------------------------------
\* What a daemon goes to is its phase, and the others keep theirs.
LEMMA GoesTo ==
    ASSUME SocketsHold, NEW d \in Daemons, NEW to \in Over \cup Binding \cup Listens, Goes(d, to)
    PROVE  /\ phase' \in [Daemons -> Over \cup Binding \cup Listens]
           /\ phase'[d] = to
           /\ \A e \in Daemons : e # d => phase'[e] = phase[e]
BY DEF SocketsHold, Goes

\* A step that leaves the files alone and takes a daemon no nearer to a socket.
LEMMA FilesAreLeft ==
    ASSUME SocketsHold, UNCHANGED file, NEW d \in Daemons,
           NEW to \in Over \cup Binding \cup Listens, Goes(d, to),
           to \in Binding => phase[d] \in Binding \/ \A e \in Daemons : phase[e] \notin Binding,
           to \in Takes => phase[d] \in Takes,
           to \in Listens => phase[d] \in Takes,
           to = "removing" =>
              \A e \in Daemons : phase[e] \in Listens => SocketOf[d] # SocketOf[e],
           to \in Listens =>
              \A e \in Daemons : phase[e] = "removing" => SocketOf[d] # SocketOf[e]
    PROVE  SocketsHold'
<1>1. /\ phase' \in [Daemons -> Over \cup Binding \cup Listens]
      /\ phase'[d] = to
      /\ \A e \in Daemons : e # d => phase'[e] = phase[e]
  BY GoesTo
<1>2. \A e, f \in Daemons : phase'[e] \in Binding /\ phase'[f] \in Binding => e = f
  BY <1>1 DEF SocketsHold
<1>3. \A e \in Daemons : phase'[e] \in Takes => file'[SocketOf[e]] = e
  BY <1>1 DEF SocketsHold
<1>4. \A e, f \in Daemons :
         phase'[e] = "removing" /\ phase'[f] \in Listens => SocketOf[e] # SocketOf[f]
  <2>1. SUFFICES ASSUME NEW e \in Daemons, NEW f \in Daemons,
                        phase'[e] = "removing", phase'[f] \in Listens
                 PROVE  SocketOf[e] # SocketOf[f]
    OBVIOUS
  <2>2. e # f
    BY <2>1 DEF Listens
  <2>3. CASE e = d
    BY <1>1, <2>1, <2>2, <2>3
  <2>4. CASE f = d
    BY <1>1, <2>1, <2>2, <2>4
  <2>5. CASE e # d /\ f # d
    BY <1>1, <2>1, <2>5 DEF SocketsHold
  <2>6. QED
    BY <2>3, <2>4, <2>5
<1>5. file' \in [Paths -> Daemons \cup {Nothing}]
  BY DEF SocketsHold
<1>6. QED
  BY <1>1, <1>2, <1>3, <1>4, <1>5 DEF SocketsHold

-----------------------------------------------------------------------------
(***************************************************************************)
(* The sockets.                                                            *)
(***************************************************************************)

LEMMA InitSockets == Init => SocketsHold
BY DEF Init, SocketsHold, Over, Binding, Listens, Takes

LEMMA StartKeepsSockets ==
    ASSUME SocketsHold, ~AtOnce, NEW d \in Daemons, Start(d)
    PROVE  SocketsHold'
<1>1. \A e \in Daemons : phase[e] \notin Binding
  BY DEF Start, Over, Binding
<1>2. QED
  BY <1>1, FilesAreLeft DEF Start, Over, Binding, Listens, Takes

LEMMA LookKeepsSockets ==
    ASSUME SocketsHold, NEW d \in Daemons, Look(d)
    PROVE  SocketsHold'
<1>1. PICK to \in {"binding", "trying"} : Goes(d, to)
  BY DEF Look
<1>2. QED
  BY <1>1, FilesAreLeft DEF Look, Over, Binding, Listens, Takes

LEMMA TryKeepsSockets ==
    ASSUME SocketsHold, NEW d \in Daemons, Try(d)
    PROVE  SocketsHold'
<1>1. PICK answer \in Answers(SocketOf[d]) :
         Goes(d, IF StillListening(answer) THEN "in use" ELSE "removing")
  BY DEF Try
<1>2. CASE answer # "refused"
  <2>1. Goes(d, "in use")
    BY <1>1, <1>2 DEF StillListening
  <2>2. QED
    BY <2>1, FilesAreLeft DEF Try, Over, Binding, Listens, Takes
<1>3. CASE answer = "refused"
  <2>1. Goes(d, "removing")
    BY <1>1, <1>3 DEF StillListening
  <2>2. ASSUME NEW e \in Daemons, phase[e] \in Listens PROVE SocketOf[d] # SocketOf[e]
    <3>1. file[SocketOf[e]] = e
      BY <2>2 DEF SocketsHold, Takes
    <3>2. file[SocketOf[d]] # e
      BY <1>1, <1>3, <2>2, StartingAssumption DEF Answers
    <3>3. QED
      BY <3>1, <3>2
  <2>3. QED
    BY <2>1, <2>2, FilesAreLeft DEF Try, Over, Binding, Listens, Takes
<1>4. QED
  BY <1>2, <1>3

\* The files about a daemon that alone is on its way to listen.
LEMMA AloneAtTheFiles ==
    ASSUME SocketsHold, NEW d \in Daemons, phase[d] \in Binding,
           NEW to \in Over \cup {"binding", "bound"}, Goes(d, to),
           NEW left \in Daemons \cup {Nothing},
           file' = [file EXCEPT ![SocketOf[d]] = left],
           to = "bound" => left = d,
           \A e \in Daemons : phase[e] \in Listens => SocketOf[e] # SocketOf[d]
    PROVE  SocketsHold'
<1>1. /\ phase' \in [Daemons -> Over \cup Binding \cup Listens]
      /\ phase'[d] = to
      /\ \A e \in Daemons : e # d => phase'[e] = phase[e]
  BY GoesTo DEF Binding
<1>2. SocketOf[d] \in Paths /\ file' \in [Paths -> Daemons \cup {Nothing}]
  BY DEF Paths, SocketsHold
<1>3. \A e, f \in Daemons : phase'[e] \in Binding /\ phase'[f] \in Binding => e = f
  BY <1>1 DEF SocketsHold
<1>4. ASSUME NEW e \in Daemons, phase'[e] \in Takes PROVE file'[SocketOf[e]] = e
  <2>1. CASE e = d
    BY <1>1, <1>2, <1>4, <2>1 DEF SocketsHold, Takes, Over, Listens
  <2>2. CASE e # d
    <3>1. phase[e] \in Takes /\ phase[e] \notin Binding
      BY <1>1, <1>4, <2>2 DEF SocketsHold
    <3>2. phase[e] \in Listens
      BY <3>1 DEF Takes, Binding
    <3>3. SocketOf[e] # SocketOf[d] /\ SocketOf[e] \in Paths /\ file[SocketOf[e]] = e
      BY <3>1, <3>2 DEF SocketsHold, Paths
    <3>4. QED
      BY <3>3 DEF SocketsHold
  <2>3. QED
    BY <2>1, <2>2
<1>5. \A e \in Daemons : phase'[e] # "removing"
  BY <1>1 DEF SocketsHold, Binding, Over
<1>6. QED
  BY <1>1, <1>2, <1>3, <1>4, <1>5 DEF SocketsHold

LEMMA RemoveKeepsSockets ==
    ASSUME SocketsHold, NEW d \in Daemons, Remove(d)
    PROVE  SocketsHold'
<1>1. PICK to \in {"failed", "binding"} : Goes(d, to)
  BY DEF Remove
<1>2. \A e \in Daemons : phase[e] \in Listens => SocketOf[e] # SocketOf[d]
  BY DEF Remove, SocketsHold
<1>3. QED
  BY <1>1, <1>2, AloneAtTheFiles DEF Remove, Over, Binding

LEMMA BindKeepsSockets ==
    ASSUME SocketsHold, NEW d \in Daemons, Bind(d)
    PROVE  SocketsHold'
<1>1. CASE file[SocketOf[d]] = Nothing
  <2>1. Goes(d, "bound") /\ file' = [file EXCEPT ![SocketOf[d]] = d]
    BY <1>1 DEF Bind
  <2>2. \A e \in Daemons : phase[e] \in Listens => SocketOf[e] # SocketOf[d]
    BY <1>1, StartingAssumption DEF SocketsHold, Takes
  <2>3. QED
    BY <2>1, <2>2, AloneAtTheFiles DEF Bind, Binding
<1>2. CASE file[SocketOf[d]] # Nothing
  <2>1. Goes(d, "failed") /\ UNCHANGED file
    BY <1>2 DEF Bind
  <2>2. QED
    BY <2>1, FilesAreLeft DEF Over, Binding, Listens, Takes
<1>3. QED
  BY <1>1, <1>2

LEMMA ListenKeepsSockets ==
    ASSUME SocketsHold, NEW d \in Daemons, Listen(d)
    PROVE  SocketsHold'
<1>1. \A e \in Daemons : phase[e] # "removing"
  BY DEF Listen, SocketsHold, Binding
<1>2. QED
  BY <1>1, FilesAreLeft DEF Listen, Over, Binding, Listens, Takes

\* A daemon that listens, whatever it goes on to, and one that ends.
LEMMA ListeningKeepsSockets ==
    ASSUME SocketsHold, NEW d \in Daemons, phase[d] \in Listens, UNCHANGED file,
           NEW to \in Over \cup Listens, Goes(d, to)
    PROVE  SocketsHold'
<1>1. \A e \in Daemons : phase[e] = "removing" => SocketOf[d] # SocketOf[e]
  BY DEF SocketsHold
<1>2. QED
  BY <1>1, FilesAreLeft DEF Over, Binding, Listens, Takes

LEMMA StepsKeepSockets ==
    ASSUME SocketsHold, ~AtOnce, NEW d \in Daemons, Steps(d)
    PROVE  SocketsHold'
<1>1. CASE Start(d)
  BY <1>1, StartKeepsSockets
<1>2. CASE Look(d)
  BY <1>2, LookKeepsSockets
<1>3. CASE Try(d)
  BY <1>3, TryKeepsSockets
<1>4. CASE Remove(d)
  BY <1>4, RemoveKeepsSockets
<1>5. CASE Bind(d)
  BY <1>5, BindKeepsSockets
<1>6. CASE Listen(d)
  BY <1>6, ListenKeepsSockets
<1>7. CASE ReadVersion(d)
  <2>1. PICK to \in {"from the future", "migrating"} : Goes(d, to)
    BY <1>7 DEF ReadVersion
  <2>2. QED
    BY <1>7, <2>1, ListeningKeepsSockets DEF ReadVersion, Over, Listens
<1>8. CASE Migrate(d)
  <2>1. CASE UNCHANGED phase
    BY <1>8, <2>1 DEF Migrate, SocketsHold
  <2>2. CASE Goes(d, "failed")
    BY <1>8, <2>2, ListeningKeepsSockets DEF Migrate, Over, Listens
  <2>3. QED
    BY <1>8, <2>1, <2>2 DEF Migrate
<1>9. CASE Run(d)
  BY <1>9, ListeningKeepsSockets DEF Run, Listens
<1>10. CASE End(d)
  BY <1>10, FilesAreLeft DEF End, Over, Binding, Listens, Takes
<1>11. QED
  BY <1>1, <1>2, <1>3, <1>4, <1>5, <1>6, <1>7, <1>8, <1>9, <1>10 DEF Steps

LEMMA NextKeepsSockets ==
    ASSUME SocketsHold, ~AtOnce, [Next]_vars
    PROVE  SocketsHold'
<1>1. CASE \E d \in Daemons : Steps(d)
  BY <1>1, StepsKeepSockets
<1>2. CASE Checkpoint
  BY <1>2 DEF Checkpoint, SocketsHold
<1>3. CASE PowerFails
  BY <1>3 DEF PowerFails, SocketsHold, Over, Binding, Listens, Takes
<1>4. CASE UNCHANGED vars
  BY <1>4 DEF vars, SocketsHold
<1>5. QED
  BY <1>1, <1>2, <1>3, <1>4 DEF Next

LEMMA SocketsAlwaysHold ==
    ASSUME ~AtOnce
    PROVE  Spec => []SocketsHold
<1>1. SocketsHold /\ [Next]_vars => SocketsHold'
  BY NextKeepsSockets
<1>2. QED
  BY <1>1, InitSockets, PTL DEF Spec

\* Where daemons are started one after another, a daemon that listens is the one
\* its socket's path leads to (EachIsReachable).
THEOREM Reachable ==
    ASSUME ~AtOnce
    PROVE  Spec => []EachIsReachable
<1>1. SocketsHold => EachIsReachable
  BY DEF SocketsHold, EachIsReachable, Takes
<1>2. QED
  BY <1>1, SocketsAlwaysHold, PTL

-----------------------------------------------------------------------------
(***************************************************************************)
(* The database.                                                           *)
(***************************************************************************)

OneSocket == \A d, e \in Daemons : SocketOf[d] = SocketOf[e]

LEMMA AloneAtTheDatabase ==
    ASSUME SocketsHold, OneSocket, NEW d \in Daemons, NEW e \in Daemons,
           phase[d] \in Listens, phase[e] \in Listens
    PROVE  d = e
BY DEF SocketsHold, OneSocket, Takes

LEMMA InitSchemas == Init => SchemasHold
<1>1. SUFFICES ASSUME Init PROVE SchemasHold
  OBVIOUS
<1>2. PICK n \in Versions : db = AtVersion(n)
  BY <1>1 DEF Init
<1>3. n \in 0 .. Scripts /\ db.version = n /\ db.tables = 1 .. n
  BY <1>2, StartingAssumption DEF AtVersion
<1>4. db \in Databases
  BY <1>2, <1>3, StartingAssumption DEF AtVersion, Databases
<1>5. found \in [Daemons -> 0 .. Scripts]
  BY <1>1, StartingAssumption DEF Init
<1>6. \A d \in Daemons : phase[d] = "off"
  BY <1>1 DEF Init
<1>7. synced = {db}
  BY <1>1 DEF Init
<1>8. QED
  BY <1>3, <1>4, <1>5, <1>6, <1>7 DEF SchemasHold, NumberIsOfTheSchema, RunsOnItsSchema

\* A step that leaves the database and what is found of it alone, and takes no
\* daemon nearer to it.
LEMMA DatabaseIsLeft ==
    ASSUME SchemasHold, UNCHANGED <<db, synced, found>>,
           \A d \in Daemons : phase'[d] \in {"migrating", "running"} => phase'[d] = phase[d]
    PROVE  SchemasHold'
BY DEF SchemasHold, NumberIsOfTheSchema, RunsOnItsSchema

\* A daemon that goes elsewhere than to the database.
LEMMA GoesElsewhere ==
    ASSUME SocketsHold, SchemasHold, UNCHANGED <<db, synced, found>>, NEW d \in Daemons,
           NEW to \in (Over \cup Binding \cup Listens) \ {"migrating", "running"}, Goes(d, to)
    PROVE  SchemasHold'
<1>1. /\ phase'[d] = to
      /\ \A e \in Daemons : e # d => phase'[e] = phase[e]
  BY GoesTo
<1>2. QED
  BY <1>1, DatabaseIsLeft

LEMMA ReadVersionKeepsSchemas ==
    ASSUME SocketsHold, SchemasHold, NEW d \in Daemons, ReadVersion(d)
    PROVE  SchemasHold'
<1>1. db.version \in 0 .. Scripts
  BY DEF SchemasHold, Databases
<1>2. /\ found' \in [Daemons -> 0 .. Scripts]
      /\ found'[d] = db.version
      /\ \A e \in Daemons : e # d => found'[e] = found[e]
  BY <1>1 DEF SchemasHold, ReadVersion
<1>3. /\ phase'[d] = (IF FromTheFuture(d) THEN "from the future" ELSE "migrating")
      /\ \A e \in Daemons : e # d => phase'[e] = phase[e]
  BY DEF SocketsHold, ReadVersion, Goes
<1>4. db' = db /\ synced' = synced
  BY DEF ReadVersion
<1>5. phase'[d] = "migrating" => db.version <= Knows[d]
  <2>1. Knows[d] \in 0 .. Scripts
    BY StartingAssumption
  <2>2. phase'[d] = "migrating" => ~(db.version > Knows[d])
    BY <1>3 DEF FromTheFuture
  <2>3. QED
    BY <1>1, <2>1, <2>2, StartingAssumption
<1>6. \A e \in Daemons :
         phase'[e] = "migrating" => found'[e] = db'.version /\ db'.version <= Knows[e]
  BY <1>2, <1>3, <1>4, <1>5 DEF SchemasHold
<1>7. RunsOnItsSchema'
  BY <1>3, <1>4 DEF SchemasHold, RunsOnItsSchema
<1>8. NumberIsOfTheSchema'
  BY <1>4 DEF SchemasHold, NumberIsOfTheSchema
<1>9. QED
  BY <1>2, <1>4, <1>6, <1>7, <1>8 DEF SchemasHold

\* A migration takes the database to what the next script makes of it, and no
\* other daemon is there to have found it otherwise.
LEMMA MigrateKeepsSchemas ==
    ASSUME SocketsHold, SchemasHold, OneSocket, NEW d \in Daemons, Migrate(d)
    PROVE  SchemasHold'
<1>1. phase[d] = "migrating" /\ found[d] < Knows[d]
  BY DEF Migrate
<1>2. /\ found[d] = db.version /\ db.version \in 0 .. Scripts
      /\ db.tables = 1 .. db.version /\ Knows[d] \in 0 .. Scripts
  BY <1>1, StartingAssumption DEF SchemasHold, Databases, NumberIsOfTheSchema
<1>3. PICK n : n = found[d] + 1
  OBVIOUS
<1>4. n \in 1 .. Scripts /\ n <= Knows[d] /\ n \notin db.tables /\ n = db.version + 1
  BY <1>1, <1>2, <1>3, StartingAssumption
<1>5. /\ db' \in Commits(n)
      /\ synced' = synced \cup {db'}
      /\ found' = [found EXCEPT ![d] = n]
      /\ UNCHANGED phase
  BY <1>3, <1>4 DEF Migrate
<1>6. db' = [version |-> n, tables |-> 1 .. n]
  <2>1. db' = [version |-> n, tables |-> db.tables \cup {n}]
    BY <1>5 DEF Commits
  <2>2. db.tables \cup {n} = 1 .. n
    BY <1>2, <1>4
  <2>3. QED
    BY <2>1, <2>2
<1>7. db' \in Databases /\ synced' \subseteq Databases
  <2>1. 1 .. n \in SUBSET (1 .. Scripts)
    BY <1>4, StartingAssumption
  <2>2. db' \in Databases
    BY <1>4, <1>6, <2>1, StartingAssumption DEF Databases
  <2>3. QED
    BY <1>5, <2>2 DEF SchemasHold
<1>8. db'.version = n /\ db'.tables = 1 .. n
  BY <1>6
<1>9. NumberIsOfTheSchema'
  BY <1>5, <1>8 DEF SchemasHold, NumberIsOfTheSchema
<1>10. \A e \in Daemons : phase[e] \in {"migrating", "running"} => e = d
  BY <1>1, AloneAtTheDatabase DEF Listens
<1>11. RunsOnItsSchema'
  BY <1>1, <1>5, <1>10 DEF RunsOnItsSchema
<1>12. found' \in [Daemons -> 0 .. Scripts] /\ found'[d] = n
  BY <1>4, <1>5, StartingAssumption DEF SchemasHold
<1>13. \A e \in Daemons :
          phase'[e] = "migrating" => found'[e] = db'.version /\ db'.version <= Knows[e]
  BY <1>4, <1>5, <1>8, <1>10, <1>12
<1>14. QED
  BY <1>7, <1>9, <1>11, <1>12, <1>13 DEF SchemasHold

LEMMA RunKeepsSchemas ==
    ASSUME SocketsHold, SchemasHold, NEW d \in Daemons, Run(d)
    PROVE  SchemasHold'
<1>1. db.version = Knows[d]
  BY StartingAssumption DEF Run, SchemasHold, Databases
<1>2. /\ phase'[d] = "running"
      /\ \A e \in Daemons : e # d => phase'[e] = phase[e]
  BY DEF SocketsHold, Run, Goes
<1>3. UNCHANGED <<db, synced, found>>
  BY DEF Run
<1>4. RunsOnItsSchema'
  BY <1>1, <1>2, <1>3 DEF SchemasHold, RunsOnItsSchema
<1>5. QED
  BY <1>2, <1>3, <1>4 DEF SchemasHold, NumberIsOfTheSchema

LEMMA StepsKeepSchemas ==
    ASSUME SocketsHold, SchemasHold, OneSocket, NEW d \in Daemons, Steps(d)
    PROVE  SchemasHold'
<1>1. CASE Start(d) \/ Listen(d) \/ End(d)
  BY <1>1, GoesElsewhere DEF Start, Listen, End, Over, Binding, Listens
<1>2. CASE Look(d)
  <2>1. PICK to \in {"binding", "trying"} : Goes(d, to)
    BY <1>2 DEF Look
  <2>2. QED
    BY <1>2, <2>1, GoesElsewhere DEF Look, Binding
<1>3. CASE Try(d)
  <2>1. PICK to \in {"in use", "removing"} : Goes(d, to)
    BY <1>3 DEF Try
  <2>2. QED
    BY <1>3, <2>1, GoesElsewhere DEF Try, Over, Binding
<1>4. CASE Remove(d)
  <2>1. PICK to \in {"failed", "binding"} : Goes(d, to)
    BY <1>4 DEF Remove
  <2>2. QED
    BY <1>4, <2>1, GoesElsewhere DEF Remove, Over, Binding
<1>5. CASE Bind(d)
  <2>1. PICK to \in {"bound", "failed"} : Goes(d, to)
    BY <1>5 DEF Bind
  <2>2. QED
    BY <1>5, <2>1, GoesElsewhere DEF Bind, Over, Binding
<1>6. CASE ReadVersion(d)
  BY <1>6, ReadVersionKeepsSchemas
<1>7. CASE Migrate(d)
  BY <1>7, MigrateKeepsSchemas
<1>8. CASE Run(d)
  BY <1>8, RunKeepsSchemas
<1>9. QED
  BY <1>1, <1>2, <1>3, <1>4, <1>5, <1>6, <1>7, <1>8 DEF Steps

LEMMA NextKeepsSchemas ==
    ASSUME SocketsHold, SchemasHold, OneSocket, [Next]_vars
    PROVE  SchemasHold'
<1>1. CASE \E d \in Daemons : Steps(d)
  BY <1>1, StepsKeepSchemas
<1>2. CASE Checkpoint
  BY <1>2 DEF Checkpoint, SchemasHold, NumberIsOfTheSchema, RunsOnItsSchema
<1>3. CASE PowerFails
  BY <1>3 DEF PowerFails, SchemasHold, NumberIsOfTheSchema, RunsOnItsSchema
<1>4. CASE UNCHANGED vars
  BY <1>4, DatabaseIsLeft DEF vars
<1>5. QED
  BY <1>1, <1>2, <1>3, <1>4 DEF Next

LEMMA SchemasAlwaysHold ==
    ASSUME ~AtOnce, OneSocket
    PROVE  Spec => []SchemasHold
<1>1. SocketsHold /\ SchemasHold /\ [Next]_vars => SchemasHold'
  BY NextKeepsSchemas
<1>2. QED
  BY <1>1, InitSchemas, SocketsAlwaysHold, PTL DEF Spec

\* Where all work out one socket, and are started one after another, the
\* database holds what the first user_version scripts make, through processes
\* that end between two of them and power that fails (NumberIsOfTheSchema).
THEOREM VersionOfTheSchema ==
    ASSUME ~AtOnce, OneSocket
    PROVE  Spec => []NumberIsOfTheSchema
<1>1. SchemasHold => NumberIsOfTheSchema
  BY DEF SchemasHold
<1>2. QED
  BY <1>1, SchemasAlwaysHold, PTL

\* And a daemon whose tasks run does so on the schema of its build
\* (RunsOnItsSchema).
THEOREM SchemaOfTheBuild ==
    ASSUME ~AtOnce, OneSocket
    PROVE  Spec => []RunsOnItsSchema
<1>1. SchemasHold => RunsOnItsSchema
  BY DEF SchemasHold
<1>2. QED
  BY <1>1, SchemasAlwaysHold, PTL
-----------------------------------------------------------------------------
(***************************************************************************)
(* The supervisor of the process that is started: what SupervisorProofs    *)
(* shows of every step is shown of both its instances here, the one task   *)
(* that is left and all of them under shorter limits.                      *)
(***************************************************************************)
One == INSTANCE SupervisorProofs WITH phase <- attempt

All == INSTANCE SupervisorProofs WITH phase <- attempt,
          Late <- 0, Progress <- ShortProgress, Stops <- ShortStops,
          MaxAge <- ShortAge, MaxFaults <- FewFaults, Ceiling <- Base

\* The limits of either instance are limits of a supervisor.
LEMMA LimitsHold ==
    /\ One!SupervisorAssumption /\ One!DoublingAssumption
    /\ All!SupervisorAssumption /\ All!DoublingAssumption
BY SupervisorAssumption, DoublingAssumption, ShortAssumption
   DEF One!SupervisorAssumption, One!DoublingAssumption,
       All!SupervisorAssumption, All!DoublingAssumption

\* What is counted of a task is counted within the limits of its instance.
TasksInv ==
    /\ tasks \in {"one", "all"}
    /\ tasks = "one" => One!RunInv /\ One!RowInv
    /\ tasks = "all" => All!RunInv /\ All!RowInv

LEMMA InitTasks ==
    ASSUME MCInit
    PROVE  TasksInv
<1>1. S!MCInit
  BY DEF MCInit
<1>2. tasks \in {"one", "all"}
  BY <1>1 DEF S!MCInit
<1>3. One!NothingBegun
  BY <1>1 DEF S!MCInit, One!NothingBegun
<1>4. All!NothingBegun
  BY <1>1 DEF S!MCInit, All!NothingBegun
<1>5. One!RunInv /\ One!RowInv
  BY <1>3, LimitsHold, One!NothingIsCounted, One!NothingInARow
<1>6. All!RunInv /\ All!RowInv
  BY <1>4, LimitsHold, All!NothingIsCounted, All!NothingInARow
<1>7. QED
  BY <1>2, <1>5, <1>6 DEF TasksInv

\* A step of a supervisor is one, by whichever of its names.
LEMMA StepsOfOne ==
    ASSUME S!Next
    PROVE  One!Next
BY DEF S!Running, One!Running, S!Aging, One!Aging, S!HasBegun, One!HasBegun,
       S!Less, One!Less, S!Least, One!Least, S!NotRun, One!NotRun, S!OffNow, One!OffNow,
       S!RunSeen, One!RunSeen, S!Worked, One!Worked, S!SurelyWorked, One!SurelyWorked,
       S!MayHaveWorked, One!MayHaveWorked, S!Backoff, One!Backoff,
       S!PanicsSoFar, One!PanicsSoFar, S!FaultsSoFar, One!FaultsSoFar,
       S!OffAfter, One!OffAfter, S!Deal, One!Deal, S!attemptVars, One!attemptVars,
       S!countVars, One!countVars, S!runVars, One!runVars, S!clockVars, One!clockVars,
       S!vars, One!vars, S!Tick, One!Tick, S!Stop, One!Stop, S!Begin, One!Begin,
       S!End, One!End, S!Stopped, One!Stopped, S!Retried, One!Retried,
       S!Restarted, One!Restarted, S!GivenUp, One!GivenUp, S!Join, One!Join,
       S!Wake, One!Wake, S!Returned, One!Returned, S!Next, One!Next

LEMMA StepsOfAll ==
    ASSUME S!W!Next
    PROVE  All!Next
BY DEF S!W!Running, All!Running, S!W!Aging, All!Aging, S!W!HasBegun, All!HasBegun,
       S!W!Less, All!Less, S!W!Least, All!Least, S!W!NotRun, All!NotRun,
       S!W!OffNow, All!OffNow, S!W!RunSeen, All!RunSeen, S!W!Worked, All!Worked,
       S!W!SurelyWorked, All!SurelyWorked, S!W!MayHaveWorked, All!MayHaveWorked,
       S!W!Backoff, All!Backoff, S!W!PanicsSoFar, All!PanicsSoFar,
       S!W!FaultsSoFar, All!FaultsSoFar, S!W!OffAfter, All!OffAfter, S!W!Deal, All!Deal,
       S!W!attemptVars, All!attemptVars, S!W!countVars, All!countVars,
       S!W!runVars, All!runVars, S!W!clockVars, All!clockVars, S!W!vars, All!vars,
       S!W!Tick, All!Tick, S!W!Stop, All!Stop, S!W!Begin, All!Begin, S!W!End, All!End,
       S!W!Stopped, All!Stopped, S!W!Retried, All!Retried, S!W!Restarted, All!Restarted,
       S!W!GivenUp, All!GivenUp, S!W!Join, All!Join, S!W!Wake, All!Wake,
       S!W!Returned, All!Returned, S!W!Next, All!Next

\* And so is what it says of what it sees.
LEMMA WhatIsSeen ==
    /\ One!EveryRunIsSeen => S!EveryRunIsSeen
    /\ One!PanicsInARow => S!PanicsInARow
    /\ All!EveryRunIsSeen => S!W!EveryRunIsSeen
    /\ All!PanicsInARow => S!PanicsInARow
<1>1. One!EveryRunIsSeen => S!EveryRunIsSeen
  BY DEF S!HasBegun, One!HasBegun, S!Less, One!Less, S!Least, One!Least,
         S!NotRun, One!NotRun, S!OffNow, One!OffNow, S!RunSeen, One!RunSeen,
         S!EveryRunIsSeen, One!EveryRunIsSeen
<1>2. All!EveryRunIsSeen => S!W!EveryRunIsSeen
  BY DEF S!W!HasBegun, All!HasBegun, S!W!Less, All!Less, S!W!Least, All!Least,
         S!W!NotRun, All!NotRun, S!W!OffNow, All!OffNow, S!W!RunSeen, All!RunSeen,
         S!W!EveryRunIsSeen, All!EveryRunIsSeen
<1>3. /\ One!PanicsInARow => S!PanicsInARow
      /\ All!PanicsInARow => S!PanicsInARow
  BY DEF S!PanicsInARow, One!PanicsInARow, All!PanicsInARow
<1>4. QED
  BY <1>1, <1>2, <1>3

LEMMA NextKeepsTasks ==
    ASSUME TasksInv, [MCNext]_<<part, vars, tasksAll>>
    PROVE  TasksInv'
<1>1. ASSUME tasks' = tasks,
             tasks = "one" => [One!Next]_(One!vars),
             tasks = "all" => [All!Next]_(All!vars)
      PROVE  TasksInv'
  <2>1. CASE tasks = "one"
    <3>1. One!RunInv /\ One!RowInv /\ [One!Next]_(One!vars)
      BY <1>1, <2>1 DEF TasksInv
    <3>2. One!RunInv' /\ One!RowInv'
      BY <3>1, LimitsHold, One!CountsKept
    <3>3. QED
      BY <1>1, <2>1, <3>2 DEF TasksInv
  <2>2. CASE tasks = "all"
    <3>1. All!RunInv /\ All!RowInv /\ [All!Next]_(All!vars)
      BY <1>1, <2>2 DEF TasksInv
    <3>2. All!RunInv' /\ All!RowInv'
      BY <3>1, LimitsHold, All!CountsKept
    <3>3. QED
      BY <1>1, <2>2, <3>2 DEF TasksInv
  <2>3. QED
    BY <2>1, <2>2 DEF TasksInv
<1>2. ASSUME UNCHANGED tasksAll
      PROVE  TasksInv'
  <2>1. UNCHANGED One!vars /\ UNCHANGED All!vars
    BY <1>2 DEF tasksAll, One!vars, One!attemptVars, One!countVars, One!runVars, One!clockVars,
                All!vars, All!attemptVars, All!countVars, All!runVars, All!clockVars
  <2>2. QED
    BY <1>1, <1>2, <2>1 DEF tasksAll
<1>3. CASE DaemonStep
  BY <1>2, <1>3 DEF DaemonStep
<1>4. CASE TaskStep
  <2>1. \/ tasks = "one" /\ S!Next /\ tasks' = tasks
        \/ tasks = "all" /\ S!W!Next /\ tasks' = tasks
    BY <1>4 DEF TaskStep, S!MCNext, S!One, S!All
  <2>2. QED
    BY <1>1, <2>1, StepsOfOne, StepsOfAll
<1>5. QED
  BY <1>2, <1>3, <1>4 DEF MCNext

LEMMA TasksAlwaysHold == MCSpec => []TasksInv
<1>1. TasksInv /\ [MCNext]_<<part, vars, tasksAll>> => TasksInv'
  BY NextKeepsTasks
<1>2. QED
  BY <1>1, InitTasks, PTL DEF MCSpec

\* In the process that is started as well, what the supervisor counts of a run is
\* what the attempt ran, within what goes unseen of a stop and what a wake is
\* late by (EveryRunIsSeen).
THEOREM RunsOfTheProcess == MCSpec => []EveryRunIsSeen
<1>1. TasksInv => EveryRunIsSeen
  <2>1. ASSUME TasksInv
        PROVE  S!RunsAreSeen
    <3>1. CASE tasks = "one"
      <4>1. One!EveryRunIsSeen
        BY <2>1, <3>1, LimitsHold, One!CountedIsSeen DEF TasksInv
      <4>2. QED
        BY <3>1, <4>1, WhatIsSeen DEF S!RunsAreSeen
    <3>2. CASE tasks = "all"
      <4>1. All!EveryRunIsSeen
        BY <2>1, <3>2, LimitsHold, All!CountedIsSeen DEF TasksInv
      <4>2. QED
        BY <3>2, <4>1, WhatIsSeen DEF S!RunsAreSeen
    <3>3. QED
      BY <2>1, <3>1, <3>2 DEF TasksInv
  <2>2. QED
    BY <2>1 DEF EveryRunIsSeen
<1>2. QED
  BY <1>1, TasksAlwaysHold, PTL

\* And a task of it is given up on for a row of panics as long as RESTART_LIMIT
\* allows and one more, no shorter and no longer (PanicsInARow).
THEOREM PanicsOfTheProcess == MCSpec => []PanicsInARow
<1>1. TasksInv => S!PanicsInARow
  <2>1. TasksInv => One!PanicsInARow \/ All!PanicsInARow
    BY DEF TasksInv, One!RowInv, All!RowInv
  <2>2. QED
    BY <2>1, WhatIsSeen
<1>2. TasksInv => PanicsInARow
  BY <1>1 DEF PanicsInARow
<1>3. QED
  BY <1>2, TasksAlwaysHold, PTL
=============================================================================
