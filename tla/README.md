# benshi: a TLA+ verification project

`benshi` is a daemon that watches the media players of a desktop, recognises
which episode a player has open, counts how much of it was played, and records
an episode as seen when enough of it was. This directory models the parts of
it in which state is kept, TLC checks them on small instances, and TLAPS proves
the properties that matter most for every instance.

## Contents

 1. Inventory of the system
 2. Modules, and how they correspond to the code
 3. What the runs check
 4. Bounds, and why they are enough
 5. Fairness
 6. What is proved
 7. What is only model-checked, and what is not modelled
 8. Plan

All paths are relative to `crates/` of the repository.

## 1. Inventory of the system

| component | state it keeps | operations | hard behaviour | what makes it correct |
|---|---|---|---|---|
| session (`core/src/session.rs`) | the sittings that are open, who counts into each, what was asked | `advance`, `resumed`, `end_round` | interleaved readings of several players; an answer that comes later; a player that leaves without a word | time is counted once; a total only grows; an episode registers once a viewing; a player is in one sitting |
| timeline and policy (`core/src/timeline.rs`) | the reading before, what the position owes | `advance`, `counts_as_watched` | gaps, seeks, stalls, lengths that lie | what was not seen is not counted; a seek is not playback |
| detection task (`daemon/src/detection.rs`) | the session, who was heard | `round`, `carry_out` | an awaited call at every step, any of which may fail; players that fail to answer | the store and the session agree whatever stops the task |
| store of viewings (`store/src/watching.rs`, `record.rs`) | tables `watching`, `episodes_seen`, `sync_queue` | `keep`, `resume`, `record`, `close` | a process killed between two calls | the last viewing is never forgotten, and counts once |
| operation log and places in it (`store/src/queue.rs`, `delivery.rs`) | `sync_queue`, `cursors`, `decided`, `set_aside` | `enqueue`, `pending`, `decide`, `delivered`, `set_aside` | an answer that is lost and a write that is sent again | each operation is delivered or set aside, in order, as it was decided |
| list in the store (`store/src/list.rs`, `names.rs`, `assignments.rs`, `pins.rs`) | shows, entries, names, assignments, pins | `file`, `unlisted`, `assign`, `pin` | entries that leave and come back | a show keeps its identity and its names |
| list's task (`daemon/src/listing.rs`) | when the next reading is due | `run`, `read`, `filed` | misses, logins and failures racing a due reading | a failing service is not hurried, and a reading always comes again |
| names given by the user (`daemon/src/mapping.rs`) | none; the store and the recognizer in place | `map`, `unmap`, `pin`, `unpin` | two writers of the recognizer | the recognizer in place is of what the store holds |
| supervisor (`daemon/src/supervisor.rs`) | panics and faults in a row of each task | `run` | tasks that wait, a process that does not run | a panicking task stops after five in a row; a failing one is tried for ever, with growing waits |
| event bus, socket, voice (`daemon/src/bus.rs`, `ipc.rs`, `voice.rs`) | subscribers, a bound socket, lines not written | `publish`, `bind`, `say` | slow readers, two daemons at once | nobody who speaks waits; one daemon has the socket |
| lengths and connections (`detect/src/length.rs`, `kodi.rs`, `mpris.rs`, `both.rs`) | lengths read, a connection held | `poll`, `of`, `keep_only` | reads that outlive their deadline | no file is read twice at once, no late answer is taken for another |
| migrations (`store/src/migrate.rs`) | the schema's number | `apply` | a process killed between two | the number is of the last migration applied |
| process (`benshi/src/main.rs`) | none | start, stop | the order of starting, the patience of a stop | a second daemon touches nothing of the first |
| recognition (`core/src/recognize`) | none; the list that is filed, the names given, the shows kept | `parse`, `read_file`, `decide` | a name read in several ways, each asked of several stages | a name given takes its files and no others; no file is answered as of another season |
| settling, resolving, planning (`core/src/settle.rs`, `sync/src`) | none | pure functions | edges of ranges | agree with a definition |

The daemon runs three tasks under the supervisor: detection, the socket and
the list's task. They share the store behind one mutex, held on a blocking
thread for one call each, the recognizer in place, and two wake-ups. Inside
the detection task nothing runs concurrently, and its difficulty is elsewhere:
every step awaits, the players are not synchronised with each other or with
it, and the process may end between any two calls into the store.

## 2. Modules, and how they correspond to the code

| module | models | kind |
|---|---|---|
| `Readings` | readings, effects and answers that the parts exchange | definitions |
| `Session` | `core/src/session.rs`, with the part of `timeline.rs` it depends on | state and operations |
| `WatchStore` | `store/src/watching.rs`, `record.rs` | state and operations |
| `Detection` | `daemon/src/detection.rs`: composes `Session` and `WatchStore` | specification and properties |
| `Ledger` | what the program promises of an episode | abstract specification |
| `Timeline` | `core/src/timeline.rs`, whole, beside a player | specification and properties |
| `Places` | `store/src/queue.rs`, `delivery.rs` | state and operations |
| `Resolving` | `sync/src/relations.rs`, `resolve.rs`, `core/src/pin.rs` | operators |
| `Planning` | `sync/src/plan.rs` | operators |
| `Delivery` | `daemon/src/delivery.rs`: composes `Places`, `Resolving` and `Planning` with a sender and a service | specification and properties |
| `Outbox` | what the log promises a backend | abstract specification |
| `Settling` | `core/src/settle.rs`, `Named::by` of `session.rs`, `duration_of` of `timeline.rs` | specification and property |
| `AniList` | `sync/src/anilist/mod.rs` | specification and properties |
| `ListStore` | `store/src/list.rs`, `names.rs`, `assignments.rs`, `pins.rs` | state and operations |
| `Naming` | `daemon/src/mapping.rs`, `Reader::filed` of `listing.rs`, the place of `recognition.rs`: composes with `ListStore` | specification and properties |
| `Listing` | `Reader::run` and `read` of `daemon/src/listing.rs`, `Wakes`, the logins of `ipc.rs` and `accounts.rs` | specification and properties |
| `Supervisor`, `SupervisorLimits` | `daemon/src/supervisor.rs`; its constants apart | specification and properties |
| `Starting` | `bind` of `daemon/src/ipc.rs`, `Store::open`, `store/src/migrate.rs`, the order of `serve` in `benshi/src/main.rs` | specification and properties |
| `Voice` | `daemon/src/voice.rs`, `panics.rs`, the end of `benshi/src/main.rs` | specification and properties |
| `Streams` | `daemon/src/bus.rs`, `stream_events` of `ipc.rs` | specification and properties |
| `Account` | what `Voice` and `Streams` promise who reads them | abstract specification |
| `Lengths` | `detect/src/length.rs`, with the rounds of `mpris.rs` and the restarts of `daemon/src/lib.rs` | specification and properties |
| `Kodi` | the connection of `detect/src/kodi.rs` | specification and properties |
| `Parsing` | `core/src/recognize/parse.rs`, `normalize.rs` | operators |
| `Recognizing` | the rest of `core/src/recognize`, `unlisted` of `daemon/src/detection.rs` | specification and properties |
| `MCDetection`, `MCDelivery`, `MCNaming`, `MCRecognizing` | instances of the module of that name for TLC | models |
| `MCListing` | instances of `Listing` and of `AniList`, one at a time | model |
| `MCProcess`, `MCSupervisor` | instances of `Starting` and of `Supervisor`, one at a time; those of the second are in `MCSupervisor` | models |
| `MCResolving` | every small input of `Resolving`, and the reference it is checked against; an instance of it is in `MCDelivery`, beside one of `Settling` | model |
| `MCEdges` | instances of `Voice`, `Streams`, `Lengths`, `Kodi` and `Timeline` for TLC, one at a time | model |
| `DetectionProofs` | the theorems about `Detection`, with the lemmas about `Session` and `WatchStore` they rest on, and that it implements `Ledger` | proofs |
| `DeliveryProofs` | those about `Delivery`, `Resolving` and `Settling` | proofs |
| `NamingProofs`, `RecognizingProofs`, `SupervisorProofs` | those about the module of that name | proofs |
| `ListingProofs` | those about `Listing` and `AniList` | proofs |
| `StartingProofs` | those about `Starting`, and about both supervisors of `MCProcess`, of which `SupervisorProofs` is instantiated twice | proofs |
| `EdgesProofs` | those about `Voice`, `Streams`, `Lengths`, `Kodi` and `Timeline` | proofs |

**Session.** `sittings[e]` is the `Sitting` of episode `e`, `Over` where
`Session::sittings` holds none. The stages `asked`, `opening`, `counting` and
`registered` are `Count::Asked` and the three variants of `Stage`. A player's
entry is a `Held` reading while the sitting is asked and a `Counted` afterwards.
`Continue`, `Depart`, `Join` and `Begin` are the paths of `Session::advance`;
each is the whole handler. `Read` and `Answer` are `Sitting::read`: what becomes
of the sitting and what is answered. The order of `Session::sittings` is the
order of the questions, so `EndRound` closes in that order.

Of a position the session asks only whether it is under `NEAR_THE_START`
(`near`) and whether it broke with the one before (`sought`). Both are chosen
freely for every reading, which is a superset of what `Timeline::broke_between`
answers. `PlayState::Paused` and `Stopped` are both `playing = FALSE`; the code
tells them apart only in judging a seek, which `sought` leaves open.

**WatchStore.** `row[e]` and `total[e]` are the row of `watching`, `seen[e]` the
number of rows in `episodes_seen`. Each operation is one transaction. `keep`
stores whole milliseconds, so `StoreKeep` divides by `Grain`, the number of
ticks of a millisecond, and `KeptOf` multiplies: what is read back is less than
what was kept.

**Detection.** `Poll` is `PlayerWatcher::poll` and the policy's answer; `Take`
is one turn of the loop over the readings, up to the first call that carries an
effect out; each effect is an action of its own because `carry_out` awaits
between them; `FinishRound` ends the round. A player is *admitted* (its reading
is taken), *mute* (it failed to answer or was read without a description) or
silent (not listed, nothing open, or denied by policy: the three are the same
to the session). `TaskFails` is a transient error or a panic, `StoreRefuses` a
permanent error, which leaves the task stopped, `DaemonDies` a process that is
killed. All three lose the session and the effects that were left. A store
poisoned by a panic makes the restarted task panic again at its first call;
that is one more `TaskFails`.

`clock`, `last` and `vouched` are history: no action of the code reads them but
`at`, the stamp of a reading. `vouched[e]` is the set of ticks some reading says
were played of `e` since `e` was last recorded.

**Ledger.** Of each episode the last viewing (`Nothing`, `Watching` so much, or
`Registered`) and how often it was recorded. `Watch` may only raise a total, or
begin another viewing with its first seconds at least; `Register` needs a total
that is enough. `Detection` implements it under
`viewing <- [e \in Episodes |-> KeptOf(e)], times <- seen`.

**Timeline.** `timeline` is the state of `Timeline`: the total, the reading
before, what the position owes after a stall, and what is open. `Advance` is the
whole of `Timeline::advance`, `Judged` its `broke_between`. Beside it stands the
player that is read: it plays a tick at a time, is paused, started, sought and
given another file, and at any time `Reads` reports its position, none, or the
one it showed before, as a player that reports late does. It lags only within
what is observed: over a longer gap every answer would be as good as another.
In `PlayIsJudged`, `PauseCosts` says that the total is, but for one reading at each pause and each
start, what was played between readings; `SeeksAreJumps` that what is answered as
a seek was one, and that one which is far enough is answered so.

**Places.** `cursor`, `decided` and `aside` are the tables of `delivery.rs`, the
log that of `queue.rs`; `Enqueue`, `Decide`, `Delivered` and `SetAside` are one
transaction each, with the order in which they refuse, and the read is `IsNext`
with what is kept.

**Resolving and Planning.** `Redirect` goes through the rules of the file in
order, and a rule whose line ends in `!` takes the episodes of both its works.
`Resolve` asks the pins, then the rules, then the numbering: an episode past the
count of an entry, one numbered by the hundred as of a season, one of a later
season. `WritesNothing` and `After` are `plan`. `MCResolving` has every list of
two rules at most, with every count and episode in range, and checks `Redirect`
against the file in which each `!` is written out as a line of its own (rule `i`
has the lines `2i - 1` and `2i`), and `Resolve` against what the comments say of an entry's own episodes.

**Delivery.** Nothing in the repository sends yet. The sender is external, and
written from what `store/src/delivery.rs` and `sync/src/lib.rs` ask of one: it
takes an operation, decides its write and keeps it before it sends it, sends the
kept one again, and confirms or sets aside. The service is external too, and
does with a write what `sync/src/memory.rs` does: an entry is set to what the
write says, so a write that is sent again changes nothing. `sending[b]` is what
the sender has in its hands. `Arrives`, `Answered`, `AnswerIsLost` and
`WriteIsLost` are the network; a write that arrives after its answer was given up
is taken not to. `Rehearsed` is the fold of `delivery.rs` over the operations
ahead, each planned from what those before would leave (`Before`). `foretold` and
`changes` are history: what the last dry run said, which a filing of another list
takes back, and how often the sending of an operation changed the list.

**Outbox.** Each operation is ahead of a backend, delivered or set aside; those
ahead are taken in the order of the log. `Delivery` implements it with an
operation ahead while it is past the cursor.

**Settling.** One file stays open and is settled in every round. `Settled` is
`settle` with `choose`; `Named` is what a session takes of the answer. Which show a
name may be of, and whether a title of it carries the year, are chosen once.
`Learns` and `IsReleased` are the service, through a list that is filed again, and
`IsRead` another reading of the file. `was` is history: the show it was first
counted as of, forgotten where its length changes or a work comes out, since either
may lift a refusal. A fact that changes once it is known is left out.

**AniList.** `next` is the turn that `pace` hands out, kept as the time until it.
`TakesTurn` takes it before it sleeps, as the code does under its lock;
`IsRefused` puts the turns off by the wait that was asked for and a margin, by
the default wait where none was named. A list is read a chunk at a time
(`ChunkIsRead`), lists by status ahead of the user's own and each work once, and
a chunk that holds nothing and says more follow ends the reading as a failure. `IsDropped`
is a caller that is cancelled. `sinceSent`, `held` and `obliged` are history.
Turns that were taken before a refusal are not put off by it, which is why
`HoldIsKept` speaks of those taken after.

**ListStore.** `titles` is the table `shows`, numbered as they are filed,
`links` is `backend_ids`, `onList` and `spellings` are `list_entries`, `names`,
`assigned` and `pins` the tables of those names. A text is a member of `Names`
and has a key; `Plain` takes the marks from a key. `StoreFile` is the whole
transaction: the names of what departed are kept first, then entries that have
no show are given one and every listed show takes its entry's title. The order
of a list is left open: new shows may be numbered either way, and of two entries
that leave with one key either may have it.

**Naming.** The lock on the store is `pending`: a caller that wrote and has not
yet put its recognizer in place has one in `pending`, and `LockFree` is that
nobody does. A write and `Current::replace` are two steps, since rounds read the
place without the lock and the process may be killed between them. A recognizer
is what its corpus reaches from each key and the names in force. `Map` checks a
name as `Altnames::record` does and displaces every text of its key; `Unmap`
and `File` build the recognizer again; `Fails` is a read that fails after the
write, which `outdated` remembers until a recognizer is put in place. A round
takes the recognizer in place (`BeginRound`, whose `refused` are the keys it
reaches nothing from) and may file the names it refuses (`Unrecognized`) long
after another was put there. An entry found by its score instead, for such a
key, is a file that is not filed as unlisted, so it changes nothing and is no
step. `Pin` finds its show by its title, then by the title's key, and looks at
the first pin that overlaps, which is any of them.

**Parsing and Recognizing.** A text is the set of its words, the season it spells,
the numeral that ends it and the marks after its last letter; how these are read
of its characters is data. `anitomy-ng`, the parser that cuts a name into elements,
is external: a name is the sequence of what it reports, each element with its text,
its number and what parts it from the one before. `Parse` is `parse` with every
reading it keeps: the title read on through a number (`TitleWithNumber`), the
episode that begins a name (`EpisodeFirst`), the name read whole (`Whole`), the type
(`ReleaseKind`) and the words that are compared (`WithoutTheRelease`). `FromTitle`
and `FromParsed` are the two ways to a key, which differ in what a numeral is where
the parse holds a season. `ByAltname`, `ByKey` and `ByScore` are the stages, `Decide`
asks them in turn, `Read` asks them of each reading, and `ByDirectory` of the
directories above. Scores are compared as fractions; where two differ by the margin
to the word, `FarEnough` says what the floating point numbers of the code do. What
changes is the list, the names given (`Name`, `Forget`: what is in force is worked
out anew for every list) and the shows that refused names are kept as (`Keep`). How
the recognizer comes to be put in place, and when a round sees it, is in `Naming`,
where a key is a value.

**Listing.** The variables of `Reader::run` are `outcome`, `wait`, `due`, `since`
(its `last`) and `said`; an instant is kept as the time until it or since it.
`doing` is where the task stands: in the `select!`, at the token, or at the list.
`WokenByLogin`, `WokenByTime` and `WokenByMiss` are the branches of the `select!`,
any of which may be taken where several are ready. `FindsNoToken`,
`IsGivenNoToken` (the secret store fails), `FindsToken`, `GoesThrough`, `IsRefused`,
`IsNotKept`, `Fails` and `IsAskedToWait` are the arms of `read`
together with what `run` makes of them; `TaskRestarts` is a panic while the list
is filed, after which the supervisor calls `run` again. A failure is the whole
reason that `tell` compares: what failed, and why. Where AniList asks for a wait,
the wait is in the reason (`Error::Wait` says it), so another one is said again; the
wait the task takes by itself is in the line and not in the reason, so it is not. `missed` and `loggedIn`
are the permits of the two `Notify` of `Wakes`. A login keeps its token and
wakes the task in two steps (`KeepsToken`, `WakesTask`), since a reading may end
between them. Tokens are numbered as they are kept. `rest`, `failures`, `asked`,
`forLogin`, `failure`, `told`, `stranded` and `excused` are history. `ConnectionsDrop` is the
socket's task failing or panicking: its set of connections is dropped, and a
login that was about to wake the task never does. `NewTokenIsTried` says so, by
excepting the token that was `stranded`. Left out: a token given by the
environment. What a filing does is in `Naming`.

**Supervisor.** The state of a `Supervised` task is `panics`, `faults`, `age`
(the time since `working_since`), `off` (`not_run_for`), and `phase` with
`outcome` for its handle and `stopped_by`. `idle` is the time since `woke`,
`tickIn` the time until the ticker is due. `Tick` is a unit of time in which the
process runs; `Stop(d)` is `d` units in which it is suspended and the clock goes
on, which is the case `WAKE`, `LATE` and `account_for_a_stop` are for. `Wake` is
the ticker's branch of the `select!`; `Stopped`, `Retried`, `Restarted` and
`GivenUp` are the branches of a joined handle, and what they share is `Deal`.
The attempt's side is `Begin` (its wait is over and it sets `working_since`) and
`End`. Two assumptions of timing are in the guard of `Tick`: an attempt that
ended is dealt with before the process runs on, and the ticker's branch is taken
no more than `LATE` of running time after it is due. The code measures `LATE` as
the jitter of a timer and takes it for that. `ran`, `stops`, `atMost` and
`atLeast` are history, what an observer with a stopwatch would say.

**Starting.** `phase[d]` is how far a daemon is. `bind` looks whether there is a
file at its path, tries it, removes one that nobody listens on, binds, and
listens: five steps, between which others may run. Then the store is opened:
`ReadVersion` refuses a database of a later build, `Migrate` is one script with
its number in one transaction, `Run` starts the tasks. A daemon may end at any
step, and its socket's file stays. `synced` are the commits that power which
fails may leave the database at, since the log is synchronised at checkpoints
only; `Checkpoint` leaves the last alone, and `PowerFails` ends every daemon. A
database is its number and the scripts it holds the tables of. `AtOnce` is
whether a daemon may be started while another is on its way to listen; only
`starting_at_once` lets it, and the other run and the theorems are of daemons started
one after another.

**Account, Voice and Streams.** What is said is numbered, and each number is
accounted for in order: as itself, or in a count that stands where it would have
stood, and nothing is missed by a reader no further behind than `Held`. `Voice`
has the lines, the thread that writes them in its two steps (taken under the
lock, written without it), the threads of the tasks, the panic hook that takes
hold of the voice and writes for itself where it must not wait, and the main
thread as it says its last words, lets go, joins the writer and gives up when its
patience ends. `Streams` has one client of the bus, from its request to watch to
the end of its connection, over the channel of the runtime, which is external and
does what it documents. Both implement `Account`.

**Lengths.** `looks` is `Lengths::looks`, `asks` where each source is in the
round, `threads` the threads that read, each of a file and for a watcher. A
thread outlives the round that gave it up and may end at any time or panic;
`EndsRound` is `keep_only`, and `Restarts` a watcher that is built again, which
has no lengths while the threads of the one before go on. A length is the number
of the writing it was read from, so that a stale one can be told.

**Kodi.** `conn` is both ends of a connection, with what was asked and what has
arrived; `call` is the call a reading is at. Kodi answers late or never, sends
notifications between, quits and is started again. An answer is taken by its
number (`Takes`), others are passed over, a call that failed on a held connection
is tried once more on another, and a reading that is cut off drops the connection.

**MCEdges, MCListing, MCProcess.** What these instantiate shares nothing, so a
behaviour is of one `part` from its first state, and the others stand still.

Definitions headed "A mutant" are plausible wrong versions of the definition
after them. No specification uses them.

## 3. What the runs check

| run | specification | properties | what it shows |
|---|---|---|---|
| `two_players` | `FairSpec` of `Detection` | `SittingsFollowReadings`, `CountedOnce`, `EveningEnds` | however two players take turns at one episode, with stamps that disagree and a task that fails anywhere, the time is counted once, and every sitting ends after the players are closed |
| `seasons` | `Spec` | `StoreAgrees`, `RecordedOnEnough`, `LedgerSpec` | crashes between any two calls leave the store agreeing with what was counted; the ledger is implemented |
| `smooth` | `SmoothSpec` | `MarkIsOpen` | players that trade episodes within a round leave no mark that outlives its sitting |
| `delivery` | `MCSpec` of `MCDelivery` | `ChangedOnce`, `DecidedIsOpen`, `ForetoldIsSent`, `OutboxSpec`; `ResolvedAsWritten`; `NeverOfAnother` | whatever is lost, an operation changes the list once, as the dry run said; the log is an outbox. Apart from that, what the relations file and the numbering say of every small input; and a file of several shows of one title is never counted as of one and then of another while facts are learned |
| `naming` | `Spec` of `Naming` | `PinsApart`, `InPlaceIsOfTheStore`, `OneNameOfAKey`, `NoNameTakesAnEntry`, `IdentityStays` | lists filed, names and pins given and taken back, files of no entry and a killed process in any order: the recognizer in place is of what the store holds, a show stays what it is, and an episode is of one pin |
| `listing` | `MCSpec` of `MCListing` | `NewTokenIsTried`, `LeftAlone`, `SaidOnce`, `TaskReadsAgain`; `HoldIsKept`, `SentApart`, `ReadingEnds` | names missed at any time, failures of every kind and logins in the middle of a reading: a failing service is left alone, a failure is said once until it changes, with the wait AniList asks for, and a login answered, a new token is tried, and a reading comes again. Apart from that, two callers of AniList that are refused, fail and are dropped: requests are the pace apart, a wait that was asked for is waited out, and a reading ends |
| `process` | `MCSpec` of `MCProcess` | `EachIsReachable`, `NumberIsOfTheSchema`, `RunsOnItsSchema`; `EveryRunIsSeen`, `PanicsInARow`, `EndedIsDealtWith` | daemons of two builds, started one after another, killed at any step and losing power: who listens can be reached, and the version says what the schema is. Apart from that, whenever the process sleeps, a run of one task or of each of two is counted within what `WAKE` and `LATE` allow, panics in a row are those an observer would count, and an attempt that ended is dealt with |
| `starting_at_once` | `MCSpec` of `MCProcess`, the start alone | `NumberIsOfTheSchema` is violated | two daemons started at once both come past `bind`: the second takes the version back |
| `edges` | `MCSpec` of `MCEdges` | `LastWordsAreWritten`, `HooksWaitForNobody`, `VoiceGoes`; `NothingGoesUntold` (`Voice` and `Streams` implement `Account`); `ReadAgainNeverTwice`; `HeldDoesNoHarm`; `PlayIsJudged` (`PauseCosts` and `SeeksAreJumps`) | what is said is written or counted, and the process ends; a slow client is told what it missed; a watcher reads no file twice and no stale length; a held connection costs no reading; what was played is counted and jumps alone are seeks |
| `edges_restarted` | `MCSpec` of `MCEdges`, the lengths alone | `OneThreadOfAFile` is violated | a restart of detection has a second thread read a file that hangs |
| `recognizing` | `Spec` of `Recognizing` | `NamesAreExact`, `SeasonKept` | whatever the list holds and the user names, a name takes the files of its key and no others, however else they can be read, and what the list answers is of the season the file spells |
| `kept_titles` | `Spec` of `Recognizing` | `KeptApart` is violated | a numeral with a first season beside it is kept under the title that the numeral alone is kept under |

`MarkIsOpen` is checked without failures because the code does not promise it
with: a process that is killed closes nothing and leaves its mark
(`store/src/watching.rs`, module comment). `LedgerSpec` shows that the mark left
behind does no harm.

Three runs find the code at odds with what it says of itself.

* `starting_at_once`. `bind` looks at its socket, tries it, removes it and binds
  in steps, and a socket that is bound and not yet listened on refuses the try as
  a stale one does. Two daemons started at once over a socket left behind can
  both come past it. Each then reads `user_version` before either migrates; the
  second applies a script the first applied, where that script lets itself be run
  twice, and writes its lower number. Every later start fails at the next script
  that makes a table again. `benshi/src/main.rs:330` says of the order of starting
  that a second daemon ends before it comes to the database, and
  `store/src/migrate.rs:22` that the version says whether a script ran. The run
  `process` shows that both hold of daemons that are started one after another.
* `edges_restarted`. `detect/src/length.rs:21` says that a file on a mount that
  stopped answering holds one thread and no more. The supervisor builds a new
  watcher, with no lengths, whenever detection starts again
  (`daemon/src/lib.rs:175`), while the thread of the one before still reads: each
  restart costs another thread. `ReadAgainNeverTwice`, of one watcher, holds.
* `kept_titles`. `daemon/src/detection.rs:299` says of the titles that refused names
  are kept under that two seasons of one title are two titles. `Show Title II - 01`
  has a key of the second season, `Show Title II S01E02` one of no season in which
  the numeral is a letter like others, and both are kept as `Show Title II`. Named by
  that title, as for a pin, both are found and the answer is a refusal
  (`show_named` in `daemon/src/mapping.rs`).

## 4. Bounds, and why they are enough

In `Detection` a tick is about five seconds, so that `ObservedLimit` and
`FirstSeconds` are one or two of them.

* `MaxTime` bounds an evening: 4 to 8 ticks, enough for a viewing to register,
  be reopened and register again (`seasons`), or for two players to alternate
  over a gap (`two_players`). After it every player is closed.
* `Gaps` are the lengths of a round, below and above `ObservedLimit`. `Skew` is
  how far apart the stamps of a round can be: 1 in `two_players`, so that a
  reading taken later can be stamped earlier.
* `Needed` is 1 or 2 ticks where the length is known and one more where not, so
  that a length that is learned in the middle of a viewing decides. `Grain` is 2
  in `seasons`, so that totals are cut, and 1 elsewhere.
* Two players are enough for one to join, leave or be counted beside another;
  the session treats players pairwise only. Two episodes are enough to change
  from one to another, and two files to change files within one.
* `delivery` has a series of two episodes, a film that was seen, a work on no
  list to which a rule sends what follows the series, and one the service does
  not have. `MaxLog` is 3: two operations for one entry with another between.
  One backend, since none has a part in another's place; the proofs are for any
  number. Its inputs of `Resolving` have episodes to 9 with 4 for the hundred and
  8 for the greatest number, so that every edge is passed.
  The file that is settled is of a series of two short episodes or of that and a long
  film of one title, each of whose facts has one value to be learned; the film's
  length is 6, and the file's is 2, 6 or not known, once less than half and once not.
  These shows, their facts and the readings are constants of `MCDelivery`, given in
  the configuration, so that what is proved of settling is proved of any.
* `listing` has, of AniList, two callers, a pace of 2, waits of 2 and, by default, 5 and a
  deadline of 3, less than a wait as in the code. `MaxChunks` is 2, after which a
  chunk that holds something is the last, and `MaxNext` bounds the turns ahead.
  Of the list's task it has waits from 1 to a ceiling of 2, waits asked for of 0 and 2, two reasons
  for each part of a reading to fail, a miss after 2, a refresh after 3, two connections and two tokens; none of these is
  longer than `Long`, where times stand still, as `ListingAssumption` asks.
* `naming` has two entries, one spelled with a mark that the plain key leaves
  out, so that a key reaches both, one or none as the list changes; three lists,
  in which the second entry is there, is retitled and is gone; two texts of one
  key for the user to give; one client beside the list's task; `MaxShows` of 3,
  one show more than entries; and three runs of episodes, two that begin alike
  and one that overlaps a single one of them. The constraint `FewPins` gives pins
  only while two shows at most are filed and no name is being given, since pins
  and recognizer have nothing to do with each other.
* In `process`, of the supervisor, `Late` is the unit of time, as is a wake;
  `Progress` is 3, more than a wake and its lateness together, so that an unseen stop is not work by
  itself. A stop of 1 goes unseen and one of 3 is as long as `Progress`. Beyond
  `MaxAge`, which is past `Progress` and a wake with its lateness, the time of an
  attempt stands still, and a stop that would pass it is not taken. `MaxFaults`
  lets the wait reach its ceiling. `atMost` and `atLeast` are kept up to two more
  than `RestartLimit`, past every comparison. `EveryRunIsSeen` is asked of one
  task alone with these bounds, and of two with wakes that are never late, a stop of
  2 and ages to 3: a stop noticed at the end of one is then taken off the other.
* Of starting it has three scripts, the second of which can be run twice, for the
  seven of `MIGRATIONS`, of which one can; daemons that know two of them and
  three, on one socket; and databases at 0, 1 and 3.
* `edges`: two threads beside the main one, two lines held and four said, which
  is more than are held and in hand; seven events over the same two; two players,
  two files each written twice, two threads and two watchers; six calls over a
  connection, two readings' worth, with three values that arrived; evenings of
  four ticks in which a player turns twice, jumping to 0 and to 4, with a limit of
  2 for what is observed and of 1 for a seek. Deadlock is not checked there, nor
  in the other run of it, since what is counted comes to an end.
* `recognizing` has the eighteen files and the six shows that the tests of
  `recognize/mod.rs` and `detection.rs` tell apart, of one title: its second season by
  number and by numeral, an OVA of it, its thirteenth as an episode and as a show of
  its own, a numeral in front of the type, a type
  inside the title, which is struck, a special whose name extends the title, a mark a file cannot carry, files
  in directories of a season, of specials and behind `..`. Four lists, so that a show
  is there, gone, alone or beside its like; three texts to be given as names. With
  `MaxNames` two are given or kept at once: one name is in force beside another, a
  name beside a show that is kept, or two such shows.
* Symmetry is used in `seasons` only, which checks safety.

## 5. Fairness

`FairSpec` of `Detection` asks for weak fairness of the task's own steps
(`Works`) and of `Restart`. The first holds because `Detection::run` is a loop
without an end whose every await returns: the ticker ticks, a poll has a deadline
for each source, a call into the store gives up after a second. The second
because the supervisor starts a task again after a transient failure without
limit, and a process that was killed is taken to be started again some day.
Nothing is assumed of the failures: they may happen for ever.

`MCSpec` of `MCProcess` is as `FairSpec` of `Supervisor` where the behaviour is of
it, and asks of starting nothing: it asks for weak fairness of time, of the supervisor's
two kinds of wake, and of an attempt that sets to work: the runtime polls what
is ready. It asks nothing of `End`: a task may work for ever. That an attempt which
ended is joined is asked of each task by itself, since `JoinSet::join_next` is the
first branch of a biased `select!` and hands out every handle that ended, one at a
time: what is checked is that the loop then deals with each, not that it comes soon.

`FairSpec` of `Listing`, which `MCSpec` of `MCListing` repeats, asks for weak fairness of time, of each branch of the
`select!`, which chooses at random among those that are ready, of a reading,
whose requests have deadlines, and of a login that kept its token, which wakes
the task once the call that kept it returns.

`FairSpec` of `AniList`, repeated there too, asks for weak fairness of time, of a caller that sends
when its turn has come, and of a deadline: the runtime's timers go off. It asks
nothing of the service.

`Fairness` of `Voice` asks that somebody reads stderr and that no thread is left
unscheduled. Of `MainLetsGo` and `MainJoins` it asks the same; `GivesUp`, the
patience of the main thread, may but need not come. In `MCEdges` it is asked of
the behaviours of the voice only.

## 6. What is proved

Every invariant, every action property and every refinement that a passing run
checks is a theorem, for every value of the constants. What is assumed of these is
in the `ASSUME` of the modules, all of which TLC evaluates:

| of | assumptions | in short |
|---|---|---|
| detection | `ReadingsAssumption`, `OutAssumption`, `OutIsNoReading`, `TimeAssumption` | episodes are finitely many; the first seconds are whole; a round is at least as long as its stamps differ by |
| delivery | `PlacesAssumption`, `ResolvingAssumption`, `DeliveryAssumption`, `InputsAssumption` | absent values are no data; counts and episodes are numbers; names are of shows |
| names and list | `ListStoreAssumption`, `NamingAssumption`, `ListingAssumption`, `AniListAssumption` | the plain key of a plain key is itself; no period is longer than what is told apart |
| recognition | `RecognizingAssumption` | lists are of shows; directories are numbered |
| process | `StartingAssumption`, `SupervisorAssumption`, `ShortAssumption`, `DoublingAssumption` | limits are numbers; the last, that a power of two up to the sixteenth is one, since the provers know nothing of `^` |
| edges | `VoiceAssumption`, `StreamsAssumption`, `LengthsAssumption`, `TimelineAssumption` | something is held; absent values are no data |

The theorems, with the inductive invariant that each comes from. `Spec` is that of
the module the property is of. `MCSpec` is the specification of an MC module whose
parts share nothing, with its constants left open like any other's: a theorem about
it speaks of every instance and not of the one TLC runs.

| theorem | states | by |
|---|---|---|
| `TypeCorrect` | `Spec => []TypeOK` of `Detection` | induction over the actions |
| `InOnePlace` | `Spec => []OnePlace` | `Places`: who is in a sitting was heard, `todo` and `quiet` are of this round |
| `FollowingReadings` | `Spec => []SittingsFollowReadings` | the same invariant and the last readings |
| `StoreAgreement`, `EffectsLeading` | `Spec => []StoreAgrees`, `Spec => []EffectsLead` | `Leads` |
| `ImplementsLedger` | `Spec => LedgerSpec` | `Leads`, step by step |
| `CountingOnce` | `Spec => []CountedOnce` | `Once` |
| `RecordingOnEnough` | `Spec => RecordedOnEnough` | `Once`: what is pending to be recorded was played |
| `MarksAreOpen` | `SmoothSpec => []MarkIsOpen` | a mark is of an episode that is open, or that a pending close will unmark |
| `KeptWriteIsOpen` | `Spec => []DecidedIsOpen` of `Delivery` | `PlacesHold`: what is kept is of the operation in a sender's hands or of none |
| `DeliveryIsOutbox` | `Spec => OutboxSpec` | the same invariant; one lemma for an operation that is finished |
| `ChangingOnce` | `Spec => []ChangedOnce` | `ChangesHold` |
| `SentAsForetold` | `Spec => []ForetoldIsSent` | `ForetoldHolds` |
| `EpisodesGoAsWritten` | `MCSpec => []ResolvedAsWritten` | the least line that takes an episode is of the first rule that does |
| `SettledOnce` | `MCSpec => []NeverOfAnother` | `SettlingInv` |
| `EpisodesOfOnePin` | `Spec => []PinsApart` of `Naming` | induction: what a pin overlaps is of its own episodes, and two such would have overlapped before |
| `OneNameForEachKey` | `Spec => []OneNameOfAKey` | `TextsApart`: what a name displaces is every text of its key |
| `NoNameTakes` | `Spec => []NoNameTakesAnEntry` | `AllTakeNone`: it holds of the recognizer in place and of every one that will be, since each is built from names checked against its own corpus |
| `InPlaceHolds` | `Spec => []InPlaceIsOfTheStore` | `InPlaceInv` |
| `IdentityHolds` | `Spec => IdentityStays` | `Identified`: names are of shows that are filed, the list's entries are linked, and what a round refused are keys |
| `NamesAreFollowed` | `Spec => []NamesAreExact` of `Recognizing` | two recognizers that differ in one name |
| `SeasonsAreKept` | `Spec => []SeasonKept` | every stage keeps the season (`Keeps`) |
| `LoginIsNotLost` | `Spec => []NewTokenIsTried` of `Listing` | `TokenIsLooked`: a token kept since the reading took its own has a login to come or a permit, whatever the task does meanwhile |
| `TheServiceIsLeftAlone` | `MCSpec => LeftAlone` | `RestInv` |
| `FailuresAreSaidOnce` | `MCSpec => SaidOnce` | `SaidInv` |
| `HoldsAreWaitedOut`, `RequestsAreApart` | `MCSpec => []HoldIsKept`, `MCSpec => SentApart` of `AniList` | `TurnsInv` |
| `SupervisorTypes` | `Spec => []TypeOK` of `Supervisor`: no row of panics passes `RESTART_LIMIT`, no wait passes `BACKOFF_CEILING` | induction; one lemma for what every way to deal with an attempt shares |
| `RunsAreCounted` | `Spec => []EveryRunIsSeen` | `RunInv` |
| `GivenUpForARow` | `Spec => []PanicsInARow` | `RowInv`, with `RunsAreCounted` |
| `RunsOfTheProcess`, `PanicsOfTheProcess` | the same two of `MCSpec` of `MCProcess` | `TasksInv`: the lemmas of the two before, instantiated for one task alone and for all |
| `Reachable` | `Spec => []EachIsReachable` of `Starting`, of daemons not started at once | `SocketsHold`: one daemon at a time is on its way to listen, and a socket that is about to be removed is nobody's who listens |
| `VersionOfTheSchema`, `SchemaOfTheBuild` | `Spec => []NumberIsOfTheSchema`, `Spec => []RunsOnItsSchema`, of such daemons on one socket | `SchemasHold`: a daemon that migrates takes the database to be at the version it is at |
| `HeldIsHarmless` | `MCSpec => []HeldDoesNoHarm` of `Kodi` | `KodiInv` |
| `ReadAgain` | `MCSpec => []ReadAgainNeverTwice` of `Lengths` | `LengthsInv` |
| `LastWordsComeOut`, `NoHookWaits` | `MCSpec => []LastWordsAreWritten`, `MCSpec => []HooksWaitForNobody` of `Voice` | `VoiceInv` |
| `NothingUntold` | `MCSpec => NothingGoesUntold`: `Voice` and `Streams` implement `Account` | `VoiceInv` and `StreamInv`, step by step |
| `PlayIsWellJudged` | `MCSpec => PlayIsJudged` of `Timeline` | `TimelineInv` |

`TypeCorrect`, `InOnePlace`, `SupervisorTypes`, `EffectsLeading`, `RunsAreCounted`
and `GivenUpForARow` state invariants that no run lists under that name.

**Detection.** `Leads` is `StoreAgrees /\ EffectsLead /\ RowsWereWritten`. Neither of
the first two is inductive alone. That a total is more than the one it replaces
(`EffectsLead`) follows from what the sitting stands at being what the store
has (`StoreAgrees`), and that the store will have what the sitting stands at
needs the effects that are pending to be a keep with its record, a question
alone, or closes alone (`EffectsLead`). `RowsWereWritten` says a marked row's
episode was seen, so that closing it changes no answer. The arithmetic of
totals cut to milliseconds is in the lemmas on `Whole` and `Grain`: what is cut
is less than one `Grain`, and the first seconds are whole. One lemma for each
operator of the session says what it does to the type of a sitting, to who is in
it, to its stage and to its total.

`Once` is why time is not counted twice, and needs three facts beside it.
`TicksAreBehind`: whatever is vouched for of a sitting is behind the instant it has
counted up to, or is counted, so that the ticks the next interval adds are new, and
a total grows by no more than the set of those that were played. `ReadingsAreHeld`:
a sitting holds a player at the reading it was last taken at, so that the interval
it counts is the one the reading vouches for. `PendingIsPlayed`: what is still to be
kept and recorded was played too, so that a task that is lost between the two loses
nothing the store has. The sizes of sets come from the library's theorems about
finite sets.

**Delivery.** `ChangesHold` counts the changes of each operation: none while nothing is kept of one
that is open, and one whose kept write changed the list left its entry as the write
says, so that sending it again changes nothing. `ForetoldHolds` says that there is a
function that leads, one operation a step, from where the list stands to what the dry run said
(`Leads`), and that the list is at its step, or between it and the next one while
a write is on its way (`OnTheWay`). That the rehearsal is such a function is an induction
over the log, whose numbers are well ordered; it is carried out by the least
operation at which it would not hold.

`SettlingInv` says that of the shows left by what is known, none is left but the one
the file was counted as of: what refuses a show refuses it still when more is known,
so the shows that are left only grow fewer. For redirects, rule `i` has lines
`2i - 1` and `2i`: the least line that takes an episode is of the first rule that
takes it, and sends it as that rule does.

**Names.** `InPlaceInv` has, beside the property, `PendingIsKept` (one caller has the
lock, and what it will put in place is of the store as it left it) and
`LinkedToFiled`, without which a show filed in the end could be one the list's
entries are linked to already and change what they reach. In `Recognizing` the
properties are of one state, and the proofs are about the operators: `Without` says that two
recognizers differ in one key's name alone, and each stage, reading and directory
answers either by that name or as it would without; `Keeps` that a stage answers with
shows one of whose spellings is of the season that was spelled. The season of a
title is followed through the key, through its type words, and through the two
candidates that are judged.

**The list's task.** `RestInv` is that what is left until a reading is due and what
has passed since the last are together no less than what the service is owed, and
that the wait is at least the one that is doubled with every failure. Doublings are
bounded by the sizes of `SUBSET (1 .. n)`, of which the library knows that they double.
`SaidInv` is that the one failure that is not to be said again is what was said last,
the wait AniList asks for included. `TurnsInv` has
the turns the pace apart from each other, from the last request and from the next
turn, and none sooner than what was asked for as it was taken.

**The supervisor.** That a run is counted within limits is two inequalities with
slack. `NotLess`: what an attempt did not run was taken off it, but for what goes unseen
of its stops, or the last stop is pending in the time since the last wake. `NotMore`:
no more was taken off than it did not run, but for the lateness of a wake at each
stop and once before. Both are kept by a stop that is noticed through the end of
another task, which is where one would expect a task to be charged for another's stop.
`RowInv` follows from them: a panic ends a row only where an observer would say that
the attempt may have worked.

**Starting.** The theorems need `~AtOnce`, and all but the first that every
daemon works out one socket (`OneSocket`). Neither can be left out:
`starting_at_once` is what happens without the first, and two daemons of
different sockets race to migrate as those two do. With one socket, two daemons
that listen are one (`AloneAtTheDatabase`), which is what `SchemasHold` needs of
`SocketsHold`.

**Edges.** `KodiInv`: a reading that waits is owed one answer at most, to the call
it is at, and nothing that has arrived answers any other. `LengthsInv`: a file that is
being read is known to the watcher in use, and no length that is known, being read or
answered is older than the file was when it was last closed. `VoiceInv`: the lines
that were told, are in hand, are held and were left out come to those said, in
order, and who has hold of the voice is where the panic hook and the main thread say.
`StreamInv`: what a client was told and is being told is what its receiver is past. Under
both, a step maps to one of `Account` or to none. `TimelineInv`: in the account of
pauses a limit is left over while the interval under way is not played as it began
(`PausesHold`), and until it breaks a player is where its last position says, or ahead
of that by no more than the position owes (`PlaceHolds`).

## 7. What is only model-checked, and what is not modelled

Only checked are the liveness properties: `EveningEnds`, `TaskReadsAgain`,
`ReadingEnds`, `EndedIsDealtWith` and `VoiceGoes`. They need fairness, and what
is `ENABLED`, which the provers used here do not handle. The three properties
found violated are, of course, not proved either.

Left out of what is modelled:

* Detection: what is published on the bus, which file a total was kept for, the
  saturation of the column at 2^63 milliseconds. A power failure that takes back
  commits is in `Starting` only.
* Timeline: a player that is stopped is taken for one that is paused. A player
  paused and started again within one interval may look like a seek, and a seek
  back by less than the interval is not told; the properties leave both open. A
  stall that ends in a gap or in a position that is not reported settles what was
  owed.
* Delivery: what sends (there is nothing that does), the days of viewings, the
  wording of what is not sent.
* AniList: a list that changes between two of its chunks. The callers of the model
  share one client, as the client's tests do and its comments speak of; the daemon
  makes a client for each reading and for each login, and nothing keeps the
  requests of two clients apart.
* Starting: the switch of the foreign keys, the busy timeout, the modes of the
  directory; in `process` every daemon works out the same socket.
* Voice: the second line of a panic (how to ask for a trace) goes with the first.
  That the last hold of the voice is let go of by a hook or by the writer happens
  in no behaviour of the daemon. Streams: the end of the channel, which cannot
  come while a stream holds the server.
* Recognizing: parts, which are read as seasons are; years, and what stands in
  brackets; `Gekijouban` in front of a title; numbers that are not whole. Words are a
  set, so that their order, and two words spelled as one, are not told apart, nor is a
  word that is there twice. A list of 400 entries and more, where a word is crowded
  later. Scores that differ by the margin are judged as the code does where the
  better is a whole or the two are four and three fifths; longer names can differ.
* Lengths and Kodi: how a container's header, a property of MPRIS and an answer
  are read.

Components that are not modelled, with the reason, are in `PROJECT.json`. Most
of the repository is of a kind no model of states adds to: tests, the command
line and its rendering, the encodings of the protocol and of the database, how words
are cut from strings, and the parsing of containers. What is modelled is
what keeps state, waits, or can be interrupted; that is a small part of the
lines, and much under a third of them.

## 8. Plan

Done: sitting and store (`Session` to `Ledger`), `Supervisor`, names and list
(`ListStore`, `Naming`, `Listing`), delivery (`Places` to `Outbox`), `AniList`,
`Settling`, `Starting`, recognition, and the edges; theorems for every safety
property that a passing run checks. What is left, in the order of importance:

 1. `Timeline` in the place of `sought` and of the interval that `Session`
    counts, so that the two are one model.
 2. The percentages of the watched policy as operators, with what a length of any
    size asks for, proved rather than checked at a few.
 3. What the liveness properties need of safety, as theorems: that whoever waits is
    waiting for something that will come (a wake that is due, a permit that is
    kept, a thread that holds what it will let go of).
 4. Parsing as operators to prove about: that what is cut from a name is in it once.
