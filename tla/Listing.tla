------------------------------- MODULE Listing -------------------------------
(***************************************************************************)
(* The list's task (crates/daemon/src/listing.rs: Reader::run and read):   *)
(* when the list is read, after what came of the last reading, and what is *)
(* said of it; with the logins that wake it (ipc.rs, accounts.rs) and the  *)
(* rounds that miss a name.  What a filing does is in Naming.              *)
(*                                                                         *)
(* Time runs in units.  due is the time until the next reading, and since  *)
(* the time since the last one began.  The task may be late: a unit may    *)
(* pass while it has something to do.                                      *)
(***************************************************************************)
EXTENDS Naturals

CONSTANTS
    FirstRetry, LastRetry,  \* FIRST_RETRY and LAST_RETRY
    Refresh, OnMiss,        \* the periods of the settings
    Off,                    \* a period that is off, and a time that never comes
    AtStart,                \* whether the list is read as the task starts
    Asked,                  \* waits AniList asks for
    Reasons,                \* why a part of a reading fails
    Clients,                \* connections that log in
    MaxTokens,              \* bound: tokens
    Long                    \* bound: past every time that is compared

Periods == (Nat \ {0}) \cup {Off}

ASSUME ListingAssumption ==
    /\ Off \notin Nat
    /\ FirstRetry \in Nat \ {0} /\ LastRetry \in Nat /\ FirstRetry <= LastRetry
    /\ Refresh \in Periods /\ OnMiss \in Periods
    /\ AtStart \in BOOLEAN
    /\ Asked \subseteq Nat
    /\ MaxTokens \in Nat \ {0}
    /\ Long \in Nat /\ LastRetry <= Long
    /\ \A t \in (Asked \cup {Refresh, OnMiss}) \ {Off} : t <= Long

VARIABLES
    outcome,    \* what came of the last reading
    wait,       \* how long the next failure waits
    due,        \* time until the next reading, Off where none is due
    since,      \* time since the last reading began, Off before the first
    said,       \* the failure that was said last, <<>> where none was
    doing,      \* whether the task waits, asks for the token or for the list
    tried,      \* the token of the reading

    missed,     \* the permit of Wakes::missed
    loggedIn,   \* the permit of Wakes::logged_in

    kept,       \* the token kept, by its number, 0 for none
    tokens,     \* how many there were
    waking,     \* clients whose login kept a token and that have not woken the task

    rest,       \* history: time since the last reading ended
    failures,   \* history: failures with no wait asked for since a reading went through
    asked,      \* history: the wait the last reading was asked for, Off for none
    forLogin,   \* history: whether a login brought the last reading
    failure,    \* history: what the last reading failed with, <<>> where it did not
    told,       \* history: whether the last reading said a line
    stranded,   \* history: the token of a login that was cut off before it woke the
                \* task, 0 for none
    excused     \* history: failures other than the last, all where a reading went
                \* through or a login came since

taskVars == <<outcome, wait, due, since, said, doing, tried>>

permits == <<missed, loggedIn>>

account == <<kept, tokens, waking>>

history == <<rest, failures, asked, forLogin, failure, told, excused, stranded>>

vars == <<taskVars, permits, account, history>>

Before(s, t) == s # Off /\ (t = Off \/ s < t)

Sooner(s, t) == IF Before(s, t) THEN s ELSE t

LessOf(s, t) == IF s <= t THEN s ELSE t

\* What tell compares, the whole reason: what failed and why, with the wait AniList
\* asks for but without the one the task takes by itself.
NoToken == <<"no token">>

Failures ==
    {NoToken} \cup ({"secrets", "refused", "list", "store"} \X Reasons) \cup ({"asked"} \X Asked)

-----------------------------------------------------------------------------
(***************************************************************************)
(* Reader::run.                                                            *)
(***************************************************************************)

Refreshed == Refresh

DueAtStart == IF AtStart THEN 0 ELSE Refreshed

\* The variables of run as it starts.
Started ==
    /\ outcome = "read"
    /\ wait = FirstRetry
    /\ said = <<>>
    /\ since = Off
    /\ due = DueAtStart
    /\ doing = "waiting"

Begin(login) ==
    /\ since' = 0
    /\ doing' = "token"
    /\ forLogin' = login
    /\ failure' = <<>> /\ told' = FALSE
    /\ UNCHANGED <<outcome, wait, due, tried, account, rest, failures, asked, stranded>>

\* What a login leaves of what was said last.
SaidAtLogin == <<>>

\* The branch of a login.
WokenByLogin ==
    /\ doing = "waiting" /\ loggedIn
    /\ loggedIn' = FALSE
    /\ said' = SaidAtLogin
    /\ excused' = Failures
    /\ Begin(TRUE)
    /\ UNCHANGED missed

\* The branch of a reading that is due.
WokenByTime ==
    /\ doing = "waiting" /\ due = 0
    /\ Begin(FALSE)
    /\ UNCHANGED <<said, permits, excused>>

\* A mutant: a miss is heard whatever came of the last reading.
HeardAlways == OnMiss # Off

\* A miss counts where the last reading went through.
Heard == outcome = "read" /\ OnMiss # Off

\* When a miss may bring a reading: on_miss after the last one began.
Earliest ==
    IF since = Off \/ since >= OnMiss THEN 0 ELSE OnMiss - since

\* A mutant: a miss sets the reading on_miss from now.
DueAfterEach == OnMiss

\* A miss puts off no reading that is due.
DueAfterMiss == Sooner(due, Earliest)

\* The branch of a miss, which is taken whatever came of the last reading.
WokenByMiss ==
    /\ doing = "waiting" /\ missed
    /\ missed' = FALSE
    /\ due' = IF Heard THEN DueAfterMiss ELSE due
    /\ UNCHANGED <<outcome, wait, since, said, doing, tried, loggedIn, account, history>>

-----------------------------------------------------------------------------
(***************************************************************************)
(* Reader::read and what run makes of its outcome.                         *)
(***************************************************************************)

\* A mutant: what is said is compared whole, with when it is tried again.
TellOfLine(reason, again) ==
    /\ said' = <<reason, again>>
    /\ told' = (said # <<reason, again>>)

\* tell: a reason is said where it is not what was said last, and with it when the
\* reading is tried again, Off where the line leaves that out.
Tell(reason, again) ==
    /\ said' = reason
    /\ told' = (said # reason)

\* A reading that failed so, with the next due after pause.
Ends(o, reason, pause) ==
    /\ doing' = "waiting"
    /\ outcome' = o
    /\ due' = pause
    /\ rest' = 0
    /\ failure' = reason
    /\ excused' = Failures \ {reason}
    /\ UNCHANGED <<since, permits, account, forLogin, stranded>>

\* No token is kept, or the secret store cannot give it.
FindsNone(reason) ==
    /\ doing = "token"
    /\ Tell(reason, Off)
    /\ Ends("noToken", reason, Refreshed)
    /\ asked' = Off
    /\ UNCHANGED <<wait, tried, failures>>

FindsNoToken == kept = 0 /\ FindsNone(NoToken)

IsGivenNoToken(why) == FindsNone(<<"secrets", why>>)

FindsToken ==
    /\ doing = "token" /\ kept # 0
    /\ tried' = kept
    /\ doing' = "list"
    /\ UNCHANGED <<outcome, wait, due, since, said, permits, account, history>>

\* The list was read and filed.
GoesThrough ==
    /\ doing = "list"
    /\ said' = <<>> /\ told' = TRUE /\ failure' = <<>>
    /\ doing' = "waiting" /\ outcome' = "read" /\ due' = Refreshed
    /\ wait' = FirstRetry
    /\ rest' = 0 /\ failures' = 0 /\ asked' = Off /\ excused' = Failures
    /\ UNCHANGED <<since, tried, permits, account, forLogin, stranded>>

\* AniList refuses the token, and nothing is due.
IsRefused(why) ==
    /\ doing = "list"
    /\ Tell(<<"refused", why>>, Off)
    /\ Ends("refused", <<"refused", why>>, Off)
    /\ asked' = Off
    /\ UNCHANGED <<wait, tried, failures>>

\* A mutant: the wait doubles for ever.
TwiceOver(t) == 2 * t

Doubled(t) == LessOf(2 * t, LastRetry)

FailsWith(reason, again) ==
    /\ doing = "list"
    /\ Tell(reason, again)
    /\ Ends("failed", reason, wait)
    /\ wait' = Doubled(wait)
    /\ failures' = LessOf(failures + 1, Long)
    /\ asked' = Off
    /\ UNCHANGED tried

\* The list could not be read.
Fails(why) == FailsWith(<<"list", why>>, wait)

\* It was read and could not be kept.
IsNotKept(why) == FailsWith(<<"store", why>>, Off)

\* It could not be read, and AniList asks for a wait, which Error::Wait says.
IsAskedToWait(after) ==
    /\ doing = "list"
    /\ Tell(<<"asked", after>>, after)
    /\ Ends("failed", <<"asked", after>>, after)
    /\ asked' = after
    /\ UNCHANGED <<wait, tried, failures>>

\* A panic while the list is filed: the supervisor starts run again.
TaskRestarts ==
    /\ doing = "list"
    /\ outcome' = "read" /\ wait' = FirstRetry /\ said' = <<>>
    /\ since' = Off /\ due' = DueAtStart /\ doing' = "waiting"
    /\ rest' = 0 /\ failures' = 0 /\ asked' = Off /\ forLogin' = FALSE
    /\ failure' = <<>> /\ told' = FALSE /\ excused' = Failures
    /\ UNCHANGED <<tried, permits, account, stranded>>

-----------------------------------------------------------------------------
(***************************************************************************)
(* Around the task.                                                        *)
(***************************************************************************)

\* A round missed a name.
Miss ==
    /\ ~missed
    /\ missed' = TRUE
    /\ UNCHANGED <<taskVars, loggedIn, account, history>>

\* login: AniList took the token, and it is kept.
KeepsToken(c) ==
    /\ c \notin waking /\ tokens < MaxTokens
    /\ kept' = tokens + 1 /\ tokens' = tokens + 1
    /\ waking' = waking \cup {c}
    /\ UNCHANGED <<taskVars, permits, history>>

\* A mutant: the task is woken only where it waits.
HeldIfWaiting == doing = "waiting"

\* notify_one: a permit is held for whoever waits next.
Held == TRUE

\* And then the task is woken.
WakesTask(c) ==
    /\ c \in waking
    /\ waking' = waking \ {c}
    /\ loggedIn' = (loggedIn \/ Held)
    /\ UNCHANGED <<taskVars, missed, kept, tokens, history>>

\* The socket's task fails or panics, and its connections go with it: a login
\* that kept its token wakes nobody.
ConnectionsDrop ==
    /\ waking # {}
    /\ waking' = {} /\ stranded' = kept
    /\ UNCHANGED <<taskVars, permits, kept, tokens,
                   rest, failures, asked, forLogin, failure, told, excused>>

Logout ==
    /\ kept # 0
    /\ kept' = 0
    /\ UNCHANGED <<taskVars, permits, tokens, waking, history>>

\* A unit of time.
Tick ==
    /\ due' = IF due \in {0, Off} THEN due ELSE due - 1
    /\ since' = IF since = Off THEN Off ELSE LessOf(since + 1, Long)
    /\ rest' = LessOf(rest + 1, Long)
    /\ UNCHANGED <<outcome, wait, said, doing, tried, permits, account,
                   failures, asked, forLogin, failure, told, excused, stranded>>

Init ==
    /\ Started
    /\ tried = 0
    /\ missed = FALSE /\ loggedIn = FALSE
    /\ kept \in 0 .. 1 /\ tokens = kept /\ waking = {}
    /\ rest = Long /\ failures = 0 /\ asked = Off /\ forLogin = FALSE
    /\ failure = <<>> /\ told = FALSE /\ excused = Failures /\ stranded = 0

Woken == WokenByLogin \/ WokenByTime \/ WokenByMiss

Ended ==
    \/ FindsNoToken
    \/ \E why \in Reasons : IsGivenNoToken(why) \/ IsRefused(why) \/ Fails(why) \/ IsNotKept(why)
    \/ \E after \in Asked : IsAskedToWait(after)
    \/ GoesThrough \/ TaskRestarts

Around ==
    \/ Miss \/ Logout \/ Tick \/ ConnectionsDrop
    \/ \E c \in Clients : KeepsToken(c) \/ WakesTask(c)

Next == Woken \/ FindsToken \/ Ended \/ Around

Spec == Init /\ [][Next]_vars

\* Time passes, a branch of select! that stays ready is taken some day, since
\* select! chooses among those ready at random, a reading ends, since every
\* request has a deadline, and a login that kept its token goes on.
FairSpec ==
    /\ Spec
    /\ WF_vars(Tick) /\ WF_vars(WokenByLogin) /\ WF_vars(WokenByTime) /\ WF_vars(WokenByMiss)
    /\ WF_vars(FindsToken \/ Ended)
    /\ \A c \in Clients : WF_vars(WakesTask(c))

-----------------------------------------------------------------------------
Begins == doing = "waiting" /\ doing' = "token"

\* What the service is left alone for after the last reading: what it asked for,
\* or FIRST_RETRY doubled with every failure since a reading went through, up to
\* LAST_RETRY, or until a login.
Owed ==
    CASE outcome = "refused" -> Off
      [] outcome = "noToken" -> Refresh
      [] outcome = "failed" /\ asked # Off -> asked
      [] outcome = "failed" /\ asked = Off -> LessOf(FirstRetry * 2 ^ (failures - 1), LastRetry)
      [] OTHER -> 0

\* A service that failed is left alone for as long as it is owed, whatever names
\* are missed meanwhile: only a login brings a reading before.
LeftAlone == [][Begins /\ ~forLogin' => Owed # Off /\ rest >= Owed]_vars

\* A token AniList refused is not the last word where another is kept: the
\* login that kept it wakes the task, though it came while the one before was
\* being tried.  A login whose connection was dropped alone leaves its token
\* waiting for the next.
NewTokenIsTried ==
    doing = "waiting" /\ outcome = "refused" /\ ~loggedIn /\ waking = {} =>
        kept \in {0, tried, stranded}

\* A failure is said once, however often it comes again and however long the task
\* then waits, and is said again where another came between, a reading went through
\* or a login came.  Another wait that AniList asks for is another failure, since the
\* reason says it.  And whoever logs in always reads in the log what came of it, the
\* same failure included.
SaidOnce ==
    [][doing # "waiting" /\ doing' = "waiting" =>
          /\ failure' # <<>> => (told' <=> failure' \in excused)
          /\ forLogin' => told']_vars

\* A reading always comes again, unless the token was refused and nobody logs
\* in, however often names are missed.
ReadsAgain ==
    (outcome # "refused" \/ loggedIn) ~> (doing # "waiting" \/ (outcome = "refused" /\ ~loggedIn))
=============================================================================
