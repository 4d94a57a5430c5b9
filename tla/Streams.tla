------------------------------- MODULE Streams -------------------------------
(***************************************************************************)
(* The event bus (crates/daemon/src/bus.rs) and the stream of it that a    *)
(* client watches over the socket (stream_events in                        *)
(* crates/daemon/src/ipc.rs), for one client: none has a part in what      *)
(* another receives.                                                       *)
(*                                                                         *)
(* The channel is tokio's broadcast, which keeps the last of what was sent *)
(* for a receiver and tells one that fell further behind how much it       *)
(* missed.  told and last are what the client was told since it was        *)
(* subscribed.                                                             *)
(***************************************************************************)
EXTENDS Naturals

CONSTANTS
    Held,           \* CAPACITY
    MaxPublished    \* bound: how many events are published

VARIABLES
    published,  \* how many events were published
    stream,     \* what the connection of the client is at
    first,      \* how many had been when the client was subscribed
    next,       \* how many the receiver is past
    inHand,     \* the response that is being written
    told, last

vars == <<published, stream, first, next, inHand, told, last>>

A == INSTANCE Account WITH
        said <- IF stream \in {"none", "asked"} THEN 0 ELSE published - first,
        upTo <- told

\* EventBus::publish, which waits for nobody.
Publish ==
    /\ published < MaxPublished
    /\ published' = published + 1
    /\ UNCHANGED <<stream, first, next, inHand, told, last>>

\* Request::Watch.
Watch ==
    /\ stream = "none"
    /\ stream' = "asked"
    /\ UNCHANGED <<published, first, next, inHand, told, last>>

\* EventBus::subscribe, ahead of the answer.
Subscribe ==
    /\ stream = "asked"
    /\ stream' = "subscribed" /\ first' = published /\ next' = published
    /\ UNCHANGED <<published, inHand, told, last>>

\* Response::Ok.
SaysOk ==
    /\ stream = "subscribed"
    /\ stream' = "on"
    /\ UNCHANGED <<published, first, next, inHand, told, last>>

\* A mutant: only events are passed on.
EventsAlone(received) == IF received.is = "missed" THEN A!Nothing ELSE received

\* Response::Event and Response::Lagged.
Response(received) == received

Lags == published - next > Held

\* Receiver::recv.
Receive ==
    /\ stream = "on" /\ inHand = A!Nothing /\ next < published
    /\ IF Lags
       THEN /\ inHand' = Response(A!Missed(published - Held - next))
            /\ next' = published - Held
       ELSE /\ inHand' = Response(A!Line(next + 1 - first))
            /\ next' = next + 1
    /\ UNCHANGED <<published, stream, first, told, last>>

\* reply, once the client reads.
Reply ==
    /\ stream = "on" /\ inHand # A!Nothing
    /\ inHand' = A!Nothing
    /\ told' = told + (IF inHand.is = "missed" THEN inHand.lines ELSE 1)
    /\ last' = inHand
    /\ UNCHANGED <<published, stream, first, next>>

\* The client goes away, or the connection is cut.
Cut ==
    /\ stream \in {"asked", "subscribed", "on"}
    /\ stream' = "over"
    /\ first' = IF stream = "asked" THEN published ELSE first
    /\ inHand' = A!Nothing
    /\ UNCHANGED <<published, next, told, last>>

Init ==
    /\ published = 0 /\ stream = "none" /\ first = 0 /\ next = 0
    /\ inHand = A!Nothing /\ told = 0 /\ last = A!Nothing

Next == Publish \/ Watch \/ Subscribe \/ SaysOk \/ Receive \/ Reply \/ Cut

Spec == Init /\ [][Next]_vars

-----------------------------------------------------------------------------
\* A client that is subscribed is told of every event in its place, or of how
\* many it missed there, and misses none while it is no more than CAPACITY
\* behind (stream_events).
StreamAccounts == A!Spec
=============================================================================
