----------------------------- MODULE StateSync ------------------------------
(***************************************************************************)
(* How a browser follows the state: store.Subscribe and the fan-out in     *)
(* appendLocked, the WebSocket handler `events' of internal/httpapi, and   *)
(* the page in web/src/state.ts, which fetches /api/v1/state again on each *)
(* event and when the socket opens.                                        *)
(*                                                                         *)
(* The state is represented by its version number, and a fetch returns the *)
(* version at the time the server handles it.                              *)
(***************************************************************************)
EXTENDS Integers, Sequences, SequencesExt

CONSTANTS
    QueueCap,     \* capacity of a subscriber's channel: 64
    Ordered,      \* fetches are answered and arrive in order
    MaxVersion,   \* bound on the changes of the state
    MaxFetches,   \* bound on the fetches in flight
    MaxFailures   \* bound on lost sockets and failed fetches

ASSUME CapAssumption ==
    /\ QueueCap \in Nat \ {0} /\ {MaxVersion, MaxFetches, MaxFailures} \subseteq Nat
    /\ Ordered \in BOOLEAN

VARIABLES
    version,   \* of the state on the server
    handler,   \* the WebSocket handler: "closed", "accepted" or "subscribed"
    since,     \* the version when the handler subscribed
    queue,     \* number of events in the subscriber's channel
    socket,    \* number of events on their way to the page
    opened,    \* onopen has run in the page
    fetches,   \* fetches in flight: Asked, or the version that was answered
    shown,     \* state.snapshot
    error,     \* state.error is set
    failures

vars == <<version, handler, since, queue, socket, opened, fetches, shown, error, failures>>

Asked == -1

(* The page has loaded once, before it connects.                           *)
Init ==
    /\ version = 0 /\ handler = "closed" /\ since = 0 /\ queue = 0 /\ socket = 0
    /\ opened = FALSE /\ fetches = <<>> /\ shown = 0 /\ error = FALSE /\ failures = 0

(* appendLocked: a full channel drops the event.                           *)
Notify == IF handler = "subscribed" /\ queue < QueueCap THEN queue + 1 ELSE queue

Change ==
    /\ version < MaxVersion /\ version' = version + 1
    /\ queue' = Notify
    /\ UNCHANGED <<handler, since, socket, opened, fetches, shown, error, failures>>

(* The handler accepts the socket, subscribes, and forwards events.        *)
Accept ==
    /\ handler = "closed" /\ handler' = "accepted"
    /\ UNCHANGED <<version, since, queue, socket, opened, fetches, shown, error, failures>>

Subscribe ==
    /\ handler = "accepted" /\ handler' = "subscribed" /\ since' = version
    /\ UNCHANGED <<version, queue, socket, opened, fetches, shown, error, failures>>

ForwardHolds ==  \* mutant: the last event waits for another
    /\ queue > 1 /\ queue' = queue - 1 /\ socket' = socket + 1
    /\ UNCHANGED <<version, handler, since, opened, fetches, shown, error, failures>>

Forward ==
    /\ queue > 0 /\ queue' = queue - 1 /\ socket' = socket + 1
    /\ UNCHANGED <<version, handler, since, opened, fetches, shown, error, failures>>

(* The page: each call of refresh is a fetch of its own.                   *)
Refresh == Len(fetches) < MaxFetches /\ fetches' = Append(fetches, Asked)

OnOpen ==
    /\ handler # "closed" /\ ~opened /\ opened' = TRUE /\ Refresh
    /\ UNCHANGED <<version, handler, since, queue, socket, shown, error, failures>>

OnMessageIfIdle ==  \* mutant: no new fetch while one is in flight
    /\ opened /\ socket > 0 /\ socket' = socket - 1
    /\ IF fetches = <<>> THEN Refresh ELSE UNCHANGED fetches
    /\ UNCHANGED <<version, handler, since, queue, opened, shown, error, failures>>

OnMessage ==
    /\ opened /\ socket > 0 /\ socket' = socket - 1 /\ Refresh
    /\ UNCHANGED <<version, handler, since, queue, opened, shown, error, failures>>

Answer(i) ==
    /\ fetches[i] = Asked
    /\ Ordered => \A j \in 1..(i - 1) : fetches[j] # Asked
    /\ fetches' = [fetches EXCEPT ![i] = version]
    /\ UNCHANGED <<version, handler, since, queue, socket, opened, shown, error, failures>>

Arrive(i) ==
    /\ fetches[i] # Asked /\ (Ordered => i = 1)
    /\ shown' = fetches[i] /\ error' = FALSE /\ fetches' = RemoveAt(fetches, i)
    /\ UNCHANGED <<version, handler, since, queue, socket, opened, failures>>

FetchFails(i) ==
    /\ failures < MaxFailures /\ failures' = failures + 1
    /\ Ordered => i = 1
    /\ error' = TRUE /\ fetches' = RemoveAt(fetches, i)
    /\ UNCHANGED <<version, handler, since, queue, socket, opened, shown>>

(* The socket closes: the handler unsubscribes, the page connects again.   *)
Close ==
    /\ failures < MaxFailures /\ failures' = failures + 1
    /\ handler # "closed" /\ handler' = "closed" /\ opened' = FALSE
    /\ queue' = 0 /\ socket' = 0
    /\ UNCHANGED <<version, since, fetches, shown, error>>

Next ==
    \/ Change \/ Accept \/ Subscribe \/ Forward \/ OnOpen \/ OnMessage \/ Close
    \/ \E i \in DOMAIN fetches : Answer(i) \/ Arrive(i) \/ FetchFails(i)

Spec == Init /\ [][Next]_vars

(* The server and the page go on; changes and failures need not happen.    *)
FairSpec ==
    /\ Spec
    /\ WF_vars(Accept) /\ WF_vars(Subscribe) /\ WF_vars(Forward)
    /\ WF_vars(OnOpen) /\ WF_vars(OnMessage)
    /\ WF_vars(\E i \in DOMAIN fetches : Answer(i))
    /\ WF_vars(\E i \in DOMAIN fetches : Arrive(i))

-----------------------------------------------------------------------------
(* Type correctness; the channel keeps to its capacity.                     *)
TypeOK ==
    /\ version \in 0..MaxVersion /\ since \in 0..version /\ shown \in 0..version
    /\ handler \in {"closed", "accepted", "subscribed"}
    /\ queue \in 0..QueueCap /\ socket \in Nat
    /\ opened \in BOOLEAN /\ error \in BOOLEAN
    /\ fetches \in Seq({Asked} \cup 0..version)

Quiet == handler = "subscribed" /\ opened /\ queue = 0 /\ socket = 0 /\ fetches = <<>>

(* A change after the subscription reaches the page, although events are    *)
(* dropped when the channel is full: when no event and no fetch is under    *)
(* way, the page shows the current state or an error.                       *)
ChangeReachesPage == Quiet /\ version > since => shown = version \/ error

(* The same as progress: the page catches up with every change made while   *)
(* it was subscribed, unless a fetch fails or the socket closes.            *)
CatchesUp ==
    (handler = "subscribed" /\ version > since) ~>
        (shown = version \/ error \/ handler = "closed")

(* What does not hold, because of changes between Accept and Subscribe:     *)
(* once connected, the page shows the current state when no event and no    *)
(* fetch is under way.                                                      *)
PageCurrent == Quiet => shown = version \/ error
=============================================================================
