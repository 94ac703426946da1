---------------------------- MODULE AndroidLink -----------------------------
(***************************************************************************)
(* The control link to one phone (internal/modem/android.go): the goroutine *)
(* `run' connects, reads answers and events until the link breaks, and     *)
(* tears the link down; any number of callers of `request' register an id  *)
(* in `pending', write the request and wait for the answer, the end of the *)
(* link or a timeout.  The companion executes requests and answers them.   *)
(* The connection events reach the device status through handleModem.      *)
(***************************************************************************)
EXTENDS Integers, Sequences, FiniteSets

CONSTANTS
    Requests,   \* the calls of request; each gets an id of its own
    MaxLinks    \* bound on the connections made

ASSUME LinksAssumption == MaxLinks \in Nat

VARIABLES
    run,       \* the goroutine: "connect", "read", "close", "drain", "offline"
    healthy,   \* a.healthy
    writer,    \* a.writer: the number of the link, 0 for nil
    links,     \* number of links made so far
    alive,     \* the link is not broken
    pending,   \* a.pending: the ids that wait for an answer
    ch,        \* per request: its channel, "empty", "answer" or "closed"
    req,       \* per request: where its caller is, or what it got
    on,        \* per request: the link it was written to
    transit,   \* requests on their way to the companion
    answers,   \* answers on their way back
    executed,  \* requests the companion has executed
    events,    \* connection events on their way to handleModem
    mode       \* Device.Mode

link == <<run, healthy, writer, links, events>>
callers == <<pending, ch, req, on>>
companion == <<transit, answers, executed>>
linkVars == <<link, alive, callers, companion, mode>>

Results == {"ok", "refused", "offline", "broken", "disconnected", "timeout"}

LinkInit ==
    /\ run = "connect" /\ healthy = FALSE /\ writer = 0 /\ links = 0 /\ alive = FALSE
    /\ pending = {} /\ ch = [r \in Requests |-> "empty"]
    /\ req = [r \in Requests |-> "check"] /\ on = [r \in Requests |-> 0]
    /\ transit = {} /\ answers = {} /\ executed = {}
    /\ events = <<>> /\ mode = "starting"

-----------------------------------------------------------------------------
(* run: connect, readLoop, closeControl, setOffline, and again.  A connect  *)
(* that fails leaves the state as it is.                                    *)

Connect ==
    /\ run = "connect" /\ links < MaxLinks
    /\ run' = "read" /\ healthy' = TRUE /\ links' = links + 1 /\ writer' = links + 1
    /\ alive' = TRUE /\ events' = Append(events, "online")
    /\ UNCHANGED <<callers, companion, mode>>

(* An answer goes to the caller that still waits for its id.               *)
ReadAnswer(r) ==
    /\ run = "read" /\ r \in answers /\ answers' = answers \ {r}
    /\ pending' = pending \ {r}
    /\ ch' = IF r \in pending THEN [ch EXCEPT ![r] = "answer"] ELSE ch
    /\ UNCHANGED <<link, alive, req, on, transit, executed, mode>>

ReadEnds ==
    /\ run = "read" /\ ~alive /\ run' = "close"
    /\ UNCHANGED <<healthy, writer, links, events, alive, callers, companion, mode>>

(* closeControl clears the link under one lock, then ends the callers under *)
(* another.                                                                 *)
CloseControl ==
    /\ run = "close" /\ run' = "drain" /\ healthy' = FALSE /\ writer' = 0
    /\ UNCHANGED <<links, events, alive, callers, companion, mode>>

DrainAnswers ==  \* mutant: a nil answer instead of a closed channel
    /\ run = "drain" /\ run' = "offline"
    /\ ch' = [r \in Requests |-> IF r \in pending THEN "answer" ELSE ch[r]]
    /\ pending' = {}
    /\ UNCHANGED <<healthy, writer, links, events, alive, req, on, companion, mode>>

DrainForgets ==  \* mutant: the map is cleared, the channels stay open
    /\ run = "drain" /\ run' = "offline" /\ pending' = {}
    /\ UNCHANGED <<healthy, writer, links, events, alive, ch, req, on, companion, mode>>

Drain ==
    /\ run = "drain" /\ run' = "offline"
    /\ ch' = [r \in Requests |-> IF r \in pending THEN "closed" ELSE ch[r]]
    /\ pending' = {}
    /\ UNCHANGED <<healthy, writer, links, events, alive, req, on, companion, mode>>

SetOffline ==
    /\ run = "offline" /\ run' = "connect" /\ healthy' = FALSE
    /\ events' = IF healthy THEN Append(events, "offline") ELSE events
    /\ UNCHANGED <<writer, links, alive, callers, companion, mode>>

-----------------------------------------------------------------------------
(* request.                                                                *)

Check(r) ==
    /\ req[r] = "check"
    /\ req' = [req EXCEPT ![r] = IF healthy THEN "register" ELSE "offline"]
    /\ UNCHANGED <<link, alive, pending, ch, on, companion, mode>>

Register(r) ==
    /\ req[r] = "register" /\ req' = [req EXCEPT ![r] = "write"]
    /\ pending' = pending \cup {r}
    /\ UNCHANGED <<link, alive, ch, on, companion, mode>>

(* On a broken link the write fails or is lost.                            *)
Write(r) ==
    /\ req[r] = "write"
    /\ \/ /\ writer # 0
          /\ req' = [req EXCEPT ![r] = "wait"] /\ on' = [on EXCEPT ![r] = writer]
          /\ transit' = IF alive THEN transit \cup {r} ELSE transit
          /\ UNCHANGED pending
       \/ /\ writer = 0 \/ ~alive
          /\ req' = [req EXCEPT ![r] = IF writer = 0 THEN "offline" ELSE "broken"]
          /\ pending' = pending \ {r}
          /\ UNCHANGED <<on, transit>>
    /\ UNCHANGED <<link, alive, ch, answers, executed, mode>>

ReturnAnswered(r) ==  \* mutant: a closed channel is ignored
    /\ req[r] = "wait" /\ ch[r] = "answer" /\ req' = [req EXCEPT ![r] = "ok"]
    /\ UNCHANGED <<link, alive, pending, ch, on, companion, mode>>

(* The answer may carry an error.                                          *)
Return(r) ==
    /\ req[r] = "wait" /\ ch[r] # "empty"
    /\ \E result \in IF ch[r] = "answer" THEN {"ok", "refused"} ELSE {"disconnected"} :
          req' = [req EXCEPT ![r] = result]
    /\ UNCHANGED <<link, alive, pending, ch, on, companion, mode>>

Timeout(r) ==
    /\ req[r] = "wait" /\ req' = [req EXCEPT ![r] = "timeout"]
    /\ pending' = pending \ {r}
    /\ UNCHANGED <<link, alive, ch, on, companion, mode>>

-----------------------------------------------------------------------------
(* The companion, and the breaking of the link, which loses what is on it.  *)
Execute(r) ==
    /\ r \in transit /\ transit' = transit \ {r}
    /\ executed' = executed \cup {r} /\ answers' = answers \cup {r}
    /\ UNCHANGED <<link, alive, callers, mode>>

Break ==
    /\ alive /\ alive' = FALSE /\ transit' = {} /\ answers' = {}
    /\ UNCHANGED <<link, callers, executed, mode>>

(* handleModem, device.online and device.offline.                          *)
HandleEvent ==
    /\ events # <<>> /\ events' = Tail(events) /\ mode' = Head(events)
    /\ UNCHANGED <<run, healthy, writer, links, alive, callers, companion>>

RunStep == Connect \/ ReadEnds \/ CloseControl \/ Drain \/ SetOffline \/ \E r \in Requests : ReadAnswer(r)
CallerStep(r) == Check(r) \/ Register(r) \/ Write(r) \/ Return(r)

LinkNext ==
    \/ RunStep \/ Break \/ HandleEvent
    \/ \E r \in Requests : CallerStep(r) \/ Timeout(r) \/ Execute(r)

LinkSpec == LinkInit /\ [][LinkNext]_linkVars

(* Both goroutines run and the companion answers; no timeout is assumed.    *)
LinkFairSpec ==
    /\ LinkSpec /\ WF_linkVars(RunStep)
    /\ \A r \in Requests : WF_linkVars(CallerStep(r)) /\ WF_linkVars(Execute(r))

-----------------------------------------------------------------------------
(* Type correctness.                                                        *)
LinkTypeOK ==
    /\ run \in {"connect", "read", "close", "drain", "offline"}
    /\ healthy \in BOOLEAN /\ alive \in BOOLEAN /\ writer \in {0, links} /\ links \in 0..MaxLinks
    /\ pending \subseteq Requests /\ ch \in [Requests -> {"empty", "answer", "closed"}]
    /\ req \in [Requests -> {"check", "register", "write", "wait"} \cup Results]
    /\ on \in [Requests -> 0..MaxLinks]
    /\ transit \subseteq Requests /\ answers \subseteq Requests /\ executed \subseteq Requests
    /\ events \in Seq({"online", "offline"}) /\ mode \in {"starting", "online", "offline"}

(* A caller that waits will be served: it is registered, and its link has   *)
(* not been torn down; nobody is left to the timeout by a link that ended   *)
(* between its steps.                                                       *)
WaiterIsServed ==
    \A r \in Requests : req[r] = "wait" /\ ch[r] = "empty" =>
        r \in pending /\ on[r] = links /\ run \in {"read", "close", "drain"}

(* A caller gets a success only for a request the phone has executed, also  *)
(* when answers come late or the link was replaced.                         *)
OkMeansExecuted == \A r \in Requests : req[r] = "ok" => r \in executed

(* Every request returns, without the help of the timeout.                  *)
RequestsReturn == \A r \in Requests : <>(req[r] \in Results)

(* What does not hold: "never report unavailable hardware as healthy", that *)
(* is, when the link is down and all its events are handled, the device is  *)
(* not shown as online. closeControl clears what setOffline looks at.       *)
OfflineShown == run = "connect" /\ events = <<>> => mode # "online"
=============================================================================
