----------------------------- MODULE CallMedia ------------------------------
(***************************************************************************)
(* Calls with their audio: the operations of app.Service as far as they    *)
(* concern audio, beside the media manager and the SIP legs. An operation  *)
(* is one step here, because it holds Service.actions and its writes are   *)
(* the subject of CallControl.tla; what it starts in goroutines is not     *)
(* part of the step.                                                       *)
(***************************************************************************)
EXTENDS SipLegs

CONSTANTS
    Environments,  \* what a behaviour is about: the calls that come, those among them that
                   \* begin while the setting SIPEnabled is on, those that a page asks audio
                   \* for (asks bounds how often at a time), and what else happens to call 1
    MaxReports     \* bound on repeated ends of a call

ASSUME CallMediaAssumption ==
    /\ Environments \subseteq [calls : SUBSET Calls, sip : SUBSET Calls, web : SUBSET Calls,
                               asks : 1..MaxAsked, acts : SUBSET {"hold", "voicemail", "record", "again"}]
    /\ MaxReports \in Nat

VARIABLES
    env,      \* the environment, which does not change
    reports   \* number of repeated ends

rest == <<env, reports>>
vars == <<call, mediaVars, leg, rest>>

Init ==
    /\ env \in Environments
    /\ call = [c \in Calls |-> [state |-> "none", owner |-> "", held |-> FALSE]]
    /\ MediaInit /\ LegInit /\ reports = 0

(* A call begins while no other is active; ids are taken in order.         *)
Fresh(c) ==
    /\ c \in env.calls /\ call[c].state = "none" /\ \A d \in Calls : ~Live(d)
    /\ \A d \in Calls : call[d].state = "none" => c <= d

Asks(c, n) == asked[c] + n <= env.asks /\ asked' = [asked EXCEPT ![c] = @ + n]

(* SetHeld(true): a call without a web session gets one.                   *)
HeldAsks(c) == IF webSessions[c] = 0 THEN 1 ELSE 0

Begin(c, state, owner) == call' = [call EXCEPT ![c] = [state |-> state, owner |-> owner, held |-> FALSE]]
ButCall == UNCHANGED <<mediaVars, rest>>
ButAsked == UNCHANGED <<activeCall, cancel, generation, webSessions, task, voicemails, recorder,
                        ending, leg, rest>>

(* handleModem "call.incoming", with the SIP observer IncomingCall.        *)
Incoming(c) ==
    /\ Fresh(c) /\ Begin(c, "incoming", "")
    /\ leg' = IF c \in env.sip THEN [leg EXCEPT ![c] = [NoLeg EXCEPT !.dir = "in", !.pc = "inviting"]] ELSE leg
    /\ ButCall

(* DialRoute by the page, or a call begun on the phone itself.             *)
Dial(c) ==
    /\ Fresh(c) /\ (Begin(c, "dialing", "web") \/ Begin(c, "alerting", ""))
    /\ UNCHANGED leg /\ ButCall

(* handleDialog up to the return of DialFrom.                              *)
DialSip(c) ==
    /\ c \in env.sip /\ Fresh(c) /\ Begin(c, "dialing", "sip")
    /\ leg' = [leg EXCEPT ![c] = [NoLeg EXCEPT !.dir = "out", !.pc = "dialled"]]
    /\ ButCall

(* AnswerFrom by the page.                                                 *)
Answer(c) ==
    /\ c \in env.web /\ call[c].state = "incoming" /\ call[c].owner \in {"", "web"}
    /\ call' = [call EXCEPT ![c].state = "alerting", ![c].owner = "web"]
    /\ Asks(c, 1) /\ ButAsked

Hold(c) ==
    /\ call[c].state \in {"incoming", "alerting", "active"} /\ ~call[c].held
    /\ call[c].owner \in {"", "web"}
    /\ call' = [call EXCEPT ![c].state = IF @ = "incoming" THEN "alerting" ELSE @,
                            ![c].owner = "web", ![c].held = TRUE]
    /\ Asks(c, HeldAsks(c) + 1) /\ ButAsked

Resume(c) ==
    /\ call[c].state = "active" /\ call[c].held /\ call[c].owner = "web"
    /\ call' = [call EXCEPT ![c].held = FALSE]
    /\ Asks(c, 1) /\ ButAsked

(* TransferToVoicemail, and voicemailAfter for an incoming call.           *)
TransferToVoicemail(c) ==
    /\ \/ call[c].state \in {"incoming", "alerting"}
       \/ call[c].state = "active" /\ call[c].held
    /\ call' = [call EXCEPT ![c].state = IF @ = "incoming" THEN "alerting" ELSE @,
                            ![c].owner = "voicemail", ![c].held = FALSE]
    /\ IF call[c].state = "active" THEN StartVoicemail(c) ELSE UNCHANGED <<task, voicemails>>
    /\ UNCHANGED <<activeCall, cancel, generation, webSessions, asked, recorder, ending, leg, rest>>

(* handleModem "call.active"; phones repeat it.                            *)
ActiveReport(c) ==
    /\ Live(c) /\ (call[c].state = "active" => "again" \in env.acts)
    /\ call' = [call EXCEPT ![c].state = "active"]
    /\ IF call[c].owner = "voicemail" THEN StartVoicemail(c) ELSE UNCHANGED <<task, voicemails>>
    /\ IF call[c].owner # "voicemail" /\ call[c].held THEN Asks(c, HeldAsks(c)) ELSE UNCHANGED asked
    /\ UNCHANGED <<activeCall, cancel, generation, webSessions, recorder, ending, leg, rest>>

(* An Offer of a page, up to ensureWebSession.                             *)
Offer(c) ==
    /\ c \in env.web /\ call[c].state = "active" /\ call[c].owner \in {"", "web"}
    /\ Asks(c, 1) /\ UNCHANGED call /\ ButAsked

(* Service.Hangup by a user or by the answer deadline, and "call.ended".   *)
End(c) == Hangup(c, leg) /\ UNCHANGED <<MediaRest, rest>>

(* "call.ended" had read the record before Hangup wrote it: its write is   *)
(* refused, the observers are notified again all the same.                 *)
EndAgain(c) ==
    /\ Ended(c) /\ ending[c].pc = "no" /\ ~leg[c].ended
    /\ reports < MaxReports /\ reports' = reports + 1
    /\ ending' = [ending EXCEPT ![c].pc = "notified"]
    /\ leg' = [leg EXCEPT ![c].ended = TRUE]
    /\ UNCHANGED <<call, MediaRest, env>>

ServiceNext ==
    \/ \E c \in Calls :
           \/ Incoming(c) \/ Dial(c) \/ DialSip(c) \/ Answer(c) \/ Offer(c)
           \/ ActiveReport(c) \/ End(c)
    \/ "hold" \in env.acts /\ (Hold(1) \/ Resume(1))
    \/ "voicemail" \in env.acts /\ TransferToVoicemail(1)
    \/ "again" \in env.acts /\ EndAgain(1)
    \/ "record" \in env.acts /\ (StartRecording(1) \/ StopRecording(1)) /\ UNCHANGED <<leg, rest>>

Next ==
    \/ ServiceNext
    \/ MediaNext /\ UNCHANGED <<leg, rest>>
    \/ LegNext /\ UNCHANGED rest

(* Users, phones and failures are free; goroutines go on.                  *)
Spec == Init /\ [][Next]_vars
FairSpec == Spec /\ MediaFairness /\ LegFairness

-----------------------------------------------------------------------------
Owners == {"", "web", "sip", "voicemail"}
Pcs == {"waiting", "opening", "running", "greeting", "recording", "stopping", "releasing", "returned", "done"}

(* The types of the variables.                                             *)
TypeOK ==
    /\ call \in [Calls -> [state : {"none", "incoming", "dialing", "alerting", "active", "ended"},
                           owner : Owners, held : BOOLEAN]]
    /\ activeCall \in Calls \union {None} /\ cancel \in 0..MaxTasks /\ generation \in 0..MaxTasks
    /\ webSessions \in [Calls -> 0..MaxTasks]
    /\ task \in [Gens -> [kind : {"none", "web", "voicemail", "sip"}, call : Calls \union {None},
                          pc : Pcs, cancelled : BOOLEAN, late : BOOLEAN]]
    /\ asked \in [Calls -> 0..MaxAsked] /\ voicemails \subseteq Calls
    /\ recorder \in {None} \union [call : Calls, late : BOOLEAN]
    /\ ending \in [Calls -> [pc : {"no", "notified", "read"}, cancel : 0..MaxTasks]]
    /\ leg \in [Calls -> [dir : {"none", "in", "out"},
                          pc : {"none", "inviting", "answering", "dialled", "waiting", "accepting", "bridging",
                                "starting", "running", "bridged", "hangup", "done"},
                          task : 0..MaxTasks, cancelled : BOOLEAN, set : BOOLEAN, ended : BOOLEAN]]
    /\ env \in Environments /\ reports \in 0..MaxReports

(* "A call has exactly one media owner" (BridgePCM): a task that has not   *)
(* been cancelled is the one the manager knows, whatever order the tasks   *)
(* began, were cancelled and cleaned up in.                                *)
OneMediaOwner ==
    \A g \in Gens :
        task[g].pc # "done" /\ ~task[g].cancelled =>
            g = generation /\ cancel = g /\ activeCall = task[g].call

(* When a call has ended, its audio tasks end, except a voicemail whose    *)
(* goroutine began only after the end (EndCall).                           *)
MediaEndsWithCall ==
    \A g \in Gens :
        (task[g].pc # "done" /\ Ended(task[g].call) /\ ~task[g].late) ~> (task[g].pc = "done")

(* When no call is left the manager is free again, so that the next call   *)
(* is not refused with MEDIA_BUSY; this holds for late voicemails, too.    *)
MediaFreed == (\A c \in Calls : ~Live(c)) ~> (activeCall = None \/ \E c \in Calls : Live(c))

(* A recording stops after its call, except one that starts after the end: *)
(* of a late voicemail, or by a user while the last task of the call is    *)
(* being cleaned up.                                                       *)
RecorderStops ==
    (recorder # None /\ Ended(recorder.call) /\ ~recorder.late) ~> (recorder = None)

(* Nobody waits for ever for the web session of a call that is active or   *)
(* has ended: waitReady returns.                                           *)
SessionSettles ==
    \A g \in Gens :
        (~Ready(g) /\ task[g].kind = "web" /\ call[task[g].call].state \in {"active", "ended"}) ~> Ready(g)

(* After the end of a call its SIP leg is taken down, and no leg of an     *)
(* ended call stays registered.                                            *)
LegEndsWithCall ==
    []<>(\A c \in Calls : Ended(c) => leg[c].pc \in {"none", "done"} /\ ~leg[c].set)

(* The call that a SIP client has dialled and that was put through ends    *)
(* when its bridge ends, for whatever reason (handleDialog).               *)
DialledCallEnds ==
    \A c \in Calls : (leg[c].dir = "out" /\ leg[c].pc = "running" /\ leg[c].cancelled) ~> Ended(c)

(* What does not hold: a SIP client that gives up ends the cellular call.  *)
(* When it gives up before the call is active, handleDialog returns from   *)
(* waitForActive without hanging up.                                       *)
ClientEndsCall == \A c \in Calls : (leg[c].dir = "out" /\ leg[c].cancelled) ~> Ended(c)

(* What does not hold: a voicemail ends with its call. It does not when    *)
(* its goroutine begins after the end and the next call is active then.    *)
VoicemailEndsWithCall ==
    \A c \in Calls, g \in Gens :
        (Ended(c) /\ task[g].call = c /\ task[g].kind = "voicemail") ~> (task[g].pc = "done")
=============================================================================
