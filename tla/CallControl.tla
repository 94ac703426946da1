---------------------------- MODULE CallControl ----------------------------
(***************************************************************************)
(* The life of calls in internal/app/service.go: the operations that the   *)
(* web, Telegram and SIP sides invoke under the mutex `actions', the modem *)
(* event goroutine handleModem, the writers that take no lock (Mute, DTMF, *)
(* the recorder), the voicemail timers, and the phones, which are driven   *)
(* through the route that internal/modem/multi.go keeps in `selected'.     *)
(*                                                                         *)
(* Each process works on a private copy of a call (store.Call returns one) *)
(* and writes it back with version + 1; UpsertCall refuses a version that  *)
(* does not follow the stored one.  A step of the model is one access to   *)
(* shared state: the store, the selected route or a phone.                 *)
(***************************************************************************)
EXTENDS Integers, Sequences, FiniteSets

CONSTANTS
    CallIDs, Gateways,
    None,          \* nil, the empty gateway id, the empty owner
    Voicemail,     \* Settings.VoicemailEnabled
    Modems,        \* "at": an AT modem; "android": Android phones
    Faults,        \* commands and route selections may fail at any time
    Recorder,      \* the recorder writes calls too
    LateNumbers,   \* a phone may report a call before it knows the caller
    MaxCommands,   \* bound on the operations invoked
    MaxLegs,       \* bound on the cellular calls the phones make or get
    MaxRepeats,    \* bound on the repeated reports of the phones
    MaxQueue,      \* bound on the events waiting per phone
    MaxRestarts    \* bound on restarts of the server

ASSUME BoundsAssumption ==
    /\ {MaxCommands, MaxLegs, MaxRepeats, MaxQueue, MaxRestarts} \subseteq Nat
    /\ {Voicemail, Faults, Recorder, LateNumbers} \subseteq BOOLEAN
    /\ Gateways # {} /\ IsFiniteSet(Gateways)
    /\ Modems \subseteq {"at", "android"}
    /\ Faults \/ "at" \in Modems => Cardinality(Gateways) = 1
    /\ None \notin CallIDs \cup Gateways

LiveStates == {"incoming", "dialing", "alerting", "active"}
TerminalStates == {"ended", "failed"}
Owners == {"web", "sip", "voicemail"}
Call == [id : CallIDs \cup {None}, version : Nat, state : LiveStates \cup TerminalStates,
         owner : Owners \cup {None}, held : BOOLEAN, gateway : Gateways \cup {None},
         number : Nat]  \* 0 is the empty number

(* The nil pointer is no call, and the empty owner no side.                *)
ASSUME NoneAssumption == None \notin Call \cup Owners

(* The states of a cellular call on a phone; None is a phone without one.  *)
LegStates == {"ringing", "dialing", "answering", "active", "disconnected"}
ASSUME LegAssumption == None \notin LegStates

VARIABLES
    modem,                \* which of Modems this server has
    calls, activeCallID,  \* the store
    selected,             \* multiController.selected
    leg,                  \* per phone: the cellular call on it
    events,               \* per phone: events on their way to handleModem
    lastClip,             \* the AT controller's last caller: the n-th leg's is n
    op,                   \* the operation that holds `actions', or Idle
    ev,                   \* the modem event goroutine
    side,                 \* a writer without the lock
    timers,               \* calls with a voicemailAfter goroutine
    commands, legs, repeats, restarts  \* counters for the bounds

store == <<calls, activeCallID>>
counters == <<commands, legs, repeats, restarts, lastClip, modem>>
vars == <<store, selected, leg, events, op, ev, side, timers, counters>>

AT == modem = "at"

Proc(pc, kind, call) == [pc |-> pc, kind |-> kind, call |-> call]
Idle == Proc("idle", None, None)

NewCall(state, owner, g, number) ==
    [id |-> None, version |-> 1, state |-> state, owner |-> owner, held |-> FALSE,
     gateway |-> g, number |-> number]
Fresh == {c \in CallIDs : calls[c] = None}
Next1(call) == [call EXCEPT !.version = @ + 1]

ActiveCall == IF activeCallID = None THEN None ELSE calls[activeCallID]

Accepted(v) == calls[v.id] # None => v.version = calls[v.id].version + 1

UpsertCall(v) ==
    IF Accepted(v)
    THEN /\ calls' = [calls EXCEPT ![v.id] = v]
         /\ activeCallID' = IF v.state \in LiveStates THEN v.id
                            ELSE IF activeCallID = v.id THEN None
                            ELSE activeCallID
    ELSE UNCHANGED store

-----------------------------------------------------------------------------
(* Routes.  An empty gateway id means the selected gateway.  A route can   *)
(* fail while its phone is offline; an AT modem has no routes to select.   *)

resolve(g) == IF g # None THEN g ELSE selected
initialRoute == IF Cardinality(Gateways) = 1 THEN CHOOSE g \in Gateways : TRUE ELSE None

(* The leg a command on route g meets, None also when there is no route.    *)
legOn(g) == IF g = None THEN None ELSE leg[g]

SelectRoute(g) == resolve(g) # None /\ selected' = resolve(g)
SelectRouteFails(g) == (resolve(g) = None \/ (Faults /\ ~AT)) /\ UNCHANGED selected

-----------------------------------------------------------------------------
(* The phones: a leg goes ringing -> answering -> active or dialing ->     *)
(* active, and at its end disconnected -> None.  Each change is reported.  *)

Event(type, number) == [type |-> type, number |-> number]
Emit(g, e) == Len(events[g]) < MaxQueue /\ events' = [events EXCEPT ![g] = Append(@, e)]
phoneOnly == <<store, selected, op, ev, side, timers, commands, restarts, modem>>
quietly == <<phoneOnly, repeats, lastClip>>

NewLeg(g, state) ==
    /\ leg[g] = None /\ legs < MaxLegs
    /\ leg' = [leg EXCEPT ![g] = state] /\ legs' = legs + 1

(* The first RING of an AT modem comes before +CLIP, with the caller that   *)
(* was reported last.                                                       *)
FirstNumbers == IF AT THEN {lastClip} ELSE IF LateNumbers THEN {0, 1} ELSE {1}

Ring(g) ==
    /\ NewLeg(g, "ringing")
    /\ \E number \in FirstNumbers : Emit(g, Event("incoming", number))
    /\ UNCHANGED quietly

Clip(g) ==
    /\ AT /\ leg[g] = "ringing" /\ lastClip' = legs /\ Emit(g, Event("incoming", legs))
    /\ UNCHANGED <<phoneOnly, repeats, leg, legs>>

(* RING comes again and again; Android reports the state of a call on every *)
(* change of its details.                                                   *)
Reported(state) ==
    CASE state \in {"ringing", "answering"} -> "incoming"
      [] state = "dialing" -> "alerting"
      [] state = "active" -> "active"
      [] state = "disconnected" -> "ended"

Repeat(g) ==
    /\ repeats < MaxRepeats /\ repeats' = repeats + 1
    /\ leg[g] # None /\ (AT => leg[g] = "ringing")
    /\ Emit(g, Event(Reported(leg[g]), IF AT THEN lastClip ELSE 1))
    /\ UNCHANGED <<phoneOnly, lastClip, leg, legs>>

HandsetDial(g) ==
    /\ ~AT /\ NewLeg(g, "dialing") /\ Emit(g, Event("alerting", 1))
    /\ UNCHANGED quietly

Connect(g) ==
    /\ leg[g] \in {"dialing", "answering"}
    /\ leg' = [leg EXCEPT ![g] = "active"] /\ Emit(g, Event("active", 1))
    /\ UNCHANGED <<quietly, legs>>

Drop(g) ==
    /\ leg[g] \in {"ringing", "dialing", "answering", "active"}
    /\ leg' = [leg EXCEPT ![g] = IF AT THEN None ELSE "disconnected"]
    /\ Emit(g, Event("ended", 1))
    /\ UNCHANGED <<quietly, legs>>

(* Android reports the end again when the call object is removed.          *)
Removed(g) ==
    /\ leg[g] = "disconnected"
    /\ leg' = [leg EXCEPT ![g] = None] /\ Emit(g, Event("ended", 1))
    /\ UNCHANGED <<quietly, legs>>

PhoneStep ==
    \E g \in Gateways :
        \/ Ring(g) \/ Clip(g) \/ Repeat(g) \/ HandsetDial(g) \/ Connect(g) \/ Drop(g) \/ Removed(g)

-----------------------------------------------------------------------------
(* Operations under `actions'.  DialRoute checks for an active call, writes *)
(* the new call, then commands the phone.                                   *)

Invoke == op = Idle /\ commands < MaxCommands /\ commands' = commands + 1

DialRoute(owner, g) ==
    /\ Invoke /\ ActiveCall = None /\ Fresh # {}
    /\ op' = Proc("create", "dial", NewCall("dialing", owner, g, 1))
    /\ UNCHANGED <<store, selected, leg, events, ev, side, timers, legs, repeats, restarts, lastClip, modem>>

OpCreate(c) ==
    /\ op.pc = "create"
    /\ UpsertCall([op.call EXCEPT !.id = c])
    /\ op' = Proc("command", "dial", [op.call EXCEPT !.id = c])
    /\ UNCHANGED <<selected, leg, events, ev, side, timers, counters>>

OpDial ==
    /\ op.pc = "command" /\ op.kind = "dial"
    /\ LET g == resolve(op.call.gateway) IN
       \/ /\ g # None /\ leg[g] = None
          /\ selected' = g /\ leg' = [leg EXCEPT ![g] = "dialing"]
          /\ IF AT THEN UNCHANGED events ELSE Emit(g, Event("alerting", 1))
          /\ op' = Idle
       \/ /\ g = None \/ legOn(g) # None \/ Faults
          /\ selected' \in {selected, g}
          /\ op' = [op EXCEPT !.pc = "failed"]
          /\ UNCHANGED <<leg, events>>
    /\ UNCHANGED <<store, ev, side, timers, counters>>

OpFailed ==
    /\ op.pc = "failed"
    /\ UpsertCall([Next1(op.call) EXCEPT !.state = "failed"])
    /\ op' = Idle
    /\ UNCHANGED <<selected, leg, events, ev, side, timers, counters>>

(* Hold refuses a call of another owner (MEDIA_BUSY).                      *)
MayHoldAny(call) ==  \* mutant: whoever owns it
    call.state \in {"incoming", "alerting", "active"} /\ ~call.held
MayHold(call) ==
    /\ call.state \in {"incoming", "alerting", "active"}
    /\ ~call.held /\ call.owner \in {None, "web"}

(* What each operation requires of the copy it reads.                      *)
Admitted(kind, call) ==
    /\ call # None
    /\ CASE kind \in {"web", "sip"} ->  \* AnswerFrom
              call.state = "incoming" /\ call.owner \in {None, kind}
         [] kind = "hold" -> MayHold(call)
         [] kind = "resume" ->
              call.state = "active" /\ call.held /\ call.owner = "web"
         [] kind = "transfer" ->
              /\ call.state \in {"incoming", "alerting", "active"}
              /\ call.state = "active" => call.held
         [] kind = "voicemail" -> call.state = "incoming"
         [] kind = "hangup" -> call.state \notin TerminalStates

Begin(kind, call) == Proc(IF kind = "resume" THEN "claim" ELSE "select", kind, call)

Operate(kind, c) ==
    /\ Invoke /\ Admitted(kind, calls[c])
    /\ op' = Begin(kind, calls[c])
    /\ UNCHANGED <<store, selected, leg, events, ev, side, timers, legs, repeats, restarts, lastClip, modem>>

(* The voicemailAfter goroutine of call c gets the lock.                   *)
VoicemailAfter(c) ==
    /\ c \in timers /\ op = Idle
    /\ timers' = timers \ {c}
    /\ op' = IF Admitted("voicemail", calls[c]) THEN Begin("voicemail", calls[c]) ELSE Idle
    /\ UNCHANGED <<store, selected, leg, events, ev, side, counters>>

OpSelect ==
    /\ op.pc = "select"
    /\ \/ /\ SelectRoute(op.call.gateway)
          /\ op' = [op EXCEPT !.pc = IF op.kind = "hangup" THEN "command" ELSE "claim"]
       \/ /\ SelectRouteFails(op.call.gateway)
          /\ op' = IF op.kind = "hangup" THEN [op EXCEPT !.pc = "command"] ELSE Idle
    /\ UNCHANGED <<store, leg, events, ev, side, timers, counters>>

Transferred(v) == [v EXCEPT !.owner = "voicemail", !.held = FALSE]

Claimed(kind, call) ==
    LET v == Next1(call) IN
    CASE kind \in {"web", "sip"} -> [v EXCEPT !.owner = kind]
      [] kind = "hold" -> [v EXCEPT !.owner = "web", !.held = TRUE]
      [] kind = "resume" -> [v EXCEPT !.held = FALSE]
      [] kind = "transfer" -> Transferred(v)
      [] kind = "voicemail" -> [v EXCEPT !.owner = "voicemail"]

(* Mutant: the call is answered although the claim was refused.             *)
OpClaimIgnored ==
    /\ op.pc = "claim"
    /\ LET v == Claimed(op.kind, op.call) IN
       /\ UpsertCall(v)
       /\ op' = IF v.state = "incoming" THEN Proc("command", op.kind, v) ELSE Idle
    /\ UNCHANGED <<selected, leg, events, ev, side, timers, counters>>

(* The claim is stored; only a claimed incoming call is then answered.     *)
OpClaim ==
    /\ op.pc = "claim"
    /\ LET v == Claimed(op.kind, op.call) IN
       /\ UpsertCall(v)
       /\ op' = IF Accepted(v) /\ v.state = "incoming" THEN Proc("command", op.kind, v) ELSE Idle
    /\ UNCHANGED <<selected, leg, events, ev, side, timers, counters>>

OpAnswer ==
    /\ op.pc = "command" /\ op.kind \notin {"dial", "hangup"}
    /\ \/ /\ legOn(selected) # None
          /\ leg' = [leg EXCEPT ![selected] = IF @ = "ringing" THEN "answering" ELSE @]
          /\ op' = [op EXCEPT !.pc = "alert"]
       \/ /\ legOn(selected) = None \/ Faults
          /\ op' = [op EXCEPT !.pc = "rollback"]
          /\ UNCHANGED leg
    /\ UNCHANGED <<store, selected, events, ev, side, timers, counters>>

OpAlert ==
    /\ op.pc = "alert"
    /\ UpsertCall([Next1(op.call) EXCEPT !.state = "alerting"])
    /\ op' = Idle
    /\ UNCHANGED <<selected, leg, events, ev, side, timers, counters>>

OpRollback ==
    /\ op.pc = "rollback"
    /\ UpsertCall([Next1(op.call) EXCEPT !.owner = None,
                                         !.held = IF op.kind = "hold" THEN FALSE ELSE @])
    /\ op' = Idle
    /\ UNCHANGED <<selected, leg, events, ev, side, timers, counters>>

(* Hangup commands the phone on the selected route, whatever that returns. *)
OpHangup ==
    /\ op.pc = "command" /\ op.kind = "hangup"
    /\ \/ /\ legOn(selected) \notin {None, "disconnected"}
          /\ leg' = [leg EXCEPT ![selected] = IF AT THEN None ELSE "disconnected"]
          /\ Emit(selected, Event("ended", 1))
       \/ /\ legOn(selected) \in {None, "disconnected"} \/ Faults
          /\ UNCHANGED <<leg, events>>
    /\ op' = [op EXCEPT !.pc = "end"]
    /\ UNCHANGED <<store, selected, ev, side, timers, counters>>

OpEnd ==
    /\ op.pc = "end"
    /\ UpsertCall([Next1(op.call) EXCEPT !.state = "ended", !.held = FALSE])
    /\ op' = Idle
    /\ UNCHANGED <<selected, leg, events, ev, side, timers, counters>>

Operation ==
    \/ \E owner \in {"web", "sip"}, g \in Gateways \cup {None} : DialRoute(owner, g)
    \/ \E c \in CallIDs :
          \/ \E kind \in {"web", "sip", "hold", "resume", "transfer", "hangup"} : Operate(kind, c)
          \/ VoicemailAfter(c)

OperationStep ==
    \/ \E c \in Fresh : OpCreate(c)
    \/ OpDial \/ OpFailed \/ OpSelect \/ OpClaim \/ OpAnswer \/ OpAlert \/ OpRollback
    \/ OpHangup \/ OpEnd

-----------------------------------------------------------------------------
(* handleModem: one event of some phone is taken at a time.  An event is    *)
(* applied to whatever call is active, and the result of the write is not   *)
(* looked at.                                                               *)

EndsAnswered(a) == a # None /\ a.state # "incoming"  \* mutant: not before an answer
Ends(a) == a # None

Handled(e, g) ==
    LET a == ActiveCall IN
    CASE e.type = "incoming" /\ a = None ->
           Proc("select", "incoming", NewCall("incoming", None, g, e.number))
      [] e.type = "incoming" /\ a # None ->
           IF a.state = "incoming" /\ a.number = 0 /\ e.number # 0
           THEN Proc("write", "incoming", [Next1(a) EXCEPT !.number = e.number])
           ELSE Idle
      [] e.type = "alerting" /\ a = None ->
           Proc("select", "alerting", NewCall("alerting", None, g, e.number))
      [] e.type = "alerting" /\ a # None ->
           Proc("write", "alerting", [Next1(a) EXCEPT !.state = "alerting"])
      [] e.type = "active" /\ a # None ->
           Proc("select", "active", [Next1(a) EXCEPT !.state = "active"])
      [] e.type = "ended" /\ Ends(a) ->
           Proc("write", "ended", [Next1(a) EXCEPT !.state = "ended", !.held = FALSE])
      [] OTHER -> Idle

HandleModem(g) ==
    /\ ev = Idle /\ events[g] # <<>>
    /\ ev' = Handled(Head(events[g]), g)
    /\ events' = [events EXCEPT ![g] = Tail(@)]
    /\ UNCHANGED <<store, selected, leg, op, side, timers, counters>>

EvSelect ==
    /\ ev.pc = "select"
    /\ \/ /\ SelectRoute(ev.call.gateway)
          /\ ev' = [ev EXCEPT !.pc = IF ev.kind = "active" THEN "write" ELSE "create"]
       \/ /\ SelectRouteFails(ev.call.gateway)
          /\ ev' = IF ev.kind = "active" THEN [ev EXCEPT !.pc = "write"] ELSE Idle
    /\ UNCHANGED <<store, leg, events, op, side, timers, counters>>

(* A new incoming call is hung up when the filter blocks it; otherwise its  *)
(* voicemail timer starts.                                                  *)
EvCreate(c) ==
    /\ ev.pc = "create"
    /\ LET v == [ev.call EXCEPT !.id = c] IN
       /\ UpsertCall(v)
       /\ \/ /\ ev.kind = "incoming"
             /\ ev' = Proc("filtered", "incoming", v)
             /\ UNCHANGED timers
          \/ /\ ev' = Idle
             /\ timers' = IF ev.kind = "incoming" /\ Voicemail THEN timers \cup {c} ELSE timers
    /\ UNCHANGED <<selected, leg, events, op, side, counters>>

EvWrite ==
    /\ ev.pc = "write"
    /\ UpsertCall(ev.call)
    /\ ev' = Idle
    /\ UNCHANGED <<selected, leg, events, op, side, timers, counters>>

(* Mutant: the event goroutine keeps the lock it asks Hangup to take.       *)
EvHangupLocked ==
    /\ ev.pc = "filtered" /\ op = Idle
    /\ op' = Proc("joining", "hangup", ev.call) /\ ev' = [ev EXCEPT !.pc = "joining"]
    /\ UNCHANGED <<store, selected, leg, events, side, timers, counters>>

(* The blocked call is hung up through Hangup, so the event goroutine waits *)
(* for the lock.                                                            *)
EvHangup ==
    /\ ev.pc = "filtered" /\ op = Idle
    /\ LET call == calls[ev.call.id] IN
       IF Admitted("hangup", call)
       THEN op' = Begin("hangup", call) /\ ev' = [ev EXCEPT !.pc = "joining"]
       ELSE ev' = Idle /\ UNCHANGED op
    /\ UNCHANGED <<store, selected, leg, events, side, timers, counters>>

EvJoin ==
    /\ ev.pc = "joining" /\ op = Idle
    /\ ev' = Idle
    /\ UNCHANGED <<store, selected, leg, events, op, side, timers, counters>>

EventStep ==
    \/ \E g \in Gateways : HandleModem(g)
    \/ EvSelect \/ EvWrite \/ EvHangup \/ EvJoin
    \/ \E c \in Fresh : EvCreate(c)

-----------------------------------------------------------------------------
(* Writers without the lock: Mute, DTMF (which writes nothing) and the      *)
(* recorder, which marks the call whose recording starts or stops.          *)

SideBegin(kind, c) ==
    /\ side = Idle /\ commands < MaxCommands /\ commands' = commands + 1
    /\ calls[c] # None
    /\ \/ /\ kind \in {"mute", "dtmf"} /\ calls[c].state = "active"
          /\ side' = Proc("select", kind, calls[c])
       \/ /\ kind = "recording" /\ Recorder /\ calls[c].state \in {"active", "ended"}
          /\ side' = Proc("write", kind, calls[c])
    /\ UNCHANGED <<store, selected, leg, events, op, ev, timers, legs, repeats, restarts, lastClip, modem>>

SideSelect ==
    /\ side.pc = "select"
    /\ \/ /\ SelectRoute(side.call.gateway)
          /\ side' = [side EXCEPT !.pc = "command"]
       \/ /\ SelectRouteFails(side.call.gateway)
          /\ side' = Idle
    /\ UNCHANGED <<store, leg, events, op, ev, timers, counters>>

SideCommand ==
    /\ side.pc = "command"
    /\ \/ side.kind = "mute" /\ side' = [side EXCEPT !.pc = "write"]
       \/ side.kind = "dtmf" /\ side' = Idle
       \/ Faults /\ side' = Idle
    /\ UNCHANGED <<store, selected, leg, events, op, ev, timers, counters>>

(* Mutant: the old copy is written under a version that fits.               *)
SideWriteForced ==
    /\ side.pc = "write"
    /\ UpsertCall([side.call EXCEPT !.version = calls[side.call.id].version + 1])
    /\ side' = Idle
    /\ UNCHANGED <<selected, leg, events, op, ev, timers, counters>>

SideWrite ==
    /\ side.pc = "write"
    /\ UpsertCall(Next1(side.call))
    /\ side' = Idle
    /\ UNCHANGED <<selected, leg, events, op, ev, timers, counters>>

SideStep ==
    \/ \E kind \in {"mute", "dtmf", "recording"}, c \in CallIDs : SideBegin(kind, c)
    \/ SideSelect \/ SideCommand \/ SideWrite

-----------------------------------------------------------------------------
(* The server restarts: the store comes back by replay, everything else is  *)
(* forgotten, and the events already read from the phones are lost.         *)
Restart ==
    /\ restarts < MaxRestarts /\ restarts' = restarts + 1
    /\ op' = Idle /\ ev' = Idle /\ side' = Idle /\ timers' = {} /\ selected' = initialRoute
    /\ lastClip' = 0
    /\ \E lost \in [Gateways -> 0..MaxQueue] :
          events' = [g \in Gateways |-> SubSeq(events[g], lost[g] + 1, Len(events[g]))]
    /\ UNCHANGED <<store, leg, commands, legs, repeats, modem>>

Init ==
    /\ modem \in Modems
    /\ calls = [c \in CallIDs |-> None] /\ activeCallID = None
    /\ selected = initialRoute
    /\ leg = [g \in Gateways |-> None] /\ events = [g \in Gateways |-> <<>>]
    /\ op = Idle /\ ev = Idle /\ side = Idle /\ timers = {}
    /\ commands = 0 /\ legs = 0 /\ repeats = 0 /\ restarts = 0 /\ lastClip = 0

Next == PhoneStep \/ Operation \/ OperationStep \/ EventStep \/ SideStep \/ Restart

Spec == Init /\ [][Next]_vars

(* The goroutines that have work to do run; phones, users and timers need    *)
(* not act.                                                                  *)
FairSpec == Spec /\ WF_vars(EventStep) /\ WF_vars(OperationStep)

-----------------------------------------------------------------------------
(* Type correctness.                                                        *)
Processes == [pc : {"create", "command", "failed", "select", "claim", "alert", "rollback",
                    "end", "write", "filtered", "joining"},
              kind : {"dial", "web", "sip", "hold", "resume", "transfer", "voicemail", "hangup",
                      "incoming", "alerting", "active", "ended", "mute", "dtmf", "recording"},
              call : Call] \cup {Idle}

TypeOK ==
    /\ calls \in [CallIDs -> Call \cup {None}]
    /\ activeCallID \in CallIDs \cup {None}
    /\ activeCallID # None => calls[activeCallID] # None
    /\ selected \in Gateways \cup {None}
    /\ leg \in [Gateways -> LegStates \cup {None}]
    /\ \A g \in Gateways : Len(events[g]) <= MaxQueue
    /\ op \in Processes /\ ev \in Processes /\ side \in Processes
    /\ timers \subseteq CallIDs

Terminal(call) == call # None /\ call.state \in TerminalStates
Live(call) == call # None /\ call.state \in LiveStates

(* A call that has ended or failed never comes back to life, although every *)
(* writer works on a private copy: a copy of the live call is out of date   *)
(* once the end has been stored.                                            *)
TerminalIsFinal ==
    [][\A c \in CallIDs : Terminal(calls[c]) => Terminal(calls'[c])]_vars

(* "A call has exactly one media owner": a call claimed by the web or the   *)
(* SIP side passes to voicemail or becomes free, never to the other side.   *)
OneOwner ==
    [][\A c \in CallIDs : Live(calls[c]) /\ calls[c].owner \in {"web", "sip"} =>
          calls'[c].owner \in {calls[c].owner, "voicemail", None}]_vars

(* When an operation answers a phone, the stored call carries its claim:    *)
(* no two sides ever answer the same call, and an end, a number or a state  *)
(* reported by the phone in between does not wipe the claim.                *)
ClaimedBeforeAnswer ==
    op.pc \in {"command", "alert"} /\ op.kind \notin {"dial", "hangup"} =>
        calls[op.call.id].owner = op.call.owner

(* Every phone is idle, and everything that was reported has been handled.  *)
Quiet ==
    /\ \A g \in Gateways : leg[g] = None /\ events[g] = <<>>
    /\ op = Idle /\ ev = Idle /\ side = Idle

(* "Incoming/outgoing calls connect and synchronize hangup state": once the *)
(* phones are idle and their events handled, no call is left live.          *)
HangupSynchronized == Quiet => \A c \in CallIDs : ~Live(calls[c])

(* What does not hold: "USB reconnect and container restart recover          *)
(* automatically", the same when the server has been restarted. The end of a *)
(* call is not looked for when it was reported to the server that stopped.   *)
RestartRecovers == restarts > 0 => HangupSynchronized

(* The same as progress: when all phones are idle, then unless one starts a  *)
(* new call, no call stays live.  The hangup of a filtered call waits for    *)
(* the lock inside the event goroutine, which must not block it for good.    *)
HangupReaches ==
    (\A g \in Gateways : leg[g] = None) ~>
        \/ \E g \in Gateways : leg[g] # None
        \/ \A c \in CallIDs : ~Live(calls[c])

(* "Local allow/block rules" apply to the caller: while a call rings on an   *)
(* AT modem and its reports are handled, the number of the stored call is    *)
(* that of the caller, or still unknown.                                     *)
CallerShown ==
    \A g \in Gateways :
        /\ AT /\ leg[g] = "ringing" /\ events[g] = <<>> /\ ev = Idle
        /\ ActiveCall # None /\ ActiveCall.state = "incoming"
        => ActiveCall.number \in {0, legs}

(* What does not hold with two phones: when an operation commands a phone,  *)
(* the selected route is the one of its call.                               *)
CommandReachesCall ==
    op.pc = "command" /\ op.kind # "dial" /\ op.call.gateway # None =>
        selected = op.call.gateway
=============================================================================
