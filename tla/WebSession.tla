----------------------------- MODULE WebSession -----------------------------
(***************************************************************************)
(* One callAudioSession of media/web_session.go from its first use to its  *)
(* end: the WebRTC peers that attach to it, the microphone channel, hold,  *)
(* and the deadline for browser audio after an answer. Steps are the       *)
(* critical sections of callAudioSession.mu and the channel operations     *)
(* between them. A frame is the peer it comes from; tones, fades and codecs*)
(* are left out. Who may own the audio is the subject of MediaManager.tla. *)
(***************************************************************************)
EXTENDS Integers, Sequences

CONSTANTS
    MaxPeers,     \* bound on the peers that attach one after the other
    MicCap,       \* capacity of the channel `mic', 100 in the code
    MaxHolds,     \* bound on Hold operations
    Environments  \* what a behaviour is about: a call that comes in or one that the page has
                  \* dialled and opened, bounds on peers and holds, whether the caller is heard

ASSUME WebSessionAssumption ==
    /\ MaxPeers \in Nat \ {0} /\ MicCap \in Nat \ {0} /\ MaxHolds \in Nat
    /\ Environments \subseteq [start : {"incoming", "dialled"}, peers : 0..MaxPeers,
                               holds : 0..MaxHolds, caller : BOOLEAN]

Peers == 1..MaxPeers

VARIABLES
    env,       \* the environment, which does not change
    call,      \* the record: state, held; its owner is "web"
    session,   \* "none", "opening", "ready" or "over"
    s,         \* the fields of callAudioSession; mic holds the peers of its frames
    peer,      \* peer -> conn, and pc of its enqueueMic
    waiting,   \* goroutines of BeginWaitingMedia and of SetHeld(true) that wait for the
               \* session, those about to start the deadline, and drainMic calls to come
    uplink,    \* pc of writeUplink
    downlink,  \* the peer that readDownlink is about to write to, or 0
    deadline,  \* pc of the goroutine of the current deadlineGen
    history    \* Hold operations; frames to the phone (up) and to the page (down) since
               \* setHeld(true); frames of replaced peers written

vars == <<env, call, session, s, peer, waiting, uplink, downlink, deadline, history>>

NoSession == [peerID |-> 0, out |-> FALSE, bridged |-> FALSE, everBridged |-> FALSE, held |-> FALSE,
              status |-> "waiting_for_permission", mic |-> <<>>]
NoPeer == [conn |-> "none", pc |-> "idle"]
NoWaiting == [begin |-> 0, hold |-> 0, start |-> 0, drain |-> 0]
NoHistory == [holds |-> 0, up |-> 0, down |-> 0, stale |-> 0]
NoDeadline == "none"

Init ==
    /\ env \in Environments /\ s = NoSession
    /\ \/ env.start = "incoming" /\ session = "none" /\ call = [state |-> "incoming", held |-> FALSE]
       \/ env.start = "dialled" /\ session = "ready" /\ call = [state |-> "active", held |-> FALSE]
    /\ peer = [p \in Peers |-> NoPeer] /\ waiting = NoWaiting
    /\ uplink = "idle" /\ downlink = 0 /\ deadline = NoDeadline /\ history = NoHistory

Ready == session = "ready"
Exists == session \in {"opening", "ready"}

-----------------------------------------------------------------------------
(* deadlineGen is only compared for equality: a deadline of an earlier     *)
(* generation does nothing any more, unless it is about to hang up, and is *)
(* forgotten here.                                                         *)
NextGen(d) == deadline' = IF deadline = "hangup" THEN deadline ELSE d

(* setHeld of the session: a critical section, and a drain when it holds.  *)
setHeld(h) ==
    /\ s' = [s EXCEPT !.held = h]
    /\ IF h THEN NextGen(NoDeadline) ELSE UNCHANGED deadline

(* Manager.SetHeld: without a session, SetHeld(true) leaves it to a        *)
(* goroutine, SetHeld(false) does nothing. n counts the goroutines of      *)
(* BeginWaitingMedia that the operation starts beside it.                  *)
SetHeld(h, n) ==
    IF Exists
      THEN /\ setHeld(h)
           /\ waiting' = [waiting EXCEPT !.begin = @ + n, !.drain = IF h THEN @ + 1 ELSE @]
      ELSE /\ waiting' = [waiting EXCEPT !.begin = @ + n, !.hold = IF h THEN @ + 1 ELSE @]
           /\ UNCHANGED <<s, deadline>>

(* The operations of app.Service on the call.                              *)
Answer ==
    /\ call.state = "incoming" /\ call' = [call EXCEPT !.state = "alerting"]
    /\ waiting' = [waiting EXCEPT !.begin = @ + 1]
    /\ UNCHANGED <<env, session, s, peer, uplink, downlink, deadline, history>>

Hold ==
    /\ session # "over" /\ call.state # "ended" /\ ~call.held /\ history.holds < env.holds
    /\ call' = [state |-> IF call.state = "incoming" THEN "alerting" ELSE call.state, held |-> TRUE]
    /\ SetHeld(TRUE, 1)
    /\ history' = [history EXCEPT !.holds = @ + 1,
                                  !.up = IF s.held THEN @ ELSE 0, !.down = IF s.held THEN @ ELSE 0]
    /\ UNCHANGED <<env, session, peer, uplink, downlink>>

ResumeQuiet ==  \* mutant: no deadline is started
    /\ session # "over" /\ call.state = "active" /\ call.held
    /\ call' = [call EXCEPT !.held = FALSE] /\ SetHeld(FALSE, 0)
    /\ UNCHANGED <<env, session, peer, uplink, downlink, history>>

Resume ==
    /\ session # "over" /\ call.state = "active" /\ call.held
    /\ call' = [call EXCEPT !.held = FALSE] /\ SetHeld(FALSE, 1)
    /\ UNCHANGED <<env, session, peer, uplink, downlink, history>>

(* handleModem "call.active".                                              *)
Active ==
    /\ call.state = "alerting" /\ call' = [call EXCEPT !.state = "active"]
    /\ IF call.held THEN SetHeld(TRUE, 0) ELSE UNCHANGED <<s, waiting, deadline>>
    /\ UNCHANGED <<env, session, peer, uplink, downlink, history>>

-----------------------------------------------------------------------------
(* The life of the session: ensureWebSession by the first goroutine that   *)
(* waits; run, when the audio is open; failStart, or a failure of the port *)
(* (setError); and EndCall. What is left of a session that is over is      *)
(* forgotten.                                                              *)
EnsureWebSession ==
    /\ session = "none" /\ waiting.begin + waiting.hold > 0 /\ session' = "opening"
    /\ UNCHANGED <<env, call, s, peer, waiting, uplink, downlink, deadline, history>>

Opened ==
    /\ session = "opening" /\ call.state = "active" /\ session' = "ready"
    /\ UNCHANGED <<env, call, s, peer, waiting, uplink, downlink, deadline, history>>

Over(state, status) ==
    /\ session' = "over" /\ call' = [state |-> state, held |-> FALSE]
    /\ s' = [NoSession EXCEPT !.status = status, !.everBridged = s.everBridged]
    /\ peer' = [p \in Peers |-> NoPeer] /\ waiting' = NoWaiting
    /\ uplink' = "idle" /\ downlink' = 0 /\ deadline' = NoDeadline /\ history' = NoHistory
    /\ UNCHANGED env

Fails == Exists /\ call.state = "active" /\ Over("active", "unavailable")
Ends == session # "over" /\ Over("ended", s.status)

(* The goroutine that SetHeld has left behind.                             *)
LateHold ==
    /\ Ready /\ waiting.hold > 0 /\ setHeld(TRUE)
    /\ waiting' = [waiting EXCEPT !.hold = @ - 1, !.drain = @ + 1]
    /\ history' = IF s.held THEN history ELSE [history EXCEPT !.up = 0, !.down = 0]
    /\ UNCHANGED <<env, call, session, peer, uplink, downlink>>

(* The goroutine of BeginWaitingMedia reads the record, then starts the    *)
(* deadline.                                                               *)
BeginRead ==
    /\ Ready /\ waiting.begin > 0
    /\ waiting' = [waiting EXCEPT !.begin = @ - 1, !.start = IF call.held THEN @ ELSE @ + 1]
    /\ UNCHANGED <<env, call, session, s, peer, uplink, downlink, deadline, history>>

startAnswerDeadline ==
    /\ Ready /\ waiting.start > 0 /\ waiting' = [waiting EXCEPT !.start = @ - 1]
    /\ NextGen("wait")
    /\ UNCHANGED <<env, call, session, s, peer, uplink, downlink, history>>

(* The goroutine of a deadline stops when browser audio was written, or    *)
(* its timer fires and it reads the record; then it looks at the session;  *)
(* then the handler hangs up.                                              *)
DeadlineStops ==
    /\ deadline = "wait" /\ s.everBridged /\ deadline' = NoDeadline
    /\ UNCHANGED <<env, call, session, s, peer, waiting, uplink, downlink, history>>

DeadlineFires ==
    /\ deadline = "wait"
    /\ deadline' = IF call.state = "active" /\ ~call.held THEN "check" ELSE NoDeadline
    /\ UNCHANGED <<env, call, session, s, peer, waiting, uplink, downlink, history>>

DeadlineChecks ==
    /\ deadline = "check"
    /\ IF s.everBridged THEN deadline' = NoDeadline /\ UNCHANGED s
       ELSE deadline' = "hangup" /\ s' = [s EXCEPT !.status = "timeout"]
    /\ UNCHANGED <<env, call, session, peer, waiting, uplink, downlink, history>>

DeadlineHangsUp == deadline = "hangup" /\ Over("ended", s.status)

-----------------------------------------------------------------------------
(* Offer: attachPeer replaces the peer and cancels the old one; it drains  *)
(* the channel before the new peer can send.                               *)
AttachPeer(p) ==
    /\ Ready /\ p = s.peerID + 1 /\ p <= env.peers
    /\ s' = [s EXCEPT !.peerID = p, !.out = TRUE, !.bridged = FALSE, !.status = "negotiating"]
    /\ peer' = [q \in Peers |->
                   IF q = p THEN [peer[q] EXCEPT !.conn = "attaching"]
                   ELSE IF q = s.peerID THEN [peer[q] EXCEPT !.conn = "gone"] ELSE peer[q]]
    /\ UNCHANGED <<env, call, session, waiting, uplink, downlink, deadline, history>>

AttachKeeps(p) ==  \* mutant: the channel is not drained
    /\ peer[p].conn = "attaching" /\ peer' = [peer EXCEPT ![p].conn = "attached"]
    /\ UNCHANGED <<env, call, session, s, waiting, uplink, downlink, deadline, history>>

AttachDrains(p) ==
    /\ peer[p].conn = "attaching" /\ peer' = [peer EXCEPT ![p].conn = "attached"]
    /\ s' = [s EXCEPT !.mic = <<>>]
    /\ UNCHANGED <<env, call, session, waiting, uplink, downlink, deadline, history>>

drainMic ==
    /\ waiting.drain > 0 /\ waiting' = [waiting EXCEPT !.drain = @ - 1]
    /\ s' = [s EXCEPT !.mic = <<>>]
    /\ UNCHANGED <<env, call, session, peer, uplink, downlink, deadline, history>>

(* Connection states of the peer: connected, disconnected, failed or given *)
(* up (cleanupPeer). One drain of a disconnection is pending at a time.    *)
markNegotiating(p) ==
    /\ peer[p].conn = "attached" /\ peer' = [peer EXCEPT ![p].conn = "connected"]
    /\ s' = [s EXCEPT !.status = IF s.peerID = p /\ ~s.bridged THEN "negotiating" ELSE @]
    /\ UNCHANGED <<env, call, session, waiting, uplink, downlink, deadline, history>>

Recovering(p) ==
    /\ s' = IF s.peerID = p THEN [s EXCEPT !.bridged = FALSE, !.status = "recovering"] ELSE s
    /\ waiting.drain = 0 /\ waiting' = [waiting EXCEPT !.drain = 1]

markRecovering(p) ==
    /\ peer[p].conn = "connected" /\ peer' = [peer EXCEPT ![p].conn = "attached"] /\ Recovering(p)
    /\ UNCHANGED <<env, call, session, uplink, downlink, deadline, history>>

detachPeer(p) ==
    /\ peer[p].conn \in {"attached", "connected"} /\ peer' = [peer EXCEPT ![p].conn = "gone"]
    /\ s' = IF s.peerID # p THEN s
            ELSE [s EXCEPT !.out = FALSE, !.bridged = FALSE,
                           !.status = IF @ = "timeout" THEN @ ELSE "recovering"]
    /\ waiting' = [waiting EXCEPT !.drain = @ + 1]
    /\ UNCHANGED <<env, call, session, uplink, downlink, deadline, history>>

(* browserToSession: enqueueMic in its three steps. While the session is   *)
(* held the first step drops the frame.                                    *)
EnqueueCheck(p) ==
    /\ peer[p].conn = "connected" /\ peer[p].pc = "idle" /\ s.peerID = p /\ ~s.held
    /\ peer' = [peer EXCEPT ![p].pc = IF s.bridged THEN "push" ELSE "first"]
    /\ UNCHANGED <<env, call, session, s, waiting, uplink, downlink, deadline, history>>

EnqueuePush(p) ==
    /\ peer[p].pc \in {"first", "push"}
    /\ s' = [s EXCEPT !.mic = Append(IF Len(@) < MicCap THEN @ ELSE Tail(@), p)]
    /\ peer' = [peer EXCEPT ![p].pc = IF @ = "first" THEN "mark" ELSE "idle"]
    /\ UNCHANGED <<env, call, session, waiting, uplink, downlink, deadline, history>>

EnqueueMarkOnce(p) ==  \* mutant: only the first peer of the session is bridged
    /\ peer[p].pc = "mark" /\ peer' = [peer EXCEPT ![p].pc = "idle"]
    /\ s' = [s EXCEPT !.bridged = @ \/ (s.peerID = p /\ ~s.everBridged)]
    /\ UNCHANGED <<env, call, session, waiting, uplink, downlink, deadline, history>>

EnqueueMark(p) ==
    /\ peer[p].pc = "mark" /\ peer' = [peer EXCEPT ![p].pc = "idle"]
    /\ s' = [s EXCEPT !.bridged = @ \/ s.peerID = p]
    /\ UNCHANGED <<env, call, session, waiting, uplink, downlink, deadline, history>>

-----------------------------------------------------------------------------
(* writeUplink at a tick: it reads the flags; then it writes a frame of    *)
(* the channel (or silence); then it notes what it has written. Without    *)
(* browser audio it writes the tone.                                       *)
UplinkReadHeld ==  \* mutant: a held session is not told apart
    /\ Ready /\ uplink = "idle" /\ s.bridged /\ uplink' = "write"
    /\ UNCHANGED <<env, call, session, s, peer, waiting, downlink, deadline, history>>

UplinkRead ==
    /\ Ready /\ uplink = "idle" /\ s.bridged /\ ~s.held /\ uplink' = "write"
    /\ UNCHANGED <<env, call, session, s, peer, waiting, downlink, deadline, history>>

UplinkWrite ==
    /\ uplink = "write"
    /\ IF s.mic = <<>> THEN uplink' = "idle" /\ UNCHANGED <<s, history>>
       ELSE /\ uplink' = "mark" /\ s' = [s EXCEPT !.mic = Tail(@)]
            /\ history' = [history EXCEPT !.up = IF s.held THEN @ + 1 ELSE @,
                                          !.stale = IF Head(s.mic) # s.peerID THEN @ + 1 ELSE @]
    /\ UNCHANGED <<env, call, session, peer, waiting, downlink, deadline>>

UplinkMark ==
    /\ uplink = "mark" /\ uplink' = "idle"
    /\ s' = [s EXCEPT !.everBridged = TRUE, !.status = "bridged"]
    /\ UNCHANGED <<env, call, session, peer, waiting, downlink, deadline, history>>

(* readDownlink reads the track and the flags, then writes to the track;   *)
(* when that fails the peer it has read is recovering.                     *)
DownlinkRead ==
    /\ env.caller /\ Ready /\ downlink = 0 /\ s.out /\ ~s.held /\ downlink' = s.peerID
    /\ UNCHANGED <<env, call, session, s, peer, waiting, uplink, deadline, history>>

DownlinkWrite ==
    /\ downlink # 0 /\ downlink' = 0
    /\ \/ /\ history' = [history EXCEPT !.down = IF s.held THEN @ + 1 ELSE @]
          /\ UNCHANGED <<s, waiting>>
       \/ peer[downlink].conn = "gone" /\ Recovering(downlink) /\ UNCHANGED history
    /\ UNCHANGED <<env, call, session, peer, uplink, deadline>>

-----------------------------------------------------------------------------
Enqueue(p) == EnqueueCheck(p) \/ EnqueuePush(p) \/ EnqueueMark(p)
Uplink == UplinkRead \/ UplinkWrite \/ UplinkMark
Deadline == DeadlineFires \/ DeadlineStops \/ DeadlineChecks \/ DeadlineHangsUp

Next ==
    \/ Answer \/ Hold \/ Resume \/ Active \/ Ends \/ EnsureWebSession \/ Opened \/ Fails
    \/ LateHold \/ BeginRead \/ startAnswerDeadline \/ Deadline
    \/ \E p \in Peers :
           \/ AttachPeer(p) \/ AttachDrains(p) \/ detachPeer(p) \/ markNegotiating(p) \/ markRecovering(p)
           \/ Enqueue(p)
    \/ drainMic \/ Uplink \/ DownlinkRead \/ DownlinkWrite

(* Users, browsers and the phone are free; goroutines and timers go on.    *)
Spec == Init /\ [][Next]_vars
FairSpec ==
    /\ Spec /\ WF_vars(BeginRead) /\ WF_vars(startAnswerDeadline) /\ WF_vars(Deadline)
    /\ WF_vars(drainMic) /\ WF_vars(Uplink) /\ \A p \in Peers : WF_vars(Enqueue(p))

-----------------------------------------------------------------------------
(* The types of the variables.                                             *)
TypeOK ==
    /\ call \in [state : {"incoming", "alerting", "active", "ended"}, held : BOOLEAN]
    /\ session \in {"none", "opening", "ready", "over"}
    /\ s.peerID \in 0..MaxPeers /\ Len(s.mic) <= MicCap
    /\ s.status \in {"waiting_for_permission", "negotiating", "recovering", "bridged", "timeout", "unavailable"}
    /\ peer \in [Peers -> [conn : {"none", "attaching", "attached", "connected", "gone"},
                           pc : {"idle", "first", "push", "mark"}]]
    /\ \A w \in DOMAIN waiting : waiting[w] \in Nat
    /\ uplink \in {"idle", "write", "mark"} /\ downlink \in 0..MaxPeers
    /\ deadline \in {"none", "wait", "check", "hangup"}

(* Hold replaces both directions: at most the frame that a direction had   *)
(* in hand when the session was put on hold still passes.                  *)
HeldSilence == s.held => history.up <= 1 /\ history.down <= 1

(* A new peer replaces the old one: for each peer that was replaced at     *)
(* most two frames still reach the phone, the one that writeUplink takes   *)
(* before the drain and the one that enqueueMic had in hand.               *)
Replaced == IF s.peerID = 0 THEN 0 ELSE s.peerID - 1
OldPeerSilent == history.stale <= 2 * Replaced

(* An answered call does not stay without browser audio: audio is written, *)
(* the call is held, or the deadline ends it. A SetHeld(true) that comes   *)
(* late, after Resume, stops the deadline as well.                         *)
AnswerSettles ==
    (env.start = "incoming" /\ Ready /\ ~call.held)
        ~> (s.everBridged \/ session = "over" \/ call.held \/ s.held)

Steady(p) == Ready /\ s.peerID = p /\ peer[p].conn = "connected" /\ ~s.held

(* The page that stays connected and is not on hold is heard in the end,   *)
(* whatever peers, disconnections and holds there were before.             *)
PeerHeard == \A p \in Peers : <>[]Steady(p) => []<>(s.status = "bridged")

(* What does not hold: Resume ends the hold of the session. A SetHeld(true)*)
(* that waited for the session takes effect after it.                      *)
ResumeTakesEffect ==
    (Ready /\ s.held /\ ~call.held) ~> (~s.held \/ call.held \/ session = "over")
=============================================================================
