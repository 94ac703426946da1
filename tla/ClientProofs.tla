---------------------------- MODULE ClientProofs ----------------------------
(***************************************************************************)
(* Proofs about what the server does for its clients. WebSession, the      *)
(* audio of a browser, for any number of peers and holds and any capacity  *)
(* of the channel: hold silences both directions, and a peer that was      *)
(* replaced falls silent. SipDelivery, the messages for the SIP client,    *)
(* for any number of messages, users' writes, passes of deliverPending and *)
(* restarts: memory is durable outside the moment between the change of    *)
(* the shared record and the write, and what counts as delivered was       *)
(* accepted by the client.                                                 *)
(***************************************************************************)
EXTENDS WebSession, SipDelivery, SequenceTheorems, FiniteSetTheorems, TLAPS

-----------------------------------------------------------------------------
(* The web session.                                                        *)

(* The types.                                                              *)
Statuses == {"waiting_for_permission", "negotiating", "recovering", "bridged", "timeout", "unavailable"}
CallRecords == [state : {"incoming", "alerting", "active", "ended"}, held : BOOLEAN]
Sessions == [peerID : 0..MaxPeers, out : BOOLEAN, bridged : BOOLEAN, everBridged : BOOLEAN,
             held : BOOLEAN, status : Statuses, mic : Seq(Peers)]
PeerRecords == [conn : {"none", "attaching", "attached", "connected", "gone"},
                pc : {"idle", "first", "push", "mark"}]
Waits == [begin : Nat, hold : Nat, start : Nat, drain : Nat]
Histories == [holds : Nat, up : Nat, down : Nat, stale : Nat]
Uplinks == {"idle", "write", "mark"}
Deadlines == {"none", "wait", "check", "hangup"}

SessionTyped ==
    /\ call \in CallRecords /\ session \in {"none", "opening", "ready", "over"}
    /\ s \in Sessions /\ Len(s.mic) <= MicCap /\ peer \in [Peers -> PeerRecords]
    /\ waiting \in Waits /\ uplink \in Uplinks /\ downlink \in 0..MaxPeers
    /\ deadline \in Deadlines /\ history \in Histories

(* Audio moves only in a session that is ready, and that one is of an      *)
(* active call.                                                            *)
ReadyIsActive == session = "ready" => call.state = "active"
QuietBefore ==
    session # "ready" => uplink = "idle" /\ downlink = 0 /\ history.up = 0 /\ history.down = 0

(* While the session is held: frames that passed, and the one in hand.     *)
One(b) == IF b THEN 1 ELSE 0
HoldCounted ==
    s.held => /\ history.up + One(uplink = "write") <= 1
              /\ history.down + One(downlink # 0) <= 1

(* Peers attach in order; only one that has been drained sends.            *)
PeersInOrder ==
    /\ \A p \in Peers : p > s.peerID => peer[p] = NoPeer
    /\ \A p \in Peers : peer[p].conn = "attaching" => p = s.peerID /\ peer[p].pc = "idle"
    /\ s.bridged => s.peerID # 0 /\ peer[s.peerID].conn # "attaching"

(* Before the first peer there is nothing to write.                        *)
NoneBefore == s.peerID = 0 => s.mic = <<>> /\ uplink # "write" /\ history.stale = 0

(* Frames of replaced peers: written, in the channel or what writeUplink   *)
(* is about to take before the drain, and in the hands of enqueueMic.      *)
Foreign(q, p) == {i \in 1..Len(q) : q[i] # p}
InHand(peers, p) == {q \in Peers : q # p /\ peers[q].pc \in {"first", "push"}}
Attaching == s.peerID # 0 /\ peer[s.peerID].conn = "attaching"
Passing == IF Attaching THEN One(uplink = "write") ELSE Cardinality(Foreign(s.mic, s.peerID))
StaleCounted ==
    history.stale + Passing + Cardinality(InHand(peer, s.peerID)) <= 2 * Replaced

SessionInv ==
    /\ SessionTyped /\ ReadyIsActive /\ QuietBefore /\ HoldCounted
    /\ PeersInOrder /\ NoneBefore /\ StaleCounted

-----------------------------------------------------------------------------
(* Counting the frames of other peers in the channel.                      *)
LEMMA ForeignFinite ==
    ASSUME NEW q \in Seq(Peers), NEW p
    PROVE  IsFiniteSet(Foreign(q, p)) /\ Cardinality(Foreign(q, p)) \in Nat
<1>1. IsFiniteSet(1..Len(q))
  BY FS_Interval
<1>2. Foreign(q, p) \in SUBSET (1..Len(q))
  BY DEF Foreign
<1>3. IsFiniteSet(Foreign(q, p))
  BY <1>1, <1>2, FS_Subset
<1> QED BY <1>3, FS_CardinalityType

(* An empty channel holds no frame.                                        *)
LEMMA ForeignEmpty == ASSUME NEW p PROVE Cardinality(Foreign(<<>>, p)) = 0
<1>1. Foreign(<<>>, p) = {}
  BY DEF Foreign
<1> QED BY <1>1, FS_EmptySet

(* A frame that enqueueMic adds counts if it is of another peer.           *)
LEMMA ForeignAppend ==
    ASSUME NEW q \in Seq(Peers), NEW e \in Peers, NEW p
    PROVE  Cardinality(Foreign(Append(q, e), p)) = Cardinality(Foreign(q, p)) + One(e # p)
<1> DEFINE n == Len(q)
           r == Append(q, e)
<1>1. n \in Nat /\ Len(r) = n + 1 /\ (\A i \in 1..n : r[i] = q[i]) /\ r[n + 1] = e
  OBVIOUS
<1>2. n + 1 \notin Foreign(q, p) /\ 1..(n + 1) = (1..n) \union {n + 1}
  BY <1>1 DEF Foreign
<1>3. IsFiniteSet(Foreign(q, p)) /\ Cardinality(Foreign(q, p)) \in Nat
  BY ForeignFinite
<1> HIDE DEF r
<1>4. CASE e # p
  <2>1. Foreign(r, p) = Foreign(q, p) \union {n + 1}
    BY <1>1, <1>2, <1>4 DEF Foreign
  <2>2. Cardinality(Foreign(q, p) \union {n + 1}) = Cardinality(Foreign(q, p)) + 1
    BY <1>2, <1>3, FS_AddElement
  <2> QED BY <1>4, <2>1, <2>2 DEF One, r
<1>5. CASE e = p
  <2>1. Foreign(r, p) = Foreign(q, p)
    BY <1>1, <1>2, <1>5 DEF Foreign
  <2> QED BY <1>3, <1>5, <2>1 DEF One, r
<1> QED BY <1>4, <1>5

(* So does the frame that is taken out.                                    *)
LEMMA ForeignTail ==
    ASSUME NEW q \in Seq(Peers), q # <<>>, NEW p
    PROVE  Cardinality(Foreign(q, p)) = Cardinality(Foreign(Tail(q), p)) + One(Head(q) # p)
<1> DEFINE n == Len(q)
           r == Tail(q)
           S == Foreign(r, p)
           T == Foreign(q, p) \ {1}
           f == [i \in S |-> i + 1]
<1>1. n \in Nat \ {0} /\ r \in Seq(Peers) /\ Len(r) = n - 1 /\ (\A i \in 1..(n - 1) : r[i] = q[i + 1]) /\ q[1] = Head(q)
  OBVIOUS
<1>2. IsFiniteSet(S) /\ Cardinality(S) \in Nat /\ IsFiniteSet(Foreign(q, p)) /\ Cardinality(Foreign(q, p)) \in Nat
  BY <1>1, ForeignFinite
<1> HIDE DEF r, n
<1>3. S = {i \in 1..(n - 1) : q[i + 1] # p}
  BY <1>1 DEF Foreign
<1>4. T = {i \in 1..n : i # 1 /\ q[i] # p}
  BY DEF Foreign, n
<1> HIDE DEF S, T
<1>5. f \in [S -> T]
  BY <1>1, <1>3, <1>4
<1>6. \A a, b \in S : f[a] = f[b] => a = b
  BY <1>1, <1>3
<1>7. \A t \in T : \E a \in S : f[a] = t
  <2> TAKE t \in T
  <2>1. t \in 1..n /\ t # 1 /\ q[t] # p
    BY <1>4
  <2>2. t - 1 \in 1..(n - 1) /\ (t - 1) + 1 = t
    BY <1>1, <2>1
  <2>3. t - 1 \in S
    BY <1>3, <2>1, <2>2
  <2>4. f[t - 1] = t
    BY <2>2, <2>3
  <2> QED BY <2>3, <2>4
<1>8. Cardinality(T) = Cardinality(S)
  <2> HIDE DEF f
  <2>1. f \in Bijection(S, T)
    BY <1>5, <1>6, <1>7 DEF Bijection, Injection, Surjection, IsInjective
  <2>2. ExistsBijection(S, T)
    BY <2>1 DEF ExistsBijection
  <2> QED BY <1>2, <2>2, FS_Bijection
<1>9. Cardinality(T) = IF 1 \in Foreign(q, p) THEN Cardinality(Foreign(q, p)) - 1 ELSE Cardinality(Foreign(q, p))
  BY <1>2, FS_RemoveElement DEF T
<1>10. 1 \in Foreign(q, p) <=> Head(q) # p
  BY <1>1 DEF Foreign, n
<1> QED BY <1>2, <1>8, <1>9, <1>10 DEF One, S, r

(* What EnqueuePush leaves: the oldest frame makes room.                   *)
LEMMA ForeignPush ==
    ASSUME NEW q \in Seq(Peers), NEW e \in Peers, NEW p, Len(q) <= MicCap
    PROVE  LET r == Append(IF Len(q) < MicCap THEN q ELSE Tail(q), e)
           IN  /\ r \in Seq(Peers) /\ Len(r) <= MicCap
               /\ Cardinality(Foreign(r, p)) \in Nat
               /\ Cardinality(Foreign(r, p)) <= Cardinality(Foreign(q, p)) + One(e # p)
<1> DEFINE t == IF Len(q) < MicCap THEN q ELSE Tail(q)
           r == Append(t, e)
<1>1. MicCap \in Nat \ {0} /\ Len(q) \in Nat
  BY WebSessionAssumption
<1>2. t \in Seq(Peers) /\ Len(t) < MicCap /\ Cardinality(Foreign(t, p)) <= Cardinality(Foreign(q, p))
  <2>1. CASE Len(q) < MicCap
    BY <2>1, ForeignFinite
  <2>2. CASE ~(Len(q) < MicCap)
    <3>1. q # <<>> /\ Len(q) = MicCap
      BY <1>1, <2>2
    <3>2. Tail(q) \in Seq(Peers) /\ Len(Tail(q)) = Len(q) - 1
      BY <3>1
    <3>3. Cardinality(Foreign(q, p)) = Cardinality(Foreign(Tail(q), p)) + One(Head(q) # p)
      BY <3>1, ForeignTail
    <3>4. Cardinality(Foreign(Tail(q), p)) \in Nat
      BY <3>2, ForeignFinite
    <3> QED BY <1>1, <2>2, <3>1, <3>2, <3>3, <3>4 DEF One
  <2> QED BY <2>1, <2>2
<1> HIDE DEF t
<1>3. r \in Seq(Peers) /\ Len(r) <= MicCap
  BY <1>1, <1>2
<1>4. Cardinality(Foreign(r, p)) = Cardinality(Foreign(t, p)) + One(e # p)
  BY <1>2, ForeignAppend
<1>5. Cardinality(Foreign(t, p)) \in Nat /\ Cardinality(Foreign(q, p)) \in Nat /\ One(e # p) \in Nat
  BY <1>2, ForeignFinite DEF One
<1>6. Cardinality(Foreign(r, p)) \in Nat /\ Cardinality(Foreign(r, p)) <= Cardinality(Foreign(q, p)) + One(e # p)
  BY <1>2, <1>4, <1>5
<1> QED BY <1>3, <1>6 DEF t

(* Counting the peers with a frame in hand.                                *)
LEMMA HandsFinite ==
    ASSUME NEW peers, NEW p
    PROVE  IsFiniteSet(InHand(peers, p)) /\ Cardinality(InHand(peers, p)) \in Nat
<1>1. IsFiniteSet(Peers)
  BY FS_Interval, WebSessionAssumption DEF Peers
<1>2. InHand(peers, p) \in SUBSET Peers
  BY DEF InHand
<1>3. IsFiniteSet(InHand(peers, p))
  BY <1>1, <1>2, FS_Subset
<1> QED BY <1>3, FS_CardinalityType

(* Fewer frames in hand.                                                   *)
LEMMA HandsFewer ==
    ASSUME NEW peers, NEW others, NEW p, NEW q, InHand(others, q) \subseteq InHand(peers, p)
    PROVE  Cardinality(InHand(others, q)) <= Cardinality(InHand(peers, p))
<1>1. IsFiniteSet(InHand(peers, p))
  BY HandsFinite
<1> QED BY <1>1, FS_Subset

-----------------------------------------------------------------------------
(* The fields of the records.                                              *)
LEMMA SessionFields ==
    ASSUME NEW x \in Sessions
    PROVE  /\ x.peerID \in 0..MaxPeers /\ x.mic \in Seq(Peers) /\ x.status \in Statuses
           /\ x.out \in BOOLEAN /\ x.bridged \in BOOLEAN /\ x.everBridged \in BOOLEAN /\ x.held \in BOOLEAN
  BY DEF Sessions

(* The counters of the waiting goroutines.                                 *)
LEMMA WaitFields ==
    ASSUME NEW w \in Waits
    PROVE  w.begin \in Nat /\ w.hold \in Nat /\ w.start \in Nat /\ w.drain \in Nat
  BY DEF Waits

(* setHeld touches the flag of an existing session and nothing of the      *)
(* peers.                                                                  *)
LEMMA SetHeldUpdate ==
    ASSUME SessionTyped, NEW h \in BOOLEAN, NEW n \in Nat, SetHeld(h, n)
    PROVE  /\ s' \in Sessions /\ s'.peerID = s.peerID /\ s'.mic = s.mic /\ s'.bridged = s.bridged
           /\ waiting' \in Waits /\ deadline' \in Deadlines
           /\ s'.held = IF Exists THEN h ELSE s.held
<1>1. waiting \in Waits /\ s \in Sessions /\ deadline \in Deadlines
  BY DEF SessionTyped
<1>2. waiting.begin + n \in Nat /\ waiting.hold + 1 \in Nat /\ waiting.drain + 1 \in Nat
      /\ waiting.hold \in Nat /\ waiting.drain \in Nat
  BY <1>1, WaitFields
<1>3. CASE Exists
  <2>1. s' = [s EXCEPT !.held = h] /\ deadline' \in Deadlines
    BY <1>1, <1>3 DEF SetHeld, setHeld, NextGen, NoDeadline, Deadlines
  <2>2. waiting' = [waiting EXCEPT !.begin = @ + n, !.drain = IF h THEN @ + 1 ELSE @]
    BY <1>3 DEF SetHeld
  <2>3. waiting' \in Waits
    BY <1>1, <1>2, <2>2 DEF Waits
  <2> QED BY <1>1, <1>3, <2>1, <2>3 DEF Sessions
<1>4. CASE ~Exists
  <2>1. waiting' = [waiting EXCEPT !.begin = @ + n, !.hold = IF h THEN @ + 1 ELSE @]
        /\ s' = s /\ deadline' = deadline
    BY <1>4 DEF SetHeld
  <2>2. waiting' \in Waits
    BY <1>1, <1>2, <2>1 DEF Waits
  <2> QED BY <1>1, <1>4, <2>1, <2>2
<1> QED BY <1>3, <1>4

(* Next without the end of the session, by what an action is about.        *)
CallSteps ==
    \/ Answer \/ Hold \/ Resume \/ Active \/ EnsureWebSession \/ Opened \/ LateHold
    \/ BeginRead \/ startAnswerDeadline \/ DeadlineFires \/ DeadlineStops \/ DeadlineChecks
PeerSteps(p) ==
    \/ AttachPeer(p) \/ AttachDrains(p) \/ detachPeer(p) \/ markNegotiating(p) \/ markRecovering(p)
    \/ EnqueueCheck(p) \/ EnqueuePush(p) \/ EnqueueMark(p)
AudioSteps == drainMic \/ UplinkRead \/ UplinkWrite \/ UplinkMark \/ DownlinkRead \/ DownlinkWrite

(* The steps of a session in groups that touch the same fields.            *)
LEMMA StepCases ==
    ASSUME [Next]_vars
    PROVE  \/ CallSteps \/ (\E p \in Peers : PeerSteps(p)) \/ AudioSteps
           \/ Ends \/ Fails \/ DeadlineHangsUp \/ UNCHANGED vars
  BY DEF Next, CallSteps, PeerSteps, AudioSteps, Enqueue, Deadline, Uplink

(* The steps of the call and of the waiting goroutines leave peers, frames *)
(* and what writeUplink does alone.                                        *)
LEMMA CallFrame ==
    ASSUME SessionTyped, CallSteps
    PROVE  /\ SessionTyped'
           /\ UNCHANGED <<peer, uplink, downlink>> /\ history'.stale = history.stale
           /\ s'.peerID = s.peerID /\ s'.mic = s.mic /\ s'.bridged = s.bridged
<1> DEFINE Goal == /\ SessionTyped'
                   /\ UNCHANGED <<peer, uplink, downlink>> /\ history'.stale = history.stale
                   /\ s'.peerID = s.peerID /\ s'.mic = s.mic /\ s'.bridged = s.bridged
<1>t. /\ call \in CallRecords /\ session \in {"none", "opening", "ready", "over"}
      /\ s \in Sessions /\ Len(s.mic) <= MicCap /\ waiting \in Waits
      /\ deadline \in Deadlines /\ history \in Histories
  BY DEF SessionTyped
<1>w. /\ waiting.begin \in Nat /\ waiting.hold \in Nat /\ waiting.start \in Nat /\ waiting.drain \in Nat
  BY <1>t, WaitFields
<1>1. CASE Answer
  <2>1. call' \in CallRecords
    BY <1>1, <1>t DEF Answer, CallRecords
  <2>2. waiting' \in Waits
    BY <1>1, <1>t, <1>w DEF Answer, Waits
  <2> QED BY <1>1, <2>1, <2>2 DEF Answer, SessionTyped
<1>2. CASE Hold
  <2>1. call' \in CallRecords
    BY <1>2, <1>t DEF Hold, CallRecords
  <2>2. history' \in Histories /\ history'.stale = history.stale
    <3> DEFINE h == history.holds + 1
               a == IF s.held THEN history.up ELSE 0
               b == IF s.held THEN history.down ELSE 0
    <3>1. h \in Nat /\ a \in Nat /\ b \in Nat
      BY <1>t DEF Histories
    <3>2. history' = [history EXCEPT !.holds = h, !.up = a, !.down = b]
      BY <1>2 DEF Hold
    <3> HIDE DEF h, a, b
    <3> QED BY <1>t, <3>1, <3>2 DEF Histories
  <2>3. SetHeld(TRUE, 1) /\ UNCHANGED <<session, peer, uplink, downlink>>
    BY <1>2 DEF Hold
  <2>4. /\ s' \in Sessions /\ s'.peerID = s.peerID /\ s'.mic = s.mic /\ s'.bridged = s.bridged
        /\ waiting' \in Waits /\ deadline' \in Deadlines
    BY <2>3, SetHeldUpdate
  <2> QED BY <2>1, <2>2, <2>3, <2>4 DEF SessionTyped
<1>3. CASE Resume
  <2>1. call' \in CallRecords
    BY <1>3, <1>t DEF Resume, CallRecords
  <2>2. SetHeld(FALSE, 1) /\ UNCHANGED <<session, peer, uplink, downlink, history>>
    BY <1>3 DEF Resume
  <2>3. /\ s' \in Sessions /\ s'.peerID = s.peerID /\ s'.mic = s.mic /\ s'.bridged = s.bridged
        /\ waiting' \in Waits /\ deadline' \in Deadlines
    BY <2>2, SetHeldUpdate
  <2> QED BY <2>1, <2>2, <2>3 DEF SessionTyped
<1>4. CASE Active
  <2>1. call' \in CallRecords /\ UNCHANGED <<session, peer, uplink, downlink, history>>
    BY <1>4, <1>t DEF Active, CallRecords
  <2>2. /\ s' \in Sessions /\ s'.peerID = s.peerID /\ s'.mic = s.mic /\ s'.bridged = s.bridged
        /\ waiting' \in Waits /\ deadline' \in Deadlines
    <3>1. CASE call.held
      <4>1. SetHeld(TRUE, 0)
        BY <1>4, <3>1 DEF Active
      <4> QED BY <4>1, SetHeldUpdate
    <3>2. CASE ~call.held
      BY <1>4, <1>t, <3>2 DEF Active
    <3> QED BY <3>1, <3>2
  <2> QED BY <2>1, <2>2 DEF SessionTyped
<1>5. CASE EnsureWebSession \/ Opened
  BY <1>5 DEF EnsureWebSession, Opened, SessionTyped
<1>6. CASE LateHold
  <2>1. waiting.hold - 1 \in Nat /\ waiting.drain + 1 \in Nat
    BY <1>6, <1>w DEF LateHold
  <2>2. waiting' \in Waits
    BY <1>6, <1>t, <2>1 DEF LateHold, Waits
  <2>3. history' \in Histories /\ history'.stale = history.stale
    BY <1>6, <1>t DEF LateHold, Histories
  <2>4. s' = [s EXCEPT !.held = TRUE] /\ deadline' \in Deadlines
    BY <1>6, <1>t DEF LateHold, setHeld, NextGen, NoDeadline, Deadlines
  <2>5. s' \in Sessions /\ s'.peerID = s.peerID /\ s'.mic = s.mic /\ s'.bridged = s.bridged
    BY <1>t, <2>4 DEF Sessions
  <2> QED BY <1>6, <2>2, <2>3, <2>4, <2>5 DEF LateHold, SessionTyped
<1>7. CASE BeginRead
  <2>1. waiting.begin - 1 \in Nat /\ waiting.start + 1 \in Nat
    BY <1>7, <1>w DEF BeginRead
  <2>2. waiting' \in Waits
    BY <1>7, <1>t, <1>w, <2>1 DEF BeginRead, Waits
  <2> QED BY <1>7, <2>2 DEF BeginRead, SessionTyped
<1>8. CASE startAnswerDeadline
  <2>1. waiting.start - 1 \in Nat
    BY <1>8, <1>w DEF startAnswerDeadline
  <2>2. waiting' \in Waits
    BY <1>8, <1>t, <2>1 DEF startAnswerDeadline, Waits
  <2>3. deadline' \in Deadlines
    BY <1>8, <1>t DEF startAnswerDeadline, NextGen, Deadlines
  <2> QED BY <1>8, <2>2, <2>3 DEF startAnswerDeadline, SessionTyped
<1>9. CASE DeadlineFires \/ DeadlineStops
  BY <1>9 DEF DeadlineFires, DeadlineStops, NoDeadline, Deadlines, SessionTyped
<1>10. CASE DeadlineChecks
  <2>1. deadline' \in Deadlines
    BY <1>10 DEF DeadlineChecks, NoDeadline, Deadlines
  <2>2. s' = s \/ s' = [s EXCEPT !.status = "timeout"]
    BY <1>10 DEF DeadlineChecks
  <2>3. "timeout" \in Statuses
    BY DEF Statuses
  <2>4. s' \in Sessions /\ s'.peerID = s.peerID /\ s'.mic = s.mic /\ s'.bridged = s.bridged
    BY <1>t, <2>2, <2>3 DEF Sessions
  <2> QED BY <1>10, <2>1, <2>4 DEF DeadlineChecks, SessionTyped
<1> QED BY <1>1, <1>2, <1>3, <1>4, <1>5, <1>6, <1>7, <1>8, <1>9, <1>10 DEF CallSteps

(* The steps of a peer leave the call, hold and the counts of frames alone.*)
LEMMA PeerFrame ==
    ASSUME SessionTyped, NEW p \in Peers, PeerSteps(p)
    PROVE  /\ SessionTyped'
           /\ UNCHANGED <<call, session, uplink, downlink, history>> /\ s'.held = s.held
<1>t. s \in Sessions /\ Len(s.mic) <= MicCap /\ peer \in [Peers -> PeerRecords] /\ waiting \in Waits
  BY DEF SessionTyped
<1>w. waiting.drain \in Nat
  BY <1>t, WaitFields
<1>f. s.bridged \in BOOLEAN /\ s.mic \in Seq(Peers) /\ s.status \in Statuses
  BY <1>t, SessionFields
<1>v. {"negotiating", "recovering"} \subseteq Statuses /\ p \in 0..MaxPeers
  BY WebSessionAssumption DEF Statuses, Peers
<1>1. CASE AttachPeer(p)
  <2>1. s' = [s EXCEPT !.peerID = p, !.out = TRUE, !.bridged = FALSE, !.status = "negotiating"]
    BY <1>1 DEF AttachPeer
  <2>2. s' \in Sessions /\ s'.mic = s.mic /\ s'.held = s.held
    BY <1>t, <1>v, <2>1 DEF Sessions
  <2>3. peer' \in [Peers -> PeerRecords]
    BY <1>1, <1>t DEF AttachPeer, PeerRecords
  <2> QED BY <1>1, <2>2, <2>3 DEF AttachPeer, SessionTyped
<1>2. CASE AttachDrains(p)
  <2>1. s' \in Sessions /\ s'.mic = <<>> /\ s'.held = s.held
    <3>0. <<>> \in Seq(Peers) /\ s' = [s EXCEPT !.mic = <<>>]
      BY <1>2 DEF AttachDrains
    <3>1. PICK q \in Seq(Peers) : q = <<>> /\ s' = [s EXCEPT !.mic = q]
      BY <3>0, Zenon
    <3> QED BY <1>t, <3>1 DEF Sessions
  <2>2. peer' \in [Peers -> PeerRecords]
    BY <1>2, <1>t DEF AttachDrains, PeerRecords
  <2>3. Len(s'.mic) <= MicCap
    BY <2>1, WebSessionAssumption
  <2> QED BY <1>2, <2>1, <2>2, <2>3 DEF AttachDrains, SessionTyped
<1>3. CASE detachPeer(p)
  <2>1. s' \in Sessions /\ s'.mic = s.mic /\ s'.held = s.held
    <3>1. CASE s.peerID # p
      BY <1>3, <1>t, <3>1 DEF detachPeer
    <3>2. CASE s.peerID = p
      <4>1. PICK v \in Statuses : s' = [s EXCEPT !.out = FALSE, !.bridged = FALSE, !.status = v]
        <5>1. s' = [s EXCEPT !.out = FALSE, !.bridged = FALSE,
                             !.status = IF s.status = "timeout" THEN s.status ELSE "recovering"]
          BY <1>3, <3>2 DEF detachPeer
        <5> QED BY <5>1, <1>f, <1>v
      <4> QED BY <1>t, <4>1 DEF Sessions
    <3> QED BY <3>1, <3>2
  <2>2. peer' \in [Peers -> PeerRecords]
    BY <1>3, <1>t DEF detachPeer, PeerRecords
  <2>3. waiting' \in Waits
    BY <1>3, <1>t, <1>w DEF detachPeer, Waits
  <2> QED BY <1>3, <2>1, <2>2, <2>3 DEF detachPeer, SessionTyped
<1>4. CASE markNegotiating(p)
  <2>1. PICK v \in Statuses : s' = [s EXCEPT !.status = v]
    BY <1>4, <1>f, <1>v DEF markNegotiating
  <2>2. s' \in Sessions /\ s'.mic = s.mic /\ s'.held = s.held
    BY <1>t, <2>1 DEF Sessions
  <2>3. peer' \in [Peers -> PeerRecords]
    BY <1>4, <1>t DEF markNegotiating, PeerRecords
  <2> QED BY <1>4, <2>2, <2>3 DEF markNegotiating, SessionTyped
<1>5. CASE markRecovering(p)
  <2>1. s' = s \/ s' = [s EXCEPT !.bridged = FALSE, !.status = "recovering"]
    BY <1>5 DEF markRecovering, Recovering
  <2>2. s' \in Sessions /\ s'.mic = s.mic /\ s'.held = s.held
    BY <1>t, <1>v, <2>1 DEF Sessions
  <2>3. peer' \in [Peers -> PeerRecords]
    BY <1>5, <1>t DEF markRecovering, PeerRecords
  <2>4. waiting' \in Waits
    BY <1>5, <1>t DEF markRecovering, Recovering, Waits
  <2> QED BY <1>5, <2>2, <2>3, <2>4 DEF markRecovering, SessionTyped
<1>6. CASE EnqueueCheck(p)
  <2>1. peer' \in [Peers -> PeerRecords]
    BY <1>6, <1>t DEF EnqueueCheck, PeerRecords
  <2> QED BY <1>6, <2>1 DEF EnqueueCheck, SessionTyped
<1>7. CASE EnqueuePush(p)
  <2> DEFINE r == Append(IF Len(s.mic) < MicCap THEN s.mic ELSE Tail(s.mic), p)
  <2>1. s' = [s EXCEPT !.mic = r]
    BY <1>7 DEF EnqueuePush
  <2>2. r \in Seq(Peers) /\ Len(r) <= MicCap
    BY <1>f, <1>t, ForeignPush
  <2> HIDE DEF r
  <2>3. s' \in Sessions /\ s'.mic = r /\ s'.held = s.held
    BY <1>t, <2>1, <2>2 DEF Sessions
  <2>4. peer' \in [Peers -> PeerRecords]
    BY <1>7, <1>t DEF EnqueuePush, PeerRecords
  <2> QED BY <1>7, <2>2, <2>3, <2>4 DEF EnqueuePush, SessionTyped
<1>8. CASE EnqueueMark(p)
  <2>1. PICK b \in BOOLEAN : s' = [s EXCEPT !.bridged = b]
    BY <1>8, <1>f DEF EnqueueMark
  <2>2. s' \in Sessions /\ s'.mic = s.mic /\ s'.held = s.held
    BY <1>t, <2>1 DEF Sessions
  <2>3. peer' \in [Peers -> PeerRecords]
    BY <1>8, <1>t DEF EnqueueMark, PeerRecords
  <2> QED BY <1>8, <2>2, <2>3 DEF EnqueueMark, SessionTyped
<1> QED BY <1>1, <1>2, <1>3, <1>4, <1>5, <1>6, <1>7, <1>8 DEF PeerSteps

(* What steps of the audio may do: an action of the peers or of the call   *)
(* is none of them.                                                        *)
LEMMA AudioFrame ==
    ASSUME SessionTyped, AudioSteps
    PROVE  /\ SessionTyped'
           /\ UNCHANGED <<call, session, peer>> /\ s'.held = s.held /\ s'.peerID = s.peerID
           /\ s'.bridged => s.bridged
<1>t. /\ s \in Sessions /\ Len(s.mic) <= MicCap /\ waiting \in Waits /\ history \in Histories
      /\ uplink \in Uplinks /\ downlink \in 0..MaxPeers
  BY DEF SessionTyped
<1>w. waiting.drain \in Nat
  BY <1>t, WaitFields
<1>f. s.mic \in Seq(Peers) /\ s.peerID \in 0..MaxPeers
  BY <1>t, SessionFields
<1>v. {"bridged", "recovering"} \subseteq Statuses /\ {"idle", "write", "mark"} \subseteq Uplinks /\ 0 \in 0..MaxPeers
  BY WebSessionAssumption DEF Statuses, Uplinks
<1>1. CASE drainMic
  <2>0. <<>> \in Seq(Peers) /\ s' = [s EXCEPT !.mic = <<>>]
    BY <1>1 DEF drainMic
  <2>1. PICK q \in Seq(Peers) : q = <<>> /\ s' = [s EXCEPT !.mic = q]
    BY <2>0, Zenon
  <2>2. s' \in Sessions /\ s'.mic = <<>> /\ s'.held = s.held /\ s'.peerID = s.peerID /\ s'.bridged = s.bridged
    BY <1>t, <2>1 DEF Sessions
  <2>3. Len(s'.mic) <= MicCap
    BY <2>2, WebSessionAssumption
  <2>4. waiting' \in Waits
    BY <1>1, <1>t, <1>w DEF drainMic, Waits
  <2> QED BY <1>1, <2>2, <2>3, <2>4 DEF drainMic, SessionTyped
<1>2. CASE UplinkRead
  BY <1>2, <1>v DEF UplinkRead, SessionTyped
<1>3. CASE UplinkWrite
  <2>1. CASE s.mic = <<>>
    BY <1>3, <1>v, <2>1 DEF UplinkWrite, SessionTyped
  <2>2. CASE s.mic # <<>>
    <3>1. Tail(s.mic) \in Seq(Peers) /\ Len(Tail(s.mic)) <= MicCap
      BY <1>f, <1>t, <2>2, WebSessionAssumption
    <3>2. s' = [s EXCEPT !.mic = Tail(s.mic)]
      BY <1>3, <2>2 DEF UplinkWrite
    <3>3. s' \in Sessions /\ s'.mic = Tail(s.mic) /\ s'.held = s.held /\ s'.peerID = s.peerID /\ s'.bridged = s.bridged
      BY <1>t, <3>1, <3>2 DEF Sessions
    <3>4. PICK u \in Nat, k \in Nat : history' = [history EXCEPT !.up = u, !.stale = k]
      <4>1. history.up \in Nat /\ history.stale \in Nat
        BY <1>t DEF Histories
      <4> DEFINE u == IF s.held THEN history.up + 1 ELSE history.up
                 k == IF Head(s.mic) # s.peerID THEN history.stale + 1 ELSE history.stale
      <4>2. u \in Nat /\ k \in Nat
        BY <4>1
      <4>3. history' = [history EXCEPT !.up = u, !.stale = k]
        BY <1>3, <2>2 DEF UplinkWrite
      <4> QED BY <4>2, <4>3
    <3>5. history' \in Histories
      BY <1>t, <3>4 DEF Histories
    <3> QED BY <1>3, <1>v, <2>2, <3>1, <3>3, <3>5 DEF UplinkWrite, SessionTyped
  <2> QED BY <2>1, <2>2
<1>4. CASE UplinkMark
  <2>1. s' \in Sessions /\ s'.mic = s.mic /\ s'.held = s.held /\ s'.peerID = s.peerID /\ s'.bridged = s.bridged
    BY <1>4, <1>t, <1>v DEF UplinkMark, Sessions
  <2> QED BY <1>4, <1>v, <2>1 DEF UplinkMark, SessionTyped
<1>5. CASE DownlinkRead
  BY <1>5, <1>f DEF DownlinkRead, SessionTyped
<1>6. CASE DownlinkWrite
  <2>1. CASE history' = [history EXCEPT !.down = IF s.held THEN @ + 1 ELSE @] /\ UNCHANGED <<s, waiting>>
    <3>1. history' \in Histories
      BY <1>t, <2>1 DEF Histories
    <3> QED BY <1>6, <1>v, <2>1, <3>1 DEF DownlinkWrite, SessionTyped
  <2>2. CASE Recovering(downlink) /\ UNCHANGED history
    <3>1. s' = s \/ s' = [s EXCEPT !.bridged = FALSE, !.status = "recovering"]
      BY <2>2 DEF Recovering
    <3>2. s' \in Sessions /\ s'.mic = s.mic /\ s'.held = s.held /\ s'.peerID = s.peerID /\ (s'.bridged => s.bridged)
      BY <1>t, <1>v, <3>1 DEF Sessions
    <3>3. waiting' \in Waits
      BY <1>t, <2>2 DEF Recovering, Waits
    <3> QED BY <1>6, <1>v, <2>2, <3>2, <3>3 DEF DownlinkWrite, SessionTyped
  <2> QED BY <1>6, <2>1, <2>2 DEF DownlinkWrite
<1> QED BY <1>1, <1>2, <1>3, <1>4, <1>5, <1>6 DEF AudioSteps

-----------------------------------------------------------------------------
(* Hold.                                                                   *)
HoldInv == ReadyIsActive /\ QuietBefore /\ HoldCounted

(* The counts are numbers.                                                 *)
LEMMA HistoryFields ==
    ASSUME SessionTyped
    PROVE  history.up \in Nat /\ history.down \in Nat /\ history.stale \in Nat
  BY DEF SessionTyped, Histories

(* A hold that takes effect begins to count anew; what is in hand is at    *)
(* most one frame in each direction.                                       *)
LEMMA HoldCall == ASSUME SessionTyped, HoldInv, CallSteps PROVE HoldInv'
<1>t. history.up \in Nat /\ history.down \in Nat /\ s \in Sessions /\ history \in Histories /\ call \in CallRecords
  BY HistoryFields DEF SessionTyped
<1>u. UNCHANGED <<uplink, downlink>>
  BY CallFrame
<1>1. CASE Hold
  <2>1. SetHeld(TRUE, 1) /\ UNCHANGED session
    BY <1>1 DEF Hold
  <2>2. s'.held = IF Exists THEN TRUE ELSE s.held
    BY <2>1, SetHeldUpdate
  <2>3. /\ history'.up = IF s.held THEN history.up ELSE 0
        /\ history'.down = IF s.held THEN history.down ELSE 0
    <3>1. CASE s.held
      <4>1. history' = [history EXCEPT !.holds = history.holds + 1, !.up = history.up, !.down = history.down]
        BY <1>1, <3>1 DEF Hold
      <4> QED BY <1>t, <3>1, <4>1 DEF Histories
    <3>2. CASE ~s.held
      <4>1. history' = [history EXCEPT !.holds = history.holds + 1, !.up = 0, !.down = 0]
        BY <1>1, <3>2 DEF Hold
      <4> QED BY <1>t, <3>2, <4>1 DEF Histories
    <3> QED BY <3>1, <3>2
  <2>4. HoldCounted'
    BY <1>t, <1>u, <2>2, <2>3 DEF HoldInv, HoldCounted, One
  <2>5. QuietBefore'
    BY <1>t, <1>u, <2>1, <2>3 DEF HoldInv, QuietBefore
  <2>6. ReadyIsActive'
    BY <1>1, <1>t DEF Hold, HoldInv, ReadyIsActive, CallRecords
  <2> QED BY <2>4, <2>5, <2>6 DEF HoldInv
<1>2. CASE Resume
  <2>1. SetHeld(FALSE, 1) /\ UNCHANGED <<session, history>>
    BY <1>2 DEF Resume
  <2>2. s'.held => s.held
    BY <2>1, SetHeldUpdate
  <2>3. HoldCounted' /\ QuietBefore'
    BY <1>u, <2>1, <2>2 DEF HoldInv, HoldCounted, QuietBefore
  <2>4. ReadyIsActive'
    BY <1>2, <1>t DEF Resume, HoldInv, ReadyIsActive, CallRecords
  <2> QED BY <2>3, <2>4 DEF HoldInv
<1>3. CASE Active
  <2>1. session # "ready" /\ UNCHANGED <<session, history>>
    BY <1>3 DEF Active, HoldInv, ReadyIsActive
  <2>2. history.up = 0 /\ history.down = 0 /\ uplink = "idle" /\ downlink = 0
    BY <2>1 DEF HoldInv, QuietBefore
  <2> QED BY <1>u, <2>1, <2>2 DEF HoldInv, HoldCounted, QuietBefore, ReadyIsActive, One
<1>4. CASE LateHold
  <2>1. UNCHANGED <<call, session>> /\ s' = [s EXCEPT !.held = TRUE]
        /\ history' = IF s.held THEN history ELSE [history EXCEPT !.up = 0, !.down = 0]
    BY <1>4 DEF LateHold, setHeld
  <2>2. /\ history'.up = IF s.held THEN history.up ELSE 0
        /\ history'.down = IF s.held THEN history.down ELSE 0
    BY <1>t, <2>1 DEF Histories
  <2>3. HoldCounted'
    BY <1>t, <1>u, <2>2 DEF HoldInv, HoldCounted, One
  <2>4. QuietBefore' /\ ReadyIsActive'
    BY <1>t, <1>u, <2>1, <2>2 DEF HoldInv, QuietBefore, ReadyIsActive
  <2> QED BY <2>3, <2>4 DEF HoldInv
<1>5. CASE Opened
  BY <1>5, <1>u DEF Opened, HoldInv, HoldCounted, QuietBefore, ReadyIsActive
<1>6. CASE Answer \/ EnsureWebSession
  BY <1>6, <1>t, <1>u DEF Answer, EnsureWebSession, HoldInv, HoldCounted, QuietBefore, ReadyIsActive
<1>7. CASE BeginRead \/ startAnswerDeadline \/ DeadlineFires \/ DeadlineStops
  BY <1>7, <1>u DEF BeginRead, startAnswerDeadline, DeadlineFires, DeadlineStops, HoldInv, HoldCounted,
                    QuietBefore, ReadyIsActive
<1>8. CASE DeadlineChecks
  <2>1. UNCHANGED <<call, session, history>> /\ s' \in {s, [s EXCEPT !.status = "timeout"]}
    BY <1>8 DEF DeadlineChecks
  <2>2. s'.held = s.held
    BY <1>t, <2>1 DEF Sessions
  <2> QED BY <1>u, <2>1, <2>2 DEF HoldInv, HoldCounted, QuietBefore, ReadyIsActive
<1> QED BY <1>1, <1>2, <1>3, <1>4, <1>5, <1>6, <1>7, <1>8 DEF CallSteps

(* The steps of a peer touch neither the flag nor the audio loops.         *)
LEMMA HoldPeer == ASSUME SessionTyped, HoldInv, NEW p \in Peers, PeerSteps(p) PROVE HoldInv'
  BY PeerFrame DEF HoldInv, HoldCounted, QuietBefore, ReadyIsActive

(* writeUplink and readDownlink read the flag before they write: while the *)
(* session is held they start nothing new.                                 *)
LEMMA HoldAudio == ASSUME SessionTyped, HoldInv, AudioSteps PROVE HoldInv'
<1>t. history.up \in Nat /\ history.down \in Nat /\ history \in Histories
  BY HistoryFields DEF SessionTyped
<1>u. UNCHANGED <<call, session>> /\ s'.held = s.held
  BY AudioFrame
<1> USE DEF HoldInv, HoldCounted, QuietBefore, ReadyIsActive, One
<1>1. CASE drainMic
  BY <1>1, <1>u DEF drainMic
<1>2. CASE UplinkRead
  BY <1>2, <1>u DEF UplinkRead, Ready
<1>3. CASE UplinkWrite
  <2>1. CASE s.mic = <<>>
    BY <1>3, <1>t, <1>u, <2>1 DEF UplinkWrite
  <2>2. CASE s.mic # <<>>
    <3>1. uplink = "write" /\ uplink' = "mark" /\ UNCHANGED downlink
      BY <1>3, <2>2 DEF UplinkWrite
    <3>2. history'.up = (IF s.held THEN history.up + 1 ELSE history.up) /\ history'.down = history.down
      BY <1>3, <1>t, <2>2 DEF UplinkWrite, Histories
    <3> QED BY <1>t, <1>u, <3>1, <3>2
  <2> QED BY <2>1, <2>2
<1>4. CASE UplinkMark
  BY <1>4, <1>u DEF UplinkMark
<1>5. CASE DownlinkRead
  BY <1>5, <1>u DEF DownlinkRead, Ready
<1>6. CASE DownlinkWrite
  <2>1. downlink # 0 /\ downlink' = 0 /\ UNCHANGED uplink
    BY <1>6 DEF DownlinkWrite
  <2>2. history'.up = history.up /\ history'.down \in {history.down, IF s.held THEN history.down + 1 ELSE history.down}
    BY <1>6, <1>t DEF DownlinkWrite, Histories
  <2> QED BY <1>t, <1>u, <2>1, <2>2
<1> QED BY <1>1, <1>2, <1>3, <1>4, <1>5, <1>6 DEF AudioSteps

-----------------------------------------------------------------------------
(* Replaced peers.                                                         *)
PeerInv == PeersInOrder /\ NoneBefore /\ StaleCounted

(* The steps of the call leave the peers alone.                            *)
LEMMA PeersCall == ASSUME SessionTyped, PeerInv, CallSteps PROVE PeerInv'
<1>1. /\ UNCHANGED <<peer, uplink>> /\ history'.stale = history.stale
      /\ s'.peerID = s.peerID /\ s'.mic = s.mic /\ s'.bridged = s.bridged
  BY CallFrame
<1>2. PeersInOrder'
  BY <1>1 DEF PeerInv, PeersInOrder
<1>3. NoneBefore'
  BY <1>1 DEF PeerInv, NoneBefore
<1>4. Passing' = Passing /\ Replaced' = Replaced
  BY <1>1 DEF Passing, Attaching, Replaced
<1>5. InHand(peer', s'.peerID) = InHand(peer, s.peerID)
  BY <1>1
<1>6. StaleCounted'
  BY <1>1, <1>4, <1>5 DEF PeerInv, StaleCounted
<1> QED BY <1>2, <1>3, <1>6 DEF PeerInv

(* What StaleCounted adds up are numbers.                                  *)
LEMMA Counted ==
    ASSUME SessionTyped
    PROVE  /\ history.stale \in Nat /\ Passing \in Nat /\ Replaced \in Nat
           /\ Cardinality(Foreign(s.mic, s.peerID)) \in Nat /\ s.peerID \in 0..MaxPeers /\ s.mic \in Seq(Peers)
           /\ Cardinality(InHand(peer, s.peerID)) \in Nat
<1>1. history.stale \in Nat
  BY HistoryFields
<1>2. s.peerID \in 0..MaxPeers /\ s.mic \in Seq(Peers)
  BY SessionFields DEF SessionTyped
<1>3. Cardinality(Foreign(s.mic, s.peerID)) \in Nat
  BY <1>2, ForeignFinite
<1>4. Cardinality(InHand(peer, s.peerID)) \in Nat
  BY HandsFinite
<1>5. Passing \in Nat
  BY <1>3 DEF Passing, One
<1>6. Replaced \in Nat
  BY <1>2, WebSessionAssumption DEF Replaced
<1> QED BY <1>1, <1>2, <1>3, <1>4, <1>5, <1>6

(* attachPeer adds a peer that was replaced, and with it the frame that    *)
(* writeUplink may take and the one that its enqueueMic has in hand.       *)
LEMMA PeersAttach == ASSUME SessionTyped, PeerInv, NEW p \in Peers, AttachPeer(p) PROVE PeerInv'
<1>t. /\ SessionTyped' /\ UNCHANGED <<uplink, history>>
      /\ s \in Sessions /\ peer \in [Peers -> PeerRecords]
  BY PeerFrame DEF SessionTyped, PeerSteps
<1>c. /\ history.stale \in Nat /\ Passing \in Nat /\ Replaced \in Nat /\ Cardinality(InHand(peer, s.peerID)) \in Nat
      /\ s.peerID \in 0..MaxPeers
  BY Counted
<1>d. Cardinality(InHand(peer', s'.peerID)) \in Nat
  BY HandsFinite
<1>1. p = s.peerID + 1 /\ s'.peerID = p /\ s'.bridged = FALSE /\ s'.mic = s.mic
  BY <1>t DEF AttachPeer, Sessions
<1>2. peer[p] = NoPeer
  BY <1>1, <1>c DEF PeerInv, PeersInOrder
<1>3. \A q \in Peers : /\ peer'[q].pc = peer[q].pc
                       /\ q = p => peer'[q].conn = "attaching"
                       /\ q # p /\ q # s.peerID => peer'[q] = peer[q]
                       /\ q = s.peerID => peer'[q].conn = "gone"
  BY <1>t, <1>1, <1>c DEF AttachPeer, PeerRecords
<1>4. PeersInOrder'
  <2>1. \A q \in Peers : q > p => peer'[q] = NoPeer
    BY <1>1, <1>3, <1>c DEF PeerInv, PeersInOrder, Peers
  <2>2. \A q \in Peers : peer'[q].conn = "attaching" => q = p /\ peer'[q].pc = "idle"
    <3> TAKE q \in Peers
    <3>1. CASE q = p
      BY <1>2, <1>3, <3>1 DEF NoPeer
    <3>2. CASE q # p
      <4>1. peer'[q].conn # "attaching"
        BY <1>3, <3>2 DEF PeerInv, PeersInOrder
      <4> QED BY <4>1
    <3> QED BY <3>1, <3>2
  <2> QED BY <1>1, <2>1, <2>2 DEF PeersInOrder
<1>5. s'.peerID # 0 /\ Replaced' = s.peerID
  BY <1>1, <1>c DEF Replaced
<1>6. Passing' = One(uplink = "write")
  BY <1>1, <1>3, <1>5, <1>t DEF Passing, Attaching
<1>7. CASE s.peerID = 0
  <2>1. uplink # "write" /\ history.stale = 0 /\ Replaced = 0
    BY <1>7 DEF PeerInv, NoneBefore, Replaced
  <2>2. Cardinality(InHand(peer, s.peerID)) = 0
    BY <1>c, <2>1 DEF PeerInv, StaleCounted
  <2>3. InHand(peer', p) \subseteq InHand(peer, s.peerID)
    BY <1>3, <1>7 DEF InHand, Peers
  <2>4. Cardinality(InHand(peer', p)) <= Cardinality(InHand(peer, s.peerID))
    BY <2>3, HandsFewer
  <2>5. StaleCounted'
    BY <1>t, <1>c, <1>d, <1>1, <1>5, <1>6, <1>7, <2>1, <2>2, <2>4 DEF StaleCounted, One
  <2> QED BY <1>4, <1>5, <2>5 DEF PeerInv, NoneBefore
<1>8. CASE s.peerID # 0
  <2>1. Replaced = s.peerID - 1
    BY <1>8 DEF Replaced
  <2>2. InHand(peer', p) \subseteq InHand(peer, s.peerID) \union {s.peerID}
    BY <1>3 DEF InHand
  <2>3. IsFiniteSet(InHand(peer, s.peerID)) /\ s.peerID \notin InHand(peer, s.peerID)
    BY HandsFinite DEF InHand
  <2>4. /\ IsFiniteSet(InHand(peer, s.peerID) \union {s.peerID})
        /\ Cardinality(InHand(peer, s.peerID) \union {s.peerID}) = Cardinality(InHand(peer, s.peerID)) + 1
    BY <2>3, FS_AddElement
  <2>5. Cardinality(InHand(peer', p)) <= Cardinality(InHand(peer, s.peerID) \union {s.peerID})
    BY <2>2, <2>4, FS_Subset
  <2>6. history.stale + Cardinality(InHand(peer, s.peerID)) <= 2 * Replaced
    BY <1>c DEF PeerInv, StaleCounted
  <2>7. One(uplink = "write") <= 1 /\ One(uplink = "write") \in Nat
    BY DEF One
  <2>8. history'.stale + Passing' + Cardinality(InHand(peer', s'.peerID)) <= 2 * Replaced'
    BY <1>t, <1>c, <1>d, <1>1, <1>5, <1>6, <2>1, <2>4, <2>5, <2>6, <2>7
  <2>9. StaleCounted'
    BY <2>8 DEF StaleCounted
  <2> QED BY <1>4, <1>5, <2>9 DEF PeerInv, NoneBefore
<1> QED BY <1>7, <1>8

(* The drain before the new peer can send: nothing of an old peer is in    *)
(* the channel.                                                            *)
LEMMA PeersDrained == ASSUME SessionTyped, PeerInv, NEW p \in Peers, AttachDrains(p) PROVE PeerInv'
<1>t. /\ SessionTyped' /\ UNCHANGED <<uplink, history>>
      /\ s \in Sessions /\ peer \in [Peers -> PeerRecords]
  BY PeerFrame DEF SessionTyped, PeerSteps
<1>c. /\ history.stale \in Nat /\ Passing \in Nat /\ Replaced \in Nat /\ Cardinality(InHand(peer, s.peerID)) \in Nat
      /\ s.peerID \in 0..MaxPeers
  BY Counted
<1>1. p = s.peerID /\ peer[p].conn = "attaching"
  BY DEF AttachDrains, PeerInv, PeersInOrder
<1>2. s'.peerID = s.peerID /\ s'.bridged = s.bridged /\ s'.mic = <<>>
  BY <1>t DEF AttachDrains, Sessions
<1>3. \A q \in Peers : /\ peer'[q].pc = peer[q].pc
                       /\ q = p => peer'[q].conn = "attached"
                       /\ q # p => peer'[q] = peer[q]
  BY <1>t DEF AttachDrains, PeerRecords
<1>4. PeersInOrder'
  <2>1. \A q \in Peers : q > s.peerID => q # p
    BY <1>1, <1>c DEF Peers
  <2>2. \A q \in Peers : q > s'.peerID => peer'[q] = NoPeer
    BY <1>2, <1>3, <2>1 DEF PeerInv, PeersInOrder
  <2>3. \A q \in Peers : peer'[q].conn # "attaching"
    BY <1>1, <1>3 DEF PeerInv, PeersInOrder
  <2>4. s'.bridged => s'.peerID # 0 /\ peer'[s'.peerID].conn # "attaching"
    BY <1>1, <1>2, <2>3 DEF PeerInv, PeersInOrder
  <2> QED BY <2>2, <2>3, <2>4 DEF PeersInOrder
<1>5. s.peerID # 0
  BY <1>1 DEF Peers
<1>6. Passing' = 0
  BY <1>1, <1>2, <1>3, ForeignEmpty DEF Passing, Attaching
<1>7. InHand(peer', s'.peerID) = InHand(peer, s.peerID)
  BY <1>2, <1>3 DEF InHand
<1>8. Replaced' = Replaced
  BY <1>2 DEF Replaced
<1>9. StaleCounted'
  BY <1>t, <1>c, <1>6, <1>7, <1>8 DEF PeerInv, StaleCounted
<1> QED BY <1>2, <1>4, <1>5, <1>9 DEF PeerInv, NoneBefore

(* The connection states, and the steps of enqueueMic that touch neither   *)
(* the channel nor a frame in hand of another peer.                        *)
LEMMA PeersTold ==
    ASSUME SessionTyped, PeerInv, NEW p \in Peers,
           markNegotiating(p) \/ markRecovering(p) \/ detachPeer(p) \/ EnqueueCheck(p) \/ EnqueueMark(p)
    PROVE  PeerInv'
<1>t. /\ UNCHANGED <<uplink, history>> /\ s \in Sessions /\ peer \in [Peers -> PeerRecords]
  BY PeerFrame DEF SessionTyped, PeerSteps
<1>c. /\ history.stale \in Nat /\ Passing \in Nat /\ Replaced \in Nat /\ Cardinality(InHand(peer, s.peerID)) \in Nat
      /\ s.peerID \in 0..MaxPeers
  BY Counted
<1>s. s'.peerID = s.peerID /\ s'.mic = s.mic
      /\ (s'.bridged => s.bridged \/ (s.peerID = p /\ peer[p].pc = "mark"))
  <2>1. CASE markNegotiating(p)
    BY <1>t, <2>1 DEF markNegotiating, Sessions
  <2>2. CASE markRecovering(p)
    BY <1>t, <2>2 DEF markRecovering, Recovering, Sessions
  <2>3. CASE detachPeer(p)
    BY <1>t, <2>3 DEF detachPeer, Sessions
  <2>4. CASE EnqueueCheck(p)
    BY <2>4 DEF EnqueueCheck
  <2>5. CASE EnqueueMark(p)
    <3>1. s' = [s EXCEPT !.bridged = s.bridged \/ s.peerID = p] /\ peer[p].pc = "mark"
      BY <2>5 DEF EnqueueMark
    <3> QED BY <1>t, <3>1 DEF Sessions
  <2> QED BY <2>1, <2>2, <2>3, <2>4, <2>5
<1>p. /\ \A q \in Peers : q # p => peer'[q] = peer[q]
      /\ peer[p].conn # "none" \/ peer[p].pc # "idle"
      /\ peer[p].conn = "attaching" => peer[p].pc # "idle"
      /\ peer'[p].conn = "attaching" => peer[p].conn = "attaching"
      /\ peer'[p].pc \in {"first", "push"} => s.peerID = p \/ peer[p].pc \in {"first", "push"}
  <2>1. CASE markNegotiating(p)
    BY <1>t, <2>1 DEF markNegotiating, PeerRecords
  <2>2. CASE markRecovering(p)
    BY <1>t, <2>2 DEF markRecovering, PeerRecords
  <2>3. CASE detachPeer(p)
    BY <1>t, <2>3 DEF detachPeer, PeerRecords
  <2>4. CASE EnqueueCheck(p)
    BY <1>t, <2>4 DEF EnqueueCheck, PeerRecords
  <2>5. CASE EnqueueMark(p)
    BY <1>t, <2>5 DEF EnqueueMark, PeerRecords
  <2> QED BY <2>1, <2>2, <2>3, <2>4, <2>5
<1>1. p <= s.peerID /\ peer[p].conn # "attaching" /\ peer'[p].conn # "attaching"
  <2>0. NoPeer.conn = "none" /\ NoPeer.pc = "idle"
    BY DEF NoPeer
  <2>1. peer[p] # NoPeer
    BY <1>p, <2>0
  <2>2. ~(p > s.peerID)
    BY <2>1 DEF PeerInv, PeersInOrder
  <2>3. peer[p].conn # "attaching"
    BY <1>p DEF PeerInv, PeersInOrder
  <2>4. p <= s.peerID
    BY <1>c, <2>2 DEF Peers
  <2>5. peer'[p].conn # "attaching"
    BY <1>p, <2>3
  <2> QED BY <2>3, <2>4, <2>5
<1>2. s.peerID # 0 /\ s.peerID \in Peers
  BY <1>1, <1>c DEF Peers
<1>3. PeersInOrder'
  <2>0. \A q \in Peers : q > s.peerID => q # p
    BY <1>1, <1>c DEF Peers
  <2>1. \A q \in Peers : q > s'.peerID => peer'[q] = NoPeer
    BY <1>p, <1>s, <2>0 DEF PeerInv, PeersInOrder
  <2>2. \A q \in Peers : peer'[q].conn = "attaching" => q = s'.peerID /\ peer'[q].pc = "idle"
    BY <1>1, <1>p, <1>s DEF PeerInv, PeersInOrder
  <2>3. s'.bridged => s'.peerID # 0 /\ peer'[s'.peerID].conn # "attaching"
    BY <1>1, <1>2, <1>p, <1>s DEF PeerInv, PeersInOrder
  <2> QED BY <2>1, <2>2, <2>3 DEF PeersInOrder
<1>4. Attaching' <=> Attaching
  BY <1>1, <1>2, <1>p, <1>s DEF Attaching
<1>5. Passing' = Passing /\ Replaced' = Replaced
  BY <1>4, <1>s, <1>t DEF Passing, Replaced
<1>6. InHand(peer', s'.peerID) \subseteq InHand(peer, s.peerID)
  BY <1>p, <1>s DEF InHand
<1>7. Cardinality(InHand(peer', s'.peerID)) <= Cardinality(InHand(peer, s.peerID))
      /\ Cardinality(InHand(peer', s'.peerID)) \in Nat
  BY <1>6, HandsFewer, HandsFinite
<1>8. StaleCounted'
  BY <1>c, <1>t, <1>5, <1>7 DEF PeerInv, StaleCounted
<1> QED BY <1>2, <1>3, <1>8, <1>s DEF PeerInv, NoneBefore

(* The frame in hand goes into the channel: a peer that was replaced loses *)
(* it, the current one adds none of another.                               *)
LEMMA PeersPush == ASSUME SessionTyped, PeerInv, NEW p \in Peers, EnqueuePush(p) PROVE PeerInv'
<1>t. /\ UNCHANGED <<uplink, history>> /\ s \in Sessions /\ peer \in [Peers -> PeerRecords]
      /\ Len(s.mic) <= MicCap
  BY PeerFrame DEF SessionTyped, PeerSteps
<1>c. /\ history.stale \in Nat /\ Passing \in Nat /\ Replaced \in Nat /\ Cardinality(InHand(peer, s.peerID)) \in Nat
      /\ s.peerID \in 0..MaxPeers /\ s.mic \in Seq(Peers) /\ Cardinality(Foreign(s.mic, s.peerID)) \in Nat
  BY Counted
<1> DEFINE r == Append(IF Len(s.mic) < MicCap THEN s.mic ELSE Tail(s.mic), p)
<1>r. /\ r \in Seq(Peers) /\ Cardinality(Foreign(r, s.peerID)) \in Nat
      /\ Cardinality(Foreign(r, s.peerID)) <= Cardinality(Foreign(s.mic, s.peerID)) + One(p # s.peerID)
  BY <1>c, <1>t, ForeignPush
<1>e. s' = [s EXCEPT !.mic = r]
  BY DEF EnqueuePush
<1> HIDE DEF r
<1>s. s'.peerID = s.peerID /\ s'.bridged = s.bridged /\ s'.mic = r
  BY <1>e, <1>r, <1>t DEF Sessions
<1>p. /\ \A q \in Peers : q # p => peer'[q] = peer[q]
      /\ peer[p].pc \in {"first", "push"} /\ peer'[p].pc \in {"mark", "idle"}
      /\ peer'[p].conn = peer[p].conn
  BY <1>t DEF EnqueuePush, PeerRecords
<1>1. p <= s.peerID /\ peer[p].conn # "attaching"
  <2>0. NoPeer.conn = "none" /\ NoPeer.pc = "idle"
    BY DEF NoPeer
  <2>1. peer[p] # NoPeer
    BY <1>p, <2>0
  <2>2. ~(p > s.peerID)
    BY <2>1 DEF PeerInv, PeersInOrder
  <2>3. peer[p].conn # "attaching"
    BY <1>p DEF PeerInv, PeersInOrder
  <2>4. p <= s.peerID
    BY <1>c, <2>2 DEF Peers
  <2> QED BY <2>3, <2>4
<1>2. s.peerID # 0 /\ s.peerID \in Peers
  BY <1>1, <1>c DEF Peers
<1>3. PeersInOrder'
  <2>0. \A q \in Peers : q > s.peerID => q # p
    BY <1>1, <1>c DEF Peers
  <2>1. \A q \in Peers : q > s'.peerID => peer'[q] = NoPeer
    BY <1>p, <1>s, <2>0 DEF PeerInv, PeersInOrder
  <2>2. \A q \in Peers : peer'[q].conn = "attaching" => q = s'.peerID /\ peer'[q].pc = "idle"
    BY <1>1, <1>p, <1>s DEF PeerInv, PeersInOrder
  <2>3. s'.bridged => s'.peerID # 0 /\ peer'[s'.peerID].conn # "attaching"
    BY <1>1, <1>2, <1>p, <1>s DEF PeerInv, PeersInOrder
  <2> QED BY <2>1, <2>2, <2>3 DEF PeersInOrder
<1>4. Attaching' <=> Attaching
  BY <1>1, <1>2, <1>p, <1>s DEF Attaching
<1>5. Passing' \in Nat /\ Passing' <= Passing + One(p # s.peerID) /\ One(p # s.peerID) \in Nat
  <2>1. CASE Attaching
    <3>1. Passing' = One(uplink = "write") /\ Passing = One(uplink = "write")
      BY <1>4, <1>t, <2>1 DEF Passing
    <3>2. One(uplink = "write") \in Nat /\ One(p # s.peerID) \in Nat
      BY DEF One
    <3> QED BY <3>1, <3>2
  <2>2. CASE ~Attaching
    BY <1>4, <1>r, <1>s, <2>2 DEF Passing, One
  <2> QED BY <2>1, <2>2
<1>6. /\ Cardinality(InHand(peer', s'.peerID)) \in Nat
      /\ Cardinality(InHand(peer', s'.peerID)) + One(p # s.peerID) <= Cardinality(InHand(peer, s.peerID))
  <2>1. CASE p = s.peerID
    <3>1. InHand(peer', s'.peerID) \subseteq InHand(peer, s.peerID)
      BY <1>p, <1>s, <2>1 DEF InHand
    <3> QED BY <1>c, <2>1, <3>1, HandsFewer, HandsFinite DEF One
  <2>2. CASE p # s.peerID
    <3>1. InHand(peer', s'.peerID) = InHand(peer, s.peerID) \ {p} /\ p \in InHand(peer, s.peerID)
      BY <1>p, <1>s, <2>2 DEF InHand
    <3>2. IsFiniteSet(InHand(peer, s.peerID))
      BY HandsFinite
    <3>3. Cardinality(InHand(peer, s.peerID) \ {p}) = Cardinality(InHand(peer, s.peerID)) - 1
      BY <3>1, <3>2, FS_RemoveElement
    <3>4. Cardinality(InHand(peer', s'.peerID)) \in Nat
      BY HandsFinite
    <3> QED BY <1>c, <2>2, <3>1, <3>3, <3>4 DEF One
  <2> QED BY <2>1, <2>2
<1>7. Replaced' = Replaced
  BY <1>s DEF Replaced
<1>8. StaleCounted'
  <2>1. history.stale + Passing + Cardinality(InHand(peer, s.peerID)) <= 2 * Replaced
    BY DEF PeerInv, StaleCounted
  <2>2. history'.stale = history.stale
    BY <1>t
  <2>3. history'.stale + Passing' + Cardinality(InHand(peer', s'.peerID)) <= 2 * Replaced'
    BY <1>c, <1>5, <1>6, <1>7, <2>1, <2>2
  <2> QED BY <2>3 DEF StaleCounted
<1> QED BY <1>2, <1>3, <1>8, <1>s DEF PeerInv, NoneBefore

(* The steps of a peer.                                                    *)
LEMMA PeersPeer == ASSUME SessionTyped, PeerInv, NEW p \in Peers, PeerSteps(p) PROVE PeerInv'
  BY PeersAttach, PeersDrained, PeersTold, PeersPush DEF PeerSteps

(* writeUplink takes a frame of an old peer out of the channel and counts  *)
(* it; a drain only takes frames out.                                      *)
LEMMA PeersAudio == ASSUME SessionTyped, PeerInv, AudioSteps PROVE PeerInv'
<1>t. s \in Sessions /\ history \in Histories
  BY DEF SessionTyped
<1>u. UNCHANGED peer /\ s'.peerID = s.peerID /\ (s'.bridged => s.bridged)
  BY AudioFrame
<1>c. /\ history.stale \in Nat /\ Passing \in Nat /\ Replaced \in Nat /\ Cardinality(InHand(peer, s.peerID)) \in Nat
      /\ s.peerID \in 0..MaxPeers /\ s.mic \in Seq(Peers) /\ Cardinality(Foreign(s.mic, s.peerID)) \in Nat
  BY Counted
<1>1. PeersInOrder'
  BY <1>u DEF PeerInv, PeersInOrder
<1>2. Replaced' = Replaced /\ InHand(peer', s'.peerID) = InHand(peer, s.peerID) /\ (Attaching' <=> Attaching)
  BY <1>u DEF Replaced, Attaching
<1> SUFFICES /\ history'.stale \in Nat /\ Passing' \in Nat
             /\ history'.stale + Passing' <= history.stale + Passing
             /\ NoneBefore'
  <2> DEFINE held == Cardinality(InHand(peer, s.peerID))
  <2>1. StaleCounted' <=> history'.stale + Passing' + held <= 2 * Replaced
    BY <1>2 DEF StaleCounted
  <2>2. history.stale + Passing + held <= 2 * Replaced
    BY DEF PeerInv, StaleCounted
  <2>3. held \in Nat /\ history.stale \in Nat /\ Passing \in Nat /\ Replaced \in Nat
    BY <1>c
  <2> HIDE DEF held
  <2>4. StaleCounted'
    BY <2>1, <2>2, <2>3
  <2> QED BY <1>1, <2>4 DEF PeerInv
<1>3. CASE drainMic
  <2>1. s'.mic = <<>> /\ UNCHANGED <<uplink, history>>
    BY <1>3, <1>t DEF drainMic, Sessions
  <2>2. Passing' = IF Attaching THEN Passing ELSE 0
    BY <1>2, <1>u, <2>1, ForeignEmpty DEF Passing
  <2> QED BY <1>c, <1>u, <2>1, <2>2 DEF PeerInv, NoneBefore
<1>4. CASE UplinkRead
  <2>1. s.bridged /\ UNCHANGED <<s, history>>
    BY <1>4 DEF UplinkRead
  <2>2. ~Attaching /\ s.peerID # 0
    BY <2>1 DEF PeerInv, PeersInOrder, Attaching
  <2>3. Passing' = Passing
    BY <1>2, <2>1, <2>2 DEF Passing
  <2> QED BY <1>c, <2>1, <2>2, <2>3 DEF NoneBefore
<1>5. CASE UplinkWrite
  <2>0. uplink = "write" /\ uplink' # "write" /\ s.peerID # 0
    BY <1>5 DEF UplinkWrite, PeerInv, NoneBefore
  <2>1. CASE s.mic = <<>>
    <3>1. UNCHANGED <<s, history>>
      BY <1>5, <2>1 DEF UplinkWrite
    <3>2. Passing' = IF Attaching THEN 0 ELSE Passing
      BY <1>2, <2>0, <3>1 DEF Passing, One
    <3> QED BY <1>c, <2>0, <3>1, <3>2 DEF NoneBefore
  <2>2. CASE s.mic # <<>>
    <3>1. Tail(s.mic) \in Seq(Peers) /\ s' = [s EXCEPT !.mic = Tail(s.mic)]
      BY <1>5, <1>c, <2>2 DEF UplinkWrite
    <3>2. s'.mic = Tail(s.mic)
      BY <1>t, <3>1 DEF Sessions
    <3>3. history'.stale = history.stale + One(Head(s.mic) # s.peerID)
      <4> DEFINE u == IF s.held THEN history.up + 1 ELSE history.up
                 k == IF Head(s.mic) # s.peerID THEN history.stale + 1 ELSE history.stale
      <4>1. history' = [history EXCEPT !.up = u, !.stale = k]
        BY <1>5, <2>2 DEF UplinkWrite
      <4>2. k = history.stale + One(Head(s.mic) # s.peerID)
        BY <1>c DEF One
      <4> HIDE DEF u, k
      <4>3. history'.stale = k
        BY <1>t, <4>1 DEF Histories
      <4> QED BY <4>2, <4>3
    <3>4. /\ Cardinality(Foreign(s.mic, s.peerID))
               = Cardinality(Foreign(Tail(s.mic), s.peerID)) + One(Head(s.mic) # s.peerID)
          /\ Cardinality(Foreign(Tail(s.mic), s.peerID)) \in Nat
      BY <1>c, <2>2, <3>1, ForeignTail, ForeignFinite
    <3>5. One(Head(s.mic) # s.peerID) \in 0..1
      BY DEF One
    <3>6. CASE Attaching
      <4>1. Passing = 1 /\ Passing' = 0
        BY <1>2, <2>0, <3>6 DEF Passing, One
      <4> QED BY <1>c, <1>u, <2>0, <3>3, <3>5, <4>1 DEF NoneBefore
    <3>7. CASE ~Attaching
      <4>1. /\ Passing = Cardinality(Foreign(s.mic, s.peerID))
            /\ Passing' = Cardinality(Foreign(Tail(s.mic), s.peerID))
        BY <1>2, <1>u, <3>2, <3>7 DEF Passing
      <4>2. history'.stale \in Nat /\ Passing' \in Nat /\ history'.stale + Passing' <= history.stale + Passing
        BY <1>c, <3>3, <3>4, <3>5, <4>1
      <4>3. NoneBefore'
        BY <1>u, <2>0 DEF NoneBefore
      <4> QED BY <4>2, <4>3
    <3> QED BY <3>6, <3>7
  <2> QED BY <2>1, <2>2
<1>6. CASE UplinkMark
  <2>1. s'.mic = s.mic /\ uplink = "mark" /\ uplink' = "idle" /\ UNCHANGED history
    BY <1>6, <1>t DEF UplinkMark, Sessions
  <2>2. Passing' = Passing
    BY <1>2, <1>u, <2>1 DEF Passing, One
  <2> QED BY <1>c, <1>u, <2>1, <2>2 DEF PeerInv, NoneBefore
<1>7. CASE DownlinkRead
  <2>1. UNCHANGED <<s, uplink, history>>
    BY <1>7 DEF DownlinkRead
  <2>2. Passing' = Passing
    BY <1>2, <2>1 DEF Passing
  <2> QED BY <1>c, <2>1, <2>2 DEF PeerInv, NoneBefore
<1>8. CASE DownlinkWrite
  <2>1. history'.stale = history.stale /\ UNCHANGED uplink
    BY <1>8, <1>t DEF DownlinkWrite, Histories
  <2>2. s' = s \/ s' = [s EXCEPT !.bridged = FALSE, !.status = "recovering"]
    BY <1>8 DEF DownlinkWrite, Recovering
  <2>3. s'.mic = s.mic
    BY <1>t, <2>2 DEF Sessions
  <2>4. Passing' = Passing
    BY <1>2, <1>u, <2>1, <2>3 DEF Passing
  <2> QED BY <1>c, <1>u, <2>1, <2>3, <2>4 DEF PeerInv, NoneBefore
<1> QED BY <1>3, <1>4, <1>5, <1>6, <1>7, <1>8 DEF AudioSteps

-----------------------------------------------------------------------------
(* A session that has not begun or is over has no peers, no frames and no  *)
(* one who waits.                                                          *)
LEMMA NothingPassing ==
    ASSUME s.peerID = 0, s.mic = <<>>, history.stale = 0, \A p \in Peers : peer[p] = NoPeer
    PROVE  StaleCounted
<1>1. InHand(peer, s.peerID) = {}
  BY DEF InHand, NoPeer
<1>2. Cardinality(InHand(peer, s.peerID)) = 0
  BY <1>1, FS_EmptySet
<1>3. Passing = 0
  BY ForeignEmpty DEF Passing, Attaching
<1> QED BY <1>2, <1>3 DEF StaleCounted, Replaced

(* A session that is not there has no peer and no frame.                   *)
LEMMA NoSessionTyped ==
    ASSUME NEW status \in Statuses, NEW b \in BOOLEAN
    PROVE  LET x == [NoSession EXCEPT !.status = status, !.everBridged = b]
           IN  /\ x \in Sessions /\ NoSession \in Sessions
               /\ x.peerID = 0 /\ x.mic = <<>> /\ x.held = FALSE /\ x.bridged = FALSE
<1>1. <<>> \in Seq(Peers) /\ 0 \in 0..MaxPeers /\ "waiting_for_permission" \in Statuses
  BY WebSessionAssumption DEF Statuses
<1>2. NoSession \in Sessions
  BY <1>1 DEF NoSession, Sessions
<1>3. [NoSession EXCEPT !.status = status, !.everBridged = b] \in Sessions
  BY <1>2 DEF Sessions
<1> QED BY <1>2, <1>3 DEF NoSession

(* Initially there is no session.                                          *)
LEMMA SessionInit == Init => SessionInv
<1> SUFFICES ASSUME Init PROVE SessionInv
  OBVIOUS
<1>1. s = NoSession /\ NoSession \in Sessions
  BY NoSessionTyped DEF Init, Statuses
<1>2. s.peerID = 0 /\ s.mic = <<>> /\ s.held = FALSE /\ s.bridged = FALSE /\ Len(s.mic) = 0
  BY <1>1 DEF NoSession
<1>3. \A p \in Peers : peer[p] = NoPeer
  BY DEF Init
<1>4. history \in Histories /\ history.up = 0 /\ history.down = 0 /\ history.stale = 0
  BY DEF Init, NoHistory, Histories
<1>5. call \in CallRecords /\ ReadyIsActive /\ session \in {"none", "opening", "ready", "over"}
  <2>1. CASE session = "none" /\ call = [state |-> "incoming", held |-> FALSE]
    BY <2>1 DEF CallRecords, ReadyIsActive
  <2>2. CASE session = "ready" /\ call = [state |-> "active", held |-> FALSE]
    BY <2>2 DEF CallRecords, ReadyIsActive
  <2> QED BY <2>1, <2>2 DEF Init
<1>6. peer \in [Peers -> PeerRecords] /\ waiting \in Waits
  BY DEF Init, NoPeer, PeerRecords, NoWaiting, Waits
<1>7. uplink = "idle" /\ downlink = 0 /\ deadline = "none"
  BY DEF Init, NoDeadline
<1>8. SessionTyped
  BY <1>1, <1>2, <1>4, <1>5, <1>6, <1>7, WebSessionAssumption DEF SessionTyped, Uplinks, Deadlines
<1>9. QuietBefore /\ HoldCounted /\ NoneBefore
  BY <1>2, <1>4, <1>7 DEF QuietBefore, HoldCounted, NoneBefore
<1>10. PeersInOrder
  BY <1>2, <1>3 DEF PeersInOrder, NoPeer
<1>11. StaleCounted
  BY <1>2, <1>3, <1>4, NothingPassing
<1> QED BY <1>5, <1>8, <1>9, <1>10, <1>11 DEF SessionInv

(* The end of a session resets it.                                         *)
LEMMA OverStep ==
    ASSUME SessionTyped, NEW state \in {"active", "ended"}, NEW status \in Statuses, Over(state, status)
    PROVE  SessionInv'
<1>0. s.everBridged \in BOOLEAN
  BY SessionFields DEF SessionTyped
<1>1. s' \in Sessions /\ s'.peerID = 0 /\ s'.mic = <<>> /\ s'.held = FALSE /\ s'.bridged = FALSE /\ Len(s'.mic) = 0
  BY <1>0, NoSessionTyped DEF Over
<1>3. \A p \in Peers : peer'[p] = NoPeer
  BY DEF Over
<1>4. history' \in Histories /\ history'.up = 0 /\ history'.down = 0 /\ history'.stale = 0
  BY DEF Over, NoHistory, Histories
<1>5. call' \in CallRecords /\ session' = "over"
  BY DEF Over, CallRecords
<1>6. peer' \in [Peers -> PeerRecords] /\ waiting' \in Waits
  BY DEF Over, NoPeer, PeerRecords, NoWaiting, Waits
<1>7. uplink' = "idle" /\ downlink' = 0 /\ deadline' = "none"
  BY DEF Over, NoDeadline
<1>8. SessionTyped'
  BY <1>1, <1>4, <1>5, <1>6, <1>7, WebSessionAssumption DEF SessionTyped, Uplinks, Deadlines
<1>9. ReadyIsActive' /\ QuietBefore' /\ HoldCounted' /\ NoneBefore'
  BY <1>1, <1>4, <1>5, <1>7 DEF ReadyIsActive, QuietBefore, HoldCounted, NoneBefore
<1>10. PeersInOrder'
  BY <1>1, <1>3 DEF PeersInOrder, NoPeer
<1>11. StaleCounted'
  <2>1. InHand(peer', s'.peerID) = {}
    BY <1>3 DEF InHand, NoPeer
  <2>2. Cardinality(InHand(peer', s'.peerID)) = 0
    BY <2>1, FS_EmptySet
  <2>3. Passing' = 0
    BY <1>1, ForeignEmpty DEF Passing, Attaching
  <2> QED BY <1>1, <1>4, <2>2, <2>3 DEF StaleCounted, Replaced
<1> QED BY <1>8, <1>9, <1>10, <1>11 DEF SessionInv

(* Every step of a session keeps the invariant.                            *)
LEMMA SessionStep == SessionInv /\ [Next]_vars => SessionInv'
<1> SUFFICES ASSUME SessionInv, [Next]_vars PROVE SessionInv'
  OBVIOUS
<1>1. SessionTyped /\ HoldInv /\ PeerInv
  BY DEF SessionInv, HoldInv, PeerInv
<1>i. SessionTyped' /\ HoldInv' /\ PeerInv' => SessionInv'
  BY DEF SessionInv, HoldInv, PeerInv
<1>s. s.status \in Statuses /\ "unavailable" \in Statuses
  BY <1>1, SessionFields DEF SessionTyped, Statuses
<1>2. CASE CallSteps
  BY <1>1, <1>2, <1>i, CallFrame, HoldCall, PeersCall
<1>3. CASE \E p \in Peers : PeerSteps(p)
  BY <1>1, <1>3, <1>i, PeerFrame, HoldPeer, PeersPeer
<1>4. CASE AudioSteps
  BY <1>1, <1>4, <1>i, AudioFrame, HoldAudio, PeersAudio
<1>5. CASE Ends
  BY <1>1, <1>5, <1>s, OverStep DEF Ends
<1>6. CASE Fails
  BY <1>1, <1>6, <1>s, OverStep DEF Fails
<1>7. CASE DeadlineHangsUp
  BY <1>1, <1>7, <1>s, OverStep DEF DeadlineHangsUp
<1>8. CASE UNCHANGED vars
  BY <1>8 DEF vars, SessionInv, SessionTyped, ReadyIsActive, QuietBefore, HoldCounted, PeersInOrder,
              NoneBefore, StaleCounted, Passing, Attaching, Replaced
<1> QED BY <1>2, <1>3, <1>4, <1>5, <1>6, <1>7, <1>8, StepCases

(* The invariant holds throughout.                                         *)
LEMMA SessionInvHolds == Spec => []SessionInv
  BY SessionInit, SessionStep, PTL DEF Spec

(* The types of the session hold for any number of peers and holds and any *)
(* capacity of the channel.                                                *)
THEOREM SessionTypeCorrect == Spec => []TypeOK
<1>1. SessionInv => TypeOK
  <2> SUFFICES ASSUME SessionInv PROVE TypeOK
    OBVIOUS
  <2>1. /\ s.peerID \in 0..MaxPeers /\ s.status \in Statuses
        /\ \A w \in DOMAIN waiting : waiting[w] \in Nat
    BY SessionFields DEF SessionInv, SessionTyped, Waits
  <2> QED BY <2>1 DEF SessionInv, SessionTyped, TypeOK, CallRecords, PeerRecords, Statuses, Uplinks, Deadlines
<1> QED BY <1>1, SessionInvHolds, PTL

(* Hold replaces both directions: while the session is held at most the    *)
(* frame that writeUplink, and the one that readDownlink, had in hand at   *)
(* setHeld(true) still passes.                                             *)
THEOREM HeldIsSilent == Spec => []HeldSilence
<1>1. SessionInv => HeldSilence
  <2> SUFFICES ASSUME SessionInv PROVE HeldSilence
    OBVIOUS
  <2>1. history.up \in Nat /\ history.down \in Nat
    BY HistoryFields DEF SessionInv
  <2> QED BY <2>1 DEF SessionInv, HoldCounted, HeldSilence, One
<1> QED BY <1>1, SessionInvHolds, PTL

(* However many peers replace one another: for each that was replaced at   *)
(* most two frames still reach the phone, the one that writeUplink takes   *)
(* before attachPeer drains the channel and the one in hand of enqueueMic. *)
THEOREM OldPeersFallSilent == Spec => []OldPeerSilent
<1>1. SessionInv => OldPeerSilent
  <2> SUFFICES ASSUME SessionInv PROVE OldPeerSilent
    OBVIOUS
  <2>1. history.stale \in Nat /\ Passing \in Nat /\ Cardinality(InHand(peer, s.peerID)) \in Nat /\ Replaced \in Nat
    BY Counted DEF SessionInv
  <2> QED BY <2>1 DEF SessionInv, StaleCounted, OldPeerSilent
<1> QED BY <1>1, SessionInvHolds, PTL

-----------------------------------------------------------------------------
(* The delivery of messages.                                               *)

Table == [MessageIDs -> Message \cup {None}]
Status == Done \cup {"queued"}
Outcome == {"expired", "delivered", "queued"}

(* The delivery goroutine between its steps.                               *)
LoopRecords ==
    {Idle}
    \cup [pc : {"next"}, now : Nat, snapshot : Table]
    \cup [pc : {"send"}, now : Nat, snapshot : Table, id : MessageIDs, outcome : {None}]
    \cup [pc : {"read"}, now : Nat, snapshot : Table, id : MessageIDs, outcome : Outcome]
    \cup [pc : {"change", "store"}, now : Nat, snapshot : Table, id : MessageIDs,
          outcome : Outcome, copy : Message]

UserRecords == [id : MessageIDs, version : Nat, kind : {"read", "delete"}]

(* Types, and that no message disappears while the goroutine or a user     *)
(* refers to it.                                                           *)
Typed ==
    /\ messages \in Table /\ disk \in Table /\ accepted \subseteq MessageIDs
    /\ clock \in 0..MaxTime /\ loop \in LoopRecords
    /\ user # None => user \in UserRecords /\ messages[user.id] # None
    /\ loop.pc # "idle" => \A m \in MessageIDs : loop.snapshot[m] # None => messages[m] # None
    /\ loop.pc \in {"send", "read", "change", "store"} => messages[loop.id] # None

(* Memory differs from disk at most in the message whose record was        *)
(* changed in place, and then the write that follows is accepted.          *)
ChangeIsWritten ==
    \A m \in MessageIDs :
        \/ messages[m] = disk[m]
        \/ loop.pc = "store" /\ loop.id = m /\ loop.copy.version = messages[m].version

(* What the goroutine is about to record as delivered was accepted.        *)
OutcomeTrue ==
    /\ DeliveredWasAccepted
    /\ loop.pc \in {"read", "change", "store"} /\ loop.outcome = "delivered" => loop.id \in accepted
    /\ loop.pc \in {"change", "store"} /\ loop.copy.status = "delivered" => loop.id \in accepted

IInv == Typed /\ ChangeIsWritten /\ OutcomeTrue

USE NoneAssumption

-----------------------------------------------------------------------------
(* The records that the steps build.                                       *)

(* A message field by field.                                               *)
LEMMA MessageFields ==
  ASSUME NEW v \in Message
  PROVE  /\ v.version \in Nat /\ v.unread \in BOOLEAN /\ v.deleted \in BOOLEAN /\ v.attempts \in Nat
         /\ v.status \in Status /\ v.nextAt \in Nat \cup {None} /\ v.expiresAt \in Nat /\ v # None
<1>1. v.version \in Nat /\ v.attempts \in Nat /\ v.expiresAt \in Nat
  BY Zenon DEF Message
<1>2. v.unread \in BOOLEAN /\ v.deleted \in BOOLEAN /\ v.status \in Status /\ v.nextAt \in Nat \cup {None}
  BY Zenon DEF Message, Status
<1> QED BY <1>1, <1>2, Zenon

(* A message with one field set.                                           *)
LEMMA FieldSet ==
  ASSUME NEW v \in Message
  PROVE  /\ \A a \in Status : LET w == [v EXCEPT !.status = a] IN
              w \in Message /\ w.version = v.version /\ w.status = a
         /\ \A b \in Nat : LET w == [v EXCEPT !.attempts = b] IN
              w \in Message /\ w.version = v.version /\ w.status = v.status
         /\ \A c \in Nat \cup {None} : LET w == [v EXCEPT !.nextAt = c] IN
              w \in Message /\ w.version = v.version /\ w.status = v.status
         /\ \A n \in Nat : LET w == [v EXCEPT !.version = n] IN
              w \in Message /\ w.version = n /\ w.status = v.status
         /\ \A d \in BOOLEAN : LET w == [v EXCEPT !.unread = d] IN
              w \in Message /\ w.version = v.version /\ w.status = v.status
         /\ \A d \in BOOLEAN : LET w == [v EXCEPT !.deleted = d] IN
              w \in Message /\ w.version = v.version /\ w.status = v.status
<1> USE MessageFields
<1>1. \A a \in Status : LET w == [v EXCEPT !.status = a] IN
        w \in Message /\ w.version = v.version /\ w.status = a
  BY DEF Message, Status
<1>2. \A b \in Nat : LET w == [v EXCEPT !.attempts = b] IN
        w \in Message /\ w.version = v.version /\ w.status = v.status
  BY DEF Message
<1>3. \A c \in Nat \cup {None} : LET w == [v EXCEPT !.nextAt = c] IN
        w \in Message /\ w.version = v.version /\ w.status = v.status
  BY DEF Message
<1>4. \A n \in Nat : LET w == [v EXCEPT !.version = n] IN
        w \in Message /\ w.version = n /\ w.status = v.status
  BY DEF Message
<1>5. \A d \in BOOLEAN : LET w == [v EXCEPT !.unread = d] IN
        w \in Message /\ w.version = v.version /\ w.status = v.status
  BY DEF Message
<1>6. \A d \in BOOLEAN : LET w == [v EXCEPT !.deleted = d] IN
        w \in Message /\ w.version = v.version /\ w.status = v.status
  BY DEF Message
<1> QED BY <1>1, <1>2, <1>3, <1>4, <1>5, <1>6

(* A change of the delivery's fields.                                      *)
LEMMA DeliveryChanged ==
  ASSUME NEW v \in Message, NEW d \in Status \X Nat \X (Nat \cup {None})
  PROVE  /\ WithDelivery(v, d) \in Message
         /\ WithDelivery(v, d).version = v.version /\ WithDelivery(v, d).status = d[1]
<1> DEFINE a == d[1]
           b == d[2]
           c == d[3]
           x == [v EXCEPT !.status = a]
           y == [x EXCEPT !.attempts = b]
           z == [y EXCEPT !.nextAt = c]
<1>0. a \in Status /\ b \in Nat /\ c \in Nat \cup {None}
  OBVIOUS
<1> HIDE DEF a, b, c
<1>1. x \in Message /\ x.version = v.version /\ x.status = a
  BY <1>0, FieldSet
<1> HIDE DEF x
<1>2. y \in Message /\ y.version = x.version /\ y.status = x.status
  BY <1>0, <1>1, FieldSet
<1> HIDE DEF y
<1>3. z \in Message /\ z.version = y.version /\ z.status = y.status
  BY <1>0, <1>2, FieldSet
<1>4. z = WithDelivery(v, d)
  BY Zenon DEF WithDelivery, x, y, a, b, c
<1> QED BY <1>1, <1>2, <1>3, <1>4, Zenon DEF a

(* A user's write, of MarkRead or DeleteMessage and of MarkAllMessagesRead. *)
Written(v, n, d) == [v EXCEPT !.version = n, !.unread = FALSE, !.deleted = @ \/ d]
Read(v, n) == [v EXCEPT !.version = n, !.unread = FALSE]

(* What a user writes, a read or a deletion, is a message with its status  *)
(* as it was.                                                              *)
LEMMA UserChanged ==
  ASSUME NEW v \in Message, NEW n \in Nat
  PROVE  /\ Read(v, n) \in Message /\ Read(v, n).status = v.status
         /\ \A d \in BOOLEAN : Written(v, n, d) \in Message /\ Written(v, n, d).status = v.status
<1> DEFINE x == [v EXCEPT !.version = n]
           y == [x EXCEPT !.unread = FALSE]
<1>1. x \in Message /\ x.version = n /\ x.status = v.status
  BY FieldSet
<1> HIDE DEF x
<1>2. FALSE \in BOOLEAN
  OBVIOUS
<1>3. y \in Message /\ y.version = x.version /\ y.status = x.status
  BY <1>1, <1>2, FieldSet
<1>4. y = Read(v, n)
  BY Zenon DEF x, Read
<1> HIDE DEF y
<1>5. ASSUME NEW d \in BOOLEAN
      PROVE  Written(v, n, d) \in Message /\ Written(v, n, d).status = v.status
  <2> DEFINE e == y.deleted \/ d
             z == [y EXCEPT !.deleted = e]
  <2>1. e \in BOOLEAN
    BY Zenon
  <2>2. z = Written(v, n, d)
    BY Zenon DEF x, y, Written
  <2> HIDE DEF e
  <2>3. z \in Message /\ z.version = y.version /\ z.status = y.status
    BY <1>3, <2>1, FieldSet
  <2> QED BY <1>1, <1>3, <2>2, <2>3, Zenon
<1> QED BY <1>1, <1>3, <1>4, <1>5, Zenon

(* updateDelivery's change keeps the version, and makes a message          *)
(* delivered only for that outcome.                                        *)
LEMMA ChangedIs ==
  ASSUME NEW v \in Message, NEW o \in Outcome, loop.now \in Nat
  PROVE  /\ Changed(v, o) \in Message /\ Changed(v, o).version = v.version
         /\ Changed(v, o).status = "delivered" => v.status = "delivered" \/ o = "delivered"
<1> DEFINE n == v.attempts + 1
           t == loop.now + retryDelay(v.attempts + 1)
           d == CASE o = "expired" -> <<"expired", v.attempts, None>>
                  [] o = "delivered" -> <<"delivered", n, None>>
                  [] o = "queued" -> <<v.status, n, t>>
<1>1. n \in Nat /\ t \in Nat
  <2>1. v.attempts \in Nat
    BY MessageFields
  <2> QED BY <2>1 DEF retryDelay
<1>2. Changed(v, o) = WithDelivery(v, d)
  BY DEF Changed
<1>3. v.status \in Status /\ v.attempts \in Nat /\ "expired" \in Status /\ "delivered" \in Status
  BY MessageFields DEF Status, Done
<1> HIDE DEF n, t
<1>4. /\ d \in Status \X Nat \X (Nat \cup {None})
      /\ d[1] = "delivered" => v.status = "delivered" \/ o = "delivered"
  BY <1>1, <1>3 DEF Outcome
<1> HIDE DEF d
<1> QED BY <1>2, <1>4, DeliveryChanged, Zenon



-----------------------------------------------------------------------------
(* The delivery goroutine field by field.                                  *)
LEMMA LoopFields ==
  ASSUME loop \in LoopRecords
  PROVE  /\ loop.pc \in {"idle", "next", "send", "read", "change", "store"}
         /\ loop.pc # "idle" => loop.now \in Nat /\ loop.snapshot \in Table
         /\ loop.pc \in {"send", "read", "change", "store"} => loop.id \in MessageIDs
         /\ loop.pc \in {"read", "change", "store"} => loop.outcome \in Outcome
         /\ loop.pc \in {"change", "store"} => loop.copy \in Message
  BY DEF LoopRecords, Idle

(* The goroutine before it sends.                                          *)
LEMMA SendRecord ==
  ASSUME loop \in LoopRecords, loop.pc = "send"
  PROVE  /\ loop.pc = "send" /\ loop.now \in Nat /\ loop.snapshot \in Table /\ loop.id \in MessageIDs
         /\ loop \in [pc : {"send"}, now : Nat, snapshot : Table, id : MessageIDs, outcome : {None}]
<1>1. loop \in [pc : {"send"}, now : Nat, snapshot : Table, id : MessageIDs, outcome : {None}]
  BY DEF LoopRecords, Idle
<1> QED BY <1>1

(* The goroutine while it changes a record.                                *)
LEMMA CopyRecord ==
  ASSUME loop \in LoopRecords, loop.pc \in {"change", "store"}
  PROVE  loop \in [pc : {"change", "store"}, now : Nat, snapshot : Table, id : MessageIDs,
                   outcome : Outcome, copy : Message]
BY DEF LoopRecords, Idle

(* What the other actors read while the record is changed: messages of the *)
(* same version, delivered only if the message is or becomes so.           *)
LEMMA SeenIs ==
  ASSUME Typed, OutcomeTrue, NEW m \in MessageIDs, messages[m] # None, NEW w \in Seen(m)
  PROVE  /\ w \in Message /\ w.version = messages[m].version
         /\ w.status = "delivered" => m \in accepted
<1> DEFINE v == messages[m]
           x == Changed(v, loop.outcome)
<1>1. v \in Message /\ (v.status = "delivered" => m \in accepted)
  BY DEF Typed, Table, OutcomeTrue, DeliveredWasAccepted
<1>2. CASE loop.pc = "change" /\ loop.id = m /\ loop.copy.version = v.version
  <2>1. loop.outcome \in Outcome /\ loop.now \in Nat
    BY <1>2, LoopFields DEF Typed
  <2>2. x \in Message /\ (x.status = "delivered" => m \in accepted)
    BY <1>1, <1>2, <2>1, ChangedIs DEF OutcomeTrue
  <2>3. Seen(m) = {WithDelivery(v, d) :
                     d \in {v.status, x.status} \X {v.attempts, x.attempts} \X {v.nextAt, x.nextAt}}
    BY <1>2, Zenon DEF Seen
  <2> HIDE DEF x, v
  <2>4. PICK d \in {v.status, x.status} \X {v.attempts, x.attempts} \X {v.nextAt, x.nextAt} :
          w = WithDelivery(v, d)
    BY <2>3, Zenon
  <2>5. d[1] \in {v.status, x.status} /\ d \in Status \X Nat \X (Nat \cup {None})
    BY <1>1, <2>2, MessageFields
  <2>6. w \in Message /\ w.version = v.version /\ w.status = d[1]
    BY <1>1, <2>4, <2>5, DeliveryChanged, Zenon
  <2> QED BY <1>1, <2>2, <2>5, <2>6 DEF v
<1>3. CASE ~(loop.pc = "change" /\ loop.id = m /\ loop.copy.version = v.version)
  <2>1. w = v
    BY <1>3, Zenon DEF Seen
  <2> QED BY <1>1, <2>1
<1> QED BY <1>2, <1>3

(* UpsertMessage, table by table.                                          *)
LEMMA UpsertIs ==
  ASSUME messages \in Table, disk \in Table, NEW m \in MessageIDs, NEW v \in Message, UpsertMessage(m, v)
  PROVE  /\ messages' \in Table /\ disk' \in Table
         /\ \A n \in MessageIDs : n # m => messages'[n] = messages[n] /\ disk'[n] = disk[n]
         /\ \/ /\ messages'[m] = v /\ disk'[m] = v
               /\ messages[m] = None \/ v.version = messages[m].version + 1
            \/ /\ messages' = messages /\ disk' = disk
               /\ messages[m] # None /\ v.version # messages[m].version + 1
<1>1. CASE messages[m] = None \/ v.version = messages[m].version + 1
  <2>1. messages' = [messages EXCEPT ![m] = v] /\ disk' = [disk EXCEPT ![m] = v]
    BY <1>1 DEF UpsertMessage
  <2> QED BY <1>1, <2>1 DEF Table
<1>2. CASE ~(messages[m] = None \/ v.version = messages[m].version + 1)
  <2>1. messages' = messages /\ disk' = disk
    BY <1>2 DEF UpsertMessage
  <2> QED BY <1>2, <2>1
<1> QED BY <1>1, <1>2

-----------------------------------------------------------------------------
(* A step of a user, of the clock or of an arriving SMS: it writes only    *)
(* messages that it gives both tables, and leaves the goroutine alone.     *)
LEMMA WriteKeeps ==
  ASSUME IInv, messages' \in Table, disk' \in Table, UNCHANGED <<accepted, loop>>, clock' \in 0..MaxTime,
         user' # None => user' \in UserRecords /\ messages'[user'.id] # None,
         \A m \in MessageIDs :
             \/ messages'[m] = messages[m] /\ disk'[m] = disk[m]
             \/ /\ messages'[m] = disk'[m] /\ messages'[m] # None
                /\ messages'[m].status = "delivered" => m \in accepted
  PROVE  IInv'
<1>1. \A m \in MessageIDs : messages[m] # None => messages'[m] # None
  OBVIOUS
<1>2. Typed'
  <2>1. loop.pc # "idle" => \A m \in MessageIDs : loop.snapshot[m] # None => messages'[m] # None
    BY <1>1 DEF IInv, Typed
  <2>2. loop.pc \in {"send", "read", "change", "store"} => messages'[loop.id] # None
    BY <1>1, LoopFields DEF IInv, Typed
  <2> QED BY <2>1, <2>2 DEF IInv, Typed
<1>3. ChangeIsWritten'
  BY DEF IInv, ChangeIsWritten
<1>4. DeliveredWasAccepted'
  BY DEF IInv, OutcomeTrue, DeliveredWasAccepted
<1> QED BY <1>2, <1>3, <1>4 DEF IInv, OutcomeTrue

(* A step of the goroutine that leaves the tables alone.                   *)
LEMMA LoopKeeps ==
  ASSUME IInv, UNCHANGED <<messages, disk, user, clock>>, loop.pc # "store",
         accepted \subseteq accepted', accepted' \subseteq MessageIDs, loop' \in LoopRecords,
         loop'.pc # "idle" => \A m \in MessageIDs : loop'.snapshot[m] # None => messages[m] # None,
         loop'.pc \in {"send", "read", "change", "store"} => messages[loop'.id] # None,
         loop'.pc \in {"read", "change", "store"} /\ loop'.outcome = "delivered" => loop'.id \in accepted',
         loop'.pc \in {"change", "store"} /\ loop'.copy.status = "delivered" => loop'.id \in accepted'
  PROVE  IInv'
<1>1. Typed'
  BY DEF IInv, Typed
<1>2. ChangeIsWritten'
  BY DEF IInv, ChangeIsWritten
<1>3. DeliveredWasAccepted'
  BY DEF IInv, OutcomeTrue, DeliveredWasAccepted
<1> QED BY <1>1, <1>2, <1>3 DEF IInv, OutcomeTrue



-----------------------------------------------------------------------------
(* The invariant is inductive.                                             *)
LEMMA InitHolds == DeliveryInit => IInv
<1> SUFFICES ASSUME DeliveryInit PROVE IInv
  OBVIOUS
<1>1. messages \in Table /\ disk \in Table /\ \A m \in MessageIDs : messages[m] = None /\ disk[m] = None
  BY DEF DeliveryInit, NoMessages, Table
<1>2. Typed
  <2>1. clock \in 0..MaxTime
    <3>1. MaxTime \in Nat
      BY TimesAssumption
    <3> QED BY <3>1 DEF DeliveryInit
  <2>2. loop \in LoopRecords /\ loop.pc = "idle"
    BY DEF DeliveryInit, LoopRecords, Idle
  <2> QED BY <1>1, <2>1, <2>2 DEF DeliveryInit, Typed
<1>3. ChangeIsWritten /\ DeliveredWasAccepted
  BY <1>1 DEF ChangeIsWritten, DeliveredWasAccepted
<1>4. OutcomeTrue
  BY <1>3 DEF OutcomeTrue, DeliveryInit, Idle
<1> QED BY <1>2, <1>3, <1>4 DEF IInv

(* The goroutine's steps that only move it along.                          *)
LEMMA LoopMoves ==
  ASSUME IInv, BeginPass \/ EndPass \/ (\E m \in MessageIDs : Visit(m)) \/ Send \/ UpdateRead
  PROVE  IInv'
<1> USE DEF IInv, Typed
<1>1. CASE BeginPass
  <2>1. clock \in Nat
    BY TimesAssumption
  <2>2. loop' \in [pc : {"next"}, now : Nat, snapshot : Table] /\ loop'.snapshot = messages
    BY <1>1, <2>1 DEF BeginPass
  <2> QED BY <1>1, <2>2, LoopKeeps DEF BeginPass, LoopRecords
<1>2. CASE EndPass
  BY <1>2, LoopKeeps DEF EndPass, LoopRecords, Idle
<1>3. ASSUME NEW m \in MessageIDs, Visit(m) PROVE IInv'
  <2> DEFINE n == loop.now
             t == loop.snapshot
  <2>1. /\ loop.pc = "next" /\ loop = [pc |-> "next", now |-> n, snapshot |-> t]
        /\ n \in Nat /\ t \in Table /\ Rest(m) = [t EXCEPT ![m] = None]
    BY <1>3 DEF Visit, LoopRecords, Idle, Rest
  <2> DEFINE r == Rest(m)
  <2>2. messages[m] # None /\ r \in Table /\ \A k \in MessageIDs : r[k] # None => messages[k] # None
    BY <1>3, <2>1 DEF Visit, Pending, Table
  <2>3. \/ loop' = [pc |-> "read", now |-> n, snapshot |-> r, id |-> m, outcome |-> "expired"]
        \/ loop' = [loop EXCEPT !.snapshot = r]
        \/ loop' = [pc |-> "send", now |-> n, snapshot |-> r, id |-> m, outcome |-> None]
    BY <1>3 DEF Visit, Goto, Verdict
  <2> HIDE DEF n, t, r
  <2>4. \/ loop' = [pc |-> "read", now |-> n, snapshot |-> r, id |-> m, outcome |-> "expired"]
        \/ loop' = [pc |-> "next", now |-> n, snapshot |-> r]
        \/ loop' = [pc |-> "send", now |-> n, snapshot |-> r, id |-> m, outcome |-> None]
    BY <2>1, <2>3
  <2>5. /\ loop' \in LoopRecords /\ loop'.snapshot = r /\ loop'.pc \in {"read", "next", "send"}
        /\ loop'.pc \in {"read", "send"} => loop'.id = m
        /\ loop'.pc = "read" => loop'.outcome = "expired"
    <3>1. CASE loop' = [pc |-> "read", now |-> n, snapshot |-> r, id |-> m, outcome |-> "expired"]
      BY <2>1, <2>2, <3>1 DEF LoopRecords, Outcome
    <3>2. CASE loop' = [pc |-> "next", now |-> n, snapshot |-> r]
      BY <2>1, <2>2, <3>2 DEF LoopRecords
    <3>3. CASE loop' = [pc |-> "send", now |-> n, snapshot |-> r, id |-> m, outcome |-> None]
      BY <2>1, <2>2, <3>3 DEF LoopRecords
    <3> QED BY <2>4, <3>1, <3>2, <3>3
  <2>6. UNCHANGED <<messages, disk, user, clock, accepted>>
    BY <1>3 DEF Visit
  <2> QED BY <2>1, <2>2, <2>5, <2>6, LoopKeeps
<1>4. CASE Send
  <2>1. PICK o \in Outcomes :
          /\ accepted' = IF o[1] THEN accepted \cup {loop.id} ELSE accepted
          /\ loop' = [loop EXCEPT !.pc = "read", !.outcome = o[2]]
    BY <1>4 DEF Send
  <2>2. /\ loop.pc = "send" /\ loop.now \in Nat /\ loop.snapshot \in Table /\ loop.id \in MessageIDs
        /\ loop \in [pc : {"send"}, now : Nat, snapshot : Table, id : MessageIDs, outcome : {None}]
    <3>1. loop.pc = "send" /\ loop \in LoopRecords
      BY <1>4 DEF Send
    <3> QED BY <3>1, SendRecord
  <2>3. o[1] \in BOOLEAN /\ o[2] \in Outcome /\ (o[2] = "delivered" => o[1] = TRUE)
    <3>1. o = <<FALSE, "queued">> \/ o = <<TRUE, "delivered">> \/ o = <<TRUE, "queued">>
      BY Zenon DEF Outcomes
    <3>2. CASE o = <<FALSE, "queued">>
      BY <3>2 DEF Outcome
    <3>3. CASE o = <<TRUE, "delivered">>
      BY <3>3 DEF Outcome
    <3>4. CASE o = <<TRUE, "queued">>
      BY <3>4 DEF Outcome
    <3> QED BY <3>1, <3>2, <3>3, <3>4
  <2> DEFINE d == o[2]
  <2> HIDE DEF d
  <2>4. d \in Outcome /\ loop' = [loop EXCEPT !.pc = "read", !.outcome = d]
    BY <2>1, <2>3, Zenon DEF d
  <2>5. /\ loop' \in [pc : {"read"}, now : Nat, snapshot : Table, id : MessageIDs, outcome : Outcome]
        /\ loop'.pc = "read" /\ loop'.snapshot = loop.snapshot /\ loop'.id = loop.id /\ loop'.outcome = d
    <3> DEFINE y == [loop EXCEPT !.pc = "read"]
    <3>1. y \in [pc : {"read"}, now : Nat, snapshot : Table, id : MessageIDs, outcome : {None}]
      BY <2>2
    <3>2. y.pc = "read" /\ y.snapshot = loop.snapshot /\ y.id = loop.id
      BY <2>2
    <3>3. loop' = [y EXCEPT !.outcome = d]
      BY <2>4, Zenon
    <3> HIDE DEF y
    <3> QED BY <2>4, <3>1, <3>2, <3>3
  <2>6. /\ accepted \subseteq accepted' /\ accepted' \subseteq MessageIDs
        /\ d = "delivered" => loop.id \in accepted'
    BY <2>1, <2>2, <2>3 DEF d
  <2>7. UNCHANGED <<messages, disk, user, clock>>
    BY <1>4 DEF Send
  <2> QED BY <2>2, <2>5, <2>6, <2>7, LoopKeeps DEF LoopRecords
<1>5. CASE UpdateRead
  <2>1. /\ loop.pc = "read" /\ loop.now \in Nat /\ loop.snapshot \in Table /\ loop.id \in MessageIDs
        /\ loop.outcome \in Outcome
    BY <1>5, LoopFields DEF UpdateRead
  <2> DEFINE v == messages[loop.id]
  <2>2. v \in Message /\ (v.status = "delivered" => loop.id \in accepted)
    BY <2>1 DEF Table, OutcomeTrue, DeliveredWasAccepted
  <2>3. loop' = [pc |-> "change", now |-> loop.now, snapshot |-> loop.snapshot, id |-> loop.id,
                 outcome |-> loop.outcome, copy |-> v]
    BY <1>5 DEF UpdateRead
  <2> HIDE DEF v
  <2>4. /\ loop' \in LoopRecords
        /\ loop'.pc = "change" /\ loop'.snapshot = loop.snapshot /\ loop'.id = loop.id
        /\ loop'.outcome = loop.outcome /\ loop'.copy = v
    BY <2>1, <2>2, <2>3 DEF LoopRecords
  <2>5. UNCHANGED <<messages, disk, user, clock, accepted>>
    BY <1>5 DEF UpdateRead
  <2> QED BY <2>1, <2>2, <2>4, <2>5, LoopKeeps DEF OutcomeTrue
<1> QED BY <1>1, <1>2, <1>3, <1>4, <1>5

(* The change in place: memory moves ahead of disk.                        *)
LEMMA ChangeKeeps == ASSUME IInv, UpdateInPlace PROVE IInv'
<1> USE DEF IInv, Typed
<1> DEFINE i == loop.id
           c == loop.copy
           w == Changed(c, loop.outcome)
           x == Changed(messages[i], loop.outcome)
<1>1. /\ loop.pc = "change" /\ loop.now \in Nat /\ loop.snapshot \in Table /\ i \in MessageIDs
      /\ loop.outcome \in Outcome /\ c \in Message /\ messages[i] \in Message
  BY LoopFields DEF UpdateInPlace, Table
<1>2. /\ w \in Message /\ w.version = c.version
      /\ w.status = "delivered" => i \in accepted
  BY <1>1, ChangedIs DEF OutcomeTrue
<1>3. /\ x \in Message /\ x.version = messages[i].version
      /\ x.status = "delivered" => i \in accepted
  BY <1>1, ChangedIs DEF OutcomeTrue, DeliveredWasAccepted
<1>4. /\ messages' = IF c.version = messages[i].version THEN [messages EXCEPT ![i] = x] ELSE messages
      /\ loop' = [loop EXCEPT !.pc = "store", !.copy = w]
      /\ UNCHANGED <<disk, accepted, user, clock>>
  BY DEF UpdateInPlace
<1> HIDE DEF w, x
<1>5. /\ loop' \in LoopRecords /\ loop'.pc = "store" /\ loop'.snapshot = loop.snapshot /\ loop'.id = i
      /\ loop'.outcome = loop.outcome /\ loop'.copy = w
  <2>1. loop \in [pc : {"change", "store"}, now : Nat, snapshot : Table, id : MessageIDs,
                  outcome : Outcome, copy : Message]
    BY <1>1, CopyRecord
  <2> QED BY <1>1, <1>2, <1>4, <2>1 DEF LoopRecords
<1> HIDE DEF i, c
<1>6. /\ messages' \in Table /\ \A m \in MessageIDs : m # i => messages'[m] = messages[m]
      /\ (messages'[i] = x /\ c.version = messages[i].version) \/ messages'[i] = messages[i]
  BY <1>1, <1>3, <1>4 DEF Table
<1>7. \A m \in MessageIDs : messages[m] # None => messages'[m] # None
  BY <1>3, <1>6
<1>8. Typed'
  <2>1. user' # None => user' \in UserRecords /\ messages'[user'.id] # None
    BY <1>4, <1>7 DEF UserRecords
  <2>2. \A m \in MessageIDs : loop'.snapshot[m] # None => messages'[m] # None
    BY <1>1, <1>5, <1>7
  <2>3. messages'[loop'.id] # None
    BY <1>1, <1>3, <1>5, <1>6
  <2> QED BY <1>4, <1>5, <1>6, <2>1, <2>2, <2>3
<1>9. ChangeIsWritten'
  <2> SUFFICES ASSUME NEW m \in MessageIDs, messages'[m] # disk'[m]
               PROVE  m = i /\ w.version = messages'[m].version
    BY <1>5 DEF ChangeIsWritten
  <2>1. messages[m] = disk[m]
    BY <1>1 DEF ChangeIsWritten
  <2> QED BY <1>2, <1>3, <1>4, <1>6, <2>1
<1>10. DeliveredWasAccepted'
  <2>1. \A m \in MessageIDs : messages'[m] # None /\ messages'[m].status = "delivered" => m \in accepted
    BY <1>3, <1>6 DEF OutcomeTrue, DeliveredWasAccepted
  <2>2. \A m \in MessageIDs : disk[m] # None /\ disk[m].status = "delivered" => m \in accepted
    BY DEF OutcomeTrue, DeliveredWasAccepted
  <2> QED BY <1>4, <2>1, <2>2 DEF DeliveredWasAccepted
<1>11. OutcomeTrue'
  BY <1>1, <1>2, <1>4, <1>5, <1>10 DEF OutcomeTrue, i
<1> QED BY <1>8, <1>9, <1>11

(* The write that follows the change: disk catches up.                     *)
LEMMA StoreKeeps == ASSUME IInv, UpdateStore PROVE IInv'
<1> USE DEF IInv, Typed
<1> DEFINE i == loop.id
           c == loop.copy
           n == c.version + 1
           w == [c EXCEPT !.version = n]
<1>1. /\ loop.pc = "store" /\ loop.now \in Nat /\ loop.snapshot \in Table /\ i \in MessageIDs
      /\ c \in Message /\ messages[i] \in Message
  BY LoopFields DEF UpdateStore, Table
<1>2. c.version \in Nat /\ n \in Nat /\ messages[i].version \in Nat
  <2>1. c.version \in Nat /\ messages[i].version \in Nat
    BY <1>1, MessageFields
  <2> QED BY <2>1
<1>3. /\ UpsertMessage(i, w) /\ loop' = [pc |-> "next", now |-> loop.now, snapshot |-> loop.snapshot]
      /\ UNCHANGED <<accepted, user, clock>>
  BY DEF UpdateStore
<1>4. loop' \in LoopRecords /\ loop'.pc = "next" /\ loop'.snapshot = loop.snapshot
  BY <1>1, <1>3 DEF LoopRecords
<1>5. /\ c.status = "delivered" => i \in accepted
      /\ messages[i] = disk[i] \/ c.version = messages[i].version
      /\ \A m \in MessageIDs : m # i => messages[m] = disk[m]
  BY <1>1 DEF OutcomeTrue, ChangeIsWritten
<1> HIDE DEF n
<1>6. w \in Message /\ w.version = n /\ w.status = c.status
  BY <1>1, <1>2, FieldSet
<1> HIDE DEF w, i, c
<1>7. /\ messages' \in Table /\ disk' \in Table
      /\ \A m \in MessageIDs : m # i => messages'[m] = messages[m] /\ disk'[m] = disk[m]
      /\ \/ messages'[i] = w /\ disk'[i] = w
         \/ messages' = messages /\ disk' = disk /\ n # messages[i].version + 1
  BY <1>1, <1>3, <1>6, UpsertIs
<1>8. n # messages[i].version + 1 => messages[i] = disk[i]
  BY <1>2, <1>5 DEF n
<1>9. messages'[i] = disk'[i] /\ messages'[i] # None
  BY <1>1, <1>6, <1>7, <1>8
<1>10. Typed'
  <2>1. \A m \in MessageIDs : messages[m] # None => messages'[m] # None
    BY <1>7, <1>9
  <2>2. user' # None => user' \in UserRecords /\ messages'[user'.id] # None
    BY <1>3, <2>1 DEF UserRecords
  <2>3. \A m \in MessageIDs : loop'.snapshot[m] # None => messages'[m] # None
    BY <1>1, <1>4, <2>1
  <2> QED BY <1>3, <1>4, <1>7, <2>2, <2>3
<1>11. ChangeIsWritten'
  BY <1>5, <1>7, <1>9 DEF ChangeIsWritten
<1>12. DeliveredWasAccepted'
  <2> SUFFICES ASSUME NEW m \in MessageIDs, NEW table \in {messages', disk'}, table[m] # None,
                      table[m].status = "delivered"
               PROVE  m \in accepted
    BY <1>3 DEF DeliveredWasAccepted
  <2>1. table[m] = messages[m] \/ table[m] = disk[m] \/ (m = i /\ table[m] = w)
    BY <1>7
  <2>2. DeliveredWasAccepted
    BY DEF OutcomeTrue
  <2>3. CASE table[m] = messages[m] \/ table[m] = disk[m]
    BY <2>2, <2>3 DEF DeliveredWasAccepted
  <2>4. CASE m = i /\ table[m] = w
    BY <1>5, <1>6, <2>4
  <2> QED BY <2>1, <2>3, <2>4
<1>13. OutcomeTrue'
  BY <1>4, <1>12 DEF OutcomeTrue
<1> QED BY <1>10, <1>11, <1>13



-----------------------------------------------------------------------------
(* The other actors.                                                       *)
LEMMA ArriveKeeps == ASSUME IInv, NEW m \in MessageIDs, Arrive(m) PROVE IInv'
<1> USE DEF IInv, Typed
<1> DEFINE t == clock + Expiry
           v == [version |-> 1, unread |-> TRUE, deleted |-> FALSE, attempts |-> 0,
                 status |-> "queued", nextAt |-> clock, expiresAt |-> t]
<1>1. clock \in Nat /\ t \in Nat
  BY TimesAssumption
<1>2. messages[m] = None /\ UpsertMessage(m, v) /\ UNCHANGED <<accepted, loop, user, clock>>
  BY DEF Arrive
<1> HIDE DEF t
<1>3. v \in Message /\ v.status = "queued"
  BY <1>1 DEF Message
<1> HIDE DEF v
<1>4. /\ messages' \in Table /\ disk' \in Table /\ messages'[m] = v /\ disk'[m] = v
      /\ \A n \in MessageIDs : n # m => messages'[n] = messages[n] /\ disk'[n] = disk[n]
  BY <1>2, <1>3, UpsertIs
<1>5. user' # None => user' \in UserRecords /\ messages'[user'.id] # None
  BY <1>2, <1>3, <1>4 DEF UserRecords
<1> QED BY <1>2, <1>3, <1>4, <1>5, WriteKeeps

(* A user's operation begins on a record that is stored.                   *)
LEMMA UserReadKeeps ==
  ASSUME IInv, NEW m \in MessageIDs, NEW kind \in {"read", "delete"}, UserRead(m, kind) PROVE IInv'
<1> USE DEF IInv, Typed
<1>1. messages[m] \in Message
  BY DEF UserRead, Table
<1>2. messages[m].version \in Nat
  BY <1>1, MessageFields
<1>3. user' \in UserRecords /\ user'.id = m /\ messages[m] # None
  BY <1>2 DEF UserRead, UserRecords
<1>4. UNCHANGED <<messages, disk, accepted, loop, clock>>
  BY DEF UserRead
<1> QED BY <1>3, <1>4, WriteKeeps

(* The user writes the copy back, unless a newer version is stored.        *)
LEMMA UserWriteKeeps == ASSUME IInv, UserWrite PROVE IInv'
<1> USE DEF IInv, Typed
<1> DEFINE i == user.id
           n == user.version + 1
           d == user.kind = "delete"
<1>1. i \in MessageIDs /\ n \in Nat /\ d \in BOOLEAN /\ messages[i] # None
  BY DEF UserWrite, UserRecords
<1>2. user' = None /\ UNCHANGED <<accepted, loop, clock>>
  BY DEF UserWrite
<1>3. PICK v \in Seen(i) :
        UpsertMessage(i, [v EXCEPT !.version = n, !.unread = FALSE, !.deleted = @ \/ d])
  BY DEF UserWrite
<1> DEFINE w == Written(v, n, d)
<1> HIDE DEF i, n, d
<1>4. v \in Message /\ (v.status = "delivered" => i \in accepted)
  BY <1>1, SeenIs
<1>5. w \in Message /\ w.status = v.status
  BY <1>1, <1>4, UserChanged, Zenon
<1>6. UpsertMessage(i, w)
  BY <1>3, Zenon DEF Written
<1> HIDE DEF w
<1>7. /\ messages' \in Table /\ disk' \in Table
      /\ \A k \in MessageIDs : k # i => messages'[k] = messages[k] /\ disk'[k] = disk[k]
      /\ \/ messages'[i] = w /\ disk'[i] = w
         \/ messages' = messages /\ disk' = disk
  BY <1>1, <1>5, <1>6, UpsertIs
<1> QED BY <1>2, <1>4, <1>5, <1>7, WriteKeeps

(* MarkAllMessagesRead writes all unread messages in one step.             *)
LEMMA MarkAllKeeps == ASSUME IInv, MarkAllMessagesRead PROVE IInv'
<1> USE DEF IInv, Typed
<1> DEFINE unread == {m \in MessageIDs : messages[m] # None /\ messages[m].unread /\ ~messages[m].deleted}
<1>1. UNCHANGED <<accepted, loop, user, clock>>
  BY DEF MarkAllMessagesRead
<1>2. PICK seen \in [unread -> UNION {Seen(m) : m \in unread}] :
        /\ \A m \in unread : seen[m] \in Seen(m)
        /\ messages' = [m \in MessageIDs |->
              IF m \in unread THEN [seen[m] EXCEPT !.version = @ + 1, !.unread = FALSE] ELSE messages[m]]
        /\ disk' = [m \in MessageIDs |->
              IF m \in unread THEN [seen[m] EXCEPT !.version = @ + 1, !.unread = FALSE] ELSE disk[m]]
  BY Zenon DEF MarkAllMessagesRead
<1>3. unread \subseteq MessageIDs /\ \A m \in unread : messages[m] # None
  OBVIOUS
<1> HIDE DEF unread
<1> DEFINE Mark(v) == [v EXCEPT !.version = @ + 1, !.unread = FALSE]
<1>4. ASSUME NEW m \in unread
      PROVE  /\ Mark(seen[m]) \in Message
             /\ Mark(seen[m]).status = "delivered" => m \in accepted
  <2> DEFINE v == seen[m]
             n == v.version + 1
  <2>1. v \in Message /\ (v.status = "delivered" => m \in accepted)
    BY <1>2, <1>3, SeenIs
  <2> HIDE DEF v
  <2>2. v.version \in Nat
    BY <2>1, MessageFields
  <2>3. n \in Nat
    BY <2>2
  <2>4. Mark(v) = Read(v, n)
    BY Zenon DEF Read
  <2> HIDE DEF n, Mark
  <2>5. Mark(v) \in Message /\ Mark(v).status = v.status
    BY <2>1, <2>3, <2>4, UserChanged, Zenon
  <2> QED BY <2>1, <2>5, Zenon DEF v
<1> HIDE DEF Mark
<1>5. \A m \in MessageIDs :
        /\ m \in unread => messages'[m] = Mark(seen[m]) /\ disk'[m] = Mark(seen[m])
        /\ m \notin unread => messages'[m] = messages[m] /\ disk'[m] = disk[m]
  BY <1>2, Zenon DEF Mark
<1>6. messages' \in Table /\ disk' \in Table
  <2>1. /\ messages' = [m \in MessageIDs |-> IF m \in unread THEN Mark(seen[m]) ELSE messages[m]]
        /\ disk' = [m \in MessageIDs |-> IF m \in unread THEN Mark(seen[m]) ELSE disk[m]]
    BY <1>2, Zenon DEF Mark
  <2>2. \A m \in MessageIDs :
          /\ (IF m \in unread THEN Mark(seen[m]) ELSE messages[m]) \in Message \cup {None}
          /\ (IF m \in unread THEN Mark(seen[m]) ELSE disk[m]) \in Message \cup {None}
    BY <1>4, Zenon DEF Table
  <2> QED BY <2>1, <2>2, Zenon DEF Table
<1>7. \A m \in MessageIDs :
        \/ messages'[m] = messages[m] /\ disk'[m] = disk[m]
        \/ /\ messages'[m] = disk'[m] /\ messages'[m] # None
           /\ messages'[m].status = "delivered" => m \in accepted
  BY <1>4, <1>5, Zenon
<1>8. user' # None => user' \in UserRecords /\ messages'[user'.id] # None
  <2>1. user # None => user \in UserRecords /\ user.id \in MessageIDs /\ messages[user.id] # None
    BY DEF UserRecords
  <2> QED BY <1>1, <1>7, <2>1, Zenon
<1> QED BY <1>1, <1>6, <1>7, <1>8, WriteKeeps, Zenon

(* After a restart memory is disk, and nobody holds a copy.                *)
LEMMA RestartKeeps == ASSUME IInv, Restart PROVE IInv'
<1>1. /\ messages' = disk /\ disk' = disk /\ loop' = Idle /\ user' = None
      /\ UNCHANGED <<accepted, clock>>
  BY DEF Restart
<1>2. Typed'
  BY <1>1 DEF IInv, Typed, LoopRecords, Idle
<1>3. ChangeIsWritten'
  BY <1>1 DEF ChangeIsWritten
<1>4. DeliveredWasAccepted'
  BY <1>1 DEF IInv, OutcomeTrue, DeliveredWasAccepted
<1>5. OutcomeTrue'
  BY <1>1, <1>4 DEF OutcomeTrue, Idle
<1> QED BY <1>2, <1>3, <1>5 DEF IInv

(* Every step keeps the invariant.                                         *)
LEMMA StepHolds == IInv /\ [DeliveryNext]_deliveryVars => IInv'
<1> SUFFICES ASSUME IInv, [DeliveryNext]_deliveryVars PROVE IInv'
  OBVIOUS
<1>1. CASE LoopStep
  <2>1. CASE UpdateInPlace
    BY <2>1, ChangeKeeps
  <2>2. CASE UpdateStore
    BY <2>2, StoreKeeps
  <2> QED BY <1>1, <2>1, <2>2, LoopMoves DEF LoopStep
<1>2. CASE UserWrite
  BY <1>2, UserWriteKeeps
<1>3. CASE MarkAllMessagesRead
  BY <1>3, MarkAllKeeps
<1>4. CASE Toggle \/ UNCHANGED deliveryVars
  BY <1>4, WriteKeeps DEF Toggle, deliveryVars, IInv, Typed
<1>5. CASE Tick
  <2>1. clock' \in 0..MaxTime
    <3>1. MaxTime \in Nat
      BY TimesAssumption
    <3>2. clock \in 0..MaxTime
      BY DEF IInv, Typed
    <3>3. clock < MaxTime /\ clock' = clock + 1
      BY <1>5 DEF Tick
    <3> QED BY <3>1, <3>2, <3>3
  <2> QED BY <1>5, <2>1, WriteKeeps DEF Tick, IInv, Typed
<1>6. CASE Restart
  BY <1>6, RestartKeeps
<1>7. ASSUME NEW m \in MessageIDs, Arrive(m) PROVE IInv'
  BY <1>7, ArriveKeeps
<1>8. ASSUME NEW m \in MessageIDs, NEW kind \in {"read", "delete"}, UserRead(m, kind) PROVE IInv'
  BY <1>8, UserReadKeeps
<1> QED BY <1>1, <1>2, <1>3, <1>4, <1>5, <1>6, <1>7, <1>8 DEF DeliveryNext

(***************************************************************************)
(* Type correctness: no step of the loop, of a user or of a restart leaves *)
(* anything but a message or nothing in either table.                      *)
(***************************************************************************)
THEOREM DeliveryTypeCorrect == DeliverySpec => []DeliveryTypeOK
<1>1. IInv => DeliveryTypeOK
  BY DEF IInv, Typed, Table, DeliveryTypeOK
<1> QED BY <1>1, InitHolds, StepHolds, PTL DEF DeliverySpec

(***************************************************************************)
(* The delivery loop, users and restarts: outside the moment between       *)
(* updateDelivery's change of the shared record and its write, every       *)
(* message in memory is the one replay would rebuild.  The write that      *)
(* follows the change is refused only when a user's write has stored the   *)
(* changed record already.                                                 *)
(***************************************************************************)
THEOREM DeliveryIsDurable == DeliverySpec => []MemoryDurable
<1>1. IInv => MemoryDurable
  BY DEF IInv, Typed, Table, ChangeIsWritten, MemoryDurable
<1> QED BY <1>1, InitHolds, StepHolds, PTL DEF DeliverySpec

(***************************************************************************)
(* Through lost responses, retries, users' writes that store a record      *)
(* half changed, and restarts, sendMessage's success is the only source of *)
(* the status "delivered".                                                 *)
(***************************************************************************)
THEOREM DeliveredIsAccepted == DeliverySpec => []DeliveredWasAccepted
<1>1. IInv => DeliveredWasAccepted
  BY DEF IInv, OutcomeTrue
<1> QED BY <1>1, InitHolds, StepHolds, PTL DEF DeliverySpec
=============================================================================
