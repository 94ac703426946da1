-------------------------- MODULE CallControlProofs -------------------------
(***************************************************************************)
(* Proofs about CallControl, for any number of calls, phones, events and   *)
(* restarts: an ended call stays ended, a call has one owner, and no call  *)
(* is answered without a stored claim. The operations, the modem event     *)
(* goroutine and the writers without a lock all write private copies; the  *)
(* argument is about what the version check of UpsertCall leaves of that.  *)
(* Then, for the event goroutine without such rivals: no call outlives the *)
(* cellular calls of the phones.                                           *)
(***************************************************************************)
EXTENDS CallControl, TLAPS

States == LiveStates \cup TerminalStates
Claims == {"web", "sip", "hold", "resume", "transfer", "voicemail"}

(* What a write of b over a may do to a call.                              *)
Follows(a, b) ==
    /\ Terminal(a) => Terminal(b)
    /\ Live(a) /\ a.owner \in {"web", "sip"} => b.owner \in {a.owner, "voicemail", None}

(* A copy that was read from the table: while no newer version is stored,  *)
(* the stored call is the copy.                                            *)
Current(x, table) ==
    /\ x \in Call /\ x.id \in CallIDs /\ table[x.id] # None
    /\ x.version <= table[x.id].version
    /\ x.version = table[x.id].version => table[x.id] = x

(* A copy that the event goroutine has already changed: when it would be   *)
(* accepted, the stored call is live and has the owner of the copy.        *)
Pending(x, table) ==
    /\ x \in Call /\ x.id \in CallIDs /\ table[x.id] # None
    /\ x.version <= table[x.id].version + 1
    /\ x.version = table[x.id].version + 1 => Live(table[x.id]) /\ x.owner = table[x.id].owner

StoreOK ==
    /\ calls \in [CallIDs -> Call \cup {None}]
    /\ \A c \in CallIDs : calls[c] # None => calls[c].id = c
    /\ activeCallID # None => activeCallID \in CallIDs /\ Live(calls[activeCallID])

OpOK ==
    op # Idle =>
        /\ op \in [pc : {"create", "command", "failed", "select", "claim", "alert", "rollback", "end"},
                   kind : Claims \cup {"dial", "hangup"}, call : Call]
        /\ op.call.state \in LiveStates
        /\ op.pc # "create" => Current(op.call, calls)
        /\ op.pc = "select" => op.kind # "dial"
        /\ op.pc = "claim" => op.kind \in Claims
        /\ op.pc \in {"select", "claim"} /\ op.kind \in {"web", "sip"} => op.call.owner \in {None, op.kind}
        /\ op.pc \in {"select", "claim"} /\ op.kind = "hold" => op.call.owner \in {None, "web"}

EvOK ==
    ev # Idle =>
        /\ ev \in [pc : {"select", "create", "write", "filtered", "joining"},
                   kind : {"incoming", "alerting", "active", "ended", "hangup"}, call : Call]
        /\ ev.pc = "write" \/ (ev.pc = "select" /\ ev.kind = "active") => Pending(ev.call, calls)
        /\ ev.pc = "filtered" => ev.call.id \in CallIDs

SideOK ==
    side # Idle =>
        /\ side \in [pc : {"select", "command", "write"}, kind : {"mute", "dtmf", "recording"}, call : Call]
        /\ Current(side.call, calls)

(* The legs of the phones; their events carry numbers.                     *)
LegsOK == leg \in [Gateways -> {"ringing", "answering", "dialing", "active", "disconnected", None}]
Events == [type : {"incoming", "alerting", "active", "ended"}, number : Nat]
EventsOK == events \in [Gateways -> Seq(Events)] /\ lastClip \in Nat /\ legs \in Nat

IInv == StoreOK /\ OpOK /\ EvOK /\ SideOK /\ ClaimedBeforeAnswer

USE NoneAssumption

-----------------------------------------------------------------------------
(* A call with one field replaced is a call.                               *)
LEMMA FieldReplaced ==
  ASSUME NEW y \in Call
  PROVE  /\ [y EXCEPT !.version = @ + 1] \in Call
         /\ \A s \in States : [y EXCEPT !.state = s] \in Call
         /\ \A o \in Owners \cup {None} : [y EXCEPT !.owner = o] \in Call
         /\ \A h \in BOOLEAN : [y EXCEPT !.held = h] \in Call
         /\ \A n \in Nat : [y EXCEPT !.number = n] \in Call
         /\ \A c \in CallIDs : [y EXCEPT !.id = c] \in Call
<1>1. y.version + 1 \in Nat
  BY DEF Call
<1>2. y = [id |-> y.id, version |-> y.version, state |-> y.state, owner |-> y.owner,
           held |-> y.held, gateway |-> y.gateway, number |-> y.number]
  BY Zenon DEF Call
<1>3. /\ y.id \in CallIDs \cup {None} /\ y.state \in States /\ y.owner \in Owners \cup {None}
      /\ y.held \in BOOLEAN /\ y.gateway \in Gateways \cup {None} /\ y.number \in Nat
      /\ y.version \in Nat
  BY Zenon DEF Call, States
<1>4. [y EXCEPT !.version = @ + 1] \in Call
  BY <1>1, <1>2, <1>3, Zenon DEF Call, States
<1>5. \A s \in States : [y EXCEPT !.state = s] \in Call
  BY <1>2, <1>3, Zenon DEF Call, States
<1>6. \A o \in Owners \cup {None} : [y EXCEPT !.owner = o] \in Call
  BY <1>2, <1>3, Zenon DEF Call, States
<1>7. \A h \in BOOLEAN : [y EXCEPT !.held = h] \in Call
  BY <1>2, <1>3, Zenon DEF Call, States
<1>8. \A n \in Nat : [y EXCEPT !.number = n] \in Call
  BY <1>2, <1>3, Zenon DEF Call, States
<1>9. \A c \in CallIDs : [y EXCEPT !.id = c] \in Call
  <2>1. \A c \in CallIDs : c \in CallIDs \cup {None}
    OBVIOUS
  <2> QED BY <1>2, <1>3, <2>1, Zenon DEF Call, States
<1> QED BY <1>4, <1>5, <1>6, <1>7, <1>8, <1>9

(* The copies that the processes make are calls of the next version.       *)
LEMMA CopyIsCall ==
  ASSUME NEW x \in Call
  PROVE  /\ Next1(x) \in Call
         /\ \A s \in States : [Next1(x) EXCEPT !.state = s] \in Call
         /\ [Next1(x) EXCEPT !.state = "ended", !.held = FALSE] \in Call
         /\ \A o \in Owners \cup {None} : [Next1(x) EXCEPT !.owner = o] \in Call
         /\ \A o \in Owners \cup {None}, h \in BOOLEAN : [Next1(x) EXCEPT !.owner = o, !.held = h] \in Call
         /\ [Next1(x) EXCEPT !.held = FALSE] \in Call
         /\ \A n \in Nat : [Next1(x) EXCEPT !.number = n] \in Call
<1>1. Next1(x) \in Call
  BY FieldReplaced DEF Next1
<1>2. \A s \in States : [Next1(x) EXCEPT !.state = s] \in Call
  BY <1>1, FieldReplaced
<1>3. \A o \in Owners \cup {None} : [Next1(x) EXCEPT !.owner = o] \in Call
  BY <1>1, FieldReplaced
<1>4. [Next1(x) EXCEPT !.state = "ended", !.held = FALSE] \in Call
  <2>1. "ended" \in States
    BY DEF States, TerminalStates
  <2> QED BY <1>2, <2>1, FieldReplaced, Zenon
<1>5. \A o \in Owners \cup {None}, h \in BOOLEAN : [Next1(x) EXCEPT !.owner = o, !.held = h] \in Call
  BY <1>3, FieldReplaced, Zenon
<1>6. [Next1(x) EXCEPT !.held = FALSE] \in Call
  BY <1>1, FieldReplaced, Zenon
<1>7. \A n \in Nat : [Next1(x) EXCEPT !.number = n] \in Call
  BY <1>1, FieldReplaced
<1> QED BY <1>1, <1>2, <1>3, <1>4, <1>5, <1>6, <1>7

(* A copy stays current, or is out of date for good, when its call does    *)
(* not change or gets its next version.                                    *)
LEMMA CopyWaits ==
  ASSUME NEW t \in [CallIDs -> Call \cup {None}], NEW u \in [CallIDs -> Call \cup {None}],
         \A c \in CallIDs : t[c] # None =>
             u[c] # None /\ (u[c] = t[c] \/ u[c].version = t[c].version + 1)
  PROVE  \A x : /\ Current(x, t) => Current(x, u)
                /\ Pending(x, t) => Pending(x, u)
<1> SUFFICES ASSUME NEW x, x \in Call, x.id \in CallIDs, t[x.id] # None
             PROVE  /\ Current(x, t) => Current(x, u)
                    /\ Pending(x, t) => Pending(x, u)
  BY DEF Current, Pending
<1>1. x.version \in Nat /\ t[x.id].version \in Nat
  BY DEF Call
<1>2. CASE u[x.id] = t[x.id]
  BY <1>2 DEF Current, Pending
<1>3. CASE u[x.id] # None /\ u[x.id].version = t[x.id].version + 1
  BY <1>1, <1>3 DEF Current, Pending
<1> QED BY <1>2, <1>3

(* What a write does to the table.                                         *)
Written(v) ==
    /\ \A c \in CallIDs : Follows(calls[c], calls'[c])
    /\ \A c \in CallIDs : calls[c] # None =>
          calls'[c] # None /\ (calls'[c] = calls[c] \/ calls'[c].version = calls[c].version + 1)
    /\ \A c \in CallIDs : c # v.id => calls'[c] = calls[c]
    /\ calls'[v.id] \in {calls[v.id], v}

(* UpsertCall of a call that follows the stored one whenever it is         *)
(* accepted.                                                               *)
LEMMA UpsertFollows ==
  ASSUME StoreOK, NEW v \in Call, v.id \in CallIDs, UpsertCall(v),
         calls[v.id] # None /\ v.version = calls[v.id].version + 1 => Follows(calls[v.id], v)
  PROVE  StoreOK' /\ Written(v) /\ (Accepted(v) => calls'[v.id] = v)
<1> USE DEF StoreOK
<1>a. v # None /\ (v.state \in LiveStates \/ v.state \in TerminalStates)
  BY DEF Call
<1>b. \A c \in CallIDs : Follows(calls[c], calls[c])
  BY DEF Follows
<1>1. CASE Accepted(v)
  <2>1. /\ calls' = [calls EXCEPT ![v.id] = v]
        /\ activeCallID' = IF v.state \in LiveStates THEN v.id
                           ELSE IF activeCallID = v.id THEN None ELSE activeCallID
    BY <1>1 DEF UpsertCall
  <2>2. calls[v.id] # None => v.version = calls[v.id].version + 1
    BY <1>1 DEF Accepted
  <2>3. Follows(calls[v.id], v)
    BY <2>2 DEF Follows, Terminal, Live
  <2>4. Written(v) /\ calls'[v.id] = v
    BY <1>a, <1>b, <2>1, <2>2, <2>3 DEF Written
  <2>5. calls' \in [CallIDs -> Call \cup {None}] /\ \A c \in CallIDs : calls'[c] # None => calls'[c].id = c
    BY <2>1
  <2>6. activeCallID' # None => activeCallID' \in CallIDs /\ Live(calls'[activeCallID'])
    BY <1>a, <2>1 DEF Live
  <2> QED BY <2>4, <2>5, <2>6
<1>2. CASE ~Accepted(v)
  <2>1. calls' = calls /\ activeCallID' = activeCallID
    BY <1>2 DEF UpsertCall, store
  <2> QED BY <1>2, <1>b, <2>1 DEF Written
<1> QED BY <1>1, <1>2

(* The initial state: no call and no process.                              *)
LEMMA InitHolds == Init => IInv
  BY DEF Init, IInv, StoreOK, OpOK, EvOK, SideOK, ClaimedBeforeAnswer, Idle, Proc

-----------------------------------------------------------------------------
(* A process that does not move keeps its invariant while another writes.  *)
LEMMA ProcessesWait ==
  ASSUME StoreOK, StoreOK',
         \A c \in CallIDs : calls[c] # None =>
             calls'[c] # None /\ (calls'[c] = calls[c] \/ calls'[c].version = calls[c].version + 1)
  PROVE  /\ OpOK /\ op' = op => OpOK'
         /\ EvOK /\ ev' = ev => EvOK'
         /\ SideOK /\ side' = side => SideOK'
<1>1. \A x : /\ Current(x, calls) => Current(x, calls')
             /\ Pending(x, calls) => Pending(x, calls')
  BY CopyWaits DEF StoreOK
<1>2. OpOK /\ op' = op => OpOK'
  BY <1>1 DEF OpOK, Idle, Proc
<1>3. EvOK /\ ev' = ev => EvOK'
  BY <1>1 DEF EvOK, Idle, Proc
<1>4. SideOK /\ side' = side => SideOK'
  BY <1>1 DEF SideOK, Idle, Proc
<1> QED BY <1>2, <1>3, <1>4

(* A write of the next version of a current copy that follows the copy.    *)
LEMMA CurrentWrites ==
  ASSUME StoreOK, NEW x, Current(x, calls), NEW v \in Call, UpsertCall(v),
         v.id = x.id, v.version = x.version + 1, Follows(x, v)
  PROVE  StoreOK' /\ Written(v) /\ (Accepted(v) => calls'[v.id] = v)
<1>1. v.id \in CallIDs /\ x.version \in Nat
  BY DEF Current, Call
<1>2. calls[v.id] # None => calls[v.id].version \in Nat
  BY <1>1 DEF StoreOK, Call
<1>3. calls[v.id] # None /\ v.version = calls[v.id].version + 1 => calls[v.id] = x
  BY <1>1, <1>2 DEF Current
<1> QED BY <1>1, <1>3, UpsertFollows

(* The operation under `actions' writes its copy and is over, or goes on   *)
(* with what it wrote; the other processes wait.                           *)
LEMMA OpWrites ==
  ASSUME IInv, op # Idle, op.pc # "create", NEW v \in Call, UpsertCall(v),
         v.id = op.call.id, v.version = op.call.version + 1, Follows(op.call, v),
         UNCHANGED <<ev, side>>
  PROVE  StoreOK' /\ EvOK' /\ SideOK' /\ Written(v) /\ (Accepted(v) => calls'[v.id] = v)
<1>1. Current(op.call, calls)
  BY DEF IInv, OpOK
<1>2. StoreOK' /\ Written(v) /\ (Accepted(v) => calls'[v.id] = v)
  BY <1>1, CurrentWrites DEF IInv
<1> QED BY <1>2, ProcessesWait DEF IInv, Written

Kept == \A c \in CallIDs : Follows(calls[c], calls'[c])

(* Steps that leave the store alone keep every call.                       *)
LEMMA NoWrite == ASSUME UNCHANGED calls PROVE Kept
  BY DEF Kept, Follows

(* An operation that is over, or has not answered, owes no claim.          *)
LEMMA NoClaim ==
  ASSUME op' = Idle PROVE OpOK' /\ ClaimedBeforeAnswer'
  BY DEF OpOK, ClaimedBeforeAnswer, Idle, Proc

(* The writes of the operations.                                           *)
LEMMA OpFailedStep == IInv /\ OpFailed => IInv' /\ Kept
<1> SUFFICES ASSUME IInv, OpFailed PROVE IInv' /\ Kept
  OBVIOUS
<1> DEFINE v == [Next1(op.call) EXCEPT !.state = "failed"]
<1>1. op # Idle /\ op.pc # "create" /\ op.call \in Call /\ UNCHANGED <<ev, side>> /\ op' = Idle
  BY DEF OpFailed, IInv, OpOK, Idle, Proc
<1>2. v \in Call
  BY <1>1, CopyIsCall DEF States, TerminalStates
<1>3. v.id = op.call.id /\ v.version = op.call.version + 1 /\ v.state = "failed" /\ v.owner = op.call.owner
  BY <1>1 DEF Next1, Call
<1>4. UpsertCall(v)
  BY DEF OpFailed
<1> HIDE DEF v
<1>5. Follows(op.call, v)
  BY <1>2, <1>3 DEF Follows, Terminal, TerminalStates
<1> QED BY <1>1, <1>2, <1>3, <1>4, <1>5, OpWrites, NoClaim DEF IInv, Kept, Written

(* The answered call is stored as alerting.                                *)
LEMMA OpAlertStep == IInv /\ OpAlert => IInv' /\ Kept
<1> SUFFICES ASSUME IInv, OpAlert PROVE IInv' /\ Kept
  OBVIOUS
<1> DEFINE v == [Next1(op.call) EXCEPT !.state = "alerting"]
<1>1. op # Idle /\ op.pc # "create" /\ op.call \in Call /\ UNCHANGED <<ev, side>> /\ op' = Idle
  BY DEF OpAlert, IInv, OpOK, Idle, Proc
<1>2. v \in Call
  BY <1>1, CopyIsCall DEF States, LiveStates
<1>3. v.id = op.call.id /\ v.version = op.call.version + 1 /\ v.owner = op.call.owner
  BY <1>1 DEF Next1, Call
<1>4. UpsertCall(v)
  BY DEF OpAlert
<1>5. op.call.state \in LiveStates
  BY <1>1 DEF IInv, OpOK
<1> HIDE DEF v
<1>6. Follows(op.call, v)
  BY <1>2, <1>3, <1>5 DEF Follows, Terminal, TerminalStates, LiveStates
<1> QED BY <1>1, <1>2, <1>3, <1>4, <1>6, OpWrites, NoClaim DEF IInv, Kept, Written

(* Hangup stores the end.                                                  *)
LEMMA OpEndStep == IInv /\ OpEnd => IInv' /\ Kept
<1> SUFFICES ASSUME IInv, OpEnd PROVE IInv' /\ Kept
  OBVIOUS
<1> DEFINE v == [Next1(op.call) EXCEPT !.state = "ended", !.held = FALSE]
<1>1. op # Idle /\ op.pc # "create" /\ op.call \in Call /\ UNCHANGED <<ev, side>> /\ op' = Idle
  BY DEF OpEnd, IInv, OpOK, Idle, Proc
<1>2. v \in Call
  BY <1>1, CopyIsCall DEF States
<1>3. v.id = op.call.id /\ v.version = op.call.version + 1 /\ v.owner = op.call.owner
  BY <1>1 DEF Next1, Call
<1>4. UpsertCall(v)
  BY DEF OpEnd
<1>5. op.call.state \in LiveStates
  BY <1>1 DEF IInv, OpOK
<1> HIDE DEF v
<1>6. Follows(op.call, v)
  BY <1>2, <1>3, <1>5 DEF Follows, Terminal, TerminalStates, LiveStates
<1> QED BY <1>1, <1>2, <1>3, <1>4, <1>6, OpWrites, NoClaim DEF IInv, Kept, Written

(* A failed answer gives the claim back.                                   *)
LEMMA OpRollbackStep == IInv /\ OpRollback => IInv' /\ Kept
<1> SUFFICES ASSUME IInv, OpRollback PROVE IInv' /\ Kept
  OBVIOUS
<1>1. op # Idle /\ op.pc # "create" /\ op.call \in Call /\ UNCHANGED <<ev, side>> /\ op' = Idle
  BY DEF OpRollback, IInv, OpOK, Idle, Proc
<1>2. PICK h \in BOOLEAN : UpsertCall([Next1(op.call) EXCEPT !.owner = None, !.held = h])
  <2>1. CASE op.kind = "hold"
    BY <2>1, Zenon DEF OpRollback
  <2>2. CASE op.kind # "hold"
    <3>1. [Next1(op.call) EXCEPT !.owner = None].held \in BOOLEAN
      <4>1. [Next1(op.call) EXCEPT !.owner = None] \in Call
        BY <1>1, CopyIsCall
      <4> QED BY <4>1, Zenon DEF Call
    <3>2. UpsertCall([Next1(op.call) EXCEPT !.owner = None, !.held = [Next1(op.call) EXCEPT !.owner = None].held])
      BY <2>2, Zenon DEF OpRollback
    <3> QED BY <3>1, <3>2, Zenon
  <2> QED BY <2>1, <2>2
<1> DEFINE v == [Next1(op.call) EXCEPT !.owner = None, !.held = h]
<1>3. v \in Call
  BY <1>1, CopyIsCall
<1>4. v.id = op.call.id /\ v.version = op.call.version + 1 /\ v.owner = None
  BY <1>1 DEF Next1, Call
<1>5. op.call.state \in LiveStates
  BY <1>1 DEF IInv, OpOK
<1>6. UpsertCall(v)
  BY <1>2
<1> HIDE DEF v
<1>7. Follows(op.call, v)
  BY <1>3, <1>4, <1>5 DEF Follows, Terminal, TerminalStates, LiveStates
<1> QED BY <1>1, <1>3, <1>4, <1>6, <1>7, OpWrites, NoClaim DEF IInv, Kept, Written

(* What each operation stores first: the next version of its copy, with an *)
(* owner that may follow.                                                  *)
LEMMA ClaimFollows ==
  ASSUME IInv, op.pc = "claim"
  PROVE  LET v == Claimed(op.kind, op.call) IN
         /\ v \in Call /\ v.id = op.call.id /\ v.version = op.call.version + 1
         /\ v.state = op.call.state /\ Follows(op.call, v)
<1> DEFINE v == Claimed(op.kind, op.call)
           w == Next1(op.call)
<1>1. /\ op.call \in Call /\ op.call.state \in LiveStates /\ op.kind \in Claims
      /\ op.kind \in {"web", "sip"} => op.call.owner \in {None, op.kind}
      /\ op.kind = "hold" => op.call.owner \in {None, "web"}
  BY DEF IInv, OpOK, Idle, Proc
<1>2. ~Terminal(op.call)
  BY <1>1 DEF Terminal, TerminalStates, LiveStates
<1>3. CASE op.kind \in {"web", "sip"}
  <2>1. v = [w EXCEPT !.owner = op.kind]
    BY <1>3 DEF Claimed
  <2>2. v \in Call
    <3>1. op.kind \in Owners \cup {None}
      BY <1>3 DEF Owners
    <3> QED BY <1>1, <2>1, <3>1, CopyIsCall, ZenonT(60)
  <2> QED BY <1>1, <1>2, <1>3, <2>1, <2>2 DEF Next1, Call, Follows, Owners
<1>4. CASE op.kind = "hold"
  <2>1. v = [w EXCEPT !.owner = "web", !.held = TRUE]
    BY <1>4 DEF Claimed
  <2>2. v \in Call
    <3>1. "web" \in Owners \cup {None}
      BY DEF Owners
    <3> QED BY <1>1, <2>1, <3>1, CopyIsCall, ZenonT(60)
  <2> QED BY <1>1, <1>2, <1>4, <2>1, <2>2 DEF Next1, Call, Follows, Owners
<1>5. CASE op.kind = "resume"
  <2>1. v = [w EXCEPT !.held = FALSE]
    BY <1>5 DEF Claimed
  <2>2. v \in Call
    BY <1>1, <2>1, CopyIsCall
  <2> QED BY <1>1, <1>2, <2>1, <2>2 DEF Next1, Call, Follows
<1>6. CASE op.kind = "transfer"
  <2>1. v = [w EXCEPT !.owner = "voicemail", !.held = FALSE]
    BY <1>6 DEF Claimed, Transferred
  <2>2. v \in Call
    <3>1. "voicemail" \in Owners \cup {None}
      BY DEF Owners
    <3> QED BY <1>1, <2>1, <3>1, CopyIsCall, ZenonT(60)
  <2> QED BY <1>1, <1>2, <2>1, <2>2 DEF Next1, Call, Follows
<1>7. CASE op.kind = "voicemail"
  <2>1. v = [w EXCEPT !.owner = "voicemail"]
    BY <1>7 DEF Claimed
  <2>2. v \in Call
    <3>1. "voicemail" \in Owners \cup {None}
      BY DEF Owners
    <3> QED BY <1>1, <2>1, <3>1, CopyIsCall, ZenonT(60)
  <2> QED BY <1>1, <1>2, <2>1, <2>2 DEF Next1, Call, Follows
<1> QED BY <1>1, <1>3, <1>4, <1>5, <1>6, <1>7 DEF Claims

(* The claim: an accepted one is the stored call, and only then is the     *)
(* call answered.                                                          *)
LEMMA OpClaimStep == IInv /\ OpClaim => IInv' /\ Kept
<1> SUFFICES ASSUME IInv, OpClaim PROVE IInv' /\ Kept
  OBVIOUS
<1> DEFINE v == Claimed(op.kind, op.call)
<1>1. /\ op # Idle /\ op.pc = "claim" /\ op.call \in Call /\ UNCHANGED <<ev, side>>
      /\ op.kind \in Claims /\ op.call.id \in CallIDs
  BY DEF OpClaim, IInv, OpOK, Idle, Proc, Current
<1>2. /\ v \in Call /\ v.id = op.call.id /\ v.version = op.call.version + 1
      /\ Follows(op.call, v)
  BY <1>1, ClaimFollows
<1>3. /\ UpsertCall(v)
      /\ op' = IF Accepted(v) /\ v.state = "incoming" THEN Proc("command", op.kind, v) ELSE Idle
  BY DEF OpClaim
<1> HIDE DEF v
<1>4. StoreOK' /\ EvOK' /\ SideOK' /\ Written(v) /\ (Accepted(v) => calls'[v.id] = v)
  BY <1>1, <1>2, <1>3, OpWrites
<1>5. OpOK' /\ ClaimedBeforeAnswer'
  <2>1. CASE Accepted(v) /\ v.state = "incoming"
    <3>1. op' = Proc("command", op.kind, v) /\ calls'[v.id] = v
      BY <1>3, <1>4, <2>1
    <3>2. Current(v, calls')
      BY <1>1, <1>2, <3>1 DEF Current, Call
    <3> QED BY <1>1, <1>2, <2>1, <3>1, <3>2 DEF OpOK, ClaimedBeforeAnswer, Proc, LiveStates, Claims
  <2>2. CASE ~(Accepted(v) /\ v.state = "incoming")
    BY <1>3, <2>2, NoClaim
  <2> QED BY <2>1, <2>2
<1> QED BY <1>4, <1>5 DEF IInv, Kept, Written

(* A dialled call is created under an id that no call has.                 *)
LEMMA OpCreateStep == ASSUME NEW c \in Fresh PROVE IInv /\ OpCreate(c) => IInv' /\ Kept
<1> SUFFICES ASSUME IInv, OpCreate(c) PROVE IInv' /\ Kept
  OBVIOUS
<1> DEFINE v == [op.call EXCEPT !.id = c]
<1>1. /\ op # Idle /\ op.call \in Call /\ op.call.state \in LiveStates /\ UNCHANGED <<ev, side>>
      /\ c \in CallIDs /\ calls[c] = None
  BY DEF OpCreate, IInv, OpOK, Idle, Proc, Fresh
<1>2. v \in Call
  BY <1>1, FieldReplaced
<1>3. v.id = c /\ v.state = op.call.state
  BY <1>1 DEF Call
<1>4. UpsertCall(v) /\ op' = Proc("command", "dial", v)
  BY DEF OpCreate
<1> HIDE DEF v
<1>5. StoreOK' /\ Written(v) /\ calls'[c] = v
  BY <1>1, <1>2, <1>3, <1>4, UpsertFollows DEF IInv, Accepted
<1>6. EvOK' /\ SideOK'
  BY <1>1, <1>5, ProcessesWait DEF IInv, Written
<1>7. Current(v, calls')
  BY <1>1, <1>2, <1>3, <1>5 DEF Current, Call
<1>8. OpOK' /\ ClaimedBeforeAnswer'
  BY <1>1, <1>2, <1>3, <1>4, <1>7 DEF OpOK, ClaimedBeforeAnswer, Proc, Idle
<1> QED BY <1>5, <1>6, <1>8 DEF IInv, Kept, Written

(* The steps of an operation between its writes only move its counter.     *)
LEMMA OpQuietStep == IInv /\ (OpDial \/ OpSelect \/ OpAnswer \/ OpHangup) => IInv' /\ Kept
<1> SUFFICES ASSUME IInv, OpDial \/ OpSelect \/ OpAnswer \/ OpHangup PROVE IInv' /\ Kept
  OBVIOUS
<1>1. UNCHANGED <<calls, activeCallID, ev, side>>
  BY DEF OpDial, OpSelect, OpAnswer, OpHangup, store
<1>2. StoreOK' /\ EvOK' /\ SideOK' /\ Kept
  BY <1>1, NoWrite DEF IInv, StoreOK, EvOK, SideOK, Idle, Proc
<1>3. op # Idle /\ op \in [pc : {"create", "command", "failed", "select", "claim", "alert", "rollback", "end"},
                           kind : Claims \cup {"dial", "hangup"}, call : Call]
  BY DEF OpDial, OpSelect, OpAnswer, OpHangup, IInv, OpOK, Idle, Proc
<1>4. CASE op' = Idle
  BY <1>2, <1>4, NoClaim DEF IInv
<1>5. CASE OpDial /\ op' = [op EXCEPT !.pc = "failed"]
  BY <1>1, <1>2, <1>3, <1>5 DEF OpDial, IInv, OpOK, ClaimedBeforeAnswer
<1>6. CASE OpSelect /\ op' = [op EXCEPT !.pc = IF op.kind = "hangup" THEN "command" ELSE "claim"]
  BY <1>1, <1>2, <1>3, <1>6 DEF OpSelect, IInv, OpOK, ClaimedBeforeAnswer, Claims
<1>7. CASE OpAnswer /\ op' \in {[op EXCEPT !.pc = "alert"], [op EXCEPT !.pc = "rollback"]}
  BY <1>1, <1>2, <1>3, <1>7 DEF OpAnswer, IInv, OpOK, ClaimedBeforeAnswer
<1>8. CASE OpHangup
  BY <1>1, <1>2, <1>3, <1>8 DEF OpHangup, IInv, OpOK, ClaimedBeforeAnswer
<1> QED
  <2>1. OpDial => op' = Idle \/ op' = [op EXCEPT !.pc = "failed"]
    BY DEF OpDial
  <2>2. OpSelect => op' = Idle \/ op' = [op EXCEPT !.pc = IF op.kind = "hangup" THEN "command" ELSE "claim"]
    BY DEF OpSelect
  <2>3. OpAnswer => op' \in {[op EXCEPT !.pc = "alert"], [op EXCEPT !.pc = "rollback"]}
    BY DEF OpAnswer
  <2> QED BY <1>4, <1>5, <1>6, <1>7, <1>8, <2>1, <2>2, <2>3

(* An operation begins with the stored call, which it admits.              *)
LEMMA BeginOK ==
  ASSUME IInv, NEW c \in CallIDs, NEW kind \in Claims \cup {"hangup"}, Admitted(kind, calls[c]),
         UNCHANGED <<calls, activeCallID>>, op' = Begin(kind, calls[c])
  PROVE  OpOK' /\ ClaimedBeforeAnswer'
<1>1. calls[c] \in Call /\ calls[c].id = c /\ calls[c].state \in LiveStates
  BY DEF IInv, StoreOK, Admitted, MayHold, Claims, Call, LiveStates, TerminalStates
<1>2. Current(calls[c], calls')
  BY <1>1 DEF Current, Call
<1>3. /\ kind \in {"web", "sip"} => calls[c].owner \in {None, kind}
      /\ kind = "hold" => calls[c].owner \in {None, "web"}
  BY DEF Admitted, MayHold
<1> QED BY <1>1, <1>2, <1>3 DEF Begin, Proc, OpOK, ClaimedBeforeAnswer, Claims

(* The beginnings of the operations.                                       *)
LEMMA OperationBegins == IInv /\ Operation => IInv' /\ Kept
<1> SUFFICES ASSUME IInv, Operation PROVE IInv' /\ Kept
  OBVIOUS
<1>1. UNCHANGED <<calls, activeCallID, ev, side>>
  BY DEF Operation, DialRoute, Operate, VoicemailAfter, store
<1>2. StoreOK' /\ EvOK' /\ SideOK' /\ Kept
  BY <1>1, NoWrite DEF IInv, StoreOK, EvOK, SideOK, Idle, Proc
<1>3. ASSUME NEW owner \in {"web", "sip"}, NEW g \in Gateways \cup {None}, DialRoute(owner, g)
      PROVE  OpOK' /\ ClaimedBeforeAnswer'
  <2>1. NewCall("dialing", owner, g, 1) \in Call
    BY Zenon, <1>3 DEF NewCall, Call, LiveStates, Owners
  <2>2. NewCall("dialing", owner, g, 1).state \in LiveStates
    BY DEF NewCall, LiveStates
  <2>3. op' = Proc("create", "dial", NewCall("dialing", owner, g, 1))
    BY <1>3 DEF DialRoute
  <2> QED BY <2>1, <2>2, <2>3 DEF Proc, OpOK, ClaimedBeforeAnswer
<1>4. ASSUME NEW c \in CallIDs, NEW kind \in {"web", "sip", "hold", "resume", "transfer", "hangup"},
             Operate(kind, c)
      PROVE  OpOK' /\ ClaimedBeforeAnswer'
  BY <1>1, <1>4, BeginOK DEF Operate, Claims
<1>5. ASSUME NEW c \in CallIDs, VoicemailAfter(c) PROVE OpOK' /\ ClaimedBeforeAnswer'
  BY <1>1, <1>5, BeginOK, NoClaim DEF VoicemailAfter, Claims
<1> QED BY <1>2, <1>3, <1>4, <1>5 DEF Operation, IInv

-----------------------------------------------------------------------------
(* The other processes keep the owner of a call, and so the claim of an    *)
(* operation that answers it.                                              *)
LEMMA ClaimStays ==
  ASSUME IInv, op' = op, \A c \in CallIDs : calls[c] # None => calls'[c].owner = calls[c].owner
  PROVE  ClaimedBeforeAnswer'
<1> SUFFICES ASSUME op.pc \in {"command", "alert"}, op.kind \notin {"dial", "hangup"}
             PROVE  calls'[op.call.id].owner = op.call.owner
  BY DEF ClaimedBeforeAnswer
<1>1. op.call.id \in CallIDs /\ calls[op.call.id] # None
  BY DEF IInv, OpOK, Current, Idle, Proc
<1> QED BY <1>1 DEF IInv, ClaimedBeforeAnswer

(* What handleModem makes of an event: a new call, or the next version of  *)
(* the active call, which is live, with its owner.                         *)
LEMMA HandledOK ==
  ASSUME IInv, NEW e \in Events, NEW g \in Gateways, UNCHANGED <<calls, activeCallID>>,
         ev' = Handled(e, g)
  PROVE  EvOK'
<1> DEFINE a == ActiveCall
<1>1. a # None => a \in Call /\ a.id \in CallIDs /\ calls[a.id] = a /\ Live(a)
  BY DEF ActiveCall, IInv, StoreOK, Live
<1>2. \A s \in {"incoming", "alerting"} : NewCall(s, None, g, e.number) \in Call
  BY Zenon DEF NewCall, Call, LiveStates, Events
<1>3. ASSUME NEW x \in Call, a # None, x.id = a.id, x.version = a.version + 1, x.owner = a.owner
      PROVE  Pending(x, calls')
  BY <1>1, <1>3 DEF Pending, Call
<1>4. ASSUME a # None
      PROVE  /\ Pending([Next1(a) EXCEPT !.number = e.number], calls')
             /\ \A s \in {"alerting", "active"} : Pending([Next1(a) EXCEPT !.state = s], calls')
             /\ Pending([Next1(a) EXCEPT !.state = "ended", !.held = FALSE], calls')
  <2>1. e.number \in Nat /\ a \in Call /\ {"alerting", "active"} \subseteq States
    BY <1>1, <1>4 DEF Events, States, LiveStates
  <2> HIDE DEF a
  <2>2. /\ [Next1(a) EXCEPT !.number = e.number] \in Call
        /\ \A s \in {"alerting", "active"} : [Next1(a) EXCEPT !.state = s] \in Call
        /\ [Next1(a) EXCEPT !.state = "ended", !.held = FALSE] \in Call
    BY <2>1, CopyIsCall
  <2>3. Pending([Next1(a) EXCEPT !.number = e.number], calls')
    <3> DEFINE x == [Next1(a) EXCEPT !.number = e.number]
    <3>1. x.id = a.id /\ x.version = a.version + 1 /\ x.owner = a.owner
      BY <2>1 DEF Next1, Call
    <3> QED BY <1>3, <1>4, <2>2, <3>1
  <2>4. ASSUME NEW s \in {"alerting", "active"} PROVE Pending([Next1(a) EXCEPT !.state = s], calls')
    <3> DEFINE x == [Next1(a) EXCEPT !.state = s]
    <3>1. x.id = a.id /\ x.version = a.version + 1 /\ x.owner = a.owner
      BY <2>1 DEF Next1, Call
    <3> QED BY <1>3, <1>4, <2>2, <3>1
  <2>5. Pending([Next1(a) EXCEPT !.state = "ended", !.held = FALSE], calls')
    <3> DEFINE x == [Next1(a) EXCEPT !.state = "ended", !.held = FALSE]
    <3>1. x.id = a.id /\ x.version = a.version + 1 /\ x.owner = a.owner
      BY <2>1 DEF Next1, Call
    <3> QED BY <1>3, <1>4, <2>2, <3>1
  <2> QED BY <2>3, <2>4, <2>5
<1>5. \A x : Pending(x, calls') => x \in Call
  BY DEF Pending
<1>6. \/ ev' = Idle
      \/ \E s \in {"incoming", "alerting"} : ev' = Proc("select", s, NewCall(s, None, g, e.number))
      \/ a # None /\ ev' = Proc("write", "incoming", [Next1(a) EXCEPT !.number = e.number])
      \/ a # None /\ ev' = Proc("write", "alerting", [Next1(a) EXCEPT !.state = "alerting"])
      \/ a # None /\ ev' = Proc("select", "active", [Next1(a) EXCEPT !.state = "active"])
      \/ a # None /\ ev' = Proc("write", "ended", [Next1(a) EXCEPT !.state = "ended", !.held = FALSE])
  BY DEF Handled, Ends, Events
<1> HIDE DEF a
<1>7. ASSUME NEW x, NEW pc \in {"select", "write"}, NEW kind \in {"incoming", "alerting", "active", "ended"},
             x \in Call, Pending(x, calls') \/ (pc = "select" /\ kind # "active"), ev' = Proc(pc, kind, x)
      PROVE  EvOK'
  BY <1>7 DEF EvOK, Proc
<1>8. CASE ev' = Idle
  BY <1>8 DEF EvOK, Idle, Proc
<1>9. CASE \E s \in {"incoming", "alerting"} : ev' = Proc("select", s, NewCall(s, None, g, e.number))
  BY <1>2, <1>7, <1>9
<1>10. CASE a # None /\ ev' # Idle /\ ~(\E s \in {"incoming", "alerting"} :
                ev' = Proc("select", s, NewCall(s, None, g, e.number)))
  BY <1>4, <1>5, <1>6, <1>7, <1>10
<1> QED BY <1>6, <1>8, <1>9, <1>10

(* The steps of the event goroutine that write nothing.                    *)
LEMMA EvQuietStep ==
  IInv /\ EventsOK /\ ((\E g \in Gateways : HandleModem(g)) \/ EvSelect \/ EvHangup \/ EvJoin)
      => IInv' /\ Kept
<1> SUFFICES ASSUME IInv, EventsOK, (\E g \in Gateways : HandleModem(g)) \/ EvSelect \/ EvHangup \/ EvJoin
             PROVE  IInv' /\ Kept
  OBVIOUS
<1>1. UNCHANGED <<calls, activeCallID, side>>
  BY DEF HandleModem, EvSelect, EvHangup, EvJoin, store
<1>2. StoreOK' /\ SideOK' /\ Kept
  BY <1>1, NoWrite DEF IInv, StoreOK, SideOK, Idle, Proc
<1>3. op' = op => OpOK' /\ ClaimedBeforeAnswer'
  BY <1>1 DEF IInv, OpOK, ClaimedBeforeAnswer, Idle, Proc
<1>4. ev' = Idle => EvOK'
  BY DEF EvOK, Idle, Proc
<1>5. ASSUME NEW g \in Gateways, HandleModem(g) PROVE IInv'
  <2>1. Head(events[g]) \in Events
    BY <1>5 DEF HandleModem, EventsOK
  <2>2. EvOK'
    BY <1>1, <1>5, <2>1, HandledOK DEF HandleModem
  <2> QED BY <1>2, <1>3, <1>5, <2>2 DEF HandleModem, IInv
<1>6. CASE EvSelect
  <2>1. ev # Idle
    BY <1>6 DEF EvSelect, Idle, Proc
  <2>2. \/ ev' = Idle
        \/ ev.kind = "active" /\ ev' = [ev EXCEPT !.pc = "write"]
        \/ ev.kind # "active" /\ ev' = [ev EXCEPT !.pc = "create"]
    BY <1>6 DEF EvSelect
  <2>3. EvOK'
    BY <1>1, <1>4, <1>6, <2>1, <2>2 DEF EvSelect, IInv, EvOK
  <2> QED BY <1>2, <1>3, <1>6, <2>3 DEF EvSelect, IInv
<1>7. CASE EvHangup
  <2>1. ev # Idle /\ ev.call.id \in CallIDs
    BY <1>7 DEF EvHangup, Idle, Proc, IInv, EvOK
  <2>2. CASE Admitted("hangup", calls[ev.call.id])
    <3>1. op' = Begin("hangup", calls[ev.call.id]) /\ ev' = [ev EXCEPT !.pc = "joining"]
      BY <1>7, <2>2 DEF EvHangup
    <3>2. OpOK' /\ ClaimedBeforeAnswer'
      BY <1>1, <2>1, <2>2, <3>1, BeginOK
    <3>3. EvOK'
      BY <2>1, <3>1 DEF IInv, EvOK
    <3> QED BY <1>2, <3>2, <3>3 DEF IInv
  <2>3. CASE ~Admitted("hangup", calls[ev.call.id])
    BY <1>2, <1>3, <1>4, <1>7, <2>3 DEF EvHangup, IInv
  <2> QED BY <2>2, <2>3
<1>8. CASE EvJoin
  BY <1>2, <1>3, <1>4, <1>8 DEF EvJoin, IInv
<1> QED BY <1>2, <1>5, <1>6, <1>7, <1>8

(* The event goroutine writes its copy, whatever became of the call.       *)
LEMMA EvWriteStep == IInv /\ EvWrite => IInv' /\ Kept
<1> SUFFICES ASSUME IInv, EvWrite PROVE IInv' /\ Kept
  OBVIOUS
<1> DEFINE v == ev.call
<1>1. Pending(v, calls) /\ UpsertCall(v) /\ ev' = Idle /\ UNCHANGED <<op, side>>
  BY DEF EvWrite, IInv, EvOK, Idle, Proc
<1> HIDE DEF v
<1>2. v \in Call /\ v.id \in CallIDs
  BY <1>1 DEF Pending
<1>3. calls[v.id] # None /\ v.version = calls[v.id].version + 1
        => Follows(calls[v.id], v) /\ v.owner = calls[v.id].owner
  BY <1>1 DEF Pending, Follows, Live, Terminal, LiveStates, TerminalStates
<1>4. StoreOK' /\ Written(v)
  BY <1>1, <1>2, <1>3, UpsertFollows DEF IInv
<1>5. \A c \in CallIDs : calls[c] # None => calls'[c].owner = calls[c].owner
  BY <1>1, <1>2, <1>3, <1>4 DEF Written, UpsertCall, Accepted, store
<1>6. OpOK' /\ SideOK' /\ ClaimedBeforeAnswer'
  BY <1>1, <1>4, <1>5, ProcessesWait, ClaimStays DEF IInv, Written
<1>7. EvOK'
  BY <1>1 DEF EvOK, Idle, Proc
<1> QED BY <1>4, <1>6, <1>7 DEF IInv, Kept, Written

(* A reported call is created under an id that no call has.                *)
LEMMA EvCreateStep == ASSUME NEW c \in Fresh PROVE IInv /\ EvCreate(c) => IInv' /\ Kept
<1> SUFFICES ASSUME IInv, EvCreate(c) PROVE IInv' /\ Kept
  OBVIOUS
<1> DEFINE v == [ev.call EXCEPT !.id = c]
<1>1. ev # Idle /\ ev.call \in Call /\ UNCHANGED <<op, side>> /\ c \in CallIDs /\ calls[c] = None
  BY DEF EvCreate, IInv, EvOK, Idle, Proc, Fresh
<1>2. v \in Call
  BY <1>1, FieldReplaced
<1>3. v.id = c
  BY <1>1 DEF Call
<1>4. UpsertCall(v) /\ (ev' = Idle \/ ev' = Proc("filtered", "incoming", v))
  BY DEF EvCreate
<1> HIDE DEF v
<1>5. StoreOK' /\ Written(v)
  BY <1>1, <1>2, <1>3, <1>4, UpsertFollows DEF IInv
<1>6. \A d \in CallIDs : calls[d] # None => calls'[d].owner = calls[d].owner
  BY <1>1, <1>3, <1>5 DEF Written
<1>7. OpOK' /\ SideOK' /\ ClaimedBeforeAnswer'
  BY <1>1, <1>5, <1>6, ProcessesWait, ClaimStays DEF IInv, Written
<1>8. EvOK'
  BY <1>1, <1>2, <1>3, <1>4 DEF EvOK, Idle, Proc
<1> QED BY <1>5, <1>7, <1>8 DEF IInv, Kept, Written

(* The writers without the lock.                                           *)
LEMMA SideStepHolds == IInv /\ SideStep => IInv' /\ Kept
<1> SUFFICES ASSUME IInv, SideStep PROVE IInv' /\ Kept
  OBVIOUS
<1>1. UNCHANGED <<op, ev>>
  BY DEF SideStep, SideBegin, SideSelect, SideCommand, SideWrite
<1>2. side' = Idle => SideOK'
  BY DEF SideOK, Idle, Proc
<1>3. ASSUME UNCHANGED <<calls, activeCallID>>
      PROVE  StoreOK' /\ OpOK' /\ EvOK' /\ ClaimedBeforeAnswer' /\ Kept
  BY <1>1, <1>3, NoWrite DEF IInv, StoreOK, OpOK, EvOK, ClaimedBeforeAnswer, Idle, Proc
<1>4. ASSUME NEW kind \in {"mute", "dtmf", "recording"}, NEW c \in CallIDs, SideBegin(kind, c)
      PROVE  IInv' /\ Kept
  <2>1. UNCHANGED <<calls, activeCallID>> /\ calls[c] # None
        /\ \E pc \in {"select", "write"} : side' = Proc(pc, kind, calls[c])
    BY <1>4 DEF SideBegin, store
  <2>2. calls[c] \in Call /\ calls[c].id = c
    BY <2>1 DEF IInv, StoreOK
  <2>3. Current(calls[c], calls')
    BY <2>1, <2>2 DEF Current, Call
  <2>4. SideOK'
    BY <2>1, <2>2, <2>3 DEF SideOK, Proc
  <2> QED BY <1>3, <2>1, <2>4 DEF IInv
<1>5. CASE SideSelect \/ SideCommand
  <2>1. UNCHANGED <<calls, activeCallID>> /\ side # Idle
    BY <1>5 DEF SideSelect, SideCommand, store, Idle, Proc
  <2>2. side' = Idle \/ \E pc \in {"command", "write"} : side' = [side EXCEPT !.pc = pc]
    BY <1>5 DEF SideSelect, SideCommand
  <2>3. SideOK'
    BY <1>2, <2>1, <2>2 DEF IInv, SideOK
  <2> QED BY <1>3, <2>1, <2>3 DEF IInv
<1>6. CASE SideWrite
  <2> DEFINE x == side.call
             v == Next1(side.call)
  <2>1. Current(x, calls) /\ UpsertCall(v) /\ side' = Idle
    BY <1>6 DEF SideWrite, IInv, SideOK, Idle, Proc
  <2>2. x \in Call /\ x.id \in CallIDs /\ calls[x.id] # None
    BY <2>1 DEF Current
  <2>3. v \in Call
    BY <2>2, CopyIsCall
  <2>4. v.id = x.id /\ v.version = x.version + 1 /\ v.state = x.state /\ v.owner = x.owner
    BY <2>2 DEF Next1, Call
  <2> HIDE DEF x, v
  <2>5. Follows(x, v)
    BY <2>3, <2>4 DEF Follows, Terminal, Live
  <2>6. StoreOK' /\ Written(v)
    BY <2>1, <2>3, <2>4, <2>5, CurrentWrites DEF IInv
  <2>7. calls'[x.id].owner = calls[x.id].owner
    <3>1. x.version \in Nat /\ calls[x.id].version \in Nat
      BY <2>2 DEF IInv, StoreOK, Call
    <3> QED BY <2>1, <2>2, <2>4, <3>1 DEF UpsertCall, Accepted, Current, store, IInv, StoreOK
  <2>8. \A c \in CallIDs : calls[c] # None => calls'[c].owner = calls[c].owner
    BY <2>4, <2>6, <2>7 DEF Written
  <2>9. OpOK' /\ EvOK' /\ ClaimedBeforeAnswer'
    BY <1>1, <2>6, <2>8, ProcessesWait, ClaimStays DEF IInv, Written
  <2> QED BY <1>2, <2>1, <2>6, <2>9 DEF IInv, Kept, Written
<1> QED BY <1>4, <1>5, <1>6 DEF SideStep

(* Phones touch no call; a restart forgets the processes.                  *)
LEMMA OutsideStep == IInv /\ (PhoneStep \/ Restart \/ UNCHANGED vars) => IInv' /\ Kept
<1> SUFFICES ASSUME IInv, PhoneStep \/ Restart \/ UNCHANGED vars PROVE IInv' /\ Kept
  OBVIOUS
<1>1. UNCHANGED <<calls, activeCallID>>
  BY DEF PhoneStep, Ring, Clip, Repeat, HandsetDial, Connect, Drop, Removed, Restart, vars, store,
         phoneOnly, quietly
<1>2. UNCHANGED <<op, ev, side>> \/ (op' = Idle /\ ev' = Idle /\ side' = Idle)
  BY DEF PhoneStep, Ring, Clip, Repeat, HandsetDial, Connect, Drop, Removed, Restart, vars,
         phoneOnly, quietly
<1> QED BY <1>1, <1>2, NoWrite, SMTT(60) DEF IInv, StoreOK, OpOK, EvOK, SideOK, ClaimedBeforeAnswer, Idle, Proc

-----------------------------------------------------------------------------
(* Every event that is queued carries a number.                            *)
LEMMA EmitOK ==
  ASSUME EventsOK, NEW g, NEW e \in Events, Emit(g, e)
  PROVE  events' \in [Gateways -> Seq(Events)]
<1>1. events' = [events EXCEPT ![g] = Append(events[g], e)]
  BY DEF Emit
<1>2. CASE g \in Gateways
  <2>1. Append(events[g], e) \in Seq(Events)
    BY <1>2 DEF EventsOK
  <2> QED BY <1>1, <2>1 DEF EventsOK
<1>3. CASE g \notin Gateways
  BY <1>1, <1>3 DEF EventsOK
<1> QED BY <1>2, <1>3

(* The phones and the commands to them move the legs.                      *)
LEMMA LegsStepHolds == LegsOK /\ [Next]_vars => LegsOK'
<1> SUFFICES ASSUME LegsOK, [Next]_vars PROVE LegsOK'
  OBVIOUS
<1>1. CASE PhoneStep
  BY <1>1 DEF LegsOK, PhoneStep, Ring, Clip, Repeat, HandsetDial, Connect, Drop, Removed, NewLeg
<1>2. CASE OpDial
  BY <1>2 DEF LegsOK, OpDial
<1>3. CASE OpAnswer
  BY <1>3 DEF LegsOK, OpAnswer
<1>4. CASE OpHangup
  BY <1>4 DEF LegsOK, OpHangup
<1>5. CASE UNCHANGED leg
  BY <1>5 DEF LegsOK
<1>6. Operation \/ SideStep \/ EventStep \/ Restart \/ UNCHANGED vars => UNCHANGED leg
  BY DEF Operation, DialRoute, Operate, VoicemailAfter, SideStep, SideBegin, SideSelect, SideCommand,
         SideWrite, EventStep, HandleModem, EvSelect, EvWrite, EvHangup, EvJoin, EvCreate, Restart, vars
<1>7. OperationStep => OpDial \/ OpAnswer \/ OpHangup \/ UNCHANGED leg
  BY DEF OperationStep, OpCreate, OpFailed, OpSelect, OpClaim, OpAlert, OpRollback, OpEnd
<1> QED BY <1>1, <1>2, <1>3, <1>4, <1>5, <1>6, <1>7 DEF Next

(* The events of the phones, of commands to them, of handleModem and of a  *)
(* restart.                                                                *)
LEMMA EventsStepHolds == LegsOK /\ EventsOK /\ [Next]_vars => EventsOK'
<1> SUFFICES ASSUME LegsOK, EventsOK, [Next]_vars PROVE EventsOK'
  OBVIOUS
<1> USE BoundsAssumption
<1>1. \A n \in Nat : \A type \in {"incoming", "alerting", "active", "ended"} : Event(type, n) \in Events
  BY DEF Event, Events
<1>2. CASE PhoneStep
  <2> PICK g \in Gateways :
        Ring(g) \/ Clip(g) \/ Repeat(g) \/ HandsetDial(g) \/ Connect(g) \/ Drop(g) \/ Removed(g)
    BY <1>2 DEF PhoneStep
  <2>1. lastClip' \in Nat /\ legs' \in Nat
    <3>1. \/ lastClip' = lastClip /\ legs' = legs
          \/ lastClip' = lastClip /\ legs' = legs + 1
          \/ lastClip' = legs /\ legs' = legs
      BY Zenon DEF Ring, Clip, Repeat, HandsetDial, Connect, Drop, Removed, NewLeg, phoneOnly, quietly
    <3>2. lastClip \in Nat /\ legs \in Nat
      BY DEF EventsOK
    <3> QED BY <3>1, <3>2
  <2>2. PICK e \in Events : Emit(g, e)
    <3>1. CASE Ring(g)
      <4>1. FirstNumbers \subseteq Nat
        <5>1. lastClip \in Nat
          BY DEF EventsOK
        <5>2. {lastClip} \subseteq Nat /\ {0, 1} \subseteq Nat /\ {1} \subseteq Nat
          BY <5>1
        <5> QED BY <5>2, Zenon DEF FirstNumbers
      <4> QED BY <1>1, <3>1, <4>1 DEF Ring
    <3>2. CASE Clip(g)
      BY <1>1, <3>2 DEF Clip, EventsOK
    <3>3. CASE Repeat(g)
      <4>1. leg[g] \in {"ringing", "answering", "dialing", "active", "disconnected"}
        BY <3>3 DEF Repeat, LegsOK
      <4> QED BY <1>1, <3>3, <4>1 DEF Repeat, EventsOK, Reported
    <3>4. CASE HandsetDial(g) \/ Connect(g) \/ Drop(g) \/ Removed(g)
      BY <1>1, <3>4 DEF HandsetDial, Connect, Drop, Removed
    <3> QED BY <3>1, <3>2, <3>3, <3>4
  <2> QED BY <2>1, <2>2, EmitOK DEF EventsOK
<1>3. CASE OpDial
  <2>1. UNCHANGED events \/ Emit(resolve(op.call.gateway), Event("alerting", 1))
    BY <1>3 DEF OpDial
  <2> QED BY <1>1, <1>3, <2>1, EmitOK DEF OpDial, EventsOK, counters
<1>4. CASE OpHangup
  <2>1. UNCHANGED events \/ Emit(selected, Event("ended", 1))
    BY <1>4 DEF OpHangup
  <2> QED BY <1>1, <1>4, <2>1, EmitOK DEF OpHangup, EventsOK, counters
<1>5. ASSUME NEW g \in Gateways, HandleModem(g) PROVE EventsOK'
  <2>1. /\ events[g] # <<>> /\ events' = [events EXCEPT ![g] = Tail(@)]
        /\ UNCHANGED <<lastClip, legs>>
    BY <1>5 DEF HandleModem, counters
  <2>2. events \in [Gateways -> Seq(Events)] /\ lastClip \in Nat /\ legs \in Nat
    BY DEF EventsOK
  <2>3. \A s \in Seq(Events) : s # <<>> => Tail(s) \in Seq(Events)
    OBVIOUS
  <2>4. events' \in [Gateways -> Seq(Events)]
    BY <2>1, <2>2, <2>3, Zenon
  <2> QED BY <2>1, <2>2, <2>4, Zenon DEF EventsOK
<1>6. CASE Restart
  <2>1. ASSUME NEW s \in Seq(Events), NEW lost \in 0..MaxQueue
        PROVE  SubSeq(s, lost + 1, Len(s)) \in Seq(Events)
    BY <2>1
  <2>2. PICK lost \in [Gateways -> 0..MaxQueue] :
          events' = [g \in Gateways |-> SubSeq(events[g], lost[g] + 1, Len(events[g]))]
    BY <1>6 DEF Restart
  <2>3. events' \in [Gateways -> Seq(Events)]
    BY <2>1, <2>2 DEF EventsOK
  <2> QED BY <1>6, <2>3 DEF Restart, EventsOK
<1>7. CASE UNCHANGED <<events, lastClip, legs>>
  BY <1>7 DEF EventsOK
<1>8. CASE Operation \/ SideStep
  <2>1. UNCHANGED <<events, lastClip, legs>>
    BY <1>8 DEF Operation, DialRoute, Operate, VoicemailAfter, SideStep, SideBegin, SideSelect,
                SideCommand, SideWrite, counters
  <2> QED BY <1>7, <2>1
<1>9. CASE OperationStep /\ ~OpDial /\ ~OpHangup
  <2>1. UNCHANGED <<events, lastClip, legs>>
    BY <1>9 DEF OperationStep, OpCreate, OpFailed, OpSelect, OpClaim, OpAnswer, OpAlert, OpRollback,
                OpEnd, counters
  <2> QED BY <1>7, <2>1
<1>10. CASE EvSelect \/ EvWrite \/ EvHangup \/ EvJoin \/ \E c \in Fresh : EvCreate(c)
  <2>1. UNCHANGED <<events, lastClip, legs>>
    BY <1>10 DEF EvSelect, EvWrite, EvHangup, EvJoin, EvCreate, counters
  <2> QED BY <1>7, <2>1
<1>11. CASE UNCHANGED vars
  BY <1>7, <1>11 DEF vars, counters
<1> QED BY <1>2, <1>3, <1>4, <1>5, <1>6, <1>8, <1>9, <1>10, <1>11 DEF Next, EventStep

-----------------------------------------------------------------------------
(* Every step preserves the invariant and keeps every call.                *)
LEMMA StepHolds == IInv /\ LegsOK /\ EventsOK /\ [Next]_vars => IInv' /\ LegsOK' /\ EventsOK' /\ Kept
<1> SUFFICES ASSUME IInv, LegsOK, EventsOK, [Next]_vars PROVE IInv' /\ Kept
  BY LegsStepHolds, EventsStepHolds
<1>1. CASE OperationStep
  BY <1>1, OpCreateStep, OpFailedStep, OpClaimStep, OpAlertStep, OpRollbackStep, OpEndStep, OpQuietStep
     DEF OperationStep
<1>2. CASE EventStep
  BY <1>2, EvQuietStep, EvWriteStep, EvCreateStep DEF EventStep
<1> QED BY <1>1, <1>2, OperationBegins, SideStepHolds, OutsideStep DEF Next

(* The invariant holds in every behaviour.                                 *)
LEMMA InvHolds == Spec => [](IInv /\ LegsOK /\ EventsOK)
<1>1. Init => LegsOK /\ EventsOK
  BY DEF Init, LegsOK, EventsOK
<1> QED BY InitHolds, StepHolds, <1>1, PTL DEF Spec

(* No writer of service.go brings a call back that has ended or failed;    *)
(* for every number of calls, phones, commands, events and restarts.       *)
THEOREM EndedStaysEnded == Spec => TerminalIsFinal
<1>1. IInv /\ LegsOK /\ EventsOK /\ [Next]_vars =>
        [\A c \in CallIDs : Terminal(calls[c]) => Terminal(calls'[c])]_vars
  BY StepHolds DEF Kept, Follows
<1> QED BY InvHolds, <1>1, PTL DEF Spec, TerminalIsFinal

(* A call that the web or the SIP side has claimed in AnswerFrom or Hold   *)
(* never passes to the other side.                                         *)
THEOREM OwnerIsUnique == Spec => OneOwner
<1>1. IInv /\ LegsOK /\ EventsOK /\ [Next]_vars =>
        [\A c \in CallIDs : Live(calls[c]) /\ calls[c].owner \in {"web", "sip"} =>
            calls'[c].owner \in {calls[c].owner, "voicemail", None}]_vars
  BY StepHolds DEF Kept, Follows
<1> QED BY InvHolds, <1>1, PTL DEF Spec, OneOwner

(* An operation that answers a phone has its claim in the store, whatever  *)
(* handleModem and the writers without a lock have stored since.           *)
THEOREM AnsweredIsClaimed == Spec => []ClaimedBeforeAnswer
  BY InvHolds, PTL DEF IInv

-----------------------------------------------------------------------------
(* The event goroutine alone: no user operation, no voicemail timer and no *)
(* restart. What is left beside it is the hangup of a filtered call, for   *)
(* which it waits.                                                         *)
EventsOnly == MaxCommands = 0 /\ MaxRestarts = 0 /\ ~Voicemail

Alone ==
    /\ commands = 0 /\ restarts = 0 /\ timers = {} /\ side = Idle
    /\ op # Idle => op.kind = "hangup" /\ op.pc \in {"select", "command", "end"} /\ ev.pc = "joining"

(* It creates a call when no call is live, and what it writes is the next  *)
(* version of the call that is active.                                     *)
NewCallDue == ev.pc = "create" \/ (ev.pc = "select" /\ ev.kind # "active")
WriteDue == ev.pc = "write" \/ (ev.pc = "select" /\ ev.kind = "active")
OneLive ==
    /\ \A c \in CallIDs : Live(calls[c]) => activeCallID = c
    /\ NewCallDue => activeCallID = None
    /\ WriteDue => activeCallID = ev.call.id /\ ev.call.version = calls[ev.call.id].version + 1
    /\ ev.pc = "write" /\ ev.kind = "ended" => ev.call.state = "ended"

(* A phone with events to be handled has a leg, or the last event reports  *)
(* an end; and while a call is live or about to be created, there is such  *)
(* a phone, unless the end is about to be written.                         *)
Busy(g) == leg[g] # None \/ events[g] # <<>>
EndsReported ==
    \A g \in Gateways : events[g] # <<>> => leg[g] # None \/ events[g][Len(events[g])].type = "ended"
EndExpected ==
    (activeCallID # None /\ ~(ev.pc = "write" /\ ev.kind = "ended")) \/ NewCallDue => \E g \in Gateways : Busy(g)

EventsInv == Alone /\ OneLive /\ EndsReported /\ EndExpected

(* A sequence that is another one without its first element.               *)
LEMMA LastOfTail ==
  ASSUME NEW S, NEW q \in Seq(S), NEW t \in Seq(S), Len(q) \in Nat \ {0}, Len(t) = Len(q) - 1,
         \A i \in 1..(Len(q) - 1) : t[i] = q[i + 1]
  PROVE  /\ t # <<>> => t[Len(t)] = q[Len(q)]
         /\ t = <<>> => q[Len(q)] = q[1]
<1>1. t # <<>> => Len(t) # 0
  OBVIOUS
<1>2. t = <<>> => Len(t) = 0
  <2>1. Len(<<>>) = 0
    OBVIOUS
  <2> QED BY <2>1, Zenon
<1>3. ASSUME Len(t) # 0 PROVE t[Len(t)] = q[Len(q)]
  <2>1. Len(q) - 1 \in 1..(Len(q) - 1) /\ (Len(q) - 1) + 1 = Len(q)
    BY <1>3
  <2> QED BY <2>1
<1>4. ASSUME Len(t) = 0 PROVE q[Len(q)] = q[1]
  <2>1. Len(q) = 1
    BY <1>4
  <2> QED BY <2>1
<1> QED BY <1>1, <1>2, <1>3, <1>4

(* The end of a queue when an event is added, or the first one is taken.   *)
LEMMA LastEvent ==
  ASSUME NEW q \in Seq(Events)
  PROVE  /\ \A e \in Events : Append(q, e) # <<>> /\ Append(q, e)[Len(Append(q, e))] = e
         /\ q # <<>> => /\ Tail(q) # <<>> => Tail(q)[Len(Tail(q))] = q[Len(q)]
                        /\ Tail(q) = <<>> => q[Len(q)] = Head(q)
<1>1. \A e \in Events : Append(q, e) # <<>> /\ Append(q, e)[Len(Append(q, e))] = e
  OBVIOUS
<1>2. ASSUME q # <<>>
      PROVE  /\ Tail(q) # <<>> => Tail(q)[Len(Tail(q))] = q[Len(q)]
             /\ Tail(q) = <<>> => q[Len(q)] = Head(q)
  <2>1. Len(q) \in Nat \ {0} /\ Len(Tail(q)) = Len(q) - 1 /\ \A i \in 1..(Len(q) - 1) : Tail(q)[i] = q[i + 1]
    BY <1>2
  <2>2. Tail(q) \in Seq(Events) /\ Head(q) = q[1]
    BY <1>2
  <2> QED BY <2>1, <2>2, LastOfTail
<1> QED BY <1>1, <1>2

(* A phone reports: it has a leg, or the report is of an end.              *)
LEMMA ReportKeeps ==
  ASSUME LegsOK, EventsOK, EndsReported, NEW g, NEW e \in Events, Emit(g, e), NEW l,
         leg' = [leg EXCEPT ![g] = l], l # None \/ e.type = "ended"
  PROVE  EndsReported' /\ \A h \in Gateways : Busy(h) => Busy(h)'
<1> DEFINE r == Append(events[g], e)
<1>1. events' = [events EXCEPT ![g] = r]
  BY DEF Emit
<1>2. g \in Gateways => r # <<>> /\ r[Len(r)] = e
  BY LastEvent DEF EventsOK
<1> HIDE DEF r
<1>3. \A h \in Gateways : /\ h = g => leg'[h] = l /\ events'[h] = r
                          /\ h # g => leg'[h] = leg[h] /\ events'[h] = events[h]
  BY <1>1 DEF LegsOK, EventsOK
<1>4. EndsReported'
  BY <1>2, <1>3 DEF EndsReported
<1> QED BY <1>2, <1>3, <1>4 DEF Busy

(* The reports of the phones.                                              *)
LEMMA PhonesReport ==
  ASSUME LegsOK, EventsOK, EndsReported, PhoneStep
  PROVE  EndsReported' /\ \A h \in Gateways : Busy(h) => Busy(h)'
<1> USE BoundsAssumption
<1> PICK g \in Gateways :
      Ring(g) \/ Clip(g) \/ Repeat(g) \/ HandsetDial(g) \/ Connect(g) \/ Drop(g) \/ Removed(g)
  BY DEF PhoneStep
<1>1. \A n \in Nat : \A type \in {"incoming", "alerting", "active", "ended"} :
        Event(type, n) \in Events /\ Event(type, n).type = type
  BY DEF Event, Events
<1>2. lastClip \in Nat /\ legs \in Nat /\ leg = [leg EXCEPT ![g] = leg[g]]
  BY DEF EventsOK, LegsOK
<1>3. CASE Ring(g)
  <2>1. FirstNumbers \subseteq Nat
    <3>1. {lastClip} \subseteq Nat /\ {0, 1} \subseteq Nat /\ {1} \subseteq Nat
      BY <1>2
    <3> QED BY <3>1, Zenon DEF FirstNumbers
  <2>2. PICK n \in Nat : Emit(g, Event("incoming", n))
    BY <1>3, <2>1 DEF Ring
  <2>3. leg' = [leg EXCEPT ![g] = "ringing"]
    BY <1>3 DEF Ring, NewLeg
  <2> QED BY <1>1, <2>2, <2>3, ReportKeeps, LegAssumption DEF LegStates
<1>4. CASE Clip(g)
  <2>1. leg[g] # None /\ leg' = leg /\ Emit(g, Event("incoming", legs))
    BY <1>4, LegAssumption DEF LegStates, Clip
  <2>2. leg' = [leg EXCEPT ![g] = leg[g]]
    BY <1>2, <2>1
  <2> QED BY <1>1, <1>2, <2>1, <2>2, ReportKeeps
<1>5. CASE Repeat(g)
  <2>1. leg[g] # None /\ leg' = leg /\ leg[g] \in {"ringing", "answering", "dialing", "active", "disconnected"}
    BY <1>5 DEF Repeat, LegsOK
  <2>2. leg' = [leg EXCEPT ![g] = leg[g]]
    BY <1>2, <2>1
  <2>3. PICK e \in Events : Emit(g, e)
    BY <1>1, <1>2, <1>5, <2>1 DEF Repeat, Reported
  <2> QED BY <2>1, <2>2, <2>3, ReportKeeps
<1>6. CASE HandsetDial(g)
  BY <1>1, <1>6, ReportKeeps, LegAssumption DEF LegStates, HandsetDial, NewLeg
<1>7. CASE Connect(g)
  BY <1>1, <1>7, ReportKeeps, LegAssumption DEF LegStates, Connect
<1>8. CASE Drop(g) \/ Removed(g)
  <2>1. Emit(g, Event("ended", 1))
    BY <1>8 DEF Drop, Removed
  <2>2. PICK l : leg' = [leg EXCEPT ![g] = l]
    BY <1>8 DEF Drop, Removed
  <2>3. Event("ended", 1) \in Events /\ Event("ended", 1).type = "ended"
    BY <1>1
  <2> QED BY <2>1, <2>2, <2>3, ReportKeeps
<1> QED BY <1>3, <1>4, <1>5, <1>6, <1>7, <1>8

-----------------------------------------------------------------------------
(* The steps that the hypothesis leaves.                                   *)
LEMMA AloneSteps ==
  ASSUME EventsOnly, Alone, IInv, [Next]_vars
  PROVE  \/ PhoneStep \/ OpSelect \/ OpHangup \/ OpEnd \/ EventStep
         \/ UNCHANGED vars
<1>1. ~Operation
  BY DEF Operation, DialRoute, Operate, VoicemailAfter, Invoke, EventsOnly, Alone
<1>2. ~SideStep
  BY DEF SideStep, SideBegin, SideSelect, SideCommand, SideWrite, EventsOnly, Alone, Idle, Proc
<1>3. ~Restart
  BY DEF Restart, EventsOnly, Alone
<1>4. OperationStep => OpSelect \/ OpHangup \/ OpEnd
  <2>1. op.pc \in {"idle", "select", "command", "end"} /\ (op.pc = "command" => op.kind = "hangup")
    BY DEF Alone, Idle, Proc
  <2>2. ~(OpFailed \/ OpClaim \/ OpAlert \/ OpRollback) /\ \A c : ~OpCreate(c)
    BY <2>1 DEF OpCreate, OpFailed, OpClaim, OpAlert, OpRollback
  <2>3. ~OpDial
    BY <2>1 DEF OpDial
  <2>4. ~OpAnswer
    BY <2>1 DEF OpAnswer
  <2> QED BY <2>2, <2>3, <2>4 DEF OperationStep
<1> QED BY <1>1, <1>2, <1>3, <1>4 DEF Next

(* A step that writes no call and leaves the event goroutine where it is.  *)
LEMMA PhonesOnly ==
  ASSUME EventsInv, UNCHANGED <<calls, activeCallID, ev>>, Alone', EndsReported',
         \A h \in Gateways : Busy(h) => Busy(h)'
  PROVE  EventsInv'
<1>1. OneLive'
  BY DEF EventsInv, OneLive, NewCallDue, WriteDue
<1>2. EndExpected'
  BY DEF EventsInv, EndExpected, NewCallDue
<1> QED BY <1>1, <1>2 DEF EventsInv

(* The hangup of a filtered call.                                          *)
LEMMA HangupKeeps ==
  ASSUME EventsInv, IInv, LegsOK, EventsOK, OpSelect \/ OpHangup \/ OpEnd
  PROVE  EventsInv'
<1>0. op # Idle /\ op.kind = "hangup" /\ ev.pc = "joining" /\ UNCHANGED <<ev, side, timers, commands, restarts>>
  BY DEF OpSelect, OpHangup, OpEnd, EventsInv, Alone, Idle, Proc, counters
<1>r. op \in [pc : {"create", "command", "failed", "select", "claim", "alert", "rollback", "end"},
              kind : Claims \cup {"dial", "hangup"}, call : Call]
  BY <1>0 DEF IInv, OpOK
<1>1. CASE OpSelect
  <2>1. op' = [op EXCEPT !.pc = "command"] /\ UNCHANGED <<calls, activeCallID, leg, events>>
    BY <1>0, <1>1 DEF OpSelect, store
  <2>2. op'.kind = "hangup" /\ op'.pc = "command"
    BY <1>0, <1>r, <2>1
  <2>3. Alone'
    BY <1>0, <2>2 DEF EventsInv, Alone
  <2>4. EndsReported' /\ \A h \in Gateways : Busy(h) => Busy(h)'
    BY <2>1 DEF EventsInv, EndsReported, Busy
  <2> QED BY <1>0, <2>1, <2>3, <2>4, PhonesOnly
<1>2. CASE OpHangup
  <2>1. op' = [op EXCEPT !.pc = "end"] /\ UNCHANGED <<calls, activeCallID>>
    BY <1>2 DEF OpHangup, store
  <2>2. op'.kind = "hangup" /\ op'.pc = "end"
    BY <1>0, <1>r, <2>1
  <2>3. Alone'
    BY <1>0, <2>2 DEF EventsInv, Alone
  <2>4. EndsReported' /\ \A h \in Gateways : Busy(h) => Busy(h)'
    <3>1. CASE UNCHANGED <<leg, events>>
      BY <3>1 DEF EventsInv, EndsReported, Busy
    <3>2. CASE Emit(selected, Event("ended", 1)) /\ \E l : leg' = [leg EXCEPT ![selected] = l]
      <4>1. PICK l : leg' = [leg EXCEPT ![selected] = l]
        BY <3>2
      <4>2. Event("ended", 1) \in Events /\ Event("ended", 1).type = "ended"
        BY DEF Event, Events
      <4> QED BY <3>2, <4>1, <4>2, ReportKeeps DEF EventsInv
    <3> QED BY <1>2, <3>1, <3>2 DEF OpHangup
  <2> QED BY <1>0, <2>1, <2>3, <2>4, PhonesOnly
<1>3. CASE OpEnd
  <2> DEFINE v == [Next1(op.call) EXCEPT !.state = "ended", !.held = FALSE]
  <2>1. UpsertCall(v) /\ op' = Idle /\ UNCHANGED <<leg, events>>
    BY <1>3 DEF OpEnd
  <2>2. v.state = "ended"
    BY <1>r DEF Next1, Call
  <2> HIDE DEF v
  <2>3. \A c \in CallIDs : calls'[c] = calls[c] \/ calls'[c] = v
    BY <2>1 DEF UpsertCall, store, IInv, StoreOK
  <2>4. activeCallID' = activeCallID \/ (activeCallID' = None /\ activeCallID = v.id /\ calls' = [calls EXCEPT ![v.id] = v])
    BY <2>1, <2>2 DEF UpsertCall, store, LiveStates
  <2>5. ~Live(v)
    BY <2>2 DEF Live, LiveStates
  <2>6. OneLive'
    <3>1. \A c \in CallIDs : Live(calls'[c]) => Live(calls[c]) /\ calls'[c] # v
      BY <2>3, <2>5
    <3>2. \A c \in CallIDs : Live(calls'[c]) => activeCallID' = c
      BY <2>4, <2>5, <3>1 DEF EventsInv, OneLive, IInv, StoreOK
    <3> QED BY <1>0, <3>2 DEF OneLive, NewCallDue, WriteDue
  <2>7. EndExpected'
    BY <1>0, <2>1, <2>4 DEF EventsInv, EndExpected, NewCallDue, Busy
  <2>8. Alone' /\ EndsReported'
    BY <1>0, <2>1 DEF EventsInv, Alone, EndsReported
  <2> QED BY <2>6, <2>7, <2>8 DEF EventsInv
<1> QED BY <1>1, <1>2, <1>3

-----------------------------------------------------------------------------
(* What the event goroutine makes of an event: only the report of an end   *)
(* sets out to end a call, and it does so unless there is no active call.  *)
NothingDue(e, x) == x = Idle /\ (e.type = "ended" => activeCallID = None)
CallDue(e, x) ==
    x.pc = "select" /\ x.kind \in {"incoming", "alerting"} /\ activeCallID = None /\ e.type # "ended"
UpdateDue(e, x) ==
    /\ activeCallID # None /\ x.call.id = activeCallID
    /\ x.call.version = calls[activeCallID].version + 1
    /\ \/ x.pc = "write" /\ x.kind \in {"incoming", "alerting"} /\ e.type # "ended"
       \/ x.pc = "select" /\ x.kind = "active" /\ e.type # "ended"
       \/ x.pc = "write" /\ x.kind = "ended" /\ x.call.state = "ended"

(* There is no other outcome.                                              *)
LEMMA HandledKinds ==
  ASSUME IInv, NEW e \in Events, NEW g, NEW x, x = Handled(e, g)
  PROVE  NothingDue(e, x) \/ CallDue(e, x) \/ UpdateDue(e, x)
<1> DEFINE a == ActiveCall
<1>1. a = None <=> activeCallID = None
  BY DEF ActiveCall, IInv, StoreOK, Live
<1>2. a # None => a \in Call /\ a = calls[activeCallID] /\ a.id = activeCallID
  BY <1>1 DEF ActiveCall, IInv, StoreOK
<1>3. e.type \in {"incoming", "alerting", "active", "ended"}
  BY DEF Events
<1>4. CASE e.type = "incoming" /\ a = None
  <2>1. x = Proc("select", "incoming", NewCall("incoming", None, g, e.number))
    BY <1>4 DEF Handled
  <2> QED BY <1>1, <1>4, <2>1 DEF Proc, CallDue
<1>5. CASE e.type = "incoming" /\ a # None
  <2> DEFINE v == [Next1(a) EXCEPT !.number = e.number]
  <2>1. x = Idle \/ (x.pc = "write" /\ x.kind = "incoming" /\ x.call = v)
    BY <1>5 DEF Handled, Proc
  <2>2. v.id = a.id /\ v.version = a.version + 1
    BY <1>2, <1>5 DEF Next1, Call
  <2> HIDE DEF v, a
  <2> QED BY <1>1, <1>2, <1>5, <2>1, <2>2 DEF NothingDue, UpdateDue
<1>6. CASE e.type = "alerting" /\ a = None
  <2>1. x = Proc("select", "alerting", NewCall("alerting", None, g, e.number))
    BY <1>6 DEF Handled
  <2> QED BY <1>1, <1>6, <2>1 DEF Proc, CallDue
<1>7. CASE e.type = "alerting" /\ a # None
  <2> DEFINE v == [Next1(a) EXCEPT !.state = "alerting"]
  <2>1. x.pc = "write" /\ x.kind = "alerting" /\ x.call = v
    BY <1>7 DEF Handled, Proc
  <2>2. v.id = a.id /\ v.version = a.version + 1
    BY <1>2, <1>7 DEF Next1, Call
  <2> HIDE DEF v, a
  <2> QED BY <1>1, <1>2, <1>7, <2>1, <2>2 DEF UpdateDue
<1>8. CASE e.type = "active" /\ a # None
  <2> DEFINE v == [Next1(a) EXCEPT !.state = "active"]
  <2>1. x.pc = "select" /\ x.kind = "active" /\ x.call = v
    BY <1>8 DEF Handled, Proc
  <2>2. v.id = a.id /\ v.version = a.version + 1
    BY <1>2, <1>8 DEF Next1, Call
  <2> HIDE DEF v, a
  <2> QED BY <1>1, <1>2, <1>8, <2>1, <2>2 DEF UpdateDue
<1>9. CASE e.type = "ended" /\ a # None
  <2> DEFINE v == [Next1(a) EXCEPT !.state = "ended", !.held = FALSE]
  <2>1. x.pc = "write" /\ x.kind = "ended" /\ x.call = v
    BY <1>9 DEF Handled, Proc, Ends
  <2>2. v.id = a.id /\ v.version = a.version + 1 /\ v.state = "ended"
    BY <1>2, <1>9 DEF Next1, Call
  <2> HIDE DEF v, a
  <2> QED BY <1>1, <1>2, <1>9, <2>1, <2>2 DEF UpdateDue
<1>10. CASE e.type \in {"active", "ended"} /\ a = None
  <2>1. x = Idle
    BY <1>10 DEF Handled, Ends
  <2> QED BY <1>1, <1>10, <2>1 DEF NothingDue
<1> QED BY <1>3, <1>4, <1>5, <1>6, <1>7, <1>8, <1>9, <1>10

(* An event is taken. A phone without a leg and without further events has *)
(* reported an end last, so no other event can be its last one.            *)
LEMMA TakeKeeps ==
  ASSUME EventsInv, IInv, EventsOK, NEW g \in Gateways, HandleModem(g)
  PROVE  EventsInv'
<1> DEFINE e == Head(events[g])
<1> DEFINE t == Tail(events[g])
<1>1. ev = Idle /\ op = Idle /\ events[g] # <<>>
  BY DEF HandleModem, EventsInv, Alone, Idle, Proc
<1>2. /\ UNCHANGED <<calls, activeCallID, op, side, timers, commands, restarts, leg>>
      /\ ev' = Handled(e, g) /\ events' = [events EXCEPT ![g] = t]
  BY DEF HandleModem, store, counters
<1>3. e \in Events
  BY <1>1 DEF EventsOK
<1>4. /\ t # <<>> => t[Len(t)] = events[g][Len(events[g])]
      /\ t = <<>> => events[g][Len(events[g])] = e
  BY <1>1, LastEvent DEF EventsOK
<1> HIDE DEF e, t
<1>5. \A h \in Gateways : events'[h] = IF h = g THEN t ELSE events[h]
  BY <1>2 DEF EventsOK
<1>6. EndsReported'
  BY <1>1, <1>2, <1>4, <1>5 DEF EventsInv, EndsReported
<1>7. e.type # "ended" => Busy(g)'
  BY <1>1, <1>2, <1>4, <1>5 DEF EventsInv, EndsReported, Busy
<1>8. Alone'
  BY <1>1, <1>2 DEF EventsInv, Alone
<1>9. \A c \in CallIDs : Live(calls[c]) => activeCallID = c
  BY DEF EventsInv, OneLive
<1>10. NothingDue(e, ev') \/ CallDue(e, ev') \/ UpdateDue(e, ev')
  BY <1>2, <1>3, HandledKinds
<1>11. CASE NothingDue(e, ev')
  <2>1. ev'.pc = "idle" /\ (e.type = "ended" => activeCallID = None)
    BY <1>11 DEF NothingDue, Idle, Proc
  <2>2. OneLive'
    BY <1>2, <1>9, <2>1 DEF OneLive, NewCallDue, WriteDue
  <2>3. EndExpected'
    BY <1>2, <1>7, <2>1 DEF EndExpected, NewCallDue
  <2> QED BY <1>6, <1>8, <2>2, <2>3 DEF EventsInv
<1>12. CASE CallDue(e, ev')
  <2>1. OneLive'
    BY <1>2, <1>9, <1>12 DEF OneLive, NewCallDue, WriteDue, CallDue
  <2>2. EndExpected'
    BY <1>7, <1>12 DEF EndExpected, CallDue
  <2> QED BY <1>6, <1>8, <2>1, <2>2 DEF EventsInv
<1>13. CASE UpdateDue(e, ev')
  <2>1. ~NewCallDue' /\ (ev'.pc = "write" /\ ev'.kind = "ended" => ev'.call.state = "ended")
    BY <1>13 DEF NewCallDue, UpdateDue
  <2>2. activeCallID' = ev'.call.id /\ ev'.call.version = calls'[ev'.call.id].version + 1
    BY <1>2, <1>13 DEF UpdateDue
  <2>3. OneLive'
    BY <1>2, <1>9, <2>1, <2>2 DEF OneLive
  <2>4. EndExpected'
    BY <1>7, <1>13, <2>1 DEF EndExpected, UpdateDue
  <2> QED BY <1>6, <1>8, <2>3, <2>4 DEF EventsInv
<1> QED BY <1>10, <1>11, <1>12, <1>13

(* The event goroutine writes: its write is accepted, as no other process  *)
(* writes.                                                                 *)
LEMMA WriteKeeps ==
  ASSUME EventsInv, IInv, EvWrite
  PROVE  EventsInv'
<1> DEFINE v == ev.call
<1>1. ev.pc = "write" /\ ev # Idle /\ op = Idle /\ ev' = Idle /\ UpsertCall(v)
      /\ UNCHANGED <<op, side, timers, commands, restarts, leg, events>>
  BY DEF EvWrite, EventsInv, Alone, Idle, Proc, counters
<1>2. activeCallID = v.id /\ v.version = calls[v.id].version + 1 /\ v.id \in CallIDs
  BY <1>1 DEF EventsInv, OneLive, WriteDue, IInv, EvOK, Pending
<1>3. /\ calls' = [calls EXCEPT ![v.id] = v]
      /\ activeCallID' = IF v.state \in LiveStates THEN v.id ELSE None
  BY <1>1, <1>2 DEF UpsertCall, Accepted
<1>4. ev.kind = "ended" => v.state \notin LiveStates
  BY <1>1 DEF EventsInv, OneLive, LiveStates
<1>5. \A c \in CallIDs : calls'[c] = IF c = v.id THEN v ELSE calls[c]
  BY <1>3 DEF IInv, StoreOK
<1> HIDE DEF v
<1>6. \A c \in CallIDs : Live(calls'[c]) => activeCallID' = c
  BY <1>2, <1>3, <1>5 DEF EventsInv, OneLive, Live
<1>7. OneLive'
  BY <1>1, <1>6 DEF OneLive, NewCallDue, WriteDue, Idle, Proc
<1>8. Alone' /\ EndsReported'
  BY <1>1 DEF EventsInv, Alone, EndsReported
<1>9. EndExpected'
  <2>1. activeCallID' # None => \E h \in Gateways : Busy(h)
    BY <1>2, <1>3, <1>4, BoundsAssumption DEF EventsInv, EndExpected
  <2>2. \A h \in Gateways : Busy(h) => Busy(h)'
    BY <1>1 DEF Busy
  <2> QED BY <1>1, <2>1, <2>2 DEF EndExpected, NewCallDue, Idle, Proc
<1> QED BY <1>7, <1>8, <1>9 DEF EventsInv

(* It creates a call: no other one is live, and a phone is busy with it.   *)
LEMMA CreateKeeps ==
  ASSUME EventsOnly, EventsInv, IInv, NEW c \in Fresh, EvCreate(c)
  PROVE  EventsInv'
<1> DEFINE v == [ev.call EXCEPT !.id = c]
<1>1. /\ ev.pc = "create" /\ ev # Idle /\ op = Idle /\ UpsertCall(v) /\ c \in CallIDs /\ calls[c] = None
      /\ UNCHANGED <<op, side, commands, restarts, leg, events>>
  BY DEF EvCreate, EventsInv, Alone, Idle, Proc, counters, Fresh
<1>2. timers' = timers /\ ev'.pc \in {"filtered", "idle"}
  BY DEF EvCreate, EventsOnly, Idle, Proc
<1>3. v.id = c
  BY <1>1 DEF IInv, EvOK, Call
<1> HIDE DEF v
<1>4. activeCallID = None /\ \A d \in CallIDs : ~Live(calls[d])
  BY <1>1, BoundsAssumption DEF EventsInv, OneLive, NewCallDue
<1>5. /\ calls' = [calls EXCEPT ![c] = v]
      /\ activeCallID' = IF v.state \in LiveStates THEN c ELSE None
  BY <1>1, <1>3, <1>4 DEF UpsertCall, Accepted
<1>6. \A d \in CallIDs : calls'[d] = IF d = c THEN v ELSE calls[d]
  BY <1>5 DEF IInv, StoreOK
<1>7. \A d \in CallIDs : Live(calls'[d]) => activeCallID' = d
  BY <1>4, <1>5, <1>6 DEF Live
<1>8. OneLive'
  BY <1>2, <1>7 DEF OneLive, NewCallDue, WriteDue
<1>9. Alone' /\ EndsReported'
  BY <1>1, <1>2 DEF EventsInv, Alone, EndsReported
<1>10. EndExpected'
  <2>1. \E h \in Gateways : Busy(h)
    BY <1>1 DEF EventsInv, EndExpected, NewCallDue
  <2>2. \A h \in Gateways : Busy(h) => Busy(h)'
    BY <1>1 DEF Busy
  <2> QED BY <2>1, <2>2 DEF EndExpected
<1> QED BY <1>8, <1>9, <1>10 DEF EventsInv

(* It selects a route, or waits for the hangup of a filtered call.         *)
LEMMA MoveKeeps ==
  ASSUME EventsInv, IInv, EvSelect \/ EvHangup \/ EvJoin
  PROVE  EventsInv'
<1>1. UNCHANGED <<calls, activeCallID, side, timers, commands, restarts, leg, events>>
  BY DEF EvSelect, EvHangup, EvJoin, store, counters
<1>2. EndsReported' /\ \A h \in Gateways : Busy(h) => Busy(h)'
  BY <1>1 DEF EventsInv, EndsReported, Busy
<1>3. \A c \in CallIDs : Live(calls[c]) => activeCallID = c
  BY DEF EventsInv, OneLive
<1>4. op = Idle /\ ev # Idle
  BY DEF EvSelect, EvHangup, EvJoin, EventsInv, Alone, Idle, Proc
<1>5. ev \in [pc : {"select", "create", "write", "filtered", "joining"},
              kind : {"incoming", "alerting", "active", "ended", "hangup"}, call : Call]
  BY <1>4 DEF IInv, EvOK
<1>6. CASE EvSelect
  <2>1. ev.pc = "select" /\ op' = op
    BY <1>6 DEF EvSelect
  <2>2. \/ ev.kind = "active" /\ ev' = [ev EXCEPT !.pc = "write"]
        \/ ev.kind # "active" /\ ev' = [ev EXCEPT !.pc = "create"]
        \/ ev.kind # "active" /\ ev' = Idle
    BY <1>6 DEF EvSelect
  <2>3. \/ ev.kind = "active" /\ ev'.pc = "write" /\ ev'.kind = "active" /\ ev'.call = ev.call
        \/ ev.kind # "active" /\ ev'.pc = "create"
        \/ ev.kind # "active" /\ ev'.pc = "idle"
    BY <1>5, <2>2 DEF Idle, Proc
  <2>4. OneLive'
    BY <1>1, <1>3, <2>1, <2>3 DEF EventsInv, OneLive, NewCallDue, WriteDue
  <2>5. EndExpected'
    BY <1>1, <1>2, <2>1, <2>3 DEF EventsInv, OneLive, EndExpected, NewCallDue, WriteDue
  <2>6. Alone'
    BY <1>1, <1>4, <2>1 DEF EventsInv, Alone
  <2> QED BY <1>2, <2>4, <2>5, <2>6 DEF EventsInv
<1>7. CASE EvHangup \/ EvJoin
  <2>1. ev.pc \in {"filtered", "joining"} /\ ev'.pc \in {"joining", "idle"}
    BY <1>5, <1>7 DEF EvHangup, EvJoin, Idle, Proc
  <2>2. OneLive' /\ EndExpected'
    BY <1>1, <1>2, <1>3, <2>1 DEF EventsInv, OneLive, EndExpected, NewCallDue, WriteDue
  <2>3. op' # Idle => op'.kind = "hangup" /\ op'.pc = "select" /\ ev'.pc = "joining"
    BY <1>4, <1>5, <1>7 DEF EvHangup, EvJoin, Begin, Idle, Proc
  <2>4. Alone'
    BY <1>1, <2>3 DEF EventsInv, Alone
  <2> QED BY <1>2, <2>2, <2>4 DEF EventsInv
<1> QED BY <1>6, <1>7

-----------------------------------------------------------------------------
(* Nothing has been reported and no call is stored.                        *)
LEMMA EventsInit == Init => EventsInv
<1> SUFFICES ASSUME Init PROVE EventsInv
  OBVIOUS
<1>1. Alone
  BY DEF Init, Alone
<1>2. OneLive
  BY DEF Init, OneLive, NewCallDue, WriteDue, Live, Idle, Proc
<1>3. EndsReported /\ EndExpected
  BY DEF Init, EndsReported, EndExpected, NewCallDue, Idle, Proc
<1> QED BY <1>1, <1>2, <1>3 DEF EventsInv

(* Each remaining step keeps the invariant.                                *)
LEMMA EventsStep ==
  ASSUME EventsOnly, EventsInv, IInv, LegsOK, EventsOK, [Next]_vars
  PROVE  EventsInv'
<1>1. \/ PhoneStep \/ OpSelect \/ OpHangup \/ OpEnd \/ EventStep \/ UNCHANGED vars
  BY AloneSteps DEF EventsInv
<1>2. CASE PhoneStep
  <2>1. UNCHANGED <<calls, activeCallID, ev, op, side, timers, commands, restarts>>
    BY <1>2 DEF PhoneStep, Ring, Clip, Repeat, HandsetDial, Connect, Drop, Removed, quietly, phoneOnly, store
  <2>2. Alone'
    BY <2>1 DEF EventsInv, Alone
  <2>3. EndsReported' /\ \A h \in Gateways : Busy(h) => Busy(h)'
    BY <1>2, PhonesReport DEF EventsInv
  <2> QED BY <2>1, <2>2, <2>3, PhonesOnly
<1>3. CASE OpSelect \/ OpHangup \/ OpEnd
  BY <1>3, HangupKeeps
<1>4. CASE EventStep
  BY <1>4, TakeKeeps, WriteKeeps, CreateKeeps, MoveKeeps DEF EventStep
<1>5. CASE UNCHANGED vars
  <2>1. UNCHANGED <<calls, activeCallID, ev, op, side, timers, commands, restarts, leg, events>>
    BY <1>5 DEF vars, store, counters
  <2>2. Alone' /\ EndsReported' /\ \A h \in Gateways : Busy(h) => Busy(h)'
    BY <2>1 DEF EventsInv, Alone, EndsReported, Busy
  <2> QED BY <2>1, <2>2, PhonesOnly
<1> QED BY <1>1, <1>2, <1>3, <1>4, <1>5

(* Any number of phones ring, dial, connect, repeat themselves and hang    *)
(* up, with any delay of their reports and with blocked callers: once all  *)
(* are idle and handleModem has read what they reported, no call is left   *)
(* live. The hypothesis excludes the other writers: an operation or a      *)
(* voicemail timer may win the version that the end is written with, or a  *)
(* dialled call be the active one when the end of another is read; then    *)
(* the end is lost.                                                        *)
THEOREM HangupIsSynchronized ==
  ASSUME EventsOnly
  PROVE  Spec => []HangupSynchronized
<1>1. IInv /\ LegsOK /\ EventsOK /\ EventsInv /\ [Next]_vars => EventsInv'
  BY EventsStep
<1>2. IInv /\ EventsInv => HangupSynchronized
  <2> SUFFICES ASSUME IInv, EventsInv, Quiet, NEW c \in CallIDs, Live(calls[c]) PROVE FALSE
    BY DEF HangupSynchronized
  <2>1. activeCallID = c /\ c # None
    BY BoundsAssumption DEF EventsInv, OneLive
  <2>2. ev.pc # "write"
    BY DEF Quiet, Idle, Proc
  <2>3. \E g \in Gateways : Busy(g)
    BY <2>1, <2>2 DEF EventsInv, EndExpected
  <2> QED BY <2>3 DEF Quiet, Busy
<1> QED BY InvHolds, EventsInit, <1>1, <1>2, PTL DEF Spec
=============================================================================
