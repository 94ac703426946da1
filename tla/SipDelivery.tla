---------------------------- MODULE SipDelivery -----------------------------
(***************************************************************************)
(* The delivery of received SMS to a SIP client (deliveryLoop in           *)
(* internal/sipgateway/gateway.go) beside the user's writes of the same    *)
(* messages and restarts of the server.                                    *)
(*                                                                         *)
(* store.Message returns a copy of the message that still points to the    *)
(* stored SIPDelivery.  updateDelivery changes that record in place before *)
(* it writes the message, so memory changes before disk; and a user's      *)
(* write in between stores the changed record.  UpsertMessage replaces the *)
(* message and its record, so a copy shares its record with memory exactly *)
(* while its version is the stored one.                                    *)
(***************************************************************************)
EXTENDS Integers, FiniteSets

CONSTANTS
    MessageIDs, None,
    Expiry,        \* age at which a delivery expires: 7 days
    ArriveBy,      \* bound on the time of arrivals
    MaxTime,       \* bound on the clock
    MaxDeletes,    \* bound on calls of DeleteMessage
    MaxRestarts    \* bound on restarts

ASSUME TimesAssumption ==
    /\ {Expiry, ArriveBy, MaxTime, MaxDeletes, MaxRestarts} \subseteq Nat
    /\ MaxTime > ArriveBy + Expiry

VARIABLES
    messages,    \* in memory
    disk,        \* as replay would rebuild them
    SIPEnabled,  \* the setting
    accepted,    \* the messages a SIP client has accepted
    loop,        \* the delivery goroutine
    user,        \* a user's write in progress: MarkRead or DeleteMessage
    clock, deletes, restarts

deliveryVars == <<messages, disk, SIPEnabled, accepted, loop, user, clock, deletes, restarts>>

Done == {"delivered", "expired"}
retryDelay(attempt) == IF attempt < 4 THEN attempt ELSE 4

Idle == [pc |-> "idle"]
NoMessages == [m \in MessageIDs |-> None]

DeliveryInit ==
    /\ messages = NoMessages /\ disk = NoMessages
    /\ SIPEnabled = TRUE /\ accepted = {} /\ loop = Idle /\ user = None
    /\ clock = 0 /\ deletes = 0 /\ restarts = 0

(* The row is stored and folded into memory; a stale version is refused.   *)
UpsertMessage(m, v) ==
    IF messages[m] = None \/ v.version = messages[m].version + 1
    THEN messages' = [messages EXCEPT ![m] = v] /\ disk' = [disk EXCEPT ![m] = v]
    ELSE UNCHANGED <<messages, disk>>

(* handleModem stores a received SMS, queued while SIP is enabled.         *)
Arrive(m) ==
    /\ messages[m] = None /\ SIPEnabled /\ clock <= ArriveBy
    /\ UpsertMessage(m, [version |-> 1, unread |-> TRUE, deleted |-> FALSE, attempts |-> 0,
                         status |-> "queued", nextAt |-> clock, expiresAt |-> clock + Expiry])
    /\ UNCHANGED <<SIPEnabled, accepted, loop, user, clock, deletes, restarts>>

-----------------------------------------------------------------------------
(* One pass of deliverPending works on a snapshot and one reading of the    *)
(* clock.  A pass starts on a wakeup or at any tick of 15 seconds.          *)
BeginPass ==
    /\ loop.pc = "idle"
    /\ loop' = [pc |-> "next", now |-> clock, snapshot |-> messages]
    /\ UNCHANGED <<messages, disk, SIPEnabled, accepted, user, clock, deletes, restarts>>

Pending(v) == v # None /\ v.status \notin Done /\ ~v.deleted
Rest(m) == [loop.snapshot EXCEPT ![m] = None]
Goto(pc, m, outcome) ==
    [pc |-> pc, now |-> loop.now, snapshot |-> Rest(m), id |-> m, outcome |-> outcome]

(* What becomes of one pending message of the snapshot.                    *)
VerdictDisabledFirst(v) ==  \* mutant: nothing expires while SIP is disabled
    IF ~SIPEnabled THEN "skip"
    ELSE IF loop.now > v.expiresAt THEN "expire"
    ELSE IF v.nextAt = None \/ loop.now < v.nextAt THEN "skip" ELSE "send"
Verdict(v) ==
    IF loop.now > v.expiresAt THEN "expire"
    ELSE IF ~SIPEnabled \/ v.nextAt = None \/ loop.now < v.nextAt THEN "skip" ELSE "send"

Visit(m) ==
    /\ loop.pc = "next" /\ Pending(loop.snapshot[m])
    /\ loop' = CASE Verdict(loop.snapshot[m]) = "expire" -> Goto("read", m, "expired")
                 [] Verdict(loop.snapshot[m]) = "skip" -> [loop EXCEPT !.snapshot = Rest(m)]
                 [] Verdict(loop.snapshot[m]) = "send" -> Goto("send", m, None)
    /\ UNCHANGED <<messages, disk, SIPEnabled, accepted, user, clock, deletes, restarts>>

(* The last step of a pass stores the number of pending messages with the   *)
(* device, which is not part of this model.                                 *)
EndPass ==
    /\ loop.pc = "next" /\ \A m \in MessageIDs : ~Pending(loop.snapshot[m])
    /\ loop' = Idle
    /\ UNCHANGED <<messages, disk, SIPEnabled, accepted, user, clock, deletes, restarts>>

(* sendMessage: the client accepts or not; the response may be lost.       *)
OutcomesOptimistic ==  \* mutant: no response counts as success
    {<<FALSE, "queued">>, <<TRUE, "delivered">>, <<FALSE, "delivered">>}
Outcomes == {<<FALSE, "queued">>, <<TRUE, "delivered">>, <<TRUE, "queued">>}

Send ==
    /\ loop.pc = "send"
    /\ \E o \in Outcomes :
          /\ accepted' = IF o[1] THEN accepted \cup {loop.id} ELSE accepted
          /\ loop' = [loop EXCEPT !.pc = "read", !.outcome = o[2]]
    /\ UNCHANGED <<messages, disk, SIPEnabled, user, clock, deletes, restarts>>

(* updateDelivery: a copy is read, its record changed in place, the copy    *)
(* written.                                                                 *)
UpdateRead ==
    /\ loop.pc = "read"
    /\ loop' = [pc |-> "change", now |-> loop.now, snapshot |-> loop.snapshot, id |-> loop.id,
                outcome |-> loop.outcome, copy |-> messages[loop.id]]
    /\ UNCHANGED <<messages, disk, SIPEnabled, accepted, user, clock, deletes, restarts>>

WithDelivery(v, d) == [v EXCEPT !.status = d[1], !.attempts = d[2], !.nextAt = d[3]]

Changed(v, outcome) ==
    LET attempts == v.attempts + 1 IN
    WithDelivery(v, CASE outcome = "expired" -> <<"expired", v.attempts, None>>
                      [] outcome = "delivered" -> <<"delivered", attempts, None>>
                      [] outcome = "queued" ->
                           <<v.status, attempts, loop.now + retryDelay(attempts)>>)

UpdateInPlace ==
    /\ loop.pc = "change"
    /\ LET v == Changed(loop.copy, loop.outcome) IN
       /\ messages' = IF loop.copy.version = messages[loop.id].version
                      THEN [messages EXCEPT ![loop.id] = Changed(@, loop.outcome)]
                      ELSE messages
       /\ loop' = [loop EXCEPT !.pc = "store", !.copy = v]
    /\ UNCHANGED <<disk, SIPEnabled, accepted, user, clock, deletes, restarts>>

UpdateStoreShown ==  \* mutant: a deleted message is not written
    /\ loop.pc = "store"
    /\ IF loop.copy.deleted THEN UNCHANGED <<messages, disk>>
       ELSE UpsertMessage(loop.id, [loop.copy EXCEPT !.version = @ + 1])
    /\ loop' = [pc |-> "next", now |-> loop.now, snapshot |-> loop.snapshot]
    /\ UNCHANGED <<SIPEnabled, accepted, user, clock, deletes, restarts>>

UpdateStore ==
    /\ loop.pc = "store"
    /\ UpsertMessage(loop.id, [loop.copy EXCEPT !.version = @ + 1])
    /\ loop' = [pc |-> "next", now |-> loop.now, snapshot |-> loop.snapshot]
    /\ UNCHANGED <<SIPEnabled, accepted, user, clock, deletes, restarts>>

LoopStep ==
    \/ BeginPass \/ EndPass \/ Send \/ UpdateRead \/ UpdateInPlace \/ UpdateStore
    \/ \E m \in MessageIDs : Visit(m)

-----------------------------------------------------------------------------
(* MarkRead and DeleteMessage read a copy and write it back.  While the     *)
(* copy is up to date it shares the record with memory.  No lock orders the *)
(* reading of the record with a change in place, so each field may be read  *)
(* before or after it.                                                      *)
Seen(m) ==
    LET v == messages[m] IN
    IF loop.pc = "change" /\ loop.id = m /\ loop.copy.version = v.version
    THEN LET w == Changed(v, loop.outcome) IN
         {WithDelivery(v, d) :
             d \in {v.status, w.status} \X {v.attempts, w.attempts} \X {v.nextAt, w.nextAt}}
    ELSE {v}

UserRead(m, kind) ==
    /\ user = None /\ messages[m] # None
    /\ kind = "read" => messages[m].unread
    /\ kind = "delete" => deletes < MaxDeletes
    /\ deletes' = IF kind = "delete" THEN deletes + 1 ELSE deletes
    /\ user' = [id |-> m, version |-> messages[m].version, kind |-> kind]
    /\ UNCHANGED <<messages, disk, SIPEnabled, accepted, loop, clock, restarts>>

(* A stale copy is refused, so the record written is the one in memory.    *)
UserWrite ==
    /\ user # None /\ user' = None
    /\ \E v \in Seen(user.id) :
          UpsertMessage(user.id, [v EXCEPT !.version = user.version + 1, !.unread = FALSE,
                                           !.deleted = @ \/ user.kind = "delete"])
    /\ UNCHANGED <<SIPEnabled, accepted, loop, clock, deletes, restarts>>

(* MarkAllMessagesRead reads and writes in one critical section.           *)
MarkAllMessagesRead ==
    LET unread == {m \in MessageIDs : messages[m] # None /\ messages[m].unread /\ ~messages[m].deleted}
    IN  /\ unread # {}
        /\ \E seen \in [unread -> UNION {Seen(m) : m \in unread}] :
              LET Marked(table) == [m \in MessageIDs |->
                      IF m \in unread THEN [seen[m] EXCEPT !.version = @ + 1, !.unread = FALSE]
                      ELSE table[m]]
              IN  /\ \A m \in unread : seen[m] \in Seen(m)
                  /\ messages' = Marked(messages) /\ disk' = Marked(disk)
        /\ UNCHANGED <<SIPEnabled, accepted, loop, user, clock, deletes, restarts>>

Toggle ==
    /\ SIPEnabled' = ~SIPEnabled
    /\ UNCHANGED <<messages, disk, accepted, loop, user, clock, deletes, restarts>>

Tick ==
    /\ clock < MaxTime /\ clock' = clock + 1
    /\ UNCHANGED <<messages, disk, SIPEnabled, accepted, loop, user, deletes, restarts>>

Restart ==
    /\ restarts < MaxRestarts /\ restarts' = restarts + 1
    /\ messages' = disk /\ loop' = Idle /\ user' = None
    /\ UNCHANGED <<disk, SIPEnabled, accepted, clock, deletes>>

DeliveryNext ==
    \/ LoopStep \/ UserWrite \/ MarkAllMessagesRead \/ Toggle \/ Tick \/ Restart
    \/ \E m \in MessageIDs :
          Arrive(m) \/ \E kind \in {"read", "delete"} : UserRead(m, kind)

DeliverySpec == DeliveryInit /\ [][DeliveryNext]_deliveryVars

(* The goroutine runs, and time passes.                                    *)
DeliveryFairSpec == DeliverySpec /\ WF_deliveryVars(LoopStep) /\ WF_deliveryVars(Tick)

-----------------------------------------------------------------------------
Message == [version : Nat, unread : BOOLEAN, deleted : BOOLEAN,
            attempts : Nat, status : Done \cup {"queued"},
            nextAt : Nat \cup {None}, expiresAt : Nat]

(* No message is a nil pointer.                                             *)
ASSUME NoneAssumption == None \notin Message

(* Type correctness of the two tables.                                      *)
DeliveryTypeOK ==
    /\ messages \in [MessageIDs -> Message \cup {None}]
    /\ disk \in [MessageIDs -> Message \cup {None}]
    /\ accepted \subseteq MessageIDs
    /\ clock \in 0..MaxTime

(* Changing the shared record in place leaves no trace that is only in      *)
(* memory: outside the moment between change and write, memory is what a    *)
(* restart would rebuild.                                                   *)
MemoryDurable == loop.pc # "store" => messages = disk

(* A message counts as delivered, in memory or on disk, only when the SIP   *)
(* client has accepted it.                                                  *)
DeliveredWasAccepted ==
    \A m \in MessageIDs, table \in {messages, disk} :
        table[m] # None /\ table[m].status = "delivered" => m \in accepted

(* Every delivery ends: a queued message is in the end delivered, expired   *)
(* or deleted, also while SIP is disabled and although any update of it can *)
(* be lost to a user's write.                                               *)
DeliverySettles ==
    \A m \in MessageIDs :
        messages[m] # None ~> (messages[m] # None /\ ~Pending(messages[m]))
=============================================================================
