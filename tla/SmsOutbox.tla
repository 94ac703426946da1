----------------------------- MODULE SmsOutbox ------------------------------
(***************************************************************************)
(* Outgoing SMS.  SendSMSRoute stores the message as "sending", hands it   *)
(* to the phone and stores the outcome of that request; it holds no lock.  *)
(* Meanwhile the phone reports what becomes of each part of the SMS, and   *)
(* the modem event goroutine stores these reports (handleModem, sms.sent,  *)
(* sms.delivered, sms.failed).  Both work on copies, as DeleteMessage does *)
(* for the user, and UpsertMessage refuses a copy that is out of date.     *)
(***************************************************************************)
EXTENDS Integers, Sequences

CONSTANTS
    MessageIDs,
    None,
    MaxParts,     \* bound on the parts of an SMS (divideMessage)
    Lossy,        \* a lost link or a full channel may lose reports
    MaxDeletes,   \* bound on calls of DeleteMessage
    MaxRestarts   \* bound on restarts of the server

ASSUME PartsAssumption ==
    MaxParts \in Nat \ {0} /\ Lossy \in BOOLEAN /\ {MaxDeletes, MaxRestarts} \subseteq Nat

VARIABLES
    messages,  \* the store
    sender,    \* per message: the SendSMSRoute goroutine
    parts,     \* per message: the parts the phone divides it into
    part,      \* per message and part: where it is
    reports,   \* status reports on their way to handleModem
    ev,        \* the copy the modem event goroutine is about to write, or None
    del,       \* the copy DeleteMessage is about to write, or None
    deletes, restarts  \* counters for the bounds

counters == <<deletes, restarts>>
vars == <<messages, sender, parts, part, reports, ev, del, counters>>

Accepted(v) == messages[v.id] = None \/ v.version = messages[v.id].version + 1
UpsertMessageAlways(v) == messages' = [messages EXCEPT ![v.id] = v]  \* mutant: no check
UpsertMessage(v) ==
    messages' = IF Accepted(v) THEN [messages EXCEPT ![v.id] = v] ELSE messages

Written(id, version, status) ==
    [id |-> id, version |-> version, status |-> status, deleted |-> FALSE]

Init ==
    /\ messages = [m \in MessageIDs |-> None]
    /\ sender = [m \in MessageIDs |-> "new"]
    /\ parts \in [MessageIDs -> 1..MaxParts]
    /\ part = [m \in MessageIDs |-> [p \in 1..parts[m] |-> "unsent"]]
    /\ reports = <<>> /\ ev = None /\ del = None /\ deletes = 0 /\ restarts = 0

-----------------------------------------------------------------------------
(* SendSMSRoute.                                                           *)

Create(m) ==
    /\ sender[m] = "new" /\ sender' = [sender EXCEPT ![m] = "submit"]
    /\ UpsertMessage(Written(m, 1, "sending"))
    /\ UNCHANGED <<parts, part, reports, ev, del, counters>>

(* The request either reaches the phone or not; when it does, its answer   *)
(* may still be lost (ANDROID_GATEWAY_TIMEOUT, ..._DISCONNECTED).          *)
Submit(m) ==
    /\ sender[m] = "submit"
    /\ \/ /\ part' = [part EXCEPT ![m] = [p \in 1..parts[m] |-> "out"]]
          /\ sender' \in {[sender EXCEPT ![m] = outcome] : outcome \in {"sent", "failed"}}
       \/ sender' = [sender EXCEPT ![m] = "failed"] /\ UNCHANGED part
    /\ UNCHANGED <<messages, parts, reports, ev, del, counters>>

FinishSuccess(m) ==  \* mutant: only the success is stored
    /\ sender[m] \in {"sent", "failed"} /\ sender' = [sender EXCEPT ![m] = "done"]
    /\ IF sender[m] = "sent" THEN UpsertMessage(Written(m, 2, "sent")) ELSE UNCHANGED messages
    /\ UNCHANGED <<parts, part, reports, ev, del, counters>>

FinishFresh(m) ==  \* mutant: the outcome is put on the message as it is now
    /\ sender[m] \in {"sent", "failed"} /\ sender' = [sender EXCEPT ![m] = "done"]
    /\ UpsertMessage([messages[m] EXCEPT !.version = @ + 1, !.status = sender[m]])
    /\ UNCHANGED <<parts, part, reports, ev, del, counters>>

Finish(m) ==
    /\ sender[m] \in {"sent", "failed"} /\ sender' = [sender EXCEPT ![m] = "done"]
    /\ UpsertMessage(Written(m, 2, sender[m]))
    /\ UNCHANGED <<parts, part, reports, ev, del, counters>>

-----------------------------------------------------------------------------
(* SmsStatusReceiver: each part is sent or not; a part that was sent may    *)
(* be reported delivered or not.                                            *)
Report(m, p) ==
    /\ \E type \in {"sent", "delivered", "failed"} :
          /\ \/ part[m][p] = "out" /\ type # "delivered"
             \/ part[m][p] = "sent" /\ type # "sent"
          /\ part' = [part EXCEPT ![m][p] = type]
          /\ \/ reports' = Append(reports, [id |-> m, type |-> type])
             \/ Lossy /\ UNCHANGED reports
    /\ UNCHANGED <<messages, sender, parts, ev, del, counters>>

HandleReport ==
    /\ ev = None /\ reports # <<>> /\ reports' = Tail(reports)
    /\ LET m == Head(reports).id IN
       ev' = IF messages[m] = None THEN None
             ELSE [messages[m] EXCEPT !.version = @ + 1, !.status = Head(reports).type]
    /\ UNCHANGED <<messages, sender, parts, part, del, counters>>

EvWrite ==
    /\ ev # None /\ ev' = None /\ UpsertMessage(ev)
    /\ UNCHANGED <<sender, parts, part, reports, del, counters>>

-----------------------------------------------------------------------------
(* DeleteMessage reads and writes the message without a lock.              *)
DeleteMessage(m) ==
    /\ deletes < MaxDeletes /\ deletes' = deletes + 1
    /\ del = None /\ messages[m] # None
    /\ del' = [messages[m] EXCEPT !.version = @ + 1, !.deleted = TRUE]
    /\ UNCHANGED <<messages, sender, parts, part, reports, ev, restarts>>

DelWrite ==
    /\ del # None /\ del' = None /\ UpsertMessage(del)
    /\ UNCHANGED <<sender, parts, part, reports, ev, counters>>

(* The goroutines die; reports the server has already read are lost.       *)
Restart ==
    /\ restarts < MaxRestarts /\ restarts' = restarts + 1
    /\ sender' = [m \in MessageIDs |-> IF sender[m] \in {"new", "done"} THEN sender[m]
                                        ELSE "stopped"]
    /\ ev' = None /\ del' = None
    /\ \E lost \in 0..Len(reports) : reports' = SubSeq(reports, lost + 1, Len(reports))
    /\ UNCHANGED <<messages, parts, part, deletes>>

Next ==
    \/ \E m \in MessageIDs :
          \/ Create(m) \/ Submit(m) \/ Finish(m) \/ DeleteMessage(m)
          \/ \E p \in 1..parts[m] : Report(m, p)
    \/ HandleReport \/ EvWrite \/ DelWrite \/ Restart

Spec == Init /\ [][Next]_vars

-----------------------------------------------------------------------------
Statuses == {"sending", "sent", "delivered", "failed"}
Message == [id : MessageIDs, version : Nat, status : Statuses, deleted : BOOLEAN]

(* No message is a nil pointer.                                             *)
ASSUME NoneAssumption == None \notin Message

(* Type correctness.                                                        *)
TypeOK ==
    /\ messages \in [MessageIDs -> Message \cup {None}]
    /\ \A m \in MessageIDs : messages[m] # None => messages[m].id = m
    /\ sender \in [MessageIDs -> {"new", "submit", "sent", "failed", "done", "stopped"}]
    /\ \A m \in MessageIDs :
          part[m] \in [1..parts[m] -> {"unsent", "out", "sent", "delivered", "failed"}]
    /\ reports \in Seq([id : MessageIDs, type : Statuses])
    /\ ev \in Message \cup {None} /\ del \in Message \cup {None}

Quiet == reports = <<>> /\ ev = None /\ del = None
Shown(m) == messages[m] # None /\ ~messages[m].deleted

(* A message does not stay in "sending" once SendSMSRoute has returned,     *)
(* although its last write may be refused.                                  *)
SendSettles ==
    \A m \in MessageIDs : sender[m] = "done" /\ Shown(m) => messages[m].status # "sending"

(* A delivered SMS stays delivered: the outcome that SendSMSRoute stores    *)
(* late does not overwrite the phone's report (for an SMS of one part).     *)
DeliveredIsFinal ==
    [][\A m \in MessageIDs :
          parts[m] = 1 /\ messages[m] # None /\ messages[m].status = "delivered" =>
              messages'[m].status = "delivered"]_vars

(* A deleted message never reappears, although a sender or a report may     *)
(* hold a copy from before the deletion.                                    *)
DeletedStays ==
    [][\A m \in MessageIDs : messages[m] # None /\ messages[m].deleted =>
          messages'[m].deleted]_vars

(* What does not hold: the application shows the "delivery state", that is, *)
(* when all is quiet, an SMS that the phone could not send is not shown as  *)
(* sent.                                                                    *)
FailureShown ==
    Quiet => \A m \in MessageIDs :
        /\ sender[m] = "done" /\ Shown(m)
        /\ \E p \in 1..parts[m] : part[m][p] = "failed"
        => messages[m].status = "failed"
=============================================================================
