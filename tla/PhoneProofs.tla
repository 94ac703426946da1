----------------------------- MODULE PhoneProofs ----------------------------
(***************************************************************************)
(* Proofs about what the server asks of a phone: AndroidLink, the link on  *)
(* which the requests go, for any number of callers and links, and         *)
(* SmsOutbox, for any number of messages, parts, reports, deletions and    *)
(* restarts. A caller that waits is served by the link it wrote to, and a  *)
(* success means that the phone has executed the request. Although         *)
(* SendSMSRoute, handleModem and DeleteMessage write copies without a      *)
(* lock, a deleted message never reappears, a message whose sender has     *)
(* returned is not left in "sending", and a delivered message of one part  *)
(* stays delivered.                                                        *)
(***************************************************************************)
EXTENDS AndroidLink, SmsOutbox, TLAPS

(* closeControl clears the writer before it ends the callers: there is a   *)
(* writer, of the newest link, exactly while that link is read or found    *)
(* broken.                                                                 *)
WriterOfLink ==
    /\ run \in {"read", "close"} => writer = links
    /\ run \notin {"read", "close"} => writer = 0

(* A caller that is about to write is registered, or a link that ended in  *)
(* between has closed its channel; before, nobody knows its id.            *)
Registered ==
    \A r \in Requests :
        /\ req[r] \in {"check", "register"} => r \notin pending /\ ch[r] = "empty"
        /\ req[r] = "write" => r \in pending \/ ch[r] # "empty"

(* Answers, on the link or in a channel, are of executed requests.         *)
AnswersExecuted ==
    answers \subseteq executed /\ \A r \in Requests : ch[r] = "answer" => r \in executed

LinkInv ==
    /\ LinkTypeOK /\ WriterOfLink /\ Registered /\ WaiterIsServed
    /\ AnswersExecuted /\ OkMeansExecuted

USE LinksAssumption

(* The initial state: no link and no caller.                               *)
LEMMA LinkBegins == LinkInit => LinkInv
<1> SUFFICES ASSUME LinkInit PROVE LinkInv
  OBVIOUS
<1>1. events \in Seq({"online", "offline"})
  BY DEF LinkInit
<1>2. LinkTypeOK
  <2>1. healthy \in BOOLEAN /\ alive \in BOOLEAN
    BY Zenon DEF LinkInit
  <2>2. links \in 0..MaxLinks /\ on \in [Requests -> 0..MaxLinks]
    BY DEF LinkInit
  <2> QED BY <1>1, <2>1, <2>2 DEF LinkInit, LinkTypeOK, Results
<1>3. WriterOfLink /\ Registered /\ WaiterIsServed /\ AnswersExecuted /\ OkMeansExecuted
  BY DEF LinkInit, WriterOfLink, Registered, WaiterIsServed, AnswersExecuted, OkMeansExecuted
<1> QED BY <1>2, <1>3 DEF LinkInv

(* Type correctness is preserved by every step.                            *)
LEMMA TypeStep == LinkTypeOK /\ WriterOfLink /\ [LinkNext]_linkVars => LinkTypeOK'
<1> SUFFICES ASSUME LinkTypeOK, WriterOfLink, [LinkNext]_linkVars PROVE LinkTypeOK'
  OBVIOUS
<1> USE DEF LinkTypeOK, WriterOfLink, Results, link, callers, companion
<1>1. CASE Connect
  BY <1>1 DEF Connect
<1>2. ASSUME NEW r \in Requests, ReadAnswer(r) PROVE LinkTypeOK'
  BY <1>2 DEF ReadAnswer
<1>3. CASE ReadEnds
  BY <1>3 DEF ReadEnds
<1>4. CASE CloseControl
  BY <1>4 DEF CloseControl
<1>5. CASE Drain
  BY <1>5 DEF Drain
<1>6. CASE SetOffline
  <2>1. events' \in Seq({"online", "offline"})
    <3>1. CASE healthy
      BY <1>6, <3>1 DEF SetOffline
    <3>2. CASE ~healthy
      BY <1>6, <3>2 DEF SetOffline
    <3> QED BY <3>1, <3>2
  <2> QED BY <1>6, <2>1 DEF SetOffline
<1>7. ASSUME NEW r \in Requests, Check(r) PROVE LinkTypeOK'
  BY <1>7 DEF Check
<1>8. ASSUME NEW r \in Requests, Register(r) PROVE LinkTypeOK'
  BY <1>8 DEF Register
<1>9. ASSUME NEW r \in Requests, Write(r) PROVE LinkTypeOK'
  <2>1. /\ req' \in [Requests -> {"check", "register", "write", "wait"} \cup Results]
        /\ on' \in [Requests -> 0..MaxLinks]
    BY <1>9 DEF Write
  <2>2. pending' \subseteq Requests /\ transit' \subseteq Requests
    <3>1. CASE alive
      BY <1>9, <3>1 DEF Write
    <3>2. CASE ~alive
      BY <1>9, <3>2 DEF Write
    <3> QED BY <3>1, <3>2
  <2> QED BY <1>9, <2>1, <2>2 DEF Write
<1>10. ASSUME NEW r \in Requests, Return(r) PROVE LinkTypeOK'
  BY <1>10 DEF Return
<1>11. ASSUME NEW r \in Requests, Timeout(r) PROVE LinkTypeOK'
  BY <1>11 DEF Timeout
<1>12. ASSUME NEW r \in Requests, Execute(r) PROVE LinkTypeOK'
  BY <1>12 DEF Execute
<1>13. CASE Break
  BY <1>13 DEF Break
<1>14. CASE HandleEvent
  BY <1>14 DEF HandleEvent
<1>15. CASE UNCHANGED linkVars
  BY <1>15 DEF linkVars
<1> QED
  BY <1>1, <1>2, <1>3, <1>4, <1>5, <1>6, <1>7, <1>8, <1>9, <1>10, <1>11, <1>12, <1>13, <1>14, <1>15
     DEF LinkNext, RunStep, CallerStep

(* The other conjuncts: what the goroutine `run' and the callers of        *)
(* `request' may do to each other between their locks.                     *)
LEMMA LinkStep == LinkInv /\ [LinkNext]_linkVars =>
    (WriterOfLink /\ Registered /\ WaiterIsServed /\ AnswersExecuted /\ OkMeansExecuted)'
<1> SUFFICES ASSUME LinkInv, [LinkNext]_linkVars
             PROVE  (WriterOfLink /\ Registered /\ WaiterIsServed /\ AnswersExecuted /\ OkMeansExecuted)'
  OBVIOUS
<1> DEFINE Goal == WriterOfLink /\ Registered /\ WaiterIsServed /\ AnswersExecuted /\ OkMeansExecuted
<1> USE DEF LinkInv, LinkTypeOK, WriterOfLink, Registered, WaiterIsServed, AnswersExecuted,
            OkMeansExecuted, Results, link, callers, companion
<1>1. CASE Connect
  BY <1>1 DEF Connect
<1>2. ASSUME NEW r \in Requests, ReadAnswer(r) PROVE Goal'
  BY <1>2 DEF ReadAnswer
<1>3. CASE ReadEnds
  BY <1>3 DEF ReadEnds
<1>4. CASE CloseControl
  BY <1>4 DEF CloseControl
<1>5. CASE Drain
  BY <1>5 DEF Drain
<1>6. CASE SetOffline
  BY <1>6 DEF SetOffline
<1>7. ASSUME NEW r \in Requests, Check(r) PROVE Goal'
  BY <1>7 DEF Check
<1>8. ASSUME NEW r \in Requests, Register(r) PROVE Goal'
  BY <1>8 DEF Register
<1>9. ASSUME NEW r \in Requests, Write(r) PROVE Goal'
  BY <1>9 DEF Write
<1>10. ASSUME NEW r \in Requests, Return(r) PROVE Goal'
  BY <1>10 DEF Return
<1>11. ASSUME NEW r \in Requests, Timeout(r) PROVE Goal'
  BY <1>11 DEF Timeout
<1>12. ASSUME NEW r \in Requests, Execute(r) PROVE Goal'
  BY <1>12 DEF Execute
<1>13. CASE Break
  BY <1>13 DEF Break
<1>14. CASE HandleEvent
  BY <1>14 DEF HandleEvent
<1>15. CASE UNCHANGED linkVars
  BY <1>15 DEF linkVars
<1> QED
  BY <1>1, <1>2, <1>3, <1>4, <1>5, <1>6, <1>7, <1>8, <1>9, <1>10, <1>11, <1>12, <1>13, <1>14, <1>15
     DEF LinkNext, RunStep, CallerStep

(* The invariant holds in every behaviour.                                 *)
LEMMA InvHolds == LinkSpec => []LinkInv
<1>1. LinkInv /\ [LinkNext]_linkVars => LinkInv'
  BY TypeStep, LinkStep DEF LinkInv
<1> QED BY LinkBegins, <1>1, PTL DEF LinkSpec

(* The state of `run', of the callers of `request' and of the companion    *)
(* keeps its type; the writer is nil or of the newest link.                *)
THEOREM LinkTypeCorrect == LinkSpec => []LinkTypeOK
  BY InvHolds, PTL DEF LinkInv

(* No caller of `request' is left to its timeout by a link that ended      *)
(* between its steps; for every number of callers and links.               *)
THEOREM WaitersAreServed == LinkSpec => []WaiterIsServed
  BY InvHolds, PTL DEF LinkInv

(* A success of `request' means that the phone has executed the request,   *)
(* however late answers come and however often the link is replaced.       *)
THEOREM SuccessMeansExecuted == LinkSpec => []OkMeansExecuted
  BY InvHolds, PTL DEF LinkInv

-----------------------------------------------------------------------------
(* The sending of SMS.                                                     *)
HIDE LinksAssumption

Reports == [id : MessageIDs, type : Statuses \ {"sending"}]

(* The part of TypeOK that the argument needs.                             *)
Typed ==
    /\ messages \in [MessageIDs -> Message \cup {None}]
    /\ \A m \in MessageIDs : messages[m] # None => messages[m].id = m
    /\ reports \in Seq(Reports)
    /\ ev \in Message \cup {None} /\ del \in Message \cup {None}

(* A deletion is never the first version, which the sender wrote: what it  *)
(* writes as the second is refused when the message is deleted.            *)
DeletedLater ==
    \A m \in MessageIDs : messages[m] # None =>
        messages[m].version >= 1 /\ (messages[m].deleted => messages[m].version >= 2)

(* A copy that handleModem would still get accepted is of the message as   *)
(* it is: a version that was used is not used again.                       *)
CopyCurrent ==
    ev # None =>
        /\ messages[ev.id] # None /\ ev.version >= 2
        /\ ev.version <= messages[ev.id].version + 1
        /\ ev.version = messages[ev.id].version + 1 => (messages[ev.id].deleted => ev.deleted)

DeletionDeletes == del # None => messages[del.id] # None /\ del.version >= 2 /\ del.deleted

IInv == Typed /\ DeletedLater /\ CopyCurrent /\ DeletionDeletes

(* What the property says of a step.                                       *)
Stays ==
    \A m \in MessageIDs : messages[m] # None /\ messages[m].deleted => messages'[m].deleted

USE NoneAssumption

(* The initial state: no message and no copy.                              *)
LEMMA InitHolds == Init => IInv
  BY DEF Init, IInv, Typed, DeletedLater, CopyCurrent, DeletionDeletes, Reports

(* UpsertMessage of a message that is new, or whose version tells that it  *)
(* keeps a deletion, preserves what concerns the store; and a copy of      *)
(* handleModem that is not written stays current or becomes refused.       *)
LEMMA UpsertKeeps ==
  ASSUME IInv, NEW v \in Message, UpsertMessage(v), v.version >= 1,
         v.deleted => v.version >= 2,
         messages[v.id] # None /\ v.version = messages[v.id].version + 1
             => (messages[v.id].deleted => v.deleted)
  PROVE  /\ messages' \in [MessageIDs -> Message \cup {None}]
         /\ \A m \in MessageIDs : messages'[m] # None => messages'[m].id = m
         /\ DeletedLater' /\ Stays
         /\ \A m \in MessageIDs : messages[m] # None =>
              /\ messages'[m] # None
              /\ \/ messages'[m] = messages[m]
                 \/ messages'[m].version = messages[m].version + 1
<1> USE DEF IInv, Typed
<1>1. v.id \in MessageIDs /\ v.version \in Nat /\ v # None
  BY DEF Message
<1>2. \A m \in MessageIDs : messages[m] # None => messages[m].version \in Nat
  BY DEF Message
<1>3. CASE Accepted(v)
  <2>1. messages' = [messages EXCEPT ![v.id] = v]
    BY <1>3 DEF UpsertMessage
  <2>2. messages[v.id] = None \/ v.version = messages[v.id].version + 1
    BY <1>3 DEF Accepted
  <2>3. DeletedLater'
    BY <1>1, <1>2, <2>1 DEF DeletedLater
  <2>4. Stays
    BY <1>1, <2>1, <2>2 DEF Stays
  <2> QED BY <1>1, <1>2, <2>1, <2>2, <2>3, <2>4
<1>4. CASE ~Accepted(v)
  <2>1. messages' = messages
    BY <1>4 DEF UpsertMessage
  <2> QED BY <2>1 DEF DeletedLater, Stays
<1> QED BY <1>3, <1>4

(* A copy that waits while another goroutine writes stays current, or is   *)
(* refused from then on.                                                   *)
LEMMA CopyWaits ==
  ASSUME IInv, UNCHANGED ev,
         \A m \in MessageIDs : messages[m] # None =>
              /\ messages'[m] # None
              /\ \/ messages'[m] = messages[m]
                 \/ messages'[m].version = messages[m].version + 1
  PROVE  CopyCurrent'
<1> SUFFICES ASSUME ev # None PROVE CopyCurrent'
  BY DEF CopyCurrent
<1>1. ev.id \in MessageIDs /\ ev.version \in Nat /\ messages[ev.id] \in Message
  BY DEF IInv, Typed, CopyCurrent, Message
<1>2. messages[ev.id].version \in Nat
  BY <1>1 DEF Message
<1>3. CASE messages'[ev.id] = messages[ev.id]
  BY <1>1, <1>3 DEF IInv, CopyCurrent
<1>4. CASE messages'[ev.id].version = messages[ev.id].version + 1
  BY <1>1, <1>2, <1>4 DEF IInv, CopyCurrent
<1> QED BY <1>1, <1>3, <1>4 DEF IInv, CopyCurrent

(* The copies that handleModem and DeleteMessage make are messages of the  *)
(* next version.                                                           *)
LEMMA CopyIsMessage ==
  ASSUME NEW x \in Message, NEW s \in Statuses
  PROVE  /\ [x EXCEPT !.version = @ + 1, !.status = s] \in Message
         /\ [x EXCEPT !.version = @ + 1, !.deleted = TRUE] \in Message
<1>1. x.version + 1 \in Nat
  BY DEF Message
<1>2. x.id \in MessageIDs /\ x.status \in Statuses /\ x.deleted \in BOOLEAN
  BY Zenon DEF Message
<1>3. x = [id |-> x.id, version |-> x.version, status |-> x.status, deleted |-> x.deleted]
  BY Zenon DEF Message
<1> QED BY <1>1, <1>2, <1>3, Zenon DEF Message

(* Every step preserves the invariant and keeps deleted messages deleted.  *)
LEMMA StepHolds == IInv /\ [Next]_vars => IInv' /\ Stays
<1> SUFFICES ASSUME IInv, [Next]_vars PROVE IInv' /\ Stays
  OBVIOUS
<1> USE DEF IInv
<1>a. \A m \in MessageIDs : messages[m] # None =>
        messages[m] \in Message /\ messages[m].version \in Nat
  BY DEF Typed, Message
<1>1. ASSUME NEW m \in MessageIDs, Create(m) PROVE IInv' /\ Stays
  <2> DEFINE v == Written(m, 1, "sending")
  <2>1. v \in Message /\ v.id = m /\ v.version = 1 /\ v.deleted = FALSE
    BY DEF Written, Message, Statuses
  <2>2. messages[m] # None => v.version # messages[m].version + 1
    BY <1>a, <2>1 DEF DeletedLater
  <2>3. UpsertMessage(v) /\ UNCHANGED <<reports, ev, del>>
    BY <1>1 DEF Create
  <2> HIDE DEF v
  <2> QED BY <2>1, <2>2, <2>3, UpsertKeeps, CopyWaits DEF Typed, DeletionDeletes, Message
<1>2. ASSUME NEW m \in MessageIDs, Finish(m) PROVE IInv' /\ Stays
  <2> DEFINE v == Written(m, 2, sender[m])
  <2>1. v \in Message /\ v.id = m /\ v.version = 2 /\ v.deleted = FALSE
    BY <1>2 DEF Finish, Written, Message, Statuses
  <2>2. messages[m] # None /\ v.version = messages[m].version + 1 => ~messages[m].deleted
    BY <1>a, <2>1 DEF DeletedLater
  <2>3. UpsertMessage(v) /\ UNCHANGED <<reports, ev, del>>
    BY <1>2 DEF Finish
  <2> HIDE DEF v
  <2> QED BY <2>1, <2>2, <2>3, UpsertKeeps, CopyWaits DEF Typed, DeletionDeletes, Message
<1>3. CASE EvWrite
  <2>1. ev \in Message /\ UpsertMessage(ev) /\ ev' = None /\ UNCHANGED <<reports, del>>
    BY <1>3 DEF EvWrite, Typed
  <2>2. ev.version \in Nat /\ ev.version >= 2
    BY <1>3, <2>1 DEF EvWrite, CopyCurrent, Message
  <2>3. messages[ev.id] # None /\ ev.version = messages[ev.id].version + 1
          => (messages[ev.id].deleted => ev.deleted)
    BY <1>3 DEF EvWrite, CopyCurrent
  <2> QED BY <2>1, <2>2, <2>3, UpsertKeeps DEF Typed, DeletionDeletes, CopyCurrent, Message
<1>4. CASE DelWrite
  <2>1. del \in Message /\ UpsertMessage(del) /\ del' = None /\ UNCHANGED <<reports, ev>>
    BY <1>4 DEF DelWrite, Typed
  <2>2. del.version \in Nat /\ del.version >= 2 /\ del.deleted
    BY <1>4, <2>1 DEF DelWrite, DeletionDeletes, Message
  <2> QED BY <2>1, <2>2, UpsertKeeps, CopyWaits DEF Typed, DeletionDeletes, Message
<1>5. CASE HandleReport
  <2> DEFINE m == Head(reports).id
             w == [messages[m] EXCEPT !.version = @ + 1, !.status = Head(reports).type]
  <2>1. UNCHANGED <<messages, del>> /\ reports' = Tail(reports) /\ reports # <<>>
    BY <1>5 DEF HandleReport
  <2>2. Head(reports) \in Reports /\ reports' \in Seq(Reports)
    BY <2>1 DEF Typed
  <2>3. m \in MessageIDs /\ Head(reports).type \in Statuses
    BY <2>2 DEF Reports
  <2>4. CASE messages[m] = None
    BY <1>5, <2>1, <2>2, <2>4 DEF HandleReport, Typed, DeletedLater, CopyCurrent, DeletionDeletes, Stays
  <2>5. CASE messages[m] # None
    <3>0. w \in Message
      BY <1>a, <2>3, <2>5, CopyIsMessage
    <3>1. w \in Message /\ w.id = m /\ w.version = messages[m].version + 1
          /\ w.deleted = messages[m].deleted
      BY <1>a, <2>3, <2>5, <3>0 DEF Typed, Message
    <3>2. ev' = w
      BY <1>5, <2>5 DEF HandleReport
    <3>3. messages[m].version >= 1
      BY <2>3, <2>5 DEF DeletedLater
    <3> HIDE DEF w
    <3>4. CopyCurrent'
      BY <1>a, <2>1, <2>3, <2>5, <3>1, <3>2, <3>3 DEF CopyCurrent
    <3> QED BY <2>1, <2>2, <3>1, <3>2, <3>4 DEF Typed, DeletedLater, DeletionDeletes, Stays
  <2> QED BY <2>4, <2>5
<1>6. ASSUME NEW m \in MessageIDs, DeleteMessage(m) PROVE IInv' /\ Stays
  <2> DEFINE w == [messages[m] EXCEPT !.version = @ + 1, !.deleted = TRUE]
  <2>1. UNCHANGED <<messages, reports, ev>> /\ del' = w /\ messages[m] # None
    BY <1>6 DEF DeleteMessage
  <2>2. w \in Message /\ w.id = m /\ w.version = messages[m].version + 1 /\ w.deleted
    <3>1. w \in Message
      BY <1>a, <2>1, CopyIsMessage DEF Statuses
    <3> QED BY <1>a, <2>1, <3>1 DEF Typed, Message
  <2>3. messages[m].version >= 1
    BY <2>1 DEF DeletedLater
  <2> HIDE DEF w
  <2>4. DeletionDeletes'
    BY <1>a, <2>1, <2>2, <2>3 DEF DeletionDeletes
  <2> QED BY <2>1, <2>2, <2>4 DEF Typed, DeletedLater, CopyCurrent, Stays
<1>7. CASE Restart
  <2>1. UNCHANGED messages /\ ev' = None /\ del' = None
    BY <1>7 DEF Restart
  <2>2. reports' \in Seq(Reports)
    <3>1. PICK lost \in 0..Len(reports) : reports' = SubSeq(reports, lost + 1, Len(reports))
      BY <1>7 DEF Restart
    <3>2. reports \in Seq(Reports)
      BY DEF Typed
    <3>3. \A k \in (lost + 1)..Len(reports) : reports[k] \in Reports
      BY <3>1, <3>2
    <3> QED BY <3>1, <3>2, <3>3
  <2> QED BY <2>1, <2>2 DEF Typed, DeletedLater, CopyCurrent, DeletionDeletes, Stays
<1>8. ASSUME NEW m \in MessageIDs, NEW p \in 1..parts[m], Report(m, p) PROVE IInv' /\ Stays
  <2>1. UNCHANGED <<messages, ev, del>>
    BY <1>8 DEF Report
  <2>2. reports' \in Seq(Reports)
    <3>1. PICK type \in {"sent", "delivered", "failed"} :
            reports' = Append(reports, [id |-> m, type |-> type]) \/ UNCHANGED reports
      BY <1>8 DEF Report
    <3>2. [id |-> m, type |-> type] \in Reports
      BY DEF Reports, Statuses
    <3> QED BY <3>1, <3>2 DEF Typed
  <2> QED BY <2>1, <2>2 DEF Typed, DeletedLater, CopyCurrent, DeletionDeletes, Stays
<1>9. ASSUME NEW m \in MessageIDs, Submit(m) PROVE IInv' /\ Stays
  BY <1>9 DEF Submit, Typed, DeletedLater, CopyCurrent, DeletionDeletes, Stays
<1>10. CASE UNCHANGED vars
  BY <1>10 DEF vars, Typed, DeletedLater, CopyCurrent, DeletionDeletes, Stays
<1> QED
  BY <1>1, <1>2, <1>3, <1>4, <1>5, <1>6, <1>7, <1>8, <1>9, <1>10 DEF Next

(* A message that DeleteMessage has deleted stays deleted: no late outcome *)
(* of SendSMSRoute and no late report of the phone brings it back.         *)
THEOREM DeletedForEver == Spec => DeletedStays
<1>1. IInv /\ [Next]_vars => [Stays]_vars
  BY StepHolds
<1> QED BY InitHolds, StepHolds, <1>1, PTL DEF Spec, DeletedStays, Stays

-----------------------------------------------------------------------------
(* The first version of a message is the one in "sending", and the only    *)
(* one that is shown so. A sender that is done leaves no first version:    *)
(* the second is its own, or its write was refused because there was one.  *)
FirstIsSending ==
    /\ sender \in [MessageIDs -> {"new", "submit", "sent", "failed", "done", "stopped"}]
    /\ ev # None => ev.status # "sending"
    /\ \A m \in MessageIDs : messages[m] # None =>
          /\ messages[m].version = 1 => messages[m].status = "sending"
          /\ messages[m].status = "sending" => messages[m].version = 1 \/ messages[m].deleted
          /\ sender[m] = "done" => messages[m].version # 1

(* What DeleteMessage writes has the status of the message, if it is       *)
(* accepted.                                                               *)
DeletionKeepsStatus ==
    del # None =>
        /\ del.version <= messages[del.id].version + 1
        /\ del.version = messages[del.id].version + 1 => del.status = messages[del.id].status

StatusInv == FirstIsSending /\ DeletionKeepsStatus

(* What UpsertMessage does to the store, entry by entry.                   *)
LEMMA UpsertWrites ==
  ASSUME Typed, NEW v \in Message, UpsertMessage(v)
  PROVE  /\ \A m \in MessageIDs : m # v.id => messages'[m] = messages[m]
         /\ \/ /\ messages'[v.id] = v
               /\ messages[v.id] # None => v.version = messages[v.id].version + 1
            \/ /\ messages'[v.id] = messages[v.id] /\ messages[v.id] # None
               /\ v.version # messages[v.id].version + 1
<1>1. v.id \in MessageIDs
  BY DEF Message
<1>2. CASE Accepted(v)
  BY <1>1, <1>2 DEF UpsertMessage, Accepted, Typed
<1>3. CASE ~Accepted(v)
  BY <1>1, <1>3 DEF UpsertMessage, Accepted, Typed
<1> QED BY <1>2, <1>3

(* The report that handleModem takes.                                      *)
LEMMA HeadIsReport ==
  ASSUME Typed, reports # <<>>
  PROVE  /\ Head(reports).id \in MessageIDs
         /\ Head(reports).type \in Statuses \ {"sending"}
         /\ Head(reports) = reports[1] /\ 1 \in 1..Len(reports)
<1>1. Head(reports) \in Reports /\ Head(reports) = reports[1] /\ 1 \in 1..Len(reports)
  BY DEF Typed
<1> QED BY <1>1 DEF Reports

(* The initial state: no message, no copy.                                 *)
LEMMA InitStatus == Init => StatusInv
  BY DEF Init, StatusInv, FirstIsSending, DeletionKeepsStatus

(* Every step preserves what versions and statuses have to do with each    *)
(* other.                                                                  *)
LEMMA StepStatus == IInv /\ StatusInv /\ [Next]_vars => StatusInv'
<1> SUFFICES ASSUME IInv, StatusInv, [Next]_vars PROVE StatusInv'
  OBVIOUS
<1> USE DEF IInv, StatusInv
<1>a. \A m \in MessageIDs : messages[m] # None =>
        messages[m] \in Message /\ messages[m].version \in Nat /\ messages[m].version >= 1
  BY DEF Typed, Message, DeletedLater
<1>b. /\ ev # None => ev.id \in MessageIDs /\ ev.version \in Nat /\ ev.version >= 2
      /\ del # None => /\ del.id \in MessageIDs /\ del.version \in Nat /\ del.version >= 2
                       /\ del.deleted /\ messages[del.id] # None
  BY DEF Typed, Message, CopyCurrent, DeletionDeletes
<1>1. ASSUME NEW m \in MessageIDs, Create(m) PROVE StatusInv'
  <2> DEFINE v == Written(m, 1, "sending")
  <2>1. v \in Message /\ v.id = m /\ v.version = 1 /\ v.status = "sending"
    BY DEF Written, Message, Statuses
  <2>2. UpsertMessage(v) /\ UNCHANGED <<ev, del>> /\ sender' = [sender EXCEPT ![m] = "submit"]
    BY <1>1 DEF Create
  <2> HIDE DEF v
  <2>3. /\ \A n \in MessageIDs : n # m => messages'[n] = messages[n]
        /\ messages'[m] = v \/ messages'[m] = messages[m]
        /\ messages[m] # None => messages'[m] = messages[m]
    BY <1>a, <2>1, <2>2, UpsertWrites
  <2>4. FirstIsSending'
    BY <1>a, <2>1, <2>2, <2>3 DEF FirstIsSending
  <2>5. DeletionKeepsStatus'
    BY <1>b, <2>2, <2>3 DEF DeletionKeepsStatus
  <2> QED BY <2>4, <2>5
<1>2. ASSUME NEW m \in MessageIDs, Finish(m) PROVE StatusInv'
  <2> DEFINE v == Written(m, 2, sender[m])
  <2>1. v \in Message /\ v.id = m /\ v.version = 2 /\ v.status # "sending"
    BY <1>2 DEF Finish, Written, Message, Statuses
  <2>2. UpsertMessage(v) /\ UNCHANGED <<ev, del>> /\ sender' = [sender EXCEPT ![m] = "done"]
    BY <1>2 DEF Finish
  <2> HIDE DEF v
  <2>3. /\ \A n \in MessageIDs : n # m => messages'[n] = messages[n]
        /\ \/ messages'[m] = v /\ (messages[m] # None => messages[m].version = 1)
           \/ messages'[m] = messages[m] /\ messages[m] # None /\ messages[m].version # 1
    BY <1>a, <2>1, <2>2, UpsertWrites
  <2>4. FirstIsSending'
    BY <1>a, <2>1, <2>2, <2>3 DEF FirstIsSending
  <2>5. DeletionKeepsStatus'
    BY <1>a, <1>b, <2>1, <2>2, <2>3 DEF DeletionKeepsStatus
  <2> QED BY <2>4, <2>5
<1>3. CASE EvWrite
  <2>1. ev \in Message /\ ev # None /\ UpsertMessage(ev) /\ ev' = None /\ UNCHANGED <<sender, del>>
    BY <1>3 DEF EvWrite, Typed
  <2>2. /\ \A n \in MessageIDs : n # ev.id => messages'[n] = messages[n]
        /\ \/ messages'[ev.id] = ev /\ ev.version = messages[ev.id].version + 1
           \/ messages'[ev.id] = messages[ev.id]
    BY <2>1, UpsertWrites DEF CopyCurrent
  <2>3. FirstIsSending'
    BY <1>a, <1>b, <2>1, <2>2 DEF FirstIsSending
  <2>4. DeletionKeepsStatus'
    BY <1>a, <1>b, <2>1, <2>2 DEF DeletionKeepsStatus
  <2> QED BY <2>3, <2>4
<1>4. CASE DelWrite
  <2>1. del \in Message /\ del # None /\ UpsertMessage(del) /\ del' = None /\ UNCHANGED <<sender, ev>>
    BY <1>4 DEF DelWrite, Typed
  <2>2. /\ \A n \in MessageIDs : n # del.id => messages'[n] = messages[n]
        /\ \/ messages'[del.id] = del \/ messages'[del.id] = messages[del.id]
    BY <2>1, UpsertWrites
  <2>3. FirstIsSending'
    BY <1>a, <1>b, <2>1, <2>2 DEF FirstIsSending
  <2> QED BY <2>1, <2>3 DEF DeletionKeepsStatus
<1>5. CASE HandleReport
  <2> DEFINE m == Head(reports).id
             w == [messages[m] EXCEPT !.version = @ + 1, !.status = Head(reports).type]
  <2>1. UNCHANGED <<messages, sender, del>>
    BY <1>5 DEF HandleReport
  <2>2. ev' = None \/ (messages[m] # None /\ ev' = w)
    BY <1>5 DEF HandleReport
  <2>3. m \in MessageIDs /\ Head(reports).type # "sending"
    BY <1>5, HeadIsReport DEF HandleReport
  <2>4. ev' # None => ev'.status # "sending"
    BY <1>a, <2>2, <2>3 DEF Message
  <2> QED BY <2>1, <2>4 DEF FirstIsSending, DeletionKeepsStatus
<1>6. ASSUME NEW m \in MessageIDs, DeleteMessage(m) PROVE StatusInv'
  <2> DEFINE w == [messages[m] EXCEPT !.version = @ + 1, !.deleted = TRUE]
  <2>1. UNCHANGED <<messages, sender, ev>> /\ del' = w /\ messages[m] # None
    BY <1>6 DEF DeleteMessage
  <2>2. w.id = m /\ w.version = messages[m].version + 1 /\ w.status = messages[m].status
    BY <1>a, <2>1 DEF Typed, Message
  <2> HIDE DEF w
  <2> QED BY <1>a, <2>1, <2>2 DEF FirstIsSending, DeletionKeepsStatus
<1>7. CASE Restart
  BY <1>7 DEF Restart, FirstIsSending, DeletionKeepsStatus
<1>8. ASSUME NEW m \in MessageIDs, NEW p \in 1..parts[m], Report(m, p) PROVE StatusInv'
  BY <1>8 DEF Report, FirstIsSending, DeletionKeepsStatus
<1>9. ASSUME NEW m \in MessageIDs, Submit(m) PROVE StatusInv'
  <2>1. \E outcome \in {"sent", "failed"} : sender' = [sender EXCEPT ![m] = outcome]
    BY <1>9 DEF Submit
  <2> QED BY <1>9, <2>1 DEF Submit, FirstIsSending, DeletionKeepsStatus
<1>10. CASE UNCHANGED vars
  BY <1>10 DEF vars, FirstIsSending, DeletionKeepsStatus
<1> QED
  BY <1>1, <1>2, <1>3, <1>4, <1>5, <1>6, <1>7, <1>8, <1>9, <1>10 DEF Next

-----------------------------------------------------------------------------
(* For an SMS of one part nothing follows the report of its delivery,      *)
(* neither in the channel nor in the hands of handleModem.                 *)
Silent(m) == \A i \in 1..Len(reports) : reports[i].id # m

ReportsEnd(m) ==
    \A i \in 1..Len(reports) :
        reports[i].id = m /\ reports[i].type = "delivered" =>
            part[m][1] = "delivered" /\ \A j \in (i + 1)..Len(reports) : reports[j].id # m

DeliveredIsLast ==
    \A m \in MessageIDs : parts[m] = 1 =>
        /\ messages[m] # None /\ messages[m].status = "delivered" =>
              part[m][1] = "delivered" /\ Silent(m) /\ (ev # None => ev.id # m)
        /\ ev # None /\ ev.id = m /\ ev.status = "delivered" =>
              part[m][1] = "delivered" /\ Silent(m)
        /\ ReportsEnd(m)
        /\ sender[m] \in {"new", "submit"} => part[m][1] = "unsent"

PartsTyped ==
    /\ parts \in [MessageIDs -> 1..MaxParts]
    /\ DOMAIN part = MessageIDs /\ part = [m \in MessageIDs |-> part[m]]
    /\ \A m \in MessageIDs : part[m] = [p \in 1..parts[m] |-> part[m][p]]

PartsInv == PartsTyped /\ DeliveredIsLast

(* What the property says of a step.                                       *)
DeliveredKept ==
    \A m \in MessageIDs :
        parts[m] = 1 /\ messages[m] # None /\ messages[m].status = "delivered" =>
            messages'[m].status = "delivered"

(* The initial state: no part was sent, no report is on its way.           *)
LEMMA InitParts == Init => PartsInv
  BY DEF Init, PartsInv, PartsTyped, DeliveredIsLast, ReportsEnd

(* A step that writes no delivery into the store and leaves the reports    *)
(* and the parts alone.                                                    *)
LEMMA StoreKeeps ==
  ASSUME IInv, PartsInv, UNCHANGED <<parts, part, reports>>,
         \A m \in MessageIDs : messages'[m] # None /\ messages'[m].status = "delivered" =>
             messages[m] # None /\ messages[m].status = "delivered",
         ev' = ev \/ ev' = None,
         \A m \in MessageIDs : sender'[m] \in {"new", "submit"} => sender[m] \in {"new", "submit"}
  PROVE  PartsInv'
<1>1. PartsTyped'
  BY DEF PartsInv, PartsTyped
<1>2. \A m \in MessageIDs : (Silent(m) => Silent(m)') /\ (ReportsEnd(m) => ReportsEnd(m)')
  BY DEF Silent, ReportsEnd
<1>3. DeliveredIsLast'
  BY <1>2 DEF PartsInv, DeliveredIsLast
<1> QED BY <1>1, <1>3 DEF PartsInv

(* Every step preserves the order of the reports and keeps a delivered     *)
(* message delivered.                                                      *)
LEMMA StepParts == IInv /\ StatusInv /\ PartsInv /\ [Next]_vars => PartsInv' /\ DeliveredKept
<1> SUFFICES ASSUME IInv, StatusInv, PartsInv, [Next]_vars PROVE PartsInv' /\ DeliveredKept
  OBVIOUS
<1> USE DEF IInv, StatusInv
<1>a. \A m \in MessageIDs : messages[m] # None =>
        messages[m] \in Message /\ messages[m].version \in Nat /\ messages[m].version >= 1
  BY DEF Typed, Message, DeletedLater
<1>b. ev # None => ev.id \in MessageIDs /\ messages[ev.id] # None
  BY DEF Typed, Message, CopyCurrent
<1>1. ASSUME NEW m \in MessageIDs, Create(m) PROVE PartsInv' /\ DeliveredKept
  <2> DEFINE v == Written(m, 1, "sending")
  <2>1. v \in Message /\ v.id = m /\ v.version = 1 /\ v.status = "sending"
    BY DEF Written, Message, Statuses
  <2>2. /\ UpsertMessage(v) /\ UNCHANGED <<parts, part, reports, ev>>
        /\ sender[m] = "new" /\ sender' = [sender EXCEPT ![m] = "submit"]
    BY <1>1 DEF Create
  <2> HIDE DEF v
  <2>3. /\ \A n \in MessageIDs : n # m => messages'[n] = messages[n]
        /\ messages'[m] = v \/ messages'[m] = messages[m]
        /\ messages[m] # None => messages'[m] = messages[m]
    BY <1>a, <2>1, <2>2, UpsertWrites
  <2>4. \A n \in MessageIDs : sender'[n] \in {"new", "submit"} => sender[n] \in {"new", "submit"}
    BY <2>2 DEF FirstIsSending
  <2>5. DeliveredKept
    BY <2>3 DEF DeliveredKept
  <2>6. \A n \in MessageIDs : messages'[n] # None /\ messages'[n].status = "delivered" =>
             messages[n] # None /\ messages[n].status = "delivered"
    BY <2>1, <2>3
  <2> QED BY <2>2, <2>4, <2>5, <2>6, StoreKeeps
<1>2. ASSUME NEW m \in MessageIDs, Finish(m) PROVE PartsInv' /\ DeliveredKept
  <2> DEFINE v == Written(m, 2, sender[m])
  <2>1. v \in Message /\ v.id = m /\ v.version = 2 /\ v.status # "delivered"
    BY <1>2 DEF Finish, Written, Message, Statuses
  <2>2. /\ UpsertMessage(v) /\ UNCHANGED <<parts, part, reports, ev>>
        /\ sender' = [sender EXCEPT ![m] = "done"]
    BY <1>2 DEF Finish
  <2> HIDE DEF v
  <2>3. /\ \A n \in MessageIDs : n # m => messages'[n] = messages[n]
        /\ \/ messages'[m] = v /\ (messages[m] # None => messages[m].version = 1)
           \/ messages'[m] = messages[m]
    BY <1>a, <2>1, <2>2, UpsertWrites
  <2>4. \A n \in MessageIDs : sender'[n] \in {"new", "submit"} => sender[n] \in {"new", "submit"}
    BY <2>2 DEF FirstIsSending
  <2>5. DeliveredKept
    BY <2>3 DEF DeliveredKept, FirstIsSending
  <2>6. \A n \in MessageIDs : messages'[n] # None /\ messages'[n].status = "delivered" =>
             messages[n] # None /\ messages[n].status = "delivered"
    BY <2>1, <2>3
  <2> QED BY <2>2, <2>4, <2>5, <2>6, StoreKeeps
<1>3. CASE EvWrite
  <2>1. ev \in Message /\ ev # None /\ UpsertMessage(ev) /\ ev' = None
        /\ UNCHANGED <<parts, part, reports, sender>>
    BY <1>3 DEF EvWrite, Typed
  <2>2. /\ \A n \in MessageIDs : n # ev.id => messages'[n] = messages[n]
        /\ messages'[ev.id] = ev \/ messages'[ev.id] = messages[ev.id]
    BY <2>1, UpsertWrites
  <2>3. PartsTyped' /\ \A n \in MessageIDs : Silent(n)' = Silent(n) /\ ReportsEnd(n)' = ReportsEnd(n)
    BY <2>1 DEF PartsInv, PartsTyped, Silent, ReportsEnd
  <2>4. DeliveredIsLast'
    BY <2>1, <2>2, <2>3 DEF PartsInv, DeliveredIsLast
  <2>5. DeliveredKept
    BY <1>b, <2>1, <2>2 DEF DeliveredKept, PartsInv, DeliveredIsLast
  <2> QED BY <2>3, <2>4, <2>5 DEF PartsInv
<1>4. CASE DelWrite
  <2>1. del \in Message /\ del # None /\ UpsertMessage(del) /\ messages[del.id] # None
        /\ UNCHANGED <<parts, part, reports, sender, ev>>
    BY <1>4 DEF DelWrite, Typed, DeletionDeletes
  <2>2. /\ \A n \in MessageIDs : n # del.id => messages'[n] = messages[n]
        /\ \/ messages'[del.id] = del /\ del.version = messages[del.id].version + 1
           \/ messages'[del.id] = messages[del.id]
    BY <2>1, UpsertWrites
  <2>3. /\ \A n \in MessageIDs : messages[n] # None => messages'[n].status = messages[n].status
        /\ \A n \in MessageIDs : messages'[n] # None => messages[n] # None
    BY <2>1, <2>2 DEF DeletionKeepsStatus
  <2>4. \A n \in MessageIDs : messages'[n] # None /\ messages'[n].status = "delivered" =>
             messages[n] # None /\ messages[n].status = "delivered"
    BY <2>3
  <2>5. PartsInv'
    BY <2>1, <2>4, StoreKeeps
  <2> QED BY <2>3, <2>5 DEF DeliveredKept
<1>5. CASE HandleReport
  <2> DEFINE m == Head(reports).id
             w == [messages[m] EXCEPT !.version = @ + 1, !.status = Head(reports).type]
  <2>1. UNCHANGED <<messages, sender, parts, part>> /\ reports' = Tail(reports) /\ reports # <<>> /\ ev = None
    BY <1>5 DEF HandleReport
  <2>2. m \in MessageIDs /\ Head(reports) = reports[1] /\ 1 \in 1..Len(reports)
    BY <2>1, HeadIsReport
  <2>3. ev' = None \/ (messages[m] # None /\ ev' = w)
    BY <1>5 DEF HandleReport
  <2>4. messages[m] # None => w.id = m /\ w.status = reports[1].type
    BY <1>a, <2>2 DEF Typed, Message
  <2>5. /\ Len(reports') = Len(reports) - 1 /\ Len(reports) \in Nat
        /\ \A i \in 1..Len(reports') : reports'[i] = reports[i + 1]
    BY <2>1 DEF Typed
  <2>6. PartsTyped'
    BY <2>1 DEF PartsInv, PartsTyped
  <2>7. ASSUME NEW n \in MessageIDs, parts[n] = 1
        PROVE  /\ Silent(n) => Silent(n)'
               /\ ReportsEnd(n) => ReportsEnd(n)'
               /\ ReportsEnd(n) /\ reports[1].id = n /\ reports[1].type = "delivered" =>
                     Silent(n)' /\ part[n][1] = "delivered"
    <3>1. Silent(n) => Silent(n)'
      BY <2>5 DEF Silent
    <3>2. ASSUME ReportsEnd(n) PROVE ReportsEnd(n)'
      <4> SUFFICES ASSUME NEW i \in 1..Len(reports'), reports'[i].id = n, reports'[i].type = "delivered"
                   PROVE  part'[n][1] = "delivered" /\ \A j \in (i + 1)..Len(reports') : reports'[j].id # n
        BY DEF ReportsEnd
      <4>1. i + 1 \in 1..Len(reports) /\ reports[i + 1] = reports'[i]
        BY <2>5
      <4>2. part[n][1] = "delivered" /\ \A j \in (i + 2)..Len(reports) : reports[j].id # n
        BY <3>2, <4>1 DEF ReportsEnd
      <4>3. \A j \in (i + 1)..Len(reports') : j + 1 \in (i + 2)..Len(reports) /\ reports'[j] = reports[j + 1]
        BY <2>5
      <4> QED BY <2>1, <4>2, <4>3
    <3>3. ASSUME ReportsEnd(n), reports[1].id = n, reports[1].type = "delivered"
          PROVE  Silent(n)' /\ part[n][1] = "delivered"
      <4>1. part[n][1] = "delivered" /\ \A j \in 2..Len(reports) : reports[j].id # n
        BY <2>2, <3>3 DEF ReportsEnd
      <4>2. \A j \in 1..Len(reports') : j + 1 \in 2..Len(reports) /\ reports'[j] = reports[j + 1]
        BY <2>5
      <4> QED BY <4>1, <4>2 DEF Silent
    <3> QED BY <3>1, <3>2, <3>3
  <2>8. \A n \in MessageIDs : Silent(n) => n # m
    BY <2>2 DEF Silent
  <2> HIDE DEF w, m
  <2>9. DeliveredIsLast'
    <3> SUFFICES ASSUME NEW n \in MessageIDs, parts[n] = 1
                 PROVE  /\ messages[n] # None /\ messages[n].status = "delivered" =>
                              part[n][1] = "delivered" /\ Silent(n)' /\ (ev' # None => ev'.id # n)
                        /\ ev' # None /\ ev'.id = n /\ ev'.status = "delivered" =>
                              part[n][1] = "delivered" /\ Silent(n)'
                        /\ ReportsEnd(n)'
                        /\ sender[n] \in {"new", "submit"} => part[n][1] = "unsent"
      BY <2>1 DEF DeliveredIsLast
    <3>1. /\ messages[n] # None /\ messages[n].status = "delivered" => part[n][1] = "delivered" /\ Silent(n)
          /\ ReportsEnd(n)
          /\ sender[n] \in {"new", "submit"} => part[n][1] = "unsent"
      BY DEF PartsInv, DeliveredIsLast
    <3>2. m = reports[1].id
      BY <2>2 DEF m
    <3>3. ev' # None => ev'.id = m /\ ev'.status = reports[1].type
      BY <2>3, <2>4
    <3>4. /\ Silent(n) => Silent(n)' /\ n # m
          /\ ReportsEnd(n)'
          /\ reports[1].id = n /\ reports[1].type = "delivered" => Silent(n)' /\ part[n][1] = "delivered"
      BY <2>7, <2>8, <3>1
    <3> QED BY <3>1, <3>2, <3>3, <3>4
  <2> QED BY <2>1, <2>6, <2>9 DEF PartsInv, DeliveredKept
<1>6. ASSUME NEW m \in MessageIDs, DeleteMessage(m) PROVE PartsInv' /\ DeliveredKept
  BY <1>6, StoreKeeps DEF DeleteMessage, DeliveredKept
<1>7. CASE Restart
  <2>1. UNCHANGED <<messages, parts, part>> /\ ev' = None
    BY <1>7 DEF Restart
  <2>2. \A n \in MessageIDs : sender'[n] \in {"new", "submit"} => sender[n] \in {"new", "submit"}
    BY <1>7 DEF Restart, FirstIsSending
  <2>3. PICK lost \in 0..Len(reports) : reports' = SubSeq(reports, lost + 1, Len(reports))
    BY <1>7 DEF Restart
  <2>4. /\ Len(reports') = Len(reports) - lost /\ Len(reports) \in Nat /\ lost \in Nat
        /\ \A i \in 1..Len(reports') : i + lost \in 1..Len(reports) /\ reports'[i] = reports[i + lost]
    BY <2>3 DEF Typed
  <2>5. ASSUME NEW n \in MessageIDs
        PROVE  (Silent(n) => Silent(n)') /\ (ReportsEnd(n) => ReportsEnd(n)')
    <3>1. Silent(n) => Silent(n)'
      BY <2>4 DEF Silent
    <3>2. ASSUME ReportsEnd(n) PROVE ReportsEnd(n)'
      <4> SUFFICES ASSUME NEW i \in 1..Len(reports'), reports'[i].id = n, reports'[i].type = "delivered"
                   PROVE  part'[n][1] = "delivered" /\ \A j \in (i + 1)..Len(reports') : reports'[j].id # n
        BY DEF ReportsEnd
      <4>1. part[n][1] = "delivered" /\ \A j \in (i + lost + 1)..Len(reports) : reports[j].id # n
        BY <2>4, <3>2 DEF ReportsEnd
      <4>2. \A j \in (i + 1)..Len(reports') :
               j + lost \in (i + lost + 1)..Len(reports) /\ reports'[j] = reports[j + lost]
        BY <2>4
      <4> QED BY <2>1, <4>1, <4>2
    <3> QED BY <3>1, <3>2
  <2>6. PartsTyped'
    BY <2>1 DEF PartsInv, PartsTyped
  <2>7. DeliveredIsLast'
    BY <2>1, <2>2, <2>5 DEF PartsInv, DeliveredIsLast
  <2> QED BY <2>1, <2>6, <2>7 DEF PartsInv, DeliveredKept
<1>8. ASSUME NEW m \in MessageIDs, NEW p \in 1..parts[m], Report(m, p) PROVE PartsInv' /\ DeliveredKept
  <2>1. UNCHANGED <<messages, sender, parts, ev>>
    BY <1>8 DEF Report
  <2>2. PICK type \in {"sent", "delivered", "failed"} :
          /\ part[m][p] \in {"out", "sent"}
          /\ part' = [part EXCEPT ![m][p] = type]
          /\ reports' = Append(reports, [id |-> m, type |-> type]) \/ UNCHANGED reports
    BY <1>8 DEF Report
  <2>3. PartsTyped'
    BY <2>1, <2>2 DEF PartsInv, PartsTyped
  <2>4. /\ \A n \in MessageIDs : n # m => part'[n] = part[n]
        /\ parts[m] = 1 => p = 1 /\ part'[m][1] = type
    BY <2>2 DEF PartsInv, PartsTyped
  <2>5. \/ UNCHANGED reports
        \/ /\ Len(reports') = Len(reports) + 1 /\ Len(reports) \in Nat
           /\ \A i \in 1..Len(reports) : reports'[i] = reports[i]
           /\ reports'[Len(reports) + 1] = [id |-> m, type |-> type]
    BY <2>2 DEF Typed
  <2>6. ASSUME NEW n \in MessageIDs, n # m
        PROVE  (Silent(n) => Silent(n)') /\ (ReportsEnd(n) => ReportsEnd(n)')
    <3>1. CASE UNCHANGED reports
      BY <2>4, <2>6, <3>1 DEF Silent, ReportsEnd
    <3>2. CASE /\ Len(reports') = Len(reports) + 1 /\ Len(reports) \in Nat
               /\ \A i \in 1..Len(reports) : reports'[i] = reports[i]
               /\ reports'[Len(reports) + 1] = [id |-> m, type |-> type]
      <4>1. \A i \in 1..Len(reports') : i \in 1..Len(reports) \/ i = Len(reports) + 1
        BY <3>2
      <4>3. reports'[Len(reports) + 1].id # n
        BY <2>6, <3>2
      <4>4. Silent(n) => Silent(n)'
        BY <3>2, <4>1, <4>3 DEF Silent
      <4>5. ASSUME ReportsEnd(n) PROVE ReportsEnd(n)'
        <5> SUFFICES ASSUME NEW i \in 1..Len(reports'), reports'[i].id = n, reports'[i].type = "delivered"
                     PROVE  part'[n][1] = "delivered" /\ \A j \in (i + 1)..Len(reports') : reports'[j].id # n
          BY DEF ReportsEnd
        <5>1. i \in 1..Len(reports) /\ reports'[i] = reports[i]
          BY <3>2, <4>1, <4>3
        <5>2. part[n][1] = "delivered" /\ \A j \in (i + 1)..Len(reports) : reports[j].id # n
          BY <4>5, <5>1 DEF ReportsEnd
        <5>3. ASSUME NEW j \in (i + 1)..Len(reports') PROVE reports'[j].id # n
          <6>1. CASE j = Len(reports) + 1
            BY <4>3, <6>1
          <6>2. CASE j # Len(reports) + 1
            BY <3>2, <5>2, <6>2
          <6> QED BY <6>1, <6>2
        <5> QED BY <2>4, <2>6, <5>2, <5>3
      <4> QED BY <4>4, <4>5
    <3> QED BY <2>5, <3>1, <3>2
  <2>7. ASSUME parts[m] = 1 PROVE ReportsEnd(m)'
    <3>1. \A i \in 1..Len(reports) : ~(reports[i].id = m /\ reports[i].type = "delivered")
      BY <2>2, <2>4, <2>7 DEF PartsInv, DeliveredIsLast, ReportsEnd
    <3> QED BY <2>4, <2>5, <2>7, <3>1 DEF ReportsEnd
  <2>8. DeliveredIsLast'
    <3> SUFFICES ASSUME NEW n \in MessageIDs, parts[n] = 1
                 PROVE  /\ messages[n] # None /\ messages[n].status = "delivered" =>
                              part'[n][1] = "delivered" /\ Silent(n)' /\ (ev # None => ev.id # n)
                        /\ ev # None /\ ev.id = n /\ ev.status = "delivered" =>
                              part'[n][1] = "delivered" /\ Silent(n)'
                        /\ ReportsEnd(n)'
                        /\ sender[n] \in {"new", "submit"} => part'[n][1] = "unsent"
      BY <2>1 DEF DeliveredIsLast
    <3>1. CASE n # m
      BY <2>4, <2>6, <3>1 DEF PartsInv, DeliveredIsLast
    <3>2. CASE n = m
      BY <2>2, <2>4, <2>7, <3>2 DEF PartsInv, DeliveredIsLast
    <3> QED BY <3>1, <3>2
  <2> QED BY <2>1, <2>3, <2>8 DEF PartsInv, DeliveredKept
<1>9. ASSUME NEW m \in MessageIDs, Submit(m) PROVE PartsInv' /\ DeliveredKept
  <2>1. UNCHANGED <<messages, parts, reports, ev>> /\ sender[m] = "submit"
    BY <1>9 DEF Submit
  <2>2. \E outcome \in {"sent", "failed"} : sender' = [sender EXCEPT ![m] = outcome]
    BY <1>9 DEF Submit
  <2>3. part' = part \/ part' = [part EXCEPT ![m] = [p \in 1..parts[m] |-> "out"]]
    BY <1>9 DEF Submit
  <2>4. PartsTyped'
    <3>1. CASE part' = part
      BY <2>1, <3>1 DEF PartsInv, PartsTyped
    <3>2. CASE part' = [part EXCEPT ![m] = [p \in 1..parts[m] |-> "out"]]
      <4> DEFINE f == [p \in 1..parts[m] |-> "out"]
      <4>1. f = [p \in 1..parts[m] |-> f[p]]
        OBVIOUS
      <4>2. part' = [part EXCEPT ![m] = f]
        BY <3>2
      <4> HIDE DEF f
      <4>3. /\ DOMAIN part' = MessageIDs /\ part' = [k \in MessageIDs |-> part'[k]]
            /\ \A k \in MessageIDs : part'[k] = IF k = m THEN f ELSE part[k]
        BY <4>2 DEF PartsInv, PartsTyped
      <4>4. \A k \in MessageIDs : part'[k] = [p \in 1..parts[k] |-> part'[k][p]]
        BY <4>1, <4>3 DEF PartsInv, PartsTyped
      <4> QED BY <2>1, <4>3, <4>4 DEF PartsInv, PartsTyped
    <3> QED BY <2>3, <3>1, <3>2
  <2>5. \A n \in MessageIDs : n # m => part'[n] = part[n] /\ sender'[n] = sender[n]
    BY <2>2, <2>3 DEF PartsInv, PartsTyped, FirstIsSending
  <2>6. sender'[m] \notin {"new", "submit"}
    BY <2>2 DEF FirstIsSending
  <2>7. parts[m] = 1 => part[m][1] = "unsent"
    BY <2>1 DEF PartsInv, DeliveredIsLast
  <2>8. \A n \in MessageIDs : n # m => ReportsEnd(n)' = ReportsEnd(n) /\ Silent(n)' = Silent(n)
    BY <2>1, <2>5 DEF Silent, ReportsEnd
  <2>9. parts[m] = 1 => ReportsEnd(m)'
    BY <2>1, <2>7 DEF PartsInv, DeliveredIsLast, ReportsEnd
  <2>10. DeliveredIsLast'
    <3> SUFFICES ASSUME NEW n \in MessageIDs, parts[n] = 1
                 PROVE  /\ messages[n] # None /\ messages[n].status = "delivered" =>
                              part'[n][1] = "delivered" /\ Silent(n)' /\ (ev # None => ev.id # n)
                        /\ ev # None /\ ev.id = n /\ ev.status = "delivered" =>
                              part'[n][1] = "delivered" /\ Silent(n)'
                        /\ ReportsEnd(n)'
                        /\ sender'[n] \in {"new", "submit"} => part'[n][1] = "unsent"
      BY <2>1 DEF DeliveredIsLast
    <3>1. CASE n # m
      BY <2>5, <2>8, <3>1 DEF PartsInv, DeliveredIsLast
    <3>2. CASE n = m
      BY <2>6, <2>7, <2>9, <3>2 DEF PartsInv, DeliveredIsLast
    <3> QED BY <3>1, <3>2
  <2> QED BY <2>1, <2>4, <2>10 DEF PartsInv, DeliveredKept
<1>10. CASE UNCHANGED vars
  BY <1>10, StoreKeeps DEF vars, DeliveredKept
<1> QED
  BY <1>1, <1>2, <1>3, <1>4, <1>5, <1>6, <1>7, <1>8, <1>9, <1>10 DEF Next

(* When SendSMSRoute has returned, the message is shown as sent, delivered *)
(* or failed: if its last write was refused, then because a report or a    *)
(* deletion was written first.                                             *)
THEOREM SendsSettle == Spec => []SendSettles
<1>1. IInv /\ StatusInv => SendSettles
  BY DEF StatusInv, FirstIsSending, SendSettles, Shown
<1> QED BY InitHolds, StepHolds, InitStatus, StepStatus, <1>1, PTL DEF Spec

(* A delivered SMS of one part stays delivered: neither the outcome that   *)
(* SendSMSRoute stores late, nor an earlier report, nor a deletion         *)
(* overwrites the phone's last report.                                     *)
THEOREM DeliveredForEver == Spec => DeliveredIsFinal
<1>1. IInv /\ StatusInv /\ PartsInv /\ [Next]_vars => [DeliveredKept]_vars
  BY StepParts
<1> QED BY InitHolds, StepHolds, InitStatus, StepStatus, InitParts, StepParts, <1>1, PTL
     DEF Spec, DeliveredIsFinal, DeliveredKept
=============================================================================
