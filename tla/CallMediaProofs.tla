-------------------------- MODULE CallMediaProofs ---------------------------
(***************************************************************************)
(* Proofs about CallMedia, the media manager and the SIP legs together,    *)
(* for any set of calls and any number of tasks: a call has one media      *)
(* owner.                                                                  *)
(***************************************************************************)
EXTENDS CallMedia, TLAPS

(* Tasks are records of five fields.                                       *)
Record(r) == [kind |-> r.kind, call |-> r.call, pc |-> r.pc, cancelled |-> r.cancelled, late |-> r.late]
Shape == task = [g \in Gens |-> task[g]] /\ \A g \in Gens : task[g] = Record(task[g])

(* What makes OneMediaOwner inductive: a bridge that has stopped was       *)
(* cancelled, so that it may give the audio up before its leg hears of it. *)
StoppedIsCancelled ==
    \A g \in Gens :
        task[g].kind = "sip" /\ task[g].pc \in {"releasing", "returned"} => task[g].cancelled

IInv == Shape /\ StoppedIsCancelled /\ OneMediaOwner

(* The part of the manager that the invariant speaks of.                   *)
owner == <<activeCall, cancel, generation, task>>

-----------------------------------------------------------------------------
(* The forms of the steps.                                                 *)

(* A step that leaves tasks and manager alone.                             *)
LEMMA OwnerKept == ASSUME IInv, UNCHANGED owner PROVE IInv'
  BY DEF IInv, Shape, StoppedIsCancelled, OneMediaOwner, owner

(* A step that changes tasks only: each is as before, has moved on, was    *)
(* cancelled, or is over.                                                  *)
Continues(r, q) ==
    /\ q = Record(q)
    /\ \/ q.pc = "done"
       \/ /\ q.kind = r.kind /\ q.call = r.call /\ r.pc # "done" /\ (r.cancelled => q.cancelled)
          /\ q.kind = "sip" /\ q.pc \in {"releasing", "returned"} => q.cancelled

(* No task takes over, so the uncancelled one stays the one the manager    *)
(* has.                                                                    *)
LEMMA TasksContinue ==
  ASSUME IInv, UNCHANGED <<activeCall, cancel, generation>>, task' = [g \in Gens |-> task'[g]],
         \A g \in Gens : task'[g] = task[g] \/ Continues(task[g], task'[g])
  PROVE  IInv'
<1>1. Shape'
  BY DEF IInv, Shape, Continues, Record
<1>2. StoppedIsCancelled'
  BY DEF IInv, StoppedIsCancelled, Continues
<1>3. OneMediaOwner'
  BY DEF IInv, OneMediaOwner, Continues
<1> QED BY <1>1, <1>2, <1>3 DEF IInv

(* One task is replaced.                                                   *)
LEMMA TaskContinues ==
  ASSUME IInv, UNCHANGED <<activeCall, cancel, generation>>, NEW g, NEW q, task' = [task EXCEPT ![g] = q],
         g \in Gens => q = task[g] \/ Continues(task[g], q)
  PROVE  IInv'
<1>1. task' = [h \in Gens |-> task'[h]] /\ \A h \in Gens : task'[h] = IF h = g THEN q ELSE task[h]
  BY DEF IInv, Shape
<1> QED BY <1>1, TasksContinue

(* A task moves on.                                                        *)
LEMMA GotoContinues ==
  ASSUME IInv, UNCHANGED <<activeCall, cancel, generation>>, NEW g \in Gens, NEW pc, Goto(g, pc),
         task[g].pc # "done", task[g].kind = "sip" /\ pc \in {"releasing", "returned"} => task[g].cancelled
  PROVE  IInv'
<1> DEFINE r == task[g]
           q == [r EXCEPT !.pc = pc]
<1>1. task' = [task EXCEPT ![g] = q]
  BY DEF Goto
<1>2. r = Record(r)
  BY DEF IInv, Shape
<1>3. /\ q = Record(q) /\ q.pc = pc
      /\ q.kind = r.kind /\ q.call = r.call /\ q.cancelled = r.cancelled
  BY <1>2 DEF Record
<1>4. Continues(r, q)
  BY <1>3 DEF Continues
<1> HIDE DEF q
<1> QED BY <1>1, <1>4, TaskContinues

(* The same, and it is cancelled.                                          *)
LEMMA FailsContinues ==
  ASSUME IInv, UNCHANGED <<activeCall, cancel, generation>>, NEW g \in Gens, NEW pc, Fails(g, pc),
         task[g].pc # "done"
  PROVE  IInv'
<1>0. PICK t : t = TRUE
  OBVIOUS
<1> DEFINE r == task[g]
           p == [r EXCEPT !.pc = pc]
           q == [p EXCEPT !.cancelled = t]
<1>1. task' = [task EXCEPT ![g] = q]
  BY <1>0, Zenon DEF Fails
<1>2. r = Record(r)
  BY DEF IInv, Shape
<1>3. p = Record(p) /\ p.kind = r.kind /\ p.call = r.call
  BY <1>2 DEF Record
<1> HIDE DEF p
<1>4. q = Record(q) /\ q.kind = p.kind /\ q.call = p.call /\ q.cancelled = t
  BY <1>3 DEF Record
<1> HIDE DEF q
<1>5. Continues(r, q)
  BY <1>0, <1>3, <1>4 DEF Continues
<1> QED BY <1>1, <1>5, TaskContinues

(* Calling a cancel function, of a task or of none.                        *)
LEMMA CancelledIs ==
  ASSUME Shape, NEW x
  PROVE  LET d == Cancelled(task, x)
         IN  /\ d = [g \in Gens |-> d[g]]
             /\ \A g \in Gens :
                   /\ d[g] = Record(d[g]) /\ d[g].kind = task[g].kind /\ d[g].call = task[g].call
                   /\ d[g].pc = task[g].pc /\ (task[g].cancelled => d[g].cancelled)
                   /\ g = x => d[g].cancelled
                   /\ g # x => d[g] = task[g]
<1> DEFINE d == Cancelled(task, x)
<1>1. CASE x = 0
  <2>1. d = task /\ x \notin Gens
    BY <1>1, MediaAssumption DEF Cancelled, Gens
  <2> QED BY <2>1 DEF Shape
<1>2. CASE x # 0
  <2>1. PICK t : t = TRUE
    OBVIOUS
  <2> DEFINE q == [task[x] EXCEPT !.cancelled = t]
  <2>2. d = [task EXCEPT ![x] = q]
    BY <1>2, <2>1, Zenon DEF Cancelled
  <2>3. ASSUME x \in Gens
        PROVE  /\ q = Record(q) /\ q.pc = task[x].pc /\ q.kind = task[x].kind /\ q.call = task[x].call
               /\ q.cancelled = t
    <3>1. task[x] = Record(task[x])
      BY <2>3 DEF Shape
    <3> QED BY <3>1 DEF Record
  <2> HIDE DEF q, d
  <2>4. d = [g \in Gens |-> d[g]] /\ \A g \in Gens : d[g] = IF g = x THEN q ELSE task[g]
    BY <2>2 DEF Shape
  <2>5. \A g \in Gens :
          /\ d[g] = Record(d[g]) /\ d[g].kind = task[g].kind /\ d[g].call = task[g].call
          /\ d[g].pc = task[g].pc /\ (task[g].cancelled => d[g].cancelled)
          /\ g = x => d[g].cancelled
          /\ g # x => d[g] = task[g]
    BY <2>1, <2>3, <2>4 DEF Shape
  <2> QED BY <2>4, <2>5 DEF d
<1> QED BY <1>1, <1>2

(* A cancel function is called.                                            *)
LEMMA CancelContinues ==
  ASSUME IInv, UNCHANGED <<activeCall, cancel, generation>>, NEW x, task' = Cancelled(task, x)
  PROVE  IInv'
<1> DEFINE d == Cancelled(task, x)
<1>1. /\ d = [g \in Gens |-> d[g]]
      /\ \A g \in Gens :
            /\ d[g] = Record(d[g]) /\ d[g].kind = task[g].kind /\ d[g].call = task[g].call
            /\ d[g].pc = task[g].pc /\ (task[g].cancelled => d[g].cancelled)
  BY CancelledIs DEF IInv
<1>2. task' = d
  OBVIOUS
<1> HIDE DEF d
<1>3. \A g \in Gens : task'[g] = task[g] \/ Continues(task[g], task'[g])
  BY <1>1, <1>2 DEF IInv, StoppedIsCancelled, Continues
<1> QED BY <1>1, <1>2, <1>3, TasksContinue

(* A task takes the audio over: the task that had it is cancelled.         *)
LEMMA TakeOverCancels ==
  ASSUME IInv, NEW kind, NEW c, NEW pc \in {"waiting", "opening"}, NEW stopped,
         TakeOver(kind, c, pc, stopped)
  PROVE  IInv'
<1> DEFINE d == Cancelled(task, cancel)
           n == [kind |-> kind, call |-> c, pc |-> pc, cancelled |-> stopped,
                 late |-> kind = "voicemail" /\ Ended(c)]
           h == generation'
<1>1. h \in Gens
  <2>1. h \in Free
    BY Zenon DEF TakeOver
  <2> QED BY <2>1 DEF Free
<1>2. task' = [d EXCEPT ![h] = n] /\ cancel' = h /\ activeCall' = c
  BY Zenon DEF TakeOver
<1>3. n = Record(n) /\ n.pc = pc /\ n.call = c
  BY Zenon DEF Record
<1>4. /\ d = [g \in Gens |-> d[g]]
      /\ \A g \in Gens :
            /\ d[g] = Record(d[g]) /\ d[g].kind = task[g].kind /\ d[g].call = task[g].call
            /\ d[g].pc = task[g].pc /\ (task[g].cancelled => d[g].cancelled)
            /\ g = cancel => d[g].cancelled
  BY CancelledIs DEF IInv
<1> HIDE DEF d, n, h
<1>5. task' = [g \in Gens |-> task'[g]] /\ \A g \in Gens : task'[g] = IF g = h THEN n ELSE d[g]
  BY <1>1, <1>2, <1>4
<1>6. Shape'
  BY <1>3, <1>4, <1>5 DEF Shape
<1>7. StoppedIsCancelled'
  BY <1>3, <1>4, <1>5 DEF IInv, StoppedIsCancelled
<1>8. \A g \in Gens : d[g].pc = "done" \/ d[g].cancelled
  BY <1>4 DEF IInv, OneMediaOwner
<1>9. OneMediaOwner'
  BY <1>2, <1>3, <1>5, <1>8 DEF OneMediaOwner, h
<1> QED BY <1>6, <1>7, <1>9 DEF IInv

-----------------------------------------------------------------------------
(* The steps of the tasks.                                                 *)

(* Opening the audio succeeds or fails; a bridge cancels its context then. *)
LEMMA OpenAudioKeeps ==
  ASSUME IInv, NEW g \in Gens, NEW opened, NEW failed, NEW stopped, OpenAudio(g, opened, failed, stopped),
         opened \notin {"done", "releasing", "returned"}, failed # "done",
         task[g].kind # "sip" \/ stopped
  PROVE  IInv'
<1>1. task[g].pc = "opening" /\ UNCHANGED <<activeCall, cancel, generation>>
  BY DEF OpenAudio, UnchangedButTask
<1>2. CASE Goto(g, opened)
  BY <1>1, <1>2, GotoContinues
<1>3. CASE task' = [task EXCEPT ![g].pc = failed, ![g].cancelled = @ \/ stopped]
  <2> DEFINE r == task[g]
             p == [r EXCEPT !.pc = failed]
  <2>1. PICK t : t = (r.cancelled \/ stopped)
    OBVIOUS
  <2> DEFINE q == [p EXCEPT !.cancelled = t]
  <2>2. r = Record(r)
    BY DEF IInv, Shape
  <2>3. p = Record(p) /\ p.kind = r.kind /\ p.call = r.call /\ p.cancelled = r.cancelled
    BY <2>2 DEF Record
  <2>4. task' = [task EXCEPT ![g] = q]
    BY <1>3, <2>1, <2>3, Zenon
  <2> HIDE DEF p
  <2>5. q = Record(q) /\ q.kind = p.kind /\ q.call = p.call /\ q.cancelled = t
    BY <2>3 DEF Record
  <2> HIDE DEF q
  <2>6. Continues(r, q)
    BY <1>1, <2>1, <2>3, <2>5 DEF Continues
  <2> QED BY <1>1, <2>4, <2>6, TaskContinues
<1> QED BY <1>2, <1>3 DEF OpenAudio

(* A task is forgotten.                                                    *)
LEMMA NoTaskKeeps ==
  ASSUME IInv, UNCHANGED <<activeCall, cancel, generation>>, NEW g, task' = [task EXCEPT ![g] = NoTask]
  PROVE  IInv'
<1>1. NoTask = Record(NoTask) /\ NoTask.pc = "done"
  BY Zenon DEF NoTask, Record
<1> QED BY <1>1, TaskContinues DEF Continues

(* A task gives the audio up: it is over, or a bridge that was cancelled.  *)
LEMMA ReleaseKeeps == ASSUME IInv, NEW g \in Gens, Release(g) PROVE IInv'
<1> DEFINE q == IF task[g].kind = "sip" THEN [task[g] EXCEPT !.pc = "returned"] ELSE NoTask
<1>1. task[g].pc = "releasing" /\ task' = [task EXCEPT ![g] = q]
  BY DEF Release, Finish
<1>2. q = Record(q) /\ (q.pc = "done" \/ (q.kind = "sip" /\ q.cancelled /\ q.call = task[g].call))
  <2>1. task[g] = Record(task[g])
    BY DEF IInv, Shape
  <2>2. CASE task[g].kind = "sip"
    <3>1. q = [task[g] EXCEPT !.pc = "returned"]
      BY <2>2
    <3>2. task[g].cancelled
      BY <1>1, <2>2 DEF IInv, StoppedIsCancelled
    <3> HIDE DEF q
    <3>3. q = Record(q) /\ q.kind = task[g].kind /\ q.call = task[g].call /\ q.cancelled = task[g].cancelled
      BY <2>1, <3>1 DEF Record
    <3> QED BY <2>2, <3>2, <3>3
  <2>3. CASE task[g].kind # "sip"
    BY <2>3, Zenon DEF NoTask, Record
  <2> QED BY <2>2, <2>3
<1> HIDE DEF q
<1>3. task' = [h \in Gens |-> task'[h]] /\ \A h \in Gens : task'[h] = IF h = g THEN q ELSE task[h]
  BY <1>1 DEF IInv, Shape
<1>4. CASE activeCall = task[g].call /\ generation = g
  <2>1. Shape'
    BY <1>2, <1>3 DEF IInv, Shape
  <2>2. StoppedIsCancelled'
    BY <1>2, <1>3 DEF IInv, StoppedIsCancelled
  <2>3. \A h \in Gens : h # g => task[h].pc = "done" \/ task[h].cancelled
    BY <1>4 DEF IInv, OneMediaOwner
  <2>4. OneMediaOwner'
    BY <1>2, <1>3, <2>3 DEF OneMediaOwner
  <2> QED BY <2>1, <2>2, <2>4 DEF IInv
<1>5. CASE ~(activeCall = task[g].call /\ generation = g)
  <2>1. UNCHANGED <<activeCall, cancel, generation>>
    BY <1>5 DEF Release
  <2>2. q.pc = "done" \/ q.kind = task[g].kind
    <3>1. CASE task[g].kind = "sip"
      BY <1>2, <3>1
    <3>2. CASE task[g].kind # "sip"
      BY <3>2 DEF q, NoTask
    <3> QED BY <3>1, <3>2
  <2>3. Continues(task[g], q)
    BY <1>1, <1>2, <2>2 DEF Continues
  <2> QED BY <1>1, <2>1, <2>3, TaskContinues
<1> QED BY <1>4, <1>5

(* The steps of a task: it opens, closes, waits or gives up.               *)
LEMMA TaskStepsKeep == ASSUME IInv, NEW g \in Gens, TaskSteps(g) \/ PortFails(g) \/ VoicemailRecord(g) PROVE IInv'
<1>1. CASE WaitForActiveCall(g)
  BY <1>1, GotoContinues DEF WaitForActiveCall, UnchangedButTask
<1>2. CASE WebOpen(g)
  BY <1>2, OpenAudioKeeps DEF WebOpen
<1>3. CASE WebForget(g)
  BY <1>3, GotoContinues DEF WebForget
<1>4. CASE Release(g)
  BY <1>4, ReleaseKeeps
<1>5. CASE VoicemailOpen(g)
  BY <1>5, OpenAudioKeeps DEF VoicemailOpen
<1>6. CASE VoicemailClose(g)
  BY <1>6, GotoContinues DEF VoicemailClose
<1>7. CASE SipOpen(g)
  BY <1>7, OpenAudioKeeps DEF SipOpen
<1>8. CASE WebStop(g)
  BY <1>8, FailsContinues DEF WebStop, UnchangedButTask
<1>9. CASE VoicemailStop(g)
  BY <1>9, GotoContinues DEF VoicemailStop, UnchangedButTask
<1>10. CASE SipStop(g)
  BY <1>10, FailsContinues DEF SipStop, UnchangedButTask
<1>11. CASE VoicemailRecord(g)
  BY <1>11, GotoContinues DEF VoicemailRecord
<1> QED
  BY <1>1, <1>2, <1>3, <1>4, <1>5, <1>6, <1>7, <1>8, <1>9, <1>10, <1>11 DEF TaskSteps, PortFails

(* The steps of the manager and of its tasks.                              *)
LEMMA MediaStepKeeps == ASSUME IInv, MediaNext PROVE IInv'
<1>1. ASSUME NEW c \in Calls, Ensure(c) PROVE IInv'
  <2>1. CASE UNCHANGED <<activeCall, cancel, generation, webSessions, task>>
    BY <2>1, OwnerKept DEF owner
  <2>2. CASE TakeOver("web", c, "waiting", FALSE)
    BY <2>2, TakeOverCancels
  <2> QED BY <1>1, <2>1, <2>2 DEF Ensure
<1>2. ASSUME NEW c \in Calls, VoicemailBegin(c) PROVE IInv'
  <2>1. CASE UNCHANGED <<activeCall, cancel, generation, task>>
    BY <2>1, OwnerKept DEF owner
  <2>2. CASE TakeOver("voicemail", c, "opening", FALSE)
    BY <2>2, TakeOverCancels
  <2> QED BY <1>2, <2>1, <2>2 DEF VoicemailBegin
<1>3. ASSUME NEW c \in Calls, EndCall(c) PROVE IInv'
  BY <1>3, CancelContinues DEF EndCall, EndRead, EndCancel
<1> QED BY <1>1, <1>2, <1>3, TaskStepsKeep DEF MediaNext

(* The steps of the SIP legs.                                              *)
LEMMA LegStepKeeps == ASSUME IInv, LegNext PROVE IInv'
<1> SUFFICES ASSUME NEW c \in Calls,
                    \/ InviteAnswered(c) \/ InviteRefused(c) \/ InviteFails(c) \/ CancelIfClaimedElsewhere(c)
                    \/ LegSteps(c) \/ ClientHangsUp(c) \/ CallEnded(c)
             PROVE  IInv'
  BY DEF LegNext
<1>1. CASE InviteAnswered(c) \/ InviteRefused(c) \/ InviteFails(c)
  BY <1>1, OwnerKept DEF InviteAnswered, InviteRefused, InviteFails, mediaVars, MediaRest, owner
<1>2. CASE CancelIfClaimedElsewhere(c) \/ ClientHangsUp(c)
  BY <1>2, CancelContinues DEF CancelIfClaimedElsewhere, ClientHangsUp
<1>3. CASE CallEnded(c)
  <2>1. CASE task' = Cancelled(task, leg[c].task)
    BY <1>3, <2>1, CancelContinues DEF CallEnded
  <2>2. CASE UNCHANGED task
    BY <1>3, <2>2, OwnerKept DEF CallEnded, owner
  <2> QED BY <1>3, <2>1, <2>2 DEF CallEnded
<1>4. CASE AnswerFrom(c) \/ SetLeg(c) \/ WaitForActive(c) \/ AcceptDialog(c) \/ BridgeCheck(c) \/ LegFinish(c)
  <2>1. UNCHANGED mediaVars \/ UNCHANGED MediaRest
    BY <1>4 DEF AnswerFrom, SetLeg, WaitForActive, AcceptDialog, BridgeCheck, LegFinish
  <2> QED BY <2>1, OwnerKept DEF mediaVars, MediaRest, owner
<1>5. CASE BridgeStart(c)
  <2>1. CASE UNCHANGED <<activeCall, cancel, generation, task>>
    BY <2>1, OwnerKept DEF owner
  <2>2. CASE TakeOver("sip", c, "opening", leg[c].cancelled)
    BY <2>2, TakeOverCancels
  <2> QED BY <1>5, <2>1, <2>2 DEF BridgeStart
<1>6. CASE BridgeReturns(c)
  BY <1>6, NoTaskKeeps DEF BridgeReturns
<1> QED BY <1>1, <1>2, <1>3, <1>4, <1>5, <1>6 DEF LegSteps

(* The steps of the service, which end calls or change their owner.        *)
LEMMA ServiceStepKeeps == ASSUME IInv, ServiceNext PROVE IInv'
<1>1. ASSUME NEW c, Incoming(c) \/ Dial(c) \/ DialSip(c) \/ Answer(c) \/ Offer(c) \/ Hold(c) \/ Resume(c)
      PROVE  IInv'
  BY <1>1, OwnerKept DEF Incoming, Dial, DialSip, Answer, Offer, Hold, Resume, ButCall, ButAsked, mediaVars, owner
<1>2. ASSUME NEW c, ActiveReport(c) \/ TransferToVoicemail(c) PROVE IInv'
  <2>1. UNCHANGED <<activeCall, cancel, generation>>
    BY <1>2 DEF ActiveReport, TransferToVoicemail
  <2>2. CASE StartVoicemail(c)
    BY <2>1, <2>2, CancelContinues DEF StartVoicemail
  <2>3. CASE UNCHANGED <<task, voicemails>>
    BY <2>1, <2>3, OwnerKept DEF owner
  <2> QED BY <1>2, <2>2, <2>3 DEF ActiveReport, TransferToVoicemail
<1>3. ASSUME NEW c, End(c) \/ EndAgain(c) PROVE IInv'
  BY <1>3, OwnerKept DEF End, EndAgain, MediaRest, owner
<1>4. ASSUME NEW c, StartRecording(c) \/ StopRecording(c) PROVE IInv'
  BY <1>4, OwnerKept DEF StartRecording, StopRecording, owner
<1> QED BY <1>1, <1>2, <1>3, <1>4 DEF ServiceNext

-----------------------------------------------------------------------------
(* Initially there is no task.                                             *)
LEMMA InitHolds == Init => IInv
<1> SUFFICES ASSUME Init PROVE IInv
  OBVIOUS
<1>1. task = [g \in Gens |-> NoTask]
  BY DEF Init, MediaInit
<1>2. NoTask = Record(NoTask) /\ NoTask.pc = "done"
  BY Zenon DEF NoTask, Record
<1> QED BY <1>1, <1>2 DEF IInv, Shape, StoppedIsCancelled, OneMediaOwner

(* Every step of the composition keeps the invariant.                      *)
LEMMA StepHolds == IInv /\ [Next]_vars => IInv'
<1> SUFFICES ASSUME IInv, [Next]_vars PROVE IInv'
  OBVIOUS
<1>1. CASE UNCHANGED vars
  BY <1>1, OwnerKept DEF vars, mediaVars, owner
<1> QED BY <1>1, ServiceStepKeeps, MediaStepKeeps, LegStepKeeps DEF Next

(***************************************************************************)
(* A call has exactly one media owner: of all the web sessions, voicemails *)
(* and SIP bridges that ever began, whatever order they began, were        *)
(* cancelled, failed and cleaned up in, the only one that is not over or   *)
(* cancelled is the one the manager has as its generation, its cancel      *)
(* function and its activeCall.                                            *)
(***************************************************************************)
THEOREM MediaOwnerIsUnique == Spec => []OneMediaOwner
<1>1. IInv => OneMediaOwner
  BY DEF IInv
<1> QED BY <1>1, InitHolds, StepHolds, PTL DEF Spec
=============================================================================
