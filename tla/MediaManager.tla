---------------------------- MODULE MediaManager ----------------------------
(***************************************************************************)
(* media.Manager: who owns the audio of a call. A task is a goroutine that *)
(* holds, or is about to hold, the phone's audio port: a web session       *)
(* (callAudioSession.run), a voicemail (runVoicemail) or a SIP bridge      *)
(* (BridgePCM). The code numbers tasks by Manager.generation and compares  *)
(* the numbers for equality only; here a task that begins takes a number   *)
(* that no goroutine refers to any more. The steps of this module are the  *)
(* critical sections of Manager.mu and the blocking calls between them.    *)
(*                                                                         *)
(* The call records are shared with app.Service; CallMedia.tla has the     *)
(* operations that write them.                                             *)
(***************************************************************************)
EXTENDS Integers

CONSTANTS
    Calls,      \* call ids
    None,
    MaxTasks,   \* bound on the tasks that exist at a time
    MaxAsked    \* bound on goroutines that are about to call ensureWebSession

ASSUME MediaAssumption ==
    /\ None \notin Calls
    /\ MaxTasks \in Nat \ {0} /\ MaxAsked \in Nat \ {0}

VARIABLES
    call,         \* the stored records: state, owner and held
    activeCall, cancel, generation,  \* of Manager; cancel is the task it cancels, or 0
    webSessions,  \* call -> its task, or 0
    task,         \* number -> kind, call, pc, cancelled; late: a voicemail of an ended call
    asked,        \* call -> goroutines about to call ensureWebSession
    voicemails,   \* calls whose runVoicemail goroutine has not begun
    recorder,     \* Manager.recorder: its call; late: it began after the end
    ending        \* call -> where its EndCall is, and the cancel function it has read

mediaVars == <<activeCall, cancel, generation, webSessions, task, asked, voicemails,
               recorder, ending>>

Ended(c) == call[c].state = "ended"
Live(c) == call[c].state \in {"incoming", "dialing", "alerting", "active"}

NoTask == [kind |-> "none", call |-> None, pc |-> "done", cancelled |-> TRUE, late |-> FALSE]
Gens == 1..MaxTasks

MediaInit ==
    /\ activeCall = None /\ cancel = 0 /\ generation = 0
    /\ webSessions = [c \in Calls |-> 0] /\ task = [g \in Gens |-> NoTask]
    /\ asked = [c \in Calls |-> 0] /\ voicemails = {}
    /\ recorder = None /\ ending = [c \in Calls |-> [pc |-> "no", cancel |-> 0]]

(* Calling the cancel function of task g; 0 stands for nil.                *)
Cancelled(tasks, g) == IF g = 0 THEN tasks ELSE [tasks EXCEPT ![g].cancelled = TRUE]

(* The critical section by which a task takes the audio over: it cancels   *)
(* the task that has it and becomes the current generation.                *)
Free == {g \in Gens : task[g].pc = "done" /\ \A c \in Calls : ending[c].cancel # g}

TakeOverKeeps(kind, c, pc, stopped) ==  \* mutant: the previous task is not cancelled
    /\ Free # {} /\ generation' = CHOOSE g \in Free : TRUE
    /\ task' = [task EXCEPT ![generation'] =
                   [kind |-> kind, call |-> c, pc |-> pc, cancelled |-> stopped, late |-> kind = "voicemail" /\ Ended(c)]]
    /\ cancel' = generation' /\ activeCall' = c

TakeOver(kind, c, pc, stopped) ==
    /\ Free # {} /\ generation' = CHOOSE g \in Free : TRUE
    /\ task' = [Cancelled(task, cancel) EXCEPT ![generation'] =
                   [kind |-> kind, call |-> c, pc |-> pc, cancelled |-> stopped, late |-> kind = "voicemail" /\ Ended(c)]]
    /\ cancel' = generation' /\ activeCall' = c

Busy(c) == activeCall \notin {None, c}

Goto(g, pc) == task' = [task EXCEPT ![g].pc = pc]
Fails(g, pc) == task' = [task EXCEPT ![g].pc = pc, ![g].cancelled = TRUE]

-----------------------------------------------------------------------------
(* Web sessions. Ensure is ensureWebSession up to waitReady: it finds the  *)
(* session of the call, or is refused, or starts one. The callers that     *)
(* wait in waitReady change nothing; they return when the session is Ready.*)
Ensure(c) ==
    /\ asked[c] > 0 /\ asked' = [asked EXCEPT ![c] = @ - 1]
    /\ \/ /\ webSessions[c] # 0 \/ Busy(c)
          /\ UNCHANGED <<activeCall, cancel, generation, webSessions, task>>
       \/ /\ webSessions[c] = 0 /\ ~Busy(c)
          /\ TakeOver("web", c, "waiting", FALSE)
          /\ webSessions' = [webSessions EXCEPT ![c] = generation']
    /\ UNCHANGED <<call, voicemails, recorder, ending>>

(* `ready' is closed, by run or by failStart.                              *)
Ready(g) == task[g].pc \notin {"waiting", "opening"}

UnchangedButTask == UNCHANGED <<call, activeCall, cancel, generation, webSessions, asked,
                                voicemails, recorder, ending>>

(* waitForActiveCall looks at the record, then at the context.             *)
WaitForActiveCallOnly(g) ==  \* mutant: the end of the call is not looked for
    /\ task[g].kind = "web" /\ task[g].pc = "waiting"
    /\ call[task[g].call].state = "active" /\ Goto(g, "opening")
    /\ UnchangedButTask

WaitForActiveCall(g) ==
    /\ task[g].kind = "web" /\ task[g].pc = "waiting"
    /\ \/ Ended(task[g].call) /\ Goto(g, "stopping")
       \/ call[task[g].call].state = "active" /\ Goto(g, "opening")
       \/ Live(task[g].call) /\ call[task[g].call].state # "active" /\ task[g].cancelled /\ Goto(g, "stopping")
    /\ UnchangedButTask

(* Selecting the route, EnableAudio and OpenAudio; they can fail, and the  *)
(* phone refuses to open the audio when it has no call. BridgePCM cancels  *)
(* its context when they fail.                                             *)
OpenAudio(g, opened, failed, stopped) ==
    /\ task[g].pc = "opening"
    /\ \/ task' = [task EXCEPT ![g].pc = failed, ![g].cancelled = @ \/ stopped]
       \/ (\E c \in Calls : call[c].state = "active") /\ Goto(g, opened)
    /\ UnchangedButTask

WebOpen(g) == task[g].kind = "web" /\ OpenAudio(g, "running", "stopping", FALSE)

(* run ends when its context is cancelled or the port fails.               *)
WebStop(g) ==
    /\ task[g].kind = "web" /\ task[g].pc = "running" /\ Fails(g, "stopping")
    /\ UnchangedButTask

(* The deferred function of run, in two critical sections.                 *)
WebForget(g) ==
    /\ task[g].kind = "web" /\ task[g].pc = "stopping"
    /\ webSessions' = [c \in Calls |-> IF webSessions[c] = g THEN 0 ELSE webSessions[c]]
    /\ Goto(g, "releasing")
    /\ UNCHANGED <<call, activeCall, cancel, generation, asked, voicemails, recorder, ending>>

(* BridgePCM returns to its leg; the other goroutines end.                 *)
Finish(g) ==
    task' = [task EXCEPT ![g] = IF task[g].kind = "sip" THEN [@ EXCEPT !.pc = "returned"] ELSE NoTask]

ReleaseForgets(g) ==  \* mutant: the call stays the active one
    /\ task[g].pc = "releasing" /\ Finish(g)
    /\ cancel' = IF activeCall = task[g].call /\ generation = g THEN 0 ELSE cancel
    /\ UNCHANGED <<call, activeCall, generation, webSessions, asked, voicemails, recorder, ending>>

Release(g) ==
    /\ task[g].pc = "releasing" /\ Finish(g)
    /\ IF activeCall = task[g].call /\ generation = g
         THEN activeCall' = None /\ cancel' = 0 ELSE UNCHANGED <<activeCall, cancel>>
    /\ UNCHANGED <<call, generation, webSessions, asked, voicemails, recorder, ending>>

-----------------------------------------------------------------------------
(* Voicemail. StartVoicemail stops the web session of the call and starts  *)
(* the goroutine; its wait of at most two seconds for the session is part  *)
(* of the delay before VoicemailBegin. One goroutine per call is pending   *)
(* at a time.                                                              *)
StartVoicemail(c) ==
    /\ c \notin voicemails
    /\ task' = Cancelled(task, webSessions[c])
    /\ voicemails' = voicemails \union {c}

VoicemailBegin(c) ==
    /\ c \in voicemails /\ voicemails' = voicemails \ {c}
    /\ \/ TakeOver("voicemail", c, "opening", FALSE)
       \/ UNCHANGED <<activeCall, cancel, generation, task>>  \* selectCallRoute fails
    /\ UNCHANGED <<call, webSessions, asked, recorder, ending>>

VoicemailOpen(g) == task[g].kind = "voicemail" /\ OpenAudio(g, "greeting", "stopping", FALSE)

(* startRecording, without the disk's fill level.                          *)
StartsRecording(c) ==
    /\ activeCall = c /\ recorder = None
    /\ recorder' = [call |-> c, late |-> Ended(c)]

(* The greeting has been played: recording starts or is refused.           *)
VoicemailRecord(g) ==
    /\ task[g].kind = "voicemail" /\ task[g].pc = "greeting"
    /\ \/ StartsRecording(task[g].call) /\ Goto(g, "recording")
       \/ UNCHANGED recorder /\ Goto(g, "stopping")
    /\ UNCHANGED <<call, activeCall, cancel, generation, webSessions, asked, voicemails, ending>>

(* The context is cancelled or the port fails.                             *)
VoicemailStop(g) ==
    /\ task[g].kind = "voicemail" /\ task[g].pc \in {"greeting", "recording"}
    /\ Goto(g, "stopping")
    /\ UnchangedButTask

(* StopRecording takes the recorder of the call, if it is there.           *)
StopsRecording(c) ==
    recorder' = IF recorder # None /\ recorder.call = c THEN None ELSE recorder

VoicemailClose(g) ==
    /\ task[g].kind = "voicemail" /\ task[g].pc = "stopping"
    /\ Goto(g, "releasing") /\ StopsRecording(task[g].call)
    /\ UNCHANGED <<call, activeCall, cancel, generation, webSessions, asked, voicemails, ending>>

-----------------------------------------------------------------------------
(* SIP bridges. BridgePCM has read the record (SipLegs.tla) and takes the  *)
(* audio over; a context that is cancelled already gives a cancelled task. *)
SipOpen(g) == task[g].kind = "sip" /\ OpenAudio(g, "running", "releasing", TRUE)

SipStop(g) ==
    /\ task[g].kind = "sip" /\ task[g].pc = "running" /\ Fails(g, "releasing")
    /\ UnchangedButTask

-----------------------------------------------------------------------------
(* The recorder, as users work it.                                         *)
StartRecording(c) ==
    /\ StartsRecording(c)
    /\ UNCHANGED <<call, activeCall, cancel, generation, webSessions, task, asked, voicemails, ending>>

StopRecording(c) ==
    /\ recorder # None /\ recorder.call = c /\ StopsRecording(c)
    /\ UNCHANGED <<call, activeCall, cancel, generation, webSessions, task, asked, voicemails, ending>>

-----------------------------------------------------------------------------
(* EndCall, started by the notification of the end: it stops the web       *)
(* session, reads the cancel function and stops the recorder; later it     *)
(* calls the function it has read.                                         *)
EndAt(c, pc, g) == ending' = [ending EXCEPT ![c] = [pc |-> pc, cancel |-> g]]

EndReadKeeps(c) ==  \* mutant: the recorder is left running
    /\ ending[c].pc = "notified" /\ EndAt(c, "read", cancel)
    /\ task' = Cancelled(task, webSessions[c])
    /\ UNCHANGED <<call, activeCall, cancel, generation, webSessions, asked, voicemails, recorder>>

EndRead(c) ==
    /\ ending[c].pc = "notified" /\ EndAt(c, "read", cancel)
    /\ task' = Cancelled(task, webSessions[c]) /\ StopsRecording(c)
    /\ UNCHANGED <<call, activeCall, cancel, generation, webSessions, asked, voicemails>>

EndCancelNone(c) ==  \* mutant: the function is read and not called
    /\ ending[c].pc = "read" /\ EndAt(c, "no", 0)
    /\ UNCHANGED <<call, activeCall, cancel, generation, webSessions, task, asked, voicemails, recorder>>

EndCancel(c) ==
    /\ ending[c].pc = "read" /\ EndAt(c, "no", 0)
    /\ task' = Cancelled(task, ending[c].cancel)
    /\ UNCHANGED <<call, activeCall, cancel, generation, webSessions, asked, voicemails, recorder>>

EndCall(c) == EndRead(c) \/ EndCancel(c)

(* Each goroutine of the manager goes on; ports fail and users act freely. *)
TaskSteps(g) ==
    \/ WaitForActiveCall(g) \/ WebOpen(g) \/ WebForget(g) \/ Release(g)
    \/ VoicemailOpen(g) \/ VoicemailClose(g) \/ SipOpen(g)
    \/ task[g].cancelled /\ (WebStop(g) \/ VoicemailStop(g) \/ SipStop(g))

PortFails(g) == ~task[g].cancelled /\ (WebStop(g) \/ VoicemailStop(g) \/ SipStop(g))

MediaNext ==
    \/ \E c \in Calls : Ensure(c) \/ VoicemailBegin(c) \/ EndCall(c)
    \/ \E g \in Gens : TaskSteps(g) \/ PortFails(g) \/ VoicemailRecord(g)

MediaFairness ==
    /\ \A c \in Calls : WF_mediaVars(Ensure(c)) /\ WF_mediaVars(VoicemailBegin(c)) /\ WF_mediaVars(EndCall(c))
    /\ \A g \in Gens : WF_mediaVars(TaskSteps(g)) /\ WF_mediaVars(VoicemailRecord(g))
=============================================================================
