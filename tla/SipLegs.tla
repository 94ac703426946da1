------------------------------ MODULE SipLegs -------------------------------
(***************************************************************************)
(* The SIP legs of calls (sipgateway.Gateway): handleDialog for a call     *)
(* that a SIP client dials, originateIncoming for a cellular call that is  *)
(* offered to the SIP client, and the observer CallEnded. The leg and the  *)
(* audio bridge it runs (MediaManager.tla) share a cancel function.        *)
(***************************************************************************)
EXTENDS MediaManager

VARIABLES
    leg   \* call -> direction, pc, task of its bridge, cancelled, registered in `legs',
          \* and whether CallEnded is still to come

NoLeg == [dir |-> "none", pc |-> "none", task |-> 0, cancelled |-> FALSE, set |-> FALSE, ended |-> FALSE]

LegInit == leg = [c \in Calls |-> NoLeg]

LegGoto(c, pc) == leg' = [leg EXCEPT ![c].pc = pc]

(* The end of a handler: clearLeg and, for originateIncoming, the deferred *)
(* cancel.                                                                 *)
OverLeg(c) == [NoLeg EXCEPT !.pc = "done", !.ended = leg[c].ended]
LegDone(c) == leg' = [leg EXCEPT ![c] = OverLeg(c)]

Claimed(c) == call[c].owner \notin {"", "sip"}

(* Service.Hangup ends the record and notifies the observers CallEnded of  *)
(* this module and of the media manager. Nothing looks at the owner of an  *)
(* ended call, and it is forgotten here.                                   *)
Hangup(c, legs) ==
    /\ Live(c)
    /\ call' = [call EXCEPT ![c] = [state |-> "ended", owner |-> "", held |-> FALSE]]
    /\ ending' = [ending EXCEPT ![c].pc = "notified"]
    /\ leg' = [legs EXCEPT ![c].ended = TRUE]

MediaRest == <<activeCall, cancel, generation, webSessions, task, asked, voicemails, recorder>>

-----------------------------------------------------------------------------
(* originateIncoming: the INVITE is answered, refused by the user, or      *)
(* fails; a refusal hangs the cellular call up.                            *)
InviteAnswered(c) ==
    /\ leg[c].pc = "inviting"
    /\ leg' = [leg EXCEPT ![c].pc = "answering", ![c].set = TRUE]
    /\ UNCHANGED <<call, mediaVars>>

InviteRefused(c) ==
    /\ leg[c].pc = "inviting" /\ Live(c)
    /\ Hangup(c, [leg EXCEPT ![c] = OverLeg(c)])
    /\ UNCHANGED MediaRest

InviteFails(c) ==
    /\ leg[c].pc = "inviting" /\ LegDone(c)
    /\ UNCHANGED <<call, mediaVars>>

(* cancelIfClaimedElsewhere polls the record until the leg is over.        *)
CancelIfClaimedElsewhere(c) ==
    /\ leg[c].dir = "in" /\ ~leg[c].cancelled
    /\ Ended(c) \/ Claimed(c)
    /\ leg' = [leg EXCEPT ![c].cancelled = TRUE]
    /\ task' = Cancelled(task, leg[c].task)
    /\ UNCHANGED <<call, activeCall, cancel, generation, webSessions, asked, voicemails, recorder, ending>>

(* AnswerFrom claims an incoming call, answers it and stores "alerting";   *)
(* when it is refused or the command fails, the leg ends.                  *)
AnswerFrom(c) ==
    /\ leg[c].pc = "answering"
    /\ \/ /\ call[c].state = "incoming" /\ ~Claimed(c)
          /\ call' = [call EXCEPT ![c].owner = "sip", ![c].state = "alerting"]
          /\ LegGoto(c, "waiting")
       \/ LegDone(c) /\ UNCHANGED call
    /\ UNCHANGED mediaVars

(* handleDialog: DialFrom is CallMedia!DialSip; then the leg is registered,*)
(* by which time the call may have ended.                                  *)
SetLeg(c) ==
    /\ leg[c].pc = "dialled" /\ leg' = [leg EXCEPT ![c].pc = "waiting", ![c].set = TRUE]
    /\ UNCHANGED <<call, mediaVars>>

(* waitForActive looks at the record, then at the context.                 *)
WaitForActiveOnly(c) ==  \* mutant: the end of the call is not looked for
    /\ leg[c].pc = "waiting"
    /\ call[c].state = "active" /\ call[c].owner = "sip"
    /\ LegGoto(c, IF leg[c].dir = "out" THEN "accepting" ELSE "bridging")
    /\ UNCHANGED <<call, mediaVars>>

WaitForActive(c) ==
    /\ leg[c].pc = "waiting"
    /\ \/ (Ended(c) \/ Claimed(c) \/ leg[c].cancelled) /\ LegDone(c)
       \/ /\ call[c].state = "active" /\ ~Claimed(c)
          /\ LegGoto(c, IF leg[c].dir = "out" THEN "accepting" ELSE "bridging")
    /\ UNCHANGED <<call, mediaVars>>

(* AnswerOptions answers the SIP client; a failure hangs the call up.      *)
AcceptDialog(c) ==
    /\ leg[c].pc = "accepting"
    /\ \/ LegGoto(c, "bridging") /\ UNCHANGED <<call, ending>>
       \/ LegGoto(c, "hangup") /\ UNCHANGED <<call, ending>>
    /\ UNCHANGED MediaRest

(* bridgeDialog: BridgePCM checks the record, then takes the audio over.   *)
BridgeCheck(c) ==
    /\ leg[c].pc = "bridging"
    /\ \/ call[c].state = "active" /\ call[c].owner = "sip" /\ LegGoto(c, "starting")
       \/ LegGoto(c, "bridged")  \* refused, or the streams of the dialog fail
    /\ UNCHANGED <<call, mediaVars>>

BridgeStart(c) ==
    /\ leg[c].pc = "starting"
    /\ \/ /\ ~Busy(c) /\ TakeOver("sip", c, "opening", leg[c].cancelled)
          /\ leg' = [leg EXCEPT ![c].pc = "running", ![c].task = generation']
       \/ /\ Busy(c) /\ LegGoto(c, "bridged")
          /\ UNCHANGED <<activeCall, cancel, generation, task>>
    /\ UNCHANGED <<call, webSessions, asked, voicemails, recorder, ending>>

BridgeReturns(c) ==
    /\ leg[c].pc = "running" /\ task[leg[c].task].pc = "returned"
    /\ task' = [task EXCEPT ![leg[c].task] = NoTask]
    /\ leg' = [leg EXCEPT ![c].pc = "bridged", ![c].task = 0]
    /\ UNCHANGED <<call, activeCall, cancel, generation, webSessions, asked, voicemails, recorder, ending>>

(* After the bridge handleDialog hangs up the call unless it has ended;    *)
(* originateIncoming only returns.                                         *)
LegFinishQuiet(c) ==  \* mutant: handleDialog returns without hanging up
    /\ leg[c].pc \in {"bridged", "hangup"} /\ LegDone(c)
    /\ UNCHANGED <<call, mediaVars>>

LegFinish(c) ==
    /\ leg[c].pc \in {"bridged", "hangup"}
    /\ IF leg[c].dir = "out" /\ Live(c)
         THEN /\ Hangup(c, [leg EXCEPT ![c] = OverLeg(c)])
              /\ UNCHANGED MediaRest
         ELSE LegDone(c) /\ UNCHANGED <<call, mediaVars>>

(* The SIP client gives up: the context of a dialled leg is that of its    *)
(* dialog; on an incoming leg the bridge only sees its streams end, which  *)
(* is PortFails of the task.                                               *)
ClientHangsUp(c) ==
    /\ leg[c].dir = "out" /\ ~leg[c].cancelled
    /\ leg' = [leg EXCEPT ![c].cancelled = TRUE]
    /\ task' = Cancelled(task, leg[c].task)
    /\ UNCHANGED <<call, activeCall, cancel, generation, webSessions, asked, voicemails, recorder, ending>>

(* The observer CallEnded: a registered leg is taken out and cancelled.    *)
CallEnded(c) ==
    /\ leg[c].ended
    /\ IF leg[c].set
         THEN /\ leg' = [leg EXCEPT ![c].ended = FALSE, ![c].set = FALSE, ![c].cancelled = TRUE]
              /\ task' = Cancelled(task, leg[c].task)
         ELSE leg' = [leg EXCEPT ![c].ended = FALSE] /\ UNCHANGED task
    /\ UNCHANGED <<call, activeCall, cancel, generation, webSessions, asked, voicemails, recorder, ending>>

LegSteps(c) ==
    \/ AnswerFrom(c) \/ SetLeg(c) \/ WaitForActive(c) \/ AcceptDialog(c) \/ BridgeCheck(c) \/ BridgeStart(c)
    \/ BridgeReturns(c) \/ LegFinish(c)

LegNext ==
    \E c \in Calls :
        \/ InviteAnswered(c) \/ InviteRefused(c) \/ InviteFails(c) \/ CancelIfClaimedElsewhere(c)
        \/ LegSteps(c) \/ ClientHangsUp(c) \/ CallEnded(c)

(* A cancelled INVITE returns; unanswered ones need not.                   *)
LegFairness ==
    \A c \in Calls :
        /\ WF_leg(CancelIfClaimedElsewhere(c)) /\ WF_leg(CallEnded(c))
        /\ WF_leg(LegSteps(c)) /\ WF_leg(leg[c].cancelled /\ InviteFails(c))
=============================================================================
