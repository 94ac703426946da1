------------------------------ MODULE SmsInbox ------------------------------
(***************************************************************************)
(* Incoming SMS, from the phone to the store.  The companion saves each    *)
(* SMS in the phone's inbox and reports it over the control link, or keeps *)
(* the report in pendingEvents while there is no link.  On every connect   *)
(* it flushes pendingEvents and reports the newest inbox rows again.  The  *)
(* server queues the reports (internal/modem/android.go) and stores each   *)
(* one whose provider id it does not know (handleModem, sms.received).     *)
(*                                                                         *)
(* A report is the inbox row id, its provider id; 0 stands for the report  *)
(* of an SMS that could not be saved.                                      *)
(***************************************************************************)
EXTENDS Integers, Sequences, SequencesExt

CONSTANTS
    Gateways,
    SyncLimit,     \* inbox rows reported on connect: 50
    BufferLimit,   \* length of pendingEvents: 100
    QueueCap,      \* capacity of the channel `events': 128
    MaxSms,        \* bound on the SMS that reach all phones
    MaxFailures    \* bound on lost links and restarts

ASSUME LimitsAssumption ==
    /\ {SyncLimit, BufferLimit, QueueCap} \subseteq Nat \ {0}
    /\ {MaxSms, MaxFailures} \subseteq Nat

VARIABLES
    inbox,          \* per phone: number of rows; row ids are 1..inbox[g]
    pendingEvents,  \* per phone: reports the companion keeps
    up,             \* per phone: the control link is authenticated
    controlWriter,  \* per phone: controlWriter is set
    old,            \* per phone: handlers of lost links that have not ended
    wire,           \* per phone: reports on the link
    events,         \* per phone: reports in the server's channel
    messages,       \* the stored incoming messages, in order
    arrived, failures  \* counters for the bounds

handlers == <<controlWriter, old>>
vars == <<inbox, pendingEvents, up, handlers, wire, events, messages, arrived, failures>>

Smallest(a, b) == IF a < b THEN a ELSE b
Newest(s, n) == SubSeq(s, Len(s) - Smallest(n, Len(s)) + 1, Len(s))
Oldest(s, n) == SubSeq(s, 1, Smallest(n, Len(s)))

(* The newest inbox rows, newest first.                                    *)
RecentSkipsNewest(g) ==  \* mutant: off by one
    [i \in 1..(Smallest(inbox[g], SyncLimit) - 1) |-> inbox[g] - i]
Recent(g) == [i \in 1..Smallest(inbox[g], SyncLimit) |-> inbox[g] - i + 1]

Offer(buffer, reports) == Newest(buffer \o reports, BufferLimit)

Init ==
    /\ inbox = [g \in Gateways |-> 0]
    /\ pendingEvents = [g \in Gateways |-> <<>>] /\ up = [g \in Gateways |-> FALSE]
    /\ controlWriter = [g \in Gateways |-> FALSE] /\ old = [g \in Gateways |-> 0]
    /\ wire = [g \in Gateways |-> <<>>] /\ events = [g \in Gateways |-> <<>>]
    /\ messages = <<>> /\ arrived = 0 /\ failures = 0

(* SmsReceiver.onReceive: save, then emitEvent.  A write to a lost link may *)
(* fail or vanish.                                                          *)
Receive(g, saved) ==
    LET row == IF saved THEN inbox[g] + 1 ELSE 0 IN
    /\ arrived < MaxSms /\ arrived' = arrived + 1
    /\ inbox' = IF saved THEN [inbox EXCEPT ![g] = row] ELSE inbox
    /\ \/ /\ controlWriter[g]
          /\ wire' = IF up[g] THEN [wire EXCEPT ![g] = Append(@, row)] ELSE wire
          /\ UNCHANGED pendingEvents
       \/ /\ ~controlWriter[g] \/ ~up[g]
          /\ pendingEvents' = [pendingEvents EXCEPT ![g] = Offer(@, <<row>>)]
          /\ UNCHANGED wire
    /\ UNCHANGED <<up, handlers, events, messages, failures>>

(* A control client authenticates: flushPending, then syncRecentMessages.  *)
MayConnect(g) == ~up[g]

ConnectOnce(g) ==  \* mutant: no reconnect after a failure
    /\ failures = 0 /\ MayConnect(g) /\ up' = [up EXCEPT ![g] = TRUE]
    /\ controlWriter' = [controlWriter EXCEPT ![g] = TRUE] /\ UNCHANGED old
    /\ wire' = [wire EXCEPT ![g] = pendingEvents[g] \o Recent(g)]
    /\ pendingEvents' = [pendingEvents EXCEPT ![g] = <<>>]
    /\ UNCHANGED <<inbox, events, messages, arrived, failures>>

Connect(g) ==
    /\ MayConnect(g) /\ up' = [up EXCEPT ![g] = TRUE]
    /\ controlWriter' = [controlWriter EXCEPT ![g] = TRUE] /\ UNCHANGED old
    /\ wire' = [wire EXCEPT ![g] = pendingEvents[g] \o Recent(g)]
    /\ pendingEvents' = [pendingEvents EXCEPT ![g] = <<>>]
    /\ UNCHANGED <<inbox, events, messages, arrived, failures>>

Fails == failures < MaxFailures /\ failures' = failures + 1

(* The link breaks after n flushed reports, of which the server reads the   *)
(* first few.  The next one is offered again, behind the others, and so are *)
(* the rows of the sync that follows.                                       *)
ConnectBreaks(g, n) ==
    /\ Fails /\ MayConnect(g) /\ n < Len(pendingEvents[g])
    /\ controlWriter' = [controlWriter EXCEPT ![g] = FALSE]
    /\ LET buffer == pendingEvents[g] IN
       /\ \E few \in 0..n :
             events' = [events EXCEPT ![g] = Oldest(@ \o SubSeq(buffer, 1, few), QueueCap)]
       /\ pendingEvents' = [pendingEvents EXCEPT ![g] =
              Offer(SubSeq(buffer, n + 2, Len(buffer)), <<buffer[n + 1]>> \o Recent(g))]
    /\ UNCHANGED <<inbox, up, old, wire, messages, arrived>>

(* readLoop takes a report off the link; a full channel drops it.          *)
Read(g) ==
    /\ wire[g] # <<>>
    /\ wire' = [wire EXCEPT ![g] = Tail(@)]
    /\ events' = IF Len(events[g]) < QueueCap
                 THEN [events EXCEPT ![g] = Append(@, Head(wire[g]))]
                 ELSE events
    /\ UNCHANGED <<inbox, pendingEvents, up, handlers, messages, arrived, failures>>

(* handleModem: a provider id that any stored message has is known.        *)
KnownUnlessDeleted(provider) ==  \* mutant: deleted messages do not count
    provider # 0 /\ \E m \in ToSet(messages) : m.provider = provider /\ ~m.deleted
Known(provider) == provider # 0 /\ \E m \in ToSet(messages) : m.provider = provider

SmsReceived(g) ==
    /\ events[g] # <<>>
    /\ events' = [events EXCEPT ![g] = Tail(@)]
    /\ LET provider == Head(events[g]) IN
       messages' = IF Known(provider) THEN messages
                   ELSE Append(messages, [gateway |-> g, provider |-> provider,
                                          deleted |-> FALSE])
    /\ UNCHANGED <<inbox, pendingEvents, up, handlers, wire, arrived, failures>>

(* DeleteMessage clears the message but keeps the entry.                   *)
DeleteMessage(i) ==
    /\ ~messages[i].deleted
    /\ messages' = [messages EXCEPT ![i].deleted = TRUE]
    /\ UNCHANGED <<inbox, pendingEvents, up, handlers, wire, events, arrived, failures>>

(* The link is lost, and with it what the server had not read; its handler  *)
(* in the companion ends later, and clears controlWriter whoever set it.    *)
LinkLost(g) ==
    /\ Fails /\ up[g]
    /\ old' = [old EXCEPT ![g] = @ + 1] /\ UNCHANGED controlWriter
    /\ up' = [up EXCEPT ![g] = FALSE] /\ wire' = [wire EXCEPT ![g] = <<>>]
    /\ UNCHANGED <<inbox, pendingEvents, events, messages, arrived>>

HandlerEnds(g) ==
    /\ old[g] > 0 /\ old' = [old EXCEPT ![g] = @ - 1]
    /\ controlWriter' = [controlWriter EXCEPT ![g] = FALSE]
    /\ UNCHANGED <<inbox, pendingEvents, up, wire, events, messages, arrived, failures>>

(* The server restarts: links and queued reports are lost.                 *)
ServerRestart ==
    /\ Fails
    /\ old' = [g \in Gateways |-> IF up[g] THEN old[g] + 1 ELSE old[g]]
    /\ UNCHANGED controlWriter
    /\ up' = [g \in Gateways |-> FALSE]
    /\ wire' = [g \in Gateways |-> <<>>] /\ events' = [g \in Gateways |-> <<>>]
    /\ UNCHANGED <<inbox, pendingEvents, messages, arrived>>

(* Android kills the companion: pendingEvents is lost, the inbox is not.   *)
CompanionRestart(g) ==
    /\ Fails
    /\ controlWriter' = [controlWriter EXCEPT ![g] = FALSE] /\ old' = [old EXCEPT ![g] = 0]
    /\ up' = [up EXCEPT ![g] = FALSE] /\ wire' = [wire EXCEPT ![g] = <<>>]
    /\ pendingEvents' = [pendingEvents EXCEPT ![g] = <<>>]
    /\ UNCHANGED <<inbox, events, messages, arrived>>

Next ==
    \/ ServerRestart
    \/ \E i \in DOMAIN messages : DeleteMessage(i)
    \/ \E g \in Gateways :
          \/ \E saved \in BOOLEAN : Receive(g, saved)
          \/ Connect(g)
          \/ \E n \in 0..(Len(pendingEvents[g]) - 1) : ConnectBreaks(g, n)
          \/ Read(g) \/ SmsReceived(g) \/ LinkLost(g) \/ HandlerEnds(g)
          \/ CompanionRestart(g)

Spec == Init /\ [][Next]_vars

(* The controller keeps reconnecting, the loops keep reading, and the       *)
(* handler of a lost link ends.                                             *)
FairSpec ==
    /\ Spec
    /\ \A g \in Gateways : WF_vars(Connect(g)) /\ WF_vars(Read(g)) /\ WF_vars(SmsReceived(g))
                         /\ WF_vars(HandlerEnds(g))

-----------------------------------------------------------------------------
(* Type correctness; the companion's buffer and the channel keep to their   *)
(* limits.                                                                  *)
Reports == Seq(0..MaxSms)
TypeOK ==
    /\ inbox \in [Gateways -> 0..MaxSms] /\ up \in [Gateways -> BOOLEAN]
    /\ controlWriter \in [Gateways -> BOOLEAN] /\ old \in [Gateways -> 0..MaxFailures]
    /\ \A g \in Gateways :
          /\ pendingEvents[g] \in Reports /\ Len(pendingEvents[g]) <= BufferLimit
          /\ events[g] \in Reports /\ Len(events[g]) <= QueueCap
          /\ wire[g] \in Reports
    /\ messages \in Seq([gateway : Gateways, provider : 0..MaxSms, deleted : BOOLEAN])

(* "... without duplicate events": an SMS of a phone's inbox is stored at   *)
(* most once, however often it is reported, also after it was deleted and   *)
(* after restarts on either side.                                           *)
NoDuplicate ==
    \A i, j \in DOMAIN messages :
        /\ messages[i].gateway = messages[j].gateway
        /\ messages[i].provider = messages[j].provider
        /\ messages[i].provider # 0
        => i = j

Stored(g, row) == \E m \in ToSet(messages) : m.gateway = g /\ m.provider = row

(* "Incoming ... SMS survive reconnects": when a phone is connected, its    *)
(* writer in place, and all its reports have been handled, each SMS of its  *)
(* inbox is stored, whatever links, reports or buffers were lost before.    *)
SurvivesReconnect ==
    \A g \in Gateways :
        up[g] /\ controlWriter[g] /\ wire[g] = <<>> /\ events[g] = <<>>
        => \A row \in 1..inbox[g] : Stored(g, row)

(* The same as progress: an SMS in the inbox is stored in the end, unless   *)
(* the handler of an old link has cleared the writer of the present one.    *)
EventuallyStored ==
    \A g \in Gateways, row \in 1..MaxSms :
        row <= inbox[g] ~> Stored(g, row) \/ (up[g] /\ ~controlWriter[g])

(* What does not hold: the present link can be written to while it is up,   *)
(* so that no report waits for the next one.                                *)
WriterKept == \A g \in Gateways : up[g] => controlWriter[g]
=============================================================================
