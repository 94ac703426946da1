----------------------------- MODULE EventStore -----------------------------
(***************************************************************************)
(* The event-sourced store of internal/store/store.go: a durable table     *)
(* `events' with a unique index on (entity_id, version), and an in-memory  *)
(* projection that is updated from each committed row and rebuilt from all *)
(* rows by replay() when the process starts.                               *)
(*                                                                         *)
(* Every operation holds s.mu from its check to the end of its last        *)
(* apply(), so nobody reads memory in between; only a crash can fall       *)
(* there.  The model therefore has two kinds of step: an operation commits *)
(* rows to `log', and Apply folds the next row into memory and advances    *)
(* `sequence'.  An operation needs s.mu, that is, a memory that has caught *)
(* up (Ready).  Restart throws memory away at any point; the same Apply    *)
(* steps are then the loop of replay().  Row numbers are positions in      *)
(* `log'.  The fan-out to subscribers is modelled in StateSync.            *)
(***************************************************************************)
EXTENDS Integers, Sequences, FiniteSets

CONSTANTS
    CallIDs, MessageIDs, RuleIDs, RecordingIDs,  \* entity ids, one set per kind
    Numbers,       \* telephone numbers: the keys of conversations
    CallStates,    \* the call states the callers write
    Secrets,       \* non-empty telegram tokens
    URLs,          \* non-empty provider URLs
    Modes,         \* device modes
    GatewayTypes,  \* device gateway types
    Percents,      \* disk usage readings
    None,          \* nil
    MaxEvents,     \* bound on the rows of the table
    MaxClock       \* bound on the clock

LiveStates == {"incoming", "dialing", "alerting", "active", "ending"}
TerminalStates == {"ended", "failed"}

Call == [id : CallIDs, version : Nat, state : CallStates]
Message == [id : MessageIDs, version : Nat, number : Numbers,
            incoming : BOOLEAN, unread : BOOLEAN, deleted : BOOLEAN]
Rule == [id : RuleIDs, createdAt : Nat]
Recording == [id : RecordingIDs]
Settings == [token : Secrets \cup {""}, url : URLs \cup {""}, sms : BOOLEAN]
Device == [mode : Modes, gatewayType : GatewayTypes, disk : Percents \cup {0}]

ASSUME ConstantsAssumption ==
    /\ CallStates \subseteq LiveStates \cup TerminalStates
    /\ None \notin CallIDs \cup Nat
    /\ None \notin Call \cup Message \cup Rule \cup Recording
    /\ CallIDs \cap (MessageIDs \cup RuleIDs \cup RecordingIDs \cup {"settings", "device"}) = {}
    /\ MessageIDs \cap (RuleIDs \cup RecordingIDs \cup {"settings", "device"}) = {}
    /\ RuleIDs \cap (RecordingIDs \cup {"settings", "device"}) = {}
    /\ RecordingIDs \cap {"settings", "device"} = {}
    /\ "" \notin Secrets /\ "" \notin URLs
    /\ IsFiniteSet(MessageIDs)
    /\ "starting" \in Modes /\ "" \in GatewayTypes
    /\ MaxEvents \in Nat /\ MaxClock \in Nat /\ Percents \subseteq Nat

VARIABLES
    log,            \* the rows of table events, durable
    sequence,       \* s.sequence: the rows applied to memory
    calls, activeCallID, messages, conversations, rules, recordings,
    settings, device,  \* the projection
    clock           \* wall clock; two units per tick, so time + 1 is no later reading

memory == <<calls, activeCallID, messages, conversations, rules, recordings,
            settings, device>>
vars == <<log, sequence, memory, clock>>

Ready == sequence = Len(log)
Now == clock + 2

-----------------------------------------------------------------------------
(* Secrets are sealed in the stored row and opened again by replay.        *)

seal(s) == [enc |-> s # "", text |-> s]
open(s) == s.text

encryptSettings(v) == [v EXCEPT !.token = seal(v.token)]
decryptSettings(v) == [v EXCEPT !.token = open(v.token)]

(* Mutant: a blank secret overwrites the stored one.                       *)
mergeSettingsBlank(old, v) ==
    [token |-> v.token, url |-> IF v.url = "" THEN old.url ELSE v.url, sms |-> v.sms]

(* An omitted (empty) field leaves the old value: json.Unmarshal onto the  *)
(* existing struct, with omitempty on token and url.                       *)
mergeSettings(old, v) ==
    [token |-> IF v.token = "" THEN old.token ELSE v.token,
     url |-> IF v.url = "" THEN old.url ELSE v.url,
     sms |-> v.sms]

(* The unread count of a number, over the messages not deleted.            *)
Unread(msgs, n) ==
    Cardinality({m \in MessageIDs : /\ msgs[m] # None
                                    /\ msgs[m].number = n
                                    /\ ~msgs[m].deleted
                                    /\ msgs[m].unread})

-----------------------------------------------------------------------------
(* The empty memory OpenWithKey builds before replay().                    *)
Empty(ids) == [x \in ids |-> None]
DefaultSettings == [token |-> "", url |-> "", sms |-> TRUE]
DefaultDevice == [mode |-> "starting", gatewayType |-> "", disk |-> 0]

Init ==
    /\ log = <<>> /\ sequence = 0 /\ clock = 2
    /\ calls = Empty(CallIDs) /\ activeCallID = None
    /\ messages = Empty(MessageIDs) /\ conversations = Empty(Numbers)
    /\ rules = Empty(RuleIDs) /\ recordings = Empty(RecordingIDs)
    /\ settings = DefaultSettings /\ device = DefaultDevice

(* The INSERT of appendLocked.  A row whose (entity_id, version) exists is  *)
(* refused and the operation fails without effect.                         *)
Row(type, id, version, val) == [type |-> type, id |-> id, version |-> version, val |-> val]

appendLocked(type, id, version, val) ==
    /\ Len(log) < MaxEvents
    /\ \A i \in 1..Len(log) : ~(log[i].id = id /\ log[i].version = version)
    /\ log' = Append(log, Row(type, id, version, val))

OneVersion(v) == IF v = 0 THEN 1 ELSE v

UpsertCall(v) ==
    /\ Ready
    /\ calls[v.id] # None => v.version = calls[v.id].version + 1
    /\ appendLocked("call.upserted", v.id, OneVersion(v.version),
                    [v EXCEPT !.version = OneVersion(v.version)])
    /\ UNCHANGED <<sequence, memory, clock>>

UpsertMessage(v) ==
    /\ Ready
    /\ messages[v.id] # None => v.version = messages[v.id].version + 1
    /\ appendLocked("message.upserted", v.id, OneVersion(v.version),
                    [v EXCEPT !.version = OneVersion(v.version)])
    /\ UNCHANGED <<sequence, memory, clock>>

(* The unread incoming messages become read in one transaction: all rows   *)
(* are committed together, in some order of ids, before any is applied.    *)
UnreadIncoming ==
    {m \in MessageIDs : /\ messages[m] # None
                        /\ messages[m].unread
                        /\ ~messages[m].deleted
                        /\ messages[m].incoming}

(* Mutant: the version is counted up twice.                                *)
ReadRowSkips(m) ==
    LET v == [messages[m] EXCEPT !.version = @ + 2, !.unread = FALSE]
    IN  Row("message.upserted", m, v.version, v)

ReadRow(m) ==
    LET v == [messages[m] EXCEPT !.version = @ + 1, !.unread = FALSE]
    IN  Row("message.upserted", m, v.version, v)

MarkAllMessagesRead ==
    /\ Ready
    /\ UnreadIncoming # {}
    /\ Len(log) + Cardinality(UnreadIncoming) <= MaxEvents
    /\ \E order \in [1..Cardinality(UnreadIncoming) -> UnreadIncoming] :
          /\ \A m \in UnreadIncoming : \E i \in DOMAIN order : order[i] = m
          /\ \A i, j \in DOMAIN order : order[i] = order[j] => i = j
          /\ log' = log \o [i \in DOMAIN order |-> ReadRow(order[i])]
    /\ UNCHANGED <<sequence, memory, clock>>

(* A new rule is version 1; a change of an existing one takes its version  *)
(* from the creation time of the rule it replaces.                         *)
UpsertRule(v) ==
    /\ Ready
    /\ appendLocked("rule.upserted", v.id,
                    IF rules[v.id] = None THEN 1 ELSE rules[v.id].createdAt + 1, v)
    /\ UNCHANGED <<sequence, memory, clock>>

Tick == Now <= MaxClock /\ clock' = Now

DeleteRule(r) ==
    /\ Ready /\ rules[r] # None /\ Tick
    /\ appendLocked("rule.deleted", r, Now, None)
    /\ UNCHANGED <<sequence, memory>>

UpsertRecording(v) ==
    /\ Ready /\ Tick
    /\ appendLocked("recording.upserted", v.id, Now, v)
    /\ UNCHANGED <<sequence, memory>>

DeleteRecording(r) ==
    /\ Ready /\ recordings[r] # None /\ Tick
    /\ appendLocked("recording.deleted", r, Now, None)
    /\ UNCHANGED <<sequence, memory>>

UpdateSettings(v) ==
    /\ Ready
    /\ appendLocked("settings.updated", "settings", sequence + 1, encryptSettings(v))
    /\ UNCHANGED <<sequence, memory, clock>>

(* sameDevice compares every field but gatewayType.                        *)
sameDevice(a, b) == a.mode = b.mode /\ a.disk = b.disk

UpdateDevice(v) ==
    /\ Ready
    /\ ~sameDevice(device, v)
    /\ appendLocked("device.updated", "device", sequence + 1, v)
    /\ UNCHANGED <<sequence, memory, clock>>

(* Memory is changed before the row is written, and stays changed when the *)
(* INSERT fails.                                                           *)
UpdateDiskUsage(pct) ==
    /\ Ready
    /\ ~(device.disk = pct /\ device.disk # 0)
    /\ device' = [device EXCEPT !.disk = pct]
    /\ \/ appendLocked("device.updated", "device", sequence + 1, [device EXCEPT !.disk = pct])
       \/ UNCHANGED log
    /\ UNCHANGED <<sequence, calls, activeCallID, messages, conversations, rules,
                   recordings, settings, clock>>

-----------------------------------------------------------------------------
(* apply(): one committed row folded into memory, by the type of the row.  *)

(* Mutant: any ended call clears the active one.                           *)
applyCallClearsAny(e) ==
    /\ e.type = "call.upserted"
    /\ calls' = [calls EXCEPT ![e.id] = e.val]
    /\ activeCallID' = IF e.val.state \in LiveStates THEN e.id ELSE None
    /\ UNCHANGED <<messages, conversations, rules, recordings, settings, device>>

applyCall(e) ==
    /\ e.type = "call.upserted"
    /\ calls' = [calls EXCEPT ![e.id] = e.val]
    /\ activeCallID' = IF e.val.state \in LiveStates THEN e.id
                       ELSE IF activeCallID = e.id THEN None
                       ELSE activeCallID
    /\ UNCHANGED <<messages, conversations, rules, recordings, settings, device>>

(* Mutant: the badge is counted up instead of rebuilt.                     *)
applyMessageCountsUp(e) ==
    /\ e.type = "message.upserted"
    /\ messages' = [messages EXCEPT ![e.id] = e.val]
    /\ conversations' = [conversations EXCEPT ![e.val.number] =
                            (IF @ = None THEN 0 ELSE @) + (IF e.val.unread THEN 1 ELSE 0)]
    /\ UNCHANGED <<calls, activeCallID, rules, recordings, settings, device>>

applyMessage(e) ==
    /\ e.type = "message.upserted"
    /\ messages' = [messages EXCEPT ![e.id] = e.val]
    /\ conversations' = [conversations EXCEPT ![e.val.number] = Unread(messages', e.val.number)]
    /\ UNCHANGED <<calls, activeCallID, rules, recordings, settings, device>>

applyRule(e) ==
    /\ e.type \in {"rule.upserted", "rule.deleted"}
    /\ rules' = [rules EXCEPT ![e.id] = e.val]
    /\ UNCHANGED <<calls, activeCallID, messages, conversations, recordings, settings, device>>

applyRecording(e) ==
    /\ e.type \in {"recording.upserted", "recording.deleted"}
    /\ recordings' = [recordings EXCEPT ![e.id] = e.val]
    /\ UNCHANGED <<calls, activeCallID, messages, conversations, rules, settings, device>>

applySettings(e) ==
    /\ e.type = "settings.updated"
    /\ settings' = mergeSettings(settings, decryptSettings(e.val))
    /\ UNCHANGED <<calls, activeCallID, messages, conversations, rules, recordings, device>>

applyDevice(e) ==
    /\ e.type = "device.updated"
    /\ device' = e.val
    /\ UNCHANGED <<calls, activeCallID, messages, conversations, rules, recordings, settings>>

apply(e) ==
    \/ applyCall(e)
    \/ applyMessage(e)
    \/ applyRule(e)
    \/ applyRecording(e)
    \/ applySettings(e)
    \/ applyDevice(e)

Apply ==
    /\ sequence < Len(log)
    /\ apply(log[sequence + 1])
    /\ sequence' = sequence + 1
    /\ UNCHANGED <<log, clock>>

(* Mutant: replay resumes after the last row the dead process had applied. *)
RestartResumes ==
    /\ calls' = Empty(CallIDs) /\ activeCallID' = None
    /\ messages' = Empty(MessageIDs) /\ conversations' = Empty(Numbers)
    /\ rules' = Empty(RuleIDs) /\ recordings' = Empty(RecordingIDs)
    /\ settings' = DefaultSettings /\ device' = DefaultDevice
    /\ UNCHANGED <<log, sequence, clock>>

(* The process dies and OpenWithKey starts again from an empty memory.     *)
Restart ==
    /\ sequence' = 0
    /\ calls' = Empty(CallIDs) /\ activeCallID' = None
    /\ messages' = Empty(MessageIDs) /\ conversations' = Empty(Numbers)
    /\ rules' = Empty(RuleIDs) /\ recordings' = Empty(RecordingIDs)
    /\ settings' = DefaultSettings /\ device' = DefaultDevice
    /\ UNCHANGED <<log, clock>>

-----------------------------------------------------------------------------
(* What the callers pass: a new entity starts at version 0 or 1, a change  *)
(* of an existing one keeps its number and direction and carries whatever  *)
(* version the caller computed from its copy.                              *)

Versions == 0..(MaxEvents + 1)

CallWrites ==
    {v \in [id : CallIDs, version : Versions, state : CallStates] :
        calls[v.id] = None => v.version \in {0, 1}}

MessageWrites ==
    {v \in [id : MessageIDs, version : Versions, number : Numbers,
            incoming : BOOLEAN, unread : BOOLEAN, deleted : BOOLEAN] :
        IF messages[v.id] = None
        THEN v.version \in {0, 1} /\ ~v.deleted /\ v.unread = v.incoming
        ELSE /\ v.number = messages[v.id].number
             /\ v.incoming = messages[v.id].incoming
             /\ v.unread => messages[v.id].unread /\ ~v.deleted}

RuleWrites == [id : RuleIDs, createdAt : {t \in 2..clock : t % 2 = 0}]

CallStep == \E v \in CallWrites : UpsertCall(v)
MessageStep == \E v \in MessageWrites : UpsertMessage(v)
RuleStep == (\E v \in RuleWrites : UpsertRule(v)) \/ (\E r \in RuleIDs : DeleteRule(r))
RecordingStep == \E r \in RecordingIDs : UpsertRecording([id |-> r]) \/ DeleteRecording(r)
SettingsStep == \E v \in Settings : UpdateSettings(v)
DeviceStep == (\E v \in Device : UpdateDevice(v)) \/ (\E p \in Percents : UpdateDiskUsage(p))

Next ==
    \/ CallStep
    \/ MessageStep
    \/ MarkAllMessagesRead
    \/ RuleStep
    \/ RecordingStep
    \/ SettingsStep
    \/ DeviceStep
    \/ Apply
    \/ Restart

Spec == Init /\ [][Next]_vars

-----------------------------------------------------------------------------
(* Type correctness of the table and of the projection.                    *)
SealedSettings == [token : [enc : BOOLEAN, text : Secrets \cup {""}],
                   url : URLs \cup {""}, sms : BOOLEAN]

CallRows ==
    {r \in [type : {"call.upserted"}, id : CallIDs, version : Nat, val : Call] :
        r.val.id = r.id /\ r.val.version = r.version}
MessageRows ==
    {r \in [type : {"message.upserted"}, id : MessageIDs, version : Nat, val : Message] :
        r.val.id = r.id /\ r.val.version = r.version}
RuleRows == [type : {"rule.upserted", "rule.deleted"}, id : RuleIDs, version : Nat,
             val : Rule \cup {None}]
RecordingRows == [type : {"recording.upserted", "recording.deleted"}, id : RecordingIDs,
                  version : Nat, val : Recording \cup {None}]
SettingsRows == [type : {"settings.updated"}, id : {"settings"}, version : Nat,
                 val : SealedSettings]
DeviceRows == [type : {"device.updated"}, id : {"device"}, version : Nat, val : Device]

Rows == CallRows \cup MessageRows \cup RuleRows \cup RecordingRows \cup SettingsRows
        \cup DeviceRows

TypeOK ==
    /\ log \in Seq(Rows)
    /\ sequence \in 0..Len(log)
    /\ calls \in [CallIDs -> Call \cup {None}]
    /\ activeCallID \in CallIDs \cup {None}
    /\ messages \in [MessageIDs -> Message \cup {None}]
    /\ conversations \in [Numbers -> Nat \cup {None}]
    /\ rules \in [RuleIDs -> Rule \cup {None}]
    /\ recordings \in [RecordingIDs -> Recording \cup {None}]
    /\ settings \in Settings
    /\ device \in Device
    /\ clock \in Nat
    /\ \A c \in CallIDs : calls[c] # None => calls[c].id = c
    /\ \A m \in MessageIDs : messages[m] # None => messages[m].id = m

(* A table of memory agrees with the first s rows of l: an entity without   *)
(* rows is absent, any other is the content of its last row.                *)
Projection(l, s, table, ids) ==
    \A x \in ids :
        \/ table[x] = None /\ \A i \in 1..s : l[i].id # x
        \/ \E i \in 1..s :
              /\ l[i].id = x
              /\ \A j \in (i + 1)..s : l[j].id # x
              /\ table[x] = l[i].val

(* Memory is what the applied rows say, after any crash at any point of an *)
(* operation, of a batch or of the replay itself: every entry of calls,    *)
(* messages, rules and recordings is the content of the last row of its    *)
(* entity, and an entity without rows is absent.  When Ready, that is the  *)
(* last durable row: a restart gives back the memory that was lost.        *)
RowsProjected ==
    /\ Projection(log, sequence, calls, CallIDs)
    /\ Projection(log, sequence, messages, MessageIDs)
    /\ Projection(log, sequence, rules, RuleIDs)
    /\ Projection(log, sequence, recordings, RecordingIDs)

LiveRow(e) == e.type = "call.upserted" /\ e.val.state \in LiveStates

(* By the first s rows of l, c is the call that went live last and is live. *)
ActiveAfter(l, s, c) ==
    \E i \in 1..s :
        /\ LiveRow(l[i]) /\ l[i].id = c
        /\ \A j \in (i + 1)..s : ~LiveRow(l[j]) /\ l[j].id # c

(* activeCallID is a function of the applied rows too: it is c exactly when *)
(* the last row that wrote any call in a live state wrote c, and no later   *)
(* row ended c.                                                             *)
ActiveProjected ==
    \A c \in CallIDs : activeCallID = c <=> ActiveAfter(log, sequence, c)

(* The active call is never a call that has ended: ActiveCall() returns nil *)
(* or a call in a live state, whatever order writers and restarts come in.  *)
ActiveIsLive ==
    activeCallID # None =>
        /\ calls[activeCallID] # None
        /\ calls[activeCallID].state \in LiveStates

(* Row j of l is the first of its entity, version 1, or is one version     *)
(* after the entity's row before it.                                       *)
Follows(l, j) ==
    \/ l[j].version = 1 /\ \A i \in 1..(j - 1) : l[i].id # l[j].id
    \/ \E i \in 1..(j - 1) :
          /\ l[i].id = l[j].id
          /\ l[j].version = l[i].version + 1
          /\ \A k \in (i + 1)..(j - 1) : l[k].id # l[j].id

(* The rows of a call, or of a message, carry the versions 1, 2, 3, ... in  *)
(* the order of the table: of two writers that start from the same copy at  *)
(* most one is accepted, and the numbering survives restarts.               *)
VersionsContiguous ==
    \A j \in 1..Len(log) : log[j].id \in CallIDs \cup MessageIDs => Follows(log, j)

(* The badge of a conversation counts the unread, undeleted messages of its *)
(* number at every moment, although apply() only rebuilds the conversation  *)
(* of the message it writes.                                                *)
ConversationsExact ==
    \A n \in Numbers :
        IF \E m \in MessageIDs : messages[m] # None /\ messages[m].number = n
        THEN conversations[n] = Unread(messages, n)
        ELSE conversations[n] = None

(* A secret is the last non-empty value a settings row carried, opened: an  *)
(* update that leaves it blank preserves it, in memory and after a replay.  *)
SecretPreserved ==
    LET Carries(i) == log[i].type = "settings.updated" /\ log[i].val.token.text # ""
    IN  /\ (\A i \in 1..sequence : ~Carries(i)) => settings.token = ""
        /\ \A i \in 1..sequence :
              Carries(i) /\ (\A j \in (i + 1)..sequence : ~Carries(j))
                  => /\ settings.token = log[i].val.token.text
                     /\ log[i].val.token.enc

-----------------------------------------------------------------------------
(* The record of an entity: the content of its last durable row.           *)
LastRow(l, x, i) == l[i].id = x /\ \A j \in (i + 1)..Len(l) : l[j].id # x

Latest(l, x) ==
    IF \E i \in 1..Len(l) : l[i].id = x
    THEN l[CHOOSE i \in 1..Len(l) : LastRow(l, x, i)].val
    ELSE None

Durable == INSTANCE DurableRecords WITH
    IDs <- CallIDs \cup MessageIDs,
    record <- [x \in CallIDs \cup MessageIDs |-> Latest(log, x)]

(* The store implements DurableRecords: although UpsertCall, UpsertMessage *)
(* and MarkAllMessagesRead compare and compute versions in memory, and a   *)
(* crash can fall between a commit and its apply() or within replay(),     *)
(* each of them writes the next version of the durable record or nothing,  *)
(* and a restart, an apply() or any other operation writes none.           *)
DurableRecordsImplemented == Durable!Spec
=============================================================================
