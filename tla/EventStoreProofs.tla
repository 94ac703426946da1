-------------------------- MODULE EventStoreProofs --------------------------
(***************************************************************************)
(* What EventStore guarantees for every set of ids and every bound: the    *)
(* memory of the process is the projection of the durable rows, through    *)
(* crashes and replays, versions are allotted without gaps, the token and  *)
(* the unread badges are right at every moment, and the store as a whole   *)
(* implements DurableRecords.                                              *)
(***************************************************************************)
EXTENDS EventStore, SequenceTheorems, FiniteSetTheorems, TLAPS

(* A row of the table can be appended to a typed table.                    *)
LEMMA LogTyped ==
    ASSUME TypeOK
    PROVE  /\ log \in Seq(Rows) /\ Len(log) \in Nat
           /\ sequence \in Nat /\ sequence \in 0..Len(log) /\ sequence <= Len(log)
           /\ \A i \in 1..sequence : i \in 1..Len(log)
<1>1. log \in Seq(Rows) /\ sequence \in 0..Len(log)
  BY Zenon DEF TypeOK
<1>2. QED
  BY <1>1

(* The versions of what memory holds.                                      *)
LEMMA VersionsTyped ==
    ASSUME TypeOK
    PROVE  /\ \A x \in CallIDs : calls[x] # None => calls[x].version \in Nat
           /\ \A x \in MessageIDs : messages[x] # None => messages[x].version \in Nat
<1>1. /\ calls \in [CallIDs -> Call \cup {None}]
      /\ messages \in [MessageIDs -> Message \cup {None}]
  BY Zenon DEF TypeOK
<1>2. QED
  BY <1>1 DEF Call, Message

LEMMA AppendRow ==
    ASSUME TypeOK, NEW t, NEW x, NEW n, NEW v, appendLocked(t, x, n, v),
           Row(t, x, n, v) \in Rows
    PROVE  /\ log' \in Seq(Rows)
           /\ Len(log') = Len(log) + 1
           /\ log'[Len(log) + 1] = Row(t, x, n, v)
           /\ \A i \in 1..Len(log) : log'[i] = log[i]
BY DEF TypeOK, appendLocked

(* The rows of a read-all batch, appended together.                        *)
LEMMA ReadRowType ==
    ASSUME TypeOK, NEW m \in UnreadIncoming
    PROVE  /\ ReadRow(m) \in MessageRows
           /\ ReadRow(m).id = m
           /\ ReadRow(m).version = messages[m].version + 1
           /\ ReadRow(m).val.number = messages[m].number
<1>1. m \in MessageIDs /\ messages[m] \in Message /\ messages[m].id = m
  BY ConstantsAssumption DEF TypeOK, UnreadIncoming
<1> DEFINE w == [messages[m] EXCEPT !.version = @ + 1]
           v == [w EXCEPT !.unread = FALSE]
<1>0. /\ w \in Message /\ w.id = m /\ w.version = messages[m].version + 1
      /\ w.number = messages[m].number
  BY <1>1 DEF Message
<1>2. /\ v \in Message /\ v.id = m /\ v.version = messages[m].version + 1
      /\ v.number = messages[m].number
  <2> HIDE DEF w
  <2>1. QED BY <1>0 DEF Message
<1>3. ReadRow(m) = [type |-> "message.upserted", id |-> m, version |-> v.version, val |-> v]
  BY DEF ReadRow, Row
<1>4. v.version \in Nat
  BY <1>2 DEF Message
<1> HIDE DEF v
<1>5. QED
  BY <1>1, <1>2, <1>3, <1>4 DEF MessageRows

LEMMA UnreadType ==
    ASSUME NEW f, NEW n
    PROVE  Unread(f, n) \in Nat
<1> DEFINE S == {m \in MessageIDs : /\ f[m] # None
                                    /\ f[m].number = n
                                    /\ ~f[m].deleted
                                    /\ f[m].unread}
<1>1. S \subseteq MessageIDs
  OBVIOUS
<1>2. IsFiniteSet(S)
  BY <1>1, FS_Subset, ConstantsAssumption
<1>3. Cardinality(S) \in Nat
  BY <1>2, FS_CardinalityType
<1>4. QED
  BY <1>3 DEF Unread

(* How a read-all batch extends the table.                                 *)
LEMMA BatchRows ==
    ASSUME TypeOK, MarkAllMessagesRead
    PROVE  \E order \in [1..Cardinality(UnreadIncoming) -> UnreadIncoming] :
              /\ Cardinality(UnreadIncoming) \in Nat
              /\ \A i, j \in 1..Cardinality(UnreadIncoming) : order[i] = order[j] => i = j
              /\ log' \in Seq(Rows)
              /\ Len(log') = Len(log) + Cardinality(UnreadIncoming)
              /\ \A i \in 1..Len(log) : log'[i] = log[i]
              /\ \A i \in 1..Cardinality(UnreadIncoming) :
                    log'[Len(log) + i] = ReadRow(order[i])
<1>1. Cardinality(UnreadIncoming) \in Nat
  <2>1. UnreadIncoming \subseteq MessageIDs
    BY DEF UnreadIncoming
  <2>2. QED
    BY <2>1, FS_Subset, FS_CardinalityType, ConstantsAssumption
<1> DEFINE n == Cardinality(UnreadIncoming)
<1>2. PICK order \in [1..n -> UnreadIncoming] :
          /\ \A i, j \in DOMAIN order : order[i] = order[j] => i = j
          /\ log' = log \o [i \in DOMAIN order |-> ReadRow(order[i])]
  BY DEF MarkAllMessagesRead
<1> DEFINE batch == [i \in 1..n |-> ReadRow(order[i])]
<1>3. \A i \in 1..n : ReadRow(order[i]) \in Rows
  BY <1>2, ReadRowType DEF Rows
<1>4. batch \in Seq(Rows) /\ Len(batch) = n
  BY <1>1, <1>3
<1>5. log' = log \o batch
  BY <1>2
<1>6. log \in Seq(Rows)
  BY LogTyped
<1>7. /\ log' \in Seq(Rows)
      /\ Len(log') = Len(log) + n
      /\ \A i \in 1..Len(log) : log'[i] = log[i]
      /\ \A i \in 1..n : log'[Len(log) + i] = batch[i]
  <2> HIDE DEF batch, n
  <2>1. QED
    BY <1>1, <1>4, <1>5, <1>6 DEF n
<1>8. QED
  BY <1>1, <1>2, <1>7

-----------------------------------------------------------------------------
(* Every operation commits well-formed rows and leaves memory alone, but   *)
(* for the disk percentage that UpdateDiskUsage sets first.                *)
Committed ==
    /\ log' \in Seq(Rows)
    /\ Len(log) <= Len(log')
    /\ \A i \in 1..Len(log) : log'[i] = log[i]
    /\ clock' \in Nat
    /\ device' \in Device
    /\ UNCHANGED <<sequence, calls, activeCallID, messages, conversations, rules,
                   recordings, settings>>

(* The step commits nothing, or one row that is about no call or message.  *)
OtherRow ==
    \/ log' = log
    \/ /\ Len(log') = Len(log) + 1
       /\ log'[Len(log) + 1].id \notin CallIDs \cup MessageIDs

LEMMA OtherRowAppended ==
    ASSUME TypeOK, NEW t, NEW x, NEW n, NEW v, appendLocked(t, x, n, v),
           Row(t, x, n, v) \in Rows,
           x \in RuleIDs \cup RecordingIDs \cup {"settings", "device"}
    PROVE  /\ log' \in Seq(Rows)
           /\ Len(log) <= Len(log')
           /\ \A i \in 1..Len(log) : log'[i] = log[i]
           /\ OtherRow
<1>1. x \notin CallIDs \cup MessageIDs
  BY ConstantsAssumption
<1>2. Len(log) \in Nat
  BY LogTyped
<1>3. QED
  BY <1>1, <1>2, AppendRow DEF OtherRow, Row

LEMMA OtherOperationCommits ==
    ASSUME TypeOK, RuleStep \/ RecordingStep \/ SettingsStep \/ DeviceStep
    PROVE  Committed /\ OtherRow
<1> USE DEF TypeOK
<1>1. ASSUME NEW v \in RuleWrites, UpsertRule(v)
      PROVE  Committed /\ OtherRow
  <2> DEFINE n == IF rules[v.id] = None THEN 1 ELSE rules[v.id].createdAt + 1
  <2>1. v \in Rule /\ v.id \in RuleIDs /\ n \in Nat
    BY DEF RuleWrites, Rule
  <2>2. Row("rule.upserted", v.id, n, v) \in Rows
    <3> HIDE DEF n
    <3>1. QED BY <2>1 DEF Row, Rows, RuleRows
  <2>3. QED
    BY <1>1, <2>1, <2>2, OtherRowAppended DEF UpsertRule, Committed, OtherRow, memory
<1>2. ASSUME NEW r \in RuleIDs, DeleteRule(r)
      PROVE  Committed /\ OtherRow
  <2>1. Row("rule.deleted", r, Now, None) \in Rows
    BY DEF Row, Rows, RuleRows, Now
  <2>2. QED
    BY <1>2, <2>1, OtherRowAppended DEF DeleteRule, Committed, OtherRow, memory, Tick, Now
<1>3. ASSUME NEW r \in RecordingIDs, UpsertRecording([id |-> r])
      PROVE  Committed /\ OtherRow
  <2>1. Row("recording.upserted", r, Now, [id |-> r]) \in Rows
    BY DEF Row, Rows, RecordingRows, Now, Recording
  <2>2. QED
    BY <1>3, <2>1, OtherRowAppended DEF UpsertRecording, Committed, OtherRow, memory, Tick, Now
<1>4. ASSUME NEW r \in RecordingIDs, DeleteRecording(r)
      PROVE  Committed /\ OtherRow
  <2>1. Row("recording.deleted", r, Now, None) \in Rows
    BY DEF Row, Rows, RecordingRows, Now
  <2>2. QED
    BY <1>4, <2>1, OtherRowAppended DEF DeleteRecording, Committed, OtherRow, memory, Tick, Now
<1>5. ASSUME NEW v \in Settings, UpdateSettings(v)
      PROVE  Committed /\ OtherRow
  <2>1. encryptSettings(v) \in SealedSettings
    BY DEF encryptSettings, seal, Settings, SealedSettings
  <2>2. Row("settings.updated", "settings", sequence + 1, encryptSettings(v)) \in Rows
    BY <2>1 DEF Row, Rows, SettingsRows
  <2>3. QED
    BY <1>5, <2>2, OtherRowAppended DEF UpdateSettings, Committed, OtherRow, memory
<1>6. ASSUME NEW v \in Device, UpdateDevice(v)
      PROVE  Committed /\ OtherRow
  <2>1. Row("device.updated", "device", sequence + 1, v) \in Rows
    BY DEF Row, Rows, DeviceRows
  <2>2. QED
    BY <1>6, <2>1, OtherRowAppended DEF UpdateDevice, Committed, OtherRow, memory
<1>7. ASSUME NEW p \in Percents, UpdateDiskUsage(p)
       PROVE  Committed /\ OtherRow
  <2>1. [device EXCEPT !.disk = p] \in Device
    BY DEF Device
  <2>2. Row("device.updated", "device", sequence + 1, [device EXCEPT !.disk = p]) \in Rows
    BY <2>1 DEF Row, Rows, DeviceRows
  <2>3. CASE appendLocked("device.updated", "device", sequence + 1, [device EXCEPT !.disk = p])
    BY <1>7, <2>1, <2>2, <2>3, OtherRowAppended DEF UpdateDiskUsage, Committed, OtherRow
  <2>4. CASE UNCHANGED log
    BY <1>7, <2>1, <2>4 DEF UpdateDiskUsage, Committed, OtherRow
  <2>5. QED
    BY <1>7, <2>3, <2>4 DEF UpdateDiskUsage
<1>8. QED
  BY <1>1, <1>2, <1>3, <1>4, <1>5, <1>6, <1>7
  DEF RuleStep, RecordingStep, SettingsStep, DeviceStep

Operation ==
    \/ CallStep \/ MessageStep \/ MarkAllMessagesRead \/ RuleStep
    \/ RecordingStep \/ SettingsStep \/ DeviceStep

(* The row a call or message writer commits.                               *)
LEMMA CallAppended ==
    ASSUME TypeOK, NEW v \in CallWrites, UpsertCall(v)
    PROVE  /\ log' \in Seq(Rows)
           /\ Len(log') = Len(log) + 1
           /\ \A i \in 1..Len(log) : log'[i] = log[i]
           /\ log'[Len(log) + 1].id = v.id
           /\ log'[Len(log) + 1].version = OneVersion(v.version)
<1> DEFINE n == OneVersion(v.version)
           w == [v EXCEPT !.version = n]
<1>1. v.id \in CallIDs /\ n \in Nat /\ w \in Call /\ w.id = v.id /\ w.version = n
  BY DEF CallWrites, Call, OneVersion, Versions
<1>2. appendLocked("call.upserted", v.id, n, w)
  BY DEF UpsertCall
<1> HIDE DEF n, w
<1>3. Row("call.upserted", v.id, n, w) \in Rows
  BY <1>1 DEF Row, Rows, CallRows
<1>4. QED
  BY <1>2, <1>3, AppendRow DEF Row, n

LEMMA MessageAppended ==
    ASSUME TypeOK, NEW v \in MessageWrites, UpsertMessage(v)
    PROVE  /\ log' \in Seq(Rows)
           /\ Len(log') = Len(log) + 1
           /\ \A i \in 1..Len(log) : log'[i] = log[i]
           /\ log'[Len(log) + 1].id = v.id
           /\ log'[Len(log) + 1].version = OneVersion(v.version)
           /\ log'[Len(log) + 1].val.number = v.number
<1> DEFINE n == OneVersion(v.version)
           w == [v EXCEPT !.version = n]
<1>1. /\ v.id \in MessageIDs /\ n \in Nat /\ w \in Message /\ w.id = v.id /\ w.version = n
      /\ w.number = v.number
  BY DEF MessageWrites, Message, OneVersion, Versions
<1>2. appendLocked("message.upserted", v.id, n, w)
  BY DEF UpsertMessage
<1> HIDE DEF n, w
<1>3. Row("message.upserted", v.id, n, w) \in Rows
  BY <1>1 DEF Row, Rows, MessageRows
<1>4. QED
  BY <1>1, <1>2, <1>3, AppendRow DEF Row, n

LEMMA OperationCommits ==
    ASSUME TypeOK, Operation
    PROVE  Committed
<1> USE DEF TypeOK
<1>1. ASSUME NEW v \in CallWrites, UpsertCall(v)
      PROVE  Committed
  BY <1>1, CallAppended DEF UpsertCall, Committed, memory
<1>2. ASSUME NEW v \in MessageWrites, UpsertMessage(v)
      PROVE  Committed
  BY <1>2, MessageAppended DEF UpsertMessage, Committed, memory
<1>3. ASSUME MarkAllMessagesRead
      PROVE  Committed
  <2>1. /\ Cardinality(UnreadIncoming) \in Nat
        /\ log' \in Seq(Rows)
        /\ Len(log') = Len(log) + Cardinality(UnreadIncoming)
        /\ \A i \in 1..Len(log) : log'[i] = log[i]
    BY <1>3, BatchRows
  <2>2. UNCHANGED <<sequence, memory, clock>>
    BY <1>3 DEF MarkAllMessagesRead
  <2>3. Len(log) <= Len(log')
    BY <2>1
  <2>4. QED
    BY <2>1, <2>2, <2>3 DEF Committed, memory
<1>4. CASE RuleStep \/ RecordingStep \/ SettingsStep \/ DeviceStep
  BY <1>4, OtherOperationCommits
<1>5. QED
  BY <1>1, <1>2, <1>3, <1>4 DEF Operation, CallStep, MessageStep

(* The step of apply() on a typed row keeps memory typed.                  *)
LEMMA ApplyType ==
    ASSUME TypeOK, Apply
    PROVE  TypeOK'
<1> DEFINE e == log[sequence + 1]
<1> USE DEF TypeOK
<1>1. sequence + 1 \in 1..Len(log) /\ e \in Rows
  BY DEF Apply
<1>2. /\ log' \in Seq(Rows) /\ sequence' \in 0..Len(log') /\ clock' \in Nat
  BY <1>1 DEF Apply
<1> HIDE DEF e
<1>3. CASE applyCall(e)
  <2>1. e.id \in CallIDs /\ e.val \in Call /\ e.val.id = e.id
    BY <1>1, <1>3 DEF applyCall, Rows, CallRows, MessageRows, RuleRows, RecordingRows,
                      SettingsRows, DeviceRows
  <2>2. QED
    BY <1>2, <1>3, <2>1 DEF applyCall, Call
<1>4. CASE applyMessage(e)
  <2>1. e.id \in MessageIDs /\ e.val \in Message /\ e.val.id = e.id /\ e.val.number \in Numbers
    BY <1>1, <1>4 DEF applyMessage, Rows, CallRows, MessageRows, RuleRows, RecordingRows,
                      SettingsRows, DeviceRows, Message
  <2>2. Unread(messages', e.val.number) \in Nat
    BY UnreadType
  <2>3. QED
    BY <1>2, <1>4, <2>1, <2>2 DEF applyMessage, Message
<1>5. CASE applyRule(e)
  <2>1. e.id \in RuleIDs /\ e.val \in Rule \cup {None}
    BY <1>1, <1>5 DEF applyRule, Rows, CallRows, MessageRows, RuleRows, RecordingRows,
                      SettingsRows, DeviceRows
  <2>2. QED
    BY <1>2, <1>5, <2>1 DEF applyRule
<1>6. CASE applyRecording(e)
  <2>1. e.id \in RecordingIDs /\ e.val \in Recording \cup {None}
    BY <1>1, <1>6 DEF applyRecording, Rows, CallRows, MessageRows, RuleRows, RecordingRows,
                      SettingsRows, DeviceRows
  <2>2. QED
    BY <1>2, <1>6, <2>1 DEF applyRecording
<1>7. CASE applySettings(e)
  <2>1. e.val \in SealedSettings
    BY <1>1, <1>7 DEF applySettings, Rows, CallRows, MessageRows, RuleRows, RecordingRows,
                      SettingsRows, DeviceRows
  <2>2. settings' \in Settings
    BY <1>7, <2>1 DEF applySettings, mergeSettings, decryptSettings, open, Settings,
                      SealedSettings
  <2>3. QED
    BY <1>2, <1>7, <2>2 DEF applySettings
<1>8. CASE applyDevice(e)
  <2>1. e.val \in Device
    BY <1>1, <1>8 DEF applyDevice, Rows, CallRows, MessageRows, RuleRows, RecordingRows,
                      SettingsRows, DeviceRows
  <2>2. QED
    BY <1>2, <1>8, <2>1 DEF applyDevice
<1>9. QED
  BY <1>3, <1>4, <1>5, <1>6, <1>7, <1>8 DEF Apply, apply, e

(* The memory OpenWithKey starts from is typed.                            *)
LEMMA EmptyType ==
    /\ Empty(CallIDs) \in [CallIDs -> Call \cup {None}]
    /\ Empty(MessageIDs) \in [MessageIDs -> Message \cup {None}]
    /\ Empty(Numbers) \in [Numbers -> Nat \cup {None}]
    /\ Empty(RuleIDs) \in [RuleIDs -> Rule \cup {None}]
    /\ Empty(RecordingIDs) \in [RecordingIDs -> Recording \cup {None}]
    /\ DefaultSettings \in Settings
    /\ DefaultDevice \in Device
    /\ \A c \in CallIDs : Empty(CallIDs)[c] = None
    /\ \A m \in MessageIDs : Empty(MessageIDs)[m] = None
<1>1. DefaultSettings \in Settings
  BY DEF DefaultSettings, Settings
<1>2. DefaultDevice \in Device
  BY ConstantsAssumption DEF DefaultDevice, Device
<1>3. QED
  BY <1>1, <1>2 DEF Empty

LEMMA RestartType ==
    ASSUME TypeOK, Restart
    PROVE  TypeOK'
BY EmptyType DEF TypeOK, Restart

LEMMA InitType == Init => TypeOK
<1>1. SUFFICES ASSUME Init PROVE TypeOK
  OBVIOUS
<1>2. log \in Seq(Rows) /\ sequence \in 0..Len(log) /\ clock \in Nat
  BY <1>1 DEF Init
<1>3. QED
  BY <1>1, <1>2, EmptyType DEF Init, TypeOK

(* The steps of the store: an operation commits, a row is applied, or the  *)
(* process restarts.                                                       *)
LEMMA NextCases ==
    Next <=> Operation \/ Apply \/ Restart
BY DEF Next, Operation

LEMMA TypeStep ==
    ASSUME TypeOK, [Next]_vars
    PROVE  TypeOK'
<1>1. CASE Operation
  BY <1>1, OperationCommits DEF Committed, TypeOK
<1>2. CASE Apply
  BY <1>2, ApplyType
<1>3. CASE Restart
  BY <1>3, RestartType
<1>4. CASE UNCHANGED vars
  BY <1>4 DEF vars, memory, TypeOK
<1>5. QED
  BY <1>1, <1>2, <1>3, <1>4, NextCases

(* The table and the projection stay well typed, whatever the callers      *)
(* write and wherever the process dies.                                    *)
THEOREM TypeCorrect == Spec => []TypeOK
<1>1. Init => TypeOK
  BY InitType
<1>2. TypeOK /\ [Next]_vars => TypeOK'
  BY TypeStep
<1>3. QED
  BY <1>1, <1>2, PTL DEF Spec

-----------------------------------------------------------------------------
(* Rows committed after the applied ones do not matter.                    *)
LEMMA ProjectionPrefix ==
    ASSUME NEW l, NEW l2, NEW s \in Nat, NEW table, NEW ids,
           \A i \in 1..s : l2[i] = l[i],
           Projection(l, s, table, ids)
    PROVE  Projection(l2, s, table, ids)
BY DEF Projection

(* Applying the next row to its own entry keeps the projection ...         *)
LEMMA ProjectionApply ==
    ASSUME NEW l, NEW s \in Nat, NEW table, NEW ids, NEW V, table \in [ids -> V],
           Projection(l, s, table, ids)
    PROVE  Projection(l, s + 1, [table EXCEPT ![l[s + 1].id] = l[s + 1].val], ids)
<1> DEFINE e == l[s + 1]
           t == [table EXCEPT ![l[s + 1].id] = l[s + 1].val]
<1>1. \A x \in ids : x # e.id => t[x] = table[x]
  OBVIOUS
<1>2. \A x \in ids : x = e.id => t[x] = e.val
  OBVIOUS
<1> HIDE DEF t
<1>3. SUFFICES ASSUME NEW x \in ids
               PROVE  \/ t[x] = None /\ \A i \in 1..(s + 1) : l[i].id # x
                      \/ \E i \in 1..(s + 1) :
                            /\ l[i].id = x
                            /\ \A j \in (i + 1)..(s + 1) : l[j].id # x
                            /\ t[x] = l[i].val
  BY DEF Projection, t
<1>4. CASE x = e.id
  BY <1>2, <1>4
<1>5. CASE x # e.id /\ table[x] = None /\ \A i \in 1..s : l[i].id # x
  BY <1>1, <1>5
<1>6. CASE x # e.id /\ \E i \in 1..s :
                          /\ l[i].id = x
                          /\ \A j \in (i + 1)..s : l[j].id # x
                          /\ table[x] = l[i].val
  BY <1>1, <1>6
<1>7. QED
  BY <1>4, <1>5, <1>6 DEF Projection

(* ... and so does leaving alone a table that has no entry for the row.    *)
LEMMA ProjectionSkip ==
    ASSUME NEW l, NEW s \in Nat, NEW table, NEW ids, l[s + 1].id \notin ids,
           Projection(l, s, table, ids)
    PROVE  Projection(l, s + 1, table, ids)
<1>1. SUFFICES ASSUME NEW x \in ids
               PROVE  \/ table[x] = None /\ \A i \in 1..(s + 1) : l[i].id # x
                      \/ \E i \in 1..(s + 1) :
                            /\ l[i].id = x
                            /\ \A j \in (i + 1)..(s + 1) : l[j].id # x
                            /\ table[x] = l[i].val
  BY DEF Projection
<1>2. l[s + 1].id # x
  OBVIOUS
<1>3. CASE table[x] = None /\ \A i \in 1..s : l[i].id # x
  BY <1>2, <1>3
<1>4. CASE \E i \in 1..s :
             /\ l[i].id = x
             /\ \A j \in (i + 1)..s : l[j].id # x
             /\ table[x] = l[i].val
  BY <1>2, <1>4
<1>5. QED
  BY <1>3, <1>4 DEF Projection

(* Which kind of entity a row of each type is about.                       *)
LEMMA RowKinds ==
    ASSUME NEW e \in Rows
    PROVE  /\ e.type = "call.upserted" <=> e.id \in CallIDs
           /\ e.type = "message.upserted" <=> e.id \in MessageIDs
           /\ e.type \in {"rule.upserted", "rule.deleted"} <=> e.id \in RuleIDs
           /\ e.type \in {"recording.upserted", "recording.deleted"} <=> e.id \in RecordingIDs
           /\ e.id \in CallIDs => e \in CallRows
           /\ e.id \in MessageIDs => e \in MessageRows
<1>1. e \in CallRows \/ e \in MessageRows \/ e \in RuleRows \/ e \in RecordingRows
      \/ e \in SettingsRows \/ e \in DeviceRows
  BY DEF Rows
<1>2. CASE e \in CallRows
  BY <1>2, ConstantsAssumption DEF CallRows
<1>3. CASE e \in MessageRows
  BY <1>3, ConstantsAssumption DEF MessageRows
<1>4. CASE e \in RuleRows
  BY <1>4, ConstantsAssumption DEF RuleRows
<1>5. CASE e \in RecordingRows
  BY <1>5, ConstantsAssumption DEF RecordingRows
<1>6. CASE e \in SettingsRows
  BY <1>6, ConstantsAssumption DEF SettingsRows
<1>7. CASE e \in DeviceRows
  BY <1>7, ConstantsAssumption DEF DeviceRows
<1>8. QED
  BY <1>1, <1>2, <1>3, <1>4, <1>5, <1>6, <1>7

LEMMA ProjectedStep ==
    ASSUME TypeOK, RowsProjected, [Next]_vars
    PROVE  RowsProjected'
<1>1. sequence \in Nat /\ log \in Seq(Rows)
  BY LogTyped
<1>2. CASE Operation
  <2>1. /\ \A i \in 1..sequence : log'[i] = log[i]
        /\ UNCHANGED <<sequence, calls, messages, rules, recordings>>
    BY <1>2, OperationCommits DEF Committed, TypeOK
  <2>2. QED
    BY <1>1, <2>1, ProjectionPrefix DEF RowsProjected
<1>3. CASE Apply
  <2> DEFINE e == log[sequence + 1]
  <2>1. e \in Rows /\ sequence' = sequence + 1 /\ log' = log /\ apply(e)
    BY <1>1, <1>3 DEF Apply, TypeOK
  <2>2. \/ calls' = calls /\ e.id \notin CallIDs
        \/ calls' = [calls EXCEPT ![e.id] = e.val]
    BY <2>1, RowKinds DEF apply, applyCall, applyMessage, applyRule, applyRecording,
                          applySettings, applyDevice
  <2>3. \/ messages' = messages /\ e.id \notin MessageIDs
        \/ messages' = [messages EXCEPT ![e.id] = e.val]
    BY <2>1, RowKinds DEF apply, applyCall, applyMessage, applyRule, applyRecording,
                          applySettings, applyDevice
  <2>4. \/ rules' = rules /\ e.id \notin RuleIDs
        \/ rules' = [rules EXCEPT ![e.id] = e.val]
    BY <2>1, RowKinds DEF apply, applyCall, applyMessage, applyRule, applyRecording,
                          applySettings, applyDevice
  <2>5. \/ recordings' = recordings /\ e.id \notin RecordingIDs
        \/ recordings' = [recordings EXCEPT ![e.id] = e.val]
    BY <2>1, RowKinds DEF apply, applyCall, applyMessage, applyRule, applyRecording,
                          applySettings, applyDevice
  <2>6. Projection(log, sequence + 1, calls', CallIDs)
    <3>1. calls \in [CallIDs -> Call \cup {None}] /\ Projection(log, sequence, calls, CallIDs)
      BY DEF TypeOK, RowsProjected
    <3>2. CASE calls' = calls /\ e.id \notin CallIDs
      BY <1>1, <3>1, <3>2, ProjectionSkip
    <3>3. CASE calls' = [calls EXCEPT ![e.id] = e.val]
      BY <1>1, <3>1, <3>3, ProjectionApply
    <3>4. QED
      BY <2>2, <3>2, <3>3
  <2>7. Projection(log, sequence + 1, messages', MessageIDs)
    <3>1. messages \in [MessageIDs -> Message \cup {None}] /\ Projection(log, sequence, messages, MessageIDs)
      BY DEF TypeOK, RowsProjected
    <3>2. CASE messages' = messages /\ e.id \notin MessageIDs
      BY <1>1, <3>1, <3>2, ProjectionSkip
    <3>3. CASE messages' = [messages EXCEPT ![e.id] = e.val]
      BY <1>1, <3>1, <3>3, ProjectionApply
    <3>4. QED
      BY <2>3, <3>2, <3>3
  <2>8. Projection(log, sequence + 1, rules', RuleIDs)
    <3>1. rules \in [RuleIDs -> Rule \cup {None}] /\ Projection(log, sequence, rules, RuleIDs)
      BY DEF TypeOK, RowsProjected
    <3>2. CASE rules' = rules /\ e.id \notin RuleIDs
      BY <1>1, <3>1, <3>2, ProjectionSkip
    <3>3. CASE rules' = [rules EXCEPT ![e.id] = e.val]
      BY <1>1, <3>1, <3>3, ProjectionApply
    <3>4. QED
      BY <2>4, <3>2, <3>3
  <2>9. Projection(log, sequence + 1, recordings', RecordingIDs)
    <3>1. recordings \in [RecordingIDs -> Recording \cup {None}] /\ Projection(log, sequence, recordings, RecordingIDs)
      BY DEF TypeOK, RowsProjected
    <3>2. CASE recordings' = recordings /\ e.id \notin RecordingIDs
      BY <1>1, <3>1, <3>2, ProjectionSkip
    <3>3. CASE recordings' = [recordings EXCEPT ![e.id] = e.val]
      BY <1>1, <3>1, <3>3, ProjectionApply
    <3>4. QED
      BY <2>5, <3>2, <3>3
  <2>10. QED
    BY <2>1, <2>6, <2>7, <2>8, <2>9 DEF RowsProjected
<1>4. CASE Restart
  <2>1. \A ids : Projection(log', 0, Empty(ids), ids)
    BY DEF Projection, Empty
  <2>2. QED
    BY <1>4, <2>1, Zenon DEF Restart, RowsProjected
<1>5. CASE UNCHANGED vars
  BY <1>5 DEF vars, memory, RowsProjected
<1>6. QED
  BY <1>2, <1>3, <1>4, <1>5, NextCases

(* After any crash, at any point of an operation, of a batch or of the     *)
(* replay itself, memory holds for every call, message, rule and recording *)
(* the content of the last applied row about it, and nothing else.         *)
THEOREM MemoryIsProjection == Spec => []RowsProjected
<1>1. Init => RowsProjected
  BY DEF Init, RowsProjected, Projection, Empty
<1>2. TypeOK /\ RowsProjected /\ [Next]_vars => RowsProjected'
  BY ProjectedStep
<1>3. QED
  BY <1>1, <1>2, TypeCorrect, PTL DEF Spec

-----------------------------------------------------------------------------
LEMMA ActivePrefix ==
    ASSUME NEW l, NEW l2, NEW s \in Nat, NEW c, \A i \in 1..s : l2[i] = l[i]
    PROVE  ActiveAfter(l, s, c) <=> ActiveAfter(l2, s, c)
BY DEF ActiveAfter

(* How one more row decides which call is active.                          *)
LEMMA ActiveNext ==
    ASSUME NEW l, NEW s \in Nat, NEW c
    PROVE  ActiveAfter(l, s + 1, c) <=>
              \/ LiveRow(l[s + 1]) /\ l[s + 1].id = c
              \/ ~LiveRow(l[s + 1]) /\ l[s + 1].id # c /\ ActiveAfter(l, s, c)
<1>1. ASSUME LiveRow(l[s + 1]), l[s + 1].id = c
      PROVE  ActiveAfter(l, s + 1, c)
  BY <1>1 DEF ActiveAfter
<1>2. ASSUME ~LiveRow(l[s + 1]), l[s + 1].id # c, ActiveAfter(l, s, c)
      PROVE  ActiveAfter(l, s + 1, c)
  BY <1>2 DEF ActiveAfter
<1>3. ASSUME ActiveAfter(l, s + 1, c)
      PROVE  \/ LiveRow(l[s + 1]) /\ l[s + 1].id = c
             \/ ~LiveRow(l[s + 1]) /\ l[s + 1].id # c /\ ActiveAfter(l, s, c)
  BY <1>3 DEF ActiveAfter
<1>4. QED
  BY <1>1, <1>2, <1>3

(* Without rows no call is active.                                         *)
LEMMA ActiveNone == \A l, c : ~ActiveAfter(l, 0, c)
BY DEF ActiveAfter

LEMMA ActiveStep ==
    ASSUME TypeOK, ActiveProjected, [Next]_vars
    PROVE  ActiveProjected'
<1>1. sequence \in Nat /\ log \in Seq(Rows)
  BY LogTyped
<1>2. CASE Operation
  <2>1. /\ \A i \in 1..sequence : log'[i] = log[i]
        /\ UNCHANGED <<sequence, activeCallID>>
    BY <1>2, OperationCommits DEF Committed, TypeOK
  <2>2. QED
    BY <1>1, <2>1, ActivePrefix DEF ActiveProjected
<1>3. CASE Apply
  <2> DEFINE e == log[sequence + 1]
  <2>1. e \in Rows /\ sequence' = sequence + 1 /\ log' = log /\ apply(e)
    BY <1>1, <1>3 DEF Apply, TypeOK
  <2>2. SUFFICES ASSUME NEW c \in CallIDs
                 PROVE  activeCallID' = c <=>
                            \/ LiveRow(e) /\ e.id = c
                            \/ ~LiveRow(e) /\ e.id # c /\ activeCallID = c
    BY <1>1, <2>1, ActiveNext DEF ActiveProjected
  <2>3. None \notin CallIDs
    BY ConstantsAssumption
  <2> HIDE DEF e
  <2>4. CASE applyCall(e)
    BY <2>3, <2>4 DEF applyCall, LiveRow
  <2>5. CASE e.type # "call.upserted" /\ activeCallID' = activeCallID
    BY <2>1, <2>5, RowKinds DEF LiveRow
  <2>6. QED
    BY <2>1, <2>4, <2>5 DEF apply, applyMessage, applyRule, applyRecording, applySettings,
                            applyDevice
<1>4. CASE Restart
  <2>1. None \notin CallIDs
    BY ConstantsAssumption
  <2>2. activeCallID' = None /\ sequence' = 0
    BY <1>4 DEF Restart
  <2>3. QED
    BY <2>1, <2>2, ActiveNone DEF ActiveProjected
<1>5. CASE UNCHANGED vars
  BY <1>5 DEF vars, memory, ActiveProjected
<1>6. QED
  BY <1>2, <1>3, <1>4, <1>5, NextCases

(* Which call is active is decided by the durable rows alone, so a restart *)
(* finds the call that was active before it.                               *)
THEOREM ActiveIsProjection == Spec => []ActiveProjected
<1>1. Init => ActiveProjected
  <2>1. None \notin CallIDs
    BY ConstantsAssumption
  <2>2. QED
    BY <2>1, ActiveNone DEF Init, ActiveProjected
<1>2. TypeOK /\ ActiveProjected /\ [Next]_vars => ActiveProjected'
  BY ActiveStep
<1>3. QED
  BY <1>1, <1>2, TypeCorrect, PTL DEF Spec

(* ActiveCall() never hands out a call that has ended.                     *)
THEOREM ActiveCallIsLive == Spec => []ActiveIsLive
<1>1. TypeOK /\ RowsProjected /\ ActiveProjected => ActiveIsLive
  <2>1. SUFFICES ASSUME TypeOK, RowsProjected, ActiveProjected, activeCallID # None
                 PROVE  /\ calls[activeCallID] # None
                        /\ calls[activeCallID].state \in LiveStates
    BY DEF ActiveIsLive
  <2>2. activeCallID \in CallIDs /\ log \in Seq(Rows) /\ sequence \in 0..Len(log)
    BY <2>1 DEF TypeOK
  <2>3. PICK i \in 1..sequence :
            /\ LiveRow(log[i]) /\ log[i].id = activeCallID
            /\ \A j \in (i + 1)..sequence : log[j].id # activeCallID
    BY <2>1, <2>2 DEF ActiveProjected, ActiveAfter
  <2>4. PICK k \in 1..sequence :
            /\ log[k].id = activeCallID
            /\ \A j \in (k + 1)..sequence : log[j].id # activeCallID
            /\ calls[activeCallID] = log[k].val
    BY <2>1, <2>2, <2>3 DEF RowsProjected, Projection
  <2>5. k = i
    <3>1. i \in Int /\ k \in Int /\ i <= sequence /\ k <= sequence /\ sequence \in Int
      BY <2>2
    <3>2. CASE k < i
      <4>1. i \in (k + 1)..sequence
        BY <3>1, <3>2
      <4>2. QED
        BY <2>3, <2>4, <4>1
    <3>3. CASE i < k
      <4>1. k \in (i + 1)..sequence
        BY <3>1, <3>3
      <4>2. QED
        BY <2>3, <2>4, <4>1
    <3>4. QED
      BY <3>1, <3>2, <3>3
  <2>6. log[i] \in CallRows
    BY <2>2, <2>3, RowKinds
  <2>7. QED
    BY <2>3, <2>4, <2>5, <2>6, ConstantsAssumption DEF LiveRow, CallRows
<1>2. QED
  BY <1>1, TypeCorrect, MemoryIsProjection, ActiveIsProjection, PTL

-----------------------------------------------------------------------------
(* Adding rows that follow the rows before them keeps the numbering.       *)
LEMMA FollowsPrefix ==
    ASSUME NEW l \in Seq(Rows), NEW l2 \in Seq(Rows), Len(l) <= Len(l2),
           \A i \in 1..Len(l) : l2[i] = l[i],
           NEW j \in 1..Len(l), Follows(l, j)
    PROVE  Follows(l2, j)
<1>1. \A i \in 1..j : l2[i] = l[i]
  OBVIOUS
<1>2. \A i \in 1..(j - 1) : i \in 1..j
  OBVIOUS
<1>3. CASE l[j].version = 1 /\ \A i \in 1..(j - 1) : l[i].id # l[j].id
  <2>1. l2[j].version = 1 /\ \A i \in 1..(j - 1) : l2[i].id # l2[j].id
    BY <1>1, <1>2, <1>3
  <2>2. QED
    BY <2>1 DEF Follows
<1>4. ASSUME NEW i \in 1..(j - 1), l[i].id = l[j].id, l[j].version = l[i].version + 1,
             \A k \in (i + 1)..(j - 1) : l[k].id # l[j].id
      PROVE  Follows(l2, j)
  <2>1. \A k \in (i + 1)..(j - 1) : l2[k].id # l2[j].id
    BY <1>1, <1>4
  <2>2. l2[i].id = l2[j].id /\ l2[j].version = l2[i].version + 1
    BY <1>1, <1>4
  <2>3. QED
    BY <2>1, <2>2 DEF Follows
<1>5. QED
  BY <1>3, <1>4 DEF Follows

LEMMA VersionsExtend ==
    ASSUME TypeOK, VersionsContiguous,
           log' \in Seq(Rows), Len(log) <= Len(log'),
           \A i \in 1..Len(log) : log'[i] = log[i],
           \A j \in (Len(log) + 1)..Len(log') :
              log'[j].id \in CallIDs \cup MessageIDs => Follows(log', j)
    PROVE  VersionsContiguous'
<1>1. log \in Seq(Rows) /\ Len(log) \in Nat /\ Len(log') \in Nat
  BY LogTyped
<1>2. SUFFICES ASSUME NEW j \in 1..Len(log'), log'[j].id \in CallIDs \cup MessageIDs
               PROVE  Follows(log', j)
  BY DEF VersionsContiguous
<1>3. CASE j \in 1..Len(log)
  BY <1>1, <1>2, <1>3, FollowsPrefix DEF VersionsContiguous
<1>4. QED
  BY <1>1, <1>2, <1>3

(* A row's content repeats the row's version, for calls and for messages.  *)
LEMMA ContentVersion ==
    ASSUME NEW e \in Rows, e.id \in CallIDs \cup MessageIDs
    PROVE  e.val # None /\ e.val.version = e.version
BY RowKinds, ConstantsAssumption, ZenonT(60) DEF CallRows, MessageRows

(* The row a writer adds for an entity of a table that memory projects is   *)
(* version 1 of an absent entity, or one more than the version in memory.   *)
LEMMA NewRowFollows ==
    ASSUME TypeOK,
           log' \in Seq(Rows), Len(log) <= Len(log'),
           \A i \in 1..Len(log) : log'[i] = log[i],
           NEW table, NEW ids, ids \subseteq CallIDs \cup MessageIDs,
           Projection(log, Len(log), table, ids),
           NEW j \in (Len(log) + 1)..Len(log'), log'[j].id \in ids,
           \A k \in (Len(log) + 1)..(j - 1) : log'[k].id # log'[j].id,
           IF table[log'[j].id] = None
           THEN log'[j].version = 1
           ELSE log'[j].version = table[log'[j].id].version + 1
    PROVE  Follows(log', j)
<1> DEFINE s == Len(log)
           x == log'[j].id
<1>0. log \in Seq(Rows) /\ s \in Nat /\ x \in ids
  BY LogTyped
<1>1. \A i \in 1..s : log[i].id = x =>
          log[i].val # None /\ log[i].val.version = log[i].version
  BY <1>0, ContentVersion, SMTT(60)
<1>2. CASE table[x] = None /\ \A i \in 1..s : log[i].id # x
  <2>1. \A i \in 1..(j - 1) : log'[i].id # x
    BY <1>0, <1>2
  <2>2. QED
    BY <1>2, <2>1 DEF Follows
<1>3. ASSUME NEW i \in 1..s, log[i].id = x, \A k \in (i + 1)..s : log[k].id # x,
             table[x] = log[i].val
      PROVE  Follows(log', j)
  <2>1. log'[j].version = log'[i].version + 1 /\ log'[i].id = x
    BY <1>0, <1>1, <1>3
  <2>2. \A k \in (i + 1)..(j - 1) : log'[k].id # x
    BY <1>0, <1>3
  <2>3. i \in 1..(j - 1)
    BY <1>0, <1>3
  <2>4. QED
    BY <2>1, <2>2, <2>3 DEF Follows
<1>4. QED
  BY <1>0, <1>2, <1>3 DEF Projection

LEMMA VersionsStep ==
    ASSUME TypeOK, RowsProjected, VersionsContiguous, [Next]_vars
    PROVE  VersionsContiguous'
<1>1. log \in Seq(Rows) /\ Len(log) \in Nat
  BY LogTyped
<1>2. CallIDs \subseteq CallIDs \cup MessageIDs /\ MessageIDs \subseteq CallIDs \cup MessageIDs
  OBVIOUS
<1>3. ASSUME NEW v \in CallWrites, UpsertCall(v)
      PROVE  VersionsContiguous'
  <2> DEFINE k == Len(log) + 1
  <2>1. /\ log' \in Seq(Rows) /\ Len(log') = k
        /\ log'[k].id = v.id /\ log'[k].version = OneVersion(v.version)
        /\ \A i \in 1..Len(log) : log'[i] = log[i]
    BY <1>3, CallAppended
  <2>2. v.id \in CallIDs /\ sequence = Len(log) /\ Projection(log, Len(log), calls, CallIDs)
    BY <1>3 DEF UpsertCall, Ready, CallWrites, RowsProjected
  <2>3. IF calls[v.id] = None THEN OneVersion(v.version) = 1
        ELSE OneVersion(v.version) = calls[v.id].version + 1
    BY <1>3, <2>2, VersionsTyped DEF UpsertCall, CallWrites, OneVersion
  <2>4. Follows(log', k)
    <3>1. /\ k \in (Len(log) + 1)..Len(log') /\ Len(log) <= Len(log')
          /\ \A j \in (Len(log) + 1)..(k - 1) : log'[j].id # log'[k].id
      BY <1>1, <2>1
    <3>2. IF calls[log'[k].id] = None THEN log'[k].version = 1
          ELSE log'[k].version = calls[log'[k].id].version + 1
      BY <2>1, <2>3, Zenon
    <3>3. log'[k].id \in CallIDs
      BY <2>1, <2>2
    <3> HIDE DEF k
    <3>4. QED
      BY <1>2, <2>1, <2>2, <3>1, <3>2, <3>3, NewRowFollows
  <2>5. QED
    BY <1>1, <2>1, <2>4, VersionsExtend
<1>4. ASSUME NEW v \in MessageWrites, UpsertMessage(v)
      PROVE  VersionsContiguous'
  <2> DEFINE k == Len(log) + 1
  <2>1. /\ log' \in Seq(Rows) /\ Len(log') = k
        /\ log'[k].id = v.id /\ log'[k].version = OneVersion(v.version)
        /\ \A i \in 1..Len(log) : log'[i] = log[i]
    BY <1>4, MessageAppended
  <2>2. v.id \in MessageIDs /\ sequence = Len(log) /\ Projection(log, Len(log), messages, MessageIDs)
    BY <1>4 DEF UpsertMessage, Ready, MessageWrites, RowsProjected
  <2>3. IF messages[v.id] = None THEN OneVersion(v.version) = 1
        ELSE OneVersion(v.version) = messages[v.id].version + 1
    BY <1>4, <2>2, VersionsTyped DEF UpsertMessage, MessageWrites, OneVersion
  <2>4. Follows(log', k)
    <3>1. /\ k \in (Len(log) + 1)..Len(log') /\ Len(log) <= Len(log')
          /\ \A j \in (Len(log) + 1)..(k - 1) : log'[j].id # log'[k].id
      BY <1>1, <2>1
    <3>2. IF messages[log'[k].id] = None THEN log'[k].version = 1
          ELSE log'[k].version = messages[log'[k].id].version + 1
      BY <2>1, <2>3, Zenon
    <3>3. log'[k].id \in MessageIDs
      BY <2>1, <2>2
    <3> HIDE DEF k
    <3>4. QED
      BY <1>2, <2>1, <2>2, <3>1, <3>2, <3>3, NewRowFollows
  <2>5. QED
    BY <1>1, <2>1, <2>4, VersionsExtend
<1>5. ASSUME MarkAllMessagesRead
      PROVE  VersionsContiguous'
  <2>1. PICK order \in [1..Cardinality(UnreadIncoming) -> UnreadIncoming] :
            /\ Cardinality(UnreadIncoming) \in Nat
            /\ \A i, j \in 1..Cardinality(UnreadIncoming) : order[i] = order[j] => i = j
            /\ log' \in Seq(Rows)
            /\ Len(log') = Len(log) + Cardinality(UnreadIncoming)
            /\ \A i \in 1..Len(log) : log'[i] = log[i]
            /\ \A i \in 1..Cardinality(UnreadIncoming) :
                  log'[Len(log) + i] = ReadRow(order[i])
    BY <1>5, BatchRows
  <2> DEFINE n == Cardinality(UnreadIncoming)
  <2>2. sequence = Len(log) /\ Projection(log, Len(log), messages, MessageIDs)
    BY <1>5 DEF MarkAllMessagesRead, Ready, RowsProjected
  <2>3. ASSUME NEW i \in 1..n
        PROVE  /\ log'[Len(log) + i].id = order[i]
               /\ log'[Len(log) + i].version = messages[order[i]].version + 1
    BY <2>1, ReadRowType
  <2>4. ASSUME NEW i \in 1..n
        PROVE  Follows(log', Len(log) + i)
    <3> DEFINE j == Len(log) + i
               x == order[i]
    <3>1. x \in MessageIDs /\ messages[x] # None
      BY <2>1 DEF UnreadIncoming
    <3>2. j \in 1..Len(log') /\ Len(log) < j /\ Len(log) <= Len(log')
      <4>1. Len(log) \in Nat /\ n \in Nat /\ Len(log') = Len(log) + n
        BY <1>1, <2>1
      <4>2. \A l, m \in Nat : \A k \in 1..m : l + k \in 1..(l + m) /\ l < l + k /\ l <= l + m
        OBVIOUS
      <4>3. QED
        BY <4>1, <4>2, Zenon
    <3>3. \A k \in (Len(log) + 1)..(j - 1) : log'[k].id # x
      <4>1. SUFFICES ASSUME NEW k \in (Len(log) + 1)..(j - 1)
                     PROVE  log'[k].id # x
        OBVIOUS
      <4>2. (k - Len(log)) \in 1..n /\ k - Len(log) # i /\ Len(log) + (k - Len(log)) = k
        BY <1>1, <2>1
      <4>3. log'[k].id = order[k - Len(log)]
        BY <2>3, <4>2
      <4>4. QED
        BY <2>1, <4>2, <4>3
    <3>4. log'[j].id = x /\ log'[j].version = messages[x].version + 1
      BY <2>3
    <3>5. j \in (Len(log) + 1)..Len(log')
      BY <1>1, <2>1
    <3>6. IF messages[log'[j].id] = None
          THEN log'[j].version = 1
          ELSE log'[j].version = messages[log'[j].id].version + 1
      BY <3>1, <3>4
    <3>7. log' \in Seq(Rows) /\ \A k \in 1..Len(log) : log'[k] = log[k]
      BY <2>1
    <3> HIDE DEF j, x, n
    <3>8. Follows(log', j)
      BY <1>2, <2>2, <3>1, <3>2, <3>3, <3>4, <3>5, <3>6, <3>7, NewRowFollows
    <3>9. QED
      BY <3>8 DEF j
  <2>5. \A j \in (Len(log) + 1)..Len(log') : Follows(log', j)
    <3>1. SUFFICES ASSUME NEW j \in (Len(log) + 1)..Len(log')
                   PROVE  Follows(log', j)
      OBVIOUS
    <3>2. (j - Len(log)) \in 1..n /\ Len(log) + (j - Len(log)) = j
      BY <1>1, <2>1
    <3>3. QED
      BY <2>4, <3>2
  <2>6. Len(log) <= Len(log')
    BY <1>1, <2>1
  <2>7. log' \in Seq(Rows) /\ \A i \in 1..Len(log) : log'[i] = log[i]
    BY <2>1
  <2>8. QED
    BY <2>5, <2>6, <2>7, VersionsExtend
<1>6. CASE RuleStep \/ RecordingStep \/ SettingsStep \/ DeviceStep
  <2>1. Committed /\ OtherRow
    BY <1>6, OtherOperationCommits
  <2>2. \A j \in (Len(log) + 1)..Len(log') : log'[j].id \notin CallIDs \cup MessageIDs
    BY <1>1, <2>1 DEF OtherRow
  <2>3. QED
    BY <2>1, <2>2, VersionsExtend DEF Committed
<1>7. CASE Apply \/ Restart \/ UNCHANGED vars
  BY <1>7 DEF Apply, Restart, vars, VersionsContiguous
<1>8. QED
  BY <1>3, <1>4, <1>5, <1>6, <1>7 DEF Next, CallStep, MessageStep

(* The rows of a call or message are numbered 1, 2, 3, ...: of two writers *)
(* that start from the same copy one is refused, before and after a        *)
(* restart, and a batch of reads takes one version of each message.        *)
THEOREM VersionsAllotted == Spec => []VersionsContiguous
<1>1. Init => VersionsContiguous
  BY DEF Init, VersionsContiguous
<1>2. TypeOK /\ RowsProjected /\ VersionsContiguous /\ [Next]_vars => VersionsContiguous'
  BY VersionsStep
<1>3. QED
  BY <1>1, <1>2, TypeCorrect, MemoryIsProjection, PTL DEF Spec
-----------------------------------------------------------------------------
NoToken == ""

(* A row that carries a telegram token.                                    *)
SecretRow(e) == e.type = "settings.updated" /\ e.val.token.text # NoToken

(* By the first s rows of l, tok is the token carried last.                *)
SecretAfter(l, s, tok) ==
    /\ (\A i \in 1..s : ~SecretRow(l[i])) => tok = NoToken
    /\ \A i \in 1..s :
          SecretRow(l[i]) /\ (\A j \in (i + 1)..s : ~SecretRow(l[j]))
              => tok = l[i].val.token.text

(* No token lies in the table in clear.                                    *)
SecretsSealed == \A i \in 1..Len(log) : SecretRow(log[i]) => log[i].val.token.enc

LEMMA SecretPrefix ==
    ASSUME NEW l, NEW l2, NEW s \in Nat, NEW tok, \A i \in 1..s : l2[i] = l[i],
           SecretAfter(l, s, tok)
    PROVE  SecretAfter(l2, s, tok)
BY DEF SecretAfter

LEMMA NoTokenAtFirst == DefaultSettings.token = NoToken
BY DEF DefaultSettings, NoToken

(* One more row gives its token, or keeps the one before it.               *)
LEMMA SecretNext ==
    ASSUME NEW l, NEW s \in Nat, NEW tok, SecretAfter(l, s, tok)
    PROVE  SecretAfter(l, s + 1,
               IF SecretRow(l[s + 1]) THEN l[s + 1].val.token.text ELSE tok)
<1>1. CASE SecretRow(l[s + 1])
  BY <1>1 DEF SecretAfter
<1>2. CASE ~SecretRow(l[s + 1])
  BY <1>2 DEF SecretAfter
<1>3. QED
  BY <1>1, <1>2

(* What apply() makes of the token.                                        *)
LEMMA TokenApplied ==
    ASSUME TypeOK, NEW e \in Rows, apply(e)
    PROVE  settings'.token = IF SecretRow(e) THEN e.val.token.text ELSE settings.token
<1>1. CASE applySettings(e)
  <2>1. e.type = "settings.updated" /\ e.val \in SealedSettings
    BY <1>1 DEF applySettings, Rows, CallRows, MessageRows, RuleRows, RecordingRows,
                SettingsRows, DeviceRows
  <2>2. decryptSettings(e.val).token = e.val.token.text
    BY <2>1 DEF decryptSettings, open, SealedSettings
  <2>3. settings'.token = IF e.val.token.text = NoToken THEN settings.token ELSE e.val.token.text
    BY <1>1, <2>2 DEF applySettings, mergeSettings, NoToken
  <2>4. QED
    BY <2>1, <2>3 DEF SecretRow
<1>2. CASE settings' = settings /\ e.type # "settings.updated"
  BY <1>2 DEF SecretRow
<1>3. QED
  BY <1>1, <1>2 DEF apply, applyCall, applyMessage, applyRule, applyRecording, applyDevice

(* The row of an update of the settings is sealed; no other row has a token. *)
LEMMA SealedStep ==
    ASSUME TypeOK, SecretsSealed, [Next]_vars
    PROVE  SecretsSealed'
<1>1. log \in Seq(Rows) /\ Len(log) \in Nat
  BY LogTyped
<1>2. ASSUME NEW v \in Settings, UpdateSettings(v)
      PROVE  SecretsSealed'
  <2> DEFINE w == encryptSettings(v)
  <2>1. w \in SealedSettings /\ (w.token.text # NoToken => w.token.enc)
    BY DEF encryptSettings, seal, Settings, SealedSettings, NoToken
  <2>2. appendLocked("settings.updated", "settings", sequence + 1, w)
    BY <1>2 DEF UpdateSettings
  <2> HIDE DEF w
  <2>3. Row("settings.updated", "settings", sequence + 1, w) \in Rows
    BY <1>1, <2>1, LogTyped DEF Row, Rows, SettingsRows
  <2>4. /\ Len(log') = Len(log) + 1
        /\ \A i \in 1..Len(log) : log'[i] = log[i]
        /\ log'[Len(log) + 1].val = w
    <3>1. /\ Len(log') = Len(log) + 1 /\ \A i \in 1..Len(log) : log'[i] = log[i]
          /\ log'[Len(log) + 1] = Row("settings.updated", "settings", sequence + 1, w)
      BY <2>2, <2>3, AppendRow
    <3>2. QED
      BY <3>1 DEF Row
  <2>5. QED
    BY <1>1, <2>1, <2>4 DEF SecretsSealed, SecretRow
<1>3. ASSUME NEW t, NEW x, NEW n, NEW v, t # "settings.updated", appendLocked(t, x, n, v)
      PROVE  SecretsSealed'
  <2>1. /\ Len(log') = Len(log) + 1
        /\ \A i \in 1..Len(log) : log'[i] = log[i]
        /\ log'[Len(log) + 1].type = t
    BY <1>1, <1>3 DEF appendLocked, Row
  <2>2. QED
    BY <1>1, <1>3, <2>1 DEF SecretsSealed, SecretRow
<1>4. CASE MarkAllMessagesRead
  <2>1. PICK order \in [1..Cardinality(UnreadIncoming) -> UnreadIncoming] :
            /\ Cardinality(UnreadIncoming) \in Nat
            /\ Len(log') = Len(log) + Cardinality(UnreadIncoming)
            /\ \A i \in 1..Len(log) : log'[i] = log[i]
            /\ \A i \in 1..Cardinality(UnreadIncoming) :
                  log'[Len(log) + i] = ReadRow(order[i])
    BY <1>4, BatchRows
  <2> DEFINE n == Cardinality(UnreadIncoming)
  <2>2. \A i \in 1..n : log'[Len(log) + i].type = "message.upserted"
    BY <2>1, ReadRowType DEF MessageRows
  <2>3. ASSUME NEW j \in (Len(log) + 1)..Len(log')
        PROVE  log'[j].type = "message.upserted"
    <3>1. (j - Len(log)) \in 1..n /\ Len(log) + (j - Len(log)) = j
      BY <1>1, <2>1
    <3>2. QED
      BY <2>2, <3>1
  <2>4. ASSUME NEW j \in 1..Len(log'), SecretRow(log'[j])
        PROVE  log'[j].val.token.enc
    <3>1. j \in 1..Len(log) \/ j \in (Len(log) + 1)..Len(log')
      BY <1>1, <2>1
    <3>2. j \notin (Len(log) + 1)..Len(log')
      BY <2>3, <2>4 DEF SecretRow
    <3>3. QED
      BY <2>1, <2>4, <3>1, <3>2 DEF SecretsSealed
  <2>5. QED
    BY <2>4 DEF SecretsSealed
<1>5. CASE CallStep \/ MessageStep \/ RuleStep \/ RecordingStep
  BY <1>3, <1>5 DEF CallStep, MessageStep, RuleStep, RecordingStep, UpsertCall, UpsertMessage,
     UpsertRule, DeleteRule, UpsertRecording, DeleteRecording
<1>6. CASE DeviceStep
  <2>1. CASE \E v \in Device : UpdateDevice(v)
    BY <1>3, <2>1 DEF UpdateDevice
  <2>2. CASE \E p \in Percents : UpdateDiskUsage(p)
    BY <1>3, <2>2 DEF UpdateDiskUsage, SecretsSealed
  <2>3. QED
    BY <1>6, <2>1, <2>2 DEF DeviceStep
<1>7. CASE Apply \/ Restart \/ UNCHANGED vars
  BY <1>7 DEF Apply, Restart, vars, SecretsSealed
<1>8. QED
  BY <1>2, <1>4, <1>5, <1>6, <1>7 DEF Next, SettingsStep

LEMMA SecretStep ==
    ASSUME TypeOK, SecretAfter(log, sequence, settings.token), [Next]_vars
    PROVE  SecretAfter(log', sequence', settings'.token)
<1>1. sequence \in Nat /\ log \in Seq(Rows)
  BY LogTyped
<1>2. CASE Operation
  <2>1. /\ \A i \in 1..sequence : log'[i] = log[i]
        /\ UNCHANGED <<sequence, settings>>
    BY <1>2, OperationCommits, LogTyped DEF Committed
  <2>2. QED
    BY <1>1, <2>1, SecretPrefix
<1>3. CASE Apply
  <2>1. /\ log[sequence + 1] \in Rows /\ apply(log[sequence + 1])
        /\ sequence' = sequence + 1 /\ log' = log
    BY <1>1, <1>3 DEF Apply
  <2>2. QED
    BY <1>1, <2>1, TokenApplied, SecretNext
<1>4. CASE Restart
  <2>1. sequence' = 0 /\ settings'.token = NoToken
    BY <1>4, NoTokenAtFirst DEF Restart
  <2>2. QED
    BY <2>1 DEF SecretAfter
<1>5. CASE UNCHANGED vars
  BY <1>5 DEF vars, memory
<1>6. QED
  BY <1>2, <1>3, <1>4, <1>5, NextCases

(* The telegram token in memory is the last one any caller set, however    *)
(* many updates left it blank and wherever the process died, and no row    *)
(* holds it in clear.                                                      *)
THEOREM SecretSurvives == Spec => []SecretPreserved
<1> DEFINE Secret == SecretAfter(log, sequence, settings.token) /\ SecretsSealed
<1>1. Init => Secret
  BY NoTokenAtFirst DEF Init, SecretAfter, SecretsSealed
<1>2. TypeOK /\ Secret /\ [Next]_vars => Secret'
  BY SealedStep, SecretStep
<1>3. TypeOK /\ Secret => SecretPreserved
  <2>1. SUFFICES ASSUME TypeOK, Secret
                 PROVE  SecretPreserved
    OBVIOUS
  <2>2. \A i \in 1..sequence : i \in 1..Len(log)
    BY <2>1, LogTyped
  <2>3. QED
    BY <2>1, <2>2, Zenon DEF SecretAfter, SecretsSealed, SecretPreserved, SecretRow, NoToken
<1> HIDE DEF Secret
<1>4. QED
  BY <1>1, <1>2, <1>3, TypeCorrect, PTL DEF Spec

-----------------------------------------------------------------------------
(* All rows of a message name one number.                                  *)
NumbersFixed ==
    \A i, j \in 1..Len(log) :
        log[i].id \in MessageIDs /\ log[j].id = log[i].id => log[j].val.number = log[i].val.number

(* What memory knows of a message has the number of all its rows.          *)
LEMMA KnownNumber ==
    ASSUME TypeOK, RowsProjected, NumbersFixed,
           NEW i \in 1..Len(log), log[i].id \in MessageIDs
    PROVE  /\ messages[log[i].id] # None => messages[log[i].id].number = log[i].val.number
           /\ i <= sequence => messages[log[i].id] # None
<1> DEFINE x == log[i].id
<1>1. log \in Seq(Rows) /\ sequence \in 0..Len(log) /\ x \in MessageIDs
  BY LogTyped
<1>2. ASSUME NEW k \in 1..sequence, log[k].id = x
      PROVE  log[k].val # None /\ log[k].val.number = log[i].val.number
  <2>1. k \in 1..Len(log)
    BY <1>1
  <2>2. log[k] \in Rows /\ log[k].id \in CallIDs \cup MessageIDs
    BY <1>1, <1>2, <2>1
  <2>3. QED
    BY <1>2, <2>1, <2>2, ContentVersion DEF NumbersFixed
<1>3. Projection(log, sequence, messages, MessageIDs)
  BY DEF RowsProjected
<1>4. \/ messages[x] = None /\ \A k \in 1..sequence : log[k].id # x
      \/ \E k \in 1..sequence : log[k].id = x /\ messages[x] = log[k].val
  BY <1>1, <1>3 DEF Projection
<1>5. QED
  BY <1>1, <1>2, <1>4

LEMMA NumbersExtend ==
    ASSUME TypeOK, RowsProjected, NumbersFixed, Ready,
           log' \in Seq(Rows), Len(log) <= Len(log'),
           \A i \in 1..Len(log) : log'[i] = log[i],
           \A i \in (Len(log) + 1)..Len(log') :
               log'[i].id \in MessageIDs =>
                   /\ messages[log'[i].id] # None =>
                          log'[i].val.number = messages[log'[i].id].number
                   /\ \A j \in (Len(log) + 1)..Len(log') : log'[j].id = log'[i].id => j = i
    PROVE  NumbersFixed'
<1>1. Len(log) \in Nat /\ Len(log') \in Nat /\ sequence = Len(log)
  BY LogTyped DEF Ready
<1>2. ASSUME NEW i \in (Len(log) + 1)..Len(log'), NEW j \in 1..Len(log),
             log'[i].id \in MessageIDs, log'[j].id = log'[i].id
      PROVE  log'[j].val.number = log'[i].val.number
  <2>1. log'[j] = log[j] /\ j <= sequence
    BY <1>1
  <2>2. messages[log[j].id] # None /\ messages[log[j].id].number = log[j].val.number
    BY <1>2, <2>1, KnownNumber
  <2>3. QED
    BY <1>2, <2>1, <2>2
<1>3. SUFFICES ASSUME NEW i \in 1..Len(log'), NEW j \in 1..Len(log'),
                      log'[i].id \in MessageIDs, log'[j].id = log'[i].id
               PROVE  log'[j].val.number = log'[i].val.number
  BY DEF NumbersFixed
<1>4. /\ i \in 1..Len(log) \/ i \in (Len(log) + 1)..Len(log')
      /\ j \in 1..Len(log) \/ j \in (Len(log) + 1)..Len(log')
  BY <1>1
<1>5. CASE i \in 1..Len(log) /\ j \in 1..Len(log)
  <2>1. log'[i] = log[i] /\ log'[j] = log[j]
    BY <1>5
  <2>2. log[i].id \in MessageIDs /\ log[j].id = log[i].id
    BY <1>3, <2>1
  <2>3. log[j].val.number = log[i].val.number
    BY <1>5, <2>2 DEF NumbersFixed
  <2>4. QED
    BY <2>1, <2>3
<1>6. CASE i \in (Len(log) + 1)..Len(log') /\ j \in (Len(log) + 1)..Len(log')
  BY <1>3, <1>6
<1>7. QED
  BY <1>2, <1>3, <1>4, <1>5, <1>6

LEMMA NumbersStep ==
    ASSUME TypeOK, RowsProjected, NumbersFixed, [Next]_vars
    PROVE  NumbersFixed'
<1>1. log \in Seq(Rows) /\ Len(log) \in Nat
  BY LogTyped
<1>2. CallIDs \cap MessageIDs = {}
  BY ConstantsAssumption
<1>3. ASSUME NEW v \in CallWrites, UpsertCall(v)
      PROVE  NumbersFixed'
  <2>1. /\ log' \in Seq(Rows) /\ Len(log') = Len(log) + 1
        /\ \A i \in 1..Len(log) : log'[i] = log[i]
        /\ log'[Len(log) + 1].id = v.id
    BY <1>3, CallAppended
  <2>2. v.id \notin MessageIDs /\ Ready
    BY <1>2, <1>3 DEF UpsertCall, CallWrites
  <2>3. \A i \in (Len(log) + 1)..Len(log') : log'[i].id \notin MessageIDs
    BY <1>1, <2>1, <2>2
  <2>4. Len(log) <= Len(log')
    BY <1>1, <2>1
  <2>5. QED
    BY <2>1, <2>2, <2>3, <2>4, NumbersExtend
<1>4. ASSUME NEW v \in MessageWrites, UpsertMessage(v)
      PROVE  NumbersFixed'
  <2>1. /\ log' \in Seq(Rows) /\ Len(log') = Len(log) + 1
        /\ \A i \in 1..Len(log) : log'[i] = log[i]
        /\ log'[Len(log) + 1].id = v.id
        /\ log'[Len(log) + 1].val.number = v.number
    BY <1>4, MessageAppended
  <2>2. Ready /\ (messages[v.id] # None => v.number = messages[v.id].number)
    BY <1>4 DEF UpsertMessage, MessageWrites
  <2>3. \A i \in (Len(log) + 1)..Len(log') : i = Len(log) + 1
    BY <1>1, <2>1
  <2>4. QED
    BY <1>1, <2>1, <2>2, <2>3, NumbersExtend
<1>5. ASSUME MarkAllMessagesRead
      PROVE  NumbersFixed'
  <2> DEFINE n == Cardinality(UnreadIncoming)
  <2>1. PICK order \in [1..n -> UnreadIncoming] :
            /\ n \in Nat
            /\ \A i, j \in 1..n : order[i] = order[j] => i = j
            /\ log' \in Seq(Rows)
            /\ Len(log') = Len(log) + n
            /\ \A i \in 1..Len(log) : log'[i] = log[i]
            /\ \A i \in 1..n : log'[Len(log) + i] = ReadRow(order[i])
    BY <1>5, BatchRows
  <2> HIDE DEF n
  <2>2. Ready
    BY <1>5 DEF MarkAllMessagesRead
  <2>3. ASSUME NEW i \in (Len(log) + 1)..Len(log')
        PROVE  /\ i - Len(log) \in 1..n
               /\ log'[i].id = order[i - Len(log)]
               /\ log'[i].val.number = messages[order[i - Len(log)]].number
    <3>1. i - Len(log) \in 1..n /\ Len(log) + (i - Len(log)) = i
      BY <1>1, <2>1, <2>3
    <3>2. log'[i] = ReadRow(order[i - Len(log)]) /\ order[i - Len(log)] \in UnreadIncoming
      BY <2>1, <3>1
    <3>3. QED
      BY <3>1, <3>2, ReadRowType
  <2>4. ASSUME NEW i \in (Len(log) + 1)..Len(log')
        PROVE  /\ log'[i].val.number = messages[log'[i].id].number
               /\ \A j \in (Len(log) + 1)..Len(log') : log'[j].id = log'[i].id => j = i
    <3>1. \A j \in (Len(log) + 1)..Len(log') : log'[j].id = log'[i].id => j - Len(log) = i - Len(log)
      BY <2>1, <2>3, <2>4
    <3>2. ASSUME NEW j \in (Len(log) + 1)..Len(log'), log'[j].id = log'[i].id
          PROVE  j = i
      <4>1. j - Len(log) = i - Len(log)
        BY <3>1, <3>2
      <4>2. i \in Int /\ j \in Int
        OBVIOUS
      <4>3. QED
        BY <1>1, <4>1, <4>2
    <3>3. log'[i].val.number = messages[log'[i].id].number
      BY <2>3, <2>4, Zenon
    <3>4. QED
      BY <3>2, <3>3
  <2>5. Len(log) <= Len(log')
    BY <1>1, <2>1
  <2>6. QED
    BY <2>1, <2>2, <2>4, <2>5, NumbersExtend
<1>6. CASE RuleStep \/ RecordingStep \/ SettingsStep \/ DeviceStep
  <2>1. Committed /\ OtherRow /\ Ready
    BY <1>6, OtherOperationCommits DEF RuleStep, RecordingStep, SettingsStep, DeviceStep,
       UpsertRule, DeleteRule, UpsertRecording, DeleteRecording, UpdateSettings,
       UpdateDevice, UpdateDiskUsage
  <2>2. \A i \in (Len(log) + 1)..Len(log') : log'[i].id \notin MessageIDs
    BY <1>1, <2>1 DEF OtherRow
  <2>3. QED
    BY <2>1, <2>2, NumbersExtend DEF Committed
<1>7. CASE Apply \/ Restart \/ UNCHANGED vars
  BY <1>7 DEF Apply, Restart, vars, NumbersFixed
<1>8. QED
  BY <1>3, <1>4, <1>5, <1>6, <1>7 DEF Next, CallStep, MessageStep

(* The badge of one number after a message of that number is written; the  *)
(* other numbers are not touched because the message had no other before.  *)
LEMMA BadgeRebuilt ==
    ASSUME TypeOK, ConversationsExact, NEW x \in MessageIDs, NEW v \in Message,
           messages[x] # None => messages[x].number = v.number,
           messages' = [messages EXCEPT ![x] = v],
           conversations' = [conversations EXCEPT ![v.number] = Unread(messages', v.number)]
    PROVE  ConversationsExact'
<1>1. /\ v.number \in Numbers /\ v # None
      /\ messages \in [MessageIDs -> Message \cup {None}]
      /\ conversations \in [Numbers -> Nat \cup {None}]
  BY ConstantsAssumption DEF TypeOK, Message
<1>2. messages'[x] = v /\ \A m \in MessageIDs : m # x => messages'[m] = messages[m]
  BY <1>1
<1>3. ASSUME NEW n \in Numbers, n # v.number
      PROVE  IF \E m \in MessageIDs : messages'[m] # None /\ messages'[m].number = n
             THEN conversations'[n] = Unread(messages', n)
             ELSE conversations'[n] = None
  <2>1. \A m \in MessageIDs : (messages'[m] # None /\ messages'[m].number = n)
                                  <=> (messages[m] # None /\ messages[m].number = n)
    BY <1>2, <1>3
  <2>2. \A m \in MessageIDs : messages[m] # None /\ messages[m].number = n
                                  => messages'[m] = messages[m]
    BY <1>2, <1>3
  <2>3. Unread(messages', n) = Unread(messages, n)
    <3>1. {m \in MessageIDs : /\ messages'[m] # None /\ messages'[m].number = n
                              /\ ~messages'[m].deleted /\ messages'[m].unread}
          = {m \in MessageIDs : /\ messages[m] # None /\ messages[m].number = n
                                /\ ~messages[m].deleted /\ messages[m].unread}
      BY <2>1, <2>2, Zenon
    <3>2. QED
      BY <3>1 DEF Unread
  <2>4. conversations'[n] = conversations[n]
    BY <1>1, <1>3
  <2>5. QED
    BY <2>1, <2>3, <2>4 DEF ConversationsExact
<1>4. conversations'[v.number] = Unread(messages', v.number)
  BY <1>1
<1>5. QED
  BY <1>1, <1>2, <1>3, <1>4 DEF ConversationsExact

LEMMA BadgeStep ==
    ASSUME TypeOK, RowsProjected, NumbersFixed, ConversationsExact, [Next]_vars
    PROVE  ConversationsExact'
<1>1. sequence \in Nat /\ log \in Seq(Rows)
  BY LogTyped
<1>2. CASE Operation
  BY <1>2, OperationCommits DEF Committed, ConversationsExact
<1>3. CASE Apply
  <2> DEFINE e == log[sequence + 1]
  <2>1. e \in Rows /\ apply(e) /\ sequence + 1 \in 1..Len(log)
    BY <1>1, <1>3, LogTyped DEF Apply
  <2>2. CASE applyMessage(e)
    <3>1. e.id \in MessageIDs /\ e.val \in Message
      BY <2>1, <2>2, RowKinds DEF applyMessage, MessageRows
    <3>2. messages[e.id] # None => messages[e.id].number = e.val.number
      BY <2>1, <3>1, KnownNumber
    <3> HIDE DEF e
    <3>3. QED
      BY <2>2, <3>1, <3>2, BadgeRebuilt DEF applyMessage
  <2>3. CASE UNCHANGED <<messages, conversations>>
    BY <2>3 DEF ConversationsExact
  <2>4. QED
    BY <2>1, <2>2, <2>3 DEF apply, applyCall, applyRule, applyRecording, applySettings,
                            applyDevice
<1>4. CASE Restart
  BY <1>4 DEF Restart, Empty, ConversationsExact
<1>5. CASE UNCHANGED vars
  BY <1>5 DEF vars, memory, ConversationsExact
<1>6. QED
  BY <1>2, <1>3, <1>4, <1>5, NextCases

(* The unread badge of every conversation is exact at every moment, also   *)
(* within a batch of reads and within a replay: apply() may rebuild just   *)
(* the conversation of the message it writes, because no writer moves a    *)
(* message to another number.                                              *)
THEOREM BadgesAreExact == Spec => []ConversationsExact
<1> DEFINE Badge == NumbersFixed /\ ConversationsExact
<1>1. Init => Badge
  <2>1. Init => NumbersFixed
    BY DEF Init, NumbersFixed
  <2>2. Init => ConversationsExact
    <3>1. Init => /\ \A m \in MessageIDs : messages[m] = None
                  /\ \A n \in Numbers : conversations[n] = None
      BY DEF Init, Empty
    <3>2. QED
      BY <3>1 DEF ConversationsExact
  <2>3. QED
    BY <2>1, <2>2
<1>2. TypeOK /\ RowsProjected /\ Badge /\ [Next]_vars => Badge'
  BY NumbersStep, BadgeStep
<1>3. Badge => ConversationsExact
  OBVIOUS
<1> HIDE DEF Badge
<1>4. QED
  BY <1>1, <1>2, <1>3, TypeCorrect, MemoryIsProjection, PTL DEF Spec

-----------------------------------------------------------------------------
(* The store implements DurableRecords. The mapping takes the record of an *)
(* entity from the table alone; the operations decide by memory. What      *)
(* connects the two is RowsProjected: with s.mu free, memory holds the     *)
(* content of the last row of each entity.                                 *)

Entities == CallIDs \cup MessageIDs

(* The last row of an entity is its record.                                *)
LEMMA LatestIs ==
    ASSUME NEW l, Len(l) \in Nat, NEW x, NEW i \in 1..Len(l), LastRow(l, x, i)
    PROVE  Latest(l, x) = l[i].val
<1> DEFINE c == CHOOSE k \in 1..Len(l) : LastRow(l, x, k)
<1>1. c \in 1..Len(l) /\ LastRow(l, x, c)
  OBVIOUS
<1>2. l[i].id = x
  BY DEF LastRow
<1>3. Latest(l, x) = l[c].val
  BY <1>2 DEF Latest
<1> HIDE DEF c
<1>4. c = i
  BY <1>1 DEF LastRow
<1>5. QED
  BY <1>3, <1>4

(* With s.mu free, the record of a call or message is what memory holds,   *)
(* and it has a last row unless it was never written.                      *)
LEMMA LatestInMemory ==
    ASSUME TypeOK, RowsProjected, Ready
    PROVE  /\ \A x \in CallIDs : Latest(log, x) = calls[x]
           /\ \A x \in MessageIDs : Latest(log, x) = messages[x]
           /\ \A x \in Entities : \/ \A i \in 1..Len(log) : log[i].id # x
                                  \/ \E i \in 1..Len(log) : LastRow(log, x, i)
<1>1. Len(log) \in Nat /\ sequence = Len(log)
  BY LogTyped DEF Ready
<1>2. ASSUME NEW table, NEW ids, NEW x \in ids, Projection(log, Len(log), table, ids)
      PROVE  /\ Latest(log, x) = table[x]
             /\ \/ \A i \in 1..Len(log) : log[i].id # x
                \/ \E i \in 1..Len(log) : LastRow(log, x, i)
  <2>1. CASE table[x] = None /\ \A i \in 1..Len(log) : log[i].id # x
    BY <2>1 DEF Latest
  <2>2. ASSUME NEW i \in 1..Len(log), log[i].id = x,
               \A j \in (i + 1)..Len(log) : log[j].id # x, table[x] = log[i].val
        PROVE  LastRow(log, x, i) /\ Latest(log, x) = table[x]
    <3>1. LastRow(log, x, i)
      BY <2>2 DEF LastRow
    <3>2. QED
      BY <1>1, <2>2, <3>1, LatestIs
  <2>3. QED
    BY <1>2, <2>1, <2>2 DEF Projection
<1>3. Projection(log, Len(log), calls, CallIDs) /\ Projection(log, Len(log), messages, MessageIDs)
  BY <1>1 DEF RowsProjected
<1>4. QED
  BY <1>2, <1>3 DEF Entities

(* An entity none of whose rows is new keeps its record.                   *)
LEMMA LatestKept ==
    ASSUME NEW l, NEW m, Len(l) \in Nat, Len(m) \in Nat, Len(l) <= Len(m),
           \A i \in 1..Len(l) : m[i] = l[i],
           NEW x, \A i \in (Len(l) + 1)..Len(m) : m[i].id # x,
           \/ \A i \in 1..Len(l) : l[i].id # x
           \/ \E i \in 1..Len(l) : LastRow(l, x, i)
    PROVE  Latest(m, x) = Latest(l, x)
<1>1. CASE \A i \in 1..Len(l) : l[i].id # x
  <2>1. \A i \in 1..Len(m) : m[i].id # x
    BY <1>1
  <2>2. QED
    BY <1>1, <2>1 DEF Latest
<1>2. ASSUME NEW i \in 1..Len(l), LastRow(l, x, i)
      PROVE  Latest(m, x) = Latest(l, x)
  <2>1. i \in 1..Len(m) /\ LastRow(m, x, i)
    BY <1>2 DEF LastRow
  <2>2. Latest(m, x) = m[i].val /\ Latest(l, x) = l[i].val
    BY <1>2, <2>1, LatestIs
  <2>3. QED
    BY <2>2
<1>3. QED
  BY <1>1, <1>2

(* An entity with one new row has the content of that row.                 *)
LEMMA LatestNew ==
    ASSUME NEW l, NEW m, Len(l) \in Nat, Len(m) \in Nat,
           NEW x, NEW i \in (Len(l) + 1)..Len(m), m[i].id = x,
           \A j \in (Len(l) + 1)..Len(m) : m[j].id = x => j = i
    PROVE  Latest(m, x) = m[i].val
<1>1. i \in 1..Len(m) /\ LastRow(m, x, i)
  BY DEF LastRow
<1>2. QED
  BY <1>1, LatestIs

(* The record of a new row of a call or message carries its id and version. *)
LEMMA RowCarries ==
    ASSUME NEW e \in Rows, e.id \in Entities
    PROVE  e.val # None /\ e.val.id = e.id /\ e.val.version = e.version
BY ConstantsAssumption DEF Rows, CallRows, MessageRows, RuleRows, RecordingRows,
    SettingsRows, DeviceRows, Entities

(* What memory holds of a call or message.                                  *)
Held(x) == IF x \in CallIDs THEN calls[x] ELSE messages[x]

(* The same for the table: no new row, no new record.                       *)
LEMMA RecordUnwritten ==
    ASSUME TypeOK, RowsProjected, Ready, Len(log') \in Nat, Len(log) <= Len(log'),
           \A i \in 1..Len(log) : log'[i] = log[i],
           NEW x \in Entities, \A i \in (Len(log) + 1)..Len(log') : log'[i].id # x
    PROVE  Latest(log', x) = Latest(log, x)
<1>1. \/ \A i \in 1..Len(log) : log[i].id # x
      \/ \E i \in 1..Len(log) : LastRow(log, x, i)
  BY LatestInMemory
<1>2. Len(log) \in Nat
  BY LogTyped
<1>3. QED
  BY <1>1, <1>2, LatestKept

(* A step that gives every entity no new row, or one with the version after *)
(* that of memory, is a step of DurableRecords.                             *)
LEMMA WriteStep ==
    ASSUME TypeOK, RowsProjected, Ready, log' \in Seq(Rows), Len(log) <= Len(log'),
           \A i \in 1..Len(log) : log'[i] = log[i],
           \A i \in (Len(log) + 1)..Len(log') :
               log'[i].id \in Entities =>
                   /\ log'[i].version = Durable!VersionOf(Held(log'[i].id)) + 1
                   /\ \A j \in (Len(log) + 1)..Len(log') : log'[j].id = log'[i].id => j = i
    PROVE  Durable!Write
<1>1. Len(log) \in Nat /\ Len(log') \in Nat
  BY LogTyped
<1>2. ASSUME NEW x \in Entities
      PROVE  \/ Latest(log', x) = Latest(log, x)
             \/ /\ Latest(log', x) # None
                /\ Latest(log', x).id = x
                /\ Latest(log', x).version = Durable!VersionOf(Latest(log, x)) + 1
  <2>1. CASE \A i \in (Len(log) + 1)..Len(log') : log'[i].id # x
    BY <1>1, <1>2, <2>1, RecordUnwritten
  <2>2. ASSUME NEW i \in (Len(log) + 1)..Len(log'), log'[i].id = x
        PROVE  /\ Latest(log', x) # None
               /\ Latest(log', x).id = x
               /\ Latest(log', x).version = Durable!VersionOf(Latest(log, x)) + 1
    <3>0. /\ log'[i].version = Durable!VersionOf(Held(x)) + 1
          /\ \A j \in (Len(log) + 1)..Len(log') : log'[j].id = x => j = i
      BY <1>2, <2>2, Zenon
    <3>1. Latest(log', x) = log'[i].val
      BY <1>1, <2>2, <3>0, LatestNew
    <3>2. log'[i] \in Rows
      BY <1>1
    <3>3. Latest(log, x) = Held(x)
      BY <1>2, LatestInMemory DEF Held, Entities
    <3>4. log'[i].val # None /\ log'[i].val.id = x /\ log'[i].val.version = log'[i].version
      BY <1>2, <2>2, <3>2, RowCarries, Zenon
    <3>5. QED
      BY <3>0, <3>1, <3>3, <3>4, Zenon
  <2>3. QED
    BY <2>1, <2>2
<1>3. QED
  BY <1>2 DEF Durable!Write, Durable!Written, Entities

(* Every step of the store is a step of DurableRecords or leaves records. *)
LEMMA RefinementStep ==
    ASSUME TypeOK, RowsProjected, [Next]_vars
    PROVE  Durable!Write \/ log' = log
<1>1. Len(log) \in Nat /\ log \in Seq(Rows)
  BY LogTyped
<1>2. CallIDs \cap MessageIDs = {}
  BY ConstantsAssumption
<1>3. ASSUME NEW v \in CallWrites, UpsertCall(v)
      PROVE  Durable!Write
  <2>1. /\ log' \in Seq(Rows) /\ Len(log') = Len(log) + 1
        /\ \A i \in 1..Len(log) : log'[i] = log[i]
        /\ log'[Len(log) + 1].id = v.id
        /\ log'[Len(log) + 1].version = OneVersion(v.version)
    BY <1>3, CallAppended
  <2>2. Ready /\ (calls[v.id] # None => v.version = calls[v.id].version + 1)
    BY <1>3 DEF UpsertCall
  <2>3. /\ v.id \in CallIDs
        /\ calls[v.id] = None => OneVersion(v.version) = 1
        /\ calls[v.id] # None => calls[v.id].version \in Nat
    BY VersionsTyped DEF CallWrites, OneVersion
  <2>4. OneVersion(v.version) = Durable!VersionOf(Held(v.id)) + 1
    <3>1. Held(v.id) = calls[v.id]
      BY <2>3, Zenon DEF Held
    <3>2. calls[v.id] # None => OneVersion(v.version) = calls[v.id].version + 1
      BY <2>2, <2>3 DEF OneVersion
    <3>3. CASE calls[v.id] = None
      BY <2>3, <3>1, <3>3 DEF Durable!VersionOf
    <3>4. CASE calls[v.id] # None
      BY <3>1, <3>2, <3>4, Zenon DEF Durable!VersionOf
    <3>5. QED
      BY <3>3, <3>4
  <2>5. Len(log) <= Len(log') /\ \A i \in (Len(log) + 1)..Len(log') : i = Len(log) + 1
    BY <1>1, <2>1
  <2>6. ASSUME NEW i \in (Len(log) + 1)..Len(log')
        PROVE  /\ log'[i].version = Durable!VersionOf(Held(log'[i].id)) + 1
               /\ \A j \in (Len(log) + 1)..Len(log') : j = i
    BY <2>1, <2>4, <2>5, Zenon
  <2>7. QED
    BY <2>1, <2>2, <2>5, <2>6, WriteStep
<1>4. ASSUME NEW v \in MessageWrites, UpsertMessage(v)
      PROVE  Durable!Write
  <2>1. /\ log' \in Seq(Rows) /\ Len(log') = Len(log) + 1
        /\ \A i \in 1..Len(log) : log'[i] = log[i]
        /\ log'[Len(log) + 1].id = v.id
        /\ log'[Len(log) + 1].version = OneVersion(v.version)
    BY <1>4, MessageAppended
  <2>2. Ready /\ (messages[v.id] # None => v.version = messages[v.id].version + 1)
    BY <1>4 DEF UpsertMessage
  <2>3. /\ v.id \in MessageIDs /\ v.id \notin CallIDs
        /\ messages[v.id] = None => OneVersion(v.version) = 1
        /\ messages[v.id] # None => messages[v.id].version \in Nat
    BY <1>2, VersionsTyped DEF MessageWrites, OneVersion
  <2>4. OneVersion(v.version) = Durable!VersionOf(Held(v.id)) + 1
    <3>1. Held(v.id) = messages[v.id]
      BY <2>3, Zenon DEF Held
    <3>2. messages[v.id] # None => OneVersion(v.version) = messages[v.id].version + 1
      BY <2>2, <2>3 DEF OneVersion
    <3>3. CASE messages[v.id] = None
      BY <2>3, <3>1, <3>3 DEF Durable!VersionOf
    <3>4. CASE messages[v.id] # None
      BY <3>1, <3>2, <3>4, Zenon DEF Durable!VersionOf
    <3>5. QED
      BY <3>3, <3>4
  <2>5. Len(log) <= Len(log') /\ \A i \in (Len(log) + 1)..Len(log') : i = Len(log) + 1
    BY <1>1, <2>1
  <2>6. ASSUME NEW i \in (Len(log) + 1)..Len(log')
        PROVE  /\ log'[i].version = Durable!VersionOf(Held(log'[i].id)) + 1
               /\ \A j \in (Len(log) + 1)..Len(log') : j = i
    BY <2>1, <2>4, <2>5, Zenon
  <2>7. QED
    BY <2>1, <2>2, <2>5, <2>6, WriteStep
<1>5. ASSUME MarkAllMessagesRead
      PROVE  Durable!Write
  <2> DEFINE n == Cardinality(UnreadIncoming)
  <2>1. PICK order \in [1..n -> UnreadIncoming] :
            /\ n \in Nat
            /\ \A i, j \in 1..n : order[i] = order[j] => i = j
            /\ log' \in Seq(Rows)
            /\ Len(log') = Len(log) + n
            /\ \A i \in 1..Len(log) : log'[i] = log[i]
            /\ \A i \in 1..n : log'[Len(log) + i] = ReadRow(order[i])
    BY <1>5, BatchRows
  <2> HIDE DEF n
  <2>2. Ready
    BY <1>5 DEF MarkAllMessagesRead
  <2>3. ASSUME NEW m \in UnreadIncoming
        PROVE  /\ ReadRow(m).id = m
               /\ ReadRow(m).version = Durable!VersionOf(Held(m)) + 1
    <3>1. m \in MessageIDs /\ m \notin CallIDs /\ messages[m] # None
      BY <1>2, <2>3 DEF UnreadIncoming
    <3>2. QED
      BY <2>3, <3>1, ReadRowType DEF Held, Durable!VersionOf
  <2>4. ASSUME NEW i \in (Len(log) + 1)..Len(log')
        PROVE  i - Len(log) \in 1..n /\ log'[i] = ReadRow(order[i - Len(log)])
    <3>1. i - Len(log) \in 1..n /\ Len(log) + (i - Len(log)) = i
      BY <1>1, <2>1, <2>4
    <3>2. QED
      BY <2>1, <3>1
  <2>5. ASSUME NEW i \in (Len(log) + 1)..Len(log')
        PROVE  /\ log'[i].version = Durable!VersionOf(Held(log'[i].id)) + 1
               /\ \A j \in (Len(log) + 1)..Len(log') : log'[j].id = log'[i].id => j = i
    <3>1. \A j \in (Len(log) + 1)..Len(log') :
              j - Len(log) \in 1..n /\ log'[j].id = order[j - Len(log)]
      BY <2>1, <2>3, <2>4
    <3>2. \A j \in (Len(log) + 1)..Len(log') : log'[j].id = log'[i].id => j - Len(log) = i - Len(log)
      BY <2>1, <2>5, <3>1
    <3>3. log'[i].version = Durable!VersionOf(Held(log'[i].id)) + 1
      <4>1. order[i - Len(log)] \in UnreadIncoming /\ log'[i] = ReadRow(order[i - Len(log)])
        BY <2>1, <2>4, <2>5, <3>1
      <4>2. QED
        BY <2>3, <4>1, Zenon
    <3>4. ASSUME NEW j \in (Len(log) + 1)..Len(log'), log'[j].id = log'[i].id
          PROVE  j = i
      <4>1. j - Len(log) = i - Len(log)
        BY <3>2, <3>4
      <4>2. i \in Int /\ j \in Int
        OBVIOUS
      <4>3. QED
        BY <1>1, <4>1, <4>2
    <3>5. QED
      BY <3>3, <3>4
  <2>6. Len(log) <= Len(log')
    BY <1>1, <2>1
  <2>7. QED
    BY <2>1, <2>2, <2>5, <2>6, WriteStep
<1>6. CASE RuleStep \/ RecordingStep \/ SettingsStep \/ DeviceStep
  <2>1. Committed /\ OtherRow /\ Ready
    BY <1>6, OtherOperationCommits DEF RuleStep, RecordingStep, SettingsStep, DeviceStep,
       UpsertRule, DeleteRule, UpsertRecording, DeleteRecording, UpdateSettings,
       UpdateDevice, UpdateDiskUsage
  <2>2. \A i \in (Len(log) + 1)..Len(log') : log'[i].id \notin Entities
    BY <1>1, <2>1 DEF OtherRow, Entities
  <2>3. QED
    BY <2>1, <2>2, WriteStep DEF Committed
<1>7. CASE Apply \/ Restart \/ UNCHANGED vars
  BY <1>7 DEF Apply, Restart, vars
<1>8. QED
  BY <1>3, <1>4, <1>5, <1>6, <1>7 DEF Next, CallStep, MessageStep

(* The store implements DurableRecords, for any number of calls, messages  *)
(* and rows: UpsertCall, UpsertMessage and MarkAllMessagesRead replace the *)
(* durable record by its next version, although they compute it in memory, *)
(* and no crash, apply() or replay() is visible to a caller.               *)
THEOREM StoreImplementsDurableRecords == Spec => DurableRecordsImplemented
<1>1. Init => Durable!Init
  <2>1. ASSUME Init, NEW x
        PROVE  Latest(log, x) = None
    BY <2>1 DEF Init, Latest
  <2>2. QED
    BY <2>1 DEF Durable!Init
<1>2. TypeOK /\ RowsProjected /\ [Next]_vars
          => [Durable!Write]_[x \in CallIDs \cup MessageIDs |-> Latest(log, x)]
  <2>1. ASSUME log' = log
        PROVE  UNCHANGED [x \in CallIDs \cup MessageIDs |-> Latest(log, x)]
    BY <2>1
  <2>2. QED
    BY <2>1, RefinementStep
<1>3. QED
  BY <1>1, <1>2, TypeCorrect, MemoryIsProjection, PTL
     DEF Spec, DurableRecordsImplemented, Durable!Spec
=============================================================================
