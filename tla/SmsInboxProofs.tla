--------------------------- MODULE SmsInboxProofs ---------------------------
(***************************************************************************)
(* What SmsInbox guarantees for any limits: an SMS is never stored twice,  *)
(* with any number of phones; and with one phone whose inbox fits in the   *)
(* sync of a connect and a channel with room for the reports, no SMS of    *)
(* the inbox is missing once the reports of the link are handled.          *)
(***************************************************************************)
EXTENDS SmsInbox, SequenceTheorems, TLAPS

Entry == [gateway : Gateways, provider : Nat, deleted : BOOLEAN]

Typed ==
    /\ inbox \in [Gateways -> Nat]
    /\ pendingEvents \in [Gateways -> Seq(Nat)]
    /\ wire \in [Gateways -> Seq(Nat)] /\ events \in [Gateways -> Seq(Nat)]
    /\ DOMAIN up = Gateways /\ DOMAIN controlWriter = Gateways
    /\ messages \in Seq(Entry)
    /\ arrived \in Nat /\ failures \in Nat

Size(q) == Len(q)

(* The counters respect their bounds, the buffer its limit.                *)
Bounded ==
    /\ arrived <= MaxSms /\ failures <= MaxFailures
    /\ \A g \in Gateways : inbox[g] <= arrived /\ Size(pendingEvents[g]) <= BufferLimit

(* The reports that n connects put on a link.                              *)
Reported(n) == n * (BufferLimit + SyncLimit)
Connects(g) == IF up[g] THEN failures + 1 ELSE failures

(* A link has as many connects as failures, and one more while it is up.   *)
Load == \A g \in Gateways :
    Size(wire[g]) + Size(events[g]) <= arrived + Reported(Connects(g))

(* Over a link that can be written to, each row of the inbox is stored or  *)
(* on its way.                                                             *)
OnItsWay(g, row) == Stored(g, row) \/ Contains(wire[g], row) \/ Contains(events[g], row)
Covered == \A g \in Gateways :
    up[g] /\ controlWriter[g] => \A row \in 1..inbox[g] : OnItsWay(g, row)

(* The channel has room for all reports, the inbox fits in the sync, and    *)
(* there is one phone: rows of two phones are taken for each other.         *)
OnePhone == \A g, h \in Gateways : g = h
Fits == MaxSms <= SyncLimit /\ MaxSms + Reported(MaxFailures + 1) <= QueueCap

-----------------------------------------------------------------------------
(* The helpers on sequences of reports.                                    *)
LEMMA SmallestIs ==
    ASSUME NEW a \in Nat, NEW b \in Nat
    PROVE  Smallest(a, b) \in Nat /\ Smallest(a, b) <= a /\ Smallest(a, b) <= b
BY DEF Smallest

LEMMA OfferIs ==
    ASSUME NEW b \in Seq(Nat), NEW r \in Seq(Nat)
    PROVE  Offer(b, r) \in Seq(Nat) /\ Size(Offer(b, r)) <= BufferLimit
<1> DEFINE q == b \o r
           k == Smallest(BufferLimit, Len(q))
<1>1. q \in Seq(Nat) /\ Len(q) \in Nat /\ BufferLimit \in Nat
  BY LimitsAssumption
<1>2. k \in Nat /\ k <= BufferLimit /\ k <= Len(q)
  BY <1>1, SmallestIs
<1>3. Offer(b, r) = SubSeq(q, Len(q) - k + 1, Len(q))
  BY DEF Offer, Newest
<1> HIDE DEF q, k
<1>4. \A i \in (Len(q) - k + 1)..Len(q) : q[i] \in Nat
  BY <1>1, <1>2
<1>5. /\ SubSeq(q, Len(q) - k + 1, Len(q)) \in Seq(Nat)
      /\ Len(SubSeq(q, Len(q) - k + 1, Len(q))) <= k
  <2> DEFINE lo == Len(q) - k + 1
             hi == Len(q)
  <2>1. lo \in Int /\ hi \in Int /\ hi - lo + 1 = k /\ \A i \in lo..hi : q[i] \in Nat
    BY <1>1, <1>2, <1>4
  <2> HIDE DEF lo, hi
  <2>2. SubSeq(q, lo, hi) \in Seq(Nat) /\ Len(SubSeq(q, lo, hi)) <= k
    BY <1>2, <2>1
  <2>3. QED
    BY <2>2 DEF lo, hi
<1>6. Offer(b, r) \in Seq(Nat) /\ Size(Offer(b, r)) <= k /\ Size(Offer(b, r)) \in Nat
  BY <1>3, <1>5 DEF Size
<1>7. QED
  BY <1>1, <1>2, <1>6

LEMMA OldestIs ==
    ASSUME NEW q \in Seq(Nat), NEW n \in Nat
    PROVE  Oldest(q, n) \in Seq(Nat) /\ Size(Oldest(q, n)) <= Size(q)
<1> DEFINE k == Smallest(n, Len(q))
<1>0. Len(q) \in Nat
  OBVIOUS
<1>1. k \in Nat /\ k <= Len(q) /\ Len(q) \in Nat
  BY <1>0, SmallestIs
<1>2. Oldest(q, n) = SubSeq(q, 1, k)
  BY DEF Oldest
<1> HIDE DEF k
<1>3. \A i \in 1..k : q[i] \in Nat
  BY <1>1
<1>4. SubSeq(q, 1, k) \in Seq(Nat) /\ Len(SubSeq(q, 1, k)) <= k
  BY <1>1, <1>3
<1>5. QED
  BY <1>1, <1>2, <1>4 DEF Size

(* A sync reports rows of the inbox, at most SyncLimit, and all of them if  *)
(* there are no more.                                                       *)
LEMMA RecentIs ==
    ASSUME Typed, NEW g \in Gateways
    PROVE  /\ Recent(g) \in Seq(Nat) /\ Size(Recent(g)) <= SyncLimit
           /\ inbox[g] <= SyncLimit => \A row \in 1..inbox[g] : Contains(Recent(g), row)
<1> DEFINE k == Smallest(inbox[g], SyncLimit)
<1>1. inbox[g] \in Nat /\ SyncLimit \in Nat
  BY LimitsAssumption DEF Typed
<1>2. k \in Nat /\ k <= inbox[g] /\ k <= SyncLimit
  BY <1>1, SmallestIs
<1>3. inbox[g] <= SyncLimit => k = inbox[g]
  BY <1>1 DEF Smallest
<1>4. Recent(g) = [i \in 1..k |-> inbox[g] - i + 1]
  BY DEF Recent
<1> HIDE DEF k
<1>5. Recent(g) \in Seq(Nat) /\ Len(Recent(g)) = k
  BY <1>1, <1>2, <1>4
<1>6. ASSUME inbox[g] <= SyncLimit, NEW row \in 1..inbox[g]
      PROVE  Contains(Recent(g), row)
  <2> DEFINE i == inbox[g] - row + 1
  <2>1. i \in 1..k /\ inbox[g] - i + 1 = row
    BY <1>1, <1>3, <1>6
  <2> HIDE DEF i
  <2>2. Recent(g)[i] = row
    BY <1>4, <2>1
  <2>3. QED
    BY <1>5, <2>1, <2>2 DEF Contains
<1>7. QED
  BY <1>2, <1>5, <1>6 DEF Size

LEMMA ReportedIs ==
    ASSUME NEW n \in Nat
    PROVE  /\ Reported(n) \in Nat
           /\ Reported(n + 1) = Reported(n) + BufferLimit + SyncLimit
<1>1. BufferLimit \in Nat /\ SyncLimit \in Nat
  BY LimitsAssumption
<1>2. \A a, b \in Nat : a * b \in Nat /\ (a + 1) * b = a * b + b
  OBVIOUS
<1>3. n * (BufferLimit + SyncLimit) \in Nat
      /\ (n + 1) * (BufferLimit + SyncLimit) = n * (BufferLimit + SyncLimit) + (BufferLimit + SyncLimit)
  BY <1>1, <1>2
<1>4. QED
  BY <1>1, <1>3 DEF Reported

LEMMA ReportedGrows ==
    ASSUME NEW m \in Nat, NEW n \in Nat, m <= n
    PROVE  Reported(m) <= Reported(n)
<1>1. BufferLimit + SyncLimit \in Nat
  BY LimitsAssumption
<1>2. \A a, b, c \in Nat : a <= b => a * c <= b * c
  OBVIOUS
<1>3. QED
  BY <1>1, <1>2 DEF Reported

LEMMA SizeIs ==
    /\ Size(<<>>) = 0
    /\ \A q \in Seq(Nat) :
          /\ Size(q) \in Nat
          /\ \A r \in Nat : Append(q, r) \in Seq(Nat) /\ Size(Append(q, r)) = Size(q) + 1
          /\ \A r \in Seq(Nat) : q \o r \in Seq(Nat) /\ Size(q \o r) = Size(q) + Size(r)
          /\ q # <<>> => /\ Head(q) \in Nat /\ Tail(q) \in Seq(Nat)
                         /\ Size(q) = Size(Tail(q)) + 1
<1>1. Size(<<>>) = 0
  BY EmptySeq DEF Size
<1>2. ASSUME NEW q \in Seq(Nat)
      PROVE  /\ Size(q) \in Nat
             /\ \A r \in Nat : Append(q, r) \in Seq(Nat) /\ Size(Append(q, r)) = Size(q) + 1
             /\ \A r \in Seq(Nat) : q \o r \in Seq(Nat) /\ Size(q \o r) = Size(q) + Size(r)
  BY AppendProperties, ConcatProperties DEF Size
<1>3. ASSUME NEW q \in Seq(Nat), q # <<>>
      PROVE  Head(q) \in Nat /\ Tail(q) \in Seq(Nat) /\ Size(q) = Size(Tail(q)) + 1
  BY <1>3, HeadTailProperties DEF Size
<1>4. QED
  BY <1>1, <1>2, <1>3

LEMMA QueueUpdate ==
    ASSUME NEW f \in [Gateways -> Seq(Nat)], NEW g \in Gateways, NEW q \in Seq(Nat)
    PROVE  /\ [f EXCEPT ![g] = q] \in [Gateways -> Seq(Nat)]
           /\ [f EXCEPT ![g] = q][g] = q
           /\ \A h \in Gateways : h # g => [f EXCEPT ![g] = q][h] = f[h]
OBVIOUS

-----------------------------------------------------------------------------
(* The stored messages.                                                    *)
LEMMA EntryDeleted ==
    ASSUME NEW m \in Entry
    PROVE  /\ [m EXCEPT !.deleted = TRUE] \in Entry
           /\ [m EXCEPT !.deleted = TRUE].gateway = m.gateway
           /\ [m EXCEPT !.deleted = TRUE].provider = m.provider
BY DEF Entry

LEMMA StoredIs ==
    ASSUME Typed, NEW g, NEW row
    PROVE  Stored(g, row) <=> \E i \in 1..Len(messages) :
                                  messages[i].gateway = g /\ messages[i].provider = row
<1>1. DOMAIN messages = 1..Len(messages)
  BY DEF Typed
<1>2. QED
  BY <1>1, Zenon DEF Stored, ToSet

LEMMA KnownIs ==
    ASSUME Typed, NEW row
    PROVE  Known(row) <=> row # 0 /\ \E i \in 1..Len(messages) : messages[i].provider = row
<1>1. DOMAIN messages = 1..Len(messages)
  BY DEF Typed
<1>2. QED
  BY <1>1, Zenon DEF Known, ToSet

(* A message is kept for ever, at its place.                               *)
Kept ==
    /\ messages' \in Seq(Entry) /\ Len(messages) <= Len(messages')
    /\ \A i \in 1..Len(messages) :
          /\ messages'[i].gateway = messages[i].gateway
          /\ messages'[i].provider = messages[i].provider

LEMMA Deletion ==
    ASSUME Typed, NEW i \in DOMAIN messages, DeleteMessage(i)
    PROVE  Kept /\ Len(messages') = Len(messages)
<1>1. messages \in Seq(Entry) /\ i \in 1..Len(messages) /\ messages[i] \in Entry
  BY DEF Typed
<1> DEFINE m == [messages[i] EXCEPT !.deleted = TRUE]
<1>2. m \in Entry /\ m.gateway = messages[i].gateway /\ m.provider = messages[i].provider
  BY <1>1, EntryDeleted
<1>3. messages' = [messages EXCEPT ![i] = m]
  BY DEF DeleteMessage
<1> HIDE DEF m
<1>4. messages' \in Seq(Entry) /\ Len(messages') = Len(messages)
  BY <1>1, <1>2, <1>3, ExceptSeq
<1>5. \A j \in 1..Len(messages) : messages'[j] = IF j = i THEN m ELSE messages[j]
  BY <1>1, <1>3
<1>6. QED
  BY <1>1, <1>2, <1>4, <1>5 DEF Kept

LEMMA Reception ==
    ASSUME Typed, NEW g \in Gateways, SmsReceived(g)
    PROVE  /\ Kept
           /\ \/ messages' = messages /\ Known(Head(events[g]))
              \/ /\ ~Known(Head(events[g]))
                 /\ Len(messages') = Len(messages) + 1
                 /\ messages'[Len(messages) + 1].gateway = g
                 /\ messages'[Len(messages) + 1].provider = Head(events[g])
<1> DEFINE p == Head(events[g])
           m == [gateway |-> g, provider |-> p, deleted |-> FALSE]
<1>1. messages \in Seq(Entry) /\ events[g] \in Seq(Nat) /\ events[g] # <<>>
  BY DEF Typed, SmsReceived
<1>2. p \in Nat
  BY <1>1
<1>3. m \in Entry /\ m.gateway = g /\ m.provider = p
  BY <1>2 DEF Entry
<1>4. messages' = IF Known(p) THEN messages ELSE Append(messages, m)
  BY DEF SmsReceived
<1> HIDE DEF p, m
<1>5. CASE Known(p)
  BY <1>1, <1>4, <1>5 DEF Kept, p
<1>6. CASE ~Known(p)
  <2>1. /\ messages' \in Seq(Entry) /\ Len(messages') = Len(messages) + 1
        /\ messages'[Len(messages) + 1] = m
        /\ \A i \in 1..Len(messages) : messages'[i] = messages[i]
    BY <1>1, <1>3, <1>4, <1>6, AppendProperties
  <2>2. Len(messages) \in Nat
    BY <1>1
  <2>3. QED
    BY <1>3, <1>6, <2>1, <2>2 DEF Kept, p
<1>7. QED
  BY <1>5, <1>6

LEMMA StoredKept ==
    ASSUME Typed, Typed', Kept, NEW g, NEW row, Stored(g, row)
    PROVE  Stored(g, row)'
<1>1. PICK i \in 1..Len(messages) : messages[i].gateway = g /\ messages[i].provider = row
  BY StoredIs
<1>3. messages' \in Seq(Entry) /\ Len(messages) \in Nat /\ Len(messages') \in Nat
  BY DEF Kept, Typed
<1>2. i \in 1..Len(messages') /\ messages'[i].gateway = g /\ messages'[i].provider = row
  BY <1>1, <1>3 DEF Kept
<1>4. QED
  BY <1>2, <1>3 DEF Stored, ToSet

-----------------------------------------------------------------------------
(* Every step keeps the types, the bounds and the load of the links.       *)
Flow == Typed /\ Bounded /\ Load

LEMMA ConnectsIs ==
    ASSUME Typed, NEW g \in Gateways
    PROVE  /\ Connects(g) \in Nat /\ Connects(g) <= failures + 1
           /\ failures <= Connects(g) /\ Reported(Connects(g)) \in Nat
<1>1. Connects(g) \in Nat /\ Connects(g) <= failures + 1 /\ failures <= Connects(g)
  BY DEF Typed, Connects
<1>2. QED
  BY <1>1, ReportedIs

LEMMA FlowReceive ==
    ASSUME Flow, NEW g \in Gateways, NEW saved \in BOOLEAN, Receive(g, saved)
    PROVE  Flow' /\ Kept
<1> DEFINE row == IF saved THEN inbox[g] + 1 ELSE 0
<1>0. Typed /\ Bounded /\ Load
  BY DEF Flow
<1>1. row \in Nat /\ arrived < MaxSms /\ arrived' = arrived + 1 /\ arrived \in Nat
  BY <1>0 DEF Typed, Receive
<1>2. /\ inbox' = IF saved THEN [inbox EXCEPT ![g] = row] ELSE inbox
      /\ \/ /\ wire' = wire \/ wire' = [wire EXCEPT ![g] = Append(wire[g], row)]
            /\ pendingEvents' = pendingEvents
         \/ /\ pendingEvents' = [pendingEvents EXCEPT ![g] = Offer(pendingEvents[g], <<row>>)]
            /\ wire' = wire
  BY DEF Receive
<1>u. /\ up' = up /\ controlWriter' = controlWriter /\ events' = events
      /\ messages' = messages /\ failures' = failures
  BY DEF Receive, handlers
<1>3. inbox' \in [Gateways -> Nat] /\ \A h \in Gateways : inbox'[h] <= arrived'
  BY <1>0, <1>1, <1>2 DEF Typed, Bounded
<1> HIDE DEF row
<1>4. wire \in [Gateways -> Seq(Nat)] /\ pendingEvents \in [Gateways -> Seq(Nat)]
  BY <1>0 DEF Typed
<1>5. wire' \in [Gateways -> Seq(Nat)] /\ \A h \in Gateways : Size(wire'[h]) <= Size(wire[h]) + 1
  <2>1. Append(wire[g], row) \in Seq(Nat) /\ Size(Append(wire[g], row)) = Size(wire[g]) + 1
    BY <1>1, <1>4, SizeIs
  <2>2. \A h \in Gateways : Size(wire[h]) \in Nat
    BY <1>4, SizeIs
  <2>3. CASE wire' = wire
    BY <1>4, <2>2, <2>3
  <2>4. CASE wire' = [wire EXCEPT ![g] = Append(wire[g], row)]
    <3>1. /\ wire' \in [Gateways -> Seq(Nat)]
          /\ wire'[g] = Append(wire[g], row)
          /\ \A h \in Gateways : h # g => wire'[h] = wire[h]
      BY <1>4, <2>1, <2>4, QueueUpdate
    <3>2. ASSUME NEW h \in Gateways
          PROVE  Size(wire'[h]) <= Size(wire[h]) + 1
      <4>1. CASE h = g
        <5>1. Size(wire'[h]) = Size(wire[h]) + 1
          BY <2>1, <3>1, <4>1, Zenon
        <5>2. QED
          BY <2>2, <5>1
      <4>2. CASE h # g
        BY <2>2, <3>1, <4>2
      <4>3. QED
        BY <4>1, <4>2
    <3>3. QED
      BY <3>1, <3>2
  <2>5. QED
    BY <1>2, <2>3, <2>4
<1>6. /\ pendingEvents' \in [Gateways -> Seq(Nat)]
      /\ \A h \in Gateways : Size(pendingEvents'[h]) <= BufferLimit
  <2>1. <<row>> \in Seq(Nat)
    BY <1>1
  <2>2. /\ Offer(pendingEvents[g], <<row>>) \in Seq(Nat)
        /\ Size(Offer(pendingEvents[g], <<row>>)) <= BufferLimit
    BY <1>4, <2>1, OfferIs
  <2>3. \A h \in Gateways : Size(pendingEvents[h]) <= BufferLimit
    BY <1>0 DEF Bounded
  <2>4. CASE pendingEvents' = [pendingEvents EXCEPT ![g] = Offer(pendingEvents[g], <<row>>)]
    <3>1. /\ pendingEvents' \in [Gateways -> Seq(Nat)]
          /\ pendingEvents'[g] = Offer(pendingEvents[g], <<row>>)
          /\ \A h \in Gateways : h # g => pendingEvents'[h] = pendingEvents[h]
      BY <1>4, <2>2, <2>4, QueueUpdate
    <3>2. QED
      BY <2>2, <2>3, <3>1, Zenon
  <2>5. QED
    BY <1>2, <1>4, <2>3, <2>4
<1>7. Typed'
  BY <1>0, <1>1, <1>u, <1>3, <1>5, <1>6 DEF Typed
<1>8. Bounded'
  <2>1. arrived' <= MaxSms
    BY <1>1, LimitsAssumption
  <2>2. QED
    BY <1>0, <1>u, <1>3, <1>6, <2>1 DEF Bounded
<1>9. Load'
  <2>1. SUFFICES ASSUME NEW h \in Gateways
                 PROVE  Size(wire'[h]) + Size(events'[h]) <= arrived' + Reported(Connects(h)')
    BY DEF Load
  <2>2. Connects(h)' = Connects(h)
    BY <1>u DEF Connects
  <2>3. Size(wire[h]) + Size(events[h]) <= arrived + Reported(Connects(h))
    BY <1>0 DEF Load
  <2>4. /\ Size(wire[h]) \in Nat /\ Size(events[h]) \in Nat /\ Size(wire'[h]) \in Nat
        /\ Reported(Connects(h)) \in Nat
    BY <1>0, <1>5, ConnectsIs, SizeIs DEF Typed
  <2>5. QED
    BY <1>1, <1>u, <1>5, <2>2, <2>3, <2>4
<1>10. Kept
  BY <1>0, <1>u DEF Kept, Typed
<1>11. QED
  BY <1>7, <1>8, <1>9, <1>10 DEF Flow

(* A link that connects has had one connect more than the failures.         *)
LEMMA FlowConnect ==
    ASSUME Flow, NEW g \in Gateways, Connect(g)
    PROVE  Flow' /\ Kept
<1> DEFINE w == pendingEvents[g] \o Recent(g)
<1>0. Typed /\ Bounded /\ Load /\ BufferLimit \in Nat /\ SyncLimit \in Nat
  BY LimitsAssumption DEF Flow
<1>1. /\ ~up[g] /\ up' = [up EXCEPT ![g] = TRUE]
      /\ controlWriter' = [controlWriter EXCEPT ![g] = TRUE]
      /\ wire' = [wire EXCEPT ![g] = w]
      /\ pendingEvents' = [pendingEvents EXCEPT ![g] = <<>>]
  BY DEF Connect, MayConnect
<1>u. /\ inbox' = inbox /\ events' = events /\ messages' = messages
      /\ arrived' = arrived /\ failures' = failures
  BY DEF Connect
<1>2. w \in Seq(Nat) /\ Size(w) <= BufferLimit + SyncLimit
  <2>1. /\ pendingEvents[g] \in Seq(Nat) /\ Recent(g) \in Seq(Nat)
        /\ Size(pendingEvents[g]) <= BufferLimit /\ Size(Recent(g)) <= SyncLimit
    BY <1>0, RecentIs DEF Typed, Bounded
  <2>2. Size(pendingEvents[g]) \in Nat /\ Size(Recent(g)) \in Nat
    BY <2>1, SizeIs
  <2>3. w \in Seq(Nat) /\ Size(w) = Size(pendingEvents[g]) + Size(Recent(g))
    BY <2>1, SizeIs
  <2> HIDE DEF w
  <2>4. QED
    BY <1>0, <2>1, <2>2, <2>3
<1> HIDE DEF w
<1>3. /\ wire' \in [Gateways -> Seq(Nat)] /\ wire'[g] = w
      /\ \A h \in Gateways : h # g => wire'[h] = wire[h]
  BY <1>0, <1>1, <1>2, QueueUpdate DEF Typed
<1>4. <<>> \in Seq(Nat) /\ Size(<<>>) <= BufferLimit
  BY <1>0, EmptySeq, SizeIs
<1>5. /\ pendingEvents' \in [Gateways -> Seq(Nat)]
      /\ \A h \in Gateways : Size(pendingEvents'[h]) <= BufferLimit
  BY <1>0, <1>1, <1>4, QueueUpdate DEF Typed, Bounded
<1>6. Typed'
  BY <1>0, <1>1, <1>u, <1>3, <1>5 DEF Typed
<1>7. Bounded'
  BY <1>0, <1>u, <1>5 DEF Bounded
<1>8. Load'
  <2>1. SUFFICES ASSUME NEW h \in Gateways
                 PROVE  Size(wire'[h]) + Size(events'[h]) <= arrived' + Reported(Connects(h)')
    BY DEF Load
  <2>2. Size(wire[h]) + Size(events[h]) <= arrived + Reported(Connects(h))
    BY <1>0 DEF Load
  <2>3. /\ Size(wire[h]) \in Nat /\ Size(events[h]) \in Nat /\ Size(wire'[h]) \in Nat
        /\ Reported(Connects(h)) \in Nat /\ arrived \in Nat /\ failures \in Nat
    BY <1>0, <1>3, ConnectsIs, SizeIs DEF Typed
  <2>4. CASE h = g
    <3>1. Connects(h) = failures /\ Connects(h)' = failures + 1
      BY <1>0, <1>1, <1>u, <2>4 DEF Connects, Typed
    <3>2. Reported(failures + 1) = Reported(failures) + BufferLimit + SyncLimit
      BY <2>3, ReportedIs
    <3>3. Size(wire'[h]) <= BufferLimit + SyncLimit
      BY <1>2, <1>3, <2>4
    <3>4. QED
      BY <1>0, <1>u, <2>2, <2>3, <3>1, <3>2, <3>3
  <2>5. CASE h # g
    <3>1. Connects(h)' = Connects(h)
      BY <1>0, <1>1, <1>u, <2>5 DEF Connects, Typed
    <3>2. QED
      BY <1>u, <1>3, <2>2, <2>5, <3>1
  <2>6. QED
    BY <2>4, <2>5
<1>9. Kept
  BY <1>0, <1>u DEF Kept, Typed
<1>10. QED
  BY <1>6, <1>7, <1>8, <1>9 DEF Flow

(* A failure allows for one connect more.                                   *)
LEMMA FailureLoad ==
    ASSUME Typed, failures' = failures + 1, NEW h \in Gateways, up'[h] => up[h]
    PROVE  /\ Reported(Connects(h)') \in Nat
           /\ Reported(Connects(h)) <= Reported(Connects(h)')
           /\ ~up[h] => Reported(Connects(h)') = Reported(Connects(h)) + BufferLimit + SyncLimit
<1>1. failures \in Nat
  BY DEF Typed
<1>2. /\ Connects(h) \in Nat /\ Connects(h)' \in Nat /\ Connects(h) <= Connects(h)'
      /\ ~up[h] => Connects(h)' = Connects(h) + 1
  BY <1>1 DEF Connects
<1>3. QED
  BY <1>2, ReportedIs, ReportedGrows

(* A link that gets no more reports keeps its load.                         *)
LEMMA LoadKept ==
    ASSUME Flow, NEW h \in Gateways, arrived' = arrived,
           wire'[h] \in Seq(Nat), events'[h] \in Seq(Nat),
           Reported(Connects(h)') \in Nat, Reported(Connects(h)) <= Reported(Connects(h)'),
           Size(wire'[h]) + Size(events'[h]) <= Size(wire[h]) + Size(events[h])
    PROVE  Size(wire'[h]) + Size(events'[h]) <= arrived' + Reported(Connects(h)')
<1>1. Size(wire[h]) + Size(events[h]) <= arrived + Reported(Connects(h))
  BY DEF Flow, Load
<1>2. Typed
  BY DEF Flow
<1>3. Reported(Connects(h)) \in Nat /\ arrived \in Nat
  BY <1>2, ConnectsIs DEF Typed
<1>4. /\ Size(wire[h]) \in Nat /\ Size(events[h]) \in Nat
      /\ Size(wire'[h]) \in Nat /\ Size(events'[h]) \in Nat
  BY <1>2, SizeIs DEF Typed
<1>5. QED
  BY <1>1, <1>3, <1>4

LEMMA PrefixIs ==
    ASSUME NEW q \in Seq(Nat), NEW few \in 0..Len(q)
    PROVE  SubSeq(q, 1, few) \in Seq(Nat) /\ Size(SubSeq(q, 1, few)) <= Size(q)
<1>1. \A i \in 1..few : q[i] \in Nat
  OBVIOUS
<1>2. few \in Nat /\ Len(q) \in Nat
  OBVIOUS
<1>3. SubSeq(q, 1, few) \in Seq(Nat) /\ Len(SubSeq(q, 1, few)) <= few
  BY <1>1, <1>2
<1>4. Len(SubSeq(q, 1, few)) \in Nat
  BY <1>3
<1>5. QED
  BY <1>2, <1>3, <1>4 DEF Size

LEMMA SuffixIs ==
    ASSUME NEW q \in Seq(Nat), NEW n \in 0..(Len(q) - 1)
    PROVE  SubSeq(q, n + 2, Len(q)) \in Seq(Nat) /\ q[n + 1] \in Nat
<1> DEFINE lo == n + 2
           hi == Len(q)
<1>1. lo \in Int /\ hi \in Int /\ \A i \in lo..hi : q[i] \in Nat
  OBVIOUS
<1>2. q[n + 1] \in Nat
  OBVIOUS
<1> HIDE DEF lo, hi
<1>3. SubSeq(q, lo, hi) \in Seq(Nat)
  BY <1>1
<1>4. QED
  BY <1>2, <1>3 DEF lo, hi

LEMMA FlowConnectBreaks ==
    ASSUME Flow, NEW g \in Gateways, NEW n \in 0..(Len(pendingEvents[g]) - 1), ConnectBreaks(g, n)
    PROVE  Flow' /\ Kept
<1> DEFINE buffer == pendingEvents[g]
           rest == Offer(SubSeq(buffer, n + 2, Len(buffer)), <<buffer[n + 1]>> \o Recent(g))
<1>0. Typed /\ Bounded /\ Load /\ BufferLimit \in Nat /\ SyncLimit \in Nat /\ QueueCap \in Nat
  BY LimitsAssumption DEF Flow
<1>1. /\ failures < MaxFailures /\ failures' = failures + 1 /\ ~up[g]
      /\ controlWriter' = [controlWriter EXCEPT ![g] = FALSE]
      /\ pendingEvents' = [pendingEvents EXCEPT ![g] = rest]
  BY DEF ConnectBreaks, Fails, MayConnect
<1>u. /\ inbox' = inbox /\ up' = up /\ wire' = wire /\ messages' = messages
      /\ arrived' = arrived
  BY DEF ConnectBreaks
<1>2. PICK few \in 0..n :
          events' = [events EXCEPT ![g] = Oldest(events[g] \o SubSeq(buffer, 1, few), QueueCap)]
  BY DEF ConnectBreaks
<1> DEFINE q == Oldest(events[g] \o SubSeq(buffer, 1, few), QueueCap)
<1>3. buffer \in Seq(Nat) /\ Size(buffer) <= BufferLimit /\ Size(buffer) \in Nat /\ Len(buffer) \in Nat
  BY <1>0, SizeIs DEF Typed, Bounded
<1>4. events[g] \in Seq(Nat) /\ Size(events[g]) \in Nat
  BY <1>0, SizeIs DEF Typed
<1>5. rest \in Seq(Nat) /\ Size(rest) <= BufferLimit
  <2>1. SubSeq(buffer, n + 2, Len(buffer)) \in Seq(Nat) /\ buffer[n + 1] \in Nat
    BY <1>3, SuffixIs
  <2>2. <<buffer[n + 1]>> \in Seq(Nat) /\ Recent(g) \in Seq(Nat)
    BY <1>0, <2>1, RecentIs
  <2>3. <<buffer[n + 1]>> \o Recent(g) \in Seq(Nat)
    BY <2>2, SizeIs
  <2>4. QED
    BY <2>1, <2>3, OfferIs
<1>6. q \in Seq(Nat) /\ Size(q) <= Size(events[g]) + BufferLimit
  <2>1. few \in 0..Len(buffer)
    BY <1>3
  <2> DEFINE p == SubSeq(buffer, 1, few)
  <2>2. p \in Seq(Nat) /\ Size(p) <= Size(buffer)
    BY <1>3, <2>1, PrefixIs
  <2> HIDE DEF p
  <2>3. Size(p) \in Nat /\ events[g] \o p \in Seq(Nat) /\ Size(events[g] \o p) = Size(events[g]) + Size(p)
    BY <1>4, <2>2, SizeIs
  <2>4. /\ Oldest(events[g] \o p, QueueCap) \in Seq(Nat)
        /\ Size(Oldest(events[g] \o p, QueueCap)) <= Size(events[g] \o p)
    BY <1>0, <2>3, OldestIs
  <2>5. Size(Oldest(events[g] \o p, QueueCap)) \in Nat
    BY <2>4, SizeIs
  <2>6. Size(Oldest(events[g] \o p, QueueCap)) <= Size(events[g]) + BufferLimit
    BY <1>0, <1>3, <1>4, <2>2, <2>3, <2>4, <2>5
  <2>7. QED
    BY <2>4, <2>6 DEF p
<1>7. events' = [events EXCEPT ![g] = q]
  BY <1>2
<1> HIDE DEF buffer, rest, q
<1>8. /\ events' \in [Gateways -> Seq(Nat)] /\ events'[g] = q
      /\ \A h \in Gateways : h # g => events'[h] = events[h]
  BY <1>0, <1>6, <1>7, QueueUpdate DEF Typed
<1>9. /\ pendingEvents' \in [Gateways -> Seq(Nat)] /\ pendingEvents'[g] = rest
      /\ \A h \in Gateways : h # g => pendingEvents'[h] = pendingEvents[h]
  BY <1>0, <1>1, <1>5, QueueUpdate DEF Typed
<1>10. Typed'
  BY <1>0, <1>1, <1>u, <1>8, <1>9 DEF Typed
<1>11. Bounded'
  <2>1. failures' <= MaxFailures
    BY <1>0, <1>1, LimitsAssumption DEF Typed
  <2>2. \A h \in Gateways : Size(pendingEvents'[h]) <= BufferLimit
    BY <1>0, <1>5, <1>9, Zenon DEF Bounded
  <2>3. QED
    BY <1>0, <1>u, <2>1, <2>2 DEF Bounded
<1>12. Load'
  <2>1. SUFFICES ASSUME NEW h \in Gateways
                 PROVE  Size(wire'[h]) + Size(events'[h]) <= arrived' + Reported(Connects(h)')
    BY DEF Load
  <2>2. /\ Reported(Connects(h)') \in Nat
        /\ Reported(Connects(h)) <= Reported(Connects(h)')
        /\ ~up[h] => Reported(Connects(h)') = Reported(Connects(h)) + BufferLimit + SyncLimit
    BY <1>0, <1>1, <1>u, FailureLoad
  <2>3. CASE h # g
    <3>1. events'[h] = events[h] /\ wire'[h] = wire[h]
      BY <1>u, <1>8, <2>3
    <3>2. /\ wire'[h] \in Seq(Nat) /\ events'[h] \in Seq(Nat)
          /\ Size(wire[h]) \in Nat /\ Size(events[h]) \in Nat
      BY <1>0, <3>1, SizeIs DEF Typed
    <3>3. Size(wire'[h]) + Size(events'[h]) <= Size(wire[h]) + Size(events[h])
      BY <3>1, <3>2
    <3>4. QED
      BY <1>u, <2>2, <3>2, <3>3, LoadKept
  <2>4. CASE h = g
    <3>1. Size(wire[h]) + Size(events[h]) <= arrived + Reported(Connects(h))
      BY <1>0 DEF Load
    <3>2. /\ Size(wire[h]) \in Nat /\ Size(events[h]) \in Nat /\ Size(events'[h]) \in Nat
          /\ Reported(Connects(h)) \in Nat /\ arrived \in Nat
      BY <1>0, <1>8, ConnectsIs, SizeIs DEF Typed
    <3>3. Size(events'[h]) <= Size(events[h]) + BufferLimit
      BY <1>6, <1>8, <2>4, Zenon
    <3>4. Reported(Connects(h)') = Reported(Connects(h)) + BufferLimit + SyncLimit
      BY <1>1, <2>2, <2>4
    <3>5. QED
      BY <1>0, <1>u, <3>1, <3>2, <3>3, <3>4
  <2>5. QED
    BY <2>3, <2>4
<1>13. Kept
  BY <1>0, <1>u DEF Kept, Typed
<1>14. QED
  BY <1>10, <1>11, <1>12, <1>13 DEF Flow

(* readLoop moves a report from the link to the channel, or drops it.       *)
LEMMA ReadMoves ==
    ASSUME Typed, NEW g \in Gateways, Read(g)
    PROVE  /\ wire' \in [Gateways -> Seq(Nat)] /\ events' \in [Gateways -> Seq(Nat)]
           /\ wire'[g] = Tail(wire[g]) /\ wire[g] # <<>>
           /\ Size(events[g]) < QueueCap => events'[g] = Append(events[g], Head(wire[g]))
           /\ Size(events[g]) >= QueueCap => events'[g] = events[g]
           /\ \A h \in Gateways : h # g => wire'[h] = wire[h] /\ events'[h] = events[h]
<1>0. /\ wire \in [Gateways -> Seq(Nat)] /\ events \in [Gateways -> Seq(Nat)]
      /\ wire[g] # <<>> /\ wire' = [wire EXCEPT ![g] = Tail(wire[g])]
      /\ events' = IF Size(events[g]) < QueueCap
                   THEN [events EXCEPT ![g] = Append(events[g], Head(wire[g]))]
                   ELSE events
  BY DEF Typed, Read, Size
<1>1. wire[g] \in Seq(Nat) /\ events[g] \in Seq(Nat)
  BY <1>0
<1>2. Head(wire[g]) \in Nat /\ Tail(wire[g]) \in Seq(Nat) /\ Size(events[g]) \in Nat
  BY <1>0, <1>1, SizeIs
<1>3. Append(events[g], Head(wire[g])) \in Seq(Nat)
  BY <1>1, <1>2, SizeIs
<1>4. QueueCap \in Nat
  BY LimitsAssumption
<1>5. /\ wire' \in [Gateways -> Seq(Nat)] /\ wire'[g] = Tail(wire[g])
      /\ \A h \in Gateways : h # g => wire'[h] = wire[h]
  BY <1>0, <1>2, QueueUpdate
<1>6. CASE Size(events[g]) < QueueCap
  <2>1. events' = [events EXCEPT ![g] = Append(events[g], Head(wire[g]))]
    BY <1>0, <1>6
  <2>2. /\ events' \in [Gateways -> Seq(Nat)] /\ events'[g] = Append(events[g], Head(wire[g]))
        /\ \A h \in Gateways : h # g => events'[h] = events[h]
    BY <1>0, <1>3, <2>1, QueueUpdate
  <2>3. ~(Size(events[g]) >= QueueCap)
    BY <1>2, <1>4, <1>6
  <2>4. QED
    BY <1>0, <1>5, <2>2, <2>3, Zenon
<1>7. CASE ~(Size(events[g]) < QueueCap)
  <2>1. events' = events
    BY <1>0, <1>7
  <2>2. QED
    BY <1>0, <1>5, <1>7, <2>1, Zenon
<1>8. QED
  BY <1>6, <1>7

LEMMA FlowRead ==
    ASSUME Flow, NEW g \in Gateways, Read(g)
    PROVE  Flow' /\ Kept
<1>0. Typed /\ Bounded /\ Load
  BY DEF Flow
<1>u. /\ inbox' = inbox /\ pendingEvents' = pendingEvents /\ up' = up
      /\ controlWriter' = controlWriter /\ messages' = messages
      /\ arrived' = arrived /\ failures' = failures
  BY DEF Read, handlers
<1>1. wire' \in [Gateways -> Seq(Nat)] /\ events' \in [Gateways -> Seq(Nat)]
  BY <1>0, ReadMoves
<1>2. Typed'
  BY <1>0, <1>u, <1>1 DEF Typed
<1>3. Bounded'
  BY <1>0, <1>u DEF Bounded
<1>4. Load'
  <2>1. SUFFICES ASSUME NEW h \in Gateways
                 PROVE  Size(wire'[h]) + Size(events'[h]) <= arrived' + Reported(Connects(h)')
    BY DEF Load
  <2>2. Connects(h)' = Connects(h) /\ Reported(Connects(h)) \in Nat
    BY <1>0, <1>u, ConnectsIs DEF Connects
  <2>3. wire'[h] \in Seq(Nat) /\ events'[h] \in Seq(Nat) /\ wire[h] \in Seq(Nat) /\ events[h] \in Seq(Nat)
    BY <1>0, <1>1 DEF Typed
  <2>4. Size(wire[h]) \in Nat /\ Size(events[h]) \in Nat /\ QueueCap \in Nat
    BY <2>3, SizeIs, LimitsAssumption
  <2>5. Size(wire'[h]) + Size(events'[h]) <= Size(wire[h]) + Size(events[h])
    <3>1. CASE h = g
      <4>1. /\ wire[h] # <<>> /\ wire'[h] = Tail(wire[h])
            /\ events'[h] = Append(events[h], Head(wire[h])) \/ events'[h] = events[h]
        BY <1>0, <2>4, <3>1, ReadMoves
      <4>2. /\ Head(wire[h]) \in Nat /\ Size(wire[h]) = Size(wire'[h]) + 1
            /\ Size(wire'[h]) \in Nat
        BY <2>3, <4>1, SizeIs
      <4>3. Size(events'[h]) = Size(events[h]) + 1 \/ Size(events'[h]) = Size(events[h])
        <5>1. Size(Append(events[h], Head(wire[h]))) = Size(events[h]) + 1
          BY <2>3, <4>2, SizeIs
        <5>2. QED
          BY <4>1, <5>1, Zenon
      <4>4. QED
        BY <2>4, <4>2, <4>3
    <3>2. CASE h # g
      <4>1. wire'[h] = wire[h] /\ events'[h] = events[h]
        BY <1>0, <3>2, ReadMoves
      <4>2. QED
        BY <2>4, <4>1
    <3>3. QED
      BY <3>1, <3>2
  <2>6. arrived' = arrived
    BY <1>u
  <2>7. /\ Reported(Connects(h)') \in Nat
        /\ Reported(Connects(h)) <= Reported(Connects(h)')
    BY <2>2
  <2>8. QED
    BY <2>3, <2>5, <2>6, <2>7, LoadKept
<1>5. Kept
  BY <1>0, <1>u DEF Kept, Typed
<1>6. QED
  BY <1>2, <1>3, <1>4, <1>5 DEF Flow

LEMMA FlowReception ==
    ASSUME Flow, NEW g \in Gateways, SmsReceived(g)
    PROVE  Flow' /\ Kept
<1>0. Typed /\ Bounded /\ Load
  BY DEF Flow
<1>u. /\ inbox' = inbox /\ pendingEvents' = pendingEvents /\ up' = up
      /\ controlWriter' = controlWriter /\ wire' = wire
      /\ arrived' = arrived /\ failures' = failures
      /\ events[g] # <<>> /\ events' = [events EXCEPT ![g] = Tail(events[g])]
  BY DEF SmsReceived, handlers
<1>1. Kept
  BY <1>0, Reception
<1>2. events \in [Gateways -> Seq(Nat)] /\ events[g] \in Seq(Nat)
  BY <1>0 DEF Typed
<1>3. Tail(events[g]) \in Seq(Nat)
  BY <1>u, <1>2, SizeIs
<1>4. /\ events' \in [Gateways -> Seq(Nat)] /\ events'[g] = Tail(events[g])
      /\ \A h \in Gateways : h # g => events'[h] = events[h]
  BY <1>u, <1>2, <1>3, QueueUpdate
<1>5. Typed'
  BY <1>0, <1>u, <1>1, <1>4 DEF Typed, Kept
<1>6. Bounded'
  BY <1>0, <1>u DEF Bounded
<1>7. Load'
  <2>1. SUFFICES ASSUME NEW h \in Gateways
                 PROVE  Size(wire'[h]) + Size(events'[h]) <= arrived' + Reported(Connects(h)')
    BY DEF Load
  <2>2. Connects(h)' = Connects(h) /\ Reported(Connects(h)) \in Nat
    BY <1>0, <1>u, ConnectsIs DEF Connects
  <2>3. wire'[h] \in Seq(Nat) /\ events'[h] \in Seq(Nat) /\ wire[h] \in Seq(Nat) /\ events[h] \in Seq(Nat)
    BY <1>0, <1>u, <1>4 DEF Typed
  <2>4. /\ Size(wire[h]) \in Nat /\ Size(events[h]) \in Nat /\ Size(events'[h]) \in Nat
    BY <2>3, SizeIs
  <2>5. Size(events'[h]) <= Size(events[h])
    <3>1. CASE h = g
      <4>1. Size(events[h]) = Size(events'[h]) + 1
        BY <1>u, <1>2, <1>4, <3>1, SizeIs
      <4>2. QED
        BY <2>4, <4>1
    <3>2. CASE h # g
      BY <1>4, <2>4, <3>2
    <3>3. QED
      BY <3>1, <3>2
  <2>6. Size(wire'[h]) + Size(events'[h]) <= Size(wire[h]) + Size(events[h])
    <3>1. Size(wire'[h]) = Size(wire[h])
      BY <1>u, Zenon
    <3>2. QED
      BY <2>4, <2>5, <3>1
  <2>7. arrived' = arrived
    BY <1>u
  <2>8. /\ Reported(Connects(h)') \in Nat
        /\ Reported(Connects(h)) <= Reported(Connects(h)')
    BY <2>2
  <2>9. QED
    BY <2>3, <2>6, <2>7, <2>8, LoadKept
<1>8. QED
  BY <1>1, <1>5, <1>6, <1>7 DEF Flow

(* A lost link or a restart empties queues and never fills one.             *)
LEMMA FlowLoss ==
    ASSUME Flow, failures < MaxFailures, failures' = failures + 1,
           inbox' = inbox, messages' = messages, arrived' = arrived,
           DOMAIN up' = Gateways, DOMAIN controlWriter' = Gateways,
           \A h \in Gateways : up'[h] => up[h],
           pendingEvents' \in [Gateways -> Seq(Nat)], wire' \in [Gateways -> Seq(Nat)],
           events' \in [Gateways -> Seq(Nat)],
           \A h \in Gateways : /\ pendingEvents'[h] = <<>> \/ pendingEvents'[h] = pendingEvents[h]
                               /\ wire'[h] = <<>> \/ wire'[h] = wire[h]
                               /\ events'[h] = <<>> \/ events'[h] = events[h]
    PROVE  Flow' /\ Kept
<1>0. Typed /\ Bounded /\ Load /\ BufferLimit \in Nat /\ failures \in Nat /\ MaxFailures \in Nat
  BY LimitsAssumption DEF Flow, Typed
<1>1. Typed'
  BY <1>0 DEF Typed
<1>2. Bounded'
  <2>1. failures' <= MaxFailures
    BY <1>0
  <2>2. ASSUME NEW h \in Gateways
        PROVE  Size(pendingEvents'[h]) <= BufferLimit
    <3>1. Size(pendingEvents[h]) <= BufferLimit /\ Size(<<>>) <= BufferLimit
      BY <1>0, SizeIs DEF Bounded
    <3>2. QED
      BY <2>2, <3>1
  <2>3. QED
    BY <1>0, <2>1, <2>2 DEF Bounded
<1>3. Load'
  <2>1. SUFFICES ASSUME NEW h \in Gateways
                 PROVE  Size(wire'[h]) + Size(events'[h]) <= arrived' + Reported(Connects(h)')
    BY DEF Load
  <2>2. Reported(Connects(h)') \in Nat /\ Reported(Connects(h)) <= Reported(Connects(h)')
    BY <1>0, FailureLoad
  <2>3. wire'[h] \in Seq(Nat) /\ events'[h] \in Seq(Nat)
    OBVIOUS
  <2>4. Size(wire[h]) \in Nat /\ Size(events[h]) \in Nat /\ Size(<<>>) = 0
    BY <1>0, SizeIs DEF Typed
  <2>5. /\ Size(wire'[h]) = 0 \/ Size(wire'[h]) = Size(wire[h])
        /\ Size(events'[h]) = 0 \/ Size(events'[h]) = Size(events[h])
    BY <2>4
  <2>6. Size(wire'[h]) + Size(events'[h]) <= Size(wire[h]) + Size(events[h])
    BY <2>4, <2>5
  <2>7. QED
    BY <2>2, <2>3, <2>6, LoadKept
<1>4. Kept
  BY <1>0 DEF Kept, Typed
<1>5. QED
  BY <1>1, <1>2, <1>3, <1>4 DEF Flow

LEMMA FlowFailures ==
    ASSUME Flow,
           \/ ServerRestart
           \/ \E g \in Gateways : LinkLost(g) \/ CompanionRestart(g)
    PROVE  Flow' /\ Kept
<1>0. /\ wire \in [Gateways -> Seq(Nat)] /\ events \in [Gateways -> Seq(Nat)]
      /\ pendingEvents \in [Gateways -> Seq(Nat)] /\ <<>> \in Seq(Nat)
      /\ DOMAIN up = Gateways /\ DOMAIN controlWriter = Gateways
  BY EmptySeq DEF Flow, Typed
<1>1. CASE ServerRestart
  <2>1. /\ failures < MaxFailures /\ failures' = failures + 1
        /\ inbox' = inbox /\ messages' = messages /\ arrived' = arrived
        /\ controlWriter' = controlWriter /\ pendingEvents' = pendingEvents
        /\ up' = [h \in Gateways |-> FALSE]
        /\ wire' = [h \in Gateways |-> <<>>] /\ events' = [h \in Gateways |-> <<>>]
    BY <1>1 DEF ServerRestart, Fails
  <2>2. /\ wire' \in [Gateways -> Seq(Nat)] /\ events' \in [Gateways -> Seq(Nat)]
        /\ DOMAIN up' = Gateways
        /\ \A h \in Gateways : ~up'[h] /\ wire'[h] = <<>> /\ events'[h] = <<>>
    BY <1>0, <2>1
  <2>3. QED
    BY <1>0, <2>1, <2>2, FlowLoss
<1>2. ASSUME NEW g \in Gateways, LinkLost(g)
      PROVE  Flow' /\ Kept
  <2>1. /\ failures < MaxFailures /\ failures' = failures + 1
        /\ inbox' = inbox /\ messages' = messages /\ arrived' = arrived
        /\ controlWriter' = controlWriter /\ pendingEvents' = pendingEvents /\ events' = events
        /\ up' = [up EXCEPT ![g] = FALSE] /\ wire' = [wire EXCEPT ![g] = <<>>]
    BY <1>2 DEF LinkLost, Fails
  <2>2. DOMAIN up' = Gateways /\ \A h \in Gateways : up'[h] => up[h]
    BY <1>0, <2>1
  <2>3. /\ wire' \in [Gateways -> Seq(Nat)]
        /\ \A h \in Gateways : wire'[h] = <<>> \/ wire'[h] = wire[h]
    BY <1>0, <2>1, QueueUpdate
  <2>4. QED
    BY <1>0, <2>1, <2>2, <2>3, FlowLoss
<1>3. ASSUME NEW g \in Gateways, CompanionRestart(g)
      PROVE  Flow' /\ Kept
  <2>1. /\ failures < MaxFailures /\ failures' = failures + 1
        /\ inbox' = inbox /\ messages' = messages /\ arrived' = arrived /\ events' = events
        /\ controlWriter' = [controlWriter EXCEPT ![g] = FALSE]
        /\ up' = [up EXCEPT ![g] = FALSE] /\ wire' = [wire EXCEPT ![g] = <<>>]
        /\ pendingEvents' = [pendingEvents EXCEPT ![g] = <<>>]
    BY <1>3 DEF CompanionRestart, Fails
  <2>2. /\ DOMAIN up' = Gateways /\ DOMAIN controlWriter' = Gateways
        /\ \A h \in Gateways : up'[h] => up[h]
    BY <1>0, <2>1
  <2>3. /\ wire' \in [Gateways -> Seq(Nat)]
        /\ \A h \in Gateways : wire'[h] = <<>> \/ wire'[h] = wire[h]
    BY <1>0, <2>1, QueueUpdate
  <2>4. /\ pendingEvents' \in [Gateways -> Seq(Nat)]
        /\ \A h \in Gateways : pendingEvents'[h] = <<>> \/ pendingEvents'[h] = pendingEvents[h]
    BY <1>0, <2>1, QueueUpdate
  <2>5. QED
    BY <1>0, <2>1, <2>2, <2>3, <2>4, FlowLoss
<1>4. QED
  BY <1>1, <1>2, <1>3

(* The other steps leave all queues alone.                                  *)
LEMMA FlowQuiet ==
    ASSUME Flow, Kept, DOMAIN controlWriter' = Gateways,
           UNCHANGED <<inbox, pendingEvents, up, wire, events, arrived, failures>>
    PROVE  Flow'
<1>1. Typed /\ Bounded /\ Load
  BY DEF Flow
<1>2. Typed'
  BY <1>1 DEF Typed, Kept
<1>3. Bounded' /\ Load'
  BY <1>1 DEF Bounded, Load, Connects
<1>4. QED
  BY <1>2, <1>3 DEF Flow

LEMMA FlowStep ==
    ASSUME Flow, [Next]_vars
    PROVE  Flow' /\ Kept
<1>0. Typed /\ messages \in Seq(Entry) /\ Len(messages) \in Nat /\ DOMAIN controlWriter = Gateways
  BY DEF Flow, Typed
<1>1. ASSUME NEW i \in DOMAIN messages, DeleteMessage(i)
      PROVE  Flow' /\ Kept
  <2>1. Kept
    BY <1>0, <1>1, Deletion
  <2>2. QED
    BY <1>0, <1>1, <2>1, FlowQuiet DEF DeleteMessage, handlers
<1>2. ASSUME NEW g \in Gateways, HandlerEnds(g)
      PROVE  Flow' /\ Kept
  <2>1. Kept
    BY <1>0, <1>2 DEF HandlerEnds, Kept
  <2>2. DOMAIN controlWriter' = Gateways
    BY <1>0, <1>2 DEF HandlerEnds
  <2>3. QED
    BY <1>2, <2>1, <2>2, FlowQuiet DEF HandlerEnds
<1>3. CASE UNCHANGED vars
  <2>1. Kept
    BY <1>0, <1>3 DEF vars, Kept
  <2>2. QED
    BY <1>0, <1>3, <2>1, FlowQuiet DEF vars, handlers
<1>4. QED
  BY <1>1, <1>2, <1>3, FlowReceive, FlowConnect, FlowConnectBreaks, FlowRead, FlowReception,
     FlowFailures DEF Next

LEMMA FlowInit == Init => Flow
<1>1. SUFFICES ASSUME Init PROVE Flow
  OBVIOUS
<1>2. <<>> \in Seq(Nat) /\ <<>> \in Seq(Entry) /\ Size(<<>>) = 0
  BY EmptySeq, SizeIs
<1>3. Typed
  BY <1>1, <1>2 DEF Init, Typed
<1>4. Bounded
  BY <1>1, <1>2, LimitsAssumption DEF Init, Bounded
<1>5. Load
  <2>1. SUFFICES ASSUME NEW g \in Gateways
                 PROVE  Size(wire[g]) + Size(events[g]) <= arrived + Reported(Connects(g))
    BY DEF Load
  <2>2. Size(wire[g]) = 0 /\ Size(events[g]) = 0 /\ arrived = 0
    BY <1>1, <1>2 DEF Init
  <2>3. Reported(Connects(g)) \in Nat
    BY <1>3, ConnectsIs
  <2>4. QED
    BY <2>2, <2>3
<1>6. QED
  BY <1>3, <1>4, <1>5 DEF Flow

-----------------------------------------------------------------------------
(* An SMS of a phone's inbox is stored at most once.                        *)
LEMMA DuplicateStep ==
    ASSUME Flow, NoDuplicate, [Next]_vars
    PROVE  NoDuplicate'
<1>0. /\ Typed /\ messages \in Seq(Entry) /\ Len(messages) \in Nat /\ Kept
      /\ messages' \in Seq(Entry) /\ Len(messages') \in Nat
  <2>1. Typed /\ Typed' /\ Kept
    BY FlowStep, Zenon DEF Flow
  <2>2. messages \in Seq(Entry) /\ messages' \in Seq(Entry)
    BY <2>1, Zenon DEF Typed
  <2>3. QED
    BY <2>1, <2>2
<1>1. ASSUME Len(messages') = Len(messages)
      PROVE  NoDuplicate'
  BY <1>0, <1>1 DEF NoDuplicate, Kept
<1>2. ASSUME NEW g \in Gateways, SmsReceived(g)
      PROVE  NoDuplicate'
  <2> DEFINE k == Len(messages) + 1
             p == Head(events[g])
  <2>1. CASE messages' = messages
    BY <1>1, <2>1
  <2>2. CASE /\ ~Known(p) /\ Len(messages') = k
             /\ messages'[k].gateway = g /\ messages'[k].provider = p
    <3>1. p # 0 => \A i \in 1..Len(messages) : messages[i].provider # p
      BY <1>0, <2>2, KnownIs
    <3>2. \A i \in 1..Len(messages) :
              /\ messages'[i].gateway = messages[i].gateway
              /\ messages'[i].provider = messages[i].provider
      BY <1>0 DEF Kept
    <3> HIDE DEF p
    <3>3. SUFFICES ASSUME NEW i \in 1..Len(messages'), NEW j \in 1..Len(messages'),
                          messages'[i].gateway = messages'[j].gateway,
                          messages'[i].provider = messages'[j].provider,
                          messages'[i].provider # 0
                   PROVE  i = j
      BY <1>0 DEF NoDuplicate
    <3>4. /\ i \in 1..Len(messages) \/ i = k
          /\ j \in 1..Len(messages) \/ j = k
      BY <1>0, <2>2
    <3>5. CASE i \in 1..Len(messages) /\ j \in 1..Len(messages)
      BY <1>0, <3>2, <3>3, <3>5 DEF NoDuplicate
    <3>6. CASE i \in 1..Len(messages) /\ j = k
      BY <2>2, <3>1, <3>2, <3>3, <3>6, Zenon
    <3>7. CASE i = k /\ j \in 1..Len(messages)
      BY <2>2, <3>1, <3>2, <3>3, <3>7, Zenon
    <3>8. QED
      BY <3>4, <3>5, <3>6, <3>7
  <2>3. QED
    BY <1>0, <1>2, <2>1, <2>2, Reception
<1>3. CASE UNCHANGED vars
  BY <1>1, <1>3 DEF vars
<1>4. ASSUME NEW i \in DOMAIN messages, DeleteMessage(i)
      PROVE  NoDuplicate'
  BY <1>0, <1>1, <1>4, Deletion
<1>5. QED
  BY <1>1, <1>2, <1>3, <1>4 DEF Next, ServerRestart, Receive, Connect, ConnectBreaks, Read,
     LinkLost, HandlerEnds, CompanionRestart

(* "... without duplicate events", for any number of phones and any limits: *)
(* however often links, reports and buffers are lost and an SMS is reported *)
(* again, handleModem stores it at most once, also after it was deleted.    *)
THEOREM NeverStoredTwice == Spec => []NoDuplicate
<1> DEFINE Once == Flow /\ NoDuplicate
<1>1. Init => Once
  BY FlowInit DEF Init, NoDuplicate
<1>2. Once /\ [Next]_vars => Once'
  BY FlowStep, DuplicateStep
<1>3. Once => NoDuplicate
  OBVIOUS
<1> HIDE DEF Once
<1>4. QED
  BY <1>1, <1>2, <1>3, PTL DEF Spec

-----------------------------------------------------------------------------
(* With one phone and room for its reports, no SMS of the inbox is missing. *)
LEMMA ContainsIs ==
    ASSUME NEW q \in Seq(Nat), NEW row \in Nat
    PROVE  /\ \A r \in Nat : /\ Contains(q, row) => Contains(Append(q, r), row)
                             /\ Contains(Append(q, row), row)
           /\ q # <<>> /\ Contains(q, row) => Head(q) = row \/ Contains(Tail(q), row)
<1>1. ASSUME NEW r \in Nat, Contains(q, row)
      PROVE  Contains(Append(q, r), row)
  <2>1. PICK i \in 1..Len(q) : q[i] = row
    BY <1>1 DEF Contains
  <2>2. i \in 1..Len(Append(q, r)) /\ Append(q, r)[i] = row
    BY <2>1, AppendProperties
  <2>3. QED
    BY <2>2 DEF Contains
<1>2. Contains(Append(q, row), row)
  <2>1. Len(q) + 1 \in 1..Len(Append(q, row)) /\ Append(q, row)[Len(q) + 1] = row
    BY AppendProperties
  <2>2. QED
    BY <2>1 DEF Contains
<1>3. ASSUME q # <<>>, Contains(q, row), Head(q) # row
      PROVE  Contains(Tail(q), row)
  <2>1. PICK i \in 1..Len(q) : q[i] = row
    BY <1>3 DEF Contains
  <2>2. i # 1
    BY <1>3, <2>1
  <2>3. i - 1 \in 1..Len(Tail(q)) /\ Tail(q)[i - 1] = row
    BY <1>3, <2>1, <2>2
  <2>4. QED
    BY <2>3 DEF Contains
<1>4. QED
  BY <1>1, <1>2, <1>3

LEMMA ContainsConcat ==
    ASSUME NEW q \in Seq(Nat), NEW r \in Seq(Nat), NEW row, Contains(r, row)
    PROVE  Contains(q \o r, row)
<1>1. PICK i \in 1..Len(r) : r[i] = row
  BY DEF Contains
<1>2. Len(q) \in Nat /\ Len(r) \in Nat /\ Len(q \o r) = Len(q) + Len(r)
  BY ConcatProperties
<1>3. Len(q) + i \in 1..Len(q \o r)
  BY <1>2
<1>4. (q \o r)[Len(q) + i] = row
  BY <1>1, <1>2
<1>5. QED
  BY <1>3, <1>4 DEF Contains

(* The channel is not full while there are reports on the link.             *)
LEMMA RoomToRead ==
    ASSUME Flow, Fits, NEW g \in Gateways, wire[g] # <<>>
    PROVE  Size(events[g]) < QueueCap
<1>0. Typed /\ Bounded /\ Load
  BY DEF Flow
<1>1. /\ arrived <= MaxSms /\ failures <= MaxFailures
      /\ arrived \in Nat /\ failures \in Nat /\ MaxSms \in Nat /\ MaxFailures \in Nat
      /\ QueueCap \in Nat
  BY <1>0, LimitsAssumption DEF Bounded, Typed
<1>2. Reported(Connects(g)) <= Reported(MaxFailures + 1)
  <2>1. Connects(g) \in Nat /\ Connects(g) <= failures + 1
    BY <1>0, ConnectsIs
  <2>2. Connects(g) <= MaxFailures + 1 /\ MaxFailures + 1 \in Nat
    BY <1>1, <2>1
  <2>3. QED
    BY <2>1, <2>2, ReportedGrows
<1>3. Reported(Connects(g)) \in Nat /\ Reported(MaxFailures + 1) \in Nat
  <2>1. MaxFailures + 1 \in Nat
    BY <1>1
  <2>2. QED
    BY <1>0, <2>1, ConnectsIs, ReportedIs
<1>4. wire[g] \in Seq(Nat) /\ events[g] \in Seq(Nat)
  BY <1>0 DEF Typed
<1>5. Tail(wire[g]) \in Seq(Nat) /\ Size(wire[g]) = Size(Tail(wire[g])) + 1
  BY <1>4, SizeIs
<1>6. Size(events[g]) \in Nat /\ Size(Tail(wire[g])) \in Nat
  BY <1>4, <1>5, SizeIs
<1>7. Size(wire[g]) + Size(events[g]) <= arrived + Reported(Connects(g))
  BY <1>0 DEF Load
<1>8. MaxSms + Reported(MaxFailures + 1) <= QueueCap
  BY DEF Fits
<1>9. QED
  BY <1>1, <1>2, <1>3, <1>5, <1>6, <1>7, <1>8

(* The steps of the phone and its link, for a row of its inbox.             *)
LEMMA RowReceived ==
    ASSUME Flow, NEW g \in Gateways, NEW saved \in BOOLEAN, Receive(g, saved),
           \A row \in 1..inbox[g] : OnItsWay(g, row),
           up[g], controlWriter[g], NEW row \in 1..inbox'[g]
    PROVE  OnItsWay(g, row)'
<1> DEFINE new == IF saved THEN inbox[g] + 1 ELSE 0
<1>0. /\ inbox \in [Gateways -> Nat] /\ wire \in [Gateways -> Seq(Nat)] /\ inbox[g] \in Nat
  BY DEF Flow, Typed
<1>1. /\ wire' = [wire EXCEPT ![g] = Append(wire[g], new)]
      /\ inbox' = IF saved THEN [inbox EXCEPT ![g] = new] ELSE inbox
  BY DEF Receive
<1>u. events' = events /\ messages' = messages
  BY DEF Receive
<1>2. new \in Nat /\ (row \in 1..inbox[g] \/ row = new) /\ row \in Nat
  BY <1>0, <1>1
<1> HIDE DEF new
<1>3. wire[g] \in Seq(Nat) /\ wire'[g] = Append(wire[g], new)
  BY <1>0, <1>1
<1>4. CASE row = new
  BY <1>2, <1>3, <1>4, ContainsIs DEF OnItsWay
<1>5. CASE row \in 1..inbox[g]
  <2>1. Stored(g, row) \/ Contains(wire[g], row) \/ Contains(events[g], row)
    BY <1>5 DEF OnItsWay
  <2>2. Contains(wire[g], row) => Contains(wire'[g], row)
    <3>1. Contains(wire[g], row) => Contains(Append(wire[g], new), row)
      BY <1>2, <1>3, ContainsIs, Zenon
    <3>2. QED
      BY <1>3, <3>1, Zenon
  <2>3. QED
    BY <1>u, <2>1, <2>2, Zenon DEF OnItsWay, Stored
<1>6. QED
  BY <1>2, <1>4, <1>5

LEMMA RowSynced ==
    ASSUME Flow, Fits, NEW g \in Gateways, Connect(g), NEW row \in 1..inbox'[g]
    PROVE  OnItsWay(g, row)'
<1>0. Typed /\ Bounded
  BY DEF Flow
<1>1. wire' = [wire EXCEPT ![g] = pendingEvents[g] \o Recent(g)] /\ inbox' = inbox
  BY DEF Connect
<1>2. wire'[g] = pendingEvents[g] \o Recent(g)
  BY <1>0, <1>1 DEF Typed
<1>3. inbox[g] <= SyncLimit
  BY <1>0, LimitsAssumption DEF Typed, Bounded, Fits
<1>4. pendingEvents[g] \in Seq(Nat) /\ Recent(g) \in Seq(Nat) /\ Contains(Recent(g), row)
  BY <1>0, <1>1, <1>3, RecentIs DEF Typed
<1>5. QED
  BY <1>2, <1>4, ContainsConcat DEF OnItsWay

LEMMA RowRead ==
    ASSUME Flow, Fits, NEW g \in Gateways, Read(g), NEW row \in Nat, OnItsWay(g, row)
    PROVE  OnItsWay(g, row)'
<1>0. Typed
  BY DEF Flow
<1>1. wire[g] # <<>> /\ messages' = messages
  BY DEF Read
<1>2. wire'[g] = Tail(wire[g]) /\ events'[g] = Append(events[g], Head(wire[g]))
  BY <1>0, <1>1, RoomToRead, ReadMoves
<1>3. wire[g] \in Seq(Nat) /\ events[g] \in Seq(Nat) /\ Head(wire[g]) \in Nat
  BY <1>0, <1>1, SizeIs DEF Typed
<1>4. CASE Contains(wire[g], row)
  <2>1. Head(wire[g]) = row \/ Contains(Tail(wire[g]), row)
    BY <1>1, <1>3, <1>4, ContainsIs
  <2>2. Contains(Append(events[g], row), row)
    BY <1>3, ContainsIs
  <2>3. QED
    BY <1>2, <2>1, <2>2, Zenon DEF OnItsWay
<1>5. CASE Contains(events[g], row)
  BY <1>2, <1>3, <1>5, ContainsIs DEF OnItsWay
<1>6. CASE Stored(g, row)
  BY <1>1, <1>6 DEF OnItsWay, Stored
<1>7. QED
  BY <1>4, <1>5, <1>6 DEF OnItsWay

LEMMA RowStored ==
    ASSUME Flow, OnePhone, NEW g \in Gateways, SmsReceived(g), NEW row \in Nat \ {0},
           OnItsWay(g, row)
    PROVE  OnItsWay(g, row)'
<1>0. Typed /\ Typed' /\ Kept /\ Len(messages) \in Nat
  <2>1. Typed /\ Typed' /\ Kept
    BY FlowReception, Zenon DEF Flow
  <2>2. messages \in Seq(Entry)
    BY <2>1, Zenon DEF Typed
  <2>3. QED
    BY <2>1, <2>2
<1>1. events[g] # <<>> /\ wire' = wire /\ events' = [events EXCEPT ![g] = Tail(events[g])]
  BY DEF SmsReceived
<1>2. events[g] \in Seq(Nat) /\ events'[g] = Tail(events[g])
  BY <1>0, <1>1 DEF Typed
<1>3. CASE Stored(g, row)
  BY <1>0, <1>3, StoredKept DEF OnItsWay
<1>4. CASE Contains(wire[g], row)
  BY <1>1, <1>4 DEF OnItsWay
<1>5. CASE Contains(events[g], row)
  <2>1. Head(events[g]) = row \/ Contains(Tail(events[g]), row)
    BY <1>1, <1>2, <1>5, ContainsIs
  <2>2. CASE Contains(Tail(events[g]), row)
    BY <1>2, <2>2 DEF OnItsWay
  <2>3. CASE Head(events[g]) = row
    <3>1. CASE Known(row)
      <4>1. PICK i \in 1..Len(messages) : messages[i].provider = row
        BY <1>0, <3>1, KnownIs
      <4>2. messages[i] \in Entry
        BY <1>0 DEF Typed
      <4>3. messages[i].gateway \in Gateways
        BY <4>2 DEF Entry
      <4>4. messages[i].gateway = g
        BY <4>3 DEF OnePhone
      <4>5. Stored(g, row)
        BY <1>0, <4>1, <4>4, StoredIs
      <4>6. QED
        BY <1>0, <4>5, StoredKept DEF OnItsWay
    <3>2. CASE ~Known(row)
      <4> DEFINE k == Len(messages) + 1
      <4>1. /\ Len(messages') = k
            /\ messages'[k].gateway = g /\ messages'[k].provider = row
        BY <1>0, <2>3, <3>2, Reception
      <4>2. k \in 1..Len(messages') /\ messages' \in Seq(Entry)
        BY <1>0, <4>1 DEF Kept
      <4> HIDE DEF k
      <4>3. Stored(g, row)'
        BY <4>1, <4>2 DEF Stored, ToSet
      <4>4. QED
        BY <4>3 DEF OnItsWay
    <3>3. QED
      BY <3>1, <3>2
  <2>4. QED
    BY <2>1, <2>2, <2>3
<1>6. QED
  BY <1>3, <1>4, <1>5 DEF OnItsWay

(* A step that leaves a phone's queues alone loses no row of its inbox.     *)
LEMMA RowsKept ==
    ASSUME Flow, Flow', Kept, Covered, inbox' = inbox, wire' = wire, events' = events,
           NEW g \in Gateways, up'[g] /\ controlWriter'[g] => up[g] /\ controlWriter[g],
           up'[g] /\ controlWriter'[g], NEW row \in 1..inbox'[g]
    PROVE  OnItsWay(g, row)'
<1>1. Typed /\ Typed'
  BY DEF Flow
<1>2. OnItsWay(g, row)
  BY DEF Covered
<1>3. Stored(g, row) => Stored(g, row)'
  BY <1>1, StoredKept
<1>4. QED
  BY <1>2, <1>3 DEF OnItsWay

LEMMA CoveredStep ==
    ASSUME OnePhone, Fits, Flow, Covered, [Next]_vars
    PROVE  Covered'
<1>0. Flow' /\ Kept /\ DOMAIN up = Gateways /\ DOMAIN controlWriter = Gateways
  <2>1. Flow' /\ Kept
    BY FlowStep
  <2>2. QED
    BY <2>1, Zenon DEF Flow, Typed
<1>1. SUFFICES ASSUME NEW g \in Gateways, up'[g] /\ controlWriter'[g],
                      NEW row \in 1..inbox'[g]
               PROVE  OnItsWay(g, row)'
  BY DEF Covered
<1>2. inbox'[g] \in Nat /\ row \in Nat /\ row # 0
  BY <1>0 DEF Flow, Typed
<1>3. up[g] /\ controlWriter[g] => \A r \in 1..inbox[g] : OnItsWay(g, r)
  BY DEF Covered
<1>4. ASSUME NEW saved \in BOOLEAN, Receive(g, saved)
      PROVE  OnItsWay(g, row)'
  <2>1. up' = up /\ controlWriter' = controlWriter
    BY <1>4 DEF Receive, handlers
  <2>2. up[g] /\ controlWriter[g]
    BY <1>1, <2>1
  <2>3. QED
    BY <1>3, <1>4, <2>2, RowReceived
<1>5. CASE Connect(g)
  BY <1>5, RowSynced
<1>6. ASSUME NEW n, ConnectBreaks(g, n)
      PROVE  OnItsWay(g, row)'
  <2>1. up' = up /\ ~up[g]
    BY <1>6 DEF ConnectBreaks, MayConnect
  <2>2. QED
    BY <1>1, <2>1
<1>7. CASE Read(g)
  <2>1. up' = up /\ controlWriter' = controlWriter /\ inbox' = inbox
    BY <1>7 DEF Read, handlers
  <2>2. OnItsWay(g, row)
    BY <1>1, <1>3, <2>1
  <2>3. QED
    BY <1>2, <1>7, <2>2, RowRead
<1>8. CASE SmsReceived(g)
  <2>1. up' = up /\ controlWriter' = controlWriter /\ inbox' = inbox
    BY <1>8 DEF SmsReceived, handlers
  <2>2. OnItsWay(g, row)
    BY <1>1, <1>3, <2>1
  <2>3. QED
    BY <1>2, <1>8, <2>2, RowStored
<1>9. CASE LinkLost(g) \/ CompanionRestart(g) \/ ServerRestart
  <2>1. ~up'[g]
    BY <1>0, <1>9 DEF LinkLost, CompanionRestart, ServerRestart
  <2>2. QED
    BY <1>1, <2>1
<1>10. CASE HandlerEnds(g)
  <2>1. ~controlWriter'[g]
    BY <1>0, <1>10 DEF HandlerEnds
  <2>2. QED
    BY <1>1, <2>1
<1>11. ASSUME NEW i \in DOMAIN messages, DeleteMessage(i)
       PROVE  OnItsWay(g, row)'
  <2>1. /\ up' = up /\ controlWriter' = controlWriter /\ inbox' = inbox
        /\ wire' = wire /\ events' = events
    BY <1>11 DEF DeleteMessage, handlers
  <2>2. QED
    BY <1>0, <1>1, <2>1, RowsKept
<1>12. CASE UNCHANGED vars
  <2>1. /\ up' = up /\ controlWriter' = controlWriter /\ inbox' = inbox
        /\ wire' = wire /\ events' = events
    BY <1>12 DEF vars, handlers
  <2>2. QED
    BY <1>0, <1>1, <2>1, RowsKept
<1>13. ASSUME NEW h \in Gateways PROVE h = g
  BY DEF OnePhone
<1>14. \/ ServerRestart \/ UNCHANGED vars
       \/ \E i \in DOMAIN messages : DeleteMessage(i)
       \/ \E saved \in BOOLEAN : Receive(g, saved)
       \/ Connect(g) \/ Read(g) \/ SmsReceived(g) \/ LinkLost(g) \/ HandlerEnds(g)
       \/ CompanionRestart(g)
       \/ \E n : ConnectBreaks(g, n)
  BY <1>13, Zenon DEF Next
<1>15. QED
  BY <1>4, <1>5, <1>6, <1>7, <1>8, <1>9, <1>10, <1>11, <1>12, <1>14

LEMMA NothingOnItsWay ==
    ASSUME NEW row
    PROVE  ~Contains(<<>>, row)
BY EmptySeq DEF Contains

(* "Incoming ... SMS survive reconnects", for one phone and any limits that *)
(* fit its SMS: once the link can be written to and its reports have been   *)
(* read and handled, each row of the inbox is stored, whatever links,       *)
(* buffers and queues syncRecentMessages had to make up for.                *)
THEOREM InboxSurvives ==
    ASSUME OnePhone, Fits
    PROVE  Spec => []SurvivesReconnect
<1> DEFINE Complete == Flow /\ Covered
<1>1. Init => Complete
  <2>1. Init => Flow
    BY FlowInit
  <2>2. Init => Covered
    BY DEF Init, Covered
  <2>3. QED
    BY <2>1, <2>2
<1>2. Complete /\ [Next]_vars => Complete'
  BY FlowStep, CoveredStep
<1>3. Complete => SurvivesReconnect
  BY NothingOnItsWay DEF Covered, OnItsWay, SurvivesReconnect
<1> HIDE DEF Complete
<1>4. QED
  BY <1>1, <1>2, <1>3, PTL DEF Spec

=============================================================================
