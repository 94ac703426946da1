-------------------------- MODULE PageCommandsProofs ------------------------
(***************************************************************************)
(* Proofs about PageCommands, for any number of sendings: the mutex of     *)
(* `idempotent', how often a command takes effect, and which answers its   *)
(* sendings get; and that the page of StateSync, with the changes of the   *)
(* command among those it follows, shows them. The page leaves the         *)
(* variables of the command alone.                                         *)
(***************************************************************************)
EXTENDS PageCommands, SequenceTheorems, TLAPS

(* An answer that a further sending would get: it is in the table, or its  *)
(* handler holds the mutex and is about to store it.                       *)
Kept ==
    \/ saved \in {"ok", "refused"}
    \/ idemMu # 0 /\ req[idemMu] = "store" /\ result[idemMu] # "failed"

(* The accounts of the command, which make CommandOnce inductive: without  *)
(* a kept answer every effect has its excuse, so that the command may run. *)
EffectsExcused ==
    /\ idemMu # 0 => saved = "none"
    /\ Kept => done.effects <= 1 + done.forgotten + done.unsure
    /\ ~Kept => done.effects <= done.forgotten + done.unsure

(* What makes SameAnswer inductive: until an answer is lost, each sending  *)
(* was answered with a failure or with the row that is in the table.       *)
AnsweredFromRow ==
    /\ \A i \in Sends : req[i] \in {"store", "answered"} => result[i] # "none"
    /\ done.forgotten = 0 => saved # "expired"
    /\ done.forgotten = 0 =>
         \A i \in Sends : req[i] = "answered" => result[i] \in {"failed", saved}

IInv == CommandsTypeOK /\ EffectsExcused /\ AnsweredFromRow

(* The counters stay natural numbers when they count up.                   *)
LEMMA CountersCount ==
  ASSUME NEW d \in [effects : Nat, unsure : Nat, forgotten : Nat]
  PROVE  /\ [d EXCEPT !.effects = @ + 1] \in [effects : Nat, unsure : Nat, forgotten : Nat]
         /\ [d EXCEPT !.effects = @ + 1, !.unsure = @ + 1] \in [effects : Nat, unsure : Nat, forgotten : Nat]
         /\ [d EXCEPT !.forgotten = @ + 1] \in [effects : Nat, unsure : Nat, forgotten : Nat]
<1>1. d.effects \in Nat /\ d.unsure \in Nat /\ d.forgotten \in Nat
  OBVIOUS
<1>2. d.effects + 1 \in Nat /\ d.unsure + 1 \in Nat /\ d.forgotten + 1 \in Nat
  BY <1>1
<1>3. d = [effects |-> d.effects, unsure |-> d.unsure, forgotten |-> d.forgotten]
  OBVIOUS
<1> QED BY <1>1, <1>2, <1>3, Zenon

USE SendsAssumption

(* The initial state: no request was sent and the table is empty.          *)
LEMMA InitHolds == AllInit => IInv
  BY DEF AllInit, IInv, CommandsTypeOK, EffectsExcused, AnsweredFromRow, Kept, Sends

(* Every step preserves the invariant: the steps of `idempotent', a        *)
(* repeated request, an expired row, a restart, and the steps of the page. *)
LEMMA StepHolds == IInv /\ [AllNext]_allVars => IInv'
<1> SUFFICES ASSUME IInv, [AllNext]_allVars PROVE IInv'
  OBVIOUS
<1> USE DEF IInv, CommandsTypeOK, EffectsExcused, AnsweredFromRow, Kept, Sends
<1>1. CASE UNCHANGED commandVars
  BY <1>1 DEF commandVars
<1>2. ASSUME NEW i \in Sends, Send(i) PROVE IInv'
  BY <1>2 DEF Send
<1>3. ASSUME NEW i \in Sends, Take(i) PROVE IInv'
  <2>1. CASE Replays
    BY <1>3, <2>1 DEF Take, Replays
  <2>2. CASE ~Replays
    BY <1>3, <2>2 DEF Take, Replays
  <2> QED BY <2>1, <2>2
<1>4. ASSUME NEW i \in Sends, Command(i) PROVE IInv'
  <2>1. idemMu = i /\ saved = "none" /\ ~Kept
    BY <1>4 DEF Command
  <2>2. PICK code \in {"ok", "refused", "failed"}, effect \in BOOLEAN :
          /\ result' = [result EXCEPT ![i] = code]
          /\ done' = [done EXCEPT !.effects = IF effect THEN @ + 1 ELSE @,
                                  !.unsure = IF effect /\ code = "failed" THEN @ + 1 ELSE @]
    BY <1>4 DEF Command
  <2>3. req' = [req EXCEPT ![i] = "store"] /\ UNCHANGED <<idemMu, saved>>
    BY <1>4 DEF Command
  <2>4. \/ done' = done
        \/ code # "failed" /\ done' = [done EXCEPT !.effects = @ + 1]
        \/ code = "failed" /\ done' = [done EXCEPT !.effects = @ + 1, !.unsure = @ + 1]
    <3>1. CASE effect /\ code = "failed"
      BY <2>2, <3>1
    <3>2. CASE effect /\ code # "failed"
      BY <2>2, <3>2
    <3>3. CASE ~effect
      BY <2>2, <3>3
    <3> QED BY <3>1, <3>2, <3>3
  <2>5. CommandsTypeOK'
    <3>1. done' \in [effects : Nat, unsure : Nat, forgotten : Nat]
      BY <2>4, CountersCount
    <3>2. req' \in [Sends -> {"idle", "waiting", "next", "store", "answered", "lost"}]
      BY <2>1, <2>2, <2>3
    <3>3. result' \in [Sends -> {"none", "ok", "refused", "failed"}]
      BY <2>1, <2>2, <2>3
    <3>4. \A j \in Sends : req'[j] \in {"next", "store"} <=> idemMu' = j
      BY <2>1, <2>2, <2>3
    <3> QED BY <2>3, <3>1, <3>2, <3>3, <3>4
  <2>6. EffectsExcused'
    BY <2>1, <2>2, <2>3, <2>4
  <2>7. AnsweredFromRow'
    BY <2>1, <2>2, <2>3, <2>4
  <2> QED BY <2>5, <2>6, <2>7
<1>5. ASSUME NEW i \in Sends, Store(i) PROVE IInv'
  BY <1>5 DEF Store
<1>6. CASE Expire
  BY <1>6 DEF Expire
<1>7. CASE Stop
  <2>1. /\ req' = [i \in Sends |-> IF req[i] \in {"waiting", "next", "store"} THEN "lost" ELSE req[i]]
        /\ result' = [i \in Sends |-> IF req[i] = "store" THEN "none" ELSE result[i]]
        /\ done' = [done EXCEPT !.forgotten = IF idemMu # 0 /\ req[idemMu] = "store" THEN @ + 1 ELSE @]
        /\ idemMu' = 0 /\ saved' = saved
    BY <1>7 DEF Stop
  <2>2. CommandsTypeOK'
    <3>1. done' \in [effects : Nat, unsure : Nat, forgotten : Nat]
      <4>1. CASE idemMu # 0 /\ req[idemMu] = "store"
        BY <2>1, <4>1, CountersCount
      <4>2. CASE ~(idemMu # 0 /\ req[idemMu] = "store")
        BY <2>1, <4>2
      <4> QED BY <4>1, <4>2
    <3>2. req' \in [Sends -> {"idle", "waiting", "next", "store", "answered", "lost"}]
      BY <2>1
    <3>3. result' \in [Sends -> {"none", "ok", "refused", "failed"}]
      BY <2>1
    <3>4. \A j \in Sends : req'[j] \in {"next", "store"} <=> idemMu' = j
      BY <2>1
    <3> QED BY <2>1, <3>1, <3>2, <3>3, <3>4
  <2>3. EffectsExcused'
    BY <2>1
  <2>4. AnsweredFromRow'
    BY <2>1
  <2> QED BY <2>2, <2>3, <2>4
<1> QED
  BY <1>1, <1>2, <1>3, <1>4, <1>5, <1>6, <1>7 DEF AllNext, Handler, allVars, commandVars

(* The invariant implies the three properties.                             *)
LEMMA InvSuffices == IInv => CommandsTypeOK /\ CommandOnce /\ SameAnswer
  BY DEF IInv, CommandsTypeOK, EffectsExcused, AnsweredFromRow, Kept, Sends, CommandOnce, SameAnswer

(* The invariant holds in every behaviour.                                 *)
LEMMA InvHolds == AllSpec => []IInv
  BY InitHolds, StepHolds, PTL DEF AllSpec

(* At most one handler is past the lookup of `idempotent', and it is the   *)
(* holder of idemMu; for every number of sendings.                         *)
THEOREM CommandsTypeCorrect == AllSpec => []CommandsTypeOK
  BY InvHolds, InvSuffices, PTL

(* A command takes effect once per key, and once more only for an answer   *)
(* that was lost or a failure after an effect; for every number of         *)
(* sendings, stops and expired rows.                                       *)
THEOREM CommandExecutedOnce == AllSpec => []CommandOnce
  BY InvHolds, InvSuffices, PTL

(* Until an answer is lost, all sendings that do not fail are answered     *)
(* alike.                                                                  *)
THEOREM OneAnswer == AllSpec => []SameAnswer
  BY InvHolds, InvSuffices, PTL

-----------------------------------------------------------------------------
(* The page follows the state, with the changes of the command and the     *)
(* restarts among the steps.                                               *)
PageTyped ==
    /\ version \in Nat /\ since \in Nat /\ queue \in Nat /\ socket \in Nat
    /\ fetches \in Seq(Int)

(* What makes ChangeReachesPage inductive: while the page does not show    *)
(* the current state, an event or a fetch that will bring it is under way. *)
(* The fetch is the last one, because fetches keep their order.            *)
NewsUnderWay ==
    handler = "subscribed" /\ version > since =>
        \/ queue > 0 \/ socket > 0 \/ ~opened
        \/ fetches # <<>> /\ fetches[Len(fetches)] \in {Asked, version}
        \/ fetches = <<>> /\ (shown = version \/ error)

PageInv == PageTyped /\ NewsUnderWay

(* A sequence without its first element.                                   *)
LEMMA RemoveFirstIs ==
  ASSUME NEW q \in Seq(Int), q # <<>>
  PROVE  /\ RemoveAt(q, 1) \in Seq(Int) /\ Len(RemoveAt(q, 1)) = Len(q) - 1
         /\ Len(q) = 1 => RemoveAt(q, 1) = <<>>
         /\ Len(q) # 1 => RemoveAt(q, 1) # <<>> /\ RemoveAt(q, 1)[Len(q) - 1] = q[Len(q)]
<1> DEFINE a == SubSeq(q, 1, 0)
           b == SubSeq(q, 2, Len(q))
<1>1. Len(q) \in Nat \ {0} /\ \A k \in 2..Len(q) : q[k] \in Int
  BY EmptySeq
<1>2. a = <<>>
  BY SubSeqEmpty
<1>3. b \in Seq(Int) /\ Len(b) = Len(q) - 1 /\ \A k \in 1..Len(b) : b[k] = q[k + 1]
  <2>1. b = Tail(q)
    BY TailIsSubSeq, Zenon
  <2>2. Tail(q) \in Seq(Int) /\ Len(Tail(q)) = Len(q) - 1 /\ \A k \in 1..Len(Tail(q)) : Tail(q)[k] = q[k + 1]
    BY HeadTailProperties
  <2> HIDE DEF b
  <2> QED BY <2>1, <2>2
<1>4. RemoveAt(q, 1) = a \o b
  BY DEF RemoveAt
<1> HIDE DEF a, b
<1>5. RemoveAt(q, 1) = b
  BY <1>2, <1>3, <1>4, ConcatEmptySeq, Zenon
<1>6. Len(q) = 1 => b = <<>>
  BY <1>3
<1>7. Len(q) # 1 => b # <<>> /\ b[Len(q) - 1] = q[Len(q)]
  BY <1>1, <1>3
<1> QED BY <1>3, <1>5, <1>6, <1>7

LEMMA PageInit == AllInit => PageInv
  BY EmptySeq DEF AllInit, Init, PageInv, PageTyped, NewsUnderWay

(* A change of the state: the channel is not empty after it.               *)
LEMMA ChangeNotifies == ASSUME PageInv, Change PROVE PageInv'
  BY CapAssumption DEF PageInv, PageTyped, NewsUnderWay, Change, Notify

LEMMA CloseKeeps ==
  ASSUME PageInv, Close \/ (handler = "closed" /\ UNCHANGED <<version, handler, since, queue, socket, opened,
                                                               fetches, shown, error>>)
  PROVE  PageInv'
<1>1. handler' = "closed" /\ queue' \in Nat /\ socket' \in Nat
  BY DEF PageInv, PageTyped, Close
<1>2. UNCHANGED <<version, since, fetches, shown, error>>
  BY DEF Close
<1> QED BY <1>1, <1>2 DEF PageInv, PageTyped, NewsUnderWay

LEMMA PageStep == ASSUME PageInv, Next, Ordered PROVE PageInv'
<1> USE DEF PageInv, PageTyped, NewsUnderWay
<1>1. CASE Change
  BY <1>1, ChangeNotifies
<1>2. CASE Accept
  BY <1>2 DEF Accept
<1>3. CASE Subscribe
  BY <1>3 DEF Subscribe
<1>4. CASE Forward
  BY <1>4 DEF Forward
<1>5. CASE OnOpen \/ OnMessage
  <2>1. fetches' = Append(fetches, Asked)
    BY <1>5 DEF OnOpen, OnMessage, Refresh
  <2>2. fetches' \in Seq(Int) /\ fetches' # <<>> /\ fetches'[Len(fetches')] = Asked
    <3>1. Asked \in Int
      BY DEF Asked
    <3> QED BY <2>1, <3>1, AppendProperties
  <2>3. socket' \in Nat /\ UNCHANGED <<version, handler, since, queue, shown, error>>
    BY <1>5 DEF OnOpen, OnMessage
  <2> QED BY <2>2, <2>3
<1>6. CASE Close
  BY <1>6, CloseKeeps
<1>7. ASSUME NEW i \in DOMAIN fetches, Answer(i) PROVE PageInv'
  <2>1. /\ fetches' = [fetches EXCEPT ![i] = version]
        /\ UNCHANGED <<version, handler, since, queue, socket, opened, shown, error>>
    BY <1>7 DEF Answer
  <2>2. i \in 1..Len(fetches) /\ fetches # <<>>
    OBVIOUS
  <2>3. /\ fetches' \in Seq(Int) /\ fetches' # <<>> /\ Len(fetches') = Len(fetches)
        /\ fetches'[Len(fetches)] \in {version, fetches[Len(fetches)]}
    BY <2>1, <2>2
  <2> QED BY <2>1, <2>2, <2>3
<1>8. ASSUME NEW i \in DOMAIN fetches, Arrive(i) \/ FetchFails(i) PROVE PageInv'
  <2>1. /\ i = 1 /\ fetches' = RemoveAt(fetches, 1)
        /\ (fetches[1] # Asked /\ shown' = fetches[1] /\ error' = FALSE) \/ error' = TRUE
        /\ UNCHANGED <<version, handler, since, queue, socket, opened>>
    BY <1>8 DEF Arrive, FetchFails
  <2>2. fetches # <<>> /\ Len(fetches) \in Nat
    OBVIOUS
  <2>3. /\ fetches' \in Seq(Int) /\ Len(fetches') = Len(fetches) - 1
        /\ Len(fetches) = 1 => fetches' = <<>>
        /\ Len(fetches) # 1 => fetches' # <<>> /\ fetches'[Len(fetches')] = fetches[Len(fetches)]
    BY <2>1, <2>2, RemoveFirstIs
  <2>4. PageTyped'
    BY <2>1, <2>3
  <2>5. CASE Len(fetches) = 1
    BY <2>1, <2>2, <2>3, <2>4, <2>5
  <2>6. CASE Len(fetches) # 1
    BY <2>1, <2>2, <2>3, <2>4, <2>6
  <2> QED BY <2>5, <2>6
<1> QED BY <1>1, <1>2, <1>3, <1>4, <1>5, <1>6, <1>7, <1>8 DEF Next

LEMMA PageHolds == ASSUME Ordered PROVE PageInv /\ [AllNext]_allVars => PageInv'
<1> SUFFICES ASSUME PageInv, [AllNext]_allVars PROVE PageInv'
  OBVIOUS
<1>1. CASE UNCHANGED vars
  BY <1>1 DEF vars, PageInv, PageTyped, NewsUnderWay
<1>2. CASE Next
  BY <1>2, PageStep
<1>3. CASE Stop
  BY <1>3, CloseKeeps DEF Stop
<1>4. ASSUME NEW i \in Sends, Command(i) PROVE PageInv'
  BY <1>1, <1>4, ChangeNotifies DEF Command
<1>5. ASSUME NEW i \in Sends, Send(i) \/ Take(i) \/ Store(i) PROVE PageInv'
  BY <1>1, <1>5 DEF Send, Take, Store
<1>6. CASE Expire
  BY <1>1, <1>6 DEF Expire
<1> QED BY <1>1, <1>2, <1>3, <1>4, <1>5, <1>6 DEF AllNext, Handler, allVars

(* When fetches keep their order, a change after the subscription reaches  *)
(* the page for every capacity of the channel, however many events a full  *)
(* channel drops, and with any number of commands, restarts, lost sockets  *)
(* and failed fetches among the changes.                                   *)
THEOREM ChangesReachPage == ASSUME Ordered PROVE AllSpec => []ChangeReachesPage
<1>1. PageInv => ChangeReachesPage
  BY DEF PageInv, PageTyped, NewsUnderWay, ChangeReachesPage, Quiet
<1> QED BY <1>1, PageInit, PageHolds, PTL DEF AllSpec
=============================================================================
