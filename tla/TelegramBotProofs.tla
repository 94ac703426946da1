------------------------- MODULE TelegramBotProofs --------------------------
(***************************************************************************)
(* Proofs about TelegramBot, for any number of updates, confirmations,     *)
(* failed or lost answers and restarts: a confirmed action is executed     *)
(* once, and on a route that was named to the user. Both rest on           *)
(* Bot.pending: an id is drawn fresh, is confirmable only once its message *)
(* was sent, and is taken out before the action is executed.               *)
(***************************************************************************)
EXTENDS TelegramBot, SequenceTheorems, FiniteSetTheorems, TLAPS

Ids == 1..MaxConfirms
Taps == [kind : Kinds, id : Int, choice : Int]
Messages == [kind : {"prompt", "choice", "confirmation"}, id : Int, value : Int]
Executions == [id : Ids, route : Int, named : Int]
Counts == [failed : Nat, lost : Nat, restarts : Nat]

(* What of the types the argument uses.                                    *)
BotTyped ==
    /\ updates \in Seq(Taps)
    /\ offset \in Nat \ {0} /\ stored \in Nat \ {0} /\ batch \in Seq(1..Len(updates))
    /\ pending \in [Ids -> Int] /\ routes \in Seq(Routes)
    /\ asked \subseteq Messages /\ IsFiniteSet(asked)
    /\ executed \in Seq(Executions)
    /\ counts \in Counts

(* The chat has asked for the confirmation of id.                          *)
Confirmable(id, chatted) == \E m \in chatted : m.kind = "confirmation" /\ m.id = id

(* Buttons carry the ids of confirmations, and users tap buttons that were *)
(* sent.                                                                   *)
TapsAsked ==
    /\ \A m \in asked : m.kind # "prompt" => m.id \in Ids
    /\ \A k \in 1..Len(updates) :
         /\ updates[k].kind \in {"route", "cancel"} => updates[k].id \in Ids
         /\ updates[k].kind = "route" => updates[k].choice >= 1
         /\ updates[k].kind = "confirm" => Confirmable(updates[k].id, asked)

(* What was executed is pending no more, and its id is not fresh again.    *)
ExecutedGone ==
    \A k \in 1..Len(executed) :
        Confirmable(executed[k].id, asked) /\ pending[executed[k].id] = NotPending

(* The route of a pending action was named, unless nobody can confirm it   *)
(* yet.                                                                    *)
PendingNamed ==
    \A i \in Ids : pending[i] # NotPending =>
        \/ counts.failed > 0
        \/ Message("confirmation", i, pending[i]) \in asked
        \/ ~Confirmable(i, asked)

BotInv == BotTyped /\ TapsAsked /\ ExecutedGone /\ PendingNamed /\ ExecutedOnce /\ RouteNamed

botVars == <<updates, offset, stored, batch, pending, routes, asked, executed>>

(* The bot has asked and executed nothing.                                 *)
LEMMA BotInit == Init => BotInv
<1> SUFFICES ASSUME Init PROVE BotInv
  OBVIOUS
<1>1. BotTyped
  <2>1. pending \in [Ids -> Int]
    BY DEF Init, NotPending, Ids
  <2>2. IsFiniteSet(asked) /\ asked \subseteq Messages
    BY FS_EmptySet DEF Init
  <2>3. routes \in Seq(Routes)
    BY DEF Init, Routes
  <2>4. updates \in Seq(Taps) /\ executed \in Seq(Executions) /\ batch \in Seq(1..Len(updates))
    BY DEF Init
  <2>5. counts \in Counts /\ offset \in Nat \ {0} /\ stored \in Nat \ {0}
    BY DEF Init, Counts
  <2> QED BY <2>1, <2>2, <2>3, <2>4, <2>5 DEF BotTyped
<1>2. TapsAsked /\ ExecutedGone
  BY DEF Init, TapsAsked, ExecutedGone
<1>3. PendingNamed
  BY DEF Init, PendingNamed, Ids
<1>4. ExecutedOnce /\ RouteNamed
  BY DEF Init, ExecutedOnce, RouteNamed
<1> QED BY <1>1, <1>2, <1>3, <1>4 DEF BotInv

(* What was executed has the id of a confirmation.                         *)
LEMMA ExecutedTyped ==
    ASSUME BotTyped, NEW k \in 1..Len(executed)
    PROVE  executed[k].id \in Ids
<1>1. executed \in Seq(Executions)
  BY DEF BotTyped
<1>2. executed[k] \in Executions
  BY <1>1
<1> QED BY <1>2 DEF Executions

(* The message of the call, and failures of its requests.                  *)
LEMMA BotKept ==
    ASSUME BotInv, UNCHANGED botVars, counts' \in Counts,
           counts'.failed >= counts.failed
    PROVE  BotInv'
<1>1. BotTyped'
  BY DEF BotInv, BotTyped, botVars
<1>2. TapsAsked' /\ ExecutedGone' /\ ExecutedOnce'
  BY DEF BotInv, TapsAsked, ExecutedGone, ExecutedOnce, botVars, Confirmable
<1>3. counts.failed \in Nat /\ counts'.failed \in Nat
  BY DEF BotInv, BotTyped, Counts
<1>4. counts.failed > 0 => counts'.failed > 0
  BY <1>3
<1>5. PendingNamed'
  BY <1>4 DEF BotInv, PendingNamed, botVars, Confirmable
<1>6. RouteNamed'
  BY <1>4 DEF BotInv, RouteNamed, botVars
<1> QED BY <1>1, <1>2, <1>5, <1>6 DEF BotInv

(* Failures are only counted up.                                           *)
LEMMA CountsFail ==
    ASSUME BotTyped, Failed \/ Lost \/ UNCHANGED counts
    PROVE  counts' \in Counts /\ counts'.failed >= counts.failed
<1>1. counts \in Counts
  BY DEF BotTyped
<1>2. CASE Failed
  BY <1>1, <1>2 DEF Failed, Counts
<1>3. CASE Lost
  BY <1>1, <1>3 DEF Lost, Counts
<1>4. CASE UNCHANGED counts
  BY <1>1, <1>4 DEF Counts
<1> QED BY <1>2, <1>3, <1>4

(* The goroutines that show the call.                                      *)
LEMMA NoticeStep ==
    ASSUME BotInv, Loop \/ LoopGivesUp \/ Ender \/ EndedAgain \/ CallGoesOn
    PROVE  BotInv'
<1>1. UNCHANGED pollVars /\ (Failed \/ Lost \/ UNCHANGED counts)
  <2>1. CASE Loop
    BY <2>1 DEF Loop, LoopRead, LoopUpsert, LoopInsert, LoopTest, LoopTicks, Upsert
  <2>2. CASE LoopGivesUp
    BY <2>2 DEF LoopGivesUp
  <2>3. CASE Ender
    BY <2>3 DEF Ender, EnderUpsert, EnderInsert, EnderDelete, Upsert
  <2>4. CASE EndedAgain \/ CallGoesOn
    BY <2>4 DEF EndedAgain, CallGoesOn
  <2> QED BY <2>1, <2>2, <2>3, <2>4
<1>2. UNCHANGED botVars
  BY <1>1 DEF pollVars, botVars
<1>3. BotTyped
  BY DEF BotInv
<1> QED BY <1>1, <1>2, <1>3, CountsFail, BotKept

(* A sequence over a smaller set is one over a larger.                     *)
LEMMA SeqLarger ==
    ASSUME NEW S, NEW T, NEW q \in Seq(S), S \subseteq T
    PROVE  q \in Seq(T)
<1>1. q \in [1..Len(q) -> S] /\ Len(q) \in Nat
  OBVIOUS
<1>2. q \in [1..Len(q) -> T]
  BY <1>1
<1> QED BY <1>1, <1>2

(* Users: a tap is on a button that was sent.                              *)
LEMMA TapStep ==
    ASSUME BotInv, NEW u \in Taps, Cause(u),
           u.kind \in {"route", "cancel"} => u.id \in Ids,
           u.kind = "route" => u.choice >= 1,
           u.kind = "confirm" => Confirmable(u.id, asked)
    PROVE  BotInv'
<1> USE DEF BotInv
<1>1. updates' = Append(updates, u) /\ UNCHANGED <<offset, stored, batch, pending, routes, asked, executed, counts>>
  BY DEF Cause
<1>2. /\ updates' \in Seq(Taps) /\ Len(updates') = Len(updates) + 1 /\ Len(updates) \in Nat
      /\ \A k \in 1..Len(updates) : updates'[k] = updates[k]
      /\ updates'[Len(updates) + 1] = u
  BY <1>1 DEF BotTyped
<1>3. BotTyped'
  <2>1. 1..Len(updates) \subseteq 1..Len(updates')
    BY <1>2
  <2>2. batch \in Seq(1..Len(updates'))
    BY <2>1, SeqLarger DEF BotTyped
  <2> QED BY <1>1, <1>2, <2>2 DEF BotTyped
<1>4. TapsAsked'
  <2>1. ASSUME NEW k \in 1..Len(updates')
        PROVE  /\ updates'[k].kind \in {"route", "cancel"} => updates'[k].id \in Ids
               /\ updates'[k].kind = "route" => updates'[k].choice >= 1
               /\ updates'[k].kind = "confirm" => Confirmable(updates'[k].id, asked)
    <3>1. CASE k \in 1..Len(updates)
      BY <3>1, <1>2 DEF TapsAsked
    <3>2. CASE k = Len(updates) + 1
      BY <3>2, <1>2
    <3> QED BY <3>1, <3>2, <1>2
  <2> QED BY <2>1, <1>1 DEF TapsAsked, Confirmable
<1>5. ExecutedGone' /\ ExecutedOnce' /\ PendingNamed' /\ RouteNamed'
  BY <1>1 DEF ExecutedGone, ExecutedOnce, PendingNamed, RouteNamed, Confirmable
<1> QED BY <1>3, <1>4, <1>5

(* The user taps a button that was sent, or types.                         *)
LEMMA UserStep == ASSUME BotInv, UserActs PROVE BotInv'
<1>1. ASSUME NEW kind \in Kinds, NEW id \in Int, NEW choice \in Int
      PROVE  /\ Update(kind, id, choice) \in Taps
             /\ Update(kind, id, choice).kind = kind
             /\ Update(kind, id, choice).id = id
             /\ Update(kind, id, choice).choice = choice
  BY DEF Update, Taps
<1>2. ASSUME NEW kind \in {"hold", "voicemail", "reject", "ask", "command"}, Cause(Update(kind, 0, 0))
      PROVE  BotInv'
  <2>1. kind \in Kinds
    BY DEF Kinds
  <2> QED BY <1>1, <1>2, <2>1, TapStep
<1>3. ASSUME NEW m \in asked,
             CASE m.kind = "prompt" -> Cause(Update("reply", m.id, 0))
               [] m.kind = "choice" -> \E i \in 1..m.value : Cause(Update("route", m.id, i))
               [] m.kind = "confirmation" -> Cause(Update("confirm", m.id, m.value)) \/ Cause(Update("cancel", m.id, 0))
      PROVE  BotInv'
  <2> {"reply", "route", "confirm", "cancel"} \subseteq Kinds
    BY DEF Kinds
  <2>1. m.kind \in {"prompt", "choice", "confirmation"} /\ m.id \in Int /\ m.value \in Int
    BY DEF BotInv, BotTyped, Messages
  <2>2. m.kind # "prompt" => m.id \in Ids
    BY DEF BotInv, TapsAsked
  <2>3. CASE m.kind = "prompt"
    <3>1. Cause(Update("reply", m.id, 0))
      BY <1>3, <2>3
    <3> QED BY <1>1, <2>1, <3>1, TapStep
  <2>4. CASE m.kind = "choice"
    <3>1. PICK i \in 1..m.value : Cause(Update("route", m.id, i))
      BY <1>3, <2>4
    <3>2. i \in Int /\ i >= 1
      BY <2>1
    <3> QED BY <1>1, <2>1, <2>2, <2>4, <3>1, <3>2, TapStep
  <2>5. CASE m.kind = "confirmation"
    <3>1. CASE Cause(Update("confirm", m.id, m.value))
      <4>1. Confirmable(m.id, asked)
        BY <2>5 DEF Confirmable
      <4> QED BY <1>1, <2>1, <3>1, <4>1, TapStep
    <3>2. CASE Cause(Update("cancel", m.id, 0))
      BY <1>1, <2>1, <2>2, <2>5, <3>2, TapStep
    <3> QED BY <1>3, <2>5, <3>1, <3>2
  <2> QED BY <2>1, <2>3, <2>4, <2>5
<1> QED BY <1>2, <1>3 DEF UserActs

(* Polling, and the phones.                                                *)
LEMMA FetchStep == ASSUME BotInv, Poll \/ RoutesChange \/ StoreOffset PROVE BotInv'
<1> USE DEF BotInv
<1>1. UNCHANGED <<updates, pending, asked, executed, counts>>
  BY DEF Poll, RoutesChange, StoreOffset
<1>2. offset' \in Nat \ {0} /\ stored' \in Nat \ {0}
  BY DEF Poll, RoutesChange, StoreOffset, BotTyped
<1>3. routes' \in Seq(Routes)
  <2>1. CASE RoutesChange
    <3>1. <<>> \in Seq(Routes) /\ <<2>> \in Seq(Routes) /\ <<1, 2>> \in Seq(Routes)
      BY DEF Routes
    <3> QED BY <2>1, <3>1 DEF RoutesChange
  <2>2. CASE Poll \/ StoreOffset
    BY <2>2 DEF Poll, StoreOffset, BotTyped
  <2> QED BY <2>1, <2>2
<1>4. batch' \in Seq(1..Len(updates))
  <2>1. CASE Poll
    <3>1. offset \in Nat \ {0} /\ Len(updates) \in Nat /\ offset <= Len(updates)
      BY <2>1 DEF Poll, BotTyped
    <3>2. Len(updates) - offset + 1 \in Nat
      BY <3>1
    <3>3. \A i \in 1..(Len(updates) - offset + 1) : offset + i - 1 \in 1..Len(updates)
      BY <3>1
    <3>4. batch' = [i \in 1..(Len(updates) - offset + 1) |-> offset + i - 1]
      BY <2>1 DEF Poll
    <3> QED BY <3>2, <3>3, <3>4
  <2>2. CASE RoutesChange
    BY <2>2 DEF RoutesChange, BotTyped
  <2>3. CASE StoreOffset
    BY <2>3 DEF StoreOffset, BotTyped
  <2> QED BY <2>1, <2>2, <2>3
<1>5. BotTyped'
  BY <1>1, <1>2, <1>3, <1>4 DEF BotTyped
<1>6. TapsAsked' /\ ExecutedGone' /\ ExecutedOnce'
  BY <1>1 DEF TapsAsked, ExecutedGone, ExecutedOnce, Confirmable
<1>7. PendingNamed' /\ RouteNamed'
  BY <1>1 DEF PendingNamed, RouteNamed, Confirmable
<1> QED BY <1>5, <1>6, <1>7

(* A restart forgets all pending actions.                                  *)
LEMMA BotRestart == ASSUME BotInv, Restart PROVE BotInv'
<1> USE DEF BotInv
<1>1. /\ UNCHANGED <<updates, stored, routes, asked, executed>> /\ offset' = stored /\ batch' = <<>>
      /\ pending' = [i \in 1..MaxConfirms |-> NotPending] /\ counts' = [counts EXCEPT !.restarts = @ + 1]
  BY DEF Restart, RestartAt
<1>2. counts' \in Counts /\ counts'.failed = counts.failed
  <2>1. counts \in Counts
    BY DEF BotTyped
  <2> QED BY <1>1, <2>1 DEF Counts
<1>3. pending' \in [Ids -> Int] /\ \A i \in Ids : pending'[i] = NotPending
  BY <1>1 DEF Ids, NotPending
<1>4. BotTyped'
  BY <1>1, <1>2, <1>3 DEF BotTyped
<1>5. TapsAsked' /\ ExecutedOnce' /\ RouteNamed' /\ PendingNamed'
  BY <1>1, <1>2, <1>3 DEF TapsAsked, ExecutedOnce, RouteNamed, PendingNamed, Confirmable
<1>6. ExecutedGone'
  <2>1. \A k \in 1..Len(executed) : executed[k].id \in Ids
    BY ExecutedTyped
  <2> QED BY <1>1, <1>3, <2>1 DEF ExecutedGone, Confirmable
<1> QED BY <1>4, <1>5, <1>6

-----------------------------------------------------------------------------
(* The handling of an update, case by case. All cases advance the offset.  *)
HandleFrame ==
    /\ UNCHANGED <<updates, stored, batch, routes>>
    /\ offset' \in Nat \ {0}
    /\ counts' \in Counts /\ counts'.failed >= counts.failed

(* An update that touches neither pending actions nor what was executed,   *)
(* but may send a prompt.                                                  *)
LEMMA PromptStep ==
    ASSUME BotInv, HandleFrame, UNCHANGED <<pending, executed>>,
           NEW m \in Messages, m.kind = "prompt", asked' \in {asked, asked \union {m}}
    PROVE  BotInv'
<1> USE DEF BotInv
<1>1. BotTyped'
  <2>1. IsFiniteSet(asked') /\ asked' \subseteq Messages
    <3>1. IsFiniteSet(asked) /\ asked \subseteq Messages
      BY DEF BotTyped
    <3>2. IsFiniteSet(asked \union {m})
      BY <3>1, FS_AddElement
    <3> QED BY <3>1, <3>2
  <2> QED BY <2>1 DEF BotTyped, HandleFrame
<1>2. \A id : Confirmable(id, asked') <=> Confirmable(id, asked)
  BY DEF Confirmable
<1>3. asked \subseteq asked' /\ counts.failed \in Nat /\ counts'.failed \in Nat /\ counts'.failed >= counts.failed
  BY DEF HandleFrame, BotTyped, Counts
<1>4. TapsAsked'
  BY <1>2 DEF TapsAsked, HandleFrame
<1>5. ExecutedGone' /\ ExecutedOnce'
  BY <1>2 DEF ExecutedGone, ExecutedOnce
<1>6. PendingNamed'
  BY <1>2, <1>3 DEF PendingNamed
<1>7. RouteNamed'
  BY <1>3 DEF RouteNamed
<1> QED BY <1>1, <1>4, <1>5, <1>6, <1>7

(* An action becomes pending, or gets its route, and a message names it;   *)
(* when the message cannot be sent that counts as a failure.               *)
LEMMA PendStep ==
    ASSUME BotInv, HandleFrame, UNCHANGED executed,
           NEW id \in Ids, NEW route \in Int, NEW m \in Messages,
           pending' = [pending EXCEPT ![id] = route],
           \/ pending[id] # NotPending /\ m = Message("confirmation", id, route)
           \/ /\ ~Confirmable(id, asked)
              /\ (m.kind = "choice" /\ m.id = id) \/ m = Message("confirmation", id, route),
           asked' = asked \union {m} \/ (asked' = asked /\ counts'.failed > 0)
    PROVE  BotInv'
<1> USE DEF BotInv
<1>1. BotTyped'
  <2>1. IsFiniteSet(asked') /\ asked' \subseteq Messages
    <3>1. IsFiniteSet(asked) /\ asked \subseteq Messages
      BY DEF BotTyped
    <3>2. IsFiniteSet(asked \union {m})
      BY <3>1, FS_AddElement
    <3> QED BY <3>1, <3>2
  <2>2. pending' \in [Ids -> Int]
    BY DEF BotTyped
  <2> QED BY <2>1, <2>2 DEF BotTyped, HandleFrame
<1>2. asked \subseteq asked' /\ counts.failed \in Nat /\ counts'.failed \in Nat /\ counts'.failed >= counts.failed
  BY DEF HandleFrame, BotTyped, Counts
<1>3. m.id = id /\ m.kind \in {"choice", "confirmation"}
  BY DEF Message
<1>4. TapsAsked'
  BY <1>2, <1>3 DEF TapsAsked, HandleFrame, Confirmable
<1>5. \A k \in 1..Len(executed) : executed[k].id # id /\ executed[k].id \in Ids
  <2> TAKE k \in 1..Len(executed)
  <2>1. executed[k].id \in Ids
    BY ExecutedTyped
  <2>2. Confirmable(executed[k].id, asked) /\ pending[executed[k].id] = NotPending
    BY DEF ExecutedGone
  <2> QED BY <2>1, <2>2
<1>6. \A i \in Ids : pending'[i] = IF i = id THEN route ELSE pending[i]
  BY DEF BotTyped
<1>7. ExecutedGone'
  BY <1>2, <1>5, <1>6 DEF ExecutedGone, Confirmable
<1>8. PendingNamed'
  <2> SUFFICES ASSUME NEW i \in Ids, pending'[i] # NotPending, ~(counts'.failed > 0)
               PROVE  Message("confirmation", i, pending'[i]) \in asked' \/ ~Confirmable(i, asked')
    BY DEF PendingNamed
  <2>1. asked' = asked \union {m} /\ ~(counts.failed > 0)
    BY <1>2
  <2>2. CASE i # id
    <3>1. Confirmable(i, asked') => Confirmable(i, asked)
      BY <2>1, <2>2, <1>3 DEF Confirmable
    <3> QED BY <3>1, <2>1, <2>2, <1>6, <1>2 DEF PendingNamed
  <2>3. CASE i = id /\ m = Message("confirmation", id, route)
    BY <2>1, <2>3, <1>6
  <2>4. CASE i = id /\ m.kind = "choice" /\ ~Confirmable(id, asked)
    BY <2>1, <2>4 DEF Confirmable
  <2> QED BY <2>2, <2>3, <2>4, <1>3 DEF Message
<1>9. ExecutedOnce' /\ RouteNamed'
  BY <1>2 DEF ExecutedOnce, RouteNamed
<1> QED BY <1>1, <1>4, <1>7, <1>8, <1>9

(* An action is taken out and executed, or dropped.                        *)
LEMMA TakeOutStep ==
    ASSUME BotInv, HandleFrame, UNCHANGED <<asked, counts>>,
           NEW id \in Ids, NEW named \in Int,
           pending' = [pending EXCEPT ![id] = NotPending],
           \/ UNCHANGED executed
           \/ pending[id] # NotPending /\ Confirmable(id, asked) /\ Execute(id, named)
    PROVE  BotInv'
<1> USE DEF BotInv
<1>1. pending' \in [Ids -> Int] /\ \A i \in Ids : pending'[i] = IF i = id THEN NotPending ELSE pending[i]
  BY DEF BotTyped, NotPending
<1>2. TapsAsked' /\ PendingNamed'
  BY <1>1 DEF TapsAsked, PendingNamed, HandleFrame, Confirmable
<1>3. CASE UNCHANGED executed
  <2>1. BotTyped'
    BY <1>1, <1>3 DEF BotTyped, HandleFrame
  <2>2. ExecutedGone'
    <3>1. \A k \in 1..Len(executed) : executed[k].id \in Ids
      BY ExecutedTyped
    <3> QED BY <1>1, <1>3, <3>1 DEF ExecutedGone, Confirmable
  <2>3. ExecutedOnce' /\ RouteNamed'
    BY <1>3 DEF ExecutedOnce, RouteNamed
  <2> QED BY <1>2, <2>1, <2>2, <2>3
<1>4. CASE pending[id] # NotPending /\ Confirmable(id, asked) /\ Execute(id, named)
  <2> DEFINE e == [id |-> id, route |-> pending[id], named |-> named]
             n == Len(executed)
  <2>1. e \in Executions /\ executed \in Seq(Executions) /\ n \in Nat
    BY DEF BotTyped, Executions
  <2>2. /\ executed' = Append(executed, e)
        /\ executed' \in Seq(Executions) /\ Len(executed') = n + 1
        /\ \A k \in 1..n : executed'[k] = executed[k]
        /\ executed'[n + 1] = e
    BY <1>4, <2>1 DEF Execute
  <2> HIDE DEF e, n
  <2>e. e.id = id /\ e.route = pending[id]
    BY DEF e
  <2>3. DOMAIN executed = 1..n /\ DOMAIN executed' = 1..(n + 1) /\ 1..(n + 1) = (1..n) \union {n + 1} /\ n + 1 \notin 1..n
    BY <2>1, <2>2 DEF n
  <2>4. BotTyped'
    BY <1>1, <2>2 DEF BotTyped, HandleFrame
  <2>5. \A k \in 1..n : executed[k].id \in Ids /\ executed[k].id # id /\ pending[executed[k].id] = NotPending /\ Confirmable(executed[k].id, asked)
    <3> TAKE k \in 1..n
    <3>1. executed[k].id \in Ids
      BY ExecutedTyped DEF n
    <3>2. Confirmable(executed[k].id, asked) /\ pending[executed[k].id] = NotPending
      BY DEF ExecutedGone, n
    <3> QED BY <3>1, <3>2, <1>4
  <2>6. ExecutedGone'
    <3> SUFFICES ASSUME NEW k \in 1..(n + 1)
                 PROVE  Confirmable(executed'[k].id, asked) /\ pending'[executed'[k].id] = NotPending
      BY <2>2 DEF ExecutedGone, Confirmable
    <3>1. CASE k \in 1..n
      BY <3>1, <2>2, <2>5, <1>1
    <3>2. CASE k = n + 1
      BY <3>2, <2>2, <2>e, <1>1, <1>4
    <3> QED BY <3>1, <3>2, <2>3
  <2>7. ExecutedOnce'
    <3> SUFFICES ASSUME NEW i \in 1..(n + 1), NEW j \in 1..(n + 1), executed'[i].id = executed'[j].id
                 PROVE  i = j
      BY <2>3 DEF ExecutedOnce
    <3>1. CASE i \in 1..n /\ j \in 1..n
      BY <3>1, <2>2, <2>3 DEF ExecutedOnce
    <3>2. CASE i \in 1..n /\ j = n + 1
      BY <3>2, <2>2, <2>5, <2>e
    <3>3. CASE i = n + 1 /\ j \in 1..n
      BY <3>3, <2>2, <2>5, <2>e
    <3>4. CASE i = n + 1 /\ j = n + 1
      BY <3>4
    <3> QED BY <3>1, <3>2, <3>3, <3>4, <2>3
  <2>8. RouteNamed'
    <3> SUFFICES ASSUME NEW k \in 1..(n + 1), ~(counts.failed > 0)
                 PROVE  Message("confirmation", executed'[k].id, executed'[k].route) \in asked
      BY <2>3 DEF RouteNamed
    <3>1. CASE k \in 1..n
      BY <3>1, <2>2, <2>3 DEF RouteNamed
    <3>2. CASE k = n + 1
      BY <3>2, <2>2, <2>e, <1>4 DEF PendingNamed
    <3> QED BY <3>1, <3>2, <2>3
  <2> QED BY <1>2, <2>4, <2>6, <2>7, <2>8
<1> QED BY <1>3, <1>4

(* ask: the prompt's number is an integer, as there are finitely many.     *)
LEMMA AskStep ==
    ASSUME BotInv, HandleFrame, UNCHANGED <<pending, executed>>, NEW known, NEW step, Ask(known, step)
    PROVE  BotInv'
<1> DEFINE P == {m \in asked : m.kind = "prompt"}
           m == Message("prompt", 1 + Cardinality(P), 0)
<1>1. IsFiniteSet(asked) /\ P \subseteq asked
  BY DEF BotInv, BotTyped
<1>2. IsFiniteSet(P)
  BY <1>1, FS_Subset, Zenon
<1>3. Cardinality(P) \in Nat
  BY <1>2, FS_CardinalityType
<1>4. m \in Messages /\ m.kind = "prompt"
  BY <1>3 DEF Message, Messages
<1>5. asked' \in {asked, asked \union {m}}
  BY DEF Ask
<1> HIDE DEF m
<1> QED BY <1>4, <1>5, PromptStep

(* createConfirmation takes an id that nobody can confirm.                 *)
LEMMA CreateStep ==
    ASSUME BotInv, HandleFrame, UNCHANGED executed, CreateConfirmation
    PROVE  BotInv'
<1> DEFINE id == CHOOSE i \in FreshIds : TRUE
           route == IF Len(routes) = 1 THEN routes[1] ELSE 0
           m == IF Len(routes) > 1 THEN Message("choice", id, Len(routes)) ELSE Message("confirmation", id, route)
<1>1. id \in FreshIds
  BY DEF CreateConfirmation
<1>2. id \in Ids /\ \A x \in asked : x.kind = "prompt" \/ x.id # id
  BY <1>1 DEF FreshIds, Ids
<1>3. ~Confirmable(id, asked)
  BY <1>2 DEF Confirmable
<1>4. route \in Int /\ Len(routes) \in Int
  <2>1. routes \in Seq(Routes)
    BY DEF BotInv, BotTyped
  <2>2. Len(routes) = 1 => routes[1] \in Routes
    BY <2>1
  <2> QED BY <2>1, <2>2 DEF Routes
<1>5. pending' = [pending EXCEPT ![id] = route] /\ Sends(m)
  BY DEF CreateConfirmation
<1> HIDE DEF id, route
<1>6. m \in Messages /\ ((m.kind = "choice" /\ m.id = id) \/ m = Message("confirmation", id, route))
  BY <1>2, <1>4 DEF Message, Messages, Ids
<1> HIDE DEF m
<1>7. asked' = asked \union {m} \/ (asked' = asked /\ counts'.failed > 0)
  <2>1. counts \in Counts
    BY DEF BotInv, BotTyped
  <2>2. Failed => counts'.failed > 0
    BY <2>1 DEF Failed, Counts
  <2> QED BY <1>5, <2>2 DEF Sends
<1> QED BY <1>2, <1>3, <1>4, <1>5, <1>6, <1>7, PendStep

(* ChooseRoute stores the route before its confirmation is sent.           *)
LEMMA ChooseStep ==
    ASSUME BotInv, HandleFrame, UNCHANGED executed,
           NEW id \in Ids, NEW i \in Int, i >= 1, ChooseRoute(id, i)
    PROVE  BotInv'
<1>1. CASE pending[id] # NotPending /\ i <= Len(routes)
  <2> DEFINE m == Message("confirmation", id, routes[i])
  <2>1. routes[i] \in Int
    <3>1. routes \in Seq(Routes) /\ i \in 1..Len(routes)
      BY <1>1 DEF BotInv, BotTyped
    <3> QED BY <3>1 DEF Routes
  <2>2. pending' = [pending EXCEPT ![id] = routes[i]] /\ Sends(m)
    BY <1>1 DEF ChooseRoute
  <2>3. m \in Messages
    BY <2>1 DEF Message, Messages, Ids
  <2>4. asked' = asked \union {m} \/ (asked' = asked /\ counts'.failed > 0)
    <3>1. counts \in Counts
      BY DEF BotInv, BotTyped
    <3>2. Failed => counts'.failed > 0
      BY <3>1 DEF Failed, Counts
    <3> QED BY <2>2, <3>2 DEF Sends
  <2> HIDE DEF m
  <2>5. m = Message("confirmation", id, routes[i])
    BY DEF m
  <2> QED BY <1>1, <2>1, <2>2, <2>3, <2>4, <2>5, PendStep
<1>2. CASE ~(pending[id] # NotPending /\ i <= Len(routes))
  <2>1. UNCHANGED <<pending, asked>>
    BY <1>2 DEF ChooseRoute, NoSend
  <2>2. Message("prompt", 0, 0) \in Messages /\ Message("prompt", 0, 0).kind = "prompt"
    BY DEF Message, Messages
  <2> QED BY <2>1, <2>2, PromptStep
<1> QED BY <1>1, <1>2

(* The loop over the fetched updates.                                      *)
LEMMA HandleStep == ASSUME BotInv, HandleNext PROVE BotInv'
<1> DEFINE k == Head(batch)
           u == updates[k]
<1>1. k \in 1..Len(updates)
  BY DEF HandleNext, BotInv, BotTyped
<1>2. u \in Taps
  BY <1>1 DEF BotInv, BotTyped
<1>3. /\ u.kind \in {"route", "cancel"} => u.id \in Ids
      /\ u.kind = "route" => u.choice >= 1
      /\ u.kind = "confirm" => Confirmable(u.id, asked)
  BY <1>1 DEF BotInv, TapsAsked
<1>4. u.kind \in Kinds /\ u.id \in Int /\ u.choice \in Int
  BY <1>2 DEF Taps
<1>5. u.kind = "confirm" => u.id \in Ids
  BY <1>3 DEF Confirmable, BotInv, TapsAsked
<1>6. HandleUpdate(u) /\ UNCHANGED <<updates, stored, batch, routes>> /\ offset' = k + 1
  BY DEF HandleNext
<1> HIDE DEF u
<1>7. offset' \in Nat \ {0}
  BY <1>1, <1>6
<1> HIDE DEF k
<1>8. Failed \/ UNCHANGED counts
  BY <1>6 DEF HandleUpdate, NoSend, Ask, HandleReply, CreateConfirmation, Sends, ChooseRoute
<1>9. HandleFrame
  <2>1. counts' \in Counts /\ counts'.failed >= counts.failed
    BY <1>8, CountsFail DEF BotInv
  <2> QED BY <1>6, <1>7, <2>1 DEF HandleFrame
<1>10. ASSUME UNCHANGED <<pending, executed, asked>> PROVE BotInv'
  <2>1. Message("prompt", 0, 0) \in Messages /\ Message("prompt", 0, 0).kind = "prompt"
    BY DEF Message, Messages
  <2> QED BY <1>9, <1>10, <2>1, PromptStep
<1>11. CASE u.kind \in {"hold", "voicemail", "reject"} /\ UNCHANGED <<pending, replies, executed>> /\ NoSend
  BY <1>10, <1>11 DEF NoSend
<1>12. CASE Ask(replies, "number") /\ UNCHANGED <<pending, executed>>
  BY <1>9, <1>12, AskStep
<1>13. CASE HandleReply(u.id) /\ UNCHANGED executed
  <2> DEFINE known == [replies EXCEPT ![u.id] = "nothing"]
  <2>1. CASE Ask(known, "body") /\ UNCHANGED pending
    BY <1>9, <1>13, <2>1, AskStep
  <2>2. CASE CreateConfirmation
    BY <1>9, <1>13, <2>2, CreateStep
  <2>3. CASE NoSend /\ UNCHANGED pending
    BY <1>10, <1>13, <2>3 DEF NoSend
  <2> QED BY <1>13, <2>1, <2>2, <2>3 DEF HandleReply
<1>14. CASE CreateConfirmation /\ UNCHANGED <<replies, executed>>
  BY <1>9, <1>14, CreateStep
<1>15. CASE u.kind = "route" /\ ChooseRoute(u.id, u.choice) /\ UNCHANGED <<replies, executed>>
  BY <1>3, <1>4, <1>9, <1>15, ChooseStep
<1>16. CASE u.kind = "confirm" /\ Confirm(u.id, u.choice) /\ NoSend
  <2>1. /\ pending' = [pending EXCEPT ![u.id] = NotPending]
        /\ UNCHANGED executed \/ (pending[u.id] # NotPending /\ Execute(u.id, u.choice))
        /\ UNCHANGED <<asked, counts>>
    BY <1>16 DEF Confirm, NoSend
  <2> QED BY <1>3, <1>4, <1>5, <1>9, <1>16, <2>1, TakeOutStep
<1>17. CASE u.kind = "cancel" /\ Cancel(u.id) /\ UNCHANGED <<replies, executed>> /\ NoSend
  <2>1. pending' = [pending EXCEPT ![u.id] = NotPending] /\ UNCHANGED <<asked, counts, executed>>
    BY <1>17 DEF Cancel, NoSend
  <2> QED BY <1>3, <1>9, <1>4, <1>17, <2>1, TakeOutStep
<1> QED BY <1>6, <1>11, <1>12, <1>13, <1>14, <1>15, <1>16, <1>17 DEF HandleUpdate

(* Every step keeps the invariant.                                         *)
LEMMA BotInvHolds == Spec => []BotInv
<1>1. BotInv /\ [Next]_vars => BotInv'
  <2> SUFFICES ASSUME BotInv, [Next]_vars PROVE BotInv'
    OBVIOUS
  <2>1. CASE UNCHANGED vars
    <3>1. UNCHANGED botVars /\ UNCHANGED counts
      BY <2>1 DEF vars, pollVars, botVars
    <3>2. counts' \in Counts /\ counts'.failed >= counts.failed
      BY <3>1, CountsFail DEF BotInv
    <3> QED BY <3>1, <3>2, BotKept
  <2>2. CASE Loop \/ LoopGivesUp \/ Ender \/ EndedAgain \/ CallGoesOn
    BY <2>2, NoticeStep
  <2>3. CASE UserActs
    BY <2>3, UserStep
  <2>4. CASE Poll \/ RoutesChange \/ StoreOffset
    BY <2>4, FetchStep
  <2>5. CASE HandleNext
    BY <2>5, HandleStep
  <2>6. CASE Restart
    BY <2>6, BotRestart
  <2> QED BY <2>1, <2>2, <2>3, <2>4, <2>5, <2>6 DEF Next, PollLoop
<1> QED BY BotInit, <1>1, PTL DEF Spec

(* A confirmed action is executed once, however often its buttons are      *)
(* tapped and however often updates are delivered again: confirm takes it  *)
(* out of Bot.pending, and its id never comes back.                        *)
THEOREM ConfirmedOnce == Spec => []ExecutedOnce
  BY BotInvHolds, PTL DEF BotInv

(* An action is executed on a route that a message of sendConfirmation has *)
(* named, although the list of phones may change between the choice and    *)
(* the confirmation, unless that message could not be sent.                *)
THEOREM RouteWasNamed == Spec => []RouteNamed
  BY BotInvHolds, PTL DEF BotInv
=============================================================================
