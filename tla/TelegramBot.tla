---------------------------- MODULE TelegramBot -----------------------------
(***************************************************************************)
(* telegram.Bot: the message in the chat that follows a call, and the      *)
(* updates that users cause, which are fetched by offset, handled one      *)
(* after the other and confirmed by a second tap. The record of the call   *)
(* is what the message shows of it. The Telegram service delivers every    *)
(* update from the offset asked for; a request to it can fail, and its     *)
(* answer can be lost. The setting is on and the chat is the right one.    *)
(***************************************************************************)
EXTENDS Integers, FiniteSets, SequencesExt

CONSTANTS
    Environments,   \* records: whether there is a call; the updates that users cause, at
                    \* most how many; bounds on failures and restarts
    MaxUpdates,     \* bound on updates
    MaxConfirms,    \* bound on confirmations asked for, those of redelivered commands included
    MaxRestarts     \* bound on restarts of the server

Kinds == {"hold", "voicemail", "reject", "ask", "reply", "command", "route", "confirm", "cancel"}

ASSUME TelegramAssumption ==
    /\ MaxUpdates \in Nat /\ MaxConfirms \in Nat /\ MaxRestarts \in Nat
    /\ \A e \in Environments :
         /\ e.call \in BOOLEAN /\ e.kinds \subseteq Kinds
         /\ e.updates \in 0..MaxUpdates /\ e.failures \in Nat /\ e.restarts \in 0..MaxRestarts

VARIABLES
    env,
    call,       \* the state of the call as upsertCallNotification tells it apart
    row,        \* telegram_call_messages: the message of the call, or 0
    chat,       \* the messages of the call, in order: what they show
    loop,       \* the goroutine of IncomingCall: pc, the record it has read; stale: it has
                \* shown a record that it had read before the end
    ender,      \* pcs of the observer CallEnded: of the end, and of an end reported once more
    sent,       \* who holds notificationMu between sendMessage and INSERT
    updates,    \* the updates that users have caused; their ids are their places
    offset,     \* of pollLoop: the next id to ask for
    stored,     \* telegram_state.update_offset
    batch,      \* ids of the fetched updates that are still to be handled
    pending,    \* Bot.pending: confirmation -> its route (0: none yet), or NotPending
    replies,    \* Bot.replies: prompt -> what it asks for, or "nothing"
    routes,     \* availableRoutes
    asked,      \* messages in the chat: prompts, choices of a route, confirmations
    handled,    \* update -> how often it was handled
    executed,   \* the confirmed actions that were executed: id, route, route that was named
    counts      \* failures, lost answers, restarts

callVars == <<call, row, chat, loop, ender, sent>>
pollVars == <<updates, offset, stored, batch, pending, replies, routes, asked, handled, executed>>
vars == <<env, callVars, pollVars, counts>>

NotPending == -1
Routes == {1, 2}
Enders == {"first", "again"}
Prompts == 1..2 * (1 + MaxRestarts)
Following(pc) == [pc |-> pc, seen |-> "ringing", stale |-> FALSE]
Live == call \in {"ringing", "held", "answered", "voicemail"}

Init ==
    /\ env \in Environments
    /\ row = 0 /\ chat = <<>> /\ sent = "nobody"
    /\ IF env.call
         THEN call = "ringing" /\ loop = Following("read") /\ ender = [e \in Enders |-> "idle"]
         ELSE call = "none" /\ loop = Following("off") /\ ender = [e \in Enders |-> "done"]
    /\ updates = <<>> /\ offset = 1 /\ stored = 1 /\ batch = <<>>
    /\ pending = [i \in 1..MaxConfirms |-> NotPending] /\ replies = [p \in Prompts |-> "nothing"]
    /\ routes = <<1, 2>> /\ asked = {}
    /\ handled = [u \in 1..MaxUpdates |-> 0] /\ executed = <<>>
    /\ counts = [failed |-> 0, lost |-> 0, restarts |-> 0]

-----------------------------------------------------------------------------
(* The message of the call. upsertCallNotification edits the message that  *)
(* the row names, or sends one and stores it; errors end it silently.      *)
CanFail == counts.failed + counts.lost < env.failures
Failed == CanFail /\ counts' = [counts EXCEPT !.failed = @ + 1]
Lost == CanFail /\ counts' = [counts EXCEPT !.lost = @ + 1]

Upsert(who, shows) ==
    /\ sent = "nobody"
    /\ IF row # 0
         THEN \/ chat' = [chat EXCEPT ![row] = shows] /\ UNCHANGED <<sent, counts>>
              \/ Failed /\ UNCHANGED <<chat, sent>>
         ELSE \/ chat' = Append(chat, shows) /\ sent' = who /\ UNCHANGED counts
              \/ chat' = Append(chat, shows) /\ Lost /\ UNCHANGED sent
              \/ Failed /\ UNCHANGED <<chat, sent>>

(* INSERT, at the end of the critical section.                             *)
Insert(who) == sent = who /\ sent' = "nobody" /\ row' = Len(chat)

(* IncomingCall: each five seconds the record is read, shown, and the loop *)
(* ends when there is nothing more to follow, or after three minutes.      *)
LoopRead ==
    /\ loop.pc = "read" /\ loop' = [loop EXCEPT !.pc = "upsert", !.seen = call]
    /\ UNCHANGED <<env, call, row, chat, ender, sent, pollVars, counts>>

LoopUpsert ==
    /\ loop.pc = "upsert" /\ Upsert("loop", loop.seen)
    /\ loop' = [loop EXCEPT !.pc = "test", !.stale = call = "ended" /\ loop.seen # "ended"]
    /\ UNCHANGED <<env, call, row, ender, pollVars>>

LoopInsert ==
    /\ Insert("loop")
    /\ UNCHANGED <<env, call, chat, loop, ender, pollVars, counts>>

LoopTest ==
    /\ loop.pc = "test" /\ sent # "loop"
    /\ loop' = [loop EXCEPT !.pc = IF loop.seen \in {"ended", "answered", "voicemail"} THEN "off" ELSE "wait", !.seen = "ringing"]
    /\ UNCHANGED <<env, call, row, chat, ender, sent, pollVars, counts>>

LoopTicks ==
    /\ loop.pc = "wait" /\ loop' = [loop EXCEPT !.pc = "read"]
    /\ UNCHANGED <<env, call, row, chat, ender, sent, pollVars, counts>>

LoopGivesUp ==
    /\ loop.pc = "wait" /\ loop' = [loop EXCEPT !.pc = "off"]
    /\ UNCHANGED <<env, call, row, chat, ender, sent, pollVars, counts>>

(* CallEnded shows the end, then deletes the row. handleModem calls it     *)
(* once more for a call that ended after it had read it.                   *)
EnderUpsertSkips(e) ==  \* mutant: the row is deleted, the end is not shown
    /\ ender[e] = "upsert" /\ sent = "nobody" /\ ender' = [ender EXCEPT ![e] = "delete"]
    /\ UNCHANGED <<env, call, row, chat, loop, sent, pollVars, counts>>

EnderUpsert(e) ==
    /\ ender[e] = "upsert" /\ Upsert(e, "ended") /\ ender' = [ender EXCEPT ![e] = "delete"]
    /\ UNCHANGED <<env, call, row, loop, pollVars>>

EnderInsert(e) ==
    /\ Insert(e)
    /\ UNCHANGED <<env, call, chat, loop, ender, pollVars, counts>>

EnderDelete(e) ==
    /\ ender[e] = "delete" /\ sent # e /\ row' = 0 /\ ender' = [ender EXCEPT ![e] = "done"]
    /\ UNCHANGED <<env, call, chat, loop, sent, pollVars, counts>>

EndedAgain ==
    /\ call = "ended" /\ ender["first"] # "idle" /\ ender["again"] = "idle"
    /\ ender' = [ender EXCEPT !["again"] = "upsert"]
    /\ UNCHANGED <<env, call, row, chat, loop, sent, pollVars, counts>>

(* The call goes on, by its parties and by other users.                    *)
Becomes(state) ==
    /\ call' = state
    /\ ender' = IF state = "ended" THEN [ender EXCEPT !["first"] = "upsert"] ELSE ender

CallGoesOn ==
    /\ \/ call = "ringing" /\ \E state \in {"held", "answered", "voicemail", "ended"} : Becomes(state)
       \/ call = "held" /\ \E state \in {"ringing", "answered", "voicemail", "ended"} : Becomes(state)
       \/ call = "answered" /\ \E state \in {"held", "ended"} : Becomes(state)
       \/ call = "voicemail" /\ Becomes("ended")
    /\ UNCHANGED <<env, row, chat, loop, sent, pollVars, counts>>

-----------------------------------------------------------------------------
(* Users cause updates: commands, and taps on buttons that were sent.      *)
Cause(u) ==
    /\ Len(updates) < env.updates /\ u.kind \in env.kinds /\ updates' = Append(updates, u)
    /\ UNCHANGED <<env, callVars, offset, stored, batch, pending, replies, routes, asked, handled, executed, counts>>

Update(kind, id, choice) == [kind |-> kind, id |-> id, choice |-> choice]
Buttons == {m \in Range(chat) : m \in {"ringing", "held", "answered"}}

Commands == SelectSeq(updates, LAMBDA u : u.kind \in {"command", "ask"})

UserActs ==
    \/ Buttons # {} /\ \E kind \in {"hold", "voicemail", "reject"} : Cause(Update(kind, 0, 0))
    \/ Len(Commands) + MaxRestarts < MaxConfirms /\ \E kind \in {"ask", "command"} : Cause(Update(kind, 0, 0))
    \/ \E m \in asked :
        CASE m.kind = "prompt" -> Cause(Update("reply", m.id, 0))
          [] m.kind = "choice" -> \E i \in 1..m.value : Cause(Update("route", m.id, i))
          [] m.kind = "confirmation" -> Cause(Update("confirm", m.id, m.value)) \/ Cause(Update("cancel", m.id, 0))

(* Phones connect and disconnect.                                          *)
RoutesChange ==
    /\ "route" \in env.kinds /\ routes' \in {<<>>, <<2>>, <<1, 2>>} \ {routes}
    /\ UNCHANGED <<env, callVars, updates, offset, stored, batch, pending, replies, asked, handled, executed, counts>>

(* getUpdates.                                                             *)
Poll ==
    /\ batch = <<>> /\ offset <= Len(updates)
    /\ batch' = [i \in 1..(Len(updates) - offset + 1) |-> offset + i - 1]
    /\ UNCHANGED <<env, callVars, updates, offset, stored, pending, replies, routes, asked, handled, executed, counts>>

(* Messages to the chat; when one cannot be sent nothing else is undone.   *)
Message(kind, id, value) == [kind |-> kind, id |-> id, value |-> value]
Sends(m) == \/ asked' = asked \union {m} /\ UNCHANGED counts
            \/ UNCHANGED asked /\ Failed
NoSend == UNCHANGED <<asked, counts>>

(* ask: a prompt is remembered when it was sent.                           *)
Ask(known, step) ==
    LET p == 1 + Cardinality({m \in asked : m.kind = "prompt"}) IN
    \/ asked' = asked \union {Message("prompt", p, 0)} /\ replies' = [known EXCEPT ![p] = step] /\ UNCHANGED counts
    \/ UNCHANGED asked /\ replies' = known /\ Failed

(* createConfirmation of a call or an SMS: its id is a new random one.      *)
FreshIds == {i \in 1..MaxConfirms : pending[i] = NotPending /\ \A m \in asked : m.kind = "prompt" \/ m.id # i}

CreateConfirmation ==
    LET id == CHOOSE i \in FreshIds : TRUE
        route == IF Len(routes) = 1 THEN routes[1] ELSE 0
    IN  /\ FreshIds # {}
        /\ pending' = [pending EXCEPT ![id] = route]
        /\ Sends(IF Len(routes) > 1 THEN Message("choice", id, Len(routes)) ELSE Message("confirmation", id, route))

(* A reply takes the prompt out; the number of an SMS is followed by its   *)
(* text, that of a call by its confirmation, and what is not valid, or no  *)
(* reply to a prompt, by nothing.                                          *)
HandleReply(p) ==
    LET known == [replies EXCEPT ![p] = "nothing"] IN
    \/ replies[p] = "number" /\ Ask(known, "body") /\ UNCHANGED pending
    \/ replies[p] \in {"number", "body"} /\ CreateConfirmation /\ replies' = known
    \/ NoSend /\ replies' = known /\ UNCHANGED pending

(* The index of a route is one of the list of now.                         *)
ChooseRoute(id, i) ==
    IF pending[id] # NotPending /\ i <= Len(routes)
      THEN /\ pending' = [pending EXCEPT ![id] = routes[i]]
           /\ Sends(Message("confirmation", id, routes[i]))
      ELSE UNCHANGED pending /\ NoSend

(* confirm takes the pending action out and executes it, unless it has     *)
(* expired.                                                                *)
Execute(id, named) == executed' = Append(executed, [id |-> id, route |-> pending[id], named |-> named])

ConfirmKeeps(id, named) ==  \* mutant: the action stays pending
    /\ UNCHANGED pending
    /\ IF pending[id] # NotPending THEN Execute(id, named) ELSE UNCHANGED executed

ConfirmCurrent(id, named) ==  \* mutant: the first route of now
    /\ pending' = [pending EXCEPT ![id] = NotPending]
    /\ IF pending[id] # NotPending /\ routes # <<>>
         THEN executed' = Append(executed, [id |-> id, route |-> Head(routes), named |-> named])
         ELSE UNCHANGED executed

Confirm(id, named) ==
    /\ pending' = [pending EXCEPT ![id] = NotPending]
    /\ \/ pending[id] # NotPending /\ Execute(id, named)
       \/ UNCHANGED executed

Cancel(id) ==
    pending' = [pending EXCEPT ![id] = NotPending]

SameCall == UNCHANGED <<call, ender>>

(* The commands on the call; the service refuses what its state does not   *)
(* allow, and a phone can refuse too. call_hold is a toggle.               *)
CallCommand(kind) ==
    \/ kind = "hold" /\ call = "held" /\ Becomes("answered")
    \/ kind = "hold" /\ call \in {"ringing", "answered"} /\ Becomes("held")
    \/ kind = "voicemail" /\ call \in {"ringing", "held"} /\ Becomes("voicemail")
    \/ kind = "reject" /\ Live /\ Becomes("ended")
    \/ (kind = "reject" => ~Live) /\ SameCall

HandleUpdate(u) ==
    \/ u.kind \in {"hold", "voicemail", "reject"} /\ CallCommand(u.kind) /\ UNCHANGED <<pending, replies, executed>> /\ NoSend
    \/ u.kind = "ask" /\ SameCall /\ Ask(replies, "number") /\ UNCHANGED <<pending, executed>>
    \/ u.kind = "reply" /\ SameCall /\ HandleReply(u.id) /\ UNCHANGED executed
    \/ u.kind = "command" /\ SameCall /\ CreateConfirmation /\ UNCHANGED <<replies, executed>>
    \/ u.kind = "route" /\ SameCall /\ ChooseRoute(u.id, u.choice) /\ UNCHANGED <<replies, executed>>
    \/ u.kind = "confirm" /\ SameCall /\ Confirm(u.id, u.choice) /\ UNCHANGED replies /\ NoSend
    \/ u.kind = "cancel" /\ SameCall /\ Cancel(u.id) /\ UNCHANGED <<replies, executed>> /\ NoSend

(* The loop over the fetched updates: the offset is advanced, the update   *)
(* is handled, the offset is stored.                                       *)
HandleNext ==
    /\ batch # <<>> /\ offset <= Head(batch) /\ offset' = Head(batch) + 1
    /\ HandleUpdate(updates[Head(batch)])
    /\ handled' = [handled EXCEPT ![Head(batch)] = @ + 1]
    /\ UNCHANGED <<env, row, chat, loop, sent, updates, stored, batch, routes>>

StoreOffset ==
    /\ batch # <<>> /\ offset > Head(batch)
    /\ stored' = offset /\ batch' = Tail(batch)
    /\ UNCHANGED <<env, callVars, updates, offset, pending, replies, routes, asked, handled, executed, counts>>

-----------------------------------------------------------------------------
(* A restart forgets what is in memory, observers that run included; Start *)
(* follows a call that still rings or is held.                             *)
RestartAt(from) ==
    /\ counts.restarts < env.restarts
    /\ counts' = [counts EXCEPT !.restarts = @ + 1]
    /\ loop' = Following(IF call \in {"ringing", "held"} THEN "read" ELSE "off")
    /\ ender' = [e \in Enders |-> IF ender[e] = "idle" THEN "idle" ELSE "done"] /\ sent' = "nobody"
    /\ offset' = from /\ batch' = <<>>
    /\ pending' = [i \in 1..MaxConfirms |-> NotPending] /\ replies' = [p \in Prompts |-> "nothing"]
    /\ UNCHANGED <<env, call, row, chat, updates, stored, routes, asked, handled, executed>>

RestartLatest == RestartAt(Len(updates) + 1)  \* mutant: what is waiting is skipped

Restart == RestartAt(stored)

Loop == LoopRead \/ LoopUpsert \/ LoopInsert \/ LoopTest \/ LoopTicks
Ender == \E e \in Enders : EnderUpsert(e) \/ EnderInsert(e) \/ EnderDelete(e)
PollLoop == Poll \/ HandleNext \/ StoreOffset

Next == Loop \/ LoopGivesUp \/ Ender \/ EndedAgain \/ CallGoesOn \/ UserActs \/ RoutesChange \/ PollLoop \/ Restart

(* Users and phones are free; the bot's goroutines go on.                  *)
Spec == Init /\ [][Next]_vars
FairSpec == Spec /\ WF_vars(Loop) /\ WF_vars(Ender) /\ WF_vars(PollLoop)

-----------------------------------------------------------------------------
(* Values that variables have.                                             *)
TypeOK ==
    /\ call \in {"none", "ringing", "held", "answered", "voicemail", "ended"}
    /\ row \in 0..Len(chat) /\ sent \in {"nobody", "loop"} \union Enders
    /\ loop.pc \in {"off", "read", "upsert", "test", "wait"}
    /\ ender \in [Enders -> {"idle", "upsert", "delete", "done"}]
    /\ stored <= offset /\ offset <= Len(updates) + 1
    /\ pending \in [1..MaxConfirms -> {NotPending, 0} \union Routes]
    /\ replies \in [Prompts -> {"nothing", "number", "body"}]

(* Once a call has ended, the newest message about it says so in the end,  *)
(* whichever of the loop and CallEnded writes last: a loop that shows a    *)
(* record of before the end reads again and shows the end. Unless a        *)
(* request failed, the server restarted, or that was the loop's last time. *)
NoticeSettled ==
    \/ counts.failed + counts.lost + counts.restarts > 0 \/ loop.stale
    \/ chat # <<>> /\ Last(chat) = "ended"

NoticeSettles == <>(call = "ended") => <>[]NoticeSettled

(* A confirmed action is executed once, however often its buttons are      *)
(* tapped and updates are delivered again after a restart.                 *)
ExecutedOnce == \A i, j \in DOMAIN executed : executed[i].id = executed[j].id => i = j

(* What is executed takes a route that a message asking for its            *)
(* confirmation has named, whatever became of the phones meanwhile; unless *)
(* that message could not be sent.                                         *)
RouteNamed ==
    \A i \in DOMAIN executed :
        \/ counts.failed > 0
        \/ Message("confirmation", executed[i].id, executed[i].route) \in asked

(* Every update is handled in the end, across restarts.                    *)
UpdatesHandled == \A u \in 1..MaxUpdates : u <= Len(updates) ~> handled[u] > 0
=============================================================================
