---------------------------- MODULE PageCommands ----------------------------
(***************************************************************************)
(* The commands of a page beside the state it follows (StateSync.tla): the *)
(* function `idempotent' of internal/httpapi, through which every POST,    *)
(* PUT and DELETE goes. A command changes the state, is announced to the   *)
(* subscribers, and its answer is stored under its key. One command, which *)
(* is sent several times with the same key: the others only wait for the   *)
(* same mutex.                                                             *)
(***************************************************************************)
EXTENDS StateSync

CONSTANTS
    MaxSends,      \* bound on how often the request is sent
    Environments   \* what a behaviour is about: sendings, changes by others, failures,
                   \* and whether a page is open

ASSUME SendsAssumption ==
    /\ MaxSends \in Nat
    /\ Environments \subseteq [sends : 0..MaxSends, changes : 0..MaxVersion, failures : 0..MaxFailures, page : BOOLEAN]

VARIABLES
    env,     \* the environment, which does not change
    req,     \* where each sending is: "idle", "waiting" for idemMu, "next" (before the
             \* command), "store" (after it), "answered", or "lost" with the server
    result,  \* of each sending: the class of its response code, or "none"
    idemMu,  \* the sending that holds the mutex, or 0
    saved,   \* the row of table idempotency: an answer, "expired" or "none"
    done     \* how often the command took effect; how often it did and failed; answers
             \* that were lost, by a stop before they were stored or by expiring

commandVars == <<req, result, idemMu, saved, done>>
allVars == <<vars, commandVars, env>>

Sends == 1..MaxSends

AllInit ==
    /\ Init /\ env \in Environments
    /\ req = [i \in Sends |-> "idle"] /\ result = [i \in Sends |-> "none"] /\ idemMu = 0
    /\ saved = "none" /\ done = [effects |-> 0, unsure |-> 0, forgotten |-> 0]

(* A client or a proxy sends the request, again and again as it likes.     *)
Send(i) ==
    /\ i <= env.sends /\ req[i] = "idle" /\ (i > 1 => req[i - 1] # "idle") /\ req' = [req EXCEPT ![i] = "waiting"]
    /\ UNCHANGED <<vars, result, idemMu, saved, done, env>>

(* The mutex is taken and the row is looked up: the answer is repeated, or *)
(* the command is next. An expired row is deleted.                         *)
Replays == saved \notin {"none", "expired"}

TakeUnlocked(i) ==  \* mutant: the row is looked up without the mutex
    /\ req[i] = "waiting"
    /\ IF Replays
         THEN /\ req' = [req EXCEPT ![i] = "answered"] /\ result' = [result EXCEPT ![i] = saved]
              /\ UNCHANGED <<idemMu, saved>>
         ELSE /\ req' = [req EXCEPT ![i] = "next"] /\ idemMu' = i /\ saved' = "none"
              /\ UNCHANGED result
    /\ UNCHANGED <<vars, done, env>>

Take(i) ==
    /\ req[i] = "waiting" /\ idemMu = 0
    /\ IF Replays
         THEN /\ req' = [req EXCEPT ![i] = "answered"] /\ result' = [result EXCEPT ![i] = saved]
              /\ UNCHANGED <<idemMu, saved>>
         ELSE /\ req' = [req EXCEPT ![i] = "next"] /\ idemMu' = i /\ saved' = "none"
              /\ UNCHANGED result
    /\ UNCHANGED <<vars, done, env>>

(* The command succeeds, is refused (4xx) or fails (5xx). An error does    *)
(* not tell whether it took effect: a modem that did not answer in time    *)
(* (504) may have dialled or sent, and Hangup ends the call before it      *)
(* returns the modem's error. A failed dial leaves a record, too.          *)
Command(i) ==
    /\ req[i] = "next" /\ req' = [req EXCEPT ![i] = "store"]
    /\ \E code \in {"ok", "refused", "failed"}, effect \in BOOLEAN :
          /\ code = "ok" => effect
          /\ result' = [result EXCEPT ![i] = code]
          /\ done' = [done EXCEPT !.effects = IF effect THEN @ + 1 ELSE @,
                                 !.unsure = IF effect /\ code = "failed" THEN @ + 1 ELSE @]
          /\ Change \/ (code # "ok" /\ UNCHANGED vars)
    /\ UNCHANGED <<idemMu, saved, env>>

(* The answer is stored unless it is a failure, and sent.                  *)
Store(i) ==
    /\ req[i] = "store" /\ req' = [req EXCEPT ![i] = "answered"] /\ idemMu' = 0
    /\ saved' = IF result[i] # "failed" THEN result[i] ELSE saved
    /\ UNCHANGED <<vars, result, done, env>>

(* The row is older than a day.                                            *)
Expire ==
    /\ saved \notin {"none", "expired"} /\ saved' = "expired"
    /\ done' = [done EXCEPT !.forgotten = @ + 1]
    /\ UNCHANGED <<vars, req, result, idemMu, env>>

(* The server stops and starts again: sockets close, requests are lost, a  *)
(* command that runs has taken effect or not. Fetches that wait for their  *)
(* answer have failed before.                                              *)
Stop ==
    /\ failures < env.failures /\ \A f \in Range(fetches) : f # Asked
    /\ \/ Close
       \/ /\ handler = "closed" /\ failures' = failures + 1
          /\ UNCHANGED <<version, handler, since, queue, socket, opened, fetches, shown, error>>
    /\ req' = [i \in Sends |-> IF req[i] \in {"waiting", "next", "store"} THEN "lost" ELSE req[i]]
    /\ result' = [i \in Sends |-> IF req[i] = "store" THEN "none" ELSE result[i]]
    /\ done' = [done EXCEPT !.forgotten = IF idemMu # 0 /\ req[idemMu] = "store" THEN @ + 1 ELSE @]
    /\ idemMu' = 0
    /\ UNCHANGED <<saved, env>>

Handler(i) == Take(i) \/ Command(i) \/ Store(i)

AllNext ==
    \/ /\ env.page /\ Next /\ version' <= Max({version, env.changes}) /\ failures' <= env.failures
       /\ UNCHANGED <<commandVars, env>>
    \/ \E i \in Sends : Send(i) \/ Handler(i)
    \/ Expire \/ Stop

(* As in StateSync for a page that is open; each handler goes on when it   *)
(* has the mutex.                                                          *)
Page(A) == env.page /\ A
AllSpec == AllInit /\ [][AllNext]_allVars
AllFairSpec ==
    /\ AllSpec
    /\ WF_vars(Page(Accept)) /\ WF_vars(Page(Subscribe)) /\ WF_vars(Page(Forward))
    /\ WF_vars(Page(OnOpen)) /\ WF_vars(Page(OnMessage))
    /\ WF_vars(Page(\E i \in DOMAIN fetches : Answer(i)))
    /\ WF_vars(Page(\E i \in DOMAIN fetches : Arrive(i)))
    /\ \A i \in Sends : WF_commandVars(Handler(i))

-----------------------------------------------------------------------------
(* Type correctness; one handler at a time is past the lookup.             *)
CommandsTypeOK ==
    /\ req \in [Sends -> {"idle", "waiting", "next", "store", "answered", "lost"}]
    /\ result \in [Sends -> {"none", "ok", "refused", "failed"}]
    /\ saved \in {"none", "ok", "refused", "expired"}
    /\ idemMu \in 0..MaxSends
    /\ \A i \in Sends : req[i] \in {"next", "store"} <=> idemMu = i
    /\ done \in [effects : Nat, unsure : Nat, forgotten : Nat]

(* "Treat call/SMS commands as idempotent where retries are possible": a   *)
(* command that is sent again with its key takes effect once, however the  *)
(* sendings overlap. It may once more for each server that stopped before  *)
(* the answer was stored, each row that expired, and each failure (5xx),   *)
(* which is not stored, of a command that had taken effect all the same.   *)
CommandOnce == done.effects <= 1 + done.forgotten + done.unsure

(* All sendings get the same answer, apart from failures, which are not    *)
(* stored, and from the same two exceptions.                               *)
SameAnswer ==
    \A i, j \in Sends :
        req[i] = "answered" /\ req[j] = "answered" /\ result[i] # "failed" /\ result[j] # "failed"
            => result[i] = result[j] \/ done.forgotten > 0

=============================================================================
