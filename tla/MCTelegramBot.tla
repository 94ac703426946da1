--------------------------- MODULE MCTelegramBot ---------------------------
(* A call and taps on its message; prompts and commands; confirmations.     *)
EXTENDS TelegramBot

MCEnvironments == {
    [call |-> TRUE, kinds |-> {}, updates |-> 0, failures |-> 1, restarts |-> 1],
    [call |-> TRUE, kinds |-> {"hold", "voicemail", "reject"}, updates |-> 2, failures |-> 0, restarts |-> 0],
    [call |-> TRUE, kinds |-> {"hold"}, updates |-> 1, failures |-> 0, restarts |-> 1],
    [call |-> FALSE, kinds |-> {"ask", "reply", "confirm"}, updates |-> 5, failures |-> 1, restarts |-> 1],
    [call |-> FALSE, kinds |-> {"command", "route", "confirm", "cancel"}, updates |-> 4, failures |-> 1, restarts |-> 1]}
============================================================================
