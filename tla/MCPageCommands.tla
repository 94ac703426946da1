--------------------------- MODULE MCPageCommands ---------------------------
(* Environments of PageCommands: a page that only follows the state; a page *)
(* and a command that is sent twice; three sendings with two stops.         *)
EXTENDS PageCommands

MCEnvironments == {
    [sends |-> 0, changes |-> 4, failures |-> 2, page |-> TRUE],
    [sends |-> 2, changes |-> 0, failures |-> 1, page |-> TRUE],
    [sends |-> 3, changes |-> 0, failures |-> 2, page |-> FALSE]}
=============================================================================
