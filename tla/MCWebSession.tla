---------------------------- MODULE MCWebSession ----------------------------
(* Environments of the model-checking run of WebSession.                   *)
EXTENDS WebSession

MCEnvironments == {
    [start |-> "incoming", peers |-> 1, holds |-> 1, caller |-> FALSE],
    [start |-> "dialled", peers |-> 1, holds |-> 1, caller |-> TRUE],
    [start |-> "dialled", peers |-> 2, holds |-> 0, caller |-> TRUE]}
=============================================================================
