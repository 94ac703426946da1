--------------------------- MODULE MCCallControl ---------------------------
(* Small instances of CallControl.  Ids of calls are interchangeable.        *)
EXTENDS CallControl, TLC

Symmetry == Permutations(CallIDs)
=============================================================================
