---------------------------- MODULE MCEventStore ----------------------------
(* Instances of EventStore for TLC.  Entity ids are only compared for      *)
(* equality, so instances that differ by a renaming of ids are the same.   *)
EXTENDS EventStore, TLC

Symmetry == Permutations(CallIDs) \cup Permutations(MessageIDs)
=============================================================================
