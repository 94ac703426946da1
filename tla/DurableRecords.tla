--------------------------- MODULE DurableRecords ---------------------------
(***************************************************************************)
(* What the store promises its callers about calls and messages: for each  *)
(* id there is one record, a write replaces it by the next version and     *)
(* nothing else changes it. There is no memory, no table and no crash in   *)
(* this module: whatever they do must not be visible here.                 *)
(***************************************************************************)
EXTENDS Integers

CONSTANTS IDs, None

VARIABLE record   \* id -> its record, or None before the first write

Init == record = [x \in IDs |-> None]

VersionOf(r) == IF r = None THEN 0 ELSE r.version

(* The next version of x is written.                                       *)
Written(x) ==
    /\ record'[x] # None
    /\ record'[x].id = x
    /\ record'[x].version = VersionOf(record[x]) + 1

(* One write, or several in a transaction; every other record is kept.     *)
Write ==
    /\ record' = [x \in IDs |-> record'[x]]
    /\ \A x \in IDs : record'[x] = record[x] \/ Written(x)

Spec == Init /\ [][Write]_record
=============================================================================
