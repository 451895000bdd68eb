--------------------------- MODULE MCUndoRollback ---------------------------
(***************************************************************************)
(* UndoRollback for TLC.  Requests 1 and 2 are one transaction, which went *)
(* on from one undo log to a later one.                                    *)
(***************************************************************************)
EXTENDS UndoRollback, TLC

OneXid == [r \in Requests |-> 1]

\* Request 1 changed rows that request 2 changed again.
LaterLogFirst == [r \in Requests |-> IF r = 1 THEN {2} ELSE {}]

OwnBuckets == [r \in Requests |-> r - 1]

Symmetry == Permutations(Procs)
=============================================================================
