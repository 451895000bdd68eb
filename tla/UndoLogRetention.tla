-------------------------- MODULE UndoLogRetention --------------------------
(***************************************************************************)
(* UndoLog implements UndoRetention: a transaction's slot in a log is its  *)
(* part there, flagged slots are undone, and the slots before recycle_slot *)
(* are released.                                                           *)
(***************************************************************************)
EXTENDS UndoLogInv

HasSlot(p, n) == \E i \in 1 .. n : slots[p[1]][i].xid = p[2]
WrittenParts == {p \in Logs \X Xids : HasSlot(p, Len(slots[p[1]]))}
UndoneParts ==
    {p \in Logs \X Xids : \E i \in 1 .. Len(slots[p[1]]) :
        slots[p[1]][i].xid = p[2] /\ slots[p[1]][i].info = "ROLLBACK"}
ReleasedParts == {p \in Logs \X Xids : HasSlot(p, recycle_slot[p[1]])}

R == INSTANCE UndoRetention WITH
         FirstXid <- FirstNormalXid, written <- WrittenParts, undone <- UndoneParts,
         released <- ReleasedParts, frozen_xid <- global_frozen_xid,
         recycle_xid <- global_recycle_xid

\* Each step of backends, discard worker and rollback is a step UndoRetention
\* allows, or none: undo is applied only for aborted transactions and at most
\* once, and it is given up, and the horizons move, only when nothing is owed.
ImplementsRetention == R!Spec

\* The recycle pointer of a log only moves forward.
ReleaseInv == dw.pc = "release" => recycle_slot[dw.idx] <= dw.recycle
=============================================================================
