------------------------ MODULE UndoLogDiscardProofs ------------------------
(***************************************************************************)
(* Every step keeps every variable in its type.                            *)
(*                                                                         *)
(* Why what the discard worker has found out stays true while others move: *)
(* a settled slot stays settled, and a slot that appears lies at or above  *)
(* every horizon already taken.  Then, step by step, that the discard      *)
(* worker keeps what its locals, the pointers of the logs and the          *)
(* published horizons say.                                                 *)
(***************************************************************************)
EXTENDS UndoLogStepProofs

USE DEF InvalidXid, FirstNormalXid, NoLog

-----------------------------------------------------------------------------
(* Types                                                                   *)

\* Every step of a backend, the discard worker, a rollback or a checkpoint
\* keeps the types.
LEMMA TypeOKStep == IndInv /\ [Next]_vars => TypeOK'
  <1> SUFFICES ASSUME IndInv, [Next]_vars PROVE TypeOK'
    BY Zenon
  <1> USE ConstantsAssumption DEF ConstantsAssumption, TypeOK
  <1> XactType /\ CtxType /\ UlogType /\ SlotType /\ HorizonType /\ dw \in DiscardLocals
    BY Zenon DEF IndInv
  <1>a. UNCHANGED xactVars => XactType'
    BY Zenon DEF xactVars, XactType
  <1>b. UNCHANGED ctxVars => CtxType'
    BY Zenon DEF ctxVars, CtxType
  <1>c. UNCHANGED ulogVars => UlogType' /\ (requests' = requests => SlotType')
    BY Zenon DEF ulogVars, UlogType, SlotType
  <1>d. UNCHANGED globalVars => HorizonType'
    BY Zenon DEF globalVars, HorizonType
  <1>1. ASSUME NEW b \in Backends, alloc_undo_log(b) PROVE TypeOK'
    <2>1. CtxType'
      BY <1>1 DEF alloc_undo_log, CtxType, IsLeast
    <2> QED
      BY Zenon, <1>1, <2>1, <1>a, <1>c, <1>d DEF alloc_undo_log
  <1>2. ASSUME NEW b \in Backends, AssignTransactionId(b) PROVE TypeOK'
    <2>1. XactType'
      BY <1>2 DEF AssignTransactionId, XactType, Horizon, Xids
    <2> QED
      BY Zenon, <1>2, <2>1, <1>b, <1>c, <1>d DEF AssignTransactionId
  <1>3. ASSUME NEW b \in Backends, NEW o \in {"committed", "aborted"},
               EndTransaction(b, o)
        PROVE  TypeOK'
    <2>1. XactType'
      BY Zenon, <1>3 DEF EndTransaction, XactType
    <2> QED
      BY Zenon, <1>3, <2>1, <1>b, <1>c, <1>d DEF EndTransaction
  <1>4. ASSUME NEW r \in Readers, GetSnapshotData(r) PROVE TypeOK'
    <2>1. XactType'
      BY <1>4 DEF GetSnapshotData, XactType, Running, IsLeast, Horizon, XidOrNone, Xids
    <2> QED
      BY Zenon, <1>4, <2>1, <1>b, <1>c, <1>d DEF GetSnapshotData
  <1>5. ASSUME NEW r \in Readers, ReleaseSnapshot(r) PROVE TypeOK'
    <2>1. XactType'
      BY Zenon, <1>5 DEF ReleaseSnapshot, XactType, XidOrNone
    <2> QED
      BY Zenon, <1>5, <2>1, <1>b, <1>c, <1>d DEF ReleaseSnapshot
  <1>6. ASSUME NEW x \in FeedbackXmins, StandbyFeedback(x) PROVE TypeOK'
    <2>1. XactType'
      BY <1>6 DEF StandbyFeedback, XactType, XidOrNone, Xids
    <2> QED
      BY Zenon, <1>6, <2>1, <1>b, <1>c, <1>d DEF StandbyFeedback
  <1>7. ASSUME NEW b \in Backends, cleanup_undo_log(b) PROVE TypeOK'
    <2>1. CtxType'
      BY Zenon, <1>7 DEF cleanup_undo_log, CtxType
    <2> QED
      BY Zenon, <1>7, <2>1, <1>a, <1>c, <1>d DEF cleanup_undo_log
  <1>8. ASSUME NEW b \in Backends, NEW size \in RecordSizes, undolog_switch(b, size)
        PROVE  TypeOK'
    <2>1. CtxType'
      BY <1>8 DEF undolog_switch, CtxType, FreshLogs
    <2>2. UlogType'
      <3>1. insert_offset' = [insert_offset EXCEPT ![logs[b]] = LogSize + 1]
        BY Zenon, <1>8 DEF undolog_switch
      <3>2. UNCHANGED <<discard_offset, force_discard_offset, recycle_xid, frozen,
                        undo_log_used_cout>>
        BY Zenon, <1>8 DEF undolog_switch
      <3>3. logs[b] \in Logs
        BY Zenon, <1>8, WriterAt DEF IndInv, undolog_switch
      <3> QED
        BY <3>1, <3>2, <3>3 DEF UlogType
    <2>3. SlotType'
      BY Zenon, <1>8 DEF undolog_switch, SlotType
    <2> QED
      BY Zenon, <1>8, <2>1, <2>2, <2>3, <1>a, <1>d DEF undolog_switch
  <1>9. ASSUME NEW b \in Backends, NEW size \in RecordSizes, update_undolog_meta(b, size)
        PROVE  TypeOK'
    <2>1. xact[b] \in Xids /\ logs[b] \in Logs
      BY Zenon, <1>9 DEF update_undolog_meta, IndInv, CtxInv, AttachInv, CtxType, XactType
    <2>2. CtxType'
      BY <1>9, <2>1 DEF update_undolog_meta, CtxType, UlogType, check_need_switch_undolog
    <2>3. UlogType'
      BY <1>9, <2>1 DEF update_undolog_meta, UlogType, check_need_switch_undolog
    <2>4. SlotType'
      <3>1. NewSlot(xact[b]) \in Slot
        BY <2>1 DEF NewSlot, Slot
      <3>2. UNCHANGED <<recycle_slot, frozen_slot, requests>>
        BY Zenon, <1>9 DEF update_undolog_meta
      <3>3. CASE slots' = slots
        BY Zenon, <3>2, <3>3 DEF SlotType
      <3>4. CASE slots' = [slots EXCEPT ![logs[b]] = Append(@, NewSlot(xact[b]))]
        BY SMTT(20), <3>1, <3>2, <3>4, <2>1, SlotAppend DEF SlotType
      <3> QED
        BY Zenon, <1>9, <3>3, <3>4 DEF update_undolog_meta
    <2> QED
      BY Zenon, <1>9, <2>2, <2>3, <2>4, <1>a, <1>d DEF update_undolog_meta
  <1>10. ASSUME NEW b \in Backends, release_undolog_meta(b) PROVE TypeOK'
    <2> DEFINE l == logs[b]
               i == Len(slots[l])
    <2>1. l \in Logs /\ i \in 1 .. Len(slots[l])
      BY Zenon, <1>10, MetaAt DEF release_undolog_meta, IndInv
    <2>2. CtxType'
      BY <1>10 DEF release_undolog_meta, CtxType
    <2>3. UlogType'
      BY Zenon, <1>10 DEF release_undolog_meta, UlogType
    <2>4. SlotType'
      <3>1. update_undo_slot(slots[l][i], urecptr[b], insert_offset[l]) \in Slot
        <4>1. slots[l][i] \in Slot
          BY Zenon, <2>1, SlotAt
        <4>2. urecptr[b] \in 0 .. LogSize /\ insert_offset[l] \in 0 .. LogSize + 1
          BY <2>1 DEF CtxType, UlogType
        <4> QED
          BY ZenonT(30), <4>1, <4>2 DEF update_undo_slot, Slot
      <3> QED
        BY <1>10, <2>1, <3>1, SlotExcept DEF release_undolog_meta, SlotType
    <2> QED
      BY Zenon, <1>10, <2>2, <2>3, <2>4, <1>a, <1>d DEF release_undolog_meta
  <1>11. ASSUME NEW l \in Logs, checkpoint_undo_logs(l) PROVE TypeOK'
    <2>1. undo_log_used_cout >= 1
      BY <1>11, UsedPositive DEF checkpoint_undo_logs, IndInv
    <2>3. UlogType'
      BY <1>11, <2>1 DEF checkpoint_undo_logs, UlogType
    <2>2. SlotType'
      BY Zenon, <1>11 DEF checkpoint_undo_logs, SlotType
    <2> QED
      BY Zenon, <1>11, <2>3, <2>2, <1>a, <1>b, <1>d DEF checkpoint_undo_logs
  <1>12. ASSUME NEW l \in Logs, NEW i \in 1 .. Len(slots[l]), execute_undo_actions(l, i)
         PROVE  TypeOK'
    <2>1. slots[l][i] \in Slot
      BY Zenon, SlotAt
    <2>2. UlogType'
      BY ZenonT(30), <1>12 DEF execute_undo_actions, UlogType
    <2>3. [slots[l][i] EXCEPT !.info = "ROLLBACK"] \in Slot
      BY ZenonT(30), <2>1 DEF Slot
    <2>4. SlotType'
      <3>1. CASE slots' = slots
        BY ZenonT(30), <1>12, <3>1 DEF execute_undo_actions, SlotType
      <3>2. CASE slots' = [slots EXCEPT ![l][i].info = "ROLLBACK"]
        <4>1. slots' = [slots EXCEPT ![l] =
                            [slots[l] EXCEPT ![i] = [slots[l][i] EXCEPT !.info = "ROLLBACK"]]]
          BY Zenon, <3>2
        <4>2. slots' \in [Logs -> Seq(Slot)] /\ \A k \in Logs : Len(slots'[k]) = Len(slots[k])
          BY <4>1, <2>3, SlotExcept DEF SlotType
        <4> QED
          BY ZenonT(30), <1>12, <4>2 DEF execute_undo_actions, SlotType
      <3> QED
        BY Zenon, <1>12, <3>1, <3>2 DEF execute_undo_actions
    <2> QED
      BY Zenon, <1>12, <2>2, <2>4, <1>a, <1>b, <1>d DEF execute_undo_actions
  <1>13. ASSUME discard_loop PROVE TypeOK'
    <2>1. OldestXminSet \subseteq Horizon
      BY DEF OldestXminSet, Running, XactType, Horizon, XidOrNone, Xids
    <2>2. \A m \in Horizon : get_force_recycle_xid(m, 1) \in Nat
      BY DEF get_force_recycle_xid, XactType, Horizon
    <2>3. dw' \in DiscardLocals
      <3>1. PICK m \in OldestXminSet, force \in ForceRecycle :
                dw' = IF undo_log_used_cout = 0
                      THEN [dw EXCEPT !.pc = "publish", !.oldestXmin = m,
                                      !.oldestFrozenXidInUndo = m]
                      ELSE [dw EXCEPT
                              !.pc = "logs", !.oldestXmin = m, !.force = force,
                              !.forceRecycleXid = IF force THEN get_force_recycle_xid(m, 1)
                                                           ELSE InvalidXid,
                              !.oldestFrozenXidInUndo = m]
        BY ZenonT(30), <1>13 DEF discard_loop
      <3>2. m \in Horizon /\ force \in BOOLEAN
        BY Zenon, <2>1
      <3>3. (IF force THEN get_force_recycle_xid(m, 1) ELSE InvalidXid) \in Nat
        BY Zenon, <3>2, <2>2
      <3>4. CASE undo_log_used_cout = 0
        BY ZenonT(30), <3>1, <3>2, <3>4 DEF DiscardLocals
      <3>5. CASE undo_log_used_cout # 0
        <4>1. dw' = [dw EXCEPT !.pc = "logs", !.oldestXmin = m, !.force = force,
                               !.forceRecycleXid = IF force THEN get_force_recycle_xid(m, 1)
                                                            ELSE InvalidXid,
                               !.oldestFrozenXidInUndo = m]
          BY Zenon, <3>1, <3>5
        <4> QED
          BY ZenonT(30), <3>2, <3>3, <4>1 DEF DiscardLocals
      <3> QED
        BY Zenon, <3>4, <3>5
    <2> QED
      BY Zenon, <1>13, <2>3, <1>a, <1>b, <1>c, <1>d DEF discard_loop
  <1>14. ASSUME discard_skip_log PROVE TypeOK'
    <2>1. dw' \in DiscardLocals
      BY <1>14 DEF discard_skip_log, DiscardLocals
    <2> QED
      BY Zenon, <1>14, <2>1, <1>a, <1>b, <1>c, <1>d DEF discard_skip_log
  <1>15. ASSUME advance_frozen_xid PROVE TypeOK'
    <2>1. dw.idx \in Logs
      BY Zenon, <1>15, IdxAt DEF advance_frozen_xid
    <2> DEFINE l == dw.idx
               first == Larger(frozen_slot[l], recycle_slot[l])
    <2>2. PICK stop \in first .. Len(slots[l]) :
             LET s == slots[l][stop + 1]
                 at_slot == stop < Len(slots[l])
                 rollback == at_slot /\ s.start # 0 /\ NeedsRollback(s, dw.oldestXmin)
             IN  /\ frozen_slot' = [frozen_slot EXCEPT ![l] =
                        IF stop = first /\ at_slot /\ s.start = 0 THEN @ ELSE stop]
                 /\ dw' = [dw EXCEPT
                             !.pc = IF rollback THEN "request" ELSE "recycle",
                             !.pending = IF rollback THEN stop + 1 ELSE 0,
                             !.frozenXid = IF rollback THEN s.xid ELSE dw.oldestXmin,
                             !.allocate = Len(slots[l])]
      BY ZenonT(30), <1>15 DEF advance_frozen_xid
    <2>5. first \in Nat /\ Len(slots[l]) \in Nat /\ stop \in Nat
      BY <2>1, SlotAt DEF SlotType, Larger
    <2>6. stop < Len(slots[l]) => slots[l][stop + 1].xid \in Horizon
      <3> SUFFICES ASSUME stop < Len(slots[l]) PROVE slots[l][stop + 1].xid \in Horizon
        BY Zenon
      <3>1. stop + 1 \in 1 .. Len(slots[l])
        BY <2>5
      <3> QED
        BY <2>1, <3>1, SlotAt DEF Horizon, Xids
    <2>7. dw' \in DiscardLocals
      <3> DEFINE rollback == /\ stop < Len(slots[l]) /\ slots[l][stop + 1].start # 0
                             /\ NeedsRollback(slots[l][stop + 1], dw.oldestXmin)
      <3>1. CASE rollback
        <4>1. dw' = [dw EXCEPT !.pc = "request", !.pending = stop + 1,
                               !.frozenXid = slots[l][stop + 1].xid,
                               !.allocate = Len(slots[l])]
          BY Zenon, <2>2, <3>1
        <4> QED
          <5>1. slots[l][stop + 1].xid \in Horizon /\ stop + 1 \in Nat
            BY <3>1, <2>5, <2>6
          <5> QED
            BY ZenonT(30), <4>1, <5>1, <2>5 DEF DiscardLocals
      <3>2. CASE ~rollback
        <4>1. dw' = [dw EXCEPT !.pc = "recycle", !.pending = 0, !.frozenXid = dw.oldestXmin,
                               !.allocate = Len(slots[l])]
          BY ZenonT(30), <2>2, <3>2
        <4> QED
          BY ZenonT(30), <4>1, <2>5, LocalsAt DEF DiscardLocals
      <3> QED
        BY Zenon, <3>1, <3>2
    <2>3. SlotType'
      <3>1. UNCHANGED <<slots, recycle_slot, requests>>
        BY Zenon, <1>15 DEF advance_frozen_xid
      <3>2. \E n \in 0 .. Len(slots[l]) : frozen_slot' = [frozen_slot EXCEPT ![l] = n]
        <4>1. frozen_slot[l] \in 0 .. Len(slots[l]) /\ stop \in 0 .. Len(slots[l])
          BY <2>1, <2>5 DEF SlotType
        <4> QED
          BY ZenonT(30), <2>2, <4>1
      <3> QED
        BY <3>1, <3>2, <2>1, <2>5 DEF SlotType
    <2>4. UlogType'
      BY Zenon, <1>15 DEF advance_frozen_xid, UlogType
    <2> QED
      BY Zenon, <1>15, <2>7, <2>3, <2>4, <1>a, <1>b, <1>d DEF advance_frozen_xid
  <1>16. ASSUME request_async_rollback PROVE TypeOK'
    <2>1. dw.idx \in Logs /\ dw.pending \in 1 .. Len(slots[dw.idx])
      BY Zenon, <1>16, IdxAt DEF request_async_rollback, IndInv, AtLogInv
    <2>2. dw' \in DiscardLocals
      BY ZenonT(30), <1>16, <2>1, SlotAt DEF request_async_rollback, DiscardLocals
    <2>3. SlotType'
      BY SMTT(20), <1>16, <2>1 DEF request_async_rollback, register_rollback_req, SlotType, ulogVars
    <2> QED
      BY Zenon, <1>16, <2>2, <2>3, <1>a, <1>b, <1>c, <1>d DEF request_async_rollback
  <1>17. ASSUME recycle_undo_space PROVE TypeOK'
    <2> DEFINE l == dw.idx
               first == recycle_slot[l]
    <2>1. l \in Logs /\ dw.allocate \in Nat /\ dw.allocate <= Len(slots[l])
      BY Zenon, <1>17, IdxAt, LocalsAt DEF recycle_undo_space, IndInv, AtLogInv
    <2>2. first \in Nat /\ Len(slots[l]) \in Nat
      BY Zenon, <2>1, SlotAt DEF SlotType
    <2>3. PICK last \in first .. dw.allocate :
             /\ requests' = requests \/ (register_rollback_req(l, last + 1) /\ last < dw.allocate)
             /\ \E kept \in first .. last : discard_offset' = [discard_offset EXCEPT ![l] =
                    IF kept = first THEN @ ELSE slots[l][kept].end]
             /\ recycle_xid' = [recycle_xid EXCEPT ![l] =
                    IF last = first THEN @ ELSE slots[l][last].xid]
             /\ dw' = IF last = first THEN LogDone
                      ELSE [dw EXCEPT !.pc = "release", !.recycle = last]
      BY ZenonT(30), <1>17 DEF recycle_undo_space
    <2>4. last \in Nat /\ last <= Len(slots[l])
      BY <2>1, <2>2
    <2>5. UNCHANGED <<insert_offset, force_discard_offset, slots, recycle_slot, frozen_slot,
                      frozen, undo_log_used_cout>>
      BY Zenon, <1>17 DEF recycle_undo_space
    <2>6. OldestRecycleXid(l) \in Horizon
      <3>1. recycle_xid[l] # InvalidXid => recycle_xid[l] \in Horizon
        BY <2>1 DEF UlogType, Horizon, Xids
      <3>2. Smaller(dw.oldestXmin, dw.frozenXid) \in Horizon
        BY Zenon, LocalsAt DEF Smaller
      <3> QED
        BY Zenon, <3>1, <3>2 DEF OldestRecycleXid
    <2>7. LogDone \in DiscardLocals
      <3>1. Smaller(dw.oldestFrozenXidInUndo, dw.frozenXid) \in Horizon
        BY Zenon, LocalsAt DEF Smaller
      <3>2. dw.recycleXids \cup {OldestRecycleXid(l)} \in SUBSET Horizon
        BY Zenon, LocalsAt, <2>6
      <3>3. l + 1 \in 0 .. NLogs
        BY <2>1 DEF Logs
      <3>4. 3 \in Horizon
        BY DEF Horizon
      <3> QED
        BY ZenonT(30), <3>1, <3>2, <3>3, <3>4 DEF LogDone, DiscardLocals
    <2>8. dw' \in DiscardLocals
      BY ZenonT(30), <2>3, <2>4, <2>7 DEF DiscardLocals
    <2>9. SlotType'
      <3>1. requests' = requests \/ (requests' = requests \cup {<<l, last + 1>>}
                                        /\ last + 1 \in 1 .. Len(slots[l]))
        <4>1. requests' = requests \/ (last < dw.allocate /\
                                        requests' = requests \cup {<<l, last + 1>>})
          BY Zenon, <2>3 DEF register_rollback_req
        <4>2. last < dw.allocate => last + 1 \in 1 .. Len(slots[l])
          BY <2>1, <2>2, <2>4
        <4> QED
          BY Zenon, <4>1, <4>2
      <3> QED
        BY <2>1, <2>5, <3>1 DEF SlotType
    <2>10. UlogType'
      <3>1. last # first => slots[l][last].xid \in Xids
        BY <2>1, <2>2, <2>4, SlotAt
      <3>2. PICK kept \in first .. last : discard_offset' = [discard_offset EXCEPT ![l] =
                IF kept = first THEN @ ELSE slots[l][kept].end]
        BY ZenonT(30), <2>3
      <3>3. kept # first => slots[l][kept].end \in 0 .. LogSize + 1
        BY <2>1, <2>2, <2>4, SlotAt
      <3> QED
        BY ZenonT(30), <2>1, <2>3, <2>5, <3>1, <3>2, <3>3 DEF UlogType
    <2> QED
      BY Zenon, <1>17, <2>8, <2>9, <2>10, <1>a, <1>b, <1>d DEF recycle_undo_space
  <1>18. ASSUME recycle_release PROVE TypeOK'
    <2> DEFINE l == dw.idx
    <2>1. l \in Logs /\ dw.recycle \in 1 .. Len(slots[l])
      BY Zenon, <1>18, IdxAt DEF recycle_release, IndInv, AtLogInv
    <2>2. slots[l][dw.recycle].end \in 0 .. LogSize + 1
      BY Zenon, <2>1, SlotAt
    <2>3. UlogType'
      BY ZenonT(30), <1>18, <2>1, <2>2 DEF recycle_release, UlogType
    <2>4. SlotType'
      <3>1. /\ recycle_slot' = [recycle_slot EXCEPT ![l] = dw.recycle]
            /\ UNCHANGED <<slots, frozen_slot, requests>>
        BY Zenon, <1>18 DEF recycle_release
      <3>2. SlotType
        BY Zenon DEF TypeOK
      <3>3. dw.recycle \in Nat /\ dw.recycle <= Len(slots[l])
        BY <2>1, <3>2 DEF SlotType
      <3> HIDE DEF l
      <3>4. \A k \in Logs : recycle_slot'[k] \in Nat /\ recycle_slot'[k] <= Len(slots[k])
        BY Zenon, <2>1, <3>1, <3>2, <3>3 DEF SlotType
      <3>5. recycle_slot' \in [Logs -> Nat]
        BY ZenonT(30), <3>1, <3>2, <3>3 DEF SlotType
      <3> QED
        BY ZenonT(30), <3>1, <3>2, <3>4, <3>5 DEF SlotType
    <2>5. dw' \in DiscardLocals
      BY ZenonT(30), <1>18 DEF recycle_release, DiscardLocals
    <2> QED
      BY Zenon, <1>18, <2>3, <2>4, <2>5, <1>a, <1>b, <1>d DEF recycle_release
  <1>19. ASSUME discard_publish_frozen PROVE TypeOK'
    <2> DEFINE f == IF dw.lastForceAdvanceXid = InvalidXid THEN dw.oldestXmin
                                                          ELSE dw.lastForceAdvanceXid
    <2>1. f \in Horizon
      BY Zenon, LocalsAt DEF XidOrNone, Horizon
    <2>2. HorizonType'
      <3>1. global_frozen_xid' \in {dw.oldestFrozenXidInUndo, Larger(global_frozen_xid, f),
                                    global_frozen_xid}
        BY Zenon, <1>19 DEF discard_publish_frozen
      <3> QED
        BY Zenon, <1>19, <2>1, <3>1, LocalsAt DEF discard_publish_frozen, HorizonType, Larger
    <2>3. PICK x \in {dw.lastForceAdvanceXid, InvalidXid, f} :
             \/ dw' = DiscardStart(dw.lastHaving, x, dw.force, dw.restarts)
             \/ dw' = [dw EXCEPT !.pc = "having", !.lastForceAdvanceXid = x]
      BY ZenonT(30), <1>19 DEF discard_publish_frozen
    <2>4. x \in XidOrNone
      BY Zenon, <2>1, LocalsAt DEF XidOrNone, Horizon
    <2>5. dw' \in DiscardLocals
      <3>1. CASE dw' = DiscardStart(dw.lastHaving, x, dw.force, dw.restarts)
        <4>1. dw.lastHaving \in XidOrNone /\ dw.force \in BOOLEAN /\ dw.restarts \in Nat
          BY ZenonT(30), LocalsAt
        <4> QED
          BY ZenonT(30), <2>4, <3>1, <4>1, StartType
      <3>2. CASE dw' = [dw EXCEPT !.pc = "having", !.lastForceAdvanceXid = x]
        BY ZenonT(30), <2>4, <3>2 DEF DiscardLocals
      <3> QED
        BY Zenon, <2>3, <3>1, <3>2
    <2> QED
      BY Zenon, <1>19, <2>2, <2>5, <1>a, <1>b, <1>c DEF discard_publish_frozen
  <1>20. ASSUME discard_retry PROVE TypeOK'
    <2>1. get_force_recycle_xid(dw.oldestXmin, dw.retry + 1) \in Nat
      <3> DEFINE d == nextXid - dw.oldestXmin
                 r == dw.retry + 1
      <3>1. d \in Nat /\ r \in Nat /\ dw.oldestXmin \in Nat
        <4>1. dw.oldestXmin <= nextXid
          BY Zenon DEF IndInv, HorizonInv, AllOver
        <4>2. dw.oldestXmin \in Nat /\ nextXid \in Nat /\ dw.retry \in Nat
          BY LocalsAt DEF XactType, Horizon
        <4> QED
          BY <4>1, <4>2
      <3>2. d * r \in Nat
        BY <3>1
      <3> HIDE DEF d, r
      <3>3. (d * r) \div FORCE_RECYCLE_RETRY_TIMES \in Nat
        BY <3>2
      <3> QED
        BY <3>1, <3>3 DEF get_force_recycle_xid, d, r
    <2>2. PICK xid \in dw.recycleXids \cup {dw.having, InvalidXid} :
            dw' = [dw EXCEPT
                     !.pc = "logs", !.idx = 0, !.retry = @ + 1,
                     !.forceRecycleXid = get_force_recycle_xid(dw.oldestXmin, dw.retry + 1),
                     !.isAnyLogUsed = FALSE, !.recycleXids = {}, !.having = xid]
      BY ZenonT(30), <1>20 DEF discard_retry
    <2>3. xid \in XidOrNone
      BY Zenon, LocalsAt DEF XidOrNone, Horizon
    <2>4. dw' \in DiscardLocals
      <3> DEFINE g == get_force_recycle_xid(dw.oldestXmin, dw.retry + 1)
      <3>1. g \in Nat /\ dw.retry + 1 \in Nat
        BY <2>1, LocalsAt
      <3> HIDE DEF g
      <3>2. dw' = [dw EXCEPT !.pc = "logs", !.idx = 0, !.retry = dw.retry + 1,
                             !.forceRecycleXid = g, !.isAnyLogUsed = FALSE,
                             !.recycleXids = {}, !.having = xid]
        BY Zenon, <2>2 DEF g
      <3> QED
        <4>1. {} \in SUBSET Horizon /\ 0 \in 0 .. NLogs
          OBVIOUS
        <4> QED
          BY ZenonT(30), <3>1, <3>2, <4>1, <2>3 DEF DiscardLocals
    <2> QED
      BY Zenon, <1>20, <2>4, <1>a, <1>b, <1>c, <1>d DEF discard_retry
  <1>21. ASSUME discard_publish_recycle PROVE TypeOK'
    <2>1. PICK xid \in dw.recycleXids \cup {dw.having, InvalidXid},
               force \in {dw.force, FALSE} :
            /\ \/ global_recycle_xid' = global_recycle_xid
               \/ /\ xid # InvalidXid
                  /\ global_recycle_xid' =
                         Larger(global_recycle_xid, Smaller(xid, dw.oldestXmin))
            /\ \E last \in {xid, dw.lastHaving} :
                   dw' = DiscardStart(last, dw.lastForceAdvanceXid, force, dw.restarts)
      BY ZenonT(30), <1>21 DEF discard_publish_recycle
    <2>2. xid \in XidOrNone /\ dw.lastHaving \in XidOrNone /\ force \in BOOLEAN
      BY ZenonT(30), LocalsAt DEF XidOrNone, Horizon
    <2>3. HorizonType'
      <3>1. global_frozen_xid' = global_frozen_xid
        BY Zenon, <1>21 DEF discard_publish_recycle
      <3>2. global_recycle_xid \in Horizon /\ global_frozen_xid \in Horizon
        BY Zenon DEF HorizonType
      <3>3. dw.oldestXmin \in Horizon
        BY Zenon, LocalsAt
      <3>4. xid # InvalidXid =>
              Larger(global_recycle_xid, Smaller(xid, dw.oldestXmin)) \in Horizon
        BY Zenon, <2>2, <3>2, <3>3 DEF Larger, Smaller, XidOrNone, Horizon
      <3> QED
        BY ZenonT(30), <2>1, <3>1, <3>2, <3>4 DEF HorizonType
    <2>4. dw' \in DiscardLocals
      <3>1. PICK last \in {xid, dw.lastHaving} :
              dw' = DiscardStart(last, dw.lastForceAdvanceXid, force, dw.restarts)
        BY ZenonT(30), <2>1
      <3>2. dw.lastForceAdvanceXid \in XidOrNone /\ dw.restarts \in Nat
        BY ZenonT(30), LocalsAt
      <3>3. last \in XidOrNone
        BY ZenonT(30), <2>2
      <3> QED
        BY ZenonT(30), <2>2, <3>1, <3>2, <3>3, StartType
    <2> QED
      BY <1>21, <2>3, <2>4, <1>a, <1>b, <1>c DEF discard_publish_recycle
  <1>22. ASSUME discard_restart PROVE TypeOK'
    <2>1. dw' \in DiscardLocals
      <3>1. dw' = DiscardStart(InvalidXid, InvalidXid, FALSE, dw.restarts + 1)
        BY Zenon, <1>22 DEF discard_restart
      <3>2. InvalidXid \in XidOrNone /\ FALSE \in BOOLEAN /\ dw.restarts + 1 \in Nat
        BY LocalsAt DEF XidOrNone
      <3> QED
        BY ZenonT(30), <3>1, <3>2, StartType
    <2> QED
      BY ZenonT(30), <1>22, <2>1, <1>a, <1>b, <1>c, <1>d DEF discard_restart
  <1>23. CASE UNCHANGED vars
    BY <1>23, <1>a, <1>b, <1>c, <1>d DEF vars
  <1> QED
    BY ZenonT(30), <1>1, <1>2, <1>3, <1>4, <1>5, <1>6, <1>7, <1>8, <1>9, <1>10, <1>11, <1>12, <1>13,
       <1>14, <1>15, <1>16, <1>17, <1>18, <1>19, <1>20, <1>21, <1>22, <1>23
       DEF Next, Backend, Write, Discard, SlotType

-----------------------------------------------------------------------------
(* Stability of what the discard worker relies on                          *)

\* In the next state, the slots of log l below h are settled.
SettledBelowNext(l, h) ==
    \A i \in 1 .. Len(slots'[l]) : slots'[l][i].xid < h => SettledNext(l, i)

\* Once every transaction below h is over and the slots below h are settled,
\* they stay so, whatever writers append.
LEMMA StableBelow ==
    ASSUME IndInv, [Next]_vars, NEW l \in Logs
    PROVE  \A h \in Nat : AllOver(h) /\ SettledBelow(l, h) => SettledBelowNext(l, h)
  <1> SUFFICES ASSUME NEW h \in Nat, AllOver(h), SettledBelow(l, h),
                      NEW i \in 1 .. Len(slots'[l]), slots'[l][i].xid < h
               PROVE  SettledNext(l, i)
    BY Zenon DEF SettledBelowNext
  <1>g. Grow(l) /\ AllOverNext(h)
    BY Zenon, GrowStep, OverStep
  <1>1. i > Len(slots[l]) => FALSE
    BY Zenon, <1>g DEF Grow, AllOverNext
  <1>2. i \in 1 .. Len(slots[l])
    BY <1>1, <1>g DEF Grow
  <1> QED
    BY Zenon, <1>2, <1>g DEF Grow, SettledBelow

\* Settled slots stay settled.
LEMMA StableSettled ==
    ASSUME IndInv, [Next]_vars, NEW l \in Logs
    PROVE  \A i \in 1 .. Len(slots[l]) :
               Settled(slots[l][i]) => SettledNext(l, i) /\ i \in 1 .. Len(slots'[l])
  BY GrowStep DEF Grow

\* What the pass will publish as global_recycle_xid stays a bound.
LEMMA StableBounded ==
    ASSUME IndInv, [Next]_vars, dw' = dw, NEW l \in Logs, RecycleBounded(l)
    PROVE  RecycleBounded(l)'
  <1> SUFFICES ASSUME NEW i \in 1 .. Len(slots'[l])
               PROVE  \/ SettledNext(l, i)
                      \/ slots'[l][i].xid >= dw.oldestXmin
                      \/ \E x \in dw.recycleXids : x <= slots'[l][i].xid
    BY Zenon DEF RecycleBounded, Settled, SettledNext, DidCommit
  <1>g. Grow(l)
    BY Zenon, GrowStep
  <1>h. dw.oldestXmin \in Nat /\ AllOverNext(dw.oldestXmin)
    BY Zenon, HorizonsOver, OverStep
  <1>1. CASE i > Len(slots[l])
    BY SMTT(20), <1>1, <1>g, <1>h DEF Grow, AllOverNext, Xids
  <1>2. CASE i \in 1 .. Len(slots[l])
    BY Zenon, <1>2, <1>g DEF Grow, RecycleBounded
  <1> QED
    BY <1>1, <1>2, <1>g DEF Grow

-----------------------------------------------------------------------------
(* Steps of backends, rollbacks and checkpoints                            *)

Quiet == UNCHANGED <<recycle_slot, frozen_slot, recycle_xid, globalVars, dw>>

\* Backends, rollbacks and checkpoints do not invalidate what the pointers of
\* a log say.
LEMMA QuietPointers ==
    ASSUME IndInv, [Next]_vars, Quiet
    PROVE  PointerInv' /\ RecycledSettled'
  <1>t. SlotType /\ SlotInv /\ PointerInv /\ RecycledSettled /\ UlogType
    BY Zenon DEF IndInv, TypeOK
  <1>q. UNCHANGED <<recycle_slot, frozen_slot, recycle_xid>>
    BY Zenon DEF Quiet
  <1>1. ASSUME NEW l \in Logs, NEW i \in 1 .. frozen_slot[l] PROVE SettledNext(l, i)
    <2>1. i \in 1 .. Len(slots[l]) /\ Settled(slots[l][i])
      BY <1>1, <1>t DEF SlotType, PointerInv
    <2> QED
      BY Zenon, <2>1, StableSettled
  <1>2. ASSUME NEW l \in Logs, NEW i \in 1 .. recycle_slot[l] PROVE SettledNext(l, i)
    <2>1. i \in 1 .. Len(slots[l]) /\ Settled(slots[l][i])
      BY <1>2, <1>t DEF SlotType, RecycledSettled
    <2> QED
      BY Zenon, <2>1, StableSettled
  <1>3. ASSUME NEW l \in Logs, recycle_xid[l] # InvalidXid
        PROVE  /\ SettledBelowNext(l, recycle_xid[l] + 1)
               /\ \E i \in 1 .. Len(slots'[l]) : slots'[l][i].xid = recycle_xid[l]
    <2>g. Grow(l) /\ \A i, j \in 1 .. Len(slots'[l]) :
                         i < j => slots'[l][i].xid < slots'[l][j].xid
      BY Zenon, GrowStep, OrderStep
    <2>1. PICK i \in 1 .. Len(slots[l]) : slots[l][i].xid = recycle_xid[l]
      BY Zenon, <1>3, <1>t DEF PointerInv
    <2>2. i \in 1 .. Len(slots'[l]) /\ slots'[l][i].xid = recycle_xid[l]
      BY <2>1, <2>g DEF Grow
    <2>3. SettledBelow(l, recycle_xid[l] + 1) /\ recycle_xid[l] \in Nat
      BY <1>3, <1>t DEF PointerInv, UlogType, Xids
    <2>4. ASSUME NEW j \in 1 .. Len(slots'[l]), slots'[l][j].xid < recycle_xid[l] + 1
          PROVE  SettledNext(l, j)
      <3>1. CASE j > Len(slots[l])
        <4>1. slots'[l][j].xid \in Nat /\ Len(slots[l]) \in Nat
          <5>1. slots'[l][j].xid \in Xids /\ Len(slots[l]) \in Nat
            BY Zenon, <3>1, <2>g DEF Grow
          <5> QED
            BY <5>1 DEF Xids
        <4>2. i < j
          BY <3>1, <2>1, <4>1
        <4>3. recycle_xid[l] < slots'[l][j].xid
          BY Zenon, <4>2, <2>2, <2>g
        <4> QED
          BY <4>1, <4>3, <2>3, <2>4
      <3>2. CASE j \in 1 .. Len(slots[l])
        BY ZenonT(30), <3>2, <2>3, <2>4, <2>g DEF Grow, SettledBelow
      <3> QED
        BY <3>1, <3>2, <2>g DEF Grow
    <2> QED
      BY Zenon, <2>2, <2>4 DEF SettledBelowNext
  <1>4. PointerInv'
    BY Zenon, <1>1, <1>3, <1>q
       DEF PointerInv, SettledBelow, SettledBelowNext, Settled, SettledNext, DidCommit
  <1>5. RecycledSettled'
    BY Zenon, <1>2, <1>q DEF RecycledSettled, Settled, SettledNext, DidCommit
  <1> QED
    BY Zenon, <1>4, <1>5

\* Nor the horizons, the published ones included.
LEMMA QuietHorizons ==
    ASSUME IndInv, [Next]_vars, Quiet
    PROVE  HorizonInv' /\ FrozenSettled' /\ GlobalRecycleBound'
  <1>t. HorizonInv /\ FrozenSettled /\ GlobalRecycleBound /\ SlotType /\ SlotType'
    BY Zenon, TypeOKStep DEF IndInv, TypeOK
  <1>q. UNCHANGED <<global_frozen_xid, global_recycle_xid, dw>>
    BY Zenon DEF Quiet, globalVars
  <1>o. /\ AllOverNext(dw.oldestXmin) /\ AllOverNext(dw.lastForceAdvanceXid)
        /\ AllOverNext(global_frozen_xid) /\ AllOverNext(global_recycle_xid)
    BY Zenon, HorizonsOver, OverStep
  <1>1. HorizonInv'
    BY Zenon, <1>o, <1>q, <1>t DEF HorizonInv, AllOver, AllOverNext, InProgress
  <1>2. \A l \in Logs : SettledBelowNext(l, global_frozen_xid)
    BY ZenonT(30), <1>t, HorizonsOver, StableBelow DEF FrozenSettled, SettledBelow
  <1>3. FrozenSettled'
    BY Zenon, <1>o, <1>q, <1>2 DEF FrozenSettled, AllOverNext, InProgress, SettledBelowNext,
                            SettledNext, Settled, DidCommit
  <1>4. \A l \in Logs : SettledBelow(l, global_recycle_xid)
    <2>1. \A l \in Logs : \A i \in 1 .. Len(slots[l]) : slots[l][i].xid \in Nat
      BY <1>t, SlotAt DEF Xids
    <2> QED
      BY SMTT(20), <2>1, <1>t, HorizonsOver DEF GlobalRecycleBound, SettledBelow
  <1>5. \A l \in Logs : SettledBelowNext(l, global_recycle_xid)
    BY Zenon, <1>4, HorizonsOver, StableBelow
  <1>6. GlobalRecycleBound'
    <2>1. \A l \in Logs : \A i \in 1 .. Len(slots'[l]) : slots'[l][i].xid \in Nat
      <3> SUFFICES ASSUME NEW l \in Logs, NEW i \in 1 .. Len(slots'[l])
                   PROVE  slots'[l][i].xid \in Nat
        BY Zenon
      <3>1. slots'[l] \in Seq(Slot)
        BY Zenon, <1>t DEF SlotType
      <3>2. slots'[l][i] \in Slot
        BY <3>1
      <3> QED
        BY <3>2 DEF Slot, Xids
    <2> QED
      BY <2>1, <1>5, <1>q, HorizonsOver
         DEF GlobalRecycleBound, SettledBelowNext, SettledNext, Settled, DidCommit
  <1> QED
    BY Zenon, <1>1, <1>3, <1>6

\* Nor what the discard worker knows of the logs behind it and of the log it
\* is at.
LEMMA QuietPass ==
    ASSUME IndInv, [Next]_vars, Quiet
    PROVE  PassInv' /\ AtLogInv'
  <1>t. PassInv /\ AtLogInv /\ SlotType /\ dw \in DiscardLocals
    BY Zenon DEF IndInv, TypeOK
  <1>q. dw' = dw
    BY Zenon DEF Quiet
  <1>s. \A l \in Logs : /\ SettledBelow(l, ForceAdvanceXid) => SettledBelowNext(l, ForceAdvanceXid)
                        /\ SettledBelow(l, dw.oldestFrozenXidInUndo)
                               => SettledBelowNext(l, dw.oldestFrozenXidInUndo)
                        /\ SettledBelow(l, dw.frozenXid) => SettledBelowNext(l, dw.frozenXid)
    BY Zenon, HorizonsOver, StableBelow
  <1>f. ForceAdvanceXid' = ForceAdvanceXid /\ InLogs' = InLogs
    BY Zenon, <1>q DEF ForceAdvanceXid, InLogs
  <1>1. ASSUME NEW l \in Logs, Visited(l) PROVE Visited(l)'
    <2>1. SettledBelow(l, dw.oldestFrozenXidInUndo)'
      BY Zenon, <1>1, <1>s, <1>q
         DEF Visited, SettledBelow, SettledBelowNext, Settled, SettledNext, DidCommit
    <2>2. ~dw.isAnyLogUsed => SettledBelow(l, ForceAdvanceXid)'
      BY ZenonT(30), <1>1, <1>s, <1>f
         DEF Visited, SettledBelow, SettledBelowNext, Settled, SettledNext, DidCommit
    <2>3. RecycleBounded(l)'
      BY Zenon, <1>1, <1>q, StableBounded DEF Visited
    <2> QED
      BY Zenon, <2>1, <2>2, <2>3, <1>q DEF Visited
  <1>2. ASSUME dw.pc = "publish" PROVE \A l \in Logs : SettledBelow(l, ForceAdvanceXid)'
    BY Zenon, <1>2, <1>t, <1>s, <1>f
       DEF PassInv, SettledBelow, SettledBelowNext, Settled, SettledNext, DidCommit
  <1>3. ASSUME dw.pc = "having", dw.recycleXids # {} PROVE \A l \in Logs : RecycleBounded(l)'
    BY Zenon, <1>3, <1>t, <1>q, StableBounded DEF PassInv
  <1>4. PassInv'
    BY Zenon, <1>1, <1>2, <1>3, <1>t, <1>q, <1>f DEF PassInv
  <1>5. ASSUME dw.pc \in {"request", "recycle", "release"}
        PROVE  /\ dw.idx \in Logs /\ SettledBelow(dw.idx, dw.frozenXid)'
               /\ Len(slots[dw.idx]) \in Nat /\ Len(slots'[dw.idx]) \in Nat
               /\ Len(slots[dw.idx]) <= Len(slots'[dw.idx])
    <2>1. dw.idx \in Logs
      <3>1. dw.idx < NLogs
        BY Zenon, <1>5, <1>t DEF AtLogInv
      <3> QED
        BY <3>1, <1>t, LocalsAt, ConstantsAssumption DEF Logs, ConstantsAssumption
    <2>2. SettledBelow(dw.idx, dw.frozenXid)'
      BY ZenonT(30), <2>1, <1>5, <1>t, <1>s, <1>q
         DEF AtLogInv, SettledBelow, SettledBelowNext, Settled, SettledNext, DidCommit
    <2> QED
      BY ZenonT(30), <2>1, <2>2, GrowStep DEF Grow
  <1>6. ASSUME dw.pc = "release" PROVE dw.idx \notin frozen'
    <2>1. dw.idx \notin frozen
      BY Zenon, <1>6, <1>t DEF AtLogInv
    <2>2. ASSUME NEW l \in Logs, checkpoint_undo_logs(l) PROVE dw.idx \notin frozen'
      BY Zenon, <1>6, <2>1, <2>2 DEF checkpoint_undo_logs, LockedByDiscard
    <2>3. ASSUME NEW b \in Backends, NEW size \in RecordSizes,
                 undolog_switch(b, size) \/ update_undolog_meta(b, size)
          PROVE  frozen' = frozen
      BY Zenon, <2>3 DEF undolog_switch, update_undolog_meta
    <2>4. ASSUME recycle_release PROVE frozen' = frozen
      BY Zenon, <2>4 DEF recycle_release
    <2> QED
      BY Zenon, <2>1, <2>2, <2>3, <2>4, UsedCases
  <1>7. ASSUME dw.pc = "release"
        PROVE  /\ dw.recycle \in 1 .. Len(slots'[dw.idx])
               /\ \A i \in 1 .. dw.recycle : Settled(slots[dw.idx][i])'
    <2>1. /\ dw.recycle \in 1 .. Len(slots[dw.idx])
          /\ \A i \in 1 .. dw.recycle : Settled(slots[dw.idx][i])
      BY Zenon, <1>7, <1>t DEF AtLogInv
    <2>2. dw.recycle \in 1 .. Len(slots'[dw.idx])
      BY <1>5, <1>7, <2>1
    <2>3. \A i \in 1 .. dw.recycle : i \in 1 .. Len(slots[dw.idx])
      BY <1>5, <1>7, <2>1
    <2>4. \A i \in 1 .. dw.recycle : SettledNext(dw.idx, i)
      BY Zenon, <1>5, <1>7, <2>1, <2>3, StableSettled
    <2> QED
      BY ZenonT(30), <2>2, <2>4, <1>q DEF Settled, SettledNext, DidCommit
  <1>8. AtLogInv'
    <2>1. dw.pc \in {"request", "recycle", "release"} =>
              /\ dw.idx < NLogs /\ SettledBelow(dw.idx, dw.frozenXid)'
              /\ dw.allocate <= Len(slots'[dw.idx])
      BY <1>5, <1>t, LocalsAt DEF AtLogInv
    <2>2. dw.pc = "request" => dw.pending \in 1 .. Len(slots'[dw.idx])
      BY SMTT(20), <1>5, <1>t DEF AtLogInv
    <2> QED
      BY Zenon, <2>1, <2>2, <1>6, <1>7, <1>q DEF AtLogInv
  <1> QED
    BY Zenon, <1>4, <1>8

-----------------------------------------------------------------------------
(* Steps of the discard worker                                             *)

Pointers == PointerInv /\ RecycledSettled
Globals == /\ FrozenSettled /\ GlobalRecycleBound
           /\ AllOver(global_frozen_xid) /\ AllOver(global_recycle_xid)

\* Pointers and horizons that are not written keep their meaning.
LEMMA StillPointers ==
    ASSUME IndInv, Still, UNCHANGED <<recycle_slot, frozen_slot, recycle_xid>>
    PROVE  Pointers'
  BY DEF IndInv, Still, Pointers, PointerInv, RecycledSettled, SettledBelow, Settled, DidCommit

\* So do the global ones.
LEMMA StillGlobals ==
    ASSUME IndInv, Still, UNCHANGED globalVars
    PROVE  Globals'
  BY Zenon DEF IndInv, HorizonInv, Still, globalVars, Globals, FrozenSettled, GlobalRecycleBound,
         AllOver, InProgress, Settled, DidCommit

\* The head of the loop knows nothing but the last forced horizon.
LEMMA AtStart ==
    ASSUME IndInv, Still, Globals', NEW having, NEW f \in Nat, AllOver(f), NEW force,
           NEW restarts, dw' = DiscardStart(having, f, force, restarts)
    PROVE  HorizonInv' /\ PassInv' /\ AtLogInv'
  <1>1. /\ dw'.pc = "loop" /\ dw'.oldestXmin = 3 /\ dw'.frozenXid = 3
        /\ dw'.oldestFrozenXidInUndo = 3 /\ dw'.idx = 0 /\ dw'.isAnyLogUsed = FALSE
        /\ dw'.recycleXids = {} /\ dw'.lastForceAdvanceXid = f
    BY Zenon DEF DiscardStart
  <1>2. nextXid \in Nat /\ nextXid >= 3
    BY DEF IndInv, TypeOK, XactType, Horizon
  <1>3. HorizonInv'
    BY <1>1, <1>2 DEF HorizonInv, Globals, AllOver, Still, InProgress, Xids
  <1>4. PassInv'
    BY Zenon, <1>1 DEF PassInv, InLogs
  <1>5. AtLogInv'
    BY Zenon, <1>1 DEF AtLogInv
  <1> QED
    BY Zenon, <1>3, <1>4, <1>5

\* A horizon taken at the head of the loop has no running transaction below
\* it, and when no log is in use every slot is settled.
LEMMA LoopStep ==
    ASSUME IndInv, discard_loop
    PROVE  HorizonInv' /\ PassInv' /\ AtLogInv'
  <1>t. XactType /\ XactInv /\ UlogType /\ SlotType /\ dw \in DiscardLocals /\ PassInv
    BY Zenon DEF IndInv, TypeOK
  <1>s. Still /\ UNCHANGED globalVars
    BY ZenonT(30), DiscardStill DEF Discard, discard_loop
  <1>g. Globals'
    BY Zenon, <1>s, StillGlobals
  <1>1. PICK m \in OldestXminSet : /\ IsLeast(m, OldestXminSet)
            /\ \/ undo_log_used_cout = 0
                  /\ dw' = [dw EXCEPT !.pc = "publish", !.oldestXmin = m,
                                      !.oldestFrozenXidInUndo = m]
               \/ \E force \in ForceRecycle :
                  dw' = [dw EXCEPT
                         !.pc = "logs", !.oldestXmin = m, !.force = force,
                         !.forceRecycleXid = IF force THEN get_force_recycle_xid(m, 1)
                                                      ELSE InvalidXid,
                         !.oldestFrozenXidInUndo = m]
    BY ZenonT(30) DEF discard_loop
  <1>2. /\ dw.pc = "loop" /\ dw.idx = 0 /\ ~dw.isAnyLogUsed /\ dw.recycleXids = {}
        /\ dw.frozenXid = 3
    BY Zenon, <1>t DEF discard_loop, PassInv
  <1>3. /\ dw'.oldestXmin = m /\ dw'.oldestFrozenXidInUndo = m /\ dw'.idx = 0
        /\ ~dw'.isAnyLogUsed /\ dw'.recycleXids = {} /\ dw'.frozenXid = 3
        /\ dw'.lastForceAdvanceXid = dw.lastForceAdvanceXid
        /\ dw'.pc \in {"publish", "logs"} /\ (dw'.pc = "publish" => undo_log_used_cout = 0)
    <2>1. CASE undo_log_used_cout = 0
               /\ dw' = [dw EXCEPT !.pc = "publish", !.oldestXmin = m,
                                   !.oldestFrozenXidInUndo = m]
      BY Zenon, <2>1, <1>2, <1>t DEF DiscardLocals
    <2>2. ASSUME NEW force \in ForceRecycle, NEW x,
                 dw' = [dw EXCEPT !.pc = "logs", !.oldestXmin = m, !.force = force,
                                  !.forceRecycleXid = x, !.oldestFrozenXidInUndo = m]
          PROVE  /\ dw'.oldestXmin = m /\ dw'.oldestFrozenXidInUndo = m /\ dw'.idx = 0
                 /\ ~dw'.isAnyLogUsed /\ dw'.recycleXids = {} /\ dw'.frozenXid = 3
                 /\ dw'.lastForceAdvanceXid = dw.lastForceAdvanceXid /\ dw'.pc = "logs"
      BY Zenon, <2>2, <1>2, <1>t DEF DiscardLocals
    <2> QED
      BY ZenonT(30), <1>1, <2>1, <2>2
  <1>l. \A x \in OldestXminSet : m <= x
    BY ZenonT(30), <1>1 DEF IsLeast
  <1>4. nextXid \in OldestXminSet /\ m \in Nat /\ m >= 3 /\ m <= nextXid
    <2>1. OldestXminSet \subseteq Horizon
      BY <1>t, ConstantsAssumption DEF ConstantsAssumption, OldestXminSet, Running, XactType,
                                       Horizon, XidOrNone, Xids
    <2>2. nextXid \in OldestXminSet
      BY <1>t DEF OldestXminSet, XactType, Horizon
    <2> QED
      BY <2>1, <2>2, <1>l DEF Horizon
  <1>5. AllOver(m)
    <2> SUFFICES ASSUME NEW x \in Xids, x < m, InProgress(x) PROVE FALSE
      BY Zenon, <1>4 DEF AllOver
    <2>1. x \in OldestXminSet
      BY SMTT(20), <1>t DEF XactInv, OldestXminSet, Running, Xids
    <2> QED
      BY SMTT(20), <2>1, <1>l, <1>4 DEF Xids
  <1>7. HorizonInv'
    BY SMTT(20), <1>3, <1>4, <1>5, <1>g, <1>s, HorizonsOver
       DEF HorizonInv, Globals, AllOver, Still, InProgress
  <1>8. ASSUME undo_log_used_cout = 0, NEW l \in Logs, NEW i \in 1 .. Len(slots[l])
        PROVE  Settled(slots[l][i])
    <2>1. insert_offset[l] = 1 \/ l \in frozen
      BY SMTT(20), <1>8, <1>t, UsedPositive DEF IndInv
    <2>2. CASE insert_offset[l] = 1
      BY <2>2, <1>8 DEF IndInv, SlotInv
    <2>3. CASE l \in frozen
      BY Zenon, <2>3, <1>8 DEF IndInv, UsedInv, RecycledSettled
    <2> QED
      BY Zenon, <2>1, <2>2, <2>3
  <1>9. PassInv'
    <2>1. dw'.pc = "publish" => \A l \in Logs : SettledBelow(l, ForceAdvanceXid)'
      BY Zenon, <1>3, <1>8, <1>s DEF SettledBelow, Still, Settled, DidCommit
    <2>2. \A l \in Logs : ~(l < dw'.idx)
      BY <1>3 DEF Logs
    <2> QED
      BY Zenon, <1>3, <2>1, <2>2 DEF PassInv, InLogs
  <1>10. AtLogInv'
    BY Zenon, <1>3 DEF AtLogInv
  <1> QED
    BY Zenon, <1>7, <1>9, <1>10

\* Within a pass the horizon stands, and only the minima move.
SamePass ==
    /\ Still
    /\ dw'.oldestXmin = dw.oldestXmin /\ dw'.lastForceAdvanceXid = dw.lastForceAdvanceXid
    /\ dw.recycleXids \subseteq dw'.recycleXids
    /\ dw'.oldestFrozenXidInUndo \in Nat /\ dw'.oldestFrozenXidInUndo <= dw.oldestFrozenXidInUndo
    /\ dw.isAnyLogUsed => dw'.isAnyLogUsed

\* A log the pass has been through stays visited.
LEMMA StillVisited ==
    ASSUME IndInv, SamePass, NEW l \in Logs, Visited(l)
    PROVE  Visited(l)'
  <1>n. \A i \in 1 .. Len(slots[l]) : slots[l][i].xid \in Nat
    BY SlotAt DEF IndInv, TypeOK, Xids
  <1>h. dw.oldestFrozenXidInUndo \in Nat
    BY Zenon, HorizonsOver
  <1>1. SettledBelow(l, dw.oldestFrozenXidInUndo)'
    BY SMTT(20), <1>n, <1>h DEF Visited, SamePass, Still, SettledBelow, Settled, DidCommit
  <1>2. ~dw'.isAnyLogUsed => SettledBelow(l, ForceAdvanceXid)'
    BY Zenon DEF Visited, SamePass, Still, SettledBelow, Settled, DidCommit, ForceAdvanceXid
  <1>3. RecycleBounded(l)'
    BY Zenon DEF Visited, SamePass, Still, RecycleBounded, Settled, DidCommit
  <1> QED
    BY Zenon, <1>1, <1>2, <1>3 DEF Visited

\* The horizons of the pass stay what they are.
LEMMA StillHorizons ==
    ASSUME IndInv, SamePass, Globals', dw'.frozenXid \in Nat, dw'.frozenXid <= dw.oldestXmin
    PROVE  HorizonInv'
  <1>1. dw'.oldestFrozenXidInUndo <= dw.oldestXmin
    BY HorizonsOver DEF IndInv, HorizonInv, SamePass
  <1>2. AllOver(dw.oldestXmin)' /\ AllOver(dw.lastForceAdvanceXid)'
    BY Zenon DEF IndInv, HorizonInv, SamePass, Still, AllOver, InProgress
  <1> QED
    BY Zenon, <1>1, <1>2 DEF HorizonInv, SamePass, Globals

\* A log without slots to recycle holds nothing back.
LEMMA SkipStep ==
    ASSUME IndInv, discard_skip_log
    PROVE  HorizonInv' /\ PassInv' /\ AtLogInv'
  <1>t. SlotType /\ dw \in DiscardLocals /\ PassInv
    BY Zenon DEF IndInv, TypeOK
  <1>s. Still /\ UNCHANGED globalVars
    BY Zenon, DiscardStill DEF Discard, discard_skip_log
  <1>g. Globals'
    BY Zenon, <1>s, StillGlobals
  <1> DEFINE k == dw.idx
  <1>1. /\ dw.pc = "logs" /\ k \in Nat /\ k < NLogs /\ ~undolog_need_recycle(k)
        /\ dw' = [dw EXCEPT !.idx = k + 1]
    BY <1>t, LocalsAt, ConstantsAssumption DEF discard_skip_log, ConstantsAssumption
  <1>k. k \in Logs
    BY <1>1, ConstantsAssumption DEF Logs, ConstantsAssumption
  <1>2. /\ dw'.pc = "logs" /\ dw'.idx = k + 1 /\ dw'.frozenXid = dw.frozenXid
        /\ dw'.oldestFrozenXidInUndo = dw.oldestFrozenXidInUndo
        /\ dw'.oldestXmin = dw.oldestXmin /\ dw'.isAnyLogUsed = dw.isAnyLogUsed
        /\ dw'.recycleXids = dw.recycleXids
        /\ dw'.lastForceAdvanceXid = dw.lastForceAdvanceXid
    BY Zenon, <1>1, <1>t DEF DiscardLocals
  <1>3. SamePass
    BY <1>2, <1>s, HorizonsOver DEF SamePass
  <1>4. \A i \in 1 .. Len(slots[k]) : Settled(slots[k][i])
    <2>1. recycle_slot[k] = Len(slots[k])
      BY <1>1, <1>k, <1>t, SlotAt DEF undolog_need_recycle, SlotType
    <2> QED
      BY Zenon, <2>1, <1>k DEF IndInv, RecycledSettled
  <1>5. Visited(k)
    BY Zenon, <1>4 DEF Visited, SettledBelow, RecycleBounded
  <1>6. \A l \in Logs : l < k + 1 => Visited(l)
    <2>1. \A l \in Logs : l < k + 1 => l < k \/ l = k
      BY <1>1 DEF Logs
    <2> QED
      BY Zenon, <2>1, <1>1, <1>5, <1>t DEF PassInv, InLogs
  <1>7. \A l \in Logs : l < dw'.idx => Visited(l)'
    BY <1>2, <1>3, <1>6, StillVisited
  <1>8. PassInv'
    BY Zenon, <1>2, <1>7 DEF PassInv
  <1>9. HorizonInv'
    <2>1. dw.frozenXid <= dw.oldestXmin
      BY Zenon DEF IndInv, HorizonInv
    <2> QED
      BY Zenon, <2>1, <1>2, <1>3, <1>g, HorizonsOver, StillHorizons
  <1> QED
    BY Zenon, <1>2, <1>8, <1>9 DEF AtLogInv

\* The walk of advance_frozen_xid passes only settled slots, although it takes
\* xids below global_frozen_xid for committed.
LEMMA WalkSettled ==
    ASSUME IndInv, NEW l \in Logs, NEW i \in 1 .. Len(slots[l]),
           ~StopsFreezing(slots[l][i], dw.oldestXmin)
    PROVE  Settled(slots[l][i])
  <1>x. slots[l][i].xid \in Xids /\ dw.oldestXmin \in Nat
    BY Zenon, SlotAt, HorizonsOver DEF IndInv, TypeOK
  <1>n. slots[l][i].xid \in Nat /\ dw.oldestXmin \in Nat
    BY <1>x DEF Xids
  <1>1. xstore_transaction_id_did_commit(slots[l][i].xid) \/ ~can_rollback_undo_slot(slots[l][i])
    BY <1>n DEF StopsFreezing, NeedsRollback
  <1>2. ASSUME slots[l][i].xid < global_frozen_xid PROVE Settled(slots[l][i])
    BY Zenon, <1>2 DEF IndInv, FrozenSettled
  <1> QED
    BY Zenon, <1>1, <1>2 DEF xstore_transaction_id_did_commit, TransactionIdOlderThanAllUndo,
                      can_rollback_undo_slot, Settled

\* A slot below another one has the smaller xid.
LEMMA SlotOrder ==
    ASSUME IndInv, NEW l \in Logs, NEW i \in 1 .. Len(slots[l]), NEW j \in 1 .. Len(slots[l]),
           slots[l][i].xid < slots[l][j].xid
    PROVE  i < j
  <1>1. slots[l][i].xid \in Nat /\ slots[l][j].xid \in Nat
    BY SlotAt DEF IndInv, TypeOK, Xids
  <1>2. i > j => slots[l][j].xid < slots[l][i].xid
    BY Zenon DEF IndInv, SlotInv
  <1> QED
    BY <1>1, <1>2

\* What advance_frozen_xid reports as the log's frozenXid has only settled
\* slots below it, and so does the frozen pointer.
LEMMA AdvanceStep ==
    ASSUME IndInv, advance_frozen_xid
    PROVE  Pointers' /\ HorizonInv' /\ PassInv' /\ AtLogInv'
  <1>t. SlotType /\ dw \in DiscardLocals /\ PassInv /\ PointerInv /\ RecycledSettled
    BY Zenon DEF IndInv, TypeOK
  <1>s. Still /\ UNCHANGED <<globalVars, recycle_slot, recycle_xid>>
    BY ZenonT(30), DiscardStill DEF Discard, advance_frozen_xid
  <1>g. Globals'
    BY Zenon, <1>s, StillGlobals
  <1> DEFINE k == dw.idx
             xmin == dw.oldestXmin
             n == Len(slots[k])
             first == Larger(frozen_slot[k], recycle_slot[k])
  <1>1. dw.pc = "logs" /\ k \in Nat /\ k < NLogs /\ xmin \in Nat
    <2>1. k \in Nat /\ xmin \in Nat
      BY <1>t, LocalsAt, HorizonsOver, ConstantsAssumption DEF ConstantsAssumption
    <2> QED
      BY Zenon, <2>1 DEF advance_frozen_xid
  <1>k. k \in Logs
    BY <1>1, ConstantsAssumption DEF Logs, ConstantsAssumption
  <1>2. PICK stop \in first .. n :
            LET s == slots[k][stop + 1]
                at_slot == stop < n
                rollback == at_slot /\ s.start # 0 /\ NeedsRollback(s, xmin)
            IN  /\ \A i \in first + 1 .. stop : ~StopsFreezing(slots[k][i], xmin)
                /\ at_slot => StopsFreezing(s, xmin)
                /\ frozen_slot' = [frozen_slot EXCEPT ![k] =
                       IF stop = first /\ at_slot /\ s.start = 0 THEN @ ELSE stop]
                /\ dw' = [dw EXCEPT
                            !.pc = IF rollback THEN "request" ELSE "recycle",
                            !.pending = IF rollback THEN stop + 1 ELSE 0,
                            !.frozenXid = IF rollback THEN s.xid ELSE xmin,
                            !.allocate = n]
    BY ZenonT(30) DEF advance_frozen_xid
  <1>3. /\ n \in Nat /\ frozen_slot[k] \in Nat /\ recycle_slot[k] \in Nat
        /\ frozen_slot[k] <= n /\ recycle_slot[k] <= n
    BY Zenon, <1>k, <1>t, SlotAt DEF SlotType
  <1>4. first \in Nat /\ stop \in Nat /\ stop <= n
    BY <1>3 DEF Larger
  <1>5. \A i \in 1 .. stop : Settled(slots[k][i])
    <2> SUFFICES ASSUME NEW i \in 1 .. stop PROVE Settled(slots[k][i])
      BY Zenon
    <2>1. i \in 1 .. n
      BY SMTT(20), <1>3, <1>4
    <2>2. CASE i <= frozen_slot[k]
      BY <2>1, <2>2, <1>k, <1>3, <1>t DEF PointerInv
    <2>3. CASE i <= recycle_slot[k]
      BY <2>1, <2>3, <1>k, <1>3, <1>t DEF RecycledSettled
    <2>4. CASE i \in first + 1 .. stop
      BY Zenon, <2>1, <2>4, <1>2, <1>k, WalkSettled
    <2> QED
      BY <2>1, <2>2, <2>3, <2>4, <1>3, <1>4 DEF Larger
  <1> DEFINE s == slots[k][stop + 1]
             rollback == stop < n /\ s.start # 0 /\ NeedsRollback(s, xmin)
             fx == IF rollback THEN s.xid ELSE xmin
  <1>6. stop < n => stop + 1 \in 1 .. n /\ s.xid \in Nat
    <2> SUFFICES ASSUME stop < n PROVE stop + 1 \in 1 .. n /\ s.xid \in Nat
      BY Zenon
    <2>1. stop + 1 \in 1 .. n
      BY <1>3, <1>4
    <2> QED
      BY <2>1, <1>k, <1>t, SlotAt DEF Xids
  <1>7. stop < n => fx <= s.xid
    <2> SUFFICES ASSUME stop < n, ~rollback PROVE xmin <= s.xid
      BY <1>6
    <2>1. StopsFreezing(s, xmin)
      BY Zenon, <1>2
    <2>2. CASE s.start = 0
      <3>1. InProgress(s.xid) /\ s.xid \in Xids
        <4>1. PICK b \in Backends : phase[b] = "meta" /\ logs[b] = k /\ xact[b] = s.xid
          BY <2>2, <1>6, <1>k DEF IndInv, SlotInv
        <4> QED
          BY Zenon, <4>1, MetaAt DEF IndInv, TypeOK
      <3>2. ~(s.xid < xmin) /\ xmin \in Nat
        BY Zenon, <3>1, HorizonsOver DEF AllOver
      <3> QED
        BY <3>2, <1>6
    <2>3. CASE s.start # 0
      BY Zenon, <2>1, <2>3, <1>1, <1>6 DEF StopsFreezing
    <2> QED
      BY Zenon, <2>2, <2>3
  <1>8. fx \in Nat /\ fx <= xmin
    BY SMTT(20), <1>1, <1>6 DEF NeedsRollback
  <1>9. SettledBelow(k, fx)
    <2> SUFFICES ASSUME NEW i \in 1 .. n, slots[k][i].xid < fx PROVE Settled(slots[k][i])
      BY Zenon DEF SettledBelow
    <2>0. slots[k][i].xid \in Nat
      BY SMTT(20), <1>k, <1>t, SlotAt DEF Xids
    <2>1. i <= stop
      <3>1. CASE stop < n
        <4>1. slots[k][i].xid < s.xid
          <5>1. fx \in Nat /\ s.xid \in Nat /\ fx <= s.xid /\ slots[k][i].xid < fx
            BY Zenon, <3>1, <1>6, <1>7, <1>8
          <5> HIDE DEF fx, s
          <5> QED
            BY SMTT(20), <5>1, <2>0
        <4>2. i < stop + 1
          BY Zenon, <3>1, <4>1, <1>6, <1>k, SlotOrder
        <4> QED
          BY SMTT(20), <4>2, <1>3, <1>4
      <3>2. CASE stop = n
        BY <3>2, <1>3
      <3> QED
        BY SMTT(20), <3>1, <3>2, <1>3, <1>4
    <2> QED
      BY SMTT(20), <2>1, <1>3, <1>4, <1>5
  <1>10. /\ dw'.pc \in {"request", "recycle"} /\ dw'.frozenXid = fx /\ dw'.allocate = n
         /\ dw'.idx = k /\ dw'.oldestXmin = xmin
         /\ dw'.oldestFrozenXidInUndo = dw.oldestFrozenXidInUndo
         /\ dw'.isAnyLogUsed = dw.isAnyLogUsed /\ dw'.recycleXids = dw.recycleXids
         /\ dw'.lastForceAdvanceXid = dw.lastForceAdvanceXid
         /\ dw'.pc = "request" => dw'.pending = stop + 1 /\ stop < n
    <2>1. CASE rollback
      <3>1. dw' = [dw EXCEPT !.pc = "request", !.pending = stop + 1, !.frozenXid = fx,
                             !.allocate = n]
        BY Zenon, <2>1, <1>2
      <3> HIDE DEF fx, n
      <3> QED
        BY Zenon, <2>1, <3>1, <1>t DEF DiscardLocals
    <2>2. CASE ~rollback
      <3>1. dw' = [dw EXCEPT !.pc = "recycle", !.pending = 0, !.frozenXid = fx,
                             !.allocate = n]
        BY ZenonT(30), <2>2, <1>2
      <3> HIDE DEF fx, n
      <3> QED
        BY Zenon, <2>2, <3>1, <1>t DEF DiscardLocals
    <2> QED
      BY Zenon, <2>1, <2>2
  <1> HIDE DEF fx, rollback
  <1>11. SamePass
    <2>1. dw.oldestFrozenXidInUndo \in Nat /\ Still
      BY <1>s, HorizonsOver
    <2>2. dw'.oldestFrozenXidInUndo <= dw.oldestFrozenXidInUndo
      BY <1>10, <2>1
    <2> QED
      BY Zenon, <1>10, <2>1, <2>2 DEF SamePass
  <1>12. HorizonInv'
    BY Zenon, <1>8, <1>10, <1>11, <1>g, StillHorizons
  <1>13. PassInv'
    <2>1. \A l \in Logs : l < dw'.idx => Visited(l)'
      BY Zenon, <1>1, <1>10, <1>11, <1>t, StillVisited DEF PassInv, InLogs
    <2> QED
      BY Zenon, <1>10, <2>1 DEF PassInv
  <1>14. AtLogInv'
    <2>1. SettledBelow(dw.idx, dw.frozenXid)'
      BY SMTT(20), <1>9, <1>10, <1>s DEF SettledBelow, Still, Settled, DidCommit
    <2>2. dw'.idx < NLogs /\ slots' = slots /\ dw'.allocate <= Len(slots[dw'.idx])
      BY SMTT(20), <1>1, <1>3, <1>10, <1>s DEF Still
    <2> QED
      BY Zenon, <2>1, <2>2, <1>6, <1>10 DEF AtLogInv
  <1>15. Pointers'
    <2>1. \A l \in Logs : \A i \in 1 .. frozen_slot'[l] : Settled(slots[l][i])
      <3> SUFFICES ASSUME NEW l \in Logs, NEW i \in 1 .. frozen_slot'[l]
                   PROVE  Settled(slots[l][i])
        BY Zenon
      <3>1. frozen_slot'[l] = frozen_slot[l] \/ (l = k /\ frozen_slot'[l] = stop)
        BY Zenon, <1>2, <1>k, <1>t DEF SlotType
      <3> QED
        BY Zenon, <3>1, <1>5, <1>t DEF PointerInv
    <2> QED
      BY <2>1, <1>s, <1>t DEF Pointers, PointerInv, RecycledSettled, Still, SettledBelow, Settled,
                              DidCommit
  <1> QED
    BY Zenon, <1>12, <1>13, <1>14, <1>15

\* Registering a rollback request changes nothing the invariant speaks of.
LEMMA RequestStep ==
    ASSUME IndInv, request_async_rollback
    PROVE  HorizonInv' /\ PassInv' /\ AtLogInv'
  <1>t. dw \in DiscardLocals
    BY Zenon DEF IndInv, TypeOK
  <1>s. Still /\ UNCHANGED globalVars
    BY Zenon, DiscardStill DEF Discard, request_async_rollback
  <1>g. Globals'
    BY Zenon, <1>s, StillGlobals
  <1>1. /\ dw.pc = "request"
        /\ dw' = [dw EXCEPT !.pc = "recycle", !.pending = 0, !.allocate = Len(slots[dw.idx])]
    BY Zenon DEF request_async_rollback
  <1>2. /\ dw'.pc = "recycle" /\ dw'.frozenXid = dw.frozenXid /\ dw'.idx = dw.idx
        /\ dw'.allocate = Len(slots[dw.idx]) /\ dw'.oldestXmin = dw.oldestXmin
        /\ dw'.oldestFrozenXidInUndo = dw.oldestFrozenXidInUndo
        /\ dw'.isAnyLogUsed = dw.isAnyLogUsed /\ dw'.recycleXids = dw.recycleXids
        /\ dw'.lastForceAdvanceXid = dw.lastForceAdvanceXid
    BY Zenon, <1>1, <1>t DEF DiscardLocals
  <1>3. SamePass
    BY <1>2, <1>s, HorizonsOver DEF SamePass
  <1>4. HorizonInv'
    <2>1. dw.frozenXid <= dw.oldestXmin
      BY Zenon DEF IndInv, HorizonInv
    <2> QED
      BY Zenon, <2>1, <1>2, <1>3, <1>g, HorizonsOver, StillHorizons
  <1>5. PassInv'
    <2>1. \A l \in Logs : l < dw'.idx => Visited(l)'
      BY Zenon, <1>1, <1>2, <1>3, AtLog, StillVisited
    <2> QED
      BY Zenon, <1>2, <2>1 DEF PassInv
  <1>6. AtLogInv'
    <2>1. SettledBelow(dw.idx, dw.frozenXid)'
      BY <1>1, <1>2, <1>s, AtLog DEF SettledBelow, Still, Settled, DidCommit
    <2>2. dw'.idx < NLogs /\ dw'.allocate <= Len(slots'[dw'.idx])
      BY <1>1, <1>2, <1>s, AtLog DEF Still
    <2> QED
      BY Zenon, <2>1, <2>2, <1>2 DEF AtLogInv
  <1> QED
    BY Zenon, <1>4, <1>5, <1>6

\* A batch of slots goes, or the log is left and its minima are folded in.
LEMMA RecycleStep ==
    ASSUME IndInv, recycle_undo_space
    PROVE  Pointers' /\ HorizonInv' /\ PassInv' /\ AtLogInv'
  <1>t. UlogType /\ SlotType /\ dw \in DiscardLocals /\ PointerInv /\ RecycledSettled
    BY Zenon DEF IndInv, TypeOK
  <1>s. Still /\ UNCHANGED <<globalVars, recycle_slot, frozen_slot>>
    BY ZenonT(30), DiscardStill DEF Discard, recycle_undo_space
  <1>g. Globals'
    BY Zenon, <1>s, StillGlobals
  <1> DEFINE k == dw.idx
             first == recycle_slot[k]
             n == Len(slots[k])
  <1>1. PICK last \in first .. dw.allocate :
            /\ IsBatch(k, first, last)
            /\ recycle_xid' = [recycle_xid EXCEPT ![k] =
                   IF last = first THEN @ ELSE slots[k][last].xid]
            /\ dw' = IF last = first THEN LogDone
                     ELSE [dw EXCEPT !.pc = "release", !.recycle = last]
    BY ZenonT(30) DEF recycle_undo_space
  <1>p. dw.pc = "recycle"
    BY Zenon DEF recycle_undo_space
  <1>k. /\ k \in Logs /\ k \in Nat /\ k < NLogs /\ n \in Nat /\ first \in Nat /\ last \in Nat
        /\ first <= last /\ last <= n
    BY <1>p, AtLog
  <1>2. \A i \in 1 .. last : Settled(slots[k][i])
    <2> SUFFICES ASSUME NEW i \in 1 .. last PROVE Settled(slots[k][i])
      BY Zenon
    <2>1. CASE i <= first
      BY <2>1, <1>k, <1>t DEF RecycledSettled
    <2>2. CASE i \in first + 1 .. last
      <3>1. Recyclable(slots[k][i]) /\ i \in 1 .. n
        BY <2>2, <1>1, <1>k DEF IsBatch
      <3> QED
        BY Zenon, <3>1, <1>p, RecyclableSettled
    <2> QED
      BY <2>1, <2>2, <1>k
  <1>3. CASE last # first
    <2>0. last \in 1 .. n
      BY <1>k, <1>3
    <2>1. dw' = [dw EXCEPT !.pc = "release", !.recycle = last]
          /\ recycle_xid' = [recycle_xid EXCEPT ![k] = slots[k][last].xid]
      BY Zenon, <1>1, <1>3
    <2>2. /\ dw'.pc = "release" /\ dw'.frozenXid = dw.frozenXid /\ dw'.idx = k
          /\ dw'.allocate = dw.allocate /\ dw'.oldestXmin = dw.oldestXmin
          /\ dw'.recycle = last /\ dw'.oldestFrozenXidInUndo = dw.oldestFrozenXidInUndo
          /\ dw'.isAnyLogUsed = dw.isAnyLogUsed /\ dw'.recycleXids = dw.recycleXids
          /\ dw'.lastForceAdvanceXid = dw.lastForceAdvanceXid
      BY Zenon, <2>1, <1>t DEF DiscardLocals
    <2>3. SamePass
      BY <2>2, <1>s, HorizonsOver DEF SamePass
    <2>4. HorizonInv'
      <3>1. dw.frozenXid <= dw.oldestXmin
        BY Zenon DEF IndInv, HorizonInv
      <3> QED
        BY Zenon, <3>1, <2>2, <2>3, <1>g, HorizonsOver, StillHorizons
    <2>5. PassInv'
      <3>1. \A l \in Logs : l < dw'.idx => Visited(l)'
        BY Zenon, <1>p, <2>2, <2>3, AtLog, StillVisited
      <3> QED
        BY Zenon, <2>2, <3>1 DEF PassInv
    <2>6. AtLogInv'
      <3>1. SettledBelow(dw.idx, dw.frozenXid)'
        BY SMTT(20), <1>p, <2>2, <1>s, AtLog DEF SettledBelow, Still, Settled, DidCommit
      <3>2. dw'.idx < NLogs /\ dw'.allocate <= Len(slots'[dw'.idx])
        BY Zenon, <1>p, <2>2, <1>s, AtLog DEF Still
      <3>3. k \notin frozen
        BY <1>3, <1>k DEF IndInv, UsedInv
      <3>4. \A i \in 1 .. dw'.recycle : Settled(slots[dw.idx][i])'
        BY Zenon, <1>2, <2>2, <1>s DEF Still, Settled, DidCommit
      <3> QED
        BY Zenon, <2>0, <2>2, <3>1, <3>2, <3>3, <3>4, <1>s DEF AtLogInv, Still
    <2>7. Pointers'
      <3>1. SettledBelow(k, slots[k][last].xid + 1)
        <4> SUFFICES ASSUME NEW i \in 1 .. n, slots[k][i].xid < slots[k][last].xid + 1
                     PROVE  i \in 1 .. last
          BY Zenon, <1>2 DEF SettledBelow
        <4>1. slots[k][i].xid \in Nat /\ slots[k][last].xid \in Nat
          BY SMTT(20), <2>0, <1>k, <1>t, SlotAt DEF Xids
        <4>2. i > last => slots[k][last].xid < slots[k][i].xid
          BY Zenon, <2>0, <1>k DEF IndInv, SlotInv
        <4> QED
          BY SMTT(20), <4>1, <4>2, <1>k
      <3>2. \A l \in Logs : recycle_xid'[l] # InvalidXid =>
                /\ SettledBelow(l, recycle_xid'[l] + 1)
                /\ \E i \in 1 .. Len(slots[l]) : slots[l][i].xid = recycle_xid'[l]
        <4> SUFFICES ASSUME NEW l \in Logs, recycle_xid'[l] # InvalidXid
                     PROVE  /\ SettledBelow(l, recycle_xid'[l] + 1)
                            /\ \E i \in 1 .. Len(slots[l]) : slots[l][i].xid = recycle_xid'[l]
          BY Zenon
        <4>1. CASE l = k
          BY Zenon, <4>1, <3>1, <2>0, <2>1, <1>k, <1>t DEF UlogType
        <4>2. CASE l # k
          BY Zenon, <4>2, <2>1, <1>k, <1>t DEF UlogType, PointerInv
        <4> QED
          BY Zenon, <4>1, <4>2
      <3> QED
        BY SMTT(20), <3>2, <1>s, <1>t DEF Pointers, PointerInv, RecycledSettled, Still, SettledBelow,
                                Settled, DidCommit
    <2> QED
      BY Zenon, <2>4, <2>5, <2>6, <2>7
  <1>4. CASE last = first
    <2>1. dw' = LogDone /\ recycle_xid' = recycle_xid
      BY Zenon, <1>1, <1>4, <1>k, <1>t DEF UlogType
    <2> DEFINE x == OldestRecycleXid(k)
               f == Smaller(dw.oldestFrozenXidInUndo, dw.frozenXid)
    <2>2. /\ dw'.pc = "logs" /\ dw'.frozenXid = 3 /\ dw'.idx = k + 1
          /\ dw'.oldestXmin = dw.oldestXmin /\ dw'.oldestFrozenXidInUndo = f
          /\ dw'.isAnyLogUsed = TRUE /\ dw'.recycleXids = dw.recycleXids \cup {x}
          /\ dw'.lastForceAdvanceXid = dw.lastForceAdvanceXid
      <3> HIDE DEF x
      <3>1. dw' = [dw EXCEPT !.pc = "logs", !.idx = k + 1, !.isAnyLogUsed = TRUE,
                             !.oldestFrozenXidInUndo = f,
                             !.recycleXids = dw.recycleXids \cup {x},
                             !.frozenXid = 3, !.allocate = 0, !.recycle = 0]
        BY Zenon, <2>1 DEF LogDone, x
      <3> HIDE DEF f, k
      <3> QED
        BY Zenon, <3>1, <1>t DEF DiscardLocals
    <2>3. f \in Nat /\ f <= dw.oldestFrozenXidInUndo /\ f <= dw.frozenXid
      BY HorizonsOver DEF Smaller
    <2> HIDE DEF f
    <2>4. SamePass
      BY Zenon, <2>2, <2>3, <1>s DEF SamePass
    <2>5. HorizonInv'
      <3>1. 3 <= dw.oldestXmin
        BY <1>t, LocalsAt DEF Horizon
      <3> QED
        BY <3>1, <2>2, <2>4, <1>g, StillHorizons
    <2>n. \A i \in 1 .. n : slots[k][i].xid \in Nat
      BY SMTT(20), <1>k, <1>t, SlotAt DEF Xids
    <2>6. SettledBelow(k, f)
      BY SMTT(20), <1>p, <2>3, <2>n, AtLog, HorizonsOver DEF SettledBelow
    <2>7. ASSUME NEW i \in 1 .. n, ~Settled(slots[k][i]) PROVE x <= slots[k][i].xid
      <3>1. ASSUME recycle_xid[k] # InvalidXid PROVE recycle_xid[k] <= slots[k][i].xid
        <4>1. SettledBelow(k, recycle_xid[k] + 1) /\ recycle_xid[k] \in Nat
          BY SMTT(20), <3>1, <1>k, <1>t DEF PointerInv, UlogType, Xids
        <4> QED
          BY SMTT(20), <4>1, <2>7, <2>n DEF SettledBelow
      <3>2. dw.frozenXid <= slots[k][i].xid
        <4>1. SettledBelow(k, dw.frozenXid) /\ dw.frozenXid \in Nat
          BY Zenon, <1>p, AtLog, HorizonsOver
        <4> QED
          BY SMTT(20), <4>1, <2>7, <2>n DEF SettledBelow
      <3>3. Smaller(dw.oldestXmin, dw.frozenXid) <= slots[k][i].xid
        BY SMTT(20), <3>2, <2>n, HorizonsOver DEF Smaller
      <3> QED
        BY Zenon, <3>1, <3>3 DEF OldestRecycleXid
    <2> HIDE DEF x
    <2>8. ASSUME NEW l \in Logs, l = k PROVE Visited(l)'
      <3>1. SettledBelow(l, dw.oldestFrozenXidInUndo)' /\ dw'.isAnyLogUsed
        BY Zenon, <2>2, <2>6, <2>8, <1>s DEF SettledBelow, Still, Settled, DidCommit
      <3>2. RecycleBounded(l)'
        BY Zenon, <2>2, <2>7, <2>8, <1>s DEF RecycleBounded, Still, Settled, DidCommit
      <3> QED
        BY Zenon, <3>1, <3>2 DEF Visited
    <2>9. \A l \in Logs : l < dw'.idx => Visited(l)'
      <3>1. \A l \in Logs : l < k + 1 => l < k \/ l = k
        BY <1>k DEF Logs
      <3>2. \A l \in Logs : l < k => Visited(l)'
        BY Zenon, <1>p, <2>4, AtLog, StillVisited
      <3> QED
        BY Zenon, <3>1, <3>2, <2>2, <2>8
    <2>10. PassInv' /\ AtLogInv'
      BY Zenon, <2>2, <2>9 DEF PassInv, AtLogInv
    <2>11. Pointers'
      BY Zenon, <2>1, <1>s, StillPointers
    <2> QED
      BY Zenon, <2>5, <2>10, <2>11
  <1> QED
    BY Zenon, <1>3, <1>4

\* The recycle pointer moves over settled slots only.
LEMMA ReleaseStep ==
    ASSUME IndInv, recycle_release
    PROVE  Pointers' /\ HorizonInv' /\ PassInv' /\ AtLogInv'
  <1>t. SlotType /\ dw \in DiscardLocals /\ PointerInv /\ RecycledSettled
    BY Zenon DEF IndInv, TypeOK
  <1>s. Still /\ UNCHANGED <<globalVars, frozen_slot, recycle_xid>>
    BY Zenon, DiscardStill DEF Discard, recycle_release
  <1>g. Globals'
    BY <1>s, StillGlobals
  <1>1. /\ dw.pc = "release" /\ dw' = [dw EXCEPT !.pc = "recycle", !.recycle = 0]
        /\ recycle_slot' = [recycle_slot EXCEPT ![dw.idx] = dw.recycle]
    BY Zenon DEF recycle_release
  <1>2. /\ dw'.pc = "recycle" /\ dw'.frozenXid = dw.frozenXid /\ dw'.idx = dw.idx
        /\ dw'.allocate = dw.allocate /\ dw'.oldestXmin = dw.oldestXmin
        /\ dw'.oldestFrozenXidInUndo = dw.oldestFrozenXidInUndo
        /\ dw'.isAnyLogUsed = dw.isAnyLogUsed /\ dw'.recycleXids = dw.recycleXids
        /\ dw'.lastForceAdvanceXid = dw.lastForceAdvanceXid
    BY Zenon, <1>1, <1>t DEF DiscardLocals
  <1>3. SamePass
    BY <1>2, <1>s, HorizonsOver DEF SamePass
  <1>4. HorizonInv'
    <2>1. dw.frozenXid <= dw.oldestXmin
      BY Zenon DEF IndInv, HorizonInv
    <2> QED
      BY Zenon, <2>1, <1>2, <1>3, <1>g, HorizonsOver, StillHorizons
  <1>5. PassInv'
    <2>1. \A l \in Logs : l < dw'.idx => Visited(l)'
      BY Zenon, <1>1, <1>2, <1>3, AtLog, StillVisited
    <2> QED
      BY Zenon, <1>2, <2>1 DEF PassInv
  <1>6. AtLogInv'
    <2>1. SettledBelow(dw.idx, dw.frozenXid)'
      BY <1>1, <1>2, <1>s, AtLog DEF SettledBelow, Still, Settled, DidCommit
    <2>2. dw'.idx < NLogs /\ dw'.allocate <= Len(slots'[dw'.idx])
      BY Zenon, <1>1, <1>2, <1>s, AtLog DEF Still
    <2> QED
      BY Zenon, <2>1, <2>2, <1>2 DEF AtLogInv
  <1>7. \A l \in Logs : \A i \in 1 .. recycle_slot'[l] : Settled(slots[l][i])
    <2> SUFFICES ASSUME NEW l \in Logs, NEW i \in 1 .. recycle_slot'[l]
                 PROVE  Settled(slots[l][i])
      BY Zenon
    <2>1. recycle_slot'[l] = recycle_slot[l] \/ (l = dw.idx /\ recycle_slot'[l] = dw.recycle)
      BY Zenon, <1>1, <1>t DEF SlotType
    <2>2. \A j \in 1 .. dw.recycle : Settled(slots[dw.idx][j])
      BY Zenon, <1>1 DEF IndInv, AtLogInv
    <2> QED
      BY Zenon, <2>1, <2>2, <1>t DEF RecycledSettled
  <1>8. Pointers'
    BY <1>7, <1>s, <1>t DEF Pointers, PointerInv, RecycledSettled, Still, SettledBelow, Settled,
                            DidCommit
  <1> QED
    BY Zenon, <1>4, <1>5, <1>6, <1>8

\* global_frozen_xid moves to a value every log has been found settled below.
LEMMA PublishFrozenStep ==
    ASSUME IndInv, discard_publish_frozen
    PROVE  Globals' /\ HorizonInv' /\ PassInv' /\ AtLogInv'
  <1>t. SlotType /\ dw \in DiscardLocals /\ PassInv /\ HorizonInv /\ FrozenSettled
        /\ GlobalRecycleBound
    BY Zenon DEF IndInv, TypeOK
  <1>s. Still /\ global_recycle_xid' = global_recycle_xid
    BY Zenon, DiscardStill DEF Discard, discard_publish_frozen
  <1> DEFINE f == ForceAdvanceXid
  <1>1. dw.pc = "publish" \/ (dw.pc = "logs" /\ dw.idx = NLogs)
    BY Zenon DEF discard_publish_frozen
  <1>2. \A l \in Logs : /\ ~dw.isAnyLogUsed => SettledBelow(l, f)
                        /\ dw.isAnyLogUsed => SettledBelow(l, dw.oldestFrozenXidInUndo)
                        /\ dw.recycleXids # {} => RecycleBounded(l)
    <2>1. CASE dw.pc = "publish"
      BY Zenon, <2>1, <1>t DEF PassInv
    <2>2. CASE dw.pc = "logs" /\ dw.idx = NLogs
      <3>1. \A l \in Logs : l < dw.idx
        BY <2>2, ConstantsAssumption DEF Logs, ConstantsAssumption
      <3>2. \A l \in Logs : Visited(l)
        BY Zenon, <2>2, <3>1, <1>t DEF PassInv, InLogs
      <3> QED
        BY Zenon, <3>2 DEF Visited
    <2> QED
      BY Zenon, <1>1, <2>1, <2>2
  <1>3. \/ dw.isAnyLogUsed /\ global_frozen_xid' = dw.oldestFrozenXidInUndo
        \/ ~dw.isAnyLogUsed /\ global_frozen_xid' = Larger(global_frozen_xid, f)
        \/ global_frozen_xid' = global_frozen_xid
    BY Zenon DEF discard_publish_frozen, ForceAdvanceXid
  <1>4. /\ global_frozen_xid' \in Nat /\ AllOver(global_frozen_xid')
        /\ \A l \in Logs : SettledBelow(l, global_frozen_xid')
    <2>1. \A l \in Logs : SettledBelow(l, global_frozen_xid)
      BY Zenon, <1>t DEF FrozenSettled, SettledBelow
    <2> QED
      BY Zenon, <2>1, <1>2, <1>3, HorizonsOver DEF Larger
  <1>5. Globals'
    BY Zenon, <1>4, <1>s, <1>t DEF Globals, FrozenSettled, GlobalRecycleBound, HorizonInv, AllOver,
                            SettledBelow, Still, InProgress, Settled, DidCommit
  <1>6. PICK x \in {dw.lastForceAdvanceXid, InvalidXid, f} :
            \/ dw' = DiscardStart(dw.lastHaving, x, dw.force, dw.restarts)
            \/ dw' = [dw EXCEPT !.pc = "having", !.lastForceAdvanceXid = x]
    BY ZenonT(30) DEF discard_publish_frozen, ForceAdvanceXid
  <1>7. x \in Nat /\ AllOver(x)
    <2>1. AllOver(InvalidXid)
      BY HorizonsOver DEF AllOver, Xids
    <2> QED
      BY <2>1, <1>6, HorizonsOver
  <1>8. CASE dw' = DiscardStart(dw.lastHaving, x, dw.force, dw.restarts)
    BY Zenon, <1>5, <1>7, <1>8, <1>s, AtStart
  <1>9. CASE dw' = [dw EXCEPT !.pc = "having", !.lastForceAdvanceXid = x]
    <2>1. /\ dw'.pc = "having" /\ dw'.frozenXid = dw.frozenXid
          /\ dw'.oldestXmin = dw.oldestXmin /\ dw'.recycleXids = dw.recycleXids
          /\ dw'.oldestFrozenXidInUndo = dw.oldestFrozenXidInUndo
          /\ dw'.lastForceAdvanceXid = x
      BY Zenon, <1>9, <1>t DEF DiscardLocals
    <2>2. HorizonInv'
      BY Zenon, <2>1, <1>5, <1>7, <1>s, <1>t DEF HorizonInv, Globals, AllOver, Still, InProgress
    <2>3. PassInv'
      <3>1. dw.recycleXids # {} => \A l \in Logs : RecycleBounded(l)'
        BY Zenon, <2>1, <1>2, <1>s DEF RecycleBounded, Still, Settled, DidCommit
      <3> QED
        BY Zenon, <2>1, <3>1 DEF PassInv, InLogs
    <2> QED
      BY Zenon, <2>1, <2>2, <2>3, <1>5 DEF AtLogInv
  <1> QED
    BY Zenon, <1>5, <1>6, <1>8, <1>9

\* Another pass of a forced loop starts afresh under the same horizon.
LEMMA RetryStep ==
    ASSUME IndInv, discard_retry
    PROVE  HorizonInv' /\ PassInv' /\ AtLogInv'
  <1>t. dw \in DiscardLocals /\ HorizonInv
    BY Zenon DEF IndInv, TypeOK
  <1>s. Still /\ UNCHANGED globalVars
    BY ZenonT(30), DiscardStill DEF Discard, discard_retry
  <1>g. Globals'
    BY Zenon, <1>s, StillGlobals
  <1>1. \E x, g : dw' = [dw EXCEPT !.pc = "logs", !.idx = 0, !.retry = dw.retry + 1,
                                   !.forceRecycleXid = g, !.isAnyLogUsed = FALSE,
                                   !.recycleXids = {}, !.having = x]
    BY ZenonT(30) DEF discard_retry
  <1>2. /\ dw'.pc = "logs" /\ dw'.frozenXid = dw.frozenXid /\ dw'.idx = 0
        /\ dw'.oldestXmin = dw.oldestXmin
        /\ dw'.oldestFrozenXidInUndo = dw.oldestFrozenXidInUndo
        /\ dw'.lastForceAdvanceXid = dw.lastForceAdvanceXid
    BY <1>1, <1>t DEF DiscardLocals
  <1>3. HorizonInv'
    BY Zenon, <1>2, <1>g, <1>s, <1>t DEF HorizonInv, Globals, AllOver, Still, InProgress
  <1>4. PassInv'
    <2>1. \A l \in Logs : ~(l < dw'.idx)
      BY <1>2 DEF Logs
    <2> QED
      BY Zenon, <1>2, <2>1 DEF PassInv
  <1> QED
    BY Zenon, <1>2, <1>3, <1>4 DEF AtLogInv

\* global_recycle_xid moves no further than the oldest slot some log holds back.
LEMMA PublishRecycleStep ==
    ASSUME IndInv, discard_publish_recycle
    PROVE  Globals' /\ HorizonInv' /\ PassInv' /\ AtLogInv'
  <1>t. SlotType /\ dw \in DiscardLocals /\ PassInv /\ HorizonInv /\ FrozenSettled
        /\ GlobalRecycleBound
    BY Zenon DEF IndInv, TypeOK
  <1>s. Still /\ global_frozen_xid' = global_frozen_xid /\ dw.pc = "having"
    BY ZenonT(30), DiscardStill DEF Discard, discard_publish_recycle
  <1>1. PICK xid \in dw.recycleXids \cup {dw.having, InvalidXid},
             force \in {dw.force, FALSE} :
            /\ HavingUndo(xid)
            /\ \/ global_recycle_xid' = global_recycle_xid
               \/ /\ xid # InvalidXid
                  /\ global_recycle_xid' =
                         Larger(global_recycle_xid, Smaller(xid, dw.oldestXmin))
            /\ \E last \in {xid, dw.lastHaving} :
                   dw' = DiscardStart(last, dw.lastForceAdvanceXid, force, dw.restarts)
    BY ZenonT(30) DEF discard_publish_recycle
  <1>n. xid \in Nat /\ dw.recycleXids \subseteq Nat
    BY <1>t, LocalsAt DEF XidOrNone, Horizon
  <1>x. \A l \in Logs : \A i \in 1 .. Len(slots[l]) : slots[l][i].xid \in Nat
    BY <1>t, SlotAt DEF Xids
  <1>2. ASSUME xid # InvalidXid, NEW l \in Logs, NEW i \in 1 .. Len(slots[l]),
               ~Settled(slots[l][i])
        PROVE  slots[l][i].xid >= Smaller(xid, dw.oldestXmin)
    <2>1. dw.recycleXids # {} /\ \A x \in dw.recycleXids : xid <= x
      BY <1>1, <1>2 DEF HavingUndo, IsLeast
    <2>2. RecycleBounded(l)
      BY Zenon, <2>1, <1>s, <1>t DEF PassInv
    <2>3. slots[l][i].xid >= dw.oldestXmin \/ \E x \in dw.recycleXids : x <= slots[l][i].xid
      BY Zenon, <2>2, <1>2 DEF RecycleBounded
    <2>4. slots[l][i].xid \in Nat /\ dw.oldestXmin \in Nat
      BY Zenon, <1>x, HorizonsOver
    <2>5. CASE slots[l][i].xid >= dw.oldestXmin
      BY <2>4, <2>5, <1>n DEF Smaller
    <2>6. CASE \E x \in dw.recycleXids : x <= slots[l][i].xid
      <3> PICK x \in dw.recycleXids : x <= slots[l][i].xid
        BY Zenon, <2>6
      <3>1. xid <= x /\ x \in Nat
        BY Zenon, <2>1, <1>n
      <3> QED
        BY SMTT(20), <3>1, <2>4, <1>n DEF Smaller
    <2> QED
      BY <2>3, <2>5, <2>6
  <1>3. xid # InvalidXid => /\ Smaller(xid, dw.oldestXmin) \in Nat
                            /\ AllOver(Smaller(xid, dw.oldestXmin))
    BY <1>n, HorizonsOver DEF Smaller, AllOver, Xids
  <1>4. /\ AllOver(global_recycle_xid')
        /\ \A l \in Logs : \A i \in 1 .. Len(slots[l]) :
               ~Settled(slots[l][i]) => slots[l][i].xid >= global_recycle_xid'
    BY Zenon, <1>1, <1>2, <1>3, <1>t, HorizonsOver DEF GlobalRecycleBound, Larger
  <1>5. Globals'
    BY ZenonT(30), <1>4, <1>s, <1>t DEF Globals, FrozenSettled, GlobalRecycleBound, HorizonInv, AllOver,
                            Still, InProgress, Settled, DidCommit
  <1>6. HorizonInv' /\ PassInv' /\ AtLogInv'
    BY ZenonT(30), <1>1, <1>5, <1>s, HorizonsOver, AtStart
  <1> QED
    BY Zenon, <1>5, <1>6

\* A restarted discard worker knows nothing.
LEMMA RestartStep ==
    ASSUME IndInv, discard_restart
    PROVE  HorizonInv' /\ PassInv' /\ AtLogInv'
  <1>s. Still /\ UNCHANGED globalVars
    BY Zenon, DiscardStill DEF discard_restart
  <1>1. dw' = DiscardStart(InvalidXid, InvalidXid, FALSE, dw.restarts + 1)
    BY Zenon DEF discard_restart
  <1>2. AllOver(InvalidXid)
    BY HorizonsOver DEF AllOver, Xids
  <1> QED
    BY ZenonT(30), <1>1, <1>2, <1>s, StillGlobals, AtStart
=============================================================================
