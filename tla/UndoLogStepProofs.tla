-------------------------- MODULE UndoLogStepProofs -------------------------
(***************************************************************************)
(* What a step does: the facts about slots, writers, transactions and the  *)
(* discard worker that the other proofs of UndoLog rest on.                *)
(*                                                                         *)
(* The backbone is Grow: in every step slots keep their xid, settled slots *)
(* stay settled, and a new slot belongs to a running transaction.          *)
(***************************************************************************)
EXTENDS UndoLogInv, FiniteSetTheorems, TLAPS

USE DEF InvalidXid, FirstNormalXid, NoLog

\* Replacing one slot of a log keeps the log a sequence of the same length.
LEMMA SlotExcept ==
    ASSUME NEW s \in Seq(Slot), NEW i \in 1 .. Len(s), NEW e \in Slot
    PROVE  /\ [s EXCEPT ![i] = e] \in Seq(Slot)
           /\ Len([s EXCEPT ![i] = e]) = Len(s)
           /\ [s EXCEPT ![i] = e][i] = e
           /\ \A j \in 1 .. Len(s) : j # i => [s EXCEPT ![i] = e][j] = s[j]
  OBVIOUS

\* Allocating a slot adds it at the end of the log and changes no other.
LEMMA SlotAppend ==
    ASSUME NEW s \in Seq(Slot), NEW e \in Slot
    PROVE  /\ Append(s, e) \in Seq(Slot)
           /\ Len(Append(s, e)) = Len(s) + 1
           /\ Append(s, e)[Len(s) + 1] = e
           /\ \A j \in 1 .. Len(s) : Append(s, e)[j] = s[j]
  OBVIOUS

\* What the type invariant says of one slot.
LEMMA SlotAt ==
    ASSUME SlotType, NEW l \in Logs
    PROVE  /\ slots[l] \in Seq(Slot) /\ Len(slots[l]) \in Nat
           /\ \A i \in 1 .. Len(slots[l]) :
                  /\ slots[l][i] \in Slot /\ slots[l][i].xid \in Xids
                  /\ slots[l][i].start \in 0 .. LogSize /\ slots[l][i].end \in 0 .. LogSize + 1
  <1>1. slots[l] \in Seq(Slot) /\ Len(slots[l]) \in Nat
    BY DEF SlotType
  <1>2. \A i \in 1 .. Len(slots[l]) : slots[l][i] \in Slot
    BY <1>1
  <1> QED
    BY Zenon, <1>1, <1>2 DEF Slot

\* What it says of the discard worker's locals.
LEMMA LocalsAt ==
    ASSUME dw \in DiscardLocals
    PROVE  /\ dw.oldestXmin \in Horizon /\ dw.frozenXid \in Horizon
           /\ dw.oldestFrozenXidInUndo \in Horizon /\ dw.recycleXids \subseteq Horizon
           /\ dw.having \in XidOrNone /\ dw.lastHaving \in XidOrNone
           /\ dw.lastForceAdvanceXid \in XidOrNone
           /\ dw.idx \in 0 .. NLogs /\ dw.retry \in Nat /\ dw.forceRecycleXid \in Nat
           /\ dw.allocate \in Nat /\ dw.pending \in Nat /\ dw.recycle \in Nat
           /\ dw.force \in BOOLEAN /\ dw.isAnyLogUsed \in BOOLEAN /\ dw.restarts \in Nat
  BY Zenon DEF DiscardLocals

\* The log the discard worker is at.
LEMMA IdxAt ==
    ASSUME dw \in DiscardLocals, dw.idx < NLogs
    PROVE  dw.idx \in Logs
  <1>1. dw.idx \in 0 .. NLogs
    BY LocalsAt
  <1> QED
    BY <1>1, ConstantsAssumption DEF Logs, ConstantsAssumption

\* A backend inside a transaction is attached to a log.
LEMMA WriterAt ==
    ASSUME XactType, CtxType, CtxInv, XactInv, NEW b \in Backends, xact[b] # InvalidXid
    PROVE  logs[b] \in Logs /\ xact[b] \in Xids /\ InProgress(xact[b])
  BY Zenon DEF XactType, CtxType, CtxInv, AttachInv, XactInv

\* A backend that holds the lock of its log has its slot at the end of it.
LEMMA MetaAt ==
    ASSUME XactType, CtxType, SlotType, CtxInv, XactInv, NEW b \in Backends, phase[b] = "meta"
    PROVE  /\ logs[b] \in Logs /\ xact[b] \in Xids /\ InProgress(xact[b])
           /\ Len(slots[logs[b]]) \in 1 .. Len(slots[logs[b]])
           /\ slots[logs[b]][Len(slots[logs[b]])].xid = xact[b]
  <1>1. xact[b] # InvalidXid /\ prev_xid[b] = xact[b]
    BY Zenon DEF CtxInv, WriterInv
  <1>2. logs[b] \in Logs /\ xact[b] \in Xids /\ InProgress(xact[b])
    BY Zenon, <1>1, WriterAt
  <1>3. Len(slots[logs[b]]) > 0 /\ slots[logs[b]][Len(slots[logs[b]])].xid = xact[b]
    BY Zenon, <1>1 DEF CtxInv, WriterInv
  <1> QED
    BY <1>2, <1>3, SlotAt

\* The locals at the head of the discard worker's loop have their types.
LEMMA StartType ==
    ASSUME NEW having \in XidOrNone, NEW f \in XidOrNone, NEW force \in BOOLEAN,
           NEW restarts \in Nat
    PROVE  DiscardStart(having, f, force, restarts) \in DiscardLocals
  <1>1. 0 \in 0 .. NLogs /\ 0 \in Nat /\ 1 \in Nat /\ FirstNormalXid \in Horizon
    BY ConstantsAssumption DEF ConstantsAssumption, Horizon
  <1>2. InvalidXid \in XidOrNone /\ {} \in SUBSET Horizon
    BY Zenon DEF XidOrNone
  <1> QED
    BY ZenonT(30), <1>1, <1>2 DEF DiscardStart, DiscardLocals

\* The counter is positive while a log is in use.
LEMMA UsedPositive ==
    ASSUME UsedInv, NEW l \in Logs, insert_offset[l] # 1, l \notin frozen
    PROVE  undo_log_used_cout >= 1
  BY Zenon DEF UsedInv, UsedLogs

-----------------------------------------------------------------------------
(* Which actions touch which variables                                     *)

\* Only a transaction's begin and end change the proc array and commit log.
LEMMA XactCases ==
    [Next]_vars =>
        \/ UNCHANGED <<nextXid, status, xact>>
        \/ \E b \in Backends : AssignTransactionId(b)
        \/ \E b \in Backends, o \in {"committed", "aborted"} : EndTransaction(b, o)
  BY ZenonT(30) DEF Next, Backend, Write, Discard, vars, xactVars, alloc_undo_log, GetSnapshotData,
         ReleaseSnapshot, StandbyFeedback, cleanup_undo_log, undolog_switch,
         update_undolog_meta, release_undolog_meta, checkpoint_undo_logs, discard_loop,
         discard_skip_log, advance_frozen_xid, request_async_rollback, recycle_undo_space,
         recycle_release, discard_publish_frozen, discard_retry, discard_publish_recycle,
         discard_restart, execute_undo_actions

\* Only writers and rollbacks change slots and insert pointers.
LEMMA SlotCases ==
    [Next]_vars =>
        \/ UNCHANGED <<slots, insert_offset>>
        \/ \E b \in Backends : Write(b)
        \/ \E r \in requests : execute_undo_actions(r[1], r[2])
  BY ZenonT(30) DEF Next, Backend, Discard, vars, ulogVars, alloc_undo_log, AssignTransactionId,
         EndTransaction, cleanup_undo_log,
         GetSnapshotData, ReleaseSnapshot, StandbyFeedback, checkpoint_undo_logs, discard_loop,
         discard_skip_log, advance_frozen_xid, request_async_rollback, recycle_undo_space,
         recycle_release, discard_publish_frozen, discard_retry, discard_publish_recycle,
         discard_restart, execute_undo_actions

\* Only the discard worker changes the recycle and frozen pointers, the
\* horizons and its own locals.
LEMMA DiscardCases ==
    [Next]_vars =>
        \/ UNCHANGED <<recycle_slot, frozen_slot, recycle_xid, globalVars, dw>>
        \/ Discard
        \/ discard_restart
  BY ZenonT(30) DEF Next, Backend, Write, vars, ulogVars, globalVars, alloc_undo_log,
         AssignTransactionId, EndTransaction, cleanup_undo_log, undolog_switch,
         update_undolog_meta, release_undolog_meta,
         GetSnapshotData, ReleaseSnapshot, StandbyFeedback, checkpoint_undo_logs,
         execute_undo_actions

\* Which actions may disturb what a writer remembers.
LEMMA WriterCases ==
    [Next]_vars =>
        \/ \E b \in Backends : alloc_undo_log(b) \/ cleanup_undo_log(b) \/ AssignTransactionId(b)
        \/ \E b \in Backends, o \in {"committed", "aborted"} : EndTransaction(b, o)
        \/ \E b \in Backends, size \in RecordSizes : undolog_switch(b, size)
        \/ \E b \in Backends, size \in RecordSizes : update_undolog_meta(b, size)
        \/ \E b \in Backends : release_undolog_meta(b)
        \/ \E r \in requests : execute_undo_actions(r[1], r[2])
        \/ UNCHANGED <<nextXid, status, xact, ctxVars, insert_offset, slots>>
  BY ZenonT(30) DEF Next, Backend, Write, Discard, vars, xactVars, ctxVars, ulogVars,
         GetSnapshotData, ReleaseSnapshot, StandbyFeedback, checkpoint_undo_logs, discard_loop,
         discard_skip_log, advance_frozen_xid, request_async_rollback, recycle_undo_space,
         recycle_release, discard_publish_frozen, discard_retry, discard_publish_recycle,
         discard_restart

\* Which actions change what UsedInv speaks of.
LEMMA UsedCases ==
    [Next]_vars =>
        \/ UNCHANGED <<insert_offset, frozen, undo_log_used_cout, recycle_slot>>
        \/ \E b \in Backends, size \in RecordSizes : undolog_switch(b, size)
        \/ \E b \in Backends, size \in RecordSizes : update_undolog_meta(b, size)
        \/ \E l \in Logs : checkpoint_undo_logs(l)
        \/ recycle_release
  BY ZenonT(30) DEF Next, Backend, Write, Discard, vars, ulogVars, alloc_undo_log, AssignTransactionId,
         EndTransaction, cleanup_undo_log, release_undolog_meta,
         GetSnapshotData, ReleaseSnapshot, StandbyFeedback, discard_loop,
         discard_skip_log, advance_frozen_xid, request_async_rollback, recycle_undo_space,
         discard_publish_frozen, discard_retry, discard_publish_recycle,
         discard_restart, execute_undo_actions

\* The discard worker leaves transactions and slots alone.
LEMMA DiscardFrame ==
    Discard \/ discard_restart => UNCHANGED <<xactVars, ctxVars, insert_offset, slots, frozen,
                                              undo_log_used_cout>>
  BY ZenonT(30) DEF Discard, ulogVars, discard_loop,
         discard_skip_log, advance_frozen_xid, request_async_rollback, recycle_undo_space,
         recycle_release, discard_publish_frozen, discard_retry, discard_publish_recycle,
         discard_restart

Still == UNCHANGED <<nextXid, status, slots, frozen>>

\* The discard worker changes no transaction and no slot.
LEMMA DiscardStill == Discard \/ discard_restart => Still
  BY Zenon, DiscardFrame DEF Still, xactVars

-----------------------------------------------------------------------------
(* Transactions                                                            *)

\* The proc array and the commit log still agree after a step: an xid is
\* handed out once, and runs in one backend until its outcome is known.
LEMMA XactStep == IndInv /\ [Next]_vars => XactInv'
  <1> SUFFICES ASSUME IndInv, [Next]_vars PROVE XactInv'
    BY Zenon
  <1>t. XactType /\ XactInv
    BY Zenon DEF IndInv, TypeOK
  <1>1. CASE UNCHANGED <<nextXid, status, xact>>
    BY Zenon, <1>1, <1>t DEF XactInv, InProgress
  <1>2. ASSUME NEW b \in Backends, AssignTransactionId(b) PROVE XactInv'
    <2>1. /\ xact[b] = InvalidXid /\ nextXid \in Xids
          /\ xact' = [xact EXCEPT ![b] = nextXid]
          /\ status' = [status EXCEPT ![nextXid] = "in_progress"]
          /\ nextXid' = nextXid + 1
      BY <1>2, <1>t DEF AssignTransactionId, XactType, Horizon, Xids
    <2>2. \A c \in Backends : xact[c] # nextXid
      BY <2>1, <1>t DEF XactInv, InProgress, Xids
    <2>3. \A c \in Backends : xact'[c] # InvalidXid => InProgress(xact[c])'
      BY <2>1, <2>2, <1>t DEF XactInv, XactType, InProgress
    <2>4. \A c, d \in Backends : xact'[c] = xact'[d] /\ xact'[c] # InvalidXid => c = d
      BY <2>1, <2>2, <1>t DEF XactInv, XactType
    <2>5. \A x \in Xids : InProgress(x)' => \E c \in Backends : xact'[c] = x
      <3> SUFFICES ASSUME NEW x \in Xids, status'[x] = "in_progress"
                   PROVE  \E c \in Backends : xact'[c] = x
        BY Zenon DEF InProgress
      <3>1. CASE x = nextXid
        BY <2>1, <3>1, <1>t DEF XactType
      <3>2. CASE x # nextXid
        <4>1. InProgress(x)
          BY Zenon, <2>1, <3>2, <1>t DEF XactType, InProgress
        <4>2. PICK c \in Backends : xact[c] = x
          BY Zenon, <4>1, <1>t DEF XactInv
        <4>3. c # b
          BY <4>2, <2>1 DEF Xids
        <4> QED
          BY Zenon, <4>2, <4>3, <2>1, <1>t DEF XactType
      <3> QED
        BY Zenon, <3>1, <3>2
    <2>6. \A x \in Xids : status'[x] = "unassigned" <=> x >= nextXid'
      BY <2>1, <1>t DEF XactInv, XactType, Xids, Horizon
    <2> QED
      BY Zenon, <2>3, <2>4, <2>5, <2>6 DEF XactInv
  <1>3. ASSUME NEW b \in Backends, NEW o \in {"committed", "aborted"}, EndTransaction(b, o)
        PROVE  XactInv'
    <2>1. /\ xact[b] \in Xids /\ InProgress(xact[b])
          /\ xact' = [xact EXCEPT ![b] = InvalidXid]
          /\ status' = [status EXCEPT ![xact[b]] = o]
          /\ nextXid' = nextXid
      BY Zenon, <1>3, <1>t DEF EndTransaction, XactType, XactInv
    <2>2. \A c \in Backends : c # b => xact[c] # xact[b]
      BY <2>1, <1>t DEF XactInv, Xids
    <2>3. \A c \in Backends : xact'[c] # InvalidXid => InProgress(xact[c])'
      BY <2>1, <2>2, <1>t DEF XactInv, XactType, InProgress
    <2>4. \A c, d \in Backends : xact'[c] = xact'[d] /\ xact'[c] # InvalidXid => c = d
      BY <2>1, <1>t DEF XactInv, XactType
    <2>5. \A x \in Xids : InProgress(x)' => \E c \in Backends : xact'[c] = x
      BY <2>1, <2>2, <1>t DEF XactInv, XactType, InProgress
    <2>6. \A x \in Xids : status'[x] = "unassigned" <=> x >= nextXid'
      BY <2>1, <1>t DEF XactInv, XactType, InProgress
    <2> QED
      BY Zenon, <2>3, <2>4, <2>5, <2>6 DEF XactInv
  <1> QED
    BY Zenon, <1>1, <1>2, <1>3, XactCases

\* In the next state, every xid below h has been handed out and is over.
AllOverNext(h) == h <= nextXid' /\ \A x \in Xids : x < h => status'[x] # "in_progress"

\* A horizon with only finished transactions below it stays one: new xids are
\* above it.  Committed transactions stay committed.
LEMMA OverStep ==
    ASSUME IndInv, [Next]_vars
    PROVE  /\ \A h \in Nat : AllOver(h) => AllOverNext(h)
           /\ \A x \in Xids : DidCommit(x) => status'[x] = "committed"
  <1>t. XactType /\ XactInv
    BY Zenon DEF IndInv, TypeOK
  <1>1. CASE UNCHANGED <<nextXid, status, xact>>
    BY Zenon, <1>1 DEF AllOver, AllOverNext, InProgress, DidCommit
  <1>2. CASE \E b \in Backends : AssignTransactionId(b)
    <2>1. /\ nextXid \in Xids /\ nextXid' = nextXid + 1 /\ status[nextXid] = "unassigned"
          /\ status' = [status EXCEPT ![nextXid] = "in_progress"]
      BY <1>2, <1>t DEF AssignTransactionId, XactType, XactInv, Horizon, Xids
    <2> QED
      BY <2>1, <1>t DEF AllOver, AllOverNext, XactType, InProgress, DidCommit, Xids
  <1>3. CASE \E b \in Backends, o \in {"committed", "aborted"} : EndTransaction(b, o)
    <2>1. PICK x \in Xids, o \in {"committed", "aborted"} :
              InProgress(x) /\ status' = [status EXCEPT ![x] = o] /\ nextXid' = nextXid
      BY ZenonT(30), <1>3, <1>t DEF EndTransaction, XactType, XactInv
    <2> QED
      BY Zenon, <2>1, <1>t DEF AllOver, AllOverNext, XactType, InProgress, DidCommit
  <1> QED
    BY Zenon, <1>1, <1>2, <1>3, XactCases

-----------------------------------------------------------------------------
(* Slots                                                                   *)

\* A new slot at the end of the writer's log, for a running transaction.
NewSlotIn(b) ==
    /\ logs[b] \in Logs /\ xact[b] \in Xids /\ InProgress(xact[b])
    /\ xact[b] # prev_xid[b] \/ phase[b] = "switched"
    /\ slots' = [slots EXCEPT ![logs[b]] = Append(slots[logs[b]], NewSlot(xact[b]))]
    /\ UNCHANGED xactVars

\* Slot i of log l is rewritten and keeps its xid and a finished rollback.
SlotRewritten(l, i, s) ==
    /\ s.xid = slots[l][i].xid
    /\ slots[l][i].info = "ROLLBACK" => s.info = "ROLLBACK"
    /\ slots' = [slots EXCEPT ![l] = [slots[l] EXCEPT ![i] = s]]
    /\ UNCHANGED xactVars

\* The three things a step can do to slots.
LEMMA SlotChange ==
    ASSUME IndInv, [Next]_vars
    PROVE  \/ slots' = slots
           \/ \E b \in Backends : NewSlotIn(b)
           \/ \E l \in Logs : \E i \in 1 .. Len(slots[l]), s \in Slot : SlotRewritten(l, i, s)
  <1>t. XactType /\ CtxType /\ UlogType /\ SlotType /\ CtxInv /\ XactInv
    BY Zenon DEF IndInv, TypeOK
  <1>1. ASSUME NEW b \in Backends, NEW size \in RecordSizes, update_undolog_meta(b, size)
        PROVE  slots' = slots \/ NewSlotIn(b)
    <2>1. logs[b] \in Logs /\ xact[b] \in Xids /\ InProgress(xact[b])
      BY Zenon, <1>1, <1>t, WriterAt DEF update_undolog_meta
    <2> QED
      BY Zenon, <1>1, <2>1 DEF update_undolog_meta, NewSlotIn
  <1>2. ASSUME NEW b \in Backends, release_undolog_meta(b)
        PROVE  \E l \in Logs : \E i \in 1 .. Len(slots[l]), s \in Slot : SlotRewritten(l, i, s)
    <2> DEFINE l == logs[b]
               i == Len(slots[l])
               s == update_undo_slot(slots[l][i], urecptr[b], insert_offset[l])
    <2>1. l \in Logs /\ i \in 1 .. Len(slots[l])
      BY Zenon, <1>2, <1>t, MetaAt DEF release_undolog_meta
    <2>2. slots[l][i] \in Slot
      BY Zenon, <2>1, <1>t, SlotAt
    <2>3. urecptr[b] \in 0 .. LogSize /\ insert_offset[l] \in 0 .. LogSize + 1
      BY <2>1, <1>t DEF CtxType, UlogType
    <2>4. s \in Slot /\ s.xid = slots[l][i].xid /\ s.info = slots[l][i].info
      BY ZenonT(30), <2>2, <2>3 DEF update_undo_slot, Slot
    <2>5. slots' = [slots EXCEPT ![l] = [slots[l] EXCEPT ![i] = s]] /\ UNCHANGED xactVars
      BY Zenon, <1>2 DEF release_undolog_meta
    <2>6. SlotRewritten(l, i, s)
      BY Zenon, <2>4, <2>5 DEF SlotRewritten
    <2> QED
      BY Zenon, <2>1, <2>4, <2>6
  <1>3. ASSUME NEW r \in requests, execute_undo_actions(r[1], r[2])
        PROVE  \/ slots' = slots
               \/ \E l \in Logs : \E i \in 1 .. Len(slots[l]), s \in Slot : SlotRewritten(l, i, s)
    <2> DEFINE l == r[1]
               i == r[2]
               s == [slots[l][i] EXCEPT !.info = "ROLLBACK"]
    <2>1. l \in Logs /\ i \in 1 .. Len(slots[l])
      BY Zenon, <1>t DEF SlotType
    <2>2. slots[l][i] \in Slot
      BY Zenon, <2>1, <1>t, SlotAt
    <2>3. s \in Slot /\ s.xid = slots[l][i].xid /\ s.info = "ROLLBACK"
      BY <2>2 DEF Slot
    <2>4. slots' = slots \/ slots' = [slots EXCEPT ![l] = [slots[l] EXCEPT ![i] = s]]
      BY Zenon, <1>3 DEF execute_undo_actions
    <2>5. slots' = slots \/ SlotRewritten(l, i, s)
      BY Zenon, <1>3, <2>3, <2>4 DEF execute_undo_actions, SlotRewritten
    <2> QED
      BY Zenon, <2>1, <2>3, <2>5
  <1>4. ASSUME NEW b \in Backends, NEW size \in RecordSizes, undolog_switch(b, size)
        PROVE  slots' = slots
    BY Zenon, <1>4 DEF undolog_switch
  <1> QED
    BY <1>1, <1>2, <1>3, <1>4, SlotCases DEF Write

\* In the next state, slot i of log l is settled.
SettledNext(l, i) == status'[slots'[l][i].xid] = "committed" \/ slots'[l][i].info = "ROLLBACK"

Grow(l) ==
    /\ Len(slots[l]) \in Nat /\ Len(slots'[l]) \in Nat /\ Len(slots[l]) <= Len(slots'[l])
    /\ \A i \in 1 .. Len(slots[l]) :
           /\ slots'[l][i].xid = slots[l][i].xid
           /\ Settled(slots[l][i]) => SettledNext(l, i)
    /\ \A i \in 1 .. Len(slots'[l]) : i > Len(slots[l]) =>
           slots'[l][i].xid \in Xids /\ status'[slots'[l][i].xid] = "in_progress"
    /\ Len(slots'[l]) # Len(slots[l]) => \E b \in Backends : NewSlotIn(b) /\ logs[b] = l

\* Slots keep their xid, what is settled stays settled, and a slot that
\* appears belongs to a running transaction.
LEMMA GrowStep ==
    ASSUME IndInv, [Next]_vars
    PROVE  \A l \in Logs : Grow(l)
  <1> SUFFICES ASSUME NEW l \in Logs PROVE Grow(l)
    BY Zenon
  <1>t. SlotType
    BY Zenon DEF IndInv, TypeOK
  <1>l. slots[l] \in Seq(Slot) /\ Len(slots[l]) \in Nat
    BY Zenon, <1>t, SlotAt
  <1>x. \A i \in 1 .. Len(slots[l]) : slots[l][i] \in Slot /\ slots[l][i].xid \in Xids
    BY Zenon, <1>t, SlotAt
  <1>c. \A x \in Xids : DidCommit(x) => status'[x] = "committed"
    BY Zenon, OverStep
  <1>1. ASSUME slots'[l] = slots[l] PROVE Grow(l)
    BY SMTT(20), <1>1, <1>l, <1>x, <1>c DEF Grow, Settled, SettledNext
  <1>2. ASSUME NEW b \in Backends, NewSlotIn(b), logs[b] = l PROVE Grow(l)
    <2>1. NewSlot(xact[b]) \in Slot /\ NewSlot(xact[b]).xid = xact[b]
      BY <1>2, ConstantsAssumption DEF NewSlotIn, NewSlot, Slot, ConstantsAssumption
    <2>2. slots'[l] = Append(slots[l], NewSlot(xact[b]))
      BY Zenon, <1>2, <1>t DEF NewSlotIn, SlotType
    <2>3. /\ Len(slots'[l]) = Len(slots[l]) + 1
          /\ slots'[l][Len(slots[l]) + 1] = NewSlot(xact[b])
          /\ \A i \in 1 .. Len(slots[l]) : slots'[l][i] = slots[l][i]
      BY <2>1, <2>2, <1>l, SlotAppend
    <2>4. \A i \in 1 .. Len(slots[l]) : Settled(slots[l][i]) => SettledNext(l, i)
      BY Zenon, <2>3, <1>x, <1>c DEF Settled, SettledNext
    <2>5. status' = status /\ xact[b] \in Xids /\ status[xact[b]] = "in_progress"
      BY Zenon, <1>2 DEF NewSlotIn, xactVars, InProgress
    <2>6. \A i \in 1 .. Len(slots'[l]) : i > Len(slots[l]) => i = Len(slots[l]) + 1
      BY <2>3, <1>l
    <2>7. Len(slots'[l]) \in Nat /\ Len(slots[l]) <= Len(slots'[l])
      BY <2>3, <1>l
    <2> QED
      BY SMTT(20), <1>2, <2>1, <2>3, <2>4, <2>5, <2>6, <2>7, <1>l DEF Grow
  <1>3. ASSUME NEW j \in 1 .. Len(slots[l]), NEW s \in Slot, SlotRewritten(l, j, s)
        PROVE  Grow(l)
    <2>1. slots'[l] = [slots[l] EXCEPT ![j] = s]
      BY Zenon, <1>3, <1>t DEF SlotRewritten, SlotType
    <2>2. /\ Len(slots'[l]) = Len(slots[l]) /\ slots'[l][j] = s
          /\ \A i \in 1 .. Len(slots[l]) : i # j => slots'[l][i] = slots[l][i]
      BY <2>1, <1>l, SlotExcept
    <2>3. s.xid = slots[l][j].xid /\ (slots[l][j].info = "ROLLBACK" => s.info = "ROLLBACK")
      BY Zenon, <1>3 DEF SlotRewritten
    <2>4. \A i \in 1 .. Len(slots[l]) : slots'[l][i].xid = slots[l][i].xid
      BY Zenon, <2>2, <2>3
    <2>5. \A i \in 1 .. Len(slots[l]) : Settled(slots[l][i]) => SettledNext(l, i)
      BY SMTT(20), <2>2, <2>3, <1>x, <1>c DEF Settled, SettledNext
    <2> QED
      BY <2>2, <2>4, <2>5, <1>l DEF Grow
  <1>4. ASSUME NEW b \in Backends, NewSlotIn(b), logs[b] # l PROVE slots'[l] = slots[l]
    BY Zenon, <1>4, <1>t DEF NewSlotIn, SlotType
  <1>5. ASSUME NEW k \in Logs, NEW j \in 1 .. Len(slots[k]), NEW s \in Slot,
               SlotRewritten(k, j, s), k # l
        PROVE  slots'[l] = slots[l]
    BY <1>5, <1>t DEF SlotRewritten, SlotType
  <1> QED
    BY <1>1, <1>2, <1>3, <1>4, <1>5, SlotChange

\* What a new slot does to its log.
LEMMA NewSlotAt ==
    ASSUME SlotType, NEW b \in Backends, NewSlotIn(b)
    PROVE  LET l == logs[b]
           IN  /\ Len(slots'[l]) = Len(slots[l]) + 1
               /\ slots'[l][Len(slots[l]) + 1] = NewSlot(xact[b])
               /\ \A i \in 1 .. Len(slots[l]) : slots'[l][i] = slots[l][i]
               /\ \A k \in Logs : k # l => slots'[k] = slots[k]
  <1> DEFINE l == logs[b]
  <1>1. l \in Logs /\ NewSlot(xact[b]) \in Slot
    BY ConstantsAssumption DEF NewSlotIn, NewSlot, Slot, ConstantsAssumption
  <1>2. slots'[l] = Append(slots[l], NewSlot(xact[b])) /\ slots[l] \in Seq(Slot)
    BY Zenon, <1>1 DEF NewSlotIn, SlotType
  <1>3. \A k \in Logs : k # l => slots'[k] = slots[k]
    BY Zenon, <1>1 DEF NewSlotIn, SlotType
  <1> QED
    BY <1>1, <1>2, <1>3, SlotAppend

\* Slots stay in xid order: a transaction writes one slot per log, and a later
\* writer of the log has a later xid.
LEMMA OrderStep ==
    ASSUME IndInv, [Next]_vars, NEW l \in Logs
    PROVE  /\ \A i \in 1 .. Len(slots'[l]) : slots'[l][i].xid < nextXid'
           /\ \A i, j \in 1 .. Len(slots'[l]) : i < j => slots'[l][i].xid < slots'[l][j].xid
  <1>t. XactType /\ SlotType /\ SlotInv /\ XactInv'
    BY Zenon, XactStep DEF IndInv, TypeOK
  <1>g. Grow(l)
    BY Zenon, GrowStep
  <1>l. /\ Len(slots[l]) \in Nat
        /\ \A i \in 1 .. Len(slots[l]) : slots[l][i].xid \in Xids /\ slots[l][i].xid < nextXid
    BY Zenon, <1>t, SlotAt DEF SlotInv
  <1>n. nextXid \in Nat /\ nextXid' \in Nat /\ nextXid <= nextXid'
    <2>1. nextXid' = nextXid \/ nextXid' = nextXid + 1
      BY Zenon, XactCases DEF AssignTransactionId, EndTransaction
    <2> QED
      BY <2>1, <1>t DEF XactType, Horizon
  <1>1. \A i \in 1 .. Len(slots'[l]) : slots'[l][i].xid < nextXid'
    <2> SUFFICES ASSUME NEW i \in 1 .. Len(slots'[l]) PROVE slots'[l][i].xid < nextXid'
      BY Zenon
    <2>1. CASE i <= Len(slots[l])
      <3>1. i \in 1 .. Len(slots[l])
        BY <2>1, <1>g DEF Grow
      <3>2. slots'[l][i].xid = slots[l][i].xid
        BY Zenon, <3>1, <1>g DEF Grow
      <3> QED
        BY <3>1, <3>2, <1>l, <1>n DEF Xids
    <2>2. CASE i > Len(slots[l])
      <3>1. slots'[l][i].xid \in Xids /\ status'[slots'[l][i].xid] = "in_progress"
        BY Zenon, <2>2, <1>g DEF Grow
      <3> QED
        BY <3>1, <1>t, <1>n DEF XactInv, Xids
    <2> QED
      BY <2>1, <2>2, <1>g DEF Grow
  <1>2. \A i, j \in 1 .. Len(slots'[l]) : i < j => slots'[l][i].xid < slots'[l][j].xid
    <2> SUFFICES ASSUME NEW i \in 1 .. Len(slots'[l]), NEW j \in 1 .. Len(slots'[l]), i < j
                 PROVE  slots'[l][i].xid < slots'[l][j].xid
      BY Zenon
    <2>1. CASE j <= Len(slots[l])
      <3>1. i \in 1 .. Len(slots[l]) /\ j \in 1 .. Len(slots[l])
        BY <2>1, <1>l
      <3>2. slots'[l][i].xid = slots[l][i].xid /\ slots'[l][j].xid = slots[l][j].xid
        BY Zenon, <3>1, <1>g DEF Grow
      <3> QED
        BY Zenon, <3>1, <3>2, <1>t DEF SlotInv
    <2>2. CASE j > Len(slots[l])
      <3>1. PICK b \in Backends : NewSlotIn(b) /\ logs[b] = l
        BY <2>2, <1>l, <1>g DEF Grow
      <3>2. /\ Len(slots'[l]) = Len(slots[l]) + 1
            /\ slots'[l][Len(slots[l]) + 1] = NewSlot(xact[b])
            /\ \A k \in 1 .. Len(slots[l]) : slots'[l][k] = slots[l][k]
        BY ZenonT(30), <3>1, <1>t, NewSlotAt
      <3>3. j = Len(slots[l]) + 1 /\ i \in 1 .. Len(slots[l])
        BY SMTT(20), <3>2, <2>2, <1>l
      <3>4. slots'[l][j].xid = xact[b] /\ slots'[l][i].xid = slots[l][i].xid
        BY SMTT(20), <3>2, <3>3 DEF NewSlot
      <3>5. xact[b] \in Xids /\ (xact[b] # prev_xid[b] \/ phase[b] = "switched")
        BY Zenon, <3>1 DEF NewSlotIn
      <3>6. slots[l][i].xid <= xact[b] /\ slots[l][i].xid # xact[b]
        BY SMTT(20), <3>1, <3>3, <3>5, <1>l DEF IndInv, CtxInv, WriterInv, Xids
      <3> QED
        BY SMTT(20), <3>3, <3>4, <3>5, <3>6, <1>l DEF Xids
    <2> QED
      BY <2>1, <2>2, <1>l, <1>g DEF Grow
  <1> QED
    BY Zenon, <1>1, <1>2

-----------------------------------------------------------------------------
(* The discard worker                                                      *)

\* The horizons the discard worker holds, and those derived from them, are
\* numbers with only finished transactions below.
LEMMA HorizonsOver ==
    ASSUME IndInv
    PROVE  /\ dw.oldestXmin \in Nat /\ AllOver(dw.oldestXmin)
           /\ dw.lastForceAdvanceXid \in Nat /\ AllOver(dw.lastForceAdvanceXid)
           /\ dw.frozenXid \in Nat /\ AllOver(dw.frozenXid)
           /\ dw.oldestFrozenXidInUndo \in Nat /\ AllOver(dw.oldestFrozenXidInUndo)
           /\ ForceAdvanceXid \in Nat /\ AllOver(ForceAdvanceXid)
           /\ global_frozen_xid \in Nat /\ AllOver(global_frozen_xid)
           /\ global_recycle_xid \in Nat /\ AllOver(global_recycle_xid)
           /\ nextXid \in Nat
  <1>t. XactType /\ HorizonType /\ dw \in DiscardLocals /\ HorizonInv
    BY Zenon DEF IndInv, TypeOK
  <1>1. /\ dw.oldestXmin \in Nat /\ dw.lastForceAdvanceXid \in Nat /\ dw.frozenXid \in Nat
        /\ dw.oldestFrozenXidInUndo \in Nat
    BY <1>t, LocalsAt DEF Horizon, XidOrNone
  <1>2. global_frozen_xid \in Nat /\ global_recycle_xid \in Nat /\ nextXid \in Nat
    BY <1>t DEF HorizonType, XactType, Horizon
  <1>3. \A h, k \in Nat : AllOver(h) /\ k <= h => AllOver(k)
    BY <1>2 DEF AllOver, Xids
  <1>4. AllOver(dw.frozenXid) /\ AllOver(dw.oldestFrozenXidInUndo)
    BY Zenon, <1>1, <1>3, <1>t DEF HorizonInv
  <1> QED
    BY Zenon, <1>1, <1>2, <1>4, <1>t DEF HorizonInv, ForceAdvanceXid

\* Where the discard worker is while it is at a log.
LEMMA AtLog ==
    ASSUME IndInv, dw.pc \in {"request", "recycle", "release"}
    PROVE  /\ dw.idx \in Logs /\ dw.idx \in Nat /\ dw.idx < NLogs
           /\ SettledBelow(dw.idx, dw.frozenXid) /\ dw.allocate \in Nat
           /\ dw.allocate <= Len(slots[dw.idx])
           /\ recycle_slot[dw.idx] \in Nat /\ recycle_slot[dw.idx] <= Len(slots[dw.idx])
           /\ Len(slots[dw.idx]) \in Nat
           /\ \A l \in Logs : l < dw.idx => Visited(l)
  <1>1. dw.idx \in Nat /\ dw.allocate \in Nat
    BY LocalsAt, ConstantsAssumption DEF IndInv, TypeOK, ConstantsAssumption
  <1>2. /\ dw.idx < NLogs /\ SettledBelow(dw.idx, dw.frozenXid)
        /\ dw.allocate <= Len(slots[dw.idx])
    BY Zenon DEF IndInv, AtLogInv
  <1>3. dw.idx \in Logs
    BY <1>1, <1>2, ConstantsAssumption DEF Logs, ConstantsAssumption
  <1>4. /\ recycle_slot[dw.idx] \in Nat /\ recycle_slot[dw.idx] <= Len(slots[dw.idx])
        /\ Len(slots[dw.idx]) \in Nat
    BY Zenon, <1>3, SlotAt DEF IndInv, TypeOK, SlotType
  <1>5. \A l \in Logs : l < dw.idx => Visited(l)
    BY Zenon DEF IndInv, PassInv, InLogs
  <1> QED
    BY <1>1, <1>2, <1>3, <1>4, <1>5

\* A slot that may be recycled is settled: by the log's frozenXid, or, when it
\* is forced, by what the commit log or global_frozen_xid says of it.
LEMMA RecyclableSettled ==
    ASSUME IndInv, dw.pc = "recycle", NEW i \in 1 .. Len(slots[dw.idx]),
           Recyclable(slots[dw.idx][i])
    PROVE  Settled(slots[dw.idx][i])
  <1>1. CASE slots[dw.idx][i].xid < dw.frozenXid
    BY Zenon, <1>1, AtLog DEF SettledBelow
  <1>2. CASE slots[dw.idx][i].xid < global_frozen_xid
    BY <1>2, AtLog DEF IndInv, FrozenSettled
  <1> QED
    BY Zenon, <1>1, <1>2 DEF Recyclable, xstore_transaction_id_did_commit, can_rollback_undo_slot,
                      TransactionIdOlderThanAllUndo, Settled

\* Only advance_frozen_xid leaves the worker with a request to make, and only
\* recycle_undo_space with slots to release.
LEMMA PendingCases ==
    ASSUME IndInv, Discard \/ discard_restart, dw'.pc \in {"request", "release"}
    PROVE  /\ dw'.pc = "request" => advance_frozen_xid
           /\ dw'.pc = "release" => recycle_undo_space
  <1>t. dw \in DiscardLocals
    BY Zenon DEF IndInv, TypeOK
  <1>n. \A h, f, force, n : DiscardStart(h, f, force, n).pc = "loop"
    BY Zenon DEF DiscardStart
  <1>1. CASE discard_skip_log \/ discard_retry
    BY ZenonT(30), <1>1, <1>t DEF discard_skip_log, discard_retry, DiscardLocals
  <1>7. CASE discard_loop
    <2>1. PICK m, force : dw' = IF undo_log_used_cout = 0
                 THEN [dw EXCEPT !.pc = "publish", !.oldestXmin = m,
                                 !.oldestFrozenXidInUndo = m]
                 ELSE [dw EXCEPT
                         !.pc = "logs", !.oldestXmin = m, !.force = force,
                         !.forceRecycleXid = IF force THEN get_force_recycle_xid(m, 1)
                                                      ELSE InvalidXid,
                         !.oldestFrozenXidInUndo = m]
      BY ZenonT(30), <1>7 DEF discard_loop
    <2> QED
      BY Zenon, <2>1, <1>t DEF DiscardLocals
  <1>2. CASE request_async_rollback \/ recycle_release
    BY ZenonT(30), <1>2, <1>t DEF request_async_rollback, recycle_release, DiscardLocals
  <1>3. CASE recycle_undo_space
    <2>1. PICK last : dw' = IF last = recycle_slot[dw.idx] THEN LogDone
                            ELSE [dw EXCEPT !.pc = "release", !.recycle = last]
      BY ZenonT(30), <1>3 DEF recycle_undo_space
    <2> QED
      BY Zenon, <2>1, <1>3, <1>t DEF LogDone, DiscardLocals
  <1>4. CASE discard_publish_frozen
    <2>1. PICK f : dw' = IF undo_log_used_cout = 0
                         THEN DiscardStart(dw.lastHaving, f, dw.force, dw.restarts)
                         ELSE [dw EXCEPT !.pc = "having", !.lastForceAdvanceXid = f]
      BY ZenonT(30), <1>4 DEF discard_publish_frozen
    <2> QED
      BY <2>1, <1>n, <1>t DEF DiscardLocals
  <1>5. CASE discard_publish_recycle \/ discard_restart
    <2>1. PICK h, f, force, n : dw' = DiscardStart(h, f, force, n)
      BY ZenonT(30), <1>5 DEF discard_publish_recycle, discard_restart
    <2> QED
      BY Zenon, <2>1, <1>n
  <1>6. CASE advance_frozen_xid
    <2>1. PICK rollback, pending, f :
              dw' = [dw EXCEPT !.pc = IF rollback THEN "request" ELSE "recycle",
                               !.pending = pending, !.frozenXid = f,
                               !.allocate = Len(slots[dw.idx])]
      BY ZenonT(30), <1>6 DEF advance_frozen_xid
    <2> QED
      BY Zenon, <2>1, <1>6, <1>t DEF DiscardLocals
  <1> QED
    BY <1>1, <1>2, <1>3, <1>4, <1>5, <1>6, <1>7 DEF Discard

=============================================================================
