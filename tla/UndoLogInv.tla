----------------------------- MODULE UndoLogInv -----------------------------
(***************************************************************************)
(* The inductive invariant behind the safety properties of UndoLog.  The   *)
(* discard worker decides from values it read some steps ago: what makes   *)
(* that sound is that a slot, once settled, stays settled, and that a slot *)
(* allocated later belongs to a transaction that is running, hence lies at *)
(* or above every horizon already taken.                                   *)
(***************************************************************************)
EXTENDS UndoLog

\* Every xid below h has been handed out and is over.
AllOver(h) == h <= nextXid /\ \A x \in Xids : x < h => ~InProgress(x)

SettledBelow(l, h) ==
    \A i \in 1 .. Len(slots[l]) : slots[l][i].xid < h => Settled(slots[l][i])

\* Transactions: the proc array and the commit log agree.
XactInv ==
    /\ \A b \in Backends : xact[b] # InvalidXid => InProgress(xact[b])
    /\ \A b, c \in Backends : xact[b] = xact[c] /\ xact[b] # InvalidXid => b = c
    /\ \A x \in Xids : InProgress(x) => \E b \in Backends : xact[b] = x
    /\ \A x \in Xids : status[x] = "unassigned" <=> x >= nextXid

\* A log has one writer.
AttachInv ==
    /\ \A b \in Backends : logs[b] # NoLog => logs[b] \in attached
    /\ \A b, c \in Backends : logs[b] = logs[c] /\ logs[b] # NoLog => b = c
    /\ \A b \in Backends : xact[b] # InvalidXid => logs[b] # NoLog

\* What a writer remembers of its slot is true.
WriterInv(b) ==
    /\ phase[b] # "idle" => xact[b] # InvalidXid
    /\ phase[b] = "meta" => prev_xid[b] = xact[b] /\ urecptr[b] # 0
    /\ phase[b] = "switched" => Len(slots[logs[b]]) = 0
    /\ prev_xid[b] < nextXid
    /\ xact[b] # InvalidXid /\ prev_xid[b] = xact[b] /\ phase[b] # "switched" =>
           /\ Len(slots[logs[b]]) > 0
           /\ slots[logs[b]][Len(slots[logs[b]])].xid = xact[b]
    /\ xact[b] # InvalidXid => \A i \in 1 .. Len(slots[logs[b]]) :
           /\ slots[logs[b]][i].xid <= xact[b]
           /\ slots[logs[b]][i].xid = xact[b] => prev_xid[b] = xact[b]

CtxInv == AttachInv /\ \A b \in Backends : WriterInv(b)

\* Slots are in xid order; a slot whose start is not published is being
\* written by a running transaction; only what is over is rolled back.
SlotInv ==
    /\ \A l \in Logs : insert_offset[l] = 1 => Len(slots[l]) = 0
    /\ \A l \in Logs : \A i \in 1 .. Len(slots[l]) : slots[l][i].xid < nextXid
    /\ \A l \in Logs : \A i, j \in 1 .. Len(slots[l]) :
           i < j => slots[l][i].xid < slots[l][j].xid
    /\ \A l \in Logs : \A i \in 1 .. Len(slots[l]) :
           slots[l][i].start = 0 =>
               \E b \in Backends : phase[b] = "meta" /\ logs[b] = l /\ xact[b] = slots[l][i].xid

UsedLogs == {l \in Logs : insert_offset[l] # 1 /\ l \notin frozen}

\* Used logs are counted, and a retired one has nothing left.
UsedInv ==
    /\ undo_log_used_cout = Cardinality(UsedLogs)
    /\ UsedLogs # {} => undo_log_used_cout >= 1
    /\ \A l \in frozen : insert_offset[l] = LogSize + 1 /\ recycle_slot[l] = Len(slots[l])

\* What the pointers of a log say is settled.
PointerInv ==
    /\ \A l \in Logs : \A i \in 1 .. frozen_slot[l] : Settled(slots[l][i])
    /\ \A l \in Logs : recycle_xid[l] # InvalidXid =>
           /\ SettledBelow(l, recycle_xid[l] + 1)
           /\ \E i \in 1 .. Len(slots[l]) : slots[l][i].xid = recycle_xid[l]

\* Where global_frozen_xid goes when no log was in use.
ForceAdvanceXid == IF dw.lastForceAdvanceXid = InvalidXid THEN dw.oldestXmin
                                                          ELSE dw.lastForceAdvanceXid

InLogs == dw.pc \in {"logs", "request", "recycle", "release"}

\* A slot that is not settled is not below what this pass will publish as
\* global_recycle_xid.
RecycleBounded(l) ==
    \A i \in 1 .. Len(slots[l]) :
        \/ Settled(slots[l][i])
        \/ slots[l][i].xid >= dw.oldestXmin
        \/ \E x \in dw.recycleXids : x <= slots[l][i].xid

\* Every horizon ever taken has only finished transactions below it.
HorizonInv ==
    /\ AllOver(dw.oldestXmin) /\ AllOver(dw.lastForceAdvanceXid)
    /\ AllOver(global_frozen_xid) /\ AllOver(global_recycle_xid)
    /\ dw.frozenXid <= dw.oldestXmin /\ dw.oldestFrozenXidInUndo <= dw.oldestXmin

Visited(l) ==
    /\ SettledBelow(l, dw.oldestFrozenXidInUndo)
    /\ ~dw.isAnyLogUsed => SettledBelow(l, ForceAdvanceXid)
    /\ RecycleBounded(l)

\* What the discard worker's locals say of the logs it has been through.
PassInv ==
    /\ dw.pc \in {"loop", "publish"} =>
           /\ dw.idx = 0 /\ ~dw.isAnyLogUsed /\ dw.recycleXids = {}
           /\ dw.frozenXid = FirstNormalXid
    /\ InLogs => \A l \in Logs : l < dw.idx => Visited(l)
    /\ dw.pc = "publish" => \A l \in Logs : SettledBelow(l, ForceAdvanceXid)
    /\ dw.pc = "having" /\ dw.recycleXids # {} => \A l \in Logs : RecycleBounded(l)

\* What they say of the log it is at.
AtLogInv ==
    /\ dw.pc \in {"request", "recycle", "release"} =>
           /\ dw.idx < NLogs /\ SettledBelow(dw.idx, dw.frozenXid)
           /\ dw.allocate <= Len(slots[dw.idx])
    /\ dw.pc = "request" => dw.pending \in 1 .. Len(slots[dw.idx])
    /\ dw.pc = "release" =>
           /\ dw.recycle \in 1 .. Len(slots[dw.idx]) /\ dw.idx \notin frozen
           /\ \A i \in 1 .. dw.recycle : Settled(slots[dw.idx][i])

\* The inductive invariant: every step of backends, discard worker, rollback
\* and checkpoint keeps it, and FrozenSettled, RecycledSettled and
\* GlobalRecycleBound follow.
IndInv ==
    /\ TypeOK /\ XactInv /\ CtxInv /\ SlotInv /\ UsedInv /\ PointerInv
    /\ HorizonInv /\ PassInv /\ AtLogInv
    /\ FrozenSettled /\ RecycledSettled /\ GlobalRecycleBound

\* What a request asks to roll back has aborted, from the moment the discard
\* worker has seen the slot.
RequestInv ==
    /\ \A r \in requests : status[slots[r[1]][r[2]].xid] = "aborted"
    /\ dw.pc = "request" => status[slots[dw.idx][dw.pending].xid] = "aborted"

-----------------------------------------------------------------------------
(* What SlotsContiguous and SnapshotUndoKept rest on                       *)

\* Where the undo of the first i slots of a log ends.
SlotEnd(l, i) == IF i = 0 THEN 1 ELSE slots[l][i].end

\* The record a backend is writing goes behind what its log's slots hold: a
\* new slot holds nothing yet.
WritesAt(b) ==
    LET l == logs[b]
        n == Len(slots[l])
    IN  /\ urecptr[b] < insert_offset[l]
        /\ urecptr[b] = SlotEnd(l, IF slots[l][n].start = 0 THEN n - 1 ELSE n)

\* Published slots lie one behind the other, the insert pointer is behind the
\* last unless a backend is writing or the log was given up as full, and
\* force_discard_offset is where the recycled slots end.
SpaceInv ==
    /\ \A l \in Logs : \A i \in 1 .. Len(slots[l]) : slots[l][i].start # 0 =>
           /\ slots[l][i].start < slots[l][i].end /\ slots[l][i].end <= insert_offset[l]
           /\ slots[l][i].start = SlotEnd(l, i - 1)
           /\ \A j \in 0 .. i - 1 : SlotEnd(l, j) <= slots[l][i].start
    /\ \A l \in Logs : force_discard_offset[l] = SlotEnd(l, recycle_slot[l])
    /\ \A l \in Logs : ~LockedByBackend(l) =>
           insert_offset[l] = SlotEnd(l, Len(slots[l])) \/ insert_offset[l] > LogSize
    /\ \A b \in Backends : phase[b] = "meta" => WritesAt(b)

\* Only what is over is rolled back.
UndoneInv ==
    \A l \in Logs : \A i \in 1 .. Len(slots[l]) :
        slots[l][i].info = "ROLLBACK" => ~InProgress(slots[l][i].xid)

\* Slots that no snapshot needs: every transaction up to theirs is over, and
\* older than every snapshot.
Unneeded(l, k) ==
    \A i \in 1 .. k : /\ Settled(slots[l][i]) /\ AllOver(slots[l][i].xid + 1)
                      /\ \A r \in Readers : snapshot_xmin[r] # InvalidXid =>
                             slots[l][i].xid < snapshot_xmin[r]

\* discard_offset is the end of slots that no snapshot needs, and recycle_xid
\* tells of whatever else was recycled.
KeptInv ==
    /\ \A r \in Readers : snapshot_xmin[r] # InvalidXid => dw.oldestXmin <= snapshot_xmin[r]
    /\ \A l \in Logs : \E k \in 0 .. Len(slots[l]) :
           discard_offset[l] = SlotEnd(l, k) /\ Unneeded(l, k)
    /\ \A l \in Logs : recycle_slot[l] > 0 =>
           slots[l][recycle_slot[l]].xid <= recycle_xid[l]
    /\ dw.pc = "release" => recycle_xid[dw.idx] = slots[dw.idx][dw.recycle].xid

\* What HorizonsAdvance rests on: in the first pass of a loop nothing the
\* discard worker has in hand is behind global_frozen_xid, and without forced
\* recycling there is no other pass.
AdvanceInv ==
    /\ dw.retry >= 1
    /\ dw.retry = 1 =>
           /\ InLogs \/ dw.pc = "publish" => dw.oldestFrozenXidInUndo >= global_frozen_xid
           /\ dw.pc \in {"request", "recycle", "release"} => dw.frozenXid >= global_frozen_xid
    /\ TRUE \notin ForceRecycle => ~dw.force /\ dw.retry = 1
=============================================================================
