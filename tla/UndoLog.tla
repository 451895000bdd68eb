------------------------------- MODULE UndoLog -------------------------------
(***************************************************************************)
(* The undo logs of XStore (contrib/xstore/src/undo/undolog.c): backends   *)
(* that append undo records and transaction slots to the log they are      *)
(* attached to, the discard worker that freezes and recycles the slots     *)
(* without the writers' cooperation, and the asynchronous rollback of      *)
(* aborted transactions that stands between the two.                       *)
(*                                                                         *)
(* Undo offsets are counted in units of undo data from 1; 0 is             *)
(* INVALID_UNDO_REC_PTR.  Slot i of a log is the i-th slot ever allocated  *)
(* in it, and a slot "pointer" is the number of slots before it.  Slots    *)
(* stay in the sequence after they are recycled: recycle_slot says how     *)
(* many are gone.  All logs modelled here are permanent ones.              *)
(***************************************************************************)
EXTENDS Integers, Sequences, FiniteSets

CONSTANTS
    Backends,        \* processes that run transactions
    Readers,         \* processes that hold a snapshot at times
    NLogs,           \* permanent undo logs (PERSIST_UNDOLOG_COUNT)
    LogSize,         \* UNDO_LOG_MAX_SIZE, in units of undo data
    RecordSizes,     \* sizes a record may have
    SlotsPerBlock,   \* transaction slots on one page of the slot segment
    HashSize,        \* get_rollback_hash_size(): pending requests at most
    MaxXid,          \* bound: last transaction id handed out
    FeedbackXmins,   \* horizons a hot standby may feed back, {0} for none
    FORCE_RECYCLE_RETRY_TIMES,  \* passes of a forced loop, 5 in the code
    ForceRecycle,    \* what check_need_force_recycle may say: a subset of BOOLEAN
    MaxRestarts      \* bound: restarts of the discard worker

Logs == 0 .. NLogs - 1
NoLog == -1
InvalidXid == 0
FirstNormalXid == 3
Xids == FirstNormalXid .. MaxXid

ASSUME ConstantsAssumption ==
    /\ NLogs \in Nat /\ LogSize \in Nat \ {0} /\ HashSize \in Nat /\ MaxRestarts \in Nat
    /\ SlotsPerBlock \in Nat \ {0} /\ FORCE_RECYCLE_RETRY_TIMES \in Nat \ {0}
    /\ MaxXid \in Nat /\ MaxXid >= FirstNormalXid
    /\ RecordSizes \subseteq 1 .. LogSize
    /\ FeedbackXmins \subseteq {InvalidXid} \cup Xids
    /\ ForceRecycle \subseteq BOOLEAN

VARIABLES
    nextXid,               \* TransamVariables->nextXid
    status,                \* what clog and the proc array say of each xid
    xact,                  \* top-level xid each backend runs, or InvalidXid
    snapshot_xmin,         \* xmin of a reader's snapshot, or InvalidXid
    feedback_xmin,         \* xmin a walsender holds for a standby, or InvalidXid
    logs,                  \* undo_log_ctx->logs: log of each backend, or NoLog
    prev_xid,              \* undo_log_ctx->prev_xid of each backend
    phase,                 \* where a backend is in writing an undo record
    urecptr,               \* what allocate_undo_space gave it: the record's place
    attached,              \* logs whose "attached" flag is set
    insert_offset, discard_offset, force_discard_offset,
    slots,                 \* transaction slots allocated in each log
    recycle_slot, frozen_slot, recycle_xid,
    frozen,                \* logs a checkpoint found full and empty of slots
    global_frozen_xid, global_recycle_xid,
    undo_log_used_cout,
    requests,              \* RollbackHT: slots waiting for rollback
    dw                     \* the discard worker's local variables

xactVars == <<nextXid, status, xact, snapshot_xmin, feedback_xmin>>
ctxVars == <<logs, prev_xid, phase, urecptr, attached>>
ulogVars == <<insert_offset, discard_offset, force_discard_offset, slots,
              recycle_slot, frozen_slot, recycle_xid, frozen, undo_log_used_cout>>
globalVars == <<global_frozen_xid, global_recycle_xid>>
vars == <<xactVars, ctxVars, ulogVars, globalVars, requests, dw>>

Smaller(a, b) == IF a < b THEN a ELSE b
Larger(a, b) == IF a < b THEN b ELSE a
IsLeast(m, S) == m \in S /\ \A x \in S : m <= x

InProgress(x) == status[x] = "in_progress"
DidCommit(x) == status[x] = "committed"

\* An xid below global_frozen_xid is taken to be settled unseen.
TransactionIdOlderThanAllUndo(x) == x < global_frozen_xid
xstore_transaction_id_did_commit(x) == TransactionIdOlderThanAllUndo(x) \/ DidCommit(x)
xstore_transaction_id_is_in_progress(x) ==
    ~TransactionIdOlderThanAllUndo(x) /\ InProgress(x)

Running == {xact[b] : b \in Backends} \ {InvalidXid}

\* Mutant: snapshots do not hold the horizon back.
OldestXminSet_NoSnapshots == ({nextXid, feedback_xmin} \cup Running) \ {InvalidXid}

\* GetOldestNonRemovableTransactionId(NULL) is the least of these.
OldestXminSet ==
    ({nextXid, feedback_xmin} \cup Running \cup {snapshot_xmin[r] : r \in Readers})
        \ {InvalidXid}

-----------------------------------------------------------------------------
(* Transactions, snapshots and attachment                                  *)

\* The discard worker at the head of its loop: only these locals live on.
DiscardStart(lastHaving, lastForceAdvanceXid, force, restarts) ==
    [pc |-> "loop", oldestXmin |-> FirstNormalXid, idx |-> 0, retry |-> 1,
     force |-> force, forceRecycleXid |-> InvalidXid, allocate |-> 0,
     frozenXid |-> FirstNormalXid, pending |-> 0, recycle |-> 0,
     isAnyLogUsed |-> FALSE, oldestFrozenXidInUndo |-> FirstNormalXid,
     recycleXids |-> {}, having |-> InvalidXid, lastHaving |-> lastHaving,
     lastForceAdvanceXid |-> lastForceAdvanceXid, restarts |-> restarts]

Init ==
    /\ nextXid = FirstNormalXid
    /\ status = [x \in Xids |-> "unassigned"]
    /\ xact = [b \in Backends |-> InvalidXid]
    /\ snapshot_xmin = [r \in Readers |-> InvalidXid]
    /\ feedback_xmin = InvalidXid
    /\ logs = [b \in Backends |-> NoLog]
    /\ prev_xid = [b \in Backends |-> InvalidXid]
    /\ phase = [b \in Backends |-> "idle"]
    /\ urecptr = [b \in Backends |-> 0]
    /\ attached = {}
    /\ insert_offset = [l \in Logs |-> 1]
    /\ discard_offset = [l \in Logs |-> 1]
    /\ force_discard_offset = [l \in Logs |-> 1]
    /\ slots = [l \in Logs |-> <<>>]
    /\ recycle_slot = [l \in Logs |-> 0]
    /\ frozen_slot = [l \in Logs |-> 0]
    /\ recycle_xid = [l \in Logs |-> InvalidXid]
    /\ frozen = {}
    /\ undo_log_used_cout = 0
    /\ global_frozen_xid = FirstNormalXid
    /\ global_recycle_xid = FirstNormalXid
    /\ requests = {}
    /\ dw = DiscardStart(InvalidXid, InvalidXid, FALSE, 0)

\* A backend takes the first detached log with room for a record, before it
\* is given an xid: AssignTransactionId calls the hook first.
alloc_undo_log(b) ==
    /\ logs[b] = NoLog
    /\ \E l \in Logs :
        /\ IsLeast(l, {k \in Logs \ attached : insert_offset[k] <= LogSize})
        /\ logs' = [logs EXCEPT ![b] = l]
        /\ attached' = attached \cup {l}
    /\ UNCHANGED <<xactVars, prev_xid, phase, urecptr, ulogVars, globalVars, requests, dw>>

AssignTransactionId(b) ==
    /\ logs[b] # NoLog
    /\ xact[b] = InvalidXid
    /\ nextXid <= MaxXid
    /\ xact' = [xact EXCEPT ![b] = nextXid]
    /\ status' = [status EXCEPT ![nextXid] = "in_progress"]
    /\ nextXid' = nextXid + 1
    /\ UNCHANGED <<snapshot_xmin, feedback_xmin, ctxVars, ulogVars, globalVars,
                   requests, dw>>

\* The xid leaves the proc array with its outcome known.  A permanent
\* transaction is never rolled back by its own backend at abort.
EndTransaction(b, outcome) ==
    /\ xact[b] # InvalidXid
    /\ phase[b] = "idle"
    /\ status' = [status EXCEPT ![xact[b]] = outcome]
    /\ xact' = [xact EXCEPT ![b] = InvalidXid]
    /\ UNCHANGED <<nextXid, snapshot_xmin, feedback_xmin, ctxVars, ulogVars,
                   globalVars, requests, dw>>

GetSnapshotData(r) ==
    /\ snapshot_xmin[r] = InvalidXid
    /\ \E m \in {nextXid} \cup Running :
        /\ IsLeast(m, {nextXid} \cup Running)
        /\ snapshot_xmin' = [snapshot_xmin EXCEPT ![r] = m]
    /\ UNCHANGED <<nextXid, status, xact, feedback_xmin, ctxVars, ulogVars,
                   globalVars, requests, dw>>

ReleaseSnapshot(r) ==
    /\ snapshot_xmin[r] # InvalidXid
    /\ snapshot_xmin' = [snapshot_xmin EXCEPT ![r] = InvalidXid]
    /\ UNCHANGED <<nextXid, status, xact, feedback_xmin, ctxVars, ulogVars,
                   globalVars, requests, dw>>

\* A standby may report a horizon older than the one already acted on.
StandbyFeedback(x) ==
    /\ x # feedback_xmin
    /\ x <= nextXid
    /\ feedback_xmin' = x
    /\ UNCHANGED <<nextXid, status, xact, snapshot_xmin, ctxVars, ulogVars,
                   globalVars, requests, dw>>

\* Process exit: the log it is attached to now is released (a log it
\* switched away from is not), and prev_xid dies with the process.
cleanup_undo_log(b) ==
    /\ logs[b] # NoLog
    /\ xact[b] = InvalidXid
    /\ logs' = [logs EXCEPT ![b] = NoLog]
    /\ attached' = attached \ {logs[b]}
    /\ prev_xid' = [prev_xid EXCEPT ![b] = InvalidXid]
    /\ UNCHANGED <<xactVars, phase, urecptr, ulogVars, globalVars, requests, dw>>

-----------------------------------------------------------------------------
(* Writing undo: allocate_undo_space, update_undolog_meta                  *)

\* ulog->lock is held by a backend from update_undolog_meta to
\* release_undolog_meta, and by the discard worker while it recycles.
LockedByBackend(l) == \E b \in Backends : logs[b] = l /\ phase[b] = "meta"
LockedByDiscard(l) == dw.pc = "release" /\ dw.idx = l

\* Mutant: off by one at the end of the log.
check_need_switch_undolog_OneMore(l, size) == insert_offset[l] + size > LogSize + 2

check_need_switch_undolog(l, size) == insert_offset[l] + size > LogSize + 1

FreshLogs(l) == {k \in Logs \ attached : k > l /\ insert_offset[k] = 1}

\* The rest of a full log is given up and the transaction goes on in a fresh
\* log with a larger number; the old log stays attached.  Without a fresh log
\* the statement fails, and the old log is full all the same.
undolog_switch(b, size) ==
    /\ xact[b] # InvalidXid
    /\ phase[b] = "idle"
    /\ check_need_switch_undolog(logs[b], size)
    /\ ~LockedByDiscard(logs[b])
    /\ insert_offset' = [insert_offset EXCEPT ![logs[b]] = LogSize + 1]
    /\ \/ /\ FreshLogs(logs[b]) = {}
          /\ UNCHANGED <<logs, attached, phase>>
       \/ \E l \in FreshLogs(logs[b]) :
              /\ \A k \in FreshLogs(logs[b]) : l <= k
              /\ logs' = [logs EXCEPT ![b] = l]
              /\ attached' = attached \cup {l}
              /\ phase' = [phase EXCEPT ![b] = "switched"]
    /\ UNCHANGED <<xactVars, prev_xid, urecptr, discard_offset, force_discard_offset, slots,
                   recycle_slot, frozen_slot, recycle_xid, frozen, undo_log_used_cout,
                   globalVars, requests, dw>>

NewSlot(x) == [xid |-> x, start |-> 0, end |-> 0, info |-> "INIT"]

\* First half: under the log's lock the insert pointer moves and, for a
\* transaction's first record in this log, a slot is allocated.  The slot is
\* visible to the discard worker before its start pointer is.
update_undolog_meta(b, size) ==
    LET l == logs[b]
        new == xact[b] # prev_xid[b] \/ phase[b] = "switched"
    IN  /\ xact[b] # InvalidXid
        /\ phase[b] \in {"idle", "switched"}
        /\ ~check_need_switch_undolog(l, size)
        /\ ~LockedByDiscard(l)
        /\ urecptr' = [urecptr EXCEPT ![b] = insert_offset[l]]
        /\ insert_offset' = [insert_offset EXCEPT ![l] = @ + size]
        /\ undo_log_used_cout' =
               undo_log_used_cout + (IF insert_offset[l] = 1 THEN 1 ELSE 0)
        /\ slots' = IF new THEN [slots EXCEPT ![l] = Append(@, NewSlot(xact[b]))]
                           ELSE slots
        /\ prev_xid' = [prev_xid EXCEPT ![b] = xact[b]]
        /\ phase' = [phase EXCEPT ![b] = "meta"]
        /\ UNCHANGED <<xactVars, logs, attached, discard_offset, force_discard_offset,
                       recycle_slot, frozen_slot, recycle_xid, frozen, globalVars,
                       requests, dw>>

\* Mutant: every record moves the start of the slot.
update_undo_slot_MovesStart(s, start, end) == [s EXCEPT !.end = end, !.start = start]

update_undo_slot(s, start, end) ==
    [s EXCEPT !.end = end, !.start = IF @ = 0 THEN start ELSE @]

\* Second half: update_undo_slot publishes the slot's pointers, and
\* release_undolog_meta drops the lock.
release_undolog_meta(b) ==
    LET l == logs[b]
        i == Len(slots[l])
    IN  /\ phase[b] = "meta"
        /\ slots' = [slots EXCEPT ![l][i] =
                         update_undo_slot(@, urecptr[b], insert_offset[l])]
        /\ urecptr' = [urecptr EXCEPT ![b] = 0]
        /\ phase' = [phase EXCEPT ![b] = "idle"]
        /\ UNCHANGED <<xactVars, logs, prev_xid, attached, insert_offset, discard_offset,
                       force_discard_offset, recycle_slot, frozen_slot, recycle_xid,
                       frozen, undo_log_used_cout, globalVars, requests, dw>>

\* Mutant: a full log is retired with slots left in it.
checkpoint_undo_logs_WithSlots(l) ==
    /\ insert_offset[l] > LogSize
    /\ l \notin frozen
    /\ ~LockedByBackend(l) /\ ~LockedByDiscard(l)
    /\ frozen' = frozen \cup {l}
    /\ undo_log_used_cout' = undo_log_used_cout - 1
    /\ UNCHANGED <<xactVars, ctxVars, insert_offset, discard_offset,
                   force_discard_offset, slots, recycle_slot, frozen_slot,
                   recycle_xid, globalVars, requests, dw>>

\* checkpoint_undo_logs retires a log that is full and has no slot left.
checkpoint_undo_logs(l) ==
    /\ insert_offset[l] > LogSize
    /\ Len(slots[l]) = recycle_slot[l]
    /\ l \notin frozen
    /\ ~LockedByBackend(l) /\ ~LockedByDiscard(l)
    /\ frozen' = frozen \cup {l}
    /\ undo_log_used_cout' = undo_log_used_cout - 1
    /\ UNCHANGED <<xactVars, ctxVars, insert_offset, discard_offset,
                   force_discard_offset, slots, recycle_slot, frozen_slot,
                   recycle_xid, globalVars, requests, dw>>

-----------------------------------------------------------------------------
(* The discard worker: discard_worker_main                                 *)

undolog_need_recycle(l) == recycle_slot[l] < Len(slots[l])

can_rollback_undo_slot(s) == s.info # "ROLLBACK"

\* forceRecycleXid moves from oldestXmin to the next xid in equal steps
\* (FORCE_RECYCLE_PUSH_PERCENT is one over the number of tries).
get_force_recycle_xid(oldestXmin, retry) ==
    IF oldestXmin = nextXid \/ retry > FORCE_RECYCLE_RETRY_TIMES
    THEN InvalidXid
    ELSE oldestXmin + ((nextXid - oldestXmin) * retry) \div FORCE_RECYCLE_RETRY_TIMES

\* Mutant: a horizon behind global_frozen_xid is not refused.
OldestXminUsable_Always(m) == TRUE

\* A standby may have pushed the horizon back behind what is frozen already:
\* then the worker waits.
OldestXminUsable(m) == m >= global_frozen_xid

\* Head of the loop.  Whether the undo space is over its limit
\* (check_need_force_recycle) is left open; "force" outlives the loop, as
\* g_forceRecycleSize does.
discard_loop ==
    /\ dw.pc = "loop"
    /\ \E m \in OldestXminSet, force \in ForceRecycle :
        /\ IsLeast(m, OldestXminSet)
        /\ OldestXminUsable(m)
        /\ dw' = IF undo_log_used_cout = 0
                 THEN [dw EXCEPT !.pc = "publish", !.oldestXmin = m,
                                 !.oldestFrozenXidInUndo = m]
                 ELSE [dw EXCEPT
                         !.pc = "logs", !.oldestXmin = m, !.force = force,
                         !.forceRecycleXid = IF force THEN get_force_recycle_xid(m, 1)
                                                      ELSE InvalidXid,
                         !.oldestFrozenXidInUndo = m]
    /\ UNCHANGED <<xactVars, ctxVars, ulogVars, globalVars, requests>>

discard_skip_log ==
    /\ dw.pc = "logs" /\ dw.idx < NLogs
    /\ ~undolog_need_recycle(dw.idx)
    /\ dw' = [dw EXCEPT !.idx = @ + 1]
    /\ UNCHANGED <<xactVars, ctxVars, ulogVars, globalVars, requests>>

\* Mutant: a transaction that still runs is taken for one that failed.
NeedsRollback_Running(s, oldestXmin) ==
    ~xstore_transaction_id_did_commit(s.xid) /\ can_rollback_undo_slot(s)

\* A slot whose transaction ended before oldestXmin and still needs rollback.
NeedsRollback(s, oldestXmin) ==
    s.xid < oldestXmin /\ ~xstore_transaction_id_did_commit(s.xid) /\ can_rollback_undo_slot(s)

\* Mutant: only the horizon stops the walk.
StopsFreezing_NotAborted(s, oldestXmin) == s.start = 0 \/ s.xid >= oldestXmin

StopsFreezing(s, oldestXmin) ==
    s.start = 0 \/ NeedsRollback(s, oldestXmin) \/ s.xid >= oldestXmin

\* Walk the slots from the frozen pointer to the first one that is not
\* settled; what it holds back becomes the log's frozenXid.  The request for
\* its rollback is registered in a step of its own, from what was read here.
advance_frozen_xid ==
    LET l == dw.idx
        xmin == dw.oldestXmin
        first == Larger(frozen_slot[l], recycle_slot[l])
    IN  /\ dw.pc = "logs" /\ l < NLogs
        /\ undolog_need_recycle(l)
        /\ \E stop \in first .. Len(slots[l]) :
            LET s == slots[l][stop + 1]
                at_slot == stop < Len(slots[l])
                rollback == at_slot /\ s.start # 0 /\ NeedsRollback(s, xmin)
            IN  /\ \A i \in first + 1 .. stop : ~StopsFreezing(slots[l][i], xmin)
                /\ at_slot => StopsFreezing(s, xmin)
                /\ frozen_slot' = [frozen_slot EXCEPT ![l] =
                       IF stop = first /\ at_slot /\ s.start = 0 THEN @ ELSE stop]
                /\ dw' = [dw EXCEPT
                            !.pc = IF rollback THEN "request" ELSE "recycle",
                            !.pending = IF rollback THEN stop + 1 ELSE 0,
                            !.frozenXid = IF rollback THEN s.xid ELSE xmin,
                            !.allocate = Len(slots[l])]
    /\ UNCHANGED <<xactVars, ctxVars, insert_offset, discard_offset,
                   force_discard_offset, slots, recycle_slot, recycle_xid, frozen,
                   undo_log_used_cout, globalVars, requests>>

\* Mutant: nothing is ever queued.
register_rollback_req_Lost(l, i) == requests' = requests

\* A full table drops the request; the next loop tries again.
register_rollback_req(l, i) ==
    requests' = IF Cardinality(requests) >= HashSize THEN requests
                                                     ELSE requests \cup {<<l, i>>}

request_async_rollback ==
    /\ dw.pc = "request"
    /\ register_rollback_req(dw.idx, dw.pending)
    /\ dw' = [dw EXCEPT !.pc = "recycle", !.pending = 0, !.allocate = Len(slots[dw.idx])]
    /\ UNCHANGED <<xactVars, ctxVars, ulogVars, globalVars>>

\* May this slot go?  Past oldestXmin only a forced pass takes it, and only
\* when its transaction is over and has nothing to roll back.
ForceCandidate(s) ==
    /\ s.start # 0 /\ s.xid >= dw.oldestXmin /\ s.xid < dw.forceRecycleXid
    /\ ~xstore_transaction_id_is_in_progress(s.xid)

\* Mutants: what a forced pass finds aborted is recycled; the newest finished
\* transaction never is.
Recyclable_Aborted(s) ==
    ForceCandidate(s) \/ (s.start # 0 /\ s.xid < dw.oldestXmin /\ s.xid < dw.frozenXid)
Recyclable_OneLess(s) ==
    \/ s.start # 0 /\ s.xid + 1 < dw.oldestXmin /\ s.xid < dw.frozenXid
    \/ ForceCandidate(s)
       /\ (xstore_transaction_id_did_commit(s.xid) \/ ~can_rollback_undo_slot(s))

Recyclable(s) ==
    \/ s.start # 0 /\ s.xid < dw.oldestXmin /\ s.xid < dw.frozenXid
    \/ ForceCandidate(s)
       /\ (xstore_transaction_id_did_commit(s.xid) \/ ~can_rollback_undo_slot(s))

\* Slots first+1 .. last are what one batch recycles: slots of one page.
SamePage(p, q) == p \div SlotsPerBlock = q \div SlotsPerBlock
IsBatch(l, first, last) ==
    /\ \A i \in first + 1 .. last : Recyclable(slots[l][i]) /\ SamePage(first, i - 1)
    /\ last < dw.allocate /\ SamePage(first, last) => ~Recyclable(slots[l][last + 1])

\* Mutant: the slot that waits for rollback is forgotten.
OldestRecycleXid_Xmin(l) ==
    IF recycle_xid[l] # InvalidXid THEN recycle_xid[l] ELSE dw.oldestXmin

\* What recycle_undo_space returns as the log's oldestRecycleXid.
OldestRecycleXid(l) == IF recycle_xid[l] # InvalidXid THEN recycle_xid[l]
                       ELSE Smaller(dw.oldestXmin, dw.frozenXid)

\* Nothing (more) to recycle here: back in discard_worker_main the log's
\* frozenXid and recycled xid are folded into the minima.
LogDone ==
    [dw EXCEPT !.pc = "logs", !.idx = @ + 1, !.isAnyLogUsed = TRUE,
               !.oldestFrozenXidInUndo = Smaller(@, dw.frozenXid),
               !.recycleXids = @ \cup {OldestRecycleXid(dw.idx)},
               !.frozenXid = FirstNormalXid, !.allocate = 0, !.recycle = 0]

\* Mutant: forced slots move discard_offset too.
NotForced_All(l, first, last, kept) == kept = last

\* Slots first+1 .. kept of the batch are those before the first forced one.
NotForced(l, first, last, kept) ==
    /\ \A i \in first + 1 .. kept : slots[l][i].xid < dw.oldestXmin
    /\ kept < last => slots[l][kept + 1].xid >= dw.oldestXmin

\* One page of slots: lock the log, move discard_offset to the end of the
\* last slot that was not forced, and recycle_xid.  A forced pass that meets
\* an aborted transaction asks for its rollback first.
recycle_undo_space ==
    LET l == dw.idx
        first == recycle_slot[l]
    IN  /\ dw.pc = "recycle"
        /\ \E last \in first .. dw.allocate :
            LET blocked == /\ last < dw.allocate /\ SamePage(first, last)
                           /\ ForceCandidate(slots[l][last + 1])
                           /\ ~Recyclable(slots[l][last + 1])
            IN  /\ IsBatch(l, first, last)
                /\ last > first => ~LockedByBackend(l)
                /\ IF blocked THEN register_rollback_req(l, last + 1)
                              ELSE UNCHANGED requests
                /\ \E kept \in first .. last :
                       /\ NotForced(l, first, last, kept)
                       /\ discard_offset' = [discard_offset EXCEPT ![l] =
                              IF kept = first THEN @ ELSE slots[l][kept].end]
                /\ recycle_xid' = [recycle_xid EXCEPT ![l] =
                       IF last = first THEN @ ELSE slots[l][last].xid]
                /\ dw' = IF last = first THEN LogDone
                         ELSE [dw EXCEPT !.pc = "release", !.recycle = last]
    /\ UNCHANGED <<xactVars, ctxVars, insert_offset, force_discard_offset, slots,
                   recycle_slot, frozen_slot, frozen, undo_log_used_cout, globalVars>>

\* The second half of the critical section: force_discard_offset and the
\* recycle pointer follow, then the lock goes and the next page is tried.
recycle_release ==
    LET l == dw.idx
    IN  /\ dw.pc = "release"
        /\ force_discard_offset' = [force_discard_offset EXCEPT ![l] = slots[l][dw.recycle].end]
        /\ recycle_slot' = [recycle_slot EXCEPT ![l] = dw.recycle]
        /\ dw' = [dw EXCEPT !.pc = "recycle", !.recycle = 0]
        /\ UNCHANGED <<xactVars, ctxVars, insert_offset, discard_offset, slots,
                       frozen_slot, recycle_xid, frozen, undo_log_used_cout,
                       globalVars, requests>>

\* All logs were visited.  global_frozen_xid becomes the oldest xid any log
\* holds back, or, when no log had a slot, moves to an earlier oldestXmin
\* once that transaction is known to have committed.
discard_publish_frozen ==
    LET f == IF dw.lastForceAdvanceXid = InvalidXid THEN dw.oldestXmin
                                                    ELSE dw.lastForceAdvanceXid
        known == f \in Xids /\ status[f] \in {"committed", "aborted"}
        last == IF f < global_frozen_xid \/ known THEN InvalidXid ELSE f
        lastForceAdvanceXid == IF dw.isAnyLogUsed THEN dw.lastForceAdvanceXid ELSE last
    IN  /\ dw.pc = "publish" \/ (dw.pc = "logs" /\ dw.idx = NLogs)
        /\ global_frozen_xid' =
               IF dw.isAnyLogUsed THEN dw.oldestFrozenXidInUndo
               ELSE IF known /\ DidCommit(f) THEN Larger(global_frozen_xid, f)
               ELSE global_frozen_xid
        /\ dw' = IF undo_log_used_cout = 0
                 THEN DiscardStart(dw.lastHaving, lastForceAdvanceXid, dw.force, dw.restarts)
                 ELSE [dw EXCEPT !.pc = "having",
                                 !.lastForceAdvanceXid = lastForceAdvanceXid]
        /\ UNCHANGED <<xactVars, ctxVars, ulogVars, global_recycle_xid, requests>>

\* update_havingundo_xid: the least xid up to which some log is recycled,
\* kept across the passes of a forced loop.
HavingUndo(xid) ==
    IF dw.recycleXids = {} THEN xid = InvalidXid
    ELSE IsLeast(xid, dw.recycleXids \cup ({dw.having} \ {InvalidXid}))

\* Still over the limit: another pass that may force a little further.
discard_retry ==
    /\ dw.pc = "having"
    /\ dw.force
    /\ get_force_recycle_xid(dw.oldestXmin, dw.retry + 1) # InvalidXid
    /\ \E xid \in dw.recycleXids \cup {dw.having, InvalidXid} :
        /\ HavingUndo(xid)
        /\ dw' = [dw EXCEPT
                    !.pc = "logs", !.idx = 0, !.retry = @ + 1,
                    !.forceRecycleXid = get_force_recycle_xid(dw.oldestXmin, dw.retry + 1),
                    !.isAnyLogUsed = FALSE, !.recycleXids = {}, !.having = xid]
    /\ UNCHANGED <<xactVars, ctxVars, ulogVars, globalVars, requests>>

\* The passes end because the space is under the limit again, or because
\* there is nothing further to force.
discard_publish_recycle ==
    /\ dw.pc = "having"
    /\ \E xid \in dw.recycleXids \cup {dw.having, InvalidXid}, force \in {dw.force, FALSE} :
        LET changed == xid # InvalidXid /\ xid # dw.lastHaving
        IN  /\ HavingUndo(xid)
            /\ force => get_force_recycle_xid(dw.oldestXmin, dw.retry + 1) = InvalidXid
            /\ global_recycle_xid' =
                   IF changed THEN Larger(global_recycle_xid, Smaller(xid, dw.oldestXmin))
                              ELSE global_recycle_xid
            /\ dw' = DiscardStart(IF changed THEN xid ELSE dw.lastHaving,
                                  dw.lastForceAdvanceXid, force, dw.restarts)
    /\ UNCHANGED <<xactVars, ctxVars, ulogVars, global_frozen_xid, requests>>

\* SIGTERM is seen between two logs, or before a horizon is moved: the pass is
\* dropped, and the postmaster starts a new worker.  Only the frozen xid of a
\* pass that met every log is still published.
discard_restart ==
    /\ dw.pc \in {"loop", "logs", "publish", "having"}
    /\ dw.pc = "logs" /\ dw.idx = NLogs => ~dw.isAnyLogUsed
    /\ dw.restarts < MaxRestarts
    /\ dw' = DiscardStart(InvalidXid, InvalidXid, FALSE, dw.restarts + 1)
    /\ UNCHANGED <<xactVars, ctxVars, ulogVars, globalVars, requests>>

-----------------------------------------------------------------------------
(* Rollback of a requested slot, as the undo log sees it                   *)

\* execute_undo_actions first fetches the oldest record of the slot: when it
\* is gone the request was served before.  Otherwise every record is applied
\* and set_undo_slot_rollback_finish marks the slot, which may be marked
\* already.  Either way the request leaves the table.  A run that fails, or
\* stops at a row whose newest change is in a later log (ROLLBACK_RSWITCH),
\* changes nothing here and is repeated.
execute_undo_actions(l, i) ==
    /\ <<l, i>> \in requests
    /\ slots' = IF slots[l][i].start < force_discard_offset[l] THEN slots
                ELSE [slots EXCEPT ![l][i].info = "ROLLBACK"]
    /\ requests' = requests \ {<<l, i>>}
    /\ UNCHANGED <<xactVars, ctxVars, insert_offset, discard_offset,
                   force_discard_offset, recycle_slot, frozen_slot, recycle_xid, frozen,
                   undo_log_used_cout, globalVars, dw>>

\* The transaction went on in a later log and is not rolled back there yet.
RSwitch(l, i) ==
    \E k \in Logs : k > l /\ \E j \in 1 .. Len(slots[k]) :
        slots[k][j].xid = slots[l][i].xid /\ can_rollback_undo_slot(slots[k][j])

-----------------------------------------------------------------------------
Write(b) ==
    \/ \E size \in RecordSizes : undolog_switch(b, size) \/ update_undolog_meta(b, size)
    \/ release_undolog_meta(b)

Backend(b) ==
    \/ alloc_undo_log(b)
    \/ AssignTransactionId(b)
    \/ EndTransaction(b, "committed")
    \/ EndTransaction(b, "aborted")
    \/ cleanup_undo_log(b)
    \/ Write(b)

Discard ==
    \/ discard_loop
    \/ discard_skip_log
    \/ advance_frozen_xid
    \/ request_async_rollback
    \/ recycle_undo_space
    \/ recycle_release
    \/ discard_publish_frozen
    \/ discard_retry
    \/ discard_publish_recycle

Next ==
    \/ \E b \in Backends : Backend(b)
    \/ \E r \in Readers : GetSnapshotData(r) \/ ReleaseSnapshot(r)
    \/ \E x \in FeedbackXmins : StandbyFeedback(x)
    \/ \E l \in Logs : checkpoint_undo_logs(l)
    \/ Discard
    \/ discard_restart
    \/ \E r \in requests : execute_undo_actions(r[1], r[2])

Spec == Init /\ [][Next]_vars

\* Transactions, snapshots and half-written records end; the discard worker
\* loops for ever, and the launcher serves every request again and again, but
\* the part of a rollback in an earlier log may have to wait for the later one.
Fairness ==
    /\ \A b \in Backends :
        /\ WF_vars(Write(b) /\ phase[b] # "idle")
        /\ WF_vars(EndTransaction(b, "committed") \/ EndTransaction(b, "aborted"))
    /\ \A r \in Readers : WF_vars(ReleaseSnapshot(r))
    /\ WF_vars(Discard)
    /\ \A l \in Logs, i \in 1 .. Cardinality(Xids) :
        WF_vars(execute_undo_actions(l, i) /\ ~RSwitch(l, i))

FairSpec == Spec /\ Fairness

-----------------------------------------------------------------------------
(* Properties                                                              *)

XidOrNone == {InvalidXid} \cup (FirstNormalXid .. MaxXid + 1)
Slot == [xid : Xids, start : 0 .. LogSize, end : 0 .. LogSize + 1,
         info : {"INIT", "ROLLBACK"}]

Horizon == FirstNormalXid .. MaxXid + 1
DiscardLocals ==
    [pc : {"loop", "logs", "request", "recycle", "release", "publish", "having"},
     oldestXmin : Horizon, idx : 0 .. NLogs, retry : Nat, force : BOOLEAN,
     forceRecycleXid : Nat, allocate : Nat, frozenXid : Horizon, pending : Nat,
     recycle : Nat, isAnyLogUsed : BOOLEAN, oldestFrozenXidInUndo : Horizon,
     recycleXids : SUBSET Horizon, having : XidOrNone, lastHaving : XidOrNone,
     lastForceAdvanceXid : XidOrNone, restarts : Nat]

XactType ==
    /\ nextXid \in Horizon
    /\ status \in [Xids -> {"unassigned", "in_progress", "committed", "aborted"}]
    /\ xact \in [Backends -> {InvalidXid} \cup Xids]
    /\ snapshot_xmin \in [Readers -> XidOrNone]
    /\ feedback_xmin \in XidOrNone
CtxType ==
    /\ logs \in [Backends -> {NoLog} \cup Logs]
    /\ prev_xid \in [Backends -> {InvalidXid} \cup Xids]
    /\ phase \in [Backends -> {"idle", "switched", "meta"}]
    /\ urecptr \in [Backends -> 0 .. LogSize]
    /\ attached \subseteq Logs
UlogType ==
    /\ insert_offset \in [Logs -> 1 .. LogSize + 1]
    /\ discard_offset \in [Logs -> 0 .. LogSize + 1]
    /\ force_discard_offset \in [Logs -> 0 .. LogSize + 1]
    /\ recycle_xid \in [Logs -> {InvalidXid} \cup Xids]
    /\ frozen \subseteq Logs
    /\ undo_log_used_cout \in Nat
SlotType ==
    /\ slots \in [Logs -> Seq(Slot)]
    /\ recycle_slot \in [Logs -> Nat]
    /\ frozen_slot \in [Logs -> Nat]
    /\ \A l \in Logs : recycle_slot[l] <= Len(slots[l]) /\ frozen_slot[l] <= Len(slots[l])
    /\ \A r \in requests : r[1] \in Logs /\ r[2] \in 1 .. Len(slots[r[1]])
HorizonType ==
    /\ global_frozen_xid \in Horizon
    /\ global_recycle_xid \in Horizon

\* Every variable holds a value of its C type, and slot pointers stay inside
\* the sequence of allocated slots.
TypeOK == XactType /\ CtxType /\ UlogType /\ SlotType /\ HorizonType /\ dw \in DiscardLocals

Settled(s) == DidCommit(s.xid) \/ s.info = "ROLLBACK"

\* A transaction below global_frozen_xid is over, and each of its slots is
\* committed or rolled back: TransactionIdOlderThanAllUndo lets readers skip
\* undo and commit-log checks for it (recheck_undo_recycle_xid's PANIC).
FrozenSettled ==
    /\ \A x \in Xids : x < global_frozen_xid => ~InProgress(x)
    /\ \A l \in Logs : \A i \in 1 .. Len(slots[l]) :
           slots[l][i].xid < global_frozen_xid => Settled(slots[l][i])

\* recycle_undo_space, forced or not, never gives up the undo of a
\* transaction that is running or still has to be rolled back.
RecycledSettled ==
    \A l \in Logs : \A i \in 1 .. recycle_slot[l] : Settled(slots[l][i])

\* global_recycle_xid never passes a transaction whose rollback is not
\* finished, so set_undo_slot_rollback_finish never takes its PANIC and the
\* assertion in execute_xheap_undoactions holds.
GlobalRecycleBound ==
    \A l \in Logs : \A i \in 1 .. Len(slots[l]) :
        ~Settled(slots[l][i]) => slots[l][i].xid >= global_recycle_xid

\* undolog_check_undo_record_valid with checkForce, as a reader calls it.
undolog_check_undo_record_valid(l, offset) ==
    CASE offset >= insert_offset[l] -> "NOT_INSERT"
      [] offset < insert_offset[l] /\ offset >= force_discard_offset[l] -> "NORMAL"
      [] OTHER -> IF offset >= discard_offset[l]
                     /\ \E x \in OldestXminSet : recycle_xid[l] >= x
                  THEN "FORCE_DISCARD" ELSE "DISCARD"

\* A reader that holds a snapshot is never told that undo written by a
\* transaction at or after its xmin is DISCARDed (which ends the version
\* chain silently): it finds the record, or is told of the forced recycling
\* and fails with "snapshot too old".
SnapshotUndoKept ==
    \A r \in Readers, l \in Logs : \A i \in 1 .. Len(slots[l]) :
        LET s == slots[l][i]
        IN  snapshot_xmin[r] # InvalidXid /\ s.xid >= snapshot_xmin[r] /\ s.start # 0
            => \A offset \in s.start .. s.end - 1 :
                   undolog_check_undo_record_valid(l, offset) # "DISCARD"

\* Slots of a log are in xid order and their undo is contiguous from the
\* recycled end to the insert pointer, across backends that take the log
\* over: what undolog_check_recycle and the assertions of recycle_undo_space
\* test before undo is given up.
SlotsContiguous ==
    \A l \in Logs : \A i \in 1 .. Len(slots[l]) :
        LET s == slots[l][i]
        IN  /\ i > 1 => slots[l][i - 1].xid < s.xid
            /\ s.start # 0 =>
                /\ s.start < s.end /\ s.end <= insert_offset[l]
                /\ s.start = (IF i = 1 THEN 1 ELSE slots[l][i - 1].end)
                /\ i = recycle_slot[l] + 1 => s.start = force_discard_offset[l]

\* Neither horizon ever moves back, although global_frozen_xid is written
\* without being compared, over partial passes, restarts and horizons that
\* a standby pushes back.
HorizonsAdvance ==
    [][/\ global_frozen_xid' >= global_frozen_xid
       /\ global_recycle_xid' >= global_recycle_xid]_vars

\* Every aborted transaction is rolled back in the end, in each log it wrote.
AbortedRolledBack ==
    \A x \in Xids :
        status[x] = "aborted" ~>
            \A l \in Logs : \A i \in 1 .. Len(slots[l]) :
                slots[l][i].xid = x => slots[l][i].info = "ROLLBACK"

\* Once the last transaction is over, all undo is recycled.
UndoReclaimed == <>[](\A l \in Logs : recycle_slot[l] = Len(slots[l]))
=============================================================================
