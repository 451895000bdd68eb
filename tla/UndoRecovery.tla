---------------------------- MODULE UndoRecovery ----------------------------
(***************************************************************************)
(* Crash and restart of one permanent undo log: its metadata, its two      *)
(* segments, the pages of undo records, slots and heap, the WAL that       *)
(* describes their changes, and the metadata file written at checkpoints.  *)
(*                                                                         *)
(* The log grows, is rolled back and is discarded while checkpoints run in *)
(* steps; a crash keeps what is on disk and the flushed part of the WAL;   *)
(* recovery_undo_meta loads the metadata file and the redo routines replay *)
(* the WAL from the checkpoint's redo pointer.  A write to a file is       *)
(* durable at once, the server runs with full_page_writes, and commits are *)
(* synchronous.  LSNs are positions in the WAL; undo pointers and slot     *)
(* pointers count records and slots from 0.                                *)
(***************************************************************************)
EXTENDS Integers, Sequences, FiniteSetsExt

CONSTANTS
    MaxXid,         \* bound: transactions 1 .. MaxXid
    RecordsPerFile, \* undo records in a file of the data segment (one page)
    SlotsPerFile,   \* slots in a file of the slot segment (one page)
    InitTails,      \* tails of the segments at start: 0, or a restart with room left
    MaxRecords,     \* bound on insert_offset
    MaxWal,         \* bound on the length of the WAL
    MaxCheckpoints, \* bound on the checkpoints started
    MaxFaults       \* bound on crashes and page writes outside checkpoints, together

ASSUME ConstantsAssumption ==
    /\ {MaxXid, MaxRecords, MaxWal, MaxCheckpoints, MaxFaults} \subseteq Nat
    /\ InitTails \subseteq Nat
    /\ RecordsPerFile \in Nat \ {0} /\ SlotsPerFile \in Nat \ {0}

Xids == 1 .. MaxXid
NoXid == 0
NoSlot == -1

\* One page per file, and one heap page that holds every tuple.
HeapPage == <<"heap", 0>>
DataPage(urp) == <<"data", urp \div RecordsPerFile>>
SlotPage(slot) == <<"slot", slot \div SlotsPerFile>>
Pages == {HeapPage} \cup {DataPage(u) : u \in 0 .. MaxRecords}
                    \cup {SlotPage(s) : s \in 0 .. MaxXid}

VARIABLES
    \* the transactions (clog: a commit record is flushed before it shows)
    nextXid, status,
    running,      \* the xid that writes to this log
    slot_ptr,     \* undo_log_ctx->slot_ptr: its slot, NoSlot before its first record
    \* shared memory, lost in a crash
    ulog,         \* UndoLogControl: insert, discard, alloc, recycle, lsn, dirty
    data_seg, txn_seg, \* UndoSegment: head, tail, lsn, dirty
    used,         \* undo_log_used_cout, of this log
    global_frozen_xid,
    buf,          \* the pages as buffers show them
    redo_rec_ptr, \* RedoRecPtr: a page not logged since then is logged whole
    dw,           \* where recycle_undo_space is
    ckpt,         \* where the checkpointer is
    \* stable storage
    wal, flushed, \* the WAL, and how much of it is known to be on disk
    disk,         \* the pages on disk
    meta,         \* UNDO_META_FILE
    control,      \* the last checkpoint record: redo pointer and frozen xid
    \* the server
    mode,         \* "up", "down", "redo", "panic"
    next_redo,    \* the record to replay
    checkpoints, faults,
    truncated     \* history: a crash lost the record of a file already truncated

xactVars == <<nextXid, status, running, slot_ptr>>
memVars == <<ulog, data_seg, txn_seg, used>>
walVars == <<wal, flushed>>
diskVars == <<meta, control>>
serverVars == <<mode, next_redo, checkpoints, faults, truncated>>
vars == <<xactVars, memVars, global_frozen_xid, buf, redo_rec_ptr, dw, ckpt, walVars, disk,
          diskVars, serverVars>>

EmptyPage == [lsn |-> 0, items |-> {}]
EmptySegment == [head |-> 0, tail |-> 0, lsn |-> 0, dirty |-> FALSE]
EmptyLog == [insert |-> 0, discard |-> 0, alloc |-> 0, recycle |-> 0, lsn |-> 0, dirty |-> FALSE]
IdleDiscard == [pc |-> "idle", undo |-> 0, slot |-> 0]
IdleCheckpoint == [pc |-> "idle", redo |-> 0, todo |-> {}]

Init ==
    /\ nextXid = 1 /\ status = [x \in Xids |-> "unassigned"]
    /\ running = NoXid /\ slot_ptr = NoSlot
    /\ ulog = EmptyLog
    /\ \E tail \in InitTails : data_seg = [EmptySegment EXCEPT !.tail = tail * RecordsPerFile]
                             /\ txn_seg = [EmptySegment EXCEPT !.tail = tail * SlotsPerFile]
    /\ used = IF data_seg.tail = 0 THEN 0 ELSE 1
    /\ global_frozen_xid = 1
    /\ buf = [p \in Pages |-> EmptyPage] /\ disk = buf
    /\ redo_rec_ptr = 0 /\ dw = IdleDiscard /\ ckpt = IdleCheckpoint
    /\ wal = <<>> /\ flushed = 0
    /\ meta = [log |-> ulog, data |-> data_seg, txn |-> txn_seg]
    /\ control = [redo |-> 0, frozen |-> 1]
    /\ mode = "up" /\ next_redo = 0 /\ checkpoints = 0
    /\ faults = 0 /\ truncated = FALSE

Larger(a, b) == IF a < b THEN b ELSE a

-----------------------------------------------------------------------------
(* WAL and pages                                                           *)

NextLsn == Len(wal) + 1

\* XLogInsert of a record that changes no page.
XLogInsert(rec) == /\ Len(wal) < MaxWal
                   /\ wal' = Append(wal, rec)

\* Of the registered buffers, which "change" gives new contents, one that is
\* neither initialised by the record nor logged since the redo pointer goes
\* into the record whole.
Images(change, init) ==
    [p \in {q \in DOMAIN change \ init : buf[q].lsn <= redo_rec_ptr} |-> change[p]]

\* XLogInsert of a record with registered buffers.
XLogInsertPages(rec, change) ==
    /\ XLogInsert(rec)
    /\ buf' = [p \in Pages |-> IF p \in DOMAIN change
                               THEN [lsn |-> NextLsn, items |-> change[p]] ELSE buf[p]]

-----------------------------------------------------------------------------
(* The writing transaction                                                 *)

Begin ==
    /\ mode = "up" /\ running = NoXid /\ nextXid <= MaxXid
    /\ running' = nextXid /\ nextXid' = nextXid + 1
    /\ status' = [status EXCEPT ![nextXid] = "running"]
    /\ UNCHANGED <<slot_ptr, memVars, global_frozen_xid, buf, redo_rec_ptr, dw, ckpt, walVars,
                   disk, diskVars, serverVars>>

\* A segment whose next entry ends past its tail grows to the end of a file.
Extended(seg, newInsert, perFile) ==
    [seg EXCEPT !.tail = (newInsert \div perFile + 1) * perFile, !.lsn = NextLsn, !.dirty = TRUE]

\* undolog_alloc_space, when the record does not fit below the tail.
undolog_alloc_space ==
    LET seg == Extended(data_seg, ulog.insert + 1, RecordsPerFile)
    IN  /\ mode = "up" /\ running # NoXid /\ ulog.insert < MaxRecords
        /\ ulog.insert + 1 >= data_seg.tail
        /\ XLogInsert([type |-> "extend", tail |-> seg.tail])
        /\ data_seg' = seg
        /\ used' = IF data_seg.tail = 0 THEN used + 1 ELSE used
        /\ UNCHANGED <<xactVars, ulog, txn_seg, global_frozen_xid, buf, redo_rec_ptr, dw, ckpt,
                       flushed, disk, diskVars, serverVars>>

\* undolog_alloc_slot_space, for a transaction's first record, likewise.
undolog_alloc_slot_space ==
    LET seg == Extended(txn_seg, ulog.alloc + 1, SlotsPerFile)
    IN  /\ mode = "up" /\ running # NoXid /\ slot_ptr = NoSlot
        /\ ulog.insert + 1 < data_seg.tail /\ ulog.alloc + 1 >= txn_seg.tail
        /\ XLogInsert([type |-> "slot_extend", tail |-> seg.tail])
        /\ txn_seg' = seg
        /\ UNCHANGED <<xactVars, ulog, data_seg, used, global_frozen_xid, buf, redo_rec_ptr, dw,
                       ckpt, flushed, disk, diskVars, serverVars>>

SlotsOn(items, s) == {r \in items : r.slot = s}

\* The slot page after a record at urp: a new slot, or a later end.
SlotItems(items, s, x, urp, new) ==
    IF new THEN items \cup {[slot |-> s, xid |-> x, start |-> urp, end |-> urp + 1,
                             rollback |-> FALSE]}
    ELSE {IF r.slot = s THEN [r EXCEPT !.end = urp + 1] ELSE r : r \in items}

\* The critical section of a heap change: the tuple, the undo record and the
\* slot change, and one WAL record describes them (insert_prepared_undo,
\* update_undolog_meta, set_undolog_meta_lsn, release_undolog_meta).
insert_prepared_undo ==
    LET urp == ulog.insert
        new == slot_ptr = NoSlot
        slot == IF new THEN ulog.alloc ELSE slot_ptr
        item == [urp |-> urp, xid |-> running]
        zero == {p \in {DataPage(urp)} : urp % RecordsPerFile = 0}
                    \cup {p \in {SlotPage(slot)} : new /\ slot % SlotsPerFile = 0}
        old == [p \in Pages |-> IF p \in zero THEN {} ELSE buf[p].items]
        change == [p \in {HeapPage, DataPage(urp), SlotPage(slot)} |->
                      IF p = SlotPage(slot) THEN SlotItems(old[p], slot, running, urp, new)
                      ELSE old[p] \cup {item}]
    IN  /\ mode = "up" /\ running # NoXid /\ urp < MaxRecords
        /\ urp + 1 < data_seg.tail /\ (new => slot + 1 < txn_seg.tail)
        /\ XLogInsertPages([type |-> "insert", xid |-> running, urp |-> urp, slot |-> slot,
                            new |-> new, init |-> zero, image |-> Images(change, zero)], change)
        /\ ulog' = [ulog EXCEPT !.insert = urp + 1, !.alloc = IF new THEN slot + 1 ELSE @,
                                !.lsn = NextLsn, !.dirty = TRUE]
        /\ slot_ptr' = slot
        /\ UNCHANGED <<nextXid, status, running, data_seg, txn_seg, used, global_frozen_xid,
                       redo_rec_ptr, dw, ckpt, flushed, disk, diskVars, serverVars>>

\* A transaction that wrote something ends.
Commit ==
    /\ mode = "up" /\ running # NoXid /\ slot_ptr # NoSlot
    /\ XLogInsert([type |-> "commit", xid |-> running])
    /\ flushed' = NextLsn
    /\ status' = [status EXCEPT ![running] = "committed"]
    /\ running' = NoXid /\ slot_ptr' = NoSlot
    /\ UNCHANGED <<nextXid, memVars, global_frozen_xid, buf, redo_rec_ptr, dw, ckpt, disk,
                   diskVars, serverVars>>

Abort ==
    /\ mode = "up" /\ running # NoXid /\ slot_ptr # NoSlot
    /\ status' = [status EXCEPT ![running] = "aborted"]
    /\ running' = NoXid /\ slot_ptr' = NoSlot
    /\ UNCHANGED <<nextXid, memVars, global_frozen_xid, buf, redo_rec_ptr, dw, ckpt, walVars,
                   disk, diskVars, serverVars>>

-----------------------------------------------------------------------------
(* Rollback                                                                *)

Slots == {s \in ulog.recycle .. ulog.alloc - 1 : SlotsOn(buf[SlotPage(s)].items, s) # {}}
SlotAt(s) == CHOOSE r \in buf[SlotPage(s)].items : r.slot = s
CanRollback(s) == status[SlotAt(s).xid] = "aborted" /\ ~SlotAt(s).rollback

\* What a slot's undo still has to take back from the heap.
Changes(s) == {i \in buf[HeapPage].items : /\ i.xid = SlotAt(s).xid
                                           /\ i.urp \in SlotAt(s).start .. SlotAt(s).end - 1}

\* A batch of undo records is read, from the last one down to "first", and the
\* changes of the page are taken back in one record.
execute_undo_actions ==
    /\ mode = "up"
    /\ \E s \in Slots : \E first \in Changes(s) :
           LET batch == {i \in Changes(s) : i.urp >= first.urp}
               change == [p \in {HeapPage} |-> buf[p].items \ batch]
           IN  /\ CanRollback(s)
               /\ \A i \in batch : i \in buf[DataPage(i.urp)].items
               /\ XLogInsertPages([type |-> "undo", batch |-> batch, init |-> {},
                                   image |-> Images(change, {})], change)
    /\ UNCHANGED <<xactVars, memVars, global_frozen_xid, redo_rec_ptr, dw, ckpt, flushed, disk,
                   diskVars, serverVars>>

Finish(items, s) == {IF r.slot = s THEN [r EXCEPT !.rollback = TRUE] ELSE r : r \in items}

set_undo_slot_rollback_finish ==
    /\ mode = "up"
    /\ \E s \in Slots :
           LET change == [p \in {SlotPage(s)} |-> Finish(buf[p].items, s)]
           IN  /\ CanRollback(s) /\ Changes(s) = {}
               /\ XLogInsertPages([type |-> "rollback_finish", slot |-> s, init |-> {},
                                   image |-> Images(change, {})], change)
    /\ UNCHANGED <<xactVars, memVars, global_frozen_xid, redo_rec_ptr, dw, ckpt, flushed, disk,
                   diskVars, serverVars>>

-----------------------------------------------------------------------------
(* The discard worker                                                      *)

Settled(s) == s \in Slots /\ (status[SlotAt(s).xid] = "committed" \/ SlotAt(s).rollback)

\* recycle_undo_space under the log's lock: a run of settled slots on one page
\* is given up; snapshots decide how far it may go.
recycle_undo_space ==
    /\ mode = "up" /\ dw.pc = "idle"
    /\ \E last \in ulog.recycle .. ulog.alloc - 1 :
           LET undo == SlotAt(last).end
           IN  /\ SlotPage(last) = SlotPage(ulog.recycle)
               /\ \A s \in ulog.recycle .. last : Settled(s)
               /\ XLogInsert([type |-> "discard", startSlot |-> ulog.recycle,
                              endSlot |-> last + 1, endUndoPtr |-> undo])
               /\ ulog' = [ulog EXCEPT !.recycle = last + 1, !.discard = undo,
                                       !.lsn = NextLsn, !.dirty = TRUE]
               /\ dw' = [pc |-> "data", undo |-> undo, slot |-> last + 1]
    /\ UNCHANGED <<xactVars, data_seg, txn_seg, used, global_frozen_xid, buf, redo_rec_ptr,
                   ckpt, flushed, disk, diskVars, serverVars>>

\* The files of a segment below "to": their buffers are forgotten and the files
\* truncated; a checkpoint in progress no longer writes them.
Files(kind, from, to, perFile) == {<<kind, f>> : f \in from \div perFile .. to \div perFile - 1}
Unlink(pages) ==
    /\ buf' = [p \in Pages |-> IF p \in pages THEN EmptyPage ELSE buf[p]]
    /\ disk' = [p \in Pages |-> IF p \in pages THEN EmptyPage ELSE disk[p]]

\* undolog_release_space: whole files below the discard pointer go, first from
\* the file system, then in the WAL.
undolog_release_space ==
    LET head == (dw.undo \div RecordsPerFile) * RecordsPerFile
        files == Files("data", data_seg.head, dw.undo, RecordsPerFile)
    IN  /\ mode = "up" /\ dw.pc = "data"
        /\ dw' = [dw EXCEPT !.pc = "slot"]
        /\ IF files = {} THEN UNCHANGED <<data_seg, buf, disk, wal, ckpt>>
           ELSE
              /\ Unlink(files)
              /\ ckpt' = [ckpt EXCEPT !.todo = @ \ files]
              /\ XLogInsert([type |-> "unlink", prevhead |-> data_seg.head, head |-> head])
              /\ data_seg' = [data_seg EXCEPT !.head = head, !.lsn = NextLsn, !.dirty = TRUE]
        /\ UNCHANGED <<xactVars, ulog, txn_seg, used, global_frozen_xid, redo_rec_ptr, flushed,
                       diskVars, serverVars>>

\* undolog_release_slot_space: likewise for the files of slots.
undolog_release_slot_space ==
    LET head == (dw.slot \div SlotsPerFile) * SlotsPerFile
        files == Files("slot", txn_seg.head, dw.slot, SlotsPerFile)
    IN  /\ mode = "up" /\ dw.pc = "slot"
        /\ dw' = IdleDiscard
        /\ IF files = {} THEN UNCHANGED <<txn_seg, buf, disk, wal, ckpt>>
           ELSE
              /\ Unlink(files)
              /\ ckpt' = [ckpt EXCEPT !.todo = @ \ files]
              /\ XLogInsert([type |-> "slot_unlink", prevhead |-> txn_seg.head, head |-> head])
              /\ txn_seg' = [txn_seg EXCEPT !.head = head, !.lsn = NextLsn, !.dirty = TRUE]
        /\ UNCHANGED <<xactVars, ulog, data_seg, used, global_frozen_xid, redo_rec_ptr, flushed,
                       diskVars, serverVars>>

\* advance_frozen_xid looks at each slot in use.  Where a slot was lost with
\* its file it finds no xid, and answers with the horizon as it is.
NoSlotMissing == Slots = ulog.recycle .. ulog.alloc - 1

\* Mutant: what waits for rollback does not hold the horizon back.
FrozenXids_NotHeld ==
    LET held == {x \in Xids : status[x] = "running"} \cup {nextXid}
    IN  {global_frozen_xid} \cup {x \in {Min(held)} : NoSlotMissing}

\* The horizons a pass of the discard worker may have published: no later than
\* the oldest xid that is running or still has to be rolled back, and the one
\* before when a slot is missing.
FrozenXids ==
    LET held == {x \in Xids : status[x] = "running"} \cup {nextXid}
                    \cup {SlotAt(s).xid : s \in {t \in Slots : ~Settled(t)}}
    IN  {global_frozen_xid} \cup {x \in {Min(held)} : NoSlotMissing}

-----------------------------------------------------------------------------
(* Writing out                                                             *)

\* The checkpointer writes in the order of relation and block: undo files carry
\* their log number, which is less than any table's.
Before(p, q) == p[1] # "heap" /\ (q[1] = "heap" \/ p[2] < q[2])
NextToWrite == {p \in ckpt.todo : \A q \in ckpt.todo : ~Before(q, p)}

\* Mutant: the page is written ahead of its WAL.
FlushBuffer_NoWal(p) ==
    /\ mode \in {"up", "redo"} /\ buf[p] # disk[p]
    /\ p \in NextToWrite \/ faults < MaxFaults
    /\ faults' = IF p \in NextToWrite THEN faults ELSE faults + 1
    /\ disk' = [disk EXCEPT ![p] = buf[p]]
    /\ ckpt' = [ckpt EXCEPT !.todo = @ \ {p}]
    /\ UNCHANGED <<xactVars, memVars, global_frozen_xid, buf, redo_rec_ptr, dw, walVars,
                   diskVars, mode, next_redo, checkpoints, truncated>>

\* FlushBuffer: the checkpointer, or whoever needs the buffer, writes a page
\* after the WAL up to its LSN.
FlushBuffer(p) ==
    /\ mode \in {"up", "redo"} /\ buf[p] # disk[p]
    /\ p \in NextToWrite \/ faults < MaxFaults
    /\ faults' = IF p \in NextToWrite THEN faults ELSE faults + 1
    /\ flushed' = Larger(flushed, buf[p].lsn)
    /\ disk' = [disk EXCEPT ![p] = buf[p]]
    /\ ckpt' = [ckpt EXCEPT !.todo = @ \ {p}]
    /\ UNCHANGED <<xactVars, memVars, global_frozen_xid, buf, redo_rec_ptr, dw, wal, diskVars,
                   mode, next_redo, checkpoints, truncated>>

\* CreateCheckPoint takes the redo pointer; pages dirty now will be written.
CreateCheckPoint ==
    /\ mode = "up" /\ ckpt.pc = "idle" /\ checkpoints < MaxCheckpoints
    /\ redo_rec_ptr' = Len(wal)
    /\ ckpt' = [pc |-> "logs", redo |-> Len(wal), todo |-> {p \in Pages : buf[p] # disk[p]}]
    /\ checkpoints' = checkpoints + 1
    /\ UNCHANGED <<xactVars, memVars, global_frozen_xid, buf, dw, walVars, disk, diskVars, mode,
                   next_redo, faults, truncated>>

\* Mutant: the metadata file is written ahead of the WAL.
checkpoint_undo_logs_NoWal ==
    /\ mode = "up" /\ ckpt.pc = "logs" /\ ckpt.todo = {}
    /\ ckpt' = [ckpt EXCEPT !.pc = IF used = 0 THEN "record" ELSE "data"]
    /\ ulog' = [ulog EXCEPT !.dirty = FALSE]
    /\ meta' = IF used > 0 /\ ulog.dirty THEN [meta EXCEPT !.log = ulog'] ELSE meta
    /\ UNCHANGED <<xactVars, data_seg, txn_seg, used, global_frozen_xid, buf, redo_rec_ptr, dw,
                   walVars, disk, control, serverVars>>

\* checkpoint_undo_meta, after the buffers: nothing when no log is in use, else
\* checkpoint_undo_logs copies the log under its lock if it is dirty, and writes
\* the copy once the WAL up to its LSN is on disk.
checkpoint_undo_logs ==
    /\ mode = "up" /\ ckpt.pc = "logs" /\ ckpt.todo = {}
    /\ ckpt' = [ckpt EXCEPT !.pc = IF used = 0 THEN "record" ELSE "data"]
    /\ \/ /\ used > 0 /\ ulog.dirty
          /\ flushed' = Larger(flushed, ulog.lsn)
          /\ ulog' = [ulog EXCEPT !.dirty = FALSE]
          /\ meta' = [meta EXCEPT !.log = ulog']
       \/ /\ used = 0 \/ ~ulog.dirty
          /\ UNCHANGED <<flushed, ulog, meta>>
    /\ UNCHANGED <<xactVars, data_seg, txn_seg, used, global_frozen_xid, buf, redo_rec_ptr, dw,
                   wal, disk, control, serverVars>>

\* checkpoint_undo_segment for the data segment, then for the slot segment.
checkpoint_undo_segment ==
    /\ mode = "up"
    /\ \/ /\ ckpt.pc = "data"
          /\ ckpt' = [ckpt EXCEPT !.pc = "txn"]
          /\ data_seg' = [data_seg EXCEPT !.dirty = FALSE]
          /\ meta' = IF data_seg.dirty THEN [meta EXCEPT !.data = data_seg'] ELSE meta
          /\ flushed' = IF data_seg.dirty THEN Larger(flushed, data_seg.lsn) ELSE flushed
          /\ UNCHANGED txn_seg
       \/ /\ ckpt.pc = "txn"
          /\ ckpt' = [ckpt EXCEPT !.pc = "record"]
          /\ txn_seg' = [txn_seg EXCEPT !.dirty = FALSE]
          /\ meta' = IF txn_seg.dirty THEN [meta EXCEPT !.txn = txn_seg'] ELSE meta
          /\ flushed' = IF txn_seg.dirty THEN Larger(flushed, txn_seg.lsn) ELSE flushed
          /\ UNCHANGED data_seg
    /\ UNCHANGED <<xactVars, ulog, used, global_frozen_xid, buf, redo_rec_ptr, dw, wal, disk,
                   control, serverVars>>

\* The checkpoint record, with the frozen xid of the moment, is flushed and the
\* control file points to it.
CheckpointRecord ==
    /\ mode = "up" /\ ckpt.pc = "record"
    /\ global_frozen_xid' \in FrozenXids
    /\ XLogInsert([type |-> "checkpoint", frozen |-> global_frozen_xid'])
    /\ flushed' = NextLsn
    /\ control' = [redo |-> ckpt.redo, frozen |-> global_frozen_xid']
    /\ ckpt' = IdleCheckpoint
    /\ UNCHANGED <<xactVars, memVars, buf, redo_rec_ptr, dw, disk, meta,
                   serverVars>>

-----------------------------------------------------------------------------
(* Crash and recovery                                                      *)

\* Memory is gone, and so is the WAL past what was flushed on request or by the
\* WAL writer before the crash; whoever had not committed has aborted.
Crash ==
    /\ mode \in {"up", "redo"} /\ faults < MaxFaults
    /\ faults' = faults + 1 /\ mode' = "down"
    /\ flushed' \in flushed .. Len(wal)
    /\ wal' = SubSeq(wal, 1, flushed')
    /\ buf' = disk
    /\ status' = [x \in Xids |-> IF status[x] = "running" THEN "aborted" ELSE status[x]]
    /\ running' = NoXid /\ slot_ptr' = NoSlot
    /\ ulog' = EmptyLog /\ data_seg' = EmptySegment /\ txn_seg' = EmptySegment /\ used' = 0
    /\ global_frozen_xid' = 1 /\ redo_rec_ptr' = 0
    /\ dw' = IdleDiscard /\ ckpt' = IdleCheckpoint
    /\ truncated' = (truncated \/ \E i \in flushed' + 1 .. Len(wal) :
                                      wal[i].type \in {"unlink", "slot_unlink"})
    /\ UNCHANGED <<nextXid, disk, diskVars, next_redo, checkpoints>>

\* Before redo, recovery_undo_meta reads the metadata file, and the control
\* file gives the redo pointer and the frozen xid.
recovery_undo_meta ==
    /\ mode = "down" /\ mode' = "redo"
    /\ ulog' = meta.log /\ data_seg' = meta.data /\ txn_seg' = meta.txn
    /\ used' = IF meta.data.tail > 0 THEN 1 ELSE 0
    /\ global_frozen_xid' = control.frozen
    /\ redo_rec_ptr' = control.redo /\ next_redo' = control.redo + 1
    /\ UNCHANGED <<xactVars, buf, dw, ckpt, walVars, disk, diskVars, checkpoints, faults,
                   truncated>>

\* What a change is made to: a page that the record initialises starts empty.
Base(rec, p) == IF p \in rec.init THEN {} ELSE buf[p].items

\* XLogReadBufferForRedo and the change itself, which leaves "after" on the pages
\* not skipped: an image or a new page replaces whatever is there, an older page
\* is changed, and a page that was never written is not found.
RedoPages(rec, after) ==
    buf' = [p \in Pages |->
               IF p \notin DOMAIN after THEN buf[p]
               ELSE IF p \in DOMAIN rec.image THEN [lsn |-> next_redo, items |-> rec.image[p]]
               ELSE IF p \in rec.init \/ buf[p].lsn \in 1 .. next_redo - 1
                    THEN [lsn |-> next_redo, items |-> after[p]]
               ELSE buf[p]]

\* A check that fails ends the server with PANIC, whatever else the step does.
PanicIf(failed) == mode' = IF failed THEN "panic" ELSE mode

\* Mutants: off by one at the tail, and at the head, of a segment.
PastTail_OneEarly(rec) == rec.urp + 2 >= data_seg.tail \/ rec.slot >= txn_seg.tail
is_skip_insert_slot_AtHead(slot) == slot <= txn_seg.head

\* is_skip_insert_undo (page by page in load_prepare_buffers_by_xlog) and
\* is_skip_insert_slot: what lies in a removed file is skipped, and a record past
\* the tail stops recovery.
is_skip_insert_undo(urp) == urp - (urp % RecordsPerFile) < data_seg.head
is_skip_insert_slot(slot) == slot < txn_seg.head
PastTail(rec) == rec.urp + 1 >= data_seg.tail \/ rec.slot >= txn_seg.tail

\* Redo of a heap change, of its undo record and (redo_undo_meta) of its slot.
redo_undo_meta(rec) ==
    LET item == [urp |-> rec.urp, xid |-> rec.xid]
        pages == {HeapPage}
                     \cup {p \in {DataPage(rec.urp)} : ~is_skip_insert_undo(rec.urp)}
                     \cup {p \in {SlotPage(rec.slot)} : ~is_skip_insert_slot(rec.slot)}
    IN  /\ rec.type = "insert"
        /\ PanicIf(PastTail(rec))
        /\ RedoPages(rec, [p \in pages |->
                              IF p = SlotPage(rec.slot)
                              THEN SlotItems(Base(rec, p), rec.slot, rec.xid, rec.urp, rec.new)
                              ELSE Base(rec, p) \cup {item}])
        /\ ulog' = IF ulog.lsn < next_redo
                   THEN [ulog EXCEPT !.insert = rec.urp + 1,
                                     !.alloc = IF rec.new THEN rec.slot + 1 ELSE @,
                                     !.lsn = next_redo, !.dirty = TRUE]
                   ELSE ulog
        /\ UNCHANGED <<data_seg, txn_seg, used, global_frozen_xid, disk>>

xheap_undo_xlog_page(rec) ==
    /\ rec.type = "undo"
    /\ RedoPages(rec, [p \in {HeapPage} |-> Base(rec, p) \ rec.batch])
    /\ UNCHANGED <<ulog, data_seg, txn_seg, used, global_frozen_xid, disk, mode>>

xlog_undo_rollback_finish_redo(rec) ==
    LET pages == {p \in {SlotPage(rec.slot)} : ~is_skip_insert_slot(rec.slot)}
    IN  /\ rec.type = "rollback_finish"
        /\ PanicIf(rec.slot >= txn_seg.tail)
        /\ RedoPages(rec, [p \in pages |-> Finish(Base(rec, p), rec.slot)])
        /\ UNCHANGED <<ulog, data_seg, txn_seg, used, global_frozen_xid, disk>>

\* The pointers move unless the metadata file already had them; the record
\* must start where the log was recycled so far (an assertion).
xlog_undo_discard_redo(rec) ==
    /\ rec.type = "discard"
    /\ PanicIf(ulog.lsn < next_redo /\ rec.startSlot # ulog.recycle)
    /\ ulog' = IF ulog.lsn < next_redo
               THEN [ulog EXCEPT !.recycle = rec.endSlot, !.discard = rec.endUndoPtr,
                                 !.lsn = next_redo, !.dirty = TRUE]
               ELSE ulog
    /\ UNCHANGED <<data_seg, txn_seg, used, global_frozen_xid, buf, disk>>

\* xlog_undo_extend_redo and xlog_undo_extend_txnslot_redo.
ExtendRedo(seg, rec) ==
    IF seg.lsn < next_redo THEN [seg EXCEPT !.tail = Larger(@, rec.tail), !.lsn = next_redo,
                                            !.dirty = TRUE]
    ELSE seg
xlog_undo_extend_redo(rec) ==
    /\ \/ /\ rec.type = "extend"
          /\ data_seg' = ExtendRedo(data_seg, rec)
          /\ used' = IF data_seg.tail = 0 THEN used + 1 ELSE used
          /\ UNCHANGED txn_seg
       \/ /\ rec.type = "slot_extend"
          /\ txn_seg' = ExtendRedo(txn_seg, rec)
          /\ UNCHANGED <<data_seg, used>>
    /\ UNCHANGED <<ulog, global_frozen_xid, buf, disk, mode>>

\* xlog_undo_unlink_redo and xlog_undo_unlink_txnslot_redo: the files go even
\* when the metadata file already has the new head.
UnlinkRedo(seg, rec) ==
    IF seg.lsn < next_redo THEN [seg EXCEPT !.head = rec.head, !.lsn = next_redo, !.dirty = TRUE]
    ELSE seg
xlog_undo_unlink_redo(rec) ==
    /\ \/ /\ rec.type = "unlink"
          /\ Unlink(Files("data", rec.prevhead, rec.head, RecordsPerFile))
          /\ data_seg' = UnlinkRedo(data_seg, rec)
          /\ UNCHANGED txn_seg
       \/ /\ rec.type = "slot_unlink"
          /\ Unlink(Files("slot", rec.prevhead, rec.head, SlotsPerFile))
          /\ txn_seg' = UnlinkRedo(txn_seg, rec)
          /\ UNCHANGED data_seg
    /\ UNCHANGED <<ulog, used, global_frozen_xid, mode>>

\* A commit changes the commit log, a checkpoint record sets the frozen xid.
xlog_redo(rec) ==
    /\ rec.type \in {"commit", "checkpoint"}
    /\ global_frozen_xid' = IF rec.type = "checkpoint" THEN rec.frozen ELSE global_frozen_xid
    /\ UNCHANGED <<ulog, data_seg, txn_seg, used, buf, disk, mode>>

Redo ==
    /\ mode = "redo" /\ next_redo <= Len(wal)
    /\ LET rec == wal[next_redo]
       IN  \/ redo_undo_meta(rec) \/ xheap_undo_xlog_page(rec)
           \/ xlog_undo_rollback_finish_redo(rec) \/ xlog_undo_discard_redo(rec)
           \/ xlog_undo_extend_redo(rec) \/ xlog_undo_unlink_redo(rec) \/ xlog_redo(rec)
    /\ next_redo' = next_redo + 1
    /\ UNCHANGED <<xactVars, redo_rec_ptr, dw, ckpt, walVars, diskVars, checkpoints, faults,
                   truncated>>

EndOfRecovery ==
    /\ mode = "redo" /\ next_redo > Len(wal)
    /\ mode' = "up" /\ next_redo' = 0
    /\ UNCHANGED <<xactVars, memVars, global_frozen_xid, buf, redo_rec_ptr, dw, ckpt, walVars,
                   disk, diskVars, checkpoints, faults,
                   truncated>>

Next ==
    \/ Begin \/ undolog_alloc_space \/ undolog_alloc_slot_space \/ insert_prepared_undo
    \/ Commit \/ Abort
    \/ execute_undo_actions \/ set_undo_slot_rollback_finish
    \/ recycle_undo_space \/ undolog_release_space \/ undolog_release_slot_space
    \/ (\E p \in Pages : FlushBuffer(p))
    \/ CreateCheckPoint \/ checkpoint_undo_logs \/ checkpoint_undo_segment \/ CheckpointRecord
    \/ Crash \/ recovery_undo_meta \/ Redo \/ EndOfRecovery

Spec == Init /\ [][Next]_vars

-----------------------------------------------------------------------------
(* Properties                                                              *)

\* The WAL is flushed up to a record it has, pages on disk carry LSNs of
\* flushed records (the WAL rule), and the pointers of the log and the bounds
\* of its segments are in order, during redo as well.
TypeOK ==
    /\ mode \in {"up", "down", "redo", "panic"} /\ next_redo \in 0 .. Len(wal) + 1
    /\ flushed \in 0 .. Len(wal) /\ control.redo <= flushed
    /\ \A p \in Pages : disk[p].lsn <= flushed
    /\ ulog.recycle <= ulog.alloc /\ ulog.discard <= ulog.insert
    /\ data_seg.head <= data_seg.tail /\ txn_seg.head <= txn_seg.tail
    /\ used \in {0, 1} /\ running \in {NoXid} \cup Xids


\* Recovery never meets a record past the tail of its segment nor a discard
\* record out of sequence: is_skip_insert_undo, is_skip_insert_slot and the
\* assertion in xlog_undo_discard_redo hold at every crash point.
RedoNeverPanics == mode # "panic"

\* The last record of a type among the first n of a WAL w, 0 if there is none,
\* and what those n records say of the pointers and bounds.
Last(w, type, n) == Max({0} \cup {i \in 1 .. n : w[i].type = type})
InsertAt(w, n) == LET i == Last(w, "insert", n) IN IF i = 0 THEN 0 ELSE w[i].urp + 1
AllocAt(w, n) == LET i == Last(w, "insert", n) IN IF i = 0 THEN 0 ELSE w[i].slot + 1
RecycleAt(w, n) == LET i == Last(w, "discard", n) IN IF i = 0 THEN 0 ELSE w[i].endSlot
DiscardAt(w, n) == LET i == Last(w, "discard", n) IN IF i = 0 THEN 0 ELSE w[i].endUndoPtr
HeadAt(w, unlink, n) == LET i == Last(w, unlink, n) IN IF i = 0 THEN 0 ELSE w[i].head
TailAt(w, extend, n, start) ==
    LET i == Last(w, extend, n) IN IF i = 0 THEN start ELSE w[i].tail

\* A log, and its two segments that started with t files, are as the first n
\* records say.
LogAgrees(log, w, n) ==
    /\ log.insert = InsertAt(w, n) /\ log.alloc = AllocAt(w, n)
    /\ log.recycle = RecycleAt(w, n) /\ log.discard = DiscardAt(w, n)
DataAgrees(seg, w, n, t) == /\ seg.head = HeadAt(w, "unlink", n)
                            /\ seg.tail = TailAt(w, "extend", n, t * RecordsPerFile)
TxnAgrees(seg, w, n, t) == /\ seg.head = HeadAt(w, "slot_unlink", n)
                           /\ seg.tail = TailAt(w, "slot_extend", n, t * SlotsPerFile)

\* While the server is up, the log's pointers and its segments' bounds are what
\* the whole WAL says, whichever mixture of an old metadata file and replayed
\* records they came from.
PointersMatchWal ==
    mode = "up" =>
        /\ LogAgrees(ulog, wal, Len(wal))
        /\ \E t \in InitTails : /\ DataAgrees(data_seg, wal, Len(wal), t)
                                /\ TxnAgrees(txn_seg, wal, Len(wal), t)

\* Every change of an aborted transaction that is in the heap can be taken
\* back: a slot not yet recycled covers its undo record, and the record is there.
UndoAvailable ==
    mode = "up" =>
        \A i \in buf[HeapPage].items :
            status[i.xid] # "committed" =>
                /\ i \in buf[DataPage(i.urp)].items
                /\ \E s \in Slots : /\ SlotAt(s).xid = i.xid /\ ~SlotAt(s).rollback
                                    /\ i.urp \in SlotAt(s).start .. SlotAt(s).end - 1

\* No slot between the recycle and the allocation pointer is lost, and what is
\* to be rolled back can be, unless a crash met a truncated file whose record
\* was not flushed.
UndoKept ==
    ~truncated => UndoAvailable /\ (mode = "up" => Slots = ulog.recycle .. ulog.alloc - 1)

\* A transaction below the frozen xid, before and after a crash, has committed
\* or left nothing in the heap.
FrozenGone ==
    mode = "up" => \A i \in buf[HeapPage].items :
                       i.xid < global_frozen_xid => status[i.xid] = "committed"
=============================================================================
