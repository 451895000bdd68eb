-------------------------- MODULE UndoRecoveryInv ---------------------------
(***************************************************************************)
(* The inductive invariant of UndoRecovery: what the WAL, the pages, the   *)
(* metadata file and memory say of one another.                            *)
(***************************************************************************)
EXTENDS UndoRecovery

\* The shape of a slot on a page, of a log and of a segment in memory or in the
\* metadata file, and of what the checkpointer and the discard worker remember.
SlotRecords == [slot : Int, xid : Int, start : Int, end : Int, rollback : BOOLEAN]
Logs == [insert : Nat, discard : Nat, alloc : Nat, recycle : Nat, lsn : Nat, dirty : BOOLEAN]
Segments == [head : Nat, tail : Nat, lsn : Nat, dirty : BOOLEAN]
Checkpoints == [pc : {"idle", "logs", "data", "txn", "record"}, redo : Nat, todo : SUBSET Pages]
Discards == [pc : {"idle", "data", "slot"}, undo : Nat, slot : Nat]

\* The bounds of the two segments after n records.
DataTail(w, n, t) == TailAt(w, "extend", n, t * RecordsPerFile)
TxnTail(w, n, t) == TailAt(w, "slot_extend", n, t * SlotsPerFile)

\* The slots of a page end at or below an insert pointer.
EndUpTo(items, insert) == items \subseteq SlotRecords /\ \A r \in items : r.end \in 0 .. insert
EndsBelow(items, w, n) == EndUpTo(items, InsertAt(w, n))

\* What a record is checked against when it is written after the first n records
\* of w, each kind in terms of what those say.
Checked(rec, w, n, t) ==
    /\ rec.type = "insert" =>
          /\ rec.urp = InsertAt(w, n) /\ rec.urp + 1 < DataTail(w, n, t)
          /\ rec.slot \in 0 .. TxnTail(w, n, t) - 1 /\ rec.new \in BOOLEAN /\ rec.xid \in Int
          /\ rec.new => rec.slot = AllocAt(w, n) /\ rec.slot + 1 < TxnTail(w, n, t)
          /\ ~rec.new => rec.slot + 1 = AllocAt(w, n)
          /\ \A p \in DOMAIN rec.image : p[1] = "slot" => EndUpTo(rec.image[p], rec.urp + 1)
    /\ rec.type = "rollback_finish" =>
          /\ rec.slot \in 0 .. AllocAt(w, n) - 1
          /\ \A p \in DOMAIN rec.image : p[1] = "slot" => EndsBelow(rec.image[p], w, n)
    /\ rec.type = "discard" =>
          /\ rec.startSlot = RecycleAt(w, n) /\ rec.endSlot \in 0 .. AllocAt(w, n)
          /\ rec.endUndoPtr \in 0 .. InsertAt(w, n)
    /\ rec.type = "unlink" => rec.head \in 0 .. InsertAt(w, n)
    /\ rec.type = "slot_unlink" => rec.head \in 0 .. AllocAt(w, n)
    /\ rec.type = "extend" => rec.tail \in Nat \ {0} /\ rec.tail >= DataTail(w, n, t)
    /\ rec.type = "slot_extend" => rec.tail \in Nat /\ rec.tail >= TxnTail(w, n, t)
    /\ rec.type \in {"discard", "unlink", "slot_extend", "slot_unlink"} => DataTail(w, n, t) > 0
RecordInv(w, n, t) == Checked(w[n], w, n - 1, t)

\* The pointers and bounds that any prefix of the WAL gives are in order.
PrefixInv(w, n, t) ==
    /\ InsertAt(w, n) \in 0 .. DataTail(w, n, t) /\ AllocAt(w, n) \in 0 .. TxnTail(w, n, t)
    /\ DataTail(w, n, t) \in Nat /\ TxnTail(w, n, t) \in Nat
    /\ RecycleAt(w, n) \in 0 .. AllocAt(w, n) /\ DiscardAt(w, n) \in 0 .. InsertAt(w, n)
    /\ HeadAt(w, "unlink", n) \in 0 .. InsertAt(w, n)
    /\ HeadAt(w, "slot_unlink", n) \in 0 .. AllocAt(w, n)
    /\ AllocAt(w, n) > 0 => DataTail(w, n, t) > 0

\* A longer prefix gives no smaller insert pointer and no smaller tails.
GrowInv(w, t) ==
    \A n \in 0 .. Len(w) : \A k \in 0 .. n :
        /\ InsertAt(w, k) <= InsertAt(w, n)
        /\ DataTail(w, k, t) <= DataTail(w, n, t) /\ TxnTail(w, k, t) <= TxnTail(w, n, t)

WalInv(w, t) ==
    /\ w \in Seq(Range(w))
    /\ \A n \in 1 .. Len(w) : RecordInv(w, n, t)
    /\ \A n \in 0 .. Len(w) : PrefixInv(w, n, t)
    /\ GrowInv(w, t)

\* A log or a segment last changed by the record at its LSN is what every prefix
\* from there up to "to" says: replay from "to" on brings it up to date.
LogSpan(log, w, to) ==
    /\ log.lsn \in 0 .. Len(w)
    /\ \A n \in log.lsn .. Larger(log.lsn, to) : LogAgrees(log, w, n)
DataSpan(seg, w, to, t) ==
    /\ seg.lsn \in 0 .. Len(w)
    /\ \A n \in seg.lsn .. Larger(seg.lsn, to) : DataAgrees(seg, w, n, t)
TxnSpan(seg, w, to, t) ==
    /\ seg.lsn \in 0 .. Len(w)
    /\ \A n \in seg.lsn .. Larger(seg.lsn, to) : TxnAgrees(seg, w, n, t)

\* Memory agrees with the WAL as far as it has been written or replayed.
Replayed == IF mode = "redo" THEN next_redo - 1 ELSE Len(wal)
MemoryInv(t) ==
    mode \in {"up", "redo"} =>
        /\ LogSpan(ulog, wal, Replayed)
        /\ DataSpan(data_seg, wal, Replayed, t) /\ TxnSpan(txn_seg, wal, Replayed, t)

\* The metadata file agrees with the WAL from the LSN of each part to the redo
\* pointer, and a part that the checkpoint in progress is done with to its redo
\* pointer as well; what it holds is flushed.
MetaInv(t) ==
    /\ meta.log.lsn <= flushed /\ meta.data.lsn <= flushed /\ meta.txn.lsn <= flushed
    /\ LogSpan(meta.log, wal, control.redo)
    /\ DataSpan(meta.data, wal, control.redo, t) /\ TxnSpan(meta.txn, wal, control.redo, t)
    /\ ckpt.pc \in {"data", "txn", "record"} => LogSpan(meta.log, wal, ckpt.redo)
    /\ ckpt.pc \in {"txn", "record"} => DataSpan(meta.data, wal, ckpt.redo, t)
    /\ ckpt.pc = "record" => TxnSpan(meta.txn, wal, ckpt.redo, t)

\* What is not dirty is as the metadata file has it, and nothing is dirty before
\* the first file exists.
DirtyInv ==
    /\ ~meta.log.dirty /\ ~meta.data.dirty /\ ~meta.txn.dirty
    /\ mode \in {"up", "redo"} =>
          /\ ~ulog.dirty => ulog = meta.log
          /\ ~data_seg.dirty => data_seg = meta.data
          /\ ~txn_seg.dirty => txn_seg = meta.txn
          /\ data_seg.tail = 0 => ~ulog.dirty /\ ~data_seg.dirty /\ ~txn_seg.dirty

\* Pages carry LSNs of records, on disk of flushed ones, and the slots on them
\* end below the insert pointer of their LSN.
PageInv ==
    /\ disk = [p \in Pages |-> disk[p]]
    /\ \A p \in Pages :
          /\ buf[p].lsn \in 0 .. Len(wal) /\ disk[p].lsn \in 0 .. flushed
          /\ p[1] = "slot" => /\ EndsBelow(buf[p].items, wal, buf[p].lsn)
                              /\ EndsBelow(disk[p].items, wal, disk[p].lsn)

AllocBelow(w, x) == \A n \in 0 .. Len(w) : AllocAt(w, n) < x

\* The running transaction's slot is the last one, no slot is without a
\* transaction that used it, and the discard worker holds pointers the log has
\* reached.
WriterInv ==
    /\ nextXid \in 1 .. MaxXid + 1 /\ running \in {NoXid} \cup Xids
    /\ slot_ptr = NoSlot \/ (mode = "up" /\ slot_ptr = ulog.alloc - 1)
    /\ AllocBelow(wal, nextXid)
    /\ running # NoXid /\ slot_ptr = NoSlot => AllocBelow(wal, nextXid - 1)
    /\ dw.pc # "idle" => /\ mode = "up" /\ data_seg.tail > 0
                         /\ dw.undo \in 0 .. ulog.insert /\ dw.slot \in 0 .. ulog.alloc

ShapeInv ==
    /\ ulog \in Logs /\ data_seg \in Segments /\ txn_seg \in Segments
    /\ meta \in [log : Logs, data : Segments, txn : Segments]
    /\ ckpt \in Checkpoints /\ dw \in Discards
    /\ used = IF data_seg.tail > 0 THEN 1 ELSE 0
    /\ flushed \in 0 .. Len(wal) /\ control.redo \in 0 .. flushed
    /\ ckpt.pc # "idle" => mode = "up" /\ ckpt.redo <= Len(wal)
    /\ mode \in {"up", "down", "redo"} /\ next_redo \in 0 .. Len(wal) + 1
    /\ mode \in {"down", "redo"} => flushed = Len(wal)
    /\ mode = "redo" => next_redo > 0
    /\ mode = "up" => next_redo = 0

Inv(t) == /\ WalInv(wal, t) /\ MemoryInv(t) /\ MetaInv(t)
          /\ ShapeInv /\ DirtyInv /\ PageInv /\ WriterInv

\* A crash loses what is in memory.
DownInv == mode = "down" => ulog = EmptyLog /\ data_seg = EmptySegment /\ txn_seg = EmptySegment

\* The inductive invariant: the segments started with t files each.
IInv == DownInv /\ \E t \in InitTails : Inv(t)
=============================================================================
