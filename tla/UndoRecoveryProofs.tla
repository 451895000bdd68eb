------------------------- MODULE UndoRecoveryProofs -------------------------
(***************************************************************************)
(* Proof that recovery of an undo log never meets a record it cannot place *)
(* and brings the pointers and the segments' bounds back to what the WAL   *)
(* says, for any number of crashes and checkpoints.                        *)
(***************************************************************************)
EXTENDS UndoRecoveryStepProofs

-----------------------------------------------------------------------------
(* The steps: writing out                                                  *)

\* More of the WAL is flushed.
LEMMA FlushMeta ==
    ASSUME NEW t \in InitTails, Inv(t), UNCHANGED <<meta, control, wal>>, flushed' \in Nat,
           flushed <= flushed', ckpt'.pc = ckpt.pc, ckpt'.redo = ckpt.redo
    PROVE  MetaInv(t)'
<1>1. MetaInv(t) /\ ShapeInv
   BY Zenon DEF Inv
<1>2. /\ meta.log \in Logs /\ meta.data \in Segments /\ meta.txn \in Segments /\ flushed \in Nat
   BY <1>1 DEF ShapeInv
<1>3. /\ meta.log.lsn <= flushed' /\ meta.data.lsn <= flushed' /\ meta.txn.lsn <= flushed'
   <2>1. meta.log.lsn \in Nat /\ meta.data.lsn \in Nat /\ meta.txn.lsn \in Nat
      BY <1>2 DEF Logs, Segments
   <2>2. meta.log.lsn <= flushed /\ meta.data.lsn <= flushed /\ meta.txn.lsn <= flushed
      BY <1>1, Zenon DEF MetaInv
   <2> QED BY <1>2, <2>1, <2>2
<1> QED BY <1>1, <1>3, Zenon DEF MetaInv

\* FlushBuffer writes a page behind its WAL.
LEMMA FlushStep ==
    ASSUME NEW t \in InitTails, Inv(t), NEW p \in Pages, FlushBuffer(p)
    PROVE  Inv(t)'
<1>1. /\ flushed' = Larger(flushed, buf[p].lsn) /\ disk' = [disk EXCEPT ![p] = buf[p]]
      /\ ckpt' = [ckpt EXCEPT !.todo = @ \ {p}]
      /\ UNCHANGED <<nextXid, running, slot_ptr, ulog, data_seg, txn_seg, used, buf, dw, wal, meta, control,
                     mode, next_redo>>
   BY Zenon DEF FlushBuffer, xactVars, memVars, diskVars
<1>2. ShapeInv /\ WriterInv /\ PageInv /\ WalInv(wal, t)
   BY Zenon DEF Inv
<1>3. /\ Len(wal) \in Nat /\ flushed \in 0 .. Len(wal) /\ buf[p].lsn \in 0 .. Len(wal)
   BY <1>2 DEF ShapeInv, PageInv, WalInv
<1>4. /\ flushed' \in 0 .. Len(wal) /\ flushed <= flushed' /\ flushed' \in Nat
      /\ buf[p].lsn \in 0 .. flushed' /\ \A k \in 0 .. flushed : k \in 0 .. flushed'
      /\ flushed = Len(wal) => flushed' = Len(wal)
   BY <1>1, <1>3 DEF Larger
<1>5. ckpt' \in Checkpoints /\ ckpt'.pc = ckpt.pc /\ ckpt'.redo = ckpt.redo
   <2>1. ckpt \in Checkpoints
      BY <1>2, Zenon DEF ShapeInv
   <2> QED BY <1>1, <2>1, Zenon DEF Checkpoints
<1>6. MemoryInv(t)' /\ WalInv(wal, t)' /\ DirtyInv' /\ WriterInv'
   BY <1>1, Zenon DEF Inv, MemoryInv, Replayed, DirtyInv, WriterInv
<1>7. MetaInv(t)'
   BY <1>1, <1>4, <1>5, FlushMeta, Zenon
<1>8. ShapeInv'
   <2>1. control.redo \in 0 .. flushed'
      BY <1>2, <1>4, Zenon DEF ShapeInv
   <2> QED BY <1>1, <1>2, <1>4, <1>5, <2>1, Zenon DEF ShapeInv
<1>9. PageInv'
   <2>1. disk = [q \in Pages |-> disk[q]]
      BY <1>2, Zenon DEF PageInv
   <2>2. disk' = [q \in Pages |-> IF q = p THEN buf[p] ELSE disk[q]]
      BY <1>1, <2>1
   <2>3. disk' = [q \in Pages |-> disk'[q]] /\ \A q \in Pages : disk'[q] = IF q = p THEN buf[p] ELSE disk[q]
      BY <2>2, Zenon
   <2> QED BY <1>1, <1>2, <1>4, <2>3, Zenon DEF PageInv
<1> QED BY <1>6, <1>7, <1>8, <1>9, Zenon DEF Inv

\* CreateCheckPoint takes the redo pointer.
LEMMA CheckPointStep ==
    ASSUME NEW t \in InitTails, Inv(t), CreateCheckPoint
    PROVE  Inv(t)'
<1>1. /\ mode = "up"
      /\ ckpt' = [pc |-> "logs", redo |-> Len(wal), todo |-> {p \in Pages : buf[p] # disk[p]}]
      /\ UNCHANGED <<nextXid, running, slot_ptr, ulog, data_seg, txn_seg, used, buf, dw, wal, flushed, disk,
                     meta, control, mode, next_redo>>
   BY Zenon DEF CreateCheckPoint, xactVars, memVars, diskVars, walVars
<1>2. ckpt'.pc = "logs" /\ ckpt'.redo = Len(wal) /\ Len(wal) <= Len(wal) /\ ckpt' \in Checkpoints
   <2>1. Len(wal) \in Nat
      BY <1>1, Now
   <2> QED BY <1>1, <2>1 DEF Checkpoints
<1>3. MemoryInv(t)' /\ WalInv(wal, t)' /\ DirtyInv' /\ WriterInv' /\ PageInv'
   BY <1>1, Zenon DEF Inv, MemoryInv, Replayed, DirtyInv, WriterInv, PageInv
<1>4. ShapeInv' /\ MetaInv(t)'
   BY <1>1, <1>2, Zenon DEF Inv, ShapeInv, MetaInv
<1> QED BY <1>3, <1>4, Zenon DEF Inv

\* Memory, which has all that the WAL says, has all that any prefix of it says.
LEMMA NowSpans ==
    ASSUME NEW t \in InitTails, Inv(t), mode = "up", NEW to \in 0 .. Len(wal)
    PROVE  LogSpan(ulog, wal, to) /\ DataSpan(data_seg, wal, to, t) /\ TxnSpan(txn_seg, wal, to, t)
<1>1. /\ LogSpan(ulog, wal, Len(wal)) /\ DataSpan(data_seg, wal, Len(wal), t)
      /\ TxnSpan(txn_seg, wal, Len(wal), t)
   BY Zenon DEF Inv, MemoryInv, Replayed
<1>2. Len(wal) \in Nat
   BY Now, Zenon
<1>3. ulog.lsn \in 0 .. Len(wal) /\ data_seg.lsn \in 0 .. Len(wal) /\ txn_seg.lsn \in 0 .. Len(wal)
   BY <1>1, Zenon DEF LogSpan, DataSpan, TxnSpan
<1>4. ulog.lsn \in Nat /\ data_seg.lsn \in Nat /\ txn_seg.lsn \in Nat
   BY <1>2, <1>3
<1> QED BY <1>1, <1>2, <1>4, SpanLess, Zenon

\* Whether something is dirty does not matter to what it says.
LEMMA CleanLog ==
    ASSUME NEW g \in Logs, NEW c, c = [g EXCEPT !.dirty = FALSE]
    PROVE  /\ c \in Logs /\ ~c.dirty /\ c.insert = g.insert /\ c.alloc = g.alloc /\ c.lsn = g.lsn
           /\ \A w, to : LogSpan(g, w, to) => LogSpan(c, w, to)
<1>1. /\ c \in Logs /\ ~c.dirty /\ c.insert = g.insert /\ c.alloc = g.alloc /\ c.recycle = g.recycle
      /\ c.discard = g.discard /\ c.lsn = g.lsn
   BY Zenon DEF Logs
<1> QED BY <1>1, Zenon DEF LogSpan, LogAgrees

\* A segment with the dirty bit cleared agrees with the WAL as it did before.
LEMMA CleanSegment ==
    ASSUME NEW s \in Segments, NEW c, c = [s EXCEPT !.dirty = FALSE]
    PROVE  /\ c \in Segments /\ ~c.dirty /\ c.tail = s.tail /\ c.lsn = s.lsn
           /\ ~s.dirty => c = s
           /\ \A w, to, t : DataSpan(s, w, to, t) => DataSpan(c, w, to, t)
           /\ \A w, to, t : TxnSpan(s, w, to, t) => TxnSpan(c, w, to, t)
<1>1. c \in Segments /\ ~c.dirty /\ c.head = s.head /\ c.tail = s.tail /\ c.lsn = s.lsn
   BY Zenon DEF Segments
<1>2. ~s.dirty => c = s
   BY DEF Segments
<1> QED BY <1>1, <1>2, Zenon DEF DataSpan, DataAgrees, TxnSpan, TxnAgrees

\* A checkpoint step writes at most one part of the metadata file, which the WAL
\* up to its LSN has reached before.
LEMMA CheckpointPart ==
    ASSUME NEW t \in InitTails, Inv(t), mode = "up", ckpt.pc # "idle",
           UNCHANGED <<nextXid, running, slot_ptr, used, buf, dw, wal, disk, control, mode, next_redo>>,
           ckpt' \in Checkpoints, ckpt'.redo = ckpt.redo, flushed' \in flushed .. Len(wal),
           ulog' \in Logs, ulog'.insert = ulog.insert, ulog'.alloc = ulog.alloc,
           data_seg' \in Segments, data_seg'.tail = data_seg.tail, txn_seg' \in Segments,
           meta' \in [log : Logs, data : Segments, txn : Segments],
           MemoryInv(t)', MetaInv(t)', DirtyInv'
    PROVE  Inv(t)'
<1>1. ShapeInv /\ WriterInv /\ PageInv
   BY Zenon DEF Inv
<1>2. /\ Len(wal) \in Nat /\ flushed \in 0 .. Len(wal) /\ control.redo \in 0 .. flushed
   BY <1>1, Now, Zenon DEF ShapeInv
<1>3. /\ flushed' \in 0 .. Len(wal) /\ control.redo \in 0 .. flushed'
      /\ \A k \in 0 .. flushed : k \in 0 .. flushed'
   BY <1>2
<1>4. ShapeInv'
   BY <1>1, <1>3, Zenon DEF ShapeInv
<1>5. PageInv' /\ WriterInv'
   BY <1>1, <1>3, Zenon DEF PageInv, WriterInv
<1>6. WalInv(wal, t)'
   BY Zenon DEF Inv
<1> QED BY <1>4, <1>5, <1>6, Zenon DEF Inv

\* checkpoint_undo_logs writes the log, if it is dirty.
LEMMA LogsStep ==
    ASSUME NEW t \in InitTails, Inv(t), checkpoint_undo_logs
    PROVE  Inv(t)'
<1>1. /\ mode = "up" /\ ckpt.pc = "logs"
      /\ ckpt' = [ckpt EXCEPT !.pc = IF used = 0 THEN "record" ELSE "data"]
      /\ UNCHANGED <<nextXid, running, slot_ptr, data_seg, txn_seg, used, buf, dw, wal, disk, control, mode,
                     next_redo>>
   BY Zenon DEF checkpoint_undo_logs, xactVars, serverVars
<1>2. ShapeInv /\ DirtyInv /\ MetaInv(t) /\ MemoryInv(t)
   BY Zenon DEF Inv
<1>3. /\ ckpt \in Checkpoints /\ ulog \in Logs /\ data_seg \in Segments /\ txn_seg \in Segments
      /\ meta \in [log : Logs, data : Segments, txn : Segments]
   BY <1>2, Zenon DEF ShapeInv
<1>4. /\ ckpt' \in Checkpoints /\ ckpt'.redo = ckpt.redo
      /\ ckpt'.pc = IF used = 0 THEN "record" ELSE "data"
   BY <1>1, <1>3, Zenon DEF Checkpoints
<1>5. /\ Len(wal) \in Nat /\ ckpt.redo \in 0 .. Len(wal) /\ control.redo \in 0 .. Len(wal)
      /\ flushed \in 0 .. Len(wal)
   <2>1. ckpt.redo \in Nat
      BY <1>3, Zenon DEF Checkpoints
   <2> QED BY <1>1, <1>2, <2>1, Now DEF ShapeInv
<1>6. /\ LogSpan(ulog, wal, ckpt.redo) /\ DataSpan(data_seg, wal, ckpt.redo, t)
      /\ TxnSpan(txn_seg, wal, ckpt.redo, t) /\ LogSpan(ulog, wal, control.redo)
   BY <1>1, <1>5, NowSpans, Zenon
<1>7. CASE /\ used > 0 /\ ulog.dirty /\ flushed' = Larger(flushed, ulog.lsn)
           /\ ulog' = [ulog EXCEPT !.dirty = FALSE] /\ meta' = [meta EXCEPT !.log = ulog']
   <2>1. /\ ulog' \in Logs /\ ~ulog'.dirty /\ ulog'.insert = ulog.insert /\ ulog'.alloc = ulog.alloc
         /\ ulog'.lsn = ulog.lsn /\ \A w, to : LogSpan(ulog, w, to) => LogSpan(ulog', w, to)
      BY <1>3, <1>7, CleanLog, Zenon
   <2>2. /\ meta' \in [log : Logs, data : Segments, txn : Segments]
         /\ meta'.log = ulog' /\ meta'.data = meta.data /\ meta'.txn = meta.txn
      BY <1>3, <1>7, <2>1, Zenon
   <2>3. ulog.lsn \in 0 .. Len(wal)
      BY <1>6, Zenon DEF LogSpan
   <2>4. flushed' \in flushed .. Len(wal) /\ flushed' \in Nat /\ flushed <= flushed' /\ ulog'.lsn <= flushed'
      BY <1>5, <1>7, <2>1, <2>3 DEF Larger
   <2>5. used # 0 /\ data_seg.tail # 0
      BY <1>2, <1>7 DEF ShapeInv
   <2>6. MemoryInv(t)'
      BY <1>1, <1>2, <2>1, Zenon DEF MemoryInv, Replayed
   <2>7. DirtyInv'
      BY <1>1, <1>2, <2>1, <2>2, <2>5, Zenon DEF DirtyInv
   <2>8. meta.data.lsn <= flushed' /\ meta.txn.lsn <= flushed'
      <3>1. meta.data.lsn \in Nat /\ meta.txn.lsn \in Nat
         BY <1>3 DEF Segments
      <3> QED BY <1>2, <1>5, <2>4, <3>1 DEF MetaInv
   <2>9. MetaInv(t)'
      <3>1. ckpt'.pc = "data"
         BY <1>4, <2>5
      <3>2. LogSpan(ulog', wal, ckpt.redo) /\ LogSpan(ulog', wal, control.redo)
         BY <1>6, <2>1, Zenon
      <3>3. /\ meta'.log.lsn <= flushed' /\ LogSpan(meta'.log, wal', control'.redo)
            /\ LogSpan(meta'.log, wal', ckpt'.redo)
         BY <1>1, <1>4, <2>2, <2>4, <3>2
      <3>4. /\ DataSpan(meta'.data, wal', control'.redo, t) /\ TxnSpan(meta'.txn, wal', control'.redo, t)
         BY <1>1, <1>2, <2>2, Zenon DEF MetaInv
      <3> QED BY <2>2, <2>8, <3>1, <3>3, <3>4, Zenon DEF MetaInv
   <2> QED BY <1>1, <1>3, <1>4, <2>1, <2>2, <2>4, <2>6, <2>7, <2>9, CheckpointPart, Zenon
<1>8. CASE (used = 0 \/ ~ulog.dirty) /\ UNCHANGED <<flushed, ulog, meta>>
   <2>1. ulog = meta.log /\ (used = 0 => data_seg = meta.data /\ txn_seg = meta.txn)
      <3>1. used = 0 => data_seg.tail = 0
         BY <1>2, <1>3 DEF ShapeInv, Segments
      <3> QED BY <1>1, <1>2, <1>8, <3>1, Zenon DEF DirtyInv
   <2>2. MetaInv(t)'
      <3>1. /\ LogSpan(meta.log, wal, ckpt'.redo)
            /\ used = 0 => /\ DataSpan(meta.data, wal, ckpt'.redo, t)
                           /\ TxnSpan(meta.txn, wal, ckpt'.redo, t)
         BY <1>4, <1>6, <2>1, Zenon
      <3>2. used # 0 => ckpt'.pc = "data"
         BY <1>4, Zenon
      <3> QED BY <1>1, <1>2, <1>8, <3>1, <3>2 DEF MetaInv
   <2>3. MemoryInv(t)' /\ DirtyInv'
      BY <1>1, <1>2, <1>8, Zenon DEF MemoryInv, Replayed, DirtyInv
   <2>4. flushed \in flushed .. Len(wal)
      BY <1>5
   <2> QED BY <1>1, <1>3, <1>4, <1>8, <2>2, <2>3, <2>4, CheckpointPart, Zenon
<1> QED BY <1>7, <1>8, Zenon DEF checkpoint_undo_logs

\* checkpoint_undo_segment writes the data segment, then the slot segment.
LEMMA SegmentStep ==
    ASSUME NEW t \in InitTails, Inv(t), checkpoint_undo_segment
    PROVE  Inv(t)'
<1>1. /\ mode = "up" /\ ckpt.pc \in {"data", "txn"} /\ ckpt.pc # "idle"
      /\ UNCHANGED <<nextXid, running, slot_ptr, ulog, used, buf, dw, wal, disk, control, mode, next_redo>>
   BY Zenon DEF checkpoint_undo_segment, xactVars, serverVars
<1>2. ShapeInv /\ DirtyInv /\ MetaInv(t) /\ MemoryInv(t)
   BY Zenon DEF Inv
<1>3. /\ ckpt \in Checkpoints /\ ulog \in Logs /\ data_seg \in Segments /\ txn_seg \in Segments
      /\ meta \in [log : Logs, data : Segments, txn : Segments]
   BY <1>2, Zenon DEF ShapeInv
<1>4. /\ Len(wal) \in Nat /\ ckpt.redo \in 0 .. Len(wal) /\ control.redo \in 0 .. Len(wal)
      /\ flushed \in 0 .. Len(wal)
   <2>1. ckpt.redo \in Nat
      BY <1>3, Zenon DEF Checkpoints
   <2> QED BY <1>1, <1>2, <2>1, Now DEF ShapeInv
<1>5. /\ DataSpan(data_seg, wal, ckpt.redo, t) /\ DataSpan(data_seg, wal, control.redo, t)
      /\ TxnSpan(txn_seg, wal, ckpt.redo, t) /\ TxnSpan(txn_seg, wal, control.redo, t)
   BY <1>1, <1>4, NowSpans, Zenon
<1>6. meta.log.lsn \in Nat /\ meta.data.lsn \in Nat /\ meta.txn.lsn \in Nat
   BY <1>3 DEF Logs, Segments
<1>7. CASE /\ ckpt.pc = "data" /\ ckpt' = [ckpt EXCEPT !.pc = "txn"]
           /\ data_seg' = [data_seg EXCEPT !.dirty = FALSE]
           /\ meta' = IF data_seg.dirty THEN [meta EXCEPT !.data = data_seg'] ELSE meta
           /\ flushed' = IF data_seg.dirty THEN Larger(flushed, data_seg.lsn) ELSE flushed
           /\ UNCHANGED txn_seg
   <2>1. /\ data_seg' \in Segments /\ ~data_seg'.dirty /\ data_seg'.tail = data_seg.tail
         /\ data_seg'.lsn = data_seg.lsn /\ (~data_seg.dirty => data_seg' = data_seg)
         /\ \A w, to : DataSpan(data_seg, w, to, t) => DataSpan(data_seg', w, to, t)
      BY <1>3, <1>7, CleanSegment, Zenon
   <2>2. ckpt' \in Checkpoints /\ ckpt'.redo = ckpt.redo /\ ckpt'.pc = "txn"
      BY <1>3, <1>7, Zenon DEF Checkpoints
   <2>3. /\ meta' \in [log : Logs, data : Segments, txn : Segments]
         /\ meta'.log = meta.log /\ meta'.data = data_seg' /\ meta'.txn = meta.txn
      <3>1. ~data_seg.dirty => data_seg = meta.data
         BY <1>1, <1>2, Zenon DEF DirtyInv
      <3> QED BY <1>3, <1>7, <2>1, <3>1, Zenon
   <2>4. data_seg.lsn \in 0 .. Len(wal) /\ meta.data.lsn <= flushed
      BY <1>2, <1>5, Zenon DEF DataSpan, MetaInv
   <2>5. flushed' \in flushed .. Len(wal) /\ flushed <= flushed' /\ flushed' \in Nat
      BY <1>4, <1>7, <2>4 DEF Larger
   <2>6. data_seg'.lsn <= flushed'
      <3>1. CASE data_seg.dirty
         BY <1>4, <1>7, <2>1, <2>4, <3>1 DEF Larger
      <3>2. CASE ~data_seg.dirty
         BY <1>7, <2>1, <2>3, <2>4, <3>2, Zenon
      <3> QED BY <3>1, <3>2
   <2>7. meta.log.lsn <= flushed' /\ meta.txn.lsn <= flushed'
      BY <1>2, <1>4, <1>6, <2>5 DEF MetaInv
   <2>8. MemoryInv(t)'
      BY <1>1, <1>2, <1>7, <2>1, Zenon DEF MemoryInv, Replayed
   <2>9. DirtyInv'
      BY <1>1, <1>2, <1>7, <2>1, <2>3, Zenon DEF DirtyInv
   <2>10. MetaInv(t)'
      <3>1. DataSpan(data_seg', wal, ckpt.redo, t) /\ DataSpan(data_seg', wal, control.redo, t)
         BY <1>5, <2>1, Zenon
      <3> QED BY <1>1, <1>2, <1>7, <2>2, <2>3, <2>6, <2>7, <3>1 DEF MetaInv
   <2> QED BY <1>1, <1>3, <1>7, <2>1, <2>2, <2>3, <2>5, <2>8, <2>9, <2>10, CheckpointPart, Zenon
<1>8. CASE /\ ckpt.pc = "txn" /\ ckpt' = [ckpt EXCEPT !.pc = "record"]
           /\ txn_seg' = [txn_seg EXCEPT !.dirty = FALSE]
           /\ meta' = IF txn_seg.dirty THEN [meta EXCEPT !.txn = txn_seg'] ELSE meta
           /\ flushed' = IF txn_seg.dirty THEN Larger(flushed, txn_seg.lsn) ELSE flushed
           /\ UNCHANGED data_seg
   <2>1. /\ txn_seg' \in Segments /\ ~txn_seg'.dirty
         /\ txn_seg'.lsn = txn_seg.lsn /\ (~txn_seg.dirty => txn_seg' = txn_seg)
         /\ \A w, to : TxnSpan(txn_seg, w, to, t) => TxnSpan(txn_seg', w, to, t)
      BY <1>3, <1>8, CleanSegment, Zenon
   <2>2. ckpt' \in Checkpoints /\ ckpt'.redo = ckpt.redo /\ ckpt'.pc = "record"
      BY <1>3, <1>8, Zenon DEF Checkpoints
   <2>3. /\ meta' \in [log : Logs, data : Segments, txn : Segments]
         /\ meta'.log = meta.log /\ meta'.data = meta.data /\ meta'.txn = txn_seg'
      <3>1. ~txn_seg.dirty => txn_seg = meta.txn
         BY <1>1, <1>2, Zenon DEF DirtyInv
      <3> QED BY <1>3, <1>8, <2>1, <3>1, Zenon
   <2>4. txn_seg.lsn \in 0 .. Len(wal) /\ meta.txn.lsn <= flushed
      BY <1>2, <1>5, Zenon DEF TxnSpan, MetaInv
   <2>5. flushed' \in flushed .. Len(wal) /\ flushed <= flushed' /\ flushed' \in Nat
      BY <1>4, <1>8, <2>4 DEF Larger
   <2>6. txn_seg'.lsn <= flushed'
      <3>1. CASE txn_seg.dirty
         BY <1>4, <1>8, <2>1, <2>4, <3>1 DEF Larger
      <3>2. CASE ~txn_seg.dirty
         BY <1>8, <2>1, <2>3, <2>4, <3>2, Zenon
      <3> QED BY <3>1, <3>2
   <2>7. meta.log.lsn <= flushed' /\ meta.data.lsn <= flushed'
      BY <1>2, <1>4, <1>6, <2>5 DEF MetaInv
   <2>8. MemoryInv(t)'
      BY <1>1, <1>2, <1>8, <2>1, Zenon DEF MemoryInv, Replayed
   <2>9. DirtyInv'
      BY <1>1, <1>2, <1>8, <2>1, <2>3, Zenon DEF DirtyInv
   <2>10. MetaInv(t)'
      <3>1. TxnSpan(txn_seg', wal, ckpt.redo, t) /\ TxnSpan(txn_seg', wal, control.redo, t)
         BY <1>5, <2>1, Zenon
      <3> QED BY <1>1, <1>2, <1>8, <2>2, <2>3, <2>6, <2>7, <3>1 DEF MetaInv
   <2> QED BY <1>1, <1>3, <1>8, <2>1, <2>2, <2>3, <2>5, <2>8, <2>9, <2>10, CheckpointPart, Zenon
<1> QED BY <1>7, <1>8, Zenon DEF checkpoint_undo_segment

\* The checkpoint record makes the checkpoint's redo pointer the one to start
\* from: by now every part of the metadata file has all that comes before it.
LEMMA RecordStep ==
    ASSUME NEW t \in InitTails, Inv(t), CheckpointRecord
    PROVE  Inv(t)'
<1>1. /\ mode = "up" /\ ckpt.pc = "record" /\ flushed' = NextLsn
      /\ wal' = Append(wal, [type |-> "checkpoint", frozen |-> global_frozen_xid'])
      /\ control' = [redo |-> ckpt.redo, frozen |-> global_frozen_xid'] /\ ckpt' = IdleCheckpoint
      /\ UNCHANGED <<nextXid, running, slot_ptr, ulog, data_seg, txn_seg, used, buf, dw, disk, meta, mode,
                     next_redo>>
   BY Zenon DEF CheckpointRecord, XLogInsert, xactVars, memVars, serverVars
<1>2. PICK rec : rec = [type |-> "checkpoint", frozen |-> global_frozen_xid']
   BY Zenon
<1>3. rec.type = "checkpoint"
   BY <1>2, Zenon
<1>4. Appends(rec, t)
   BY <1>1, <1>2, <1>3, Zenon DEF Appends, Checked
<1>5. ShapeInv /\ WriterInv /\ PageInv /\ DirtyInv /\ MetaInv(t)
   BY Zenon DEF Inv
<1>6. WalInv(wal', t) /\ Len(wal) \in Nat /\ Len(wal') = Len(wal) + 1 /\ NextLsn = Len(wal')
   BY <1>4, AppendWal DEF NextLsn
<1>7. /\ flushed \in 0 .. Len(wal) /\ flushed' = Len(wal') /\ flushed' \in 0 .. Len(wal')
      /\ flushed <= flushed' /\ ckpt.redo \in 0 .. Len(wal) /\ control'.redo = ckpt.redo
      /\ ckpt.redo \in 0 .. flushed' /\ next_redo \in 0 .. Len(wal') + 1
   <2>1. ckpt.redo \in Nat /\ control'.redo = ckpt.redo
      BY <1>1, <1>5, Zenon DEF ShapeInv, Checkpoints
   <2> QED BY <1>1, <1>5, <1>6, <2>1 DEF ShapeInv
<1>8. MemoryInv(t)'
   BY <1>1, <1>3, <1>4, AppendMemory, Zenon DEF LogTypes, DataTypes, TxnTypes
<1>9. PageInv'
   <2>1. disk = [p \in Pages |-> disk[p]]
      BY <1>5, Zenon DEF PageInv
   <2> QED BY <1>1, <1>4, <1>7, <2>1, AppendPages, Zenon
<1>10. DirtyInv'
   BY <1>1, <1>5, Zenon DEF DirtyInv
<1>11. ckpt'.pc = "idle" /\ ckpt' \in Checkpoints
   BY <1>1, Zenon DEF IdleCheckpoint, Checkpoints
<1>12. ShapeInv'
   BY <1>1, <1>5, <1>7, <1>11, Zenon DEF ShapeInv
<1>13. MetaInv(t)'
   <2>1. /\ LogSpan(meta.log, wal, ckpt.redo) /\ DataSpan(meta.data, wal, ckpt.redo, t)
         /\ TxnSpan(meta.txn, wal, ckpt.redo, t)
      BY <1>1, <1>5, Zenon DEF MetaInv
   <2>2. /\ LogSpan(meta.log, wal', ckpt.redo) /\ DataSpan(meta.data, wal', ckpt.redo, t)
         /\ TxnSpan(meta.txn, wal', ckpt.redo, t)
      BY <1>4, <1>7, <2>1, AppendSpan, Zenon
   <2>3. meta.log \in Logs /\ meta.data \in Segments /\ meta.txn \in Segments
      BY <1>5 DEF ShapeInv
   <2>4. meta.log.lsn <= flushed' /\ meta.data.lsn <= flushed' /\ meta.txn.lsn <= flushed'
      <3>1. meta.log.lsn \in Nat /\ meta.data.lsn \in Nat /\ meta.txn.lsn \in Nat
         BY <2>3 DEF Logs, Segments
      <3>2. meta.log.lsn <= flushed /\ meta.data.lsn <= flushed /\ meta.txn.lsn <= flushed
         BY <1>5, Zenon DEF MetaInv
      <3> QED BY <1>6, <1>7, <3>1, <3>2
   <2> QED BY <1>1, <1>7, <1>11, <2>2, <2>4, Zenon DEF MetaInv
<1>14. WriterInv'
   BY <1>1, <1>3, <1>4, <1>5, WriterKept, Zenon DEF WriterInv
<1> QED BY <1>6, <1>8, <1>9, <1>10, <1>12, <1>13, <1>14, Zenon DEF Inv

-----------------------------------------------------------------------------
(* The steps: crash and recovery                                           *)

\* A crash leaves a prefix of the WAL that has everything flushed, and what is
\* on disk is about no more than that.
LEMMA CrashStep ==
    ASSUME NEW t \in InitTails, Inv(t), Crash
    PROVE  Inv(t)'
<1>1. /\ mode \in {"up", "redo"} /\ mode' = "down" /\ flushed' \in flushed .. Len(wal) /\ buf' = disk /\ running' = NoXid /\ slot_ptr' = NoSlot
      /\ ulog' = EmptyLog /\ data_seg' = EmptySegment /\ txn_seg' = EmptySegment /\ used' = 0
      /\ dw' = IdleDiscard /\ ckpt' = IdleCheckpoint
      /\ UNCHANGED <<nextXid, disk, meta, control, next_redo>>
   BY Zenon DEF Crash, diskVars
<1>14. wal' = SubSeq(wal, 1, flushed')
   BY Zenon DEF Crash
<1>2. ShapeInv /\ WriterInv /\ PageInv /\ DirtyInv /\ MetaInv(t) /\ WalInv(wal, t)
   BY Zenon DEF Inv
<1>3. /\ Len(wal) \in Nat /\ flushed \in 0 .. Len(wal) /\ control.redo \in 0 .. flushed
      /\ next_redo \in 0 .. Len(wal) + 1 /\ (mode = "redo" => flushed = Len(wal))
      /\ mode = "up" => next_redo = 0
   BY <1>2, WalLength, Zenon DEF ShapeInv
<1>4. PICK m : m = flushed'
   OBVIOUS
<1>5. m \in 0 .. Len(wal) /\ m \in Nat /\ flushed <= m /\ m <= m /\ \A k \in 0 .. flushed : k \in 0 .. m
   BY <1>1, <1>3, <1>4
<1>6. WalInv(wal', t) /\ Len(wal') = m /\ SamePrefix(wal', wal, m)
   BY <1>2, <1>4, <1>5, <1>14, WalCut, Zenon
<1>7. control.redo \in 0 .. m /\ next_redo \in 0 .. m + 1
   <2>1. control.redo \in 0 .. m
      BY <1>3, <1>5, Zenon
   <2>2. CASE mode = "up"
      BY <1>3, <1>5, <2>1, <2>2
   <2>3. CASE mode = "redo"
      <3>1. flushed = Len(wal)
         BY <1>3, <2>3, Zenon
      <3>2. m = Len(wal)
         BY <1>3, <1>5, <3>1
      <3> QED BY <1>3, <2>1, <3>2, Zenon
   <2> QED BY <1>1, <2>2, <2>3, Zenon
<1>8. /\ ulog' \in Logs /\ data_seg' \in Segments /\ data_seg'.tail = 0 /\ txn_seg' \in Segments
      /\ dw' \in Discards /\ dw'.pc = "idle" /\ ckpt' \in Checkpoints /\ ckpt'.pc = "idle"
   BY <1>1, Zenon DEF EmptyLog, EmptySegment, IdleDiscard, IdleCheckpoint, Logs, Segments, Discards, Checkpoints
<1>9. ShapeInv'
   <2>1. used' = IF data_seg'.tail > 0 THEN 1 ELSE 0
      BY <1>1, <1>8
   <2>2. meta' \in [log : Logs, data : Segments, txn : Segments]
      BY <1>1, <1>2, Zenon DEF ShapeInv
   <2>3. /\ flushed' \in 0 .. Len(wal') /\ control'.redo \in 0 .. flushed'
         /\ next_redo' \in 0 .. Len(wal') + 1 /\ flushed' = Len(wal')
      <3>1. m \in 0 .. m
         BY <1>5
      <3> QED BY <1>1, <1>4, <1>6, <1>7, <3>1, Zenon
   <2> QED BY <1>1, <1>8, <2>1, <2>2, <2>3 DEF ShapeInv
<1>10. MemoryInv(t)' /\ DirtyInv'
   BY <1>1, <1>2, Zenon DEF MemoryInv, DirtyInv
<1>11. MetaInv(t)'
   <2>1. /\ meta.log.lsn <= flushed /\ meta.data.lsn <= flushed /\ meta.txn.lsn <= flushed
         /\ LogSpan(meta.log, wal, control.redo) /\ DataSpan(meta.data, wal, control.redo, t)
         /\ TxnSpan(meta.txn, wal, control.redo, t)
      BY <1>2, Zenon DEF MetaInv
   <2>2. /\ meta.log.lsn \in 0 .. Len(wal) /\ meta.data.lsn \in 0 .. Len(wal)
         /\ meta.txn.lsn \in 0 .. Len(wal)
      BY <2>1, Zenon DEF LogSpan, DataSpan, TxnSpan
   <2>3. /\ meta.log.lsn \in 0 .. m /\ meta.data.lsn \in 0 .. m /\ meta.txn.lsn \in 0 .. m
         /\ meta.log.lsn <= m /\ meta.data.lsn <= m /\ meta.txn.lsn <= m
      BY <1>3, <1>5, <2>1, <2>2
   <2>4. Len(wal') \in Nat /\ m <= Len(wal')
      BY <1>5, <1>6
   <2>5. /\ LogSpan(meta.log, wal', control.redo) /\ DataSpan(meta.data, wal', control.redo, t)
         /\ TxnSpan(meta.txn, wal', control.redo, t)
      BY <1>5, <1>6, <1>7, <2>1, <2>3, <2>4, SpanSame, Zenon
   <2> QED BY <1>1, <1>4, <1>8, <2>3, <2>5, Zenon DEF MetaInv
<1>12. PageInv'
   <2>1. \A k \in 0 .. m : \A items : EndsBelow(items, wal', k) <=> EndsBelow(items, wal, k)
      BY <1>5, <1>6, PrefixSame, Zenon DEF SameFacts
   <2> QED BY <1>1, <1>2, <1>4, <1>5, <1>6, <2>1, Zenon DEF PageInv
<1>13. WriterInv'
   <2>1. \A k \in 0 .. m : AllocAt(wal', k) = AllocAt(wal, k)
      BY <1>5, <1>6, PrefixSame, Zenon DEF SamePointers
   <2>2. \A k \in 0 .. m : k \in 0 .. Len(wal)
      BY <1>3, <1>5
   <2>3. AllocBelow(wal', nextXid)
      BY <1>2, <1>6, <2>1, <2>2, Zenon DEF WriterInv, AllocBelow
   <2> QED BY <1>1, <1>2, <1>8, <2>3, Zenon DEF WriterInv
<1> QED BY <1>6, <1>9, <1>10, <1>11, <1>12, <1>13, Zenon DEF Inv

\* recovery_undo_meta starts from the metadata file.
LEMMA LoadStep ==
    ASSUME NEW t \in InitTails, Inv(t), recovery_undo_meta
    PROVE  Inv(t)'
<1>1. /\ mode = "down" /\ mode' = "redo" /\ ulog' = meta.log /\ data_seg' = meta.data
      /\ txn_seg' = meta.txn /\ used' = IF meta.data.tail > 0 THEN 1 ELSE 0
      /\ next_redo' = control.redo + 1
      /\ UNCHANGED <<nextXid, running, slot_ptr, buf, dw, ckpt, wal, flushed, disk, meta, control>>
   BY Zenon DEF recovery_undo_meta, xactVars, walVars, diskVars
<1>2. ShapeInv /\ WriterInv /\ PageInv /\ DirtyInv /\ MetaInv(t) /\ WalInv(wal, t)
   BY Zenon DEF Inv
<1>3. /\ Len(wal) \in Nat /\ control.redo \in 0 .. flushed /\ flushed = Len(wal) /\ ckpt.pc = "idle"
   BY <1>1, <1>2 DEF ShapeInv, WalInv
<1>4. next_redo' \in 0 .. Len(wal) + 1 /\ next_redo' > 0 /\ next_redo' - 1 = control.redo
   BY <1>1, <1>3
<1>5. ulog' \in Logs /\ data_seg' \in Segments /\ txn_seg' \in Segments
   BY <1>1, <1>2 DEF ShapeInv
<1>6. ShapeInv'
   BY <1>1, <1>2, <1>3, <1>4, <1>5 DEF ShapeInv
<1>7. Replayed' = control.redo
   BY <1>1, <1>4, Zenon DEF Replayed
<1>8. MemoryInv(t)' /\ MetaInv(t)'
   BY <1>1, <1>2, <1>7, Zenon DEF MemoryInv, MetaInv
<1>9. DirtyInv' /\ PageInv' /\ WalInv(wal, t)'
   BY <1>1, <1>2, Zenon DEF DirtyInv, PageInv
<1>10. WriterInv'
   BY <1>1, <1>2, Zenon DEF WriterInv
<1> QED BY <1>6, <1>8, <1>9, <1>10, Zenon DEF Inv

\* Recovery ends once the whole WAL is replayed.
LEMMA EndStep ==
    ASSUME NEW t \in InitTails, Inv(t), EndOfRecovery
    PROVE  Inv(t)'
<1>1. /\ mode = "redo" /\ next_redo > Len(wal) /\ mode' = "up" /\ next_redo' = 0
      /\ UNCHANGED <<nextXid, running, slot_ptr, ulog, data_seg, txn_seg, used, buf, dw, ckpt, wal, flushed,
                     disk, meta, control>>
   BY Zenon DEF EndOfRecovery, xactVars, memVars, walVars, diskVars
<1>2. ShapeInv /\ WriterInv /\ PageInv /\ DirtyInv /\ MetaInv(t) /\ WalInv(wal, t) /\ MemoryInv(t)
   BY Zenon DEF Inv
<1>3. Len(wal) \in Nat /\ next_redo \in 0 .. Len(wal) + 1
   BY <1>2, WalLength, Zenon DEF ShapeInv
<1>4. Replayed = Len(wal) /\ Replayed' = Len(wal)
   BY <1>1, <1>3 DEF Replayed
<1>5. MemoryInv(t)'
   BY <1>1, <1>2, <1>4, Zenon DEF MemoryInv
<1>6. 0 \in 0 .. Len(wal) + 1
   BY <1>3
<1>7. ShapeInv'
   BY <1>1, <1>2, <1>6 DEF ShapeInv
<1>8. MetaInv(t)' /\ DirtyInv' /\ PageInv' /\ WalInv(wal, t)'
   BY <1>1, <1>2, Zenon DEF MetaInv, DirtyInv, PageInv
<1>9. WriterInv'
   BY <1>1, <1>2 DEF WriterInv
<1> QED BY <1>5, <1>7, <1>8, <1>9, Zenon DEF Inv

-----------------------------------------------------------------------------
(* The steps: redo                                                         *)

\* The record to replay, and what it was checked against when it was written.
\* What memory holds by now is what the records before it say, or what a later
\* prefix says, so the tails are no smaller than they were then.
LEMMA RedoFacts ==
    ASSUME NEW t \in InitTails, Inv(t), mode = "redo", next_redo <= Len(wal), NEW n, n = next_redo
    PROVE  /\ Len(wal) \in Nat /\ n \in 1 .. Len(wal) /\ n \in Nat /\ n > 0 /\ n - 1 \in 0 .. Len(wal)
           /\ n - 1 \in Nat /\ Checked(wal[n], wal, n - 1, t)
           /\ PrefixInv(wal, n - 1, t) /\ PrefixInv(wal, n, t)
           /\ LogSpan(ulog, wal, n - 1) /\ DataSpan(data_seg, wal, n - 1, t)
           /\ TxnSpan(txn_seg, wal, n - 1, t)
           /\ ulog \in Logs /\ data_seg \in Segments /\ txn_seg \in Segments
<1>1. WalInv(wal, t) /\ ShapeInv /\ MemoryInv(t)
   BY Zenon DEF Inv
<1>2. Len(wal) \in Nat /\ next_redo \in 0 .. Len(wal) + 1 /\ next_redo > 0
   BY <1>1, WalLength, Zenon DEF ShapeInv
<1>3. n \in 1 .. Len(wal) /\ n \in 0 .. Len(wal) /\ n \in Nat /\ n > 0 /\ n - 1 \in 0 .. Len(wal)
      /\ n - 1 \in Nat
   BY <1>2
<1>4. RecordInv(wal, n, t) /\ PrefixInv(wal, n - 1, t) /\ PrefixInv(wal, n, t)
   BY <1>1, <1>3, Zenon DEF WalInv
<1>5. Replayed = n - 1
   BY DEF Replayed
<1>6. /\ LogSpan(ulog, wal, n - 1) /\ DataSpan(data_seg, wal, n - 1, t)
      /\ TxnSpan(txn_seg, wal, n - 1, t)
   BY <1>1, <1>5, Zenon DEF MemoryInv
<1>7. ulog \in Logs /\ data_seg \in Segments /\ txn_seg \in Segments
   BY <1>1, Zenon DEF ShapeInv
<1> QED BY <1>2, <1>3, <1>4, <1>6, <1>7, Zenon DEF RecordInv

\* What a span says just before record n, or at the LSN when that is n or later.
LEMMA SpanEnds ==
    ASSUME NEW w, NEW t, NEW n \in Nat, n > 0, NEW x, x.lsn \in Nat
    PROVE  /\ LogSpan(x, w, n - 1) /\ x.lsn < n => LogAgrees(x, w, n - 1)
           /\ DataSpan(x, w, n - 1, t) => IF x.lsn < n THEN DataAgrees(x, w, n - 1, t)
                                          ELSE DataAgrees(x, w, x.lsn, t) /\ x.lsn \in 0 .. Len(w)
           /\ TxnSpan(x, w, n - 1, t) => IF x.lsn < n THEN TxnAgrees(x, w, n - 1, t)
                                         ELSE TxnAgrees(x, w, x.lsn, t) /\ x.lsn \in 0 .. Len(w)
<1>1. /\ x.lsn < n => n - 1 \in x.lsn .. Larger(x.lsn, n - 1)
      /\ x.lsn \in x.lsn .. Larger(x.lsn, n - 1)
   BY DEF Larger
<1> QED BY <1>1, Zenon DEF LogSpan, DataSpan, TxnSpan

\* While record n is replayed, the tails are no smaller than when it was written, so
\* PastTail is false of it.
LEMMA RedoTails ==
    ASSUME NEW t \in InitTails, Inv(t), mode = "redo", next_redo <= Len(wal), NEW n, n = next_redo
    PROVE  /\ data_seg.tail \in Nat /\ txn_seg.tail \in Nat
           /\ DataTail(wal, n - 1, t) \in Nat /\ TxnTail(wal, n - 1, t) \in Nat
           /\ DataTail(wal, n - 1, t) <= data_seg.tail /\ TxnTail(wal, n - 1, t) <= txn_seg.tail
           /\ data_seg.lsn >= n => DataTail(wal, n, t) <= data_seg.tail
<1>1. /\ Len(wal) \in Nat /\ n \in 1 .. Len(wal) /\ n \in Nat /\ n > 0 /\ n - 1 \in 0 .. Len(wal)
      /\ PrefixInv(wal, n - 1, t)
      /\ DataSpan(data_seg, wal, n - 1, t) /\ TxnSpan(txn_seg, wal, n - 1, t)
      /\ data_seg \in Segments /\ txn_seg \in Segments
   BY RedoFacts, Zenon
<1>2. GrowInv(wal, t)
   BY Zenon DEF Inv, WalInv
<1>3. /\ data_seg.tail \in Nat /\ data_seg.lsn \in Nat /\ txn_seg.tail \in Nat /\ txn_seg.lsn \in Nat
   BY <1>1, Zenon DEF Segments
<1>4. DataTail(wal, n - 1, t) \in Nat /\ TxnTail(wal, n - 1, t) \in Nat
   BY <1>1, PrefixNumbers, Zenon
<1>5. /\ DataTail(wal, n - 1, t) <= data_seg.tail
      /\ data_seg.lsn >= n => DataTail(wal, n, t) <= data_seg.tail
   <2>1. CASE data_seg.lsn < n
      <3>1. DataAgrees(data_seg, wal, n - 1, t)
         BY <1>1, <1>3, <2>1, SpanEnds, Zenon
      <3>2. data_seg.tail = DataTail(wal, n - 1, t)
         BY <3>1, Zenon DEF DataAgrees, DataTail
      <3> QED BY <1>1, <1>3, <2>1, <3>2
   <2>2. CASE ~(data_seg.lsn < n)
      <3>1. DataAgrees(data_seg, wal, data_seg.lsn, t) /\ data_seg.lsn \in 0 .. Len(wal)
         BY <1>1, <1>3, <2>2, SpanEnds, Zenon
      <3>2. data_seg.tail = DataTail(wal, data_seg.lsn, t)
         BY <3>1, Zenon DEF DataAgrees, DataTail
      <3>3. n \in 0 .. data_seg.lsn /\ n - 1 \in 0 .. data_seg.lsn
         BY <1>1, <1>3, <2>2
      <3> QED BY <1>2, <3>1, <3>2, <3>3, Zenon DEF GrowInv
   <2> QED BY <2>1, <2>2, Zenon
<1>6. TxnTail(wal, n - 1, t) <= txn_seg.tail
   <2>1. CASE txn_seg.lsn < n
      <3>1. TxnAgrees(txn_seg, wal, n - 1, t)
         BY <1>1, <1>3, <2>1, SpanEnds, Zenon
      <3>2. txn_seg.tail = TxnTail(wal, n - 1, t)
         BY <3>1, Zenon DEF TxnAgrees, TxnTail
      <3> QED BY <1>3, <3>2
   <2>2. CASE ~(txn_seg.lsn < n)
      <3>1. TxnAgrees(txn_seg, wal, txn_seg.lsn, t) /\ txn_seg.lsn \in 0 .. Len(wal)
         BY <1>1, <1>3, <2>2, SpanEnds, Zenon
      <3>2. txn_seg.tail = TxnTail(wal, txn_seg.lsn, t)
         BY <3>1, Zenon DEF TxnAgrees, TxnTail
      <3>3. n - 1 \in 0 .. txn_seg.lsn
         BY <1>1, <1>3, <2>2
      <3> QED BY <1>2, <3>1, <3>2, <3>3, Zenon DEF GrowInv
   <2> QED BY <2>1, <2>2, Zenon
<1> QED BY <1>3, <1>4, <1>5, <1>6, Zenon

\* What the redo of record n may do to memory and pages.
LogRedone(n) ==
    \/ ulog' = ulog /\ (wal[n].type \notin LogTypes \/ ulog.lsn >= n)
    \/ /\ ulog' \in Logs /\ ulog'.dirty /\ data_seg'.tail > 0
       /\ ulog'.lsn = n /\ LogAgrees(ulog', wal, n)
DataRedone(n, t) ==
    \/ data_seg' = data_seg /\ (wal[n].type \notin DataTypes \/ data_seg.lsn >= n)
    \/ /\ data_seg' \in Segments /\ data_seg'.dirty /\ data_seg'.tail > 0
       /\ data_seg'.lsn = n /\ DataAgrees(data_seg', wal, n, t)
TxnRedone(n, t) ==
    \/ txn_seg' = txn_seg /\ (wal[n].type \notin TxnTypes \/ txn_seg.lsn >= n)
    \/ /\ txn_seg' \in Segments /\ txn_seg'.dirty /\ data_seg'.tail > 0
       /\ txn_seg'.lsn = n /\ TxnAgrees(txn_seg', wal, n, t)
PagesRedone(n) ==
    /\ disk' = [p \in Pages |-> disk'[p]]
    /\ \A p \in Pages : disk'[p] = disk[p] \/ disk'[p] = EmptyPage
    /\ \A p \in Pages : \/ buf'[p] = buf[p] \/ buf'[p] = EmptyPage
                        \/ /\ buf'[p].lsn = n
                           /\ p[1] = "slot" => EndsBelow(buf'[p].items, wal, n)
Replays ==
    /\ mode = "redo" /\ next_redo <= Len(wal) /\ next_redo' = next_redo + 1
    /\ UNCHANGED <<nextXid, running, slot_ptr, dw, ckpt, wal, flushed, meta, control>>

\* A step that replays a record in that way keeps the invariant.
LEMMA ReplayStep ==
    ASSUME NEW t \in InitTails, Inv(t), Replays, mode' = mode, NEW n, n = next_redo,
           LogRedone(n), DataRedone(n, t), TxnRedone(n, t), PagesRedone(n),
           used' = IF data_seg'.tail > 0 THEN 1 ELSE 0
    PROVE  Inv(t)'
<1>1. /\ mode = "redo" /\ mode' = "redo" /\ next_redo <= Len(wal) /\ next_redo' = n + 1
      /\ UNCHANGED <<nextXid, running, slot_ptr, dw, ckpt, wal, flushed, meta, control>>
   BY DEF Replays
<1>2. /\ Len(wal) \in Nat /\ n \in 1 .. Len(wal) /\ n \in Nat /\ n \in 0 .. Len(wal)
      /\ LogSpan(ulog, wal, n - 1) /\ DataSpan(data_seg, wal, n - 1, t)
      /\ TxnSpan(txn_seg, wal, n - 1, t)
      /\ ulog \in Logs /\ data_seg \in Segments /\ txn_seg \in Segments
   BY <1>1, RedoFacts
<1>3. ulog.lsn \in Nat /\ data_seg.lsn \in Nat /\ txn_seg.lsn \in Nat
   BY <1>2, Zenon DEF Logs, Segments
<1>4. ShapeInv /\ WriterInv /\ PageInv /\ DirtyInv /\ MetaInv(t) /\ WalInv(wal, t)
   BY Zenon DEF Inv
<1>5. LogSpan(ulog', wal, n) /\ DataSpan(data_seg', wal, n, t) /\ TxnSpan(txn_seg', wal, n, t)
   <2>1. LogSpan(ulog', wal, n)
      BY <1>2, <1>3, SpanStep, SpanNew, Zenon DEF LogRedone
   <2>2. DataSpan(data_seg', wal, n, t)
      BY <1>2, <1>3, SpanStep, SpanNew, Zenon DEF DataRedone
   <2>3. TxnSpan(txn_seg', wal, n, t)
      BY <1>2, <1>3, SpanStep, SpanNew, Zenon DEF TxnRedone
   <2> QED BY <2>1, <2>2, <2>3, Zenon
<1>6. Replayed' = n /\ next_redo' \in 0 .. Len(wal) + 1 /\ next_redo' > 0
   BY <1>1, <1>2 DEF Replayed
<1>7. MemoryInv(t)' /\ MetaInv(t)' /\ WalInv(wal, t)'
   BY <1>1, <1>4, <1>5, <1>6, Zenon DEF MemoryInv, MetaInv
<1>8. ulog' \in Logs /\ data_seg' \in Segments /\ txn_seg' \in Segments
   BY <1>2, Zenon DEF LogRedone, DataRedone, TxnRedone
<1>9. ShapeInv'
   BY <1>1, <1>4, <1>6, <1>8, Zenon DEF ShapeInv
<1>10. DirtyInv'
   <2>1. /\ ~ulog'.dirty => ulog' = meta.log
         /\ ~data_seg'.dirty => data_seg' = meta.data
         /\ ~txn_seg'.dirty => txn_seg' = meta.txn
      BY <1>1, <1>4, Zenon DEF DirtyInv, LogRedone, DataRedone, TxnRedone
   <2>2. data_seg'.tail > 0 \/ (UNCHANGED <<ulog, data_seg, txn_seg>>)
      BY Zenon DEF LogRedone, DataRedone, TxnRedone
   <2>3. data_seg'.tail = 0 => UNCHANGED <<ulog, data_seg, txn_seg>>
      BY <2>2
   <2> QED BY <1>1, <1>4, <2>1, <2>3, Zenon DEF DirtyInv
<1>11. PageInv'
   <2>1. EmptyPage.lsn = 0 /\ \A k : EndsBelow(EmptyPage.items, wal, k)
      BY EmptyPages, Zenon
   <2>2. 0 \in 0 .. Len(wal) /\ 0 \in 0 .. flushed
      BY <1>2, <1>4 DEF ShapeInv
   <2> QED BY <1>1, <1>2, <1>4, <2>1, <2>2, Zenon DEF PageInv, PagesRedone
<1>12. WriterInv'
   BY <1>1, <1>4, Zenon DEF WriterInv
<1> QED BY <1>7, <1>9, <1>10, <1>11, <1>12, Zenon DEF Inv

\* The slots on a page that is older than the record.
LEMMA OlderPage ==
    ASSUME NEW t \in InitTails, Inv(t), mode = "redo", next_redo <= Len(wal), NEW n, n = next_redo,
           NEW p \in Pages, p[1] = "slot", buf[p].lsn \in 1 .. n - 1
    PROVE  EndUpTo(buf[p].items, InsertAt(wal, n - 1))
<1>1. WalInv(wal, t) /\ PageInv
   BY Zenon DEF Inv
<1>2. n - 1 \in 0 .. Len(wal) /\ n - 1 \in Nat /\ PrefixInv(wal, n - 1, t)
   BY RedoFacts, Zenon
<1>3. buf[p].lsn \in 0 .. n - 1 /\ buf[p].lsn \in 0 .. Len(wal)
   BY <1>1, <1>2 DEF PageInv
<1>4. EndUpTo(buf[p].items, InsertAt(wal, buf[p].lsn))
   BY <1>1, Zenon DEF PageInv, EndsBelow
<1>5. InsertAt(wal, buf[p].lsn) <= InsertAt(wal, n - 1) /\ PrefixInv(wal, buf[p].lsn, t)
   BY <1>1, <1>2, <1>3, Zenon DEF WalInv, GrowInv
<1>6. InsertAt(wal, buf[p].lsn) \in Nat /\ InsertAt(wal, n - 1) \in Nat
   BY <1>2, <1>5, PrefixNumbers, Zenon
<1> QED BY <1>4, <1>5, <1>6, MoreItems, Zenon

\* Redo of the changes to pages: images and changed slot pages are in order.
LEMMA PagesReplayed ==
    ASSUME NEW t \in InitTails, Inv(t), mode = "redo", next_redo <= Len(wal), NEW n, n = next_redo,
           NEW rec, NEW after, RedoPages(rec, after), disk' = disk,
           \A p \in DOMAIN rec.image : p[1] = "slot" => EndsBelow(rec.image[p], wal, n),
           \A p \in DOMAIN after : p \in Pages /\ p[1] = "slot" /\ EndUpTo(Base(rec, p), InsertAt(wal, n - 1))
                                   => EndsBelow(after[p], wal, n)
    PROVE  PagesRedone(n)
<1>1. disk = [p \in Pages |-> disk[p]]
   BY Zenon DEF Inv, PageInv
<1>2. EndUpTo({}, InsertAt(wal, n - 1))
   BY Zenon DEF EndUpTo
<1>3. ASSUME NEW p \in Pages
      PROVE  \/ buf'[p] = buf[p]
             \/ /\ buf'[p].lsn = n
                /\ p[1] = "slot" => EndsBelow(buf'[p].items, wal, n)
   <2>1. buf'[p] = IF p \notin DOMAIN after THEN buf[p]
                   ELSE IF p \in DOMAIN rec.image THEN [lsn |-> n, items |-> rec.image[p]]
                   ELSE IF p \in rec.init \/ buf[p].lsn \in 1 .. n - 1
                        THEN [lsn |-> n, items |-> after[p]]
                   ELSE buf[p]
      BY <1>3, Zenon DEF RedoPages
   <2>2. CASE p \in DOMAIN after /\ p \in DOMAIN rec.image
      <3>1. buf'[p] = [lsn |-> n, items |-> rec.image[p]]
         BY <2>1, <2>2, Zenon
      <3>2. buf'[p].lsn = n /\ buf'[p].items = rec.image[p]
         BY <3>1
      <3> QED BY <2>2, <3>2, Zenon
   <2>3. CASE p \in DOMAIN after /\ p \notin DOMAIN rec.image /\ (p \in rec.init \/ buf[p].lsn \in 1 .. n - 1)
      <3>1. buf'[p].lsn = n /\ buf'[p].items = after[p]
         <4>1. buf'[p] = [lsn |-> n, items |-> after[p]]
            BY <2>1, <2>3, Zenon
         <4> QED BY <4>1
      <3>2. p[1] = "slot" => EndUpTo(Base(rec, p), InsertAt(wal, n - 1))
         BY <1>2, <1>3, <2>3, OlderPage, Zenon DEF Base
      <3> QED BY <1>3, <2>3, <3>1, <3>2, Zenon
   <2>4. CASE p \notin DOMAIN after \/ ~(p \in DOMAIN rec.image \/ p \in rec.init \/ buf[p].lsn \in 1 .. n - 1)
      BY <2>1, <2>4, Zenon
   <2> QED BY <2>2, <2>3, <2>4, Zenon
<1> QED BY <1>1, <1>3, Zenon DEF PagesRedone

\* redo_undo_meta finds room for the record below the tails, and moves the
\* pointers unless the log has them.
LEMMA InsertRedo ==
    ASSUME NEW t \in InitTails, Inv(t), Replays, NEW n, n = next_redo, NEW rec, rec = wal[n],
           redo_undo_meta(rec)
    PROVE  Inv(t)'
<1> DEFINE item == [urp |-> rec.urp, xid |-> rec.xid]
           pages == {HeapPage}
                        \cup {p \in {DataPage(rec.urp)} : ~is_skip_insert_undo(rec.urp)}
                        \cup {p \in {SlotPage(rec.slot)} : ~is_skip_insert_slot(rec.slot)}
           after == [p \in pages |->
                        IF p = SlotPage(rec.slot)
                        THEN SlotItems(Base(rec, p), rec.slot, rec.xid, rec.urp, rec.new)
                        ELSE Base(rec, p) \cup {item}]
<1>1. /\ rec.type = "insert" /\ PanicIf(PastTail(rec)) /\ RedoPages(rec, after)
      /\ ulog' = IF ulog.lsn < n
                 THEN [ulog EXCEPT !.insert = rec.urp + 1, !.alloc = IF rec.new THEN rec.slot + 1 ELSE @,
                                   !.lsn = n, !.dirty = TRUE]
                 ELSE ulog
      /\ UNCHANGED <<data_seg, txn_seg, used, disk>>
   BY Zenon DEF redo_undo_meta
<1>2. mode = "redo" /\ next_redo <= Len(wal)
   BY Zenon DEF Replays
<1>3. /\ n \in Nat /\ n > 0 /\ n - 1 \in Nat /\ Checked(rec, wal, n - 1, t) /\ PrefixInv(wal, n - 1, t)
      /\ LogSpan(ulog, wal, n - 1) /\ ulog \in Logs
   BY <1>2, RedoFacts, Zenon
<1>4. /\ rec.urp = InsertAt(wal, n - 1) /\ rec.urp + 1 < DataTail(wal, n - 1, t)
      /\ rec.slot \in 0 .. TxnTail(wal, n - 1, t) - 1 /\ rec.xid \in Int
      /\ ~rec.new => rec.slot + 1 = AllocAt(wal, n - 1)
      /\ \A p \in DOMAIN rec.image : p[1] = "slot" => EndUpTo(rec.image[p], rec.urp + 1)
   BY <1>1, <1>3, Zenon DEF Checked
<1>5. /\ rec.urp \in Nat /\ DataTail(wal, n - 1, t) \in Nat /\ TxnTail(wal, n - 1, t) \in Nat
      /\ data_seg.tail \in Nat /\ txn_seg.tail \in Nat
      /\ DataTail(wal, n - 1, t) <= data_seg.tail /\ TxnTail(wal, n - 1, t) <= txn_seg.tail
   BY <1>2, <1>3, <1>4, RedoTails, PrefixNumbers, Zenon
<1>6. /\ rec.urp + 1 < data_seg.tail /\ rec.slot < txn_seg.tail /\ rec.slot \in Nat
      /\ rec.slot + 1 \in Nat /\ rec.urp + 1 \in Nat /\ rec.slot \in Int /\ data_seg.tail > 0
   BY <1>4, <1>5
<1>7. mode' = mode
   BY <1>1, <1>5, <1>6 DEF PanicIf, PastTail
<1>8. /\ InsertAt(wal, n) = rec.urp + 1 /\ AllocAt(wal, n) = rec.slot + 1
      /\ RecycleAt(wal, n) = RecycleAt(wal, n - 1) /\ DiscardAt(wal, n) = DiscardAt(wal, n - 1)
   BY <1>1, <1>3, AtStep
<1>9. LogRedone(n)
   <2>1. CASE ulog.lsn < n
      <3>1. LogAgrees(ulog, wal, n - 1)
         <4>1. ulog.lsn \in Nat
            BY <1>3, Zenon DEF Logs
         <4> QED BY <1>3, <2>1, <4>1, SpanEnds, Zenon
      <3>2. ulog' = [ulog EXCEPT !.insert = rec.urp + 1, !.alloc = rec.slot + 1, !.lsn = n, !.dirty = TRUE]
         BY <1>1, <1>4, <2>1, <3>1, Zenon DEF LogAgrees
      <3>3. /\ ulog' \in Logs /\ ulog'.insert = rec.urp + 1 /\ ulog'.alloc = rec.slot + 1
            /\ ulog'.recycle = ulog.recycle /\ ulog'.discard = ulog.discard /\ ulog'.lsn = n /\ ulog'.dirty
         BY <1>3, <1>6, <3>2, Zenon DEF Logs
      <3>4. LogAgrees(ulog', wal, n)
         BY <1>8, <3>1, <3>3, Zenon DEF LogAgrees
      <3> QED BY <1>1, <1>6, <3>3, <3>4, Zenon DEF LogRedone
   <2>2. CASE ~(ulog.lsn < n)
      <3>1. ulog.lsn >= n
         BY <1>3, <2>2 DEF Logs
      <3> QED BY <1>1, <2>2, <3>1 DEF LogRedone
   <2> QED BY <2>1, <2>2, Zenon
<1>10. DataRedone(n, t) /\ TxnRedone(n, t)
   BY <1>1 DEF DataRedone, TxnRedone, DataTypes, TxnTypes
<1>11. PagesRedone(n)
   <2>1. \A p \in DOMAIN rec.image : p[1] = "slot" => EndsBelow(rec.image[p], wal, n)
      BY <1>4, <1>8, Zenon DEF EndsBelow
   <2>2. ASSUME NEW p \in DOMAIN after, p \in Pages, p[1] = "slot",
                EndUpTo(Base(rec, p), InsertAt(wal, n - 1))
         PROVE  EndsBelow(after[p], wal, n)
      <3>1. p = SlotPage(rec.slot)
         BY <2>2, PageNames, Zenon
      <3>2. after[p] = SlotItems(Base(rec, p), rec.slot, rec.xid, rec.urp, rec.new)
         BY <2>2, <3>1, Zenon
      <3> HIDE DEF after
      <3>3. EndUpTo(Base(rec, p), rec.urp)
         BY <1>4, <2>2, Zenon
      <3>4. rec.urp \in Nat /\ rec.slot \in Int /\ rec.xid \in Int
         BY <1>4, <1>5, <1>6, Zenon
      <3>5. EndUpTo(SlotItems(Base(rec, p), rec.slot, rec.xid, rec.urp, rec.new), rec.urp + 1)
         BY <3>3, <3>4, SlotItemsEnd
      <3> QED BY <1>8, <3>2, <3>5, Zenon DEF EndsBelow
   <2> HIDE DEF after
   <2> QED BY <1>1, <1>2, <2>1, <2>2, PagesReplayed, Zenon
<1>12. used' = IF data_seg'.tail > 0 THEN 1 ELSE 0
   BY <1>1, Zenon DEF Inv, ShapeInv
<1> HIDE DEF after
<1> QED BY <1>7, <1>9, <1>10, <1>11, <1>12, ReplayStep, Zenon

\* xheap_undo_xlog_page changes the heap page only.
LEMMA UndoRedo ==
    ASSUME NEW t \in InitTails, Inv(t), Replays, NEW n, n = next_redo, NEW rec, rec = wal[n],
           xheap_undo_xlog_page(rec)
    PROVE  Inv(t)'
<1> DEFINE after == [p \in {HeapPage} |-> Base(rec, p) \ rec.batch]
<1>1. /\ rec.type = "undo" /\ RedoPages(rec, after) /\ UNCHANGED <<ulog, data_seg, txn_seg, used, disk, mode>>
   BY Zenon DEF xheap_undo_xlog_page
<1>2. LogRedone(n) /\ DataRedone(n, t) /\ TxnRedone(n, t)
   BY <1>1, Zenon DEF LogRedone, DataRedone, TxnRedone, LogTypes, DataTypes, TxnTypes
<1>3. disk = [p \in Pages |-> disk[p]]
   BY Zenon DEF Inv, PageInv
<1>4. PagesRedone(n)
   <2>1. ASSUME NEW p \in Pages
         PROVE  \/ buf'[p] = buf[p]
                \/ buf'[p].lsn = n /\ p[1] # "slot"
      <3>1. CASE p = HeapPage
         <4>1. p[1] # "slot"
            BY <3>1, PageNames
         <4>2. buf'[p] = buf[p] \/ buf'[p] = [lsn |-> n, items |-> rec.image[p]]
                  \/ buf'[p] = [lsn |-> n, items |-> after[p]]
            <5> HIDE DEF after
            <5> QED BY <1>1, <2>1, Zenon DEF RedoPages
         <4>3. buf'[p] = buf[p] \/ buf'[p].lsn = n
            <5> HIDE DEF after
            <5> QED BY <4>2
         <4> QED BY <4>1, <4>3, Zenon
      <3>2. CASE p # HeapPage
         <4>1. p \notin DOMAIN after
            BY <3>2, Zenon
         <4> HIDE DEF after
         <4> QED BY <1>1, <2>1, <4>1, Zenon DEF RedoPages
      <3> QED BY <3>1, <3>2, Zenon
   <2> QED BY <1>1, <1>3, <2>1, Zenon DEF PagesRedone
<1>5. used' = IF data_seg'.tail > 0 THEN 1 ELSE 0
   BY <1>1, Zenon DEF Inv, ShapeInv
<1> HIDE DEF after
<1> QED BY <1>1, <1>2, <1>4, <1>5, ReplayStep, Zenon

\* xlog_undo_rollback_finish_redo finds the slot below the tail.
LEMMA FinishRedo ==
    ASSUME NEW t \in InitTails, Inv(t), Replays, NEW n, n = next_redo, NEW rec, rec = wal[n],
           xlog_undo_rollback_finish_redo(rec)
    PROVE  Inv(t)'
<1> DEFINE pages == {p \in {SlotPage(rec.slot)} : ~is_skip_insert_slot(rec.slot)}
           after == [p \in pages |-> Finish(Base(rec, p), rec.slot)]
<1>1. /\ rec.type = "rollback_finish" /\ PanicIf(rec.slot >= txn_seg.tail) /\ RedoPages(rec, after)
      /\ UNCHANGED <<ulog, data_seg, txn_seg, used, disk>>
   BY Zenon DEF xlog_undo_rollback_finish_redo
<1>2. mode = "redo" /\ next_redo <= Len(wal)
   BY Zenon DEF Replays
<1>3. n \in Nat /\ n > 0 /\ Checked(rec, wal, n - 1, t) /\ PrefixInv(wal, n - 1, t)
   BY <1>2, RedoFacts, Zenon
<1>4. /\ rec.slot \in 0 .. AllocAt(wal, n - 1) - 1
      /\ \A p \in DOMAIN rec.image : p[1] = "slot" => EndsBelow(rec.image[p], wal, n - 1)
   BY <1>1, <1>3, Zenon DEF Checked
<1>5. /\ AllocAt(wal, n - 1) \in 0 .. TxnTail(wal, n - 1, t) /\ TxnTail(wal, n - 1, t) \in Nat
      /\ txn_seg.tail \in Nat /\ TxnTail(wal, n - 1, t) <= txn_seg.tail
   BY <1>2, <1>3, RedoTails, Zenon DEF PrefixInv
<1>6. mode' = mode
   <2>1. ~(rec.slot >= txn_seg.tail)
      BY <1>4, <1>5
   <2> QED BY <1>1, <2>1, Zenon DEF PanicIf
<1>7. InsertAt(wal, n) = InsertAt(wal, n - 1)
   BY <1>1, <1>3, AtStep, Zenon
<1>8. LogRedone(n) /\ DataRedone(n, t) /\ TxnRedone(n, t)
   BY <1>1, Zenon DEF LogRedone, DataRedone, TxnRedone, LogTypes, DataTypes, TxnTypes
<1>9. PagesRedone(n)
   <2>1. \A p \in DOMAIN rec.image : p[1] = "slot" => EndsBelow(rec.image[p], wal, n)
      BY <1>4, <1>7, Zenon DEF EndsBelow
   <2>2. ASSUME NEW p \in DOMAIN after, p \in Pages, p[1] = "slot",
                EndUpTo(Base(rec, p), InsertAt(wal, n - 1))
         PROVE  EndsBelow(after[p], wal, n)
      <3>1. after[p] = Finish(Base(rec, p), rec.slot)
         BY <2>2, Zenon
      <3> HIDE DEF after
      <3> QED BY <1>7, <2>2, <3>1, FinishEnd, Zenon DEF EndsBelow
   <2> HIDE DEF after
   <2> QED BY <1>1, <1>2, <2>1, <2>2, PagesReplayed, Zenon
<1>10. used' = IF data_seg'.tail > 0 THEN 1 ELSE 0
   BY <1>1, Zenon DEF Inv, ShapeInv
<1> HIDE DEF after
<1> QED BY <1>6, <1>8, <1>9, <1>10, ReplayStep, Zenon

\* Redo that leaves the pages alone, and the removal of files by redo.
LEMMA PagesLeft ==
    ASSUME NEW t \in InitTails, Inv(t), NEW n
    PROVE  /\ UNCHANGED <<buf, disk>> => PagesRedone(n)
           /\ \A files : Unlink(files) => PagesRedone(n)
<1>1. disk = [p \in Pages |-> disk[p]]
   BY Zenon DEF Inv, PageInv
<1>2. UNCHANGED <<buf, disk>> => PagesRedone(n)
   BY <1>1, Zenon DEF PagesRedone
<1>3. \A files : Unlink(files) => PagesRedone(n)
   BY Zenon DEF PagesRedone, Unlink
<1> QED BY <1>2, <1>3, Zenon

\* xlog_undo_discard_redo finds the recycle pointer where the record starts.
LEMMA DiscardRedo ==
    ASSUME NEW t \in InitTails, Inv(t), Replays, NEW n, n = next_redo, NEW rec, rec = wal[n],
           xlog_undo_discard_redo(rec)
    PROVE  Inv(t)'
<1>1. /\ rec.type = "discard" /\ PanicIf(ulog.lsn < n /\ rec.startSlot # ulog.recycle)
      /\ ulog' = IF ulog.lsn < n
                 THEN [ulog EXCEPT !.recycle = rec.endSlot, !.discard = rec.endUndoPtr,
                                   !.lsn = n, !.dirty = TRUE]
                 ELSE ulog
      /\ UNCHANGED <<data_seg, txn_seg, used, buf, disk>>
   BY Zenon DEF xlog_undo_discard_redo
<1>2. mode = "redo" /\ next_redo <= Len(wal)
   BY Zenon DEF Replays
<1>3. /\ n \in Nat /\ n > 0 /\ n - 1 \in Nat /\ Checked(rec, wal, n - 1, t) /\ PrefixInv(wal, n - 1, t)
      /\ LogSpan(ulog, wal, n - 1) /\ ulog \in Logs
   BY <1>2, RedoFacts, Zenon
<1>4. /\ rec.startSlot = RecycleAt(wal, n - 1) /\ rec.endSlot \in 0 .. AllocAt(wal, n - 1)
      /\ rec.endUndoPtr \in 0 .. InsertAt(wal, n - 1) /\ DataTail(wal, n - 1, t) > 0
   BY <1>1, <1>3 DEF Checked
<1>5. /\ InsertAt(wal, n - 1) \in Nat /\ AllocAt(wal, n - 1) \in Nat /\ DataTail(wal, n - 1, t) \in Nat
      /\ data_seg.tail \in Nat /\ DataTail(wal, n - 1, t) <= data_seg.tail
   BY <1>2, <1>3, RedoTails, PrefixNumbers, Zenon
<1>6. rec.endSlot \in Nat /\ rec.endUndoPtr \in Nat /\ data_seg.tail > 0 /\ ulog.lsn \in Nat
   BY <1>3, <1>4, <1>5 DEF Logs
<1>7. ulog.lsn < n => LogAgrees(ulog, wal, n - 1)
   BY <1>3, <1>6, SpanEnds, Zenon
<1>8. mode' = mode
   BY <1>1, <1>4, <1>7, Zenon DEF PanicIf, LogAgrees
<1>9. /\ InsertAt(wal, n) = InsertAt(wal, n - 1) /\ AllocAt(wal, n) = AllocAt(wal, n - 1)
      /\ RecycleAt(wal, n) = rec.endSlot /\ DiscardAt(wal, n) = rec.endUndoPtr
   BY <1>1, <1>3, AtStep
<1>10. LogRedone(n)
   <2>1. CASE ulog.lsn < n
      <3>1. ulog' = [ulog EXCEPT !.recycle = rec.endSlot, !.discard = rec.endUndoPtr,
                                 !.lsn = n, !.dirty = TRUE]
         BY <1>1, <2>1, Zenon
      <3>2. /\ ulog' \in Logs /\ ulog'.insert = ulog.insert /\ ulog'.alloc = ulog.alloc
            /\ ulog'.recycle = rec.endSlot /\ ulog'.discard = rec.endUndoPtr /\ ulog'.lsn = n /\ ulog'.dirty
         BY <1>3, <1>6, <3>1, Zenon DEF Logs
      <3>3. LogAgrees(ulog', wal, n)
         BY <1>7, <1>9, <2>1, <3>2, Zenon DEF LogAgrees
      <3> QED BY <1>1, <1>6, <3>2, <3>3, Zenon DEF LogRedone
   <2>2. CASE ~(ulog.lsn < n)
      <3>1. ulog.lsn >= n
         BY <1>3, <1>6, <2>2, NotLess, Zenon
      <3> QED BY <1>1, <2>2, <3>1 DEF LogRedone
   <2> QED BY <2>1, <2>2, Zenon
<1>11. DataRedone(n, t) /\ TxnRedone(n, t)
   BY <1>1 DEF DataRedone, TxnRedone, DataTypes, TxnTypes
<1>12. PagesRedone(n)
   BY <1>1, PagesLeft, Zenon
<1>13. used' = IF data_seg'.tail > 0 THEN 1 ELSE 0
   BY <1>1, Zenon DEF Inv, ShapeInv
<1> QED BY <1>8, <1>10, <1>11, <1>12, <1>13, ReplayStep, Zenon

\* A larger tail is the one the record gives.
LEMMA LargerTail ==
    ASSUME NEW a \in Nat, NEW b \in Nat, a <= b
    PROVE  Larger(a, b) = b
BY DEF Larger

\* xlog_undo_extend_redo: the tail of the data segment.
LEMMA ExtendRedoData ==
    ASSUME NEW t \in InitTails, Inv(t), Replays, mode' = mode, NEW n, n = next_redo, NEW rec, rec = wal[n],
           rec.type = "extend", data_seg' = ExtendRedo(data_seg, rec),
           used' = IF data_seg.tail = 0 THEN used + 1 ELSE used,
           UNCHANGED <<ulog, txn_seg, buf, disk>>
    PROVE  Inv(t)'
<1>1. mode = "redo" /\ next_redo <= Len(wal)
   BY Zenon DEF Replays
<1>2. /\ n \in Nat /\ n > 0 /\ n - 1 \in Nat /\ Checked(rec, wal, n - 1, t)
      /\ DataSpan(data_seg, wal, n - 1, t) /\ data_seg \in Segments
   BY <1>1, RedoFacts, Zenon
<1>3. rec.tail \in Nat /\ rec.tail > 0 /\ rec.tail >= DataTail(wal, n - 1, t)
   BY <1>2, CheckedTail, Zenon
<1>4. /\ data_seg.tail \in Nat /\ DataTail(wal, n - 1, t) \in Nat
      /\ data_seg.lsn >= n => DataTail(wal, n, t) <= data_seg.tail
   BY <1>1, RedoTails, Zenon
<1>5. data_seg.lsn \in Nat /\ data_seg.head \in Nat
   BY <1>2, Zenon DEF Segments
<1>6. HeadAt(wal, "unlink", n) = HeadAt(wal, "unlink", n - 1) /\ DataTail(wal, n, t) = rec.tail
   BY <1>2, AtStep, Zenon
<1>7. DataRedone(n, t) /\ data_seg'.tail \in Nat /\ data_seg'.tail > 0
   <2>1. CASE data_seg.lsn < n
      <3>1. DataAgrees(data_seg, wal, n - 1, t)
         BY <1>2, <1>5, <2>1, SpanEnds, Zenon
      <3>2. data_seg.tail = DataTail(wal, n - 1, t) /\ data_seg.head = HeadAt(wal, "unlink", n - 1)
         BY <3>1, Zenon DEF DataAgrees, DataTail
      <3>3. Larger(data_seg.tail, rec.tail) = rec.tail
         BY <1>3, <1>4, <3>2, LargerTail, Zenon
      <3>4. data_seg' = [data_seg EXCEPT !.tail = rec.tail, !.lsn = n, !.dirty = TRUE]
         BY <2>1, <3>3, Zenon DEF ExtendRedo
      <3>5. /\ data_seg' \in Segments /\ data_seg'.head = data_seg.head /\ data_seg'.tail = rec.tail
            /\ data_seg'.lsn = n /\ data_seg'.dirty
         BY <1>2, <1>3, <3>4, Zenon DEF Segments
      <3>6. DataAgrees(data_seg', wal, n, t)
         BY <1>6, <3>2, <3>5, Zenon DEF DataAgrees, DataTail
      <3> QED BY <1>3, <3>5, <3>6, Zenon DEF DataRedone
   <2>2. CASE ~(data_seg.lsn < n)
      <3>1. data_seg.lsn >= n
         BY <1>2, <1>5, <2>2, NotLess, Zenon
      <3>2. data_seg' = data_seg
         BY <2>2, Zenon DEF ExtendRedo
      <3>3. data_seg.tail > 0
         BY <1>3, <1>4, <1>6, <3>1
      <3> QED BY <1>4, <3>1, <3>2, <3>3, Zenon DEF DataRedone
   <2> QED BY <2>1, <2>2, Zenon
<1>8. used' = IF data_seg'.tail > 0 THEN 1 ELSE 0
   <2>1. used = IF data_seg.tail > 0 THEN 1 ELSE 0
      BY Zenon DEF Inv, ShapeInv
   <2> QED BY <1>4, <1>7, <2>1
<1>9. LogRedone(n) /\ TxnRedone(n, t)
   BY Zenon DEF LogRedone, TxnRedone, LogTypes, TxnTypes
<1>10. PagesRedone(n)
   BY PagesLeft, Zenon
<1> QED BY <1>7, <1>8, <1>9, <1>10, ReplayStep, Zenon

\* xlog_undo_extend_txnslot_redo: the tail of the slot segment.
LEMMA ExtendRedoSlots ==
    ASSUME NEW t \in InitTails, Inv(t), Replays, mode' = mode, NEW n, n = next_redo, NEW rec, rec = wal[n],
           rec.type = "slot_extend", txn_seg' = ExtendRedo(txn_seg, rec),
           UNCHANGED <<ulog, data_seg, used, buf, disk>>
    PROVE  Inv(t)'
<1>1. mode = "redo" /\ next_redo <= Len(wal)
   BY Zenon DEF Replays
<1>2. /\ n \in Nat /\ n > 0 /\ n - 1 \in Nat /\ Checked(rec, wal, n - 1, t)
      /\ TxnSpan(txn_seg, wal, n - 1, t) /\ txn_seg \in Segments
   BY <1>1, RedoFacts, Zenon
<1>3. rec.tail \in Nat /\ rec.tail >= TxnTail(wal, n - 1, t) /\ DataTail(wal, n - 1, t) > 0
   BY <1>2, Zenon DEF Checked
<1>4. /\ data_seg.tail \in Nat /\ DataTail(wal, n - 1, t) \in Nat /\ TxnTail(wal, n - 1, t) \in Nat
      /\ DataTail(wal, n - 1, t) <= data_seg.tail
   BY <1>1, RedoTails, Zenon
<1>5. txn_seg.lsn \in Nat
   BY <1>2, Zenon DEF Segments
<1>6. HeadAt(wal, "slot_unlink", n) = HeadAt(wal, "slot_unlink", n - 1) /\ TxnTail(wal, n, t) = rec.tail
   BY <1>2, AtStep, Zenon
<1>7. data_seg'.tail > 0
   BY <1>3, <1>4
<1>8. TxnRedone(n, t)
   <2>1. CASE txn_seg.lsn < n
      <3>1. TxnAgrees(txn_seg, wal, n - 1, t)
         BY <1>2, <1>5, <2>1, SpanEnds, Zenon
      <3>2. txn_seg.tail = TxnTail(wal, n - 1, t) /\ txn_seg.head = HeadAt(wal, "slot_unlink", n - 1)
         BY <3>1, Zenon DEF TxnAgrees, TxnTail
      <3>3. Larger(txn_seg.tail, rec.tail) = rec.tail
         BY <1>3, <1>4, <3>2, LargerTail, Zenon
      <3>4. txn_seg' = [txn_seg EXCEPT !.tail = rec.tail, !.lsn = n, !.dirty = TRUE]
         BY <2>1, <3>3, Zenon DEF ExtendRedo
      <3>5. /\ txn_seg' \in Segments /\ txn_seg'.head = txn_seg.head /\ txn_seg'.tail = rec.tail
            /\ txn_seg'.lsn = n /\ txn_seg'.dirty
         BY <1>2, <1>3, <3>4, Zenon DEF Segments
      <3>6. TxnAgrees(txn_seg', wal, n, t)
         BY <1>6, <3>2, <3>5, Zenon DEF TxnAgrees, TxnTail
      <3> QED BY <1>7, <3>5, <3>6, Zenon DEF TxnRedone
   <2>2. CASE ~(txn_seg.lsn < n)
      <3>1. txn_seg.lsn >= n
         BY <1>2, <1>5, <2>2, NotLess, Zenon
      <3> QED BY <2>2, <3>1, Zenon DEF TxnRedone, ExtendRedo
   <2> QED BY <2>1, <2>2, Zenon
<1>9. LogRedone(n) /\ DataRedone(n, t)
   BY Zenon DEF LogRedone, DataRedone, LogTypes, DataTypes
<1>10. PagesRedone(n)
   BY PagesLeft, Zenon
<1>11. used' = IF data_seg'.tail > 0 THEN 1 ELSE 0
   BY Zenon DEF Inv, ShapeInv
<1> QED BY <1>8, <1>9, <1>10, <1>11, ReplayStep, Zenon

\* xlog_undo_unlink_redo: the head of the data segment.
LEMMA UnlinkRedoData ==
    ASSUME NEW t \in InitTails, Inv(t), Replays, mode' = mode, NEW n, n = next_redo, NEW rec, rec = wal[n],
           rec.type = "unlink", NEW files, Unlink(files), data_seg' = UnlinkRedo(data_seg, rec),
           UNCHANGED <<ulog, txn_seg, used>>
    PROVE  Inv(t)'
<1>1. mode = "redo" /\ next_redo <= Len(wal)
   BY Zenon DEF Replays
<1>2. /\ n \in Nat /\ n > 0 /\ n - 1 \in Nat /\ Checked(rec, wal, n - 1, t) /\ PrefixInv(wal, n - 1, t)
      /\ DataSpan(data_seg, wal, n - 1, t) /\ data_seg \in Segments
   BY <1>1, RedoFacts, Zenon
<1>3. rec.head \in 0 .. InsertAt(wal, n - 1) /\ DataTail(wal, n - 1, t) > 0
   BY <1>2, Zenon DEF Checked
<1>4. /\ data_seg.tail \in Nat /\ DataTail(wal, n - 1, t) \in Nat /\ InsertAt(wal, n - 1) \in Nat
      /\ DataTail(wal, n - 1, t) <= data_seg.tail
   BY <1>1, <1>2, RedoTails, PrefixNumbers, Zenon
<1>5. rec.head \in Nat /\ data_seg.tail > 0
   BY <1>3, <1>4
<1>6. data_seg.lsn \in Nat
   BY <1>2, Zenon DEF Segments
<1>7. HeadAt(wal, "unlink", n) = rec.head /\ DataTail(wal, n, t) = DataTail(wal, n - 1, t)
   BY <1>2, AtStep, Zenon
<1>8. DataRedone(n, t) /\ data_seg'.tail = data_seg.tail
   <2>1. CASE data_seg.lsn < n
      <3>1. DataAgrees(data_seg, wal, n - 1, t)
         BY <1>2, <1>6, <2>1, SpanEnds, Zenon
      <3>2. data_seg' = [data_seg EXCEPT !.head = rec.head, !.lsn = n, !.dirty = TRUE]
         BY <2>1, Zenon DEF UnlinkRedo
      <3>3. /\ data_seg' \in Segments /\ data_seg'.head = rec.head /\ data_seg'.tail = data_seg.tail
            /\ data_seg'.lsn = n /\ data_seg'.dirty
         BY <1>2, <1>5, <3>2, Zenon DEF Segments
      <3>4. DataAgrees(data_seg', wal, n, t)
         BY <1>7, <3>1, <3>3, Zenon DEF DataAgrees, DataTail
      <3> QED BY <1>5, <3>3, <3>4, Zenon DEF DataRedone
   <2>2. CASE ~(data_seg.lsn < n)
      <3>1. data_seg.lsn >= n
         BY <1>2, <1>6, <2>2, NotLess, Zenon
      <3> QED BY <2>2, <3>1, Zenon DEF DataRedone, UnlinkRedo
   <2> QED BY <2>1, <2>2, Zenon
<1>9. LogRedone(n) /\ TxnRedone(n, t)
   BY DEF LogRedone, TxnRedone, LogTypes, TxnTypes
<1>10. PagesRedone(n)
   BY PagesLeft, Zenon
<1>11. used' = IF data_seg'.tail > 0 THEN 1 ELSE 0
   BY <1>8, Zenon DEF Inv, ShapeInv
<1> QED BY <1>8, <1>9, <1>10, <1>11, ReplayStep, Zenon

\* xlog_undo_unlink_txnslot_redo: the head of the slot segment.
LEMMA UnlinkRedoSlots ==
    ASSUME NEW t \in InitTails, Inv(t), Replays, mode' = mode, NEW n, n = next_redo, NEW rec, rec = wal[n],
           rec.type = "slot_unlink", NEW files, Unlink(files), txn_seg' = UnlinkRedo(txn_seg, rec),
           UNCHANGED <<ulog, data_seg, used>>
    PROVE  Inv(t)'
<1>1. mode = "redo" /\ next_redo <= Len(wal)
   BY Zenon DEF Replays
<1>2. /\ n \in Nat /\ n > 0 /\ n - 1 \in Nat /\ Checked(rec, wal, n - 1, t) /\ PrefixInv(wal, n - 1, t)
      /\ TxnSpan(txn_seg, wal, n - 1, t) /\ txn_seg \in Segments
   BY <1>1, RedoFacts, Zenon
<1>3. rec.head \in 0 .. AllocAt(wal, n - 1) /\ DataTail(wal, n - 1, t) > 0
   BY <1>2, Zenon DEF Checked
<1>4. /\ data_seg.tail \in Nat /\ DataTail(wal, n - 1, t) \in Nat /\ AllocAt(wal, n - 1) \in Nat
      /\ DataTail(wal, n - 1, t) <= data_seg.tail
   BY <1>1, <1>2, RedoTails, PrefixNumbers, Zenon
<1>5. rec.head \in Nat /\ data_seg'.tail > 0
   BY <1>3, <1>4
<1>6. txn_seg.lsn \in Nat
   BY <1>2, Zenon DEF Segments
<1>7. HeadAt(wal, "slot_unlink", n) = rec.head /\ TxnTail(wal, n, t) = TxnTail(wal, n - 1, t)
   BY <1>2, AtStep, Zenon
<1>8. TxnRedone(n, t)
   <2>1. CASE txn_seg.lsn < n
      <3>1. TxnAgrees(txn_seg, wal, n - 1, t)
         BY <1>2, <1>6, <2>1, SpanEnds, Zenon
      <3>2. txn_seg' = [txn_seg EXCEPT !.head = rec.head, !.lsn = n, !.dirty = TRUE]
         BY <2>1, Zenon DEF UnlinkRedo
      <3>3. /\ txn_seg' \in Segments /\ txn_seg'.head = rec.head /\ txn_seg'.tail = txn_seg.tail
            /\ txn_seg'.lsn = n /\ txn_seg'.dirty
         BY <1>2, <1>5, <3>2, Zenon DEF Segments
      <3>4. TxnAgrees(txn_seg', wal, n, t)
         BY <1>7, <3>1, <3>3, Zenon DEF TxnAgrees, TxnTail
      <3> QED BY <1>5, <3>3, <3>4, Zenon DEF TxnRedone
   <2>2. CASE ~(txn_seg.lsn < n)
      <3>1. txn_seg.lsn >= n
         BY <1>2, <1>6, <2>2, NotLess, Zenon
      <3> QED BY <2>2, <3>1, Zenon DEF TxnRedone, UnlinkRedo
   <2> QED BY <2>1, <2>2, Zenon
<1>9. LogRedone(n) /\ DataRedone(n, t)
   BY DEF LogRedone, DataRedone, LogTypes, DataTypes
<1>10. PagesRedone(n)
   BY PagesLeft, Zenon
<1>11. used' = IF data_seg'.tail > 0 THEN 1 ELSE 0
   BY Zenon DEF Inv, ShapeInv
<1> QED BY <1>8, <1>9, <1>10, <1>11, ReplayStep, Zenon

\* xlog_redo changes none of it.
LEMMA OtherRedo ==
    ASSUME NEW t \in InitTails, Inv(t), Replays, NEW n, n = next_redo, NEW rec, rec = wal[n], xlog_redo(rec)
    PROVE  Inv(t)'
<1>1. rec.type \in {"commit", "checkpoint"} /\ UNCHANGED <<ulog, data_seg, txn_seg, used, buf, disk, mode>>
   BY Zenon DEF xlog_redo
<1>2. LogRedone(n) /\ DataRedone(n, t) /\ TxnRedone(n, t)
   BY <1>1 DEF LogRedone, DataRedone, TxnRedone, LogTypes, DataTypes, TxnTypes
<1>3. PagesRedone(n)
   BY <1>1, PagesLeft, Zenon
<1>4. used' = IF data_seg'.tail > 0 THEN 1 ELSE 0
   BY <1>1, Zenon DEF Inv, ShapeInv
<1> QED BY <1>1, <1>2, <1>3, <1>4, ReplayStep, Zenon

\* Redo of one record, whatever its type, never ends in a panic and leaves memory
\* as the records up to it say.
LEMMA RedoStep ==
    ASSUME NEW t \in InitTails, Inv(t), Redo
    PROVE  Inv(t)'
<1>1. Replays
   BY Zenon DEF Redo, Replays, xactVars, walVars, diskVars
<1>2. PICK n : n = next_redo
   OBVIOUS
<1>3. PICK rec : rec = wal[n]
   OBVIOUS
<1>4. \/ redo_undo_meta(rec) \/ xheap_undo_xlog_page(rec)
      \/ xlog_undo_rollback_finish_redo(rec) \/ xlog_undo_discard_redo(rec)
      \/ xlog_undo_extend_redo(rec) \/ xlog_undo_unlink_redo(rec) \/ xlog_redo(rec)
   BY <1>2, <1>3, Zenon DEF Redo
<1>5. CASE redo_undo_meta(rec)
   BY <1>1, <1>2, <1>3, <1>5, InsertRedo, Zenon
<1>6. CASE xheap_undo_xlog_page(rec)
   BY <1>1, <1>2, <1>3, <1>6, UndoRedo, Zenon
<1>7. CASE xlog_undo_rollback_finish_redo(rec)
   BY <1>1, <1>2, <1>3, <1>7, FinishRedo, Zenon
<1>8. CASE xlog_undo_discard_redo(rec)
   BY <1>1, <1>2, <1>3, <1>8, DiscardRedo, Zenon
<1>9. CASE xlog_undo_extend_redo(rec)
   BY <1>1, <1>2, <1>3, <1>9, ExtendRedoData, ExtendRedoSlots, Zenon DEF xlog_undo_extend_redo
<1>10. CASE xlog_undo_unlink_redo(rec)
   BY <1>1, <1>2, <1>3, <1>10, UnlinkRedoData, UnlinkRedoSlots, Zenon DEF xlog_undo_unlink_redo
<1>11. CASE xlog_redo(rec)
   BY <1>1, <1>2, <1>3, <1>11, OtherRedo, Zenon
<1> QED BY <1>4, <1>5, <1>6, <1>7, <1>8, <1>9, <1>10, <1>11, Zenon

-----------------------------------------------------------------------------
(* The theorems                                                            *)

\* The first state: an empty WAL, and the metadata file as memory is.
LEMMA InitInv ==
    ASSUME Init
    PROVE  IInv
<1>1. PICK t \in InitTails : /\ data_seg = [EmptySegment EXCEPT !.tail = t * RecordsPerFile]
                             /\ txn_seg = [EmptySegment EXCEPT !.tail = t * SlotsPerFile]
   BY Zenon DEF Init
<1>2. /\ nextXid = 1 /\ running = NoXid /\ slot_ptr = NoSlot /\ ulog = EmptyLog
      /\ used = IF data_seg.tail = 0 THEN 0 ELSE 1
      /\ buf = [p \in Pages |-> EmptyPage] /\ disk = buf /\ dw = IdleDiscard /\ ckpt = IdleCheckpoint
      /\ wal = <<>> /\ flushed = 0 /\ meta = [log |-> ulog, data |-> data_seg, txn |-> txn_seg]
      /\ control = [redo |-> 0, frozen |-> 1] /\ mode = "up" /\ next_redo = 0
   BY Zenon DEF Init
<1>3. /\ t \in Nat /\ t * RecordsPerFile \in Nat /\ t * SlotsPerFile \in Nat
      /\ t = 0 => t * RecordsPerFile = 0
      /\ t > 0 => t * RecordsPerFile > 0
   BY <1>1, ConstantsAssumption, Multiples
<1>4. /\ data_seg \in Segments /\ data_seg.head = 0 /\ data_seg.tail = t * RecordsPerFile
      /\ data_seg.lsn = 0 /\ ~data_seg.dirty
   BY <1>1, <1>3, Zenon DEF EmptySegment, Segments
<1>5. /\ txn_seg \in Segments /\ txn_seg.head = 0 /\ txn_seg.tail = t * SlotsPerFile
      /\ txn_seg.lsn = 0 /\ ~txn_seg.dirty
   BY <1>1, <1>3, Zenon DEF EmptySegment, Segments
<1>6. /\ ulog \in Logs /\ ulog.insert = 0 /\ ulog.alloc = 0 /\ ulog.recycle = 0 /\ ulog.discard = 0
      /\ ulog.lsn = 0 /\ ~ulog.dirty
   BY <1>2 DEF EmptyLog, Logs
<1>7. wal \in Seq(Range(wal)) /\ Len(wal) = 0
   BY <1>2 DEF Range
<1>8. LogAgrees(ulog, wal, 0) /\ DataAgrees(data_seg, wal, 0, t) /\ TxnAgrees(txn_seg, wal, 0, t)
   BY <1>4, <1>5, <1>6, AtZero, Zenon DEF LogAgrees, DataAgrees, TxnAgrees, DataTail, TxnTail
<1>9. \A n : n \in 0 .. 0 <=> n = 0
   OBVIOUS
<1>10. PrefixInv(wal, 0, t)
   <2>1. /\ InsertAt(wal, 0) = 0 /\ AllocAt(wal, 0) = 0 /\ RecycleAt(wal, 0) = 0 /\ DiscardAt(wal, 0) = 0
         /\ HeadAt(wal, "unlink", 0) = 0 /\ HeadAt(wal, "slot_unlink", 0) = 0
         /\ DataTail(wal, 0, t) \in Nat /\ TxnTail(wal, 0, t) \in Nat
      BY <1>3, AtZero, Zenon
   <2> QED BY <2>1 DEF PrefixInv
<1>11. WalInv(wal, t)
   <2>1. \A n \in 1 .. Len(wal) : RecordInv(wal, n, t)
      <3>1. \A n : n \notin 1 .. 0
         OBVIOUS
      <3> QED BY <1>7, <3>1, Zenon
   <2>2. \A n \in 0 .. Len(wal) : PrefixInv(wal, n, t)
      BY <1>7, <1>9, <1>10, Zenon
   <2>3. GrowInv(wal, t)
      <3>1. InsertAt(wal, 0) \in Nat /\ DataTail(wal, 0, t) \in Nat /\ TxnTail(wal, 0, t) \in Nat
         BY <1>10, PrefixNumbers, Zenon
      <3>2. /\ InsertAt(wal, 0) <= InsertAt(wal, 0) /\ DataTail(wal, 0, t) <= DataTail(wal, 0, t)
            /\ TxnTail(wal, 0, t) <= TxnTail(wal, 0, t)
         BY <3>1
      <3> QED BY <1>7, <1>9, <3>2, Zenon DEF GrowInv
   <2> QED BY <1>7, <2>1, <2>2, <2>3, Zenon DEF WalInv
<1>12. LogSpan(ulog, wal, 0) /\ DataSpan(data_seg, wal, 0, t) /\ TxnSpan(txn_seg, wal, 0, t)
   <2>1. Larger(0, 0) = 0
      BY DEF Larger
   <2> QED BY <1>4, <1>5, <1>6, <1>7, <1>8, <1>9, <2>1, Zenon DEF LogSpan, DataSpan, TxnSpan
<1>13. MemoryInv(t)
   <2>1. Replayed = 0
      BY <1>2, <1>7 DEF Replayed
   <2> QED BY <1>12, <2>1, Zenon DEF MemoryInv
<1>14. meta.log = ulog /\ meta.data = data_seg /\ meta.txn = txn_seg /\ control.redo = 0
       /\ meta \in [log : Logs, data : Segments, txn : Segments]
   BY <1>2, <1>4, <1>5, <1>6, Zenon
<1>15. ckpt.pc = "idle" /\ ckpt \in Checkpoints /\ dw.pc = "idle" /\ dw \in Discards
   BY <1>2 DEF IdleCheckpoint, Checkpoints, IdleDiscard, Discards
<1>16. MetaInv(t)
   <2>1. 0 <= 0 /\ "idle" \notin {"data", "txn", "record"} /\ "idle" \notin {"txn", "record"}
      OBVIOUS
   <2> QED BY <1>2, <1>4, <1>5, <1>6, <1>12, <1>14, <1>15, <2>1, Zenon DEF MetaInv
<1>17. ShapeInv
   <2>1. used = IF data_seg.tail > 0 THEN 1 ELSE 0
      BY <1>2, <1>3, <1>4
   <2>2. /\ flushed \in 0 .. Len(wal) /\ control.redo \in 0 .. flushed /\ next_redo \in 0 .. Len(wal) + 1
         /\ mode \in {"up", "down", "redo"} /\ mode \notin {"down", "redo"} /\ mode # "redo"
      BY <1>2, <1>7, <1>14
   <2> QED BY <1>2, <1>4, <1>5, <1>6, <1>14, <1>15, <2>1, <2>2, Zenon DEF ShapeInv
<1>18. DirtyInv
   BY <1>4, <1>5, <1>6, <1>14, Zenon DEF DirtyInv
<1>19. PageInv
   <2>1. EmptyPage.lsn = 0 /\ \A k : EndsBelow(EmptyPage.items, wal, k)
      BY EmptyPages, Zenon
   <2>2. 0 \in 0 .. Len(wal) /\ 0 \in 0 .. flushed
      BY <1>2, <1>7
   <2> QED BY <1>2, <2>1, <2>2, Zenon DEF PageInv
<1>20. WriterInv
   <2>1. AllocBelow(wal, nextXid)
      <3>1. AllocAt(wal, 0) < 1
         BY AtZero
      <3> QED BY <1>2, <1>7, <1>9, <3>1, Zenon DEF AllocBelow
   <2>2. nextXid \in 1 .. MaxXid + 1
      BY <1>2, ConstantsAssumption
   <2> QED BY <1>2, <1>15, <2>1, <2>2, Zenon DEF WriterInv
<1>21. DownInv
   BY <1>2 DEF DownInv
<1> QED BY <1>11, <1>13, <1>16, <1>17, <1>18, <1>19, <1>20, <1>21, Zenon DEF IInv, Inv

\* Only a crash takes the server down, and it empties memory.
LEMMA DownStep ==
    ASSUME DownInv, Next
    PROVE  DownInv'
<1>1. CASE /\ mode' # "down"
   BY <1>1, Zenon DEF DownInv
<1>2. CASE mode' = "down"
   <2>1. Crash
      <3>1. mode \in {"up", "redo"} /\ mode' = mode => FALSE
         BY <1>2
      <3>2. mode' = "redo" \/ mode' = "up" => FALSE
         BY <1>2
      <3>3. ~Redo
         <4>1. ASSUME NEW f, PanicIf(f), mode = "redo"
               PROVE  FALSE
            BY <1>2, <4>1 DEF PanicIf
         <4> QED BY <3>1, <4>1 DEF Redo, redo_undo_meta, xheap_undo_xlog_page,
                    xlog_undo_rollback_finish_redo, xlog_undo_discard_redo, xlog_undo_extend_redo,
                    xlog_undo_unlink_redo, xlog_redo
      <3>4. /\ ~Begin /\ ~undolog_alloc_space /\ ~undolog_alloc_slot_space /\ ~insert_prepared_undo
            /\ ~Commit /\ ~Abort /\ ~execute_undo_actions /\ ~set_undo_slot_rollback_finish
         BY <3>1, Zenon DEF Begin, undolog_alloc_space, undolog_alloc_slot_space, insert_prepared_undo,
               Commit, Abort, execute_undo_actions, set_undo_slot_rollback_finish, serverVars
      <3>5. /\ ~recycle_undo_space /\ ~undolog_release_space /\ ~undolog_release_slot_space
            /\ ~CreateCheckPoint /\ ~checkpoint_undo_logs /\ ~checkpoint_undo_segment /\ ~CheckpointRecord
         BY <3>1, Zenon DEF recycle_undo_space, undolog_release_space, undolog_release_slot_space,
               CreateCheckPoint, checkpoint_undo_logs, checkpoint_undo_segment, CheckpointRecord, serverVars
      <3>6. \A p \in Pages : ~FlushBuffer(p)
         BY <3>1, Zenon DEF FlushBuffer
      <3>7. ~recovery_undo_meta /\ ~EndOfRecovery
         BY <3>2, Zenon DEF recovery_undo_meta, EndOfRecovery
      <3> QED BY <3>3, <3>4, <3>5, <3>6, <3>7, Zenon DEF Next
   <2> QED BY <2>1, Zenon DEF Crash, DownInv
<1> QED BY <1>1, <1>2, Zenon

\* Every step keeps the invariant: the writer, the rollback, the discard worker,
\* the checkpointer, a crash and each step of recovery.
LEMMA NextInv ==
    ASSUME IInv, [Next]_vars
    PROVE  IInv'
<1>1. PICK t \in InitTails : Inv(t)
   BY Zenon DEF IInv
<1>2. DownInv
   BY Zenon DEF IInv
<1>3. CASE UNCHANGED vars
   <2>1. UNCHANGED <<nextXid, running, slot_ptr, ulog, data_seg, txn_seg, used, buf, dw, ckpt, wal, flushed,
                     disk, meta, control, mode, next_redo>>
      BY <1>3, Zenon DEF vars, xactVars, memVars, walVars, diskVars, serverVars
   <2>2. /\ WalInv(wal, t)' <=> WalInv(wal, t)
         /\ MemoryInv(t)' <=> MemoryInv(t)
         /\ MetaInv(t)' <=> MetaInv(t)
      BY <2>1, Zenon DEF MemoryInv, MetaInv, Replayed
   <2>3. (ShapeInv' <=> ShapeInv) /\ (DirtyInv' <=> DirtyInv) /\ (WriterInv' <=> WriterInv)
      BY <2>1, Zenon DEF ShapeInv, DirtyInv, WriterInv
   <2>4. PageInv' <=> PageInv
      BY <2>1, Zenon DEF PageInv
   <2>5. Inv(t)'
      BY <1>1, <2>2, <2>3, <2>4, Zenon DEF Inv
   <2>6. DownInv'
      BY <1>2, <2>1, Zenon DEF DownInv
   <2> QED BY <2>5, <2>6, Zenon DEF IInv
<1>4. CASE Next
   <2>1. Inv(t)'
      <3>1. CASE Begin
         BY <1>1, <3>1, BeginStep, Zenon
      <3>2. CASE undolog_alloc_space
         BY <1>1, <3>2, SpaceStep, Zenon
      <3>3. CASE undolog_alloc_slot_space
         BY <1>1, <3>3, SlotSpaceStep, Zenon
      <3>4. CASE insert_prepared_undo
         BY <1>1, <3>4, InsertStep, Zenon
      <3>5. CASE Commit
         BY <1>1, <3>5, CommitStep, Zenon
      <3>6. CASE Abort
         BY <1>1, <3>6, AbortStep, Zenon
      <3>7. CASE execute_undo_actions
         BY <1>1, <3>7, ExecuteStep, Zenon
      <3>8. CASE set_undo_slot_rollback_finish
         BY <1>1, <3>8, FinishStep, Zenon
      <3>9. CASE recycle_undo_space
         BY <1>1, <3>9, RecycleStep, Zenon
      <3>10. CASE undolog_release_space
         BY <1>1, <3>10, ReleaseStep, Zenon
      <3>11. CASE undolog_release_slot_space
         BY <1>1, <3>11, ReleaseSlotStep, Zenon
      <3>12. CASE \E p \in Pages : FlushBuffer(p)
         BY <1>1, <3>12, FlushStep, Zenon
      <3>13. CASE CreateCheckPoint
         BY <1>1, <3>13, CheckPointStep, Zenon
      <3>14. CASE checkpoint_undo_logs
         BY <1>1, <3>14, LogsStep, Zenon
      <3>15. CASE checkpoint_undo_segment
         BY <1>1, <3>15, SegmentStep, Zenon
      <3>16. CASE CheckpointRecord
         BY <1>1, <3>16, RecordStep, Zenon
      <3>17. CASE Crash
         BY <1>1, <3>17, CrashStep, Zenon
      <3>18. CASE recovery_undo_meta
         BY <1>1, <3>18, LoadStep, Zenon
      <3>19. CASE Redo
         BY <1>1, <3>19, RedoStep, Zenon
      <3>20. CASE EndOfRecovery
         BY <1>1, <3>20, EndStep, Zenon
      <3> QED BY <1>4, <3>1, <3>2, <3>3, <3>4, <3>5, <3>6, <3>7, <3>8, <3>9, <3>10, <3>11, <3>12, <3>13,
              <3>14, <3>15, <3>16, <3>17, <3>18, <3>19, <3>20, Zenon DEF Next
   <2>2. DownInv'
      BY <1>2, <1>4, DownStep, Zenon
   <2> QED BY <2>1, <2>2, Zenon DEF IInv
<1> QED BY <1>3, <1>4, Zenon

\* The pointers of a log and the bounds of its segments are in order when each of
\* them is as some prefix of the WAL says.
LEMMA OrderedMemory ==
    ASSUME NEW t \in InitTails, Inv(t), mode \in {"up", "redo"}
    PROVE  /\ ulog.recycle <= ulog.alloc /\ ulog.discard <= ulog.insert
           /\ data_seg.head <= data_seg.tail /\ txn_seg.head <= txn_seg.tail
<1>1. WalInv(wal, t) /\ ShapeInv /\ LogSpan(ulog, wal, Replayed) /\ DataSpan(data_seg, wal, Replayed, t)
      /\ TxnSpan(txn_seg, wal, Replayed, t)
   BY Zenon DEF Inv, MemoryInv
<1>2. /\ ulog.lsn \in 0 .. Len(wal) /\ data_seg.lsn \in 0 .. Len(wal) /\ txn_seg.lsn \in 0 .. Len(wal)
      /\ ulog.lsn \in Nat /\ data_seg.lsn \in Nat /\ txn_seg.lsn \in Nat
   <2>1. ulog.lsn \in 0 .. Len(wal) /\ data_seg.lsn \in 0 .. Len(wal) /\ txn_seg.lsn \in 0 .. Len(wal)
      BY <1>1, Zenon DEF LogSpan, DataSpan, TxnSpan
   <2> QED BY <2>1
<1>3. Replayed \in Int
   <2>1. Len(wal) \in Nat /\ next_redo \in 0 .. Len(wal) + 1
      BY <1>1, WalLength, Zenon DEF ShapeInv
   <2> QED BY <2>1 DEF Replayed
<1>4. /\ ulog.lsn \in ulog.lsn .. Larger(ulog.lsn, Replayed)
      /\ data_seg.lsn \in data_seg.lsn .. Larger(data_seg.lsn, Replayed)
      /\ txn_seg.lsn \in txn_seg.lsn .. Larger(txn_seg.lsn, Replayed)
   BY <1>2, <1>3 DEF Larger
<1>5. /\ LogAgrees(ulog, wal, ulog.lsn) /\ DataAgrees(data_seg, wal, data_seg.lsn, t)
      /\ TxnAgrees(txn_seg, wal, txn_seg.lsn, t)
   BY <1>1, <1>4, Zenon DEF LogSpan, DataSpan, TxnSpan
<1>6. PrefixInv(wal, ulog.lsn, t) /\ PrefixInv(wal, data_seg.lsn, t) /\ PrefixInv(wal, txn_seg.lsn, t)
   BY <1>1, <1>2, Zenon DEF WalInv
<1>7. ulog.recycle <= ulog.alloc /\ ulog.discard <= ulog.insert
   BY <1>5, <1>6, PrefixOrder, Zenon DEF LogAgrees
<1>8. data_seg.head <= data_seg.tail
   <2>1. data_seg.head = HeadAt(wal, "unlink", data_seg.lsn) /\ data_seg.tail = DataTail(wal, data_seg.lsn, t)
      BY <1>5, Zenon DEF DataAgrees, DataTail
   <2> QED BY <1>6, <2>1, PrefixOrder, Zenon
<1>9. txn_seg.head <= txn_seg.tail
   <2>1. txn_seg.head = HeadAt(wal, "slot_unlink", txn_seg.lsn) /\ txn_seg.tail = TxnTail(wal, txn_seg.lsn, t)
      BY <1>5, Zenon DEF TxnAgrees, TxnTail
   <2> QED BY <1>6, <2>1, PrefixOrder, Zenon
<1> QED BY <1>7, <1>8, <1>9, Zenon

\* What the invariant says of the server.
LEMMA InvConsequences ==
    ASSUME IInv
    PROVE  TypeOK /\ RedoNeverPanics /\ PointersMatchWal
<1>1. PICK t \in InitTails : Inv(t)
   BY Zenon DEF IInv
<1>2. ShapeInv /\ PageInv /\ WriterInv /\ DownInv
   BY <1>1, Zenon DEF Inv, IInv
<1>3. Len(wal) \in Nat /\ flushed \in 0 .. Len(wal) /\ control.redo \in 0 .. flushed
      /\ mode \in {"up", "down", "redo"} /\ next_redo \in 0 .. Len(wal) + 1
   BY <1>1, <1>2, WalLength, Zenon DEF ShapeInv, Inv
<1>4. /\ ulog.recycle <= ulog.alloc /\ ulog.discard <= ulog.insert
      /\ data_seg.head <= data_seg.tail /\ txn_seg.head <= txn_seg.tail
   <2>1. CASE mode \in {"up", "redo"}
      BY <1>1, <2>1, OrderedMemory, Zenon
   <2>2. CASE mode = "down"
      <3>1. ulog = EmptyLog /\ data_seg = EmptySegment /\ txn_seg = EmptySegment
         BY <1>2, <2>2, Zenon DEF DownInv
      <3> QED BY <3>1 DEF EmptyLog, EmptySegment
   <2> QED BY <1>3, <2>1, <2>2
<1>5. TypeOK
   <2>1. \A p \in Pages : disk[p].lsn <= flushed
      <3>1. \A p \in Pages : disk[p].lsn \in 0 .. flushed
         BY <1>2, Zenon DEF PageInv
      <3> QED BY <1>3, <3>1
   <2>2. control.redo <= flushed /\ mode \in {"up", "down", "redo", "panic"}
      BY <1>3
   <2>3. used \in {0, 1}
      BY <1>2 DEF ShapeInv
   <2>4. running \in {NoXid} \cup Xids
      BY <1>2, Zenon DEF WriterInv
   <2> QED BY <1>3, <1>4, <2>1, <2>2, <2>3, <2>4, Zenon DEF TypeOK
<1>6. RedoNeverPanics
   BY <1>3 DEF RedoNeverPanics
<1>7. PointersMatchWal
   <2> SUFFICES ASSUME mode = "up"
                PROVE  /\ LogAgrees(ulog, wal, Len(wal))
                       /\ \E s \in InitTails : /\ DataAgrees(data_seg, wal, Len(wal), s)
                                               /\ TxnAgrees(txn_seg, wal, Len(wal), s)
      BY Zenon DEF PointersMatchWal
   <2> QED BY <1>1, Now, Zenon
<1> QED BY <1>5, <1>6, <1>7, Zenon

\* The inductive invariant of crash and restart holds in every reachable state.
THEOREM RecoveryInvariance == Spec => []IInv
<1>1. Init => IInv
   BY InitInv
<1>2. IInv /\ [Next]_vars => IInv'
   BY NextInv
<1> QED BY <1>1, <1>2, PTL DEF Spec

\* The WAL rule, and the order of the log's pointers and of its segments' bounds,
\* hold while the server runs, after a crash and all through redo.
THEOREM RecoveryTypeCorrect == Spec => []TypeOK
<1>1. IInv => TypeOK
   BY InvConsequences
<1> QED BY <1>1, RecoveryInvariance, PTL

\* Whenever the crash comes, is_skip_insert_undo, is_skip_insert_slot and the
\* assertion in xlog_undo_discard_redo never stop recovery.
THEOREM RecoveryNeverPanics == Spec => []RedoNeverPanics
<1>1. IInv => RedoNeverPanics
   BY InvConsequences
<1> QED BY <1>1, RecoveryInvariance, PTL

\* Whatever mixture of metadata file and replayed records it comes from, the
\* undo log of a running server is what the whole WAL says.
THEOREM RecoveryPointers == Spec => []PointersMatchWal
<1>1. IInv => PointersMatchWal
   BY InvConsequences
<1> QED BY <1>1, RecoveryInvariance, PTL
=============================================================================
