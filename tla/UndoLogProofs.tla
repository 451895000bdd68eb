---------------------------- MODULE UndoLogProofs ---------------------------
(***************************************************************************)
(* The slots of a log stay in xid order, and a slot whose start is not     *)
(* published yet has its writer; only slots of finished transactions are   *)
(* flagged as rolled back.  Hence the undo of a log's slots is contiguous, *)
(* and a snapshot's undo is not given up unseen.                           *)
(*                                                                         *)
(* With the other proof modules: the undo logs and the discard worker keep *)
(* the inductive invariant of UndoLogInv, for any number of backends,      *)
(* readers and logs; the properties of UndoLog follow, and so does that it *)
(* implements UndoRetention.                                               *)
(***************************************************************************)
EXTENDS UndoLogDiscardProofs, UndoRetentionProofs

USE DEF InvalidXid, FirstNormalXid, NoLog

-----------------------------------------------------------------------------
(* Slots                                                                   *)

\* A log with nothing inserted has no slot.
LEMMA EmptyStep ==
    ASSUME IndInv, [Next]_vars, NEW l \in Logs, insert_offset'[l] = 1
    PROVE  Len(slots'[l]) = 0
  <1>t. CtxType /\ UlogType /\ SlotType /\ SlotInv
    BY Zenon DEF IndInv, TypeOK
  <1>c. LogSize \in Nat \ {0} /\ RecordSizes \subseteq 1 .. LogSize
    BY Zenon, ConstantsAssumption DEF ConstantsAssumption
  <1>1. insert_offset[l] = 1
    <2>1. ASSUME NEW b \in Backends, NEW size \in RecordSizes,
                 undolog_switch(b, size) \/ update_undolog_meta(b, size)
          PROVE  insert_offset[l] = 1
      <3>1. logs[b] \in Logs
        BY Zenon, <2>1, <1>t, WriterAt DEF IndInv, TypeOK, undolog_switch, update_undolog_meta
      <3>2. insert_offset' = [insert_offset EXCEPT ![logs[b]] = LogSize + 1]
            \/ insert_offset' = [insert_offset EXCEPT ![logs[b]] = @ + size]
        BY Zenon, <2>1 DEF undolog_switch, update_undolog_meta
      <3>3. size \in Nat /\ size >= 1 /\ insert_offset[logs[b]] \in Nat
            /\ insert_offset[logs[b]] >= 1
        BY <3>1, <1>c, <1>t DEF UlogType
      <3>4. l # logs[b]
        BY <3>1, <3>2, <3>3, <1>c, <1>t DEF UlogType
      <3> QED
        BY Zenon, <3>1, <3>2, <3>4, <1>t DEF UlogType
    <2>2. ASSUME NEW b \in Backends, release_undolog_meta(b) PROVE insert_offset' = insert_offset
      BY Zenon, <2>2 DEF release_undolog_meta
    <2>3. ASSUME NEW r \in requests, execute_undo_actions(r[1], r[2])
          PROVE  insert_offset' = insert_offset
      BY Zenon, <2>3 DEF execute_undo_actions
    <2> QED
      BY Zenon, <2>1, <2>2, <2>3, SlotCases DEF Write
  <1>2. Len(slots[l]) = 0
    BY Zenon, <1>1, <1>t DEF SlotInv
  <1>3. ASSUME NEW b \in Backends, NEW size \in RecordSizes, update_undolog_meta(b, size)
        PROVE  slots'[l] = slots[l]
    <2>1. logs[b] \in Logs
      BY Zenon, <1>3, <1>t, WriterAt DEF IndInv, TypeOK, update_undolog_meta
    <2>2. insert_offset' = [insert_offset EXCEPT ![logs[b]] = @ + size]
      BY Zenon, <1>3 DEF update_undolog_meta
    <2>3. size \in Nat /\ size >= 1 /\ insert_offset[logs[b]] \in Nat
          /\ insert_offset[logs[b]] >= 1
      BY <2>1, <1>c, <1>t DEF UlogType
    <2>4. l # logs[b]
      BY <2>1, <2>2, <2>3, <1>t DEF UlogType
    <2> QED
      BY Zenon, <1>3, <2>1, <2>4, <1>t DEF update_undolog_meta, SlotType
  <1>4. ASSUME NEW b \in Backends, release_undolog_meta(b) PROVE Len(slots'[l]) = Len(slots[l])
    <2>1. logs[b] \in Logs /\ Len(slots[logs[b]]) > 0
      BY <1>4, <1>t, MetaAt DEF IndInv, TypeOK, release_undolog_meta
    <2>2. logs[b] # l
      BY <2>1, <1>2
    <2> QED
      BY Zenon, <1>4, <2>1, <2>2, <1>t DEF release_undolog_meta, SlotType
  <1>5. ASSUME NEW r \in requests, execute_undo_actions(r[1], r[2])
        PROVE  Len(slots'[l]) = Len(slots[l])
    <2>1. r[1] \in Logs /\ r[2] \in 1 .. Len(slots[r[1]])
      BY Zenon, <1>t DEF SlotType
    <2> QED
      BY <1>5, <2>1, <1>t DEF execute_undo_actions, SlotType
  <1>6. ASSUME NEW b \in Backends, NEW size \in RecordSizes, undolog_switch(b, size)
        PROVE  slots' = slots
    BY Zenon, <1>6 DEF undolog_switch
  <1> QED
    BY Zenon, <1>2, <1>3, <1>4, <1>5, <1>6, SlotCases DEF Write

\* A slot whose start pointer is not published has its writer still inside
\* update_undolog_meta.
LEMMA StartStep ==
    ASSUME IndInv, [Next]_vars, NEW l \in Logs, NEW i \in 1 .. Len(slots'[l]),
           slots'[l][i].start = 0
    PROVE  \E b \in Backends : phase'[b] = "meta" /\ logs'[b] = l /\ xact'[b] = slots'[l][i].xid
  <1>t. XactType /\ CtxType /\ SlotType /\ SlotInv /\ AttachInv
    BY Zenon DEF IndInv, TypeOK, CtxInv
  <1>w. \A b \in Backends : WriterInv(b)
    BY Zenon DEF IndInv, CtxInv
  <1>l. Len(slots[l]) \in Nat /\ \A j \in 1 .. Len(slots[l]) : slots[l][j].xid \in Xids
    BY Zenon, <1>t, SlotAt
  <1> DEFINE Writes(b) == phase[b] = "meta" /\ logs[b] = l /\ xact[b] = slots[l][i].xid
  <1>old. ASSUME slots'[l] = slots[l] PROVE \E b \in Backends : Writes(b)
    BY <1>old, <1>t DEF SlotInv
  <1>1. ASSUME NEW c \in Backends,
               \/ alloc_undo_log(c) \/ cleanup_undo_log(c) \/ AssignTransactionId(c)
               \/ EndTransaction(c, "committed") \/ EndTransaction(c, "aborted")
        PROVE  \E b \in Backends : phase'[b] = "meta" /\ logs'[b] = l /\ xact'[b] = slots'[l][i].xid
    <2>1. slots' = slots /\ phase' = phase
      BY Zenon, <1>1 DEF alloc_undo_log, cleanup_undo_log, AssignTransactionId, EndTransaction,
                  ulogVars, ctxVars
    <2>2. PICK b \in Backends : Writes(b)
      BY Zenon, <1>old, <2>1
    <2>3. xact[b] # InvalidXid
      BY Zenon, <2>2, <1>w DEF WriterInv
    <2>4. b # c
      <3>1. logs[c] = NoLog \/ xact[c] = InvalidXid \/ phase[c] = "idle"
        BY Zenon, <1>1 DEF alloc_undo_log, cleanup_undo_log, AssignTransactionId, EndTransaction
      <3>2. l # NoLog
        BY DEF Logs, NoLog
      <3> QED
        BY Zenon, <3>1, <3>2, <2>2, <2>3
    <2>5. logs'[b] = logs[b] /\ xact'[b] = xact[b]
      BY ZenonT(30), <1>1, <2>4, <1>t DEF alloc_undo_log, cleanup_undo_log, AssignTransactionId,
                              EndTransaction, ctxVars, xactVars, CtxType, XactType
    <2> QED
      BY Zenon, <2>1, <2>2, <2>5
  <1>2. ASSUME NEW c \in Backends, NEW size \in RecordSizes, undolog_switch(c, size)
        PROVE  \E b \in Backends : phase'[b] = "meta" /\ logs'[b] = l /\ xact'[b] = slots'[l][i].xid
    <2>1. UNCHANGED <<slots, xact>> /\ phase[c] = "idle"
      BY Zenon, <1>2 DEF undolog_switch, xactVars
    <2>2. PICK b \in Backends : Writes(b)
      BY Zenon, <1>old, <2>1
    <2>3. b # c
      BY Zenon, <2>1, <2>2
    <2>4. logs'[b] = logs[b] /\ phase'[b] = phase[b]
      BY Zenon, <1>2, <2>3, <1>t DEF undolog_switch, CtxType
    <2> QED
      BY Zenon, <2>1, <2>2, <2>4
  <1>3. ASSUME NEW c \in Backends, NEW size \in RecordSizes, update_undolog_meta(c, size)
        PROVE  \E b \in Backends : phase'[b] = "meta" /\ logs'[b] = l /\ xact'[b] = slots'[l][i].xid
    <2>1. /\ UNCHANGED <<logs, xact>> /\ phase[c] # "meta" /\ phase'[c] = "meta"
          /\ \A b \in Backends : b # c => phase'[b] = phase[b]
      BY Zenon, <1>3, <1>t DEF update_undolog_meta, xactVars, CtxType
    <2>2. logs[c] \in Logs /\ xact[c] \in Xids /\ InProgress(xact[c])
      BY Zenon, <1>3, <1>t, WriterAt DEF update_undolog_meta, IndInv
    <2>3. CASE slots'[l] = slots[l]
      BY Zenon, <2>1, <2>3, <1>old
    <2>4. CASE slots'[l] # slots[l]
      <3>1. NewSlotIn(c)
        BY Zenon, <1>3, <2>2, <2>4 DEF update_undolog_meta, NewSlotIn
      <3>2. logs[c] = l
        BY Zenon, <3>1, <2>4, <1>t, NewSlotAt
      <3>3. /\ Len(slots'[l]) = Len(slots[l]) + 1
            /\ slots'[l][Len(slots[l]) + 1] = NewSlot(xact[c])
            /\ \A j \in 1 .. Len(slots[l]) : slots'[l][j] = slots[l][j]
        BY Zenon, <3>1, <3>2, <1>t, NewSlotAt
      <3>4. CASE i = Len(slots[l]) + 1
        BY SMTT(20), <2>1, <3>2, <3>3, <3>4 DEF NewSlot
      <3>5. CASE i \in 1 .. Len(slots[l])
        <4>1. slots'[l][i] = slots[l][i]
          BY Zenon, <3>3, <3>5
        <4>2. PICK b \in Backends : Writes(b)
          BY Zenon, <4>1, <3>5, <1>t DEF SlotInv
        <4> QED
          BY Zenon, <4>1, <4>2, <2>1
      <3> QED
        BY <3>3, <3>4, <3>5, <1>l
    <2> QED
      BY Zenon, <2>3, <2>4
  <1>4. ASSUME NEW c \in Backends, release_undolog_meta(c)
        PROVE  \E b \in Backends : phase'[b] = "meta" /\ logs'[b] = l /\ xact'[b] = slots'[l][i].xid
    <2>1. /\ UNCHANGED <<logs, xact>> /\ phase[c] = "meta"
          /\ \A b \in Backends : b # c => phase'[b] = phase[b]
      BY Zenon, <1>4, <1>t DEF release_undolog_meta, xactVars, CtxType
    <2> DEFINE k == logs[c]
               n == Len(slots[k])
               s == update_undo_slot(slots[k][n], urecptr[c], insert_offset[k])
    <2>2. k \in Logs /\ n \in 1 .. Len(slots[k]) /\ slots[k][n].xid = xact[c]
      BY Zenon, <2>1, <1>t, MetaAt DEF IndInv
    <2>3. slots'[k] = [slots[k] EXCEPT ![n] = s] /\ (l # k => slots'[l] = slots[l])
      BY Zenon, <1>4, <2>2, <1>t DEF release_undolog_meta, SlotType
    <2>4. slots[k] \in Seq(Slot) /\ slots[k][n] \in Slot
      BY Zenon, <2>2, <1>t, SlotAt
    <2>5. s.start # 0
      BY Zenon, <2>1, <2>4, <1>w DEF update_undo_slot, Slot, WriterInv
    <2>6. Len(slots'[l]) = Len(slots[l]) /\ (l = k => i # n) /\ slots'[l][i] = slots[l][i]
      BY <2>2, <2>3, <2>4, <2>5
    <2>7. PICK b \in Backends : Writes(b)
      BY <2>6, <1>t DEF SlotInv
    <2>8. b # c
      <3> SUFFICES ASSUME b = c PROVE FALSE
        BY Zenon
      <3>1. l = k /\ i \in 1 .. n /\ i < n /\ slots[l][i].xid = slots[l][n].xid
        BY SMTT(20), <2>2, <2>6, <2>7
      <3>2. slots[k][i].xid < slots[k][n].xid
        BY Zenon, <3>1, <2>2, <1>t DEF SlotInv
      <3>3. slots[k][i].xid \in Xids
        BY Zenon, <3>1, <2>2, <1>t, SlotAt
      <3> QED
        BY <3>1, <3>2, <3>3 DEF Xids
    <2> QED
      BY Zenon, <2>1, <2>6, <2>7, <2>8
  <1>5. ASSUME NEW r \in requests, execute_undo_actions(r[1], r[2])
        PROVE  \E b \in Backends : phase'[b] = "meta" /\ logs'[b] = l /\ xact'[b] = slots'[l][i].xid
    <2>1. UNCHANGED <<logs, xact, phase>>
      BY Zenon, <1>5 DEF execute_undo_actions, xactVars, ctxVars
    <2>2. r[1] \in Logs /\ r[2] \in 1 .. Len(slots[r[1]])
      BY Zenon, <1>t DEF SlotType
    <2>3. slots[r[1]] \in Seq(Slot) /\ slots[r[1]][r[2]] \in Slot
      BY Zenon, <2>2, <1>t, SlotAt
    <2>4. /\ Len(slots'[l]) = Len(slots[l])
          /\ slots'[l][i].xid = slots[l][i].xid /\ slots'[l][i].start = slots[l][i].start
      <3>1. CASE slots' = slots
        BY Zenon, <3>1
      <3>2. CASE slots' = [slots EXCEPT ![r[1]][r[2]].info = "ROLLBACK"]
        <4> DEFINE s == [slots[r[1]][r[2]] EXCEPT !.info = "ROLLBACK"]
        <4>1. s \in Slot /\ s.xid = slots[r[1]][r[2]].xid /\ s.start = slots[r[1]][r[2]].start
          BY ZenonT(30), <2>3 DEF Slot
        <4>2. slots' = [slots EXCEPT ![r[1]] = [slots[r[1]] EXCEPT ![r[2]] = s]]
          BY Zenon, <3>2
        <4> HIDE DEF s
        <4> QED
          BY SMTT(20), <4>1, <4>2, <2>2, <2>3, <1>t, SlotExcept DEF SlotType
      <3> QED
        BY ZenonT(30), <1>5, <3>1, <3>2 DEF execute_undo_actions
    <2> QED
      BY <2>1, <2>4, <1>t DEF SlotInv
  <1>6. CASE UNCHANGED <<nextXid, status, xact, ctxVars, insert_offset, slots>>
    BY Zenon, <1>6, <1>old DEF ctxVars
  <1> QED
    BY Zenon, <1>1, <1>2, <1>3, <1>4, <1>5, <1>6, WriterCases

\* The slots of every log keep their shape.
LEMMA SlotStep == IndInv /\ [Next]_vars => SlotInv'
  <1> SUFFICES ASSUME IndInv, [Next]_vars PROVE SlotInv'
    BY Zenon
  <1>1. \A l \in Logs : insert_offset'[l] = 1 => Len(slots'[l]) = 0
    BY Zenon, EmptyStep
  <1>2. \A l \in Logs : /\ \A i \in 1 .. Len(slots'[l]) : slots'[l][i].xid < nextXid'
                        /\ \A i, j \in 1 .. Len(slots'[l]) :
                               i < j => slots'[l][i].xid < slots'[l][j].xid
    BY Zenon, OrderStep
  <1>3. \A l \in Logs : \A i \in 1 .. Len(slots'[l]) : slots'[l][i].start = 0 =>
            \E b \in Backends : phase'[b] = "meta" /\ logs'[b] = l /\ xact'[b] = slots'[l][i].xid
    BY Zenon, StartStep
  <1> QED
    BY Zenon, <1>1, <1>2, <1>3 DEF SlotInv

-----------------------------------------------------------------------------
(* Settled slots                                                           *)

\* The slot of a running transaction is not recycled.
LEMMA RunningNotRecycled ==
    ASSUME IndInv, UndoneInv, NEW b \in Backends, phase[b] = "meta"
    PROVE  /\ recycle_slot[logs[b]] < Len(slots[logs[b]])
           /\ ~Settled(slots[logs[b]][Len(slots[logs[b]])])
  <1>t. XactType /\ CtxType /\ SlotType /\ CtxInv /\ XactInv /\ RecycledSettled
    BY Zenon DEF IndInv, TypeOK
  <1>l. PICK l \in Logs : l = logs[b] /\ InProgress(xact[b])
    BY Zenon, <1>t, MetaAt
  <1>n. PICK n \in 1 .. Len(slots[l]) : n = Len(slots[l]) /\ slots[l][n].xid = xact[b]
    BY Zenon, <1>l, <1>t, MetaAt
  <1>1. ~Settled(slots[l][n])
    BY Zenon, <1>l, <1>n DEF Settled, UndoneInv, InProgress, DidCommit
  <1>2. recycle_slot[l] \in Nat /\ recycle_slot[l] <= n
    BY Zenon, <1>t, <1>n DEF SlotType
  <1>3. recycle_slot[l] # n
    BY Zenon, <1>1, <1>2, <1>n, <1>t DEF RecycledSettled
  <1> QED
    BY <1>1, <1>2, <1>3, <1>l, <1>n

\* A slot is flagged once its transaction has aborted, new slots are not
\* flagged, and where a settled slot ends does not change.
Flags(l) ==
    /\ \A i \in 1 .. Len(slots[l]) :
           /\ slots'[l][i].info = "ROLLBACK" =>
                  slots[l][i].info = "ROLLBACK" \/ status[slots[l][i].xid] = "aborted"
           /\ Settled(slots[l][i]) => slots'[l][i].end = slots[l][i].end
    /\ \A i \in 1 .. Len(slots'[l]) : i > Len(slots[l]) => slots'[l][i].info = "INIT"

\* Writers flag nothing, and write to the slots of running transactions only.
LEMMA WriteFlags ==
    ASSUME IndInv, UndoneInv, NEW b \in Backends, Write(b), NEW k \in Logs
    PROVE  Flags(k)
  <1>t. XactType /\ CtxType /\ UlogType /\ SlotType /\ CtxInv /\ XactInv
    BY Zenon DEF IndInv, TypeOK
  <1>l. Len(slots[k]) \in Nat
    BY Zenon, <1>t, SlotAt
  <1>e. slots'[k] = slots[k] => Flags(k)
    BY <1>l DEF Flags
  <1>1. ASSUME NEW size \in RecordSizes, undolog_switch(b, size) PROVE Flags(k)
    BY Zenon, <1>1, <1>e DEF undolog_switch
  <1>2. ASSUME NEW size \in RecordSizes, update_undolog_meta(b, size) PROVE Flags(k)
    <2>1. logs[b] \in Logs /\ xact[b] \in Xids /\ InProgress(xact[b])
      BY Zenon, <1>2, <1>t, WriterAt DEF update_undolog_meta
    <2>2. slots' = slots \/ NewSlotIn(b)
      BY Zenon, <1>2, <2>1 DEF update_undolog_meta, NewSlotIn
    <2>3. CASE NewSlotIn(b) /\ logs[b] = k
      <3>1. /\ Len(slots'[k]) = Len(slots[k]) + 1
            /\ slots'[k][Len(slots[k]) + 1] = NewSlot(xact[b])
            /\ \A i \in 1 .. Len(slots[k]) : slots'[k][i] = slots[k][i]
        BY Zenon, <2>3, <1>t, NewSlotAt
      <3>2. NewSlot(xact[b]).info = "INIT"
        BY Zenon DEF NewSlot
      <3> QED
        BY SMTT(20), <3>1, <3>2, <1>l DEF Flags
    <2>4. CASE NewSlotIn(b) /\ logs[b] # k
      BY Zenon, <2>4, <1>e, <1>t, NewSlotAt
    <2> QED
      BY Zenon, <2>2, <2>3, <2>4, <1>e
  <1>3. ASSUME release_undolog_meta(b) PROVE Flags(k)
    <2>m. phase[b] = "meta"
      BY Zenon, <1>3 DEF release_undolog_meta
    <2>l. PICK l \in Logs : l = logs[b]
      BY Zenon, <2>m, <1>t, MetaAt
    <2>n. PICK n \in 1 .. Len(slots[l]) : n = Len(slots[l])
      BY Zenon, <2>l, <2>m, <1>t, MetaAt
    <2>o. slots[l][n] \in Slot /\ urecptr[b] \in 0 .. LogSize /\ insert_offset[l] \in 0 .. LogSize + 1
      BY <2>n, <1>t, SlotAt DEF CtxType, UlogType
    <2> DEFINE s == update_undo_slot(slots[l][n], urecptr[b], insert_offset[l])
    <2>s. s \in Slot /\ s.info = slots[l][n].info
      BY ZenonT(30), <2>o DEF update_undo_slot, Slot
    <2>1. slots' = [slots EXCEPT ![l] = [slots[l] EXCEPT ![n] = s]]
      BY Zenon, <1>3, <2>l, <2>n DEF release_undolog_meta
    <2> HIDE DEF s
    <2>6. slots[l] \in Seq(Slot) /\ slots \in [Logs -> Seq(Slot)]
      BY Zenon, <1>t DEF SlotType
    <2>7. slots'[l] = [slots[l] EXCEPT ![n] = s] /\ \A j \in Logs : j # l => slots'[j] = slots[j]
      BY Zenon, <2>1, <2>6
    <2>2. /\ Len(slots'[l]) = Len(slots[l]) /\ slots'[l][n] = s
          /\ \A j \in 1 .. Len(slots[l]) : j # n => slots'[l][j] = slots[l][j]
          /\ \A j \in Logs : j # l => slots'[j] = slots[j]
      BY <2>6, <2>7, <2>s, SlotExcept
    <2>3. ~Settled(slots[l][n])
      BY Zenon, <2>m, <2>l, <2>n, RunningNotRecycled
    <2>4. \A j \in 1 .. Len(slots[l]) :
              /\ slots'[l][j].info = slots[l][j].info
              /\ Settled(slots[l][j]) => slots'[l][j].end = slots[l][j].end
      <3> TAKE j \in 1 .. Len(slots[l])
      <3>1. CASE j = n
        BY Zenon, <3>1, <2>2, <2>3, <2>s
      <3>2. CASE j # n
        <4>1. slots'[l][j] = slots[l][j]
          BY Zenon, <3>2, <2>2
        <4> QED
          BY Zenon, <4>1
      <3> QED
        BY Zenon, <3>1, <3>2
    <2>5. CASE k = l
      BY <2>2, <2>4, <2>5, <1>l DEF Flags
    <2> QED
      BY Zenon, <2>2, <2>5, <1>e
  <1> QED
    BY Zenon, <1>1, <1>2, <1>3 DEF Write

\* Serving a request flags the slot of an aborted transaction.
LEMMA ExecuteFlags ==
    ASSUME IndInv, RequestInv, NEW r \in requests, execute_undo_actions(r[1], r[2]), NEW k \in Logs
    PROVE  Flags(k)
  <1>t. SlotType
    BY Zenon DEF IndInv, TypeOK
  <1>l. PICK l \in Logs : l = r[1]
    BY Zenon, <1>t DEF SlotType
  <1>i. PICK i \in 1 .. Len(slots[l]) : i = r[2]
    BY Zenon, <1>l, <1>t DEF SlotType
  <1>a. status[slots[l][i].xid] = "aborted"
    BY Zenon, <1>l, <1>i DEF RequestInv
  <1>k. Len(slots[k]) \in Nat
    BY Zenon, <1>t, SlotAt
  <1>e. slots'[k] = slots[k] => Flags(k)
    BY <1>k DEF Flags
  <1>o. slots[l][i] \in Slot
    BY Zenon, <1>t, SlotAt
  <1> DEFINE s == [slots[l][i] EXCEPT !.info = "ROLLBACK"]
  <1>s. s \in Slot /\ s.info = "ROLLBACK" /\ s.end = slots[l][i].end
    BY ZenonT(30), <1>o DEF Slot
  <1>2. slots' = slots \/ slots' = [slots EXCEPT ![l] = [slots[l] EXCEPT ![i] = s]]
    BY Zenon, <1>l, <1>i DEF execute_undo_actions
  <1> HIDE DEF s
  <1>1. CASE slots' = [slots EXCEPT ![l] = [slots[l] EXCEPT ![i] = s]]
    <2>6. slots[l] \in Seq(Slot) /\ slots \in [Logs -> Seq(Slot)]
      BY Zenon, <1>t DEF SlotType
    <2>7. slots'[l] = [slots[l] EXCEPT ![i] = s] /\ \A j \in Logs : j # l => slots'[j] = slots[j]
      BY Zenon, <1>1, <2>6
    <2>2. /\ Len(slots'[l]) = Len(slots[l]) /\ slots'[l][i] = s
          /\ \A j \in 1 .. Len(slots[l]) : j # i => slots'[l][j] = slots[l][j]
          /\ \A j \in Logs : j # l => slots'[j] = slots[j]
      BY <2>6, <2>7, <1>s, SlotExcept
    <2>4. \A j \in 1 .. Len(slots[l]) :
              /\ slots'[l][j].info = slots[l][j].info \/ status[slots[l][j].xid] = "aborted"
              /\ slots'[l][j].end = slots[l][j].end
      <3> TAKE j \in 1 .. Len(slots[l])
      <3>1. CASE j = i
        BY Zenon, <3>1, <2>2, <1>s, <1>a
      <3>2. CASE j # i
        <4>1. slots'[l][j] = slots[l][j]
          BY Zenon, <3>2, <2>2
        <4> QED
          BY Zenon, <4>1
      <3> QED
        BY Zenon, <3>1, <3>2
    <2>5. CASE k = l
      BY <2>2, <2>4, <2>5, <1>k DEF Flags
    <2> QED
      BY Zenon, <2>2, <2>5, <1>e
  <1> QED
    BY Zenon, <1>1, <1>2, <1>e

\* No other step changes a slot.
LEMMA FlagStep ==
    ASSUME IndInv, RequestInv, UndoneInv, [Next]_vars, NEW l \in Logs
    PROVE  Flags(l)
  <1>1. CASE slots' = slots
    <2>1. Len(slots[l]) \in Nat
      BY Zenon, SlotAt DEF IndInv, TypeOK
    <2> QED
      BY <1>1, <2>1 DEF Flags
  <1> QED
    BY Zenon, <1>1, SlotCases, WriteFlags, ExecuteFlags

\* Only what is over is flagged as rolled back.
LEMMA UndoneStep ==
    ASSUME IndInv, RequestInv, UndoneInv, [Next]_vars
    PROVE  UndoneInv'
  <1> SUFFICES ASSUME NEW l \in Logs, NEW i \in 1 .. Len(slots'[l]), slots'[l][i].info = "ROLLBACK"
               PROVE  status'[slots'[l][i].xid] # "in_progress"
    BY Zenon DEF UndoneInv, InProgress
  <1>t. XactType /\ XactInv /\ SlotType /\ SlotInv
    BY Zenon DEF IndInv, TypeOK
  <1>g. Grow(l) /\ Flags(l)
    BY Zenon, GrowStep, FlagStep
  <1>1. i \in 1 .. Len(slots[l]) /\ slots'[l][i].xid = slots[l][i].xid
    BY <1>g DEF Grow, Flags
  <1>2. status[slots[l][i].xid] # "in_progress"
    BY Zenon, <1>1, <1>g DEF Flags, UndoneInv, InProgress
  <1>x. PICK x \in Xids : x = slots[l][i].xid /\ x < nextXid
    BY Zenon, <1>1, <1>t, SlotAt DEF SlotInv
  <1>3. ASSUME NEW b \in Backends, AssignTransactionId(b) PROVE status'[x] # "in_progress"
    BY <1>3, <1>2, <1>x, <1>t DEF AssignTransactionId, XactType, Horizon, Xids
  <1>4. ASSUME NEW b \in Backends, NEW o \in {"committed", "aborted"}, EndTransaction(b, o)
        PROVE  status'[x] # "in_progress"
    BY Zenon, <1>4, <1>2, <1>x, <1>t DEF EndTransaction, XactType
  <1> QED
    BY Zenon, <1>1, <1>2, <1>3, <1>4, <1>x, XactCases

-----------------------------------------------------------------------------
(* Undo space                                                              *)

\* The parts of SpaceInv.
PlacedInv(l) ==
    \A i \in 1 .. Len(slots[l]) : slots[l][i].start # 0 =>
        /\ slots[l][i].start < slots[l][i].end /\ slots[l][i].end <= insert_offset[l]
        /\ slots[l][i].start = SlotEnd(l, i - 1)
        /\ \A j \in 0 .. i - 1 : SlotEnd(l, j) <= slots[l][i].start
ForcedInv(l) == force_discard_offset[l] = SlotEnd(l, recycle_slot[l])
InsertInv(l) ==
    ~LockedByBackend(l) =>
        insert_offset[l] = SlotEnd(l, Len(slots[l])) \/ insert_offset[l] > LogSize

\* Together they are SpaceInv.
LEMMA SpaceParts ==
    SpaceInv <=> /\ \A l \in Logs : PlacedInv(l) /\ ForcedInv(l) /\ InsertInv(l)
                 /\ \A b \in Backends : phase[b] = "meta" => WritesAt(b)
  BY Zenon DEF SpaceInv, PlacedInv, ForcedInv, InsertInv

\* What a step may leave alone.
SameSpace(l) ==
    /\ Len(slots'[l]) = Len(slots[l])
    /\ \A i \in 1 .. Len(slots[l]) : /\ slots'[l][i].start = slots[l][i].start
                                     /\ slots'[l][i].end = slots[l][i].end
SameWriter(b) ==
    /\ phase'[b] = "meta" <=> phase[b] = "meta"
    /\ phase[b] = "meta" => logs'[b] = logs[b] /\ urecptr'[b] = urecptr[b]

\* Which actions concern the space of a log.
LEMMA SpaceCases ==
    [Next]_vars =>
        \/ \E b \in Backends : alloc_undo_log(b) \/ cleanup_undo_log(b)
        \/ \E b \in Backends, size \in RecordSizes : undolog_switch(b, size)
        \/ \E b \in Backends, size \in RecordSizes : update_undolog_meta(b, size)
        \/ \E b \in Backends : release_undolog_meta(b)
        \/ \E r \in requests : execute_undo_actions(r[1], r[2])
        \/ recycle_release
        \/ UNCHANGED <<logs, phase, urecptr, insert_offset, slots, force_discard_offset,
                       recycle_slot>>
  BY ZenonT(30) DEF Next, Backend, Write, Discard, vars, xactVars, ctxVars, ulogVars,
         AssignTransactionId, EndTransaction,
         GetSnapshotData, ReleaseSnapshot, StandbyFeedback, checkpoint_undo_logs, discard_loop,
         discard_skip_log, advance_frozen_xid, request_async_rollback, recycle_undo_space,
         discard_publish_frozen, discard_retry, discard_publish_recycle,
         discard_restart

\* Where a log's slots end does not change with them.
LEMMA SameEnds ==
    ASSUME NEW l \in Logs, SameSpace(l), NEW i \in 0 .. Len(slots[l])
    PROVE  SlotEnd(l, i)' = SlotEnd(l, i)
  <1>1. CASE i = 0
    BY Zenon, <1>1 DEF SlotEnd
  <1>2. CASE i # 0
    BY <1>2 DEF SlotEnd, SameSpace
  <1> QED
    BY Zenon, <1>1, <1>2

\* A log nobody writes to keeps its space in order.
LEMMA SpaceFrame ==
    ASSUME IndInv, SpaceInv, NEW l \in Logs, SameSpace(l), insert_offset'[l] = insert_offset[l],
           LockedByBackend(l) => LockedByBackend(l)'
    PROVE  PlacedInv(l)' /\ InsertInv(l)'
  <1>l. Len(slots[l]) \in Nat
    BY Zenon, SlotAt DEF IndInv, TypeOK
  <1>e. \A i \in 0 .. Len(slots[l]) : SlotEnd(l, i)' = SlotEnd(l, i)
    BY Zenon, SameEnds
  <1>1. PlacedInv(l)'
    BY SMTT(20), <1>l, <1>e, SpaceParts DEF PlacedInv, SameSpace
  <1>3. InsertInv(l)'
    BY <1>e, <1>l, SpaceParts DEF InsertInv, SameSpace
  <1> QED
    BY Zenon, <1>1, <1>3

\* A writer of another log sees no change.
LEMMA WriterFrame ==
    ASSUME IndInv, SpaceInv, NEW b \in Backends, SameWriter(b), phase[b] = "meta",
           SameSpace(logs[b]), insert_offset'[logs[b]] = insert_offset[logs[b]]
    PROVE  WritesAt(b)'
  <1>t. XactType /\ CtxType /\ SlotType /\ CtxInv /\ XactInv
    BY Zenon DEF IndInv, TypeOK
  <1>1. PICK l \in Logs : l = logs[b]
    BY Zenon, <1>t, MetaAt
  <1>2. PICK n \in 1 .. Len(slots[l]) : n = Len(slots[l])
    BY Zenon, <1>t, <1>1, MetaAt
  <1>3. /\ urecptr[b] < insert_offset[l]
        /\ urecptr[b] = SlotEnd(l, IF slots[l][n].start = 0 THEN n - 1 ELSE n)
    BY Zenon, <1>1, <1>2, SpaceParts DEF WritesAt
  <1>4. SlotEnd(l, n)' = SlotEnd(l, n) /\ SlotEnd(l, n - 1)' = SlotEnd(l, n - 1)
    <2>1. n \in 0 .. Len(slots[l]) /\ n - 1 \in 0 .. Len(slots[l])
      BY <1>2
    <2> QED
      BY Zenon, <1>1, <2>1, SameEnds
  <1>5. logs'[b] = l /\ urecptr'[b] = urecptr[b] /\ Len(slots'[l]) = n
        /\ slots'[l][n].start = slots[l][n].start /\ insert_offset'[l] = insert_offset[l]
    BY Zenon, <1>1, <1>2 DEF SameWriter, SameSpace
  <1> QED
    BY Zenon, <1>3, <1>4, <1>5 DEF WritesAt

\* No slot, no record.
LEMMA SpaceInit == Init => SpaceInv
  BY DEF Init, SpaceInv, SlotEnd, LockedByBackend

\* Steps of writers that only attach, detach or switch, and rollbacks.
LEMMA WriterSameSpace ==
    ASSUME IndInv, SpaceInv, \A l \in Logs : SameSpace(l), \A b \in Backends : SameWriter(b),
           UNCHANGED <<insert_offset, force_discard_offset, recycle_slot>>
    PROVE  SpaceInv'
  <1>t. XactType /\ CtxType /\ SlotType /\ CtxInv /\ XactInv
    BY Zenon DEF IndInv, TypeOK
  <1>1. ASSUME NEW l \in Logs PROVE PlacedInv(l)' /\ InsertInv(l)'
    <2>1. LockedByBackend(l) => LockedByBackend(l)'
      BY Zenon DEF LockedByBackend, SameWriter
    <2> QED
      BY Zenon, <2>1, SpaceFrame
  <1>2. ASSUME NEW l \in Logs PROVE ForcedInv(l)'
    <2>1. recycle_slot[l] \in 0 .. Len(slots[l])
      BY <1>t, SlotAt DEF SlotType
    <2>2. SlotEnd(l, recycle_slot[l])' = SlotEnd(l, recycle_slot[l])
      <3>1. PICK i \in 0 .. Len(slots[l]) : i = recycle_slot[l]
        BY Zenon, <2>1
      <3>2. SlotEnd(l, i)' = SlotEnd(l, i) /\ recycle_slot'[l] = i
        BY Zenon, <3>1, SameEnds
      <3> QED
        BY Zenon, <3>1, <3>2
    <2> QED
      BY Zenon, <2>2, SpaceParts DEF ForcedInv
  <1>3. ASSUME NEW b \in Backends, phase'[b] = "meta" PROVE WritesAt(b)'
    <2>1. phase[b] = "meta" /\ logs[b] \in Logs
      BY Zenon, <1>3, <1>t, MetaAt DEF SameWriter
    <2> QED
      BY Zenon, <2>1, WriterFrame
  <1>4. \A l \in Logs : PlacedInv(l)' /\ ForcedInv(l)' /\ InsertInv(l)'
    BY Zenon, <1>1, <1>2
  <1>5. \A b \in Backends : phase'[b] = "meta" => WritesAt(b)'
    BY Zenon, <1>3
  <1> QED
    BY Zenon, <1>4, <1>5 DEF SpaceInv, PlacedInv, ForcedInv, InsertInv

\* The backend that attaches to a log or leaves one is not writing.
LEMMA AttachSpace ==
    ASSUME IndInv, SpaceInv, NEW b \in Backends, alloc_undo_log(b) \/ cleanup_undo_log(b)
    PROVE  SpaceInv'
  <1>t. CtxType /\ CtxInv
    BY Zenon DEF IndInv, TypeOK
  <1>1. phase[b] = "idle"
    BY Zenon, <1>t DEF alloc_undo_log, cleanup_undo_log, CtxInv, AttachInv, WriterInv
  <1>2. \A c \in Backends : SameWriter(c)
    BY Zenon, <1>1, <1>t DEF alloc_undo_log, cleanup_undo_log, SameWriter, CtxType
  <1>3. \A l \in Logs : SameSpace(l)
    BY Zenon DEF alloc_undo_log, cleanup_undo_log, SameSpace, ulogVars
  <1> QED
    BY Zenon, <1>2, <1>3, WriterSameSpace DEF alloc_undo_log, cleanup_undo_log, ulogVars

\* A rollback changes no pointer of the slot it flags.
LEMMA ExecuteSpace ==
    ASSUME IndInv, SpaceInv, NEW r \in requests, execute_undo_actions(r[1], r[2])
    PROVE  SpaceInv'
  <1>t. SlotType
    BY Zenon DEF IndInv, TypeOK
  <1>1. ASSUME NEW l \in Logs PROVE SameSpace(l)
    <2>1. slots[l] \in Seq(Slot) /\ \A i \in 1 .. Len(slots[l]) : slots[l][i] \in Slot
      BY Zenon, <1>t, SlotAt
    <2>2. r[1] \in Logs /\ r[2] \in 1 .. Len(slots[r[1]])
      BY Zenon, <1>t DEF SlotType
    <2>3. CASE slots'[l] = slots[l]
      BY Zenon, <2>3 DEF SameSpace
    <2>4. CASE l = r[1] /\ slots' = [slots EXCEPT ![r[1]][r[2]].info = "ROLLBACK"]
      <3> DEFINE s == [slots[l][r[2]] EXCEPT !.info = "ROLLBACK"]
      <3>1. slots[l][r[2]] \in Slot
        BY Zenon, <2>1, <2>2, <2>4
      <3>2. s \in Slot /\ s.start = slots[l][r[2]].start /\ s.end = slots[l][r[2]].end
        BY Zenon, <3>1 DEF Slot
      <3>3. slots'[l] = [slots[l] EXCEPT ![r[2]] = s]
        BY Zenon, <1>t, <2>4 DEF SlotType
      <3> HIDE DEF s
      <3>4. /\ Len(slots'[l]) = Len(slots[l]) /\ slots'[l][r[2]] = s
            /\ \A i \in 1 .. Len(slots[l]) : i # r[2] => slots'[l][i] = slots[l][i]
        BY <2>1, <2>2, <2>4, <3>2, <3>3, SlotExcept
      <3> QED
        BY Zenon, <3>2, <3>4 DEF SameSpace
    <2>5. slots'[l] = slots[l] \/ (l = r[1] /\ slots' = [slots EXCEPT ![r[1]][r[2]].info = "ROLLBACK"])
      BY Zenon, <1>t, <2>2 DEF execute_undo_actions, SlotType
    <2> QED
      BY Zenon, <2>3, <2>4, <2>5
  <1>2. \A b \in Backends : SameWriter(b)
    BY Zenon DEF execute_undo_actions, ctxVars, SameWriter
  <1> QED
    BY Zenon, <1>1, <1>2, WriterSameSpace DEF execute_undo_actions

\* The recycled slots end where the last of them ends.
LEMMA ReleaseSpace ==
    ASSUME IndInv, SpaceInv, recycle_release
    PROVE  SpaceInv'
  <1>t. UlogType /\ SlotType /\ AtLogInv /\ dw \in DiscardLocals
    BY Zenon DEF IndInv, TypeOK
  <1>u. UNCHANGED <<logs, phase, urecptr, insert_offset, slots>>
    BY Zenon DEF recycle_release, ctxVars
  <1>l. PICK l \in Logs : l = dw.idx
    BY SMTT(20), <1>t, LocalsAt, ConstantsAssumption DEF recycle_release, AtLogInv, Logs, ConstantsAssumption
  <1>r. PICK i \in 1 .. Len(slots[l]) : i = dw.recycle
    BY Zenon, <1>l, <1>t DEF recycle_release, AtLogInv
  <1>1. \A k \in Logs : \A j : SlotEnd(k, j)' = SlotEnd(k, j)
    BY Zenon, <1>u DEF SlotEnd
  <1>2. \A k \in Logs : PlacedInv(k)' /\ InsertInv(k)'
    <2>1. \A k \in Logs : SameSpace(k) /\ LockedByBackend(k)' = LockedByBackend(k)
      BY Zenon, <1>u DEF SameSpace, LockedByBackend
    <2> QED
      BY Zenon, <1>u, <2>1, SpaceFrame
  <1>3. \A b \in Backends : phase'[b] = "meta" => WritesAt(b)'
    BY Zenon, <1>u, SpaceParts DEF WritesAt, SlotEnd
  <1>4. \A k \in Logs : ForcedInv(k)'
    <2>1. force_discard_offset'[l] = slots[l][i].end /\ recycle_slot'[l] = i /\ i # 0
      BY <1>l, <1>r, <1>t DEF recycle_release, UlogType, SlotType
    <2>2. \A k \in Logs : k # l => force_discard_offset'[k] = force_discard_offset[k]
                                   /\ recycle_slot'[k] = recycle_slot[k]
      BY Zenon, <1>l, <1>t DEF recycle_release, UlogType, SlotType
    <2>3. ForcedInv(l)'
      BY Zenon, <2>1, <1>u DEF ForcedInv, SlotEnd
    <2>4. \A k \in Logs : k # l => ForcedInv(k)'
      BY Zenon, <2>2, <1>u, SpaceParts DEF ForcedInv, SlotEnd
    <2> QED
      BY Zenon, <2>3, <2>4
  <1> QED
    BY Zenon, <1>2, <1>3, <1>4 DEF SpaceInv, PlacedInv, ForcedInv, InsertInv

\* The log of a backend that is not writing has no other writer.
LEMMA NotLocked ==
    ASSUME IndInv, NEW b \in Backends, xact[b] # InvalidXid, phase[b] # "meta"
    PROVE  /\ logs[b] \in Logs /\ ~LockedByBackend(logs[b])
           /\ \A i \in 1 .. Len(slots[logs[b]]) : slots[logs[b]][i].start # 0
  <1>t. XactType /\ CtxType /\ CtxInv /\ XactInv /\ SlotInv
    BY Zenon DEF IndInv, TypeOK
  <1>1. logs[b] \in Logs
    BY Zenon, <1>t, WriterAt
  <1>2. ~LockedByBackend(logs[b])
    BY Zenon, <1>1, <1>t DEF LockedByBackend, CtxInv, AttachInv, Logs
  <1> QED
    BY Zenon, <1>1, <1>2, <1>t DEF SlotInv, LockedByBackend

\* Giving up the rest of a full log leaves its slots where they are.
LEMMA SwitchSpace ==
    ASSUME IndInv, SpaceInv, NEW b \in Backends, NEW size \in RecordSizes, undolog_switch(b, size)
    PROVE  SpaceInv'
  <1>t. XactType /\ CtxType /\ UlogType /\ SlotType /\ CtxInv
    BY Zenon DEF IndInv, TypeOK
  <1>l. PICK l \in Logs : l = logs[b] /\ ~LockedByBackend(l)
    BY Zenon, NotLocked DEF undolog_switch
  <1>u. UNCHANGED <<slots, force_discard_offset, recycle_slot, urecptr>>
    BY Zenon DEF undolog_switch
  <1>n. LogSize \in Nat
    BY Zenon, ConstantsAssumption DEF ConstantsAssumption
  <1>i. insert_offset'[l] = LogSize + 1 /\ \A k \in Logs : k # l => insert_offset'[k] = insert_offset[k]
    BY Zenon, <1>l, <1>t DEF undolog_switch, UlogType
  <1>w. \A c \in Backends : SameWriter(c)
    <2>1. phase[b] = "idle" /\ phase'[b] # "meta"
      BY Zenon, <1>t DEF undolog_switch, CtxType
    <2>2. \A c \in Backends : c # b => phase'[c] = phase[c] /\ logs'[c] = logs[c]
      BY Zenon, <1>t DEF undolog_switch, CtxType
    <2> QED
      BY Zenon, <1>u, <2>1, <2>2 DEF SameWriter
  <1>s. \A k \in Logs : SameSpace(k)
    BY Zenon, <1>u DEF SameSpace
  <1>1. \A k \in Logs : ForcedInv(k)'
    BY Zenon, <1>u, SpaceParts DEF ForcedInv, SlotEnd
  <1>2. ASSUME NEW k \in Logs, k # l PROVE PlacedInv(k)' /\ InsertInv(k)'
    <2>1. LockedByBackend(k) => LockedByBackend(k)'
      BY Zenon, <1>w DEF LockedByBackend, SameWriter
    <2> QED
      BY Zenon, <1>2, <1>i, <1>s, <2>1, SpaceFrame
  <1>3. InsertInv(l)'
    BY <1>i, <1>n DEF InsertInv
  <1>4. PlacedInv(l)'
    <2>1. \A i \in 1 .. Len(slots[l]) : slots[l][i].end <= LogSize + 1
      BY <1>t, <1>n, SlotAt
    <2>2. PlacedInv(l)
      BY Zenon, SpaceParts
    <2> QED
      BY Zenon, <1>u, <1>i, <2>1, <2>2 DEF PlacedInv, SlotEnd
  <1>5. ASSUME NEW c \in Backends, phase'[c] = "meta" PROVE WritesAt(c)'
    <2>1. phase[c] = "meta"
      BY Zenon, <1>5, <1>w DEF SameWriter
    <2>2. logs[c] \in Logs /\ logs[c] # l
      BY Zenon, <2>1, <1>l, <1>t, MetaAt DEF LockedByBackend, IndInv
    <2> QED
      BY Zenon, <2>1, <2>2, <1>i, <1>s, <1>w, WriterFrame
  <1> QED
    BY Zenon, <1>1, <1>2, <1>3, <1>4, <1>5 DEF SpaceInv, PlacedInv, ForcedInv, InsertInv

\* A record's place is where the slots of the log end.
LEMMA UpdateSpace ==
    ASSUME IndInv, SpaceInv, NEW b \in Backends, NEW size \in RecordSizes,
           update_undolog_meta(b, size)
    PROVE  SpaceInv'
  <1>t. XactType /\ CtxType /\ UlogType /\ SlotType /\ CtxInv /\ XactInv
    BY Zenon DEF IndInv, TypeOK
  <1>l. PICK l \in Logs : /\ l = logs[b] /\ ~LockedByBackend(l)
                          /\ \A i \in 1 .. Len(slots[l]) : slots[l][i].start # 0
    BY Zenon, NotLocked DEF update_undolog_meta
  <1>n. PICK n \in Nat : n = Len(slots[l])
    BY Zenon, <1>t, SlotAt
  <1>c. LogSize \in Nat /\ size \in 1 .. LogSize /\ insert_offset[l] \in 1 .. LogSize + 1
    BY Zenon, <1>t, ConstantsAssumption DEF ConstantsAssumption, UlogType
  <1>i. /\ insert_offset[l] = SlotEnd(l, n)
        /\ insert_offset'[l] = insert_offset[l] + size
        /\ \A k \in Logs : k # l => insert_offset'[k] = insert_offset[k]
    <2>1. insert_offset[l] + size <= LogSize + 1
      BY <1>l, <1>c DEF update_undolog_meta, check_need_switch_undolog
    <2>2. insert_offset[l] = SlotEnd(l, n)
      BY <1>l, <1>n, <1>c, <2>1, SpaceParts DEF InsertInv
    <2> QED
      BY Zenon, <2>2, <1>l, <1>t DEF update_undolog_meta, UlogType
  <1>u. UNCHANGED <<logs, force_discard_offset, recycle_slot>>
    BY Zenon DEF update_undolog_meta
  <1>w. /\ phase'[b] = "meta" /\ urecptr'[b] = insert_offset[l]
        /\ \A c \in Backends : c # b => SameWriter(c)
    BY Zenon, <1>l, <1>t, <1>u DEF update_undolog_meta, CtxType, SameWriter
  <1>s. /\ \A k \in Logs : k # l => slots'[k] = slots[k]
        /\ \A i \in 1 .. n : slots'[l][i] = slots[l][i]
        /\ \/ Len(slots'[l]) = n /\ n > 0
           \/ Len(slots'[l]) = n + 1 /\ slots'[l][n + 1].start = 0
    <2>1. CASE xact[b] # prev_xid[b] \/ phase[b] = "switched"
      <3>1. NewSlotIn(b)
        BY Zenon, <2>1, <1>t, WriterAt DEF update_undolog_meta, NewSlotIn
      <3>2. /\ Len(slots'[logs[b]]) = Len(slots[logs[b]]) + 1
            /\ slots'[logs[b]][Len(slots[logs[b]]) + 1] = NewSlot(xact[b])
            /\ \A i \in 1 .. Len(slots[logs[b]]) : slots'[logs[b]][i] = slots[logs[b]][i]
            /\ \A k \in Logs : k # logs[b] => slots'[k] = slots[k]
        BY Zenon, <3>1, <1>t, NewSlotAt
      <3>3. NewSlot(xact[b]).start = 0
        BY Zenon DEF NewSlot
      <3> QED
        BY Zenon, <3>2, <3>3, <1>l, <1>n
    <2>2. CASE ~(xact[b] # prev_xid[b] \/ phase[b] = "switched")
      <3>1. slots' = slots
        BY Zenon, <2>2 DEF update_undolog_meta
      <3>2. n > 0
        BY Zenon, <2>2, <1>t, <1>l, <1>n DEF update_undolog_meta, CtxInv, WriterInv
      <3> QED
        BY Zenon, <3>1, <3>2, <1>n
    <2> QED
      BY Zenon, <2>1, <2>2
  <1>e. \A j \in 0 .. n : SlotEnd(l, j)' = SlotEnd(l, j)
    BY <1>s, <1>n DEF SlotEnd
  <1>1. ASSUME NEW k \in Logs, k # l PROVE PlacedInv(k)' /\ InsertInv(k)' /\ ForcedInv(k)'
    <2>1. SameSpace(k)
      BY Zenon, <1>1, <1>s DEF SameSpace
    <2>2. LockedByBackend(k) => LockedByBackend(k)'
      BY Zenon, <1>1, <1>l, <1>w DEF LockedByBackend, SameWriter
    <2>3. ForcedInv(k)'
      BY Zenon, <1>1, <1>s, <1>u, SpaceParts DEF ForcedInv, SlotEnd
    <2> QED
      BY Zenon, <1>1, <1>i, <2>1, <2>2, <2>3, SpaceFrame
  <1>2. PlacedInv(l)'
    <2>1. PlacedInv(l)
      BY Zenon, SpaceParts
    <2>2. ASSUME NEW i \in 1 .. Len(slots'[l]), slots'[l][i].start # 0
          PROVE  /\ slots'[l][i].start < slots'[l][i].end /\ slots'[l][i].end <= insert_offset'[l]
                 /\ slots'[l][i].start = SlotEnd(l, i - 1)'
                 /\ \A j \in 0 .. i - 1 : SlotEnd(l, j)' <= slots'[l][i].start
      <3>1. i \in 1 .. n /\ i - 1 \in 0 .. n
        BY <1>s, <1>n, <2>2
      <3>2. slots'[l][i] = slots[l][i] /\ slots[l][i].end \in Int
        BY <1>s, <1>n, <1>t, <3>1, SlotAt
      <3>3. /\ slots[l][i].start < slots[l][i].end /\ slots[l][i].end <= insert_offset[l]
            /\ slots[l][i].start = SlotEnd(l, i - 1)
            /\ \A j \in 0 .. i - 1 : SlotEnd(l, j) <= slots[l][i].start
        BY Zenon, <1>n, <2>1, <2>2, <3>1, <3>2 DEF PlacedInv
      <3>4. slots'[l][i].end <= insert_offset'[l]
        BY SMTT(20), <1>i, <1>c, <3>2, <3>3
      <3>5. SlotEnd(l, i - 1)' = SlotEnd(l, i - 1)
        BY Zenon, <1>e, <3>1
      <3>6. ASSUME NEW j \in 0 .. i - 1 PROVE SlotEnd(l, j)' <= slots'[l][i].start
        <4>1. j \in 0 .. n
          BY <1>n, <3>1
        <4> QED
          BY Zenon, <4>1, <1>e, <3>2, <3>3
      <3> QED
        BY Zenon, <3>2, <3>3, <3>4, <3>5, <3>6
    <2> QED
      BY Zenon, <2>2 DEF PlacedInv
  <1>3. InsertInv(l)'
    BY Zenon, <1>l, <1>u, <1>w DEF InsertInv, LockedByBackend
  <1>4. ForcedInv(l)'
    <2>1. recycle_slot[l] \in 0 .. n
      BY <1>t, <1>n DEF SlotType
    <2> QED
      BY Zenon, <2>1, <1>e, <1>u, SpaceParts DEF ForcedInv
  <1>5. WritesAt(b)'
    <2>1. urecptr'[b] < insert_offset'[l]
      BY SMTT(20), <1>i, <1>c, <1>w
    <2>2. CASE Len(slots'[l]) = n /\ n > 0
      <3>1. slots'[l][n].start # 0
        BY SMTT(20), <1>l, <1>n, <1>s, <2>2
      <3> QED
        BY SMTT(20), <1>l, <1>n, <1>u, <1>w, <1>e, <1>i, <2>1, <2>2, <3>1 DEF WritesAt
    <2>3. CASE Len(slots'[l]) = n + 1 /\ slots'[l][n + 1].start = 0
      <3>1. n + 1 - 1 = n
        BY <1>n
      <3> QED
        BY SMTT(20), <1>l, <1>n, <1>u, <1>w, <1>e, <1>i, <2>1, <2>3, <3>1 DEF WritesAt
    <2> QED
      BY Zenon, <1>s, <2>2, <2>3
  <1>6. ASSUME NEW c \in Backends, phase'[c] = "meta" PROVE WritesAt(c)'
    <2>1. CASE c # b
      <3>1. phase[c] = "meta" /\ SameWriter(c)
        BY Zenon, <1>6, <2>1, <1>w DEF SameWriter
      <3>2. logs[c] \in Logs /\ logs[c] # l
        BY Zenon, <3>1, <1>l, <1>t, MetaAt DEF LockedByBackend
      <3>3. SameSpace(logs[c])
        BY Zenon, <3>2, <1>s DEF SameSpace
      <3> QED
        BY Zenon, <3>1, <3>2, <3>3, <1>i, WriterFrame
    <2> QED
      BY Zenon, <1>5, <2>1
  <1> QED
    BY <1>1, <1>2, <1>3, <1>4, <1>6 DEF SpaceInv, PlacedInv, ForcedInv, InsertInv

\* Publishing a slot's pointers closes the gap to the insert pointer.
LEMMA PublishSpace ==
    ASSUME IndInv, SpaceInv, UndoneInv, NEW b \in Backends, release_undolog_meta(b)
    PROVE  SpaceInv'
  <1>t. XactType /\ CtxType /\ UlogType /\ SlotType /\ CtxInv /\ XactInv /\ SlotInv
    BY Zenon DEF IndInv, TypeOK
  <1>m. phase[b] = "meta"
    BY Zenon DEF release_undolog_meta
  <1>l. PICK l \in Logs : l = logs[b]
    BY Zenon, <1>m, <1>t, MetaAt
  <1>n. PICK n \in 1 .. Len(slots[l]) : n = Len(slots[l]) /\ n \in Nat /\ n - 1 \in 0 .. n
    BY SMTT(20), <1>l, <1>m, <1>t, MetaAt, SlotAt
  <1> DEFINE s == update_undo_slot(slots[l][n], urecptr[b], insert_offset[l])
  <1>u. UNCHANGED <<logs, insert_offset, force_discard_offset, recycle_slot>>
    BY Zenon DEF release_undolog_meta
  <1>w. /\ phase'[b] = "idle"
        /\ \A c \in Backends : c # b => SameWriter(c) /\ (phase[c] = "meta" => logs[c] # l)
    BY SMTT(20), <1>l, <1>t, <1>u DEF release_undolog_meta, CtxType, SameWriter, CtxInv, AttachInv, Logs
  <1>p. /\ urecptr[b] \in 1 .. LogSize /\ urecptr[b] < insert_offset[l]
        /\ urecptr[b] = SlotEnd(l, IF slots[l][n].start = 0 THEN n - 1 ELSE n)
        /\ insert_offset[l] \in 1 .. LogSize + 1
    <2>1. urecptr[b] # 0 /\ urecptr[b] \in 0 .. LogSize /\ insert_offset[l] \in 1 .. LogSize + 1
      BY Zenon, <1>m, <1>t DEF CtxInv, WriterInv, CtxType, UlogType
    <2>2. WritesAt(b)
      BY Zenon, <1>m, SpaceParts
    <2> QED
      BY <2>1, <2>2, <1>l, <1>n, ConstantsAssumption DEF WritesAt, ConstantsAssumption
  <1>o. slots[l][n] \in Slot /\ slots[l][n].start \in Nat
    BY <1>n, <1>t, SlotAt, ConstantsAssumption DEF ConstantsAssumption
  <1>s. /\ s \in Slot /\ s.end = insert_offset[l]
        /\ s.start = IF slots[l][n].start = 0 THEN urecptr[b] ELSE slots[l][n].start
    <2>1. urecptr[b] \in 0 .. LogSize /\ insert_offset[l] \in 0 .. LogSize + 1
      BY <1>p, ConstantsAssumption DEF ConstantsAssumption
    <2>2. s \in Slot
      BY ZenonT(30), <1>o, <2>1 DEF update_undo_slot, Slot
    <2> QED
      BY Zenon, <1>o, <2>2 DEF update_undo_slot, Slot
  <1>c. /\ Len(slots'[l]) = n /\ slots'[l][n] = s
        /\ \A i \in 1 .. n : i # n => slots'[l][i] = slots[l][i]
        /\ \A k \in Logs : k # l => slots'[k] = slots[k]
    <2>1. slots' = [slots EXCEPT ![l] = [slots[l] EXCEPT ![n] = s]]
      BY Zenon, <1>l, <1>n DEF release_undolog_meta
    <2>2. slots[l] \in Seq(Slot) /\ slots \in [Logs -> Seq(Slot)]
      BY Zenon, <1>t DEF SlotType
    <2> HIDE DEF s
    <2>3. slots'[l] = [slots[l] EXCEPT ![n] = s] /\ \A k \in Logs : k # l => slots'[k] = slots[k]
      BY Zenon, <2>1, <2>2
    <2> QED
      BY <2>2, <2>3, <1>n, <1>s, SlotExcept
  <1> HIDE DEF s
  <1>e. /\ \A j \in 0 .. n - 1 : SlotEnd(l, j)' = SlotEnd(l, j)
        /\ SlotEnd(l, n)' = insert_offset[l]
    BY <1>c, <1>n, <1>s DEF SlotEnd
  <1>old. PlacedInv(l) /\ ForcedInv(l)
    BY Zenon, SpaceParts
  <1>1. ASSUME NEW k \in Logs, k # l PROVE PlacedInv(k)' /\ InsertInv(k)' /\ ForcedInv(k)'
    <2>1. SameSpace(k)
      BY Zenon, <1>1, <1>c DEF SameSpace
    <2>2. LockedByBackend(k) => LockedByBackend(k)'
      BY Zenon, <1>1, <1>l, <1>w DEF LockedByBackend, SameWriter
    <2>3. ForcedInv(k)'
      BY Zenon, <1>1, <1>c, <1>u, SpaceParts DEF ForcedInv, SlotEnd
    <2> QED
      BY Zenon, <1>1, <1>u, <2>1, <2>2, <2>3, SpaceFrame
  <1>2. InsertInv(l)'
    BY Zenon, <1>c, <1>e, <1>u DEF InsertInv
  <1>3. ForcedInv(l)'
    <2>1. recycle_slot[l] \in 0 .. n - 1
      BY <1>l, <1>m, <1>n, <1>t, RunningNotRecycled DEF SlotType
    <2> QED
      BY Zenon, <2>1, <1>e, <1>u, <1>old DEF ForcedInv
  <1>4. /\ s.start < s.end /\ s.start = SlotEnd(l, n - 1)
        /\ \A j \in 0 .. n - 1 : SlotEnd(l, j) <= s.start
    <2>1. CASE slots[l][n].start # 0
      <3>1. /\ slots[l][n].start < slots[l][n].end /\ slots[l][n].start = SlotEnd(l, n - 1)
            /\ \A j \in 0 .. n - 1 : SlotEnd(l, j) <= slots[l][n].start
        BY Zenon, <2>1, <1>n, <1>old DEF PlacedInv
      <3>2. urecptr[b] = slots[l][n].end /\ slots[l][n].end \in Int
        BY <2>1, <1>n, <1>p DEF SlotEnd
      <3> QED
        BY <2>1, <3>1, <3>2, <1>s, <1>p, <1>o
    <2>2. CASE slots[l][n].start = 0
      <3>1. s.start = SlotEnd(l, n - 1) /\ s.start < s.end
        BY Zenon, <2>2, <1>s, <1>p
      <3>2. ASSUME NEW j \in 0 .. n - 1 PROVE SlotEnd(l, j) <= SlotEnd(l, n - 1)
        <4>1. CASE j = n - 1
          BY SMTT(20), <4>1, <3>1, <1>s, <1>p, <2>2
        <4>2. CASE j # n - 1
          <5>n. n \in Nat /\ j \in Nat /\ j < n - 1
            BY <4>2, <1>n
          <5>0. n - 1 \in 1 .. n /\ n - 1 # n /\ j \in 0 .. (n - 1) - 1 /\ n - 1 # 0
            BY <5>n
          <5>1. PICK i \in 1 .. Len(slots[l]) : i = n - 1 /\ i # n /\ j \in 0 .. i - 1 /\ i # 0
            BY Zenon, <5>0, <1>n
          <5>2. slots[l][i].start # 0
            <6>1. slots[l][i].start = 0 =>
                    \E c \in Backends : phase[c] = "meta" /\ logs[c] = l /\ xact[c] = slots[l][i].xid
              BY SMTT(20), <5>1, <1>t DEF SlotInv
            <6>2. slots[l][i].xid < slots[l][n].xid /\ slots[l][i].xid \in Int
              BY SMTT(20), <5>1, <1>n, <1>t, SlotAt DEF SlotInv, Xids
            <6>3. slots[l][n].xid = xact[b]
              BY Zenon, <1>m, <1>t, <1>l, <1>n, MetaAt
            <6> QED
              BY SMTT(20), <6>1, <6>2, <6>3, <1>w
          <5>3. SlotEnd(l, j) <= slots[l][i].start /\ slots[l][i].start < slots[l][i].end
            BY Zenon, <5>1, <5>2, <1>old DEF PlacedInv
          <5>4. SlotEnd(l, n - 1) = slots[l][i].end
            BY Zenon, <5>1 DEF SlotEnd
          <5>5. SlotEnd(l, j) \in Int /\ slots[l][i].start \in Int /\ slots[l][i].end \in Int
            <6>1. j \in 1 .. Len(slots[l]) \/ j = 0
              BY <1>n
            <6> QED
              BY SMTT(20), <5>1, <6>1, <1>t, SlotAt DEF SlotEnd
          <5> QED
            BY <5>3, <5>4, <5>5
        <4> QED
          BY Zenon, <4>1, <4>2
      <3> QED
        BY Zenon, <3>1, <3>2
    <2> QED
      BY Zenon, <2>1, <2>2
  <1>5. PlacedInv(l)'
    <2>1. ASSUME NEW i \in 1 .. Len(slots'[l]), slots'[l][i].start # 0
          PROVE  /\ slots'[l][i].start < slots'[l][i].end /\ slots'[l][i].end <= insert_offset'[l]
                 /\ slots'[l][i].start = SlotEnd(l, i - 1)'
                 /\ \A j \in 0 .. i - 1 : SlotEnd(l, j)' <= slots'[l][i].start
      <3>1. CASE i = n
        <4>1. s.end <= insert_offset'[l]
          BY <1>s, <1>u, <1>p
        <4>2. SlotEnd(l, n - 1)' = SlotEnd(l, n - 1) /\ \A j \in 0 .. n - 1 : SlotEnd(l, j)' = SlotEnd(l, j)
          BY <1>e, <1>n
        <4> QED
          BY Zenon, <3>1, <4>1, <4>2, <1>c, <1>4
      <3>2. CASE i # n
        <4>1. i \in 1 .. n /\ i - 1 \in 0 .. n - 1 /\ \A j \in 0 .. i - 1 : j \in 0 .. n - 1
          BY <3>2, <1>c, <1>n
        <4>2. slots'[l][i] = slots[l][i] /\ slots[l][i].start # 0
          BY Zenon, <2>1, <3>2, <4>1, <1>c
        <4>3. /\ slots[l][i].start < slots[l][i].end /\ slots[l][i].end <= insert_offset[l]
              /\ slots[l][i].start = SlotEnd(l, i - 1)
              /\ \A j \in 0 .. i - 1 : SlotEnd(l, j) <= slots[l][i].start
          BY Zenon, <4>1, <4>2, <1>n, <1>old DEF PlacedInv
        <4> QED
          BY Zenon, <4>1, <4>2, <4>3, <1>e, <1>u
      <3> QED
        BY Zenon, <3>1, <3>2
    <2> QED
      BY Zenon, <2>1 DEF PlacedInv
  <1>6. ASSUME NEW c \in Backends, phase'[c] = "meta" PROVE WritesAt(c)'
    <2>1. c # b /\ phase[c] = "meta" /\ SameWriter(c) /\ logs[c] # l
      BY Zenon, <1>6, <1>w DEF SameWriter
    <2>2. logs[c] \in Logs
      BY Zenon, <2>1, <1>t, MetaAt
    <2>3. SameSpace(logs[c])
      BY Zenon, <2>1, <2>2, <1>c DEF SameSpace
    <2> QED
      BY Zenon, <2>1, <2>2, <2>3, <1>u, WriterFrame
  <1> QED
    BY SMTT(20), <1>1, <1>2, <1>3, <1>5, <1>6 DEF SpaceInv, PlacedInv, ForcedInv, InsertInv

\* Every step leaves the space of the logs in order.
LEMMA SpaceStep == IndInv /\ SpaceInv /\ UndoneInv /\ [Next]_vars => SpaceInv'
  <1> SUFFICES ASSUME IndInv, SpaceInv, UndoneInv, [Next]_vars PROVE SpaceInv'
    BY Zenon
  <1>1. CASE UNCHANGED <<logs, phase, urecptr, insert_offset, slots, force_discard_offset,
                         recycle_slot>>
    <2>1. (\A l \in Logs : SameSpace(l)) /\ (\A b \in Backends : SameWriter(b))
      BY Zenon, <1>1 DEF SameSpace, SameWriter
    <2> QED
      BY Zenon, <1>1, <2>1, WriterSameSpace
  <1> QED
    BY Zenon, <1>1, SpaceCases, AttachSpace, SwitchSpace, UpdateSpace, PublishSpace, ExecuteSpace,
       ReleaseSpace

\* Slots that lie one behind the other are contiguous from the recycled end.
LEMMA SpaceContiguous == IndInv /\ SpaceInv => SlotsContiguous
  <1> SUFFICES ASSUME IndInv, SpaceInv, NEW l \in Logs, NEW i \in 1 .. Len(slots[l])
               PROVE  /\ i > 1 => slots[l][i - 1].xid < slots[l][i].xid
                      /\ slots[l][i].start # 0 =>
                            /\ slots[l][i].start < slots[l][i].end
                            /\ slots[l][i].end <= insert_offset[l]
                            /\ slots[l][i].start = (IF i = 1 THEN 1 ELSE slots[l][i - 1].end)
                            /\ i = recycle_slot[l] + 1 =>
                                   slots[l][i].start = force_discard_offset[l]
    BY DEF SlotsContiguous
  <1>l. Len(slots[l]) \in Nat /\ recycle_slot[l] \in Nat
    BY Zenon, SlotAt DEF IndInv, TypeOK, SlotType
  <1>1. ASSUME i > 1 PROVE slots[l][i - 1].xid < slots[l][i].xid
    <2>1. i - 1 \in 1 .. Len(slots[l]) /\ i - 1 < i
      BY <1>1, <1>l
    <2> QED
      BY Zenon, <2>1 DEF IndInv, SlotInv
  <1>2. PlacedInv(l) /\ ForcedInv(l)
    BY Zenon, SpaceParts
  <1>3. SlotEnd(l, i - 1) = (IF i = 1 THEN 1 ELSE slots[l][i - 1].end)
    BY <1>l DEF SlotEnd
  <1>4. i = recycle_slot[l] + 1 => i - 1 = recycle_slot[l]
    BY SMTT(20), <1>l
  <1> QED
    BY Zenon, <1>1, <1>2, <1>3, <1>4 DEF PlacedInv, ForcedInv

-----------------------------------------------------------------------------
(* What snapshots need                                                     *)

\* Only taking and dropping a snapshot change the readers' xmins.
LEMMA SnapshotCases ==
    [Next]_vars =>
        \/ UNCHANGED snapshot_xmin
        \/ \E r \in Readers : GetSnapshotData(r) \/ ReleaseSnapshot(r)
  BY ZenonT(30) DEF Next, Backend, Write, Discard, vars, xactVars, alloc_undo_log,
         AssignTransactionId, EndTransaction, StandbyFeedback, cleanup_undo_log, undolog_switch,
         update_undolog_meta, release_undolog_meta, checkpoint_undo_logs, discard_loop,
         discard_skip_log, advance_frozen_xid, request_async_rollback, recycle_undo_space,
         recycle_release, discard_publish_frozen, discard_retry, discard_publish_recycle,
         discard_restart, execute_undo_actions

\* A new snapshot is not below any horizon that has only finished
\* transactions below it.
LEMMA NewSnapshot ==
    ASSUME IndInv, [Next]_vars, NEW r \in Readers, snapshot_xmin'[r] # InvalidXid
    PROVE  \/ snapshot_xmin'[r] = snapshot_xmin[r]
           \/ \A h \in Nat : AllOver(h) => h <= snapshot_xmin'[r]
  <1>t. XactType /\ XactInv
    BY Zenon DEF IndInv, TypeOK
  <1>1. ASSUME NEW q \in Readers, ReleaseSnapshot(q) PROVE snapshot_xmin'[r] = snapshot_xmin[r]
    BY Zenon, <1>1, <1>t DEF ReleaseSnapshot, XactType
  <1>2. ASSUME NEW q \in Readers, GetSnapshotData(q), q # r
        PROVE  snapshot_xmin'[r] = snapshot_xmin[r]
    BY Zenon, <1>2, <1>t DEF GetSnapshotData, XactType
  <1>3. ASSUME GetSnapshotData(r), NEW h \in Nat, AllOver(h) PROVE h <= snapshot_xmin'[r]
    <2>1. PICK m \in {nextXid} \cup Running : snapshot_xmin' = [snapshot_xmin EXCEPT ![r] = m]
      BY ZenonT(30), <1>3 DEF GetSnapshotData
    <2>2. snapshot_xmin'[r] = m
      BY Zenon, <2>1, <1>t DEF XactType
    <2>3. m = nextXid \/ (m \in Xids /\ InProgress(m))
      BY <2>1, <1>t DEF Running, XactType, XactInv
    <2> QED
      BY <2>2, <2>3, <1>3, <1>t DEF AllOver, XactType, Horizon, Xids
  <1> QED
    BY Zenon, <1>1, <1>2, <1>3, SnapshotCases

\* What no snapshot needs, none will need, and it stays where it is.
LEMMA UnneededStays ==
    ASSUME IndInv, TypeOK', RequestInv, UndoneInv, [Next]_vars, NEW l \in Logs,
           NEW k \in 0 .. Len(slots[l]), Unneeded(l, k)
    PROVE  Unneeded(l, k)' /\ SlotEnd(l, k)' = SlotEnd(l, k) /\ k \in 0 .. Len(slots'[l])
  <1>t. SlotType /\ XactType
    BY Zenon DEF IndInv, TypeOK
  <1>l. Len(slots[l]) \in Nat
    BY Zenon, <1>t, SlotAt
  <1>g. Grow(l) /\ Flags(l)
    BY Zenon, GrowStep, FlagStep
  <1>1. SlotEnd(l, k)' = SlotEnd(l, k)
    <2>1. CASE k = 0
      BY Zenon, <2>1 DEF SlotEnd
    <2>2. CASE k # 0
      <3>1. k \in 1 .. k /\ k \in 1 .. Len(slots[l])
        BY <2>2, <1>l
      <3> QED
        BY Zenon, <2>2, <3>1, <1>g DEF Unneeded, Flags, SlotEnd
    <2> QED
      BY Zenon, <2>1, <2>2
  <1>2. ASSUME NEW i \in 1 .. k
        PROVE  /\ Settled(slots[l][i])' /\ AllOver(slots[l][i].xid + 1)'
               /\ \A r \in Readers : snapshot_xmin'[r] # InvalidXid =>
                      slots'[l][i].xid < snapshot_xmin'[r]
    <2>0. i \in 1 .. Len(slots[l])
      BY <1>l
    <2>x. PICK x \in Xids : x = slots[l][i].xid
      BY Zenon, <2>0, <1>t, SlotAt
    <2>1. slots'[l][i].xid = x
      BY Zenon, <2>0, <2>x, <1>g DEF Grow
    <2>2. Settled(slots[l][i]) /\ AllOver(x + 1) /\ x + 1 \in Nat
      BY SMTT(20), <2>x DEF Unneeded, Xids
    <2>3. Settled(slots[l][i])'
      BY Zenon, <2>0, <2>2, <1>g DEF Grow, SettledNext, Settled, DidCommit
    <2>4. AllOver(slots[l][i].xid + 1)'
      BY Zenon, <2>1, <2>2, OverStep DEF AllOver, AllOverNext, InProgress
    <2>5. ASSUME NEW r \in Readers, snapshot_xmin'[r] # InvalidXid PROVE x < snapshot_xmin'[r]
      <3>1. CASE snapshot_xmin'[r] = snapshot_xmin[r]
        BY Zenon, <2>5, <3>1, <2>x DEF Unneeded
      <3>2. CASE \A h \in Nat : AllOver(h) => h <= snapshot_xmin'[r]
        <4>1. x + 1 <= snapshot_xmin'[r]
          BY Zenon, <3>2, <2>2
        <4>2. snapshot_xmin'[r] \in Nat /\ x \in Nat
          BY SMTT(20) DEF TypeOK, XactType, XidOrNone, Xids
        <4> QED
          BY <4>1, <4>2
      <3> QED
        BY Zenon, <2>5, <3>1, <3>2, NewSnapshot
    <2> QED
      BY Zenon, <2>1, <2>3, <2>4, <2>5
  <1>3. k \in 0 .. Len(slots'[l])
    BY <1>l, <1>g DEF Grow
  <1> QED
    BY Zenon, <1>1, <1>2, <1>3 DEF Unneeded

\* The horizon of a pass is taken at the head of the loop, from every
\* snapshot there is, and is dropped at the end.
LEMMA XminCases ==
    ASSUME IndInv, [Next]_vars
    PROVE  \/ dw'.oldestXmin = dw.oldestXmin
           \/ dw'.oldestXmin = FirstNormalXid
           \/ IsLeast(dw'.oldestXmin, OldestXminSet) /\ UNCHANGED snapshot_xmin
  <1>t. dw \in DiscardLocals
    BY Zenon DEF IndInv, TypeOK
  <1>n. \A h, f, force, n : DiscardStart(h, f, force, n).oldestXmin = FirstNormalXid
    BY Zenon DEF DiscardStart
  <1>1. CASE discard_skip_log \/ discard_retry \/ request_async_rollback \/ recycle_release
    BY ZenonT(30), <1>1, <1>t DEF discard_skip_log, discard_retry, request_async_rollback,
         recycle_release, DiscardLocals
  <1>2. CASE discard_loop
    <2>1. PICK m, force : /\ IsLeast(m, OldestXminSet)
              /\ dw' = IF undo_log_used_cout = 0
                 THEN [dw EXCEPT !.pc = "publish", !.oldestXmin = m,
                                 !.oldestFrozenXidInUndo = m]
                 ELSE [dw EXCEPT
                         !.pc = "logs", !.oldestXmin = m, !.force = force,
                         !.forceRecycleXid = IF force THEN get_force_recycle_xid(m, 1)
                                                      ELSE InvalidXid,
                         !.oldestFrozenXidInUndo = m]
      BY ZenonT(30), <1>2 DEF discard_loop
    <2>2. dw'.oldestXmin = m
      BY Zenon, <2>1, <1>t DEF DiscardLocals
    <2> QED
      BY Zenon, <2>1, <2>2, <1>2 DEF discard_loop, xactVars
  <1>3. CASE recycle_undo_space
    <2>1. PICK last : dw' = IF last = recycle_slot[dw.idx] THEN LogDone
                            ELSE [dw EXCEPT !.pc = "release", !.recycle = last]
      BY ZenonT(30), <1>3 DEF recycle_undo_space
    <2> QED
      BY Zenon, <2>1, <1>t DEF LogDone, DiscardLocals
  <1>4. CASE discard_publish_frozen
    <2>1. PICK f : dw' = IF undo_log_used_cout = 0
                         THEN DiscardStart(dw.lastHaving, f, dw.force, dw.restarts)
                         ELSE [dw EXCEPT !.pc = "having", !.lastForceAdvanceXid = f]
      BY ZenonT(30), <1>4 DEF discard_publish_frozen
    <2> QED
      BY <2>1, <1>n, <1>t DEF DiscardLocals
  <1>5. CASE discard_publish_recycle \/ discard_restart
    <2>1. PICK h, f, force, n : dw' = DiscardStart(h, f, force, n)
      BY ZenonT(30), <1>5 DEF discard_publish_recycle, discard_restart
    <2> QED
      BY Zenon, <2>1, <1>n
  <1>6. CASE advance_frozen_xid
    <2>1. PICK rollback, pending, f :
              dw' = [dw EXCEPT !.pc = IF rollback THEN "request" ELSE "recycle",
                               !.pending = pending, !.frozenXid = f,
                               !.allocate = Len(slots[dw.idx])]
      BY ZenonT(30), <1>6 DEF advance_frozen_xid
    <2> QED
      BY Zenon, <2>1, <1>t DEF DiscardLocals
  <1> QED
    BY Zenon, <1>1, <1>2, <1>3, <1>4, <1>5, <1>6, DiscardCases DEF Discard

\* No snapshot is older than the horizon of the pass.
LEMMA SnapshotStep ==
    ASSUME IndInv, TypeOK', KeptInv, [Next]_vars, NEW r \in Readers,
           snapshot_xmin'[r] # InvalidXid
    PROVE  dw'.oldestXmin <= snapshot_xmin'[r]
  <1>t. snapshot_xmin'[r] \in Nat /\ snapshot_xmin'[r] >= FirstNormalXid
    BY DEF TypeOK, XactType, XidOrNone
  <1>1. CASE dw'.oldestXmin = dw.oldestXmin
    BY Zenon, <1>1, NewSnapshot, HorizonsOver DEF KeptInv
  <1>2. CASE dw'.oldestXmin = FirstNormalXid
    BY Zenon, <1>2, <1>t
  <1>3. CASE IsLeast(dw'.oldestXmin, OldestXminSet) /\ UNCHANGED snapshot_xmin
    <2>1. snapshot_xmin[r] \in OldestXminSet
      BY SMTT(20), <1>3 DEF OldestXminSet
    <2> QED
      BY Zenon, <1>3, <2>1 DEF IsLeast
  <1> QED
    BY Zenon, <1>1, <1>2, <1>3, XminCases

\* Only recycle_undo_space moves discard_offset and recycle_xid.
LEMMA DiscardOffsetCases ==
    [Next]_vars => UNCHANGED <<discard_offset, recycle_xid>> \/ recycle_undo_space
  BY ZenonT(30) DEF Next, Backend, Write, Discard, vars, ulogVars, alloc_undo_log,
         AssignTransactionId, EndTransaction, StandbyFeedback, cleanup_undo_log, undolog_switch,
         update_undolog_meta, release_undolog_meta, checkpoint_undo_logs, discard_loop,
         discard_skip_log, advance_frozen_xid, request_async_rollback, GetSnapshotData,
         ReleaseSnapshot, recycle_release, discard_publish_frozen, discard_retry,
         discard_publish_recycle, discard_restart, execute_undo_actions

\* Slots recycled without force are older than the horizon, so no snapshot
\* needs them.
LEMMA RecycledUnneeded ==
    ASSUME IndInv, KeptInv, dw.pc = "recycle", NEW k \in Nat, recycle_slot[dw.idx] < k,
           k <= dw.allocate,
           \A i \in recycle_slot[dw.idx] + 1 .. k :
               Recyclable(slots[dw.idx][i]) /\ slots[dw.idx][i].xid < dw.oldestXmin
    PROVE  Unneeded(dw.idx, k) /\ k \in 1 .. Len(slots[dw.idx])
  <1>l. PICK l \in Logs : l = dw.idx
    BY Zenon, AtLog
  <1>f. PICK first \in Nat : first = recycle_slot[l]
    BY Zenon, <1>l, AtLog
  <1>k. k \in 1 .. Len(slots[l]) /\ Len(slots[l]) \in Nat /\ k \in first + 1 .. k
    BY <1>l, <1>f, AtLog
  <1>t. SlotType /\ SlotInv /\ RecycledSettled /\ HorizonInv
    BY Zenon DEF IndInv, TypeOK
  <1>1. ASSUME NEW i \in 1 .. k
        PROVE  /\ Settled(slots[l][i]) /\ AllOver(slots[l][i].xid + 1)
               /\ \A r \in Readers : snapshot_xmin[r] # InvalidXid =>
                      slots[l][i].xid < snapshot_xmin[r]
    <2>0. i \in 1 .. Len(slots[l])
      BY SMTT(20), <1>k
    <2>x. slots[l][i].xid \in Nat /\ slots[l][k].xid \in Nat /\ dw.oldestXmin \in Nat
      <3>1. slots[l][i].xid \in Xids /\ slots[l][k].xid \in Xids
        BY Zenon, <2>0, <1>k, <1>t, SlotAt
      <3> QED
        BY <3>1, HorizonsOver DEF Xids
    <2>1. slots[l][i].xid < dw.oldestXmin
      <3>1. slots[l][k].xid < dw.oldestXmin
        BY Zenon, <1>k, <1>l, <1>f
      <3>2. i < k => slots[l][i].xid < slots[l][k].xid
        BY Zenon, <2>0, <1>k, <1>t DEF SlotInv
      <3> QED
        BY <3>1, <3>2, <2>x
    <2>2. Settled(slots[l][i])
      <3>1. CASE i <= first
        BY SMTT(20), <3>1, <1>f, <1>t DEF RecycledSettled
      <3>2. CASE i \in first + 1 .. k
        BY Zenon, <3>2, <2>0, <1>l, <1>f, RecyclableSettled
      <3> QED
        BY SMTT(20), <3>1, <3>2
    <2>3. AllOver(slots[l][i].xid + 1)
      <3>1. PICK x \in Nat : x = slots[l][i].xid /\ x < dw.oldestXmin
        BY Zenon, <2>1, <2>x
      <3>2. AllOver(dw.oldestXmin) /\ nextXid \in Nat
        BY Zenon, HorizonsOver DEF IndInv, TypeOK, XactType, Horizon
      <3>3. AllOver(x + 1)
        BY SMTT(20), <3>1, <3>2, <2>x DEF AllOver, Xids
      <3> QED
        BY Zenon, <3>1, <3>3
    <2>4. ASSUME NEW r \in Readers, snapshot_xmin[r] # InvalidXid
          PROVE  slots[l][i].xid < snapshot_xmin[r]
      <3>1. dw.oldestXmin <= snapshot_xmin[r] /\ snapshot_xmin[r] \in Nat
        BY <2>4 DEF KeptInv, IndInv, TypeOK, XactType, XidOrNone
      <3> QED
        BY SMTT(20), <3>1, <2>1, <2>x
    <2> QED
      BY Zenon, <2>2, <2>3, <2>4
  <1> QED
    BY Zenon, <1>1, <1>k, <1>l DEF Unneeded

\* What recycle_undo_space does to its log: it moves discard_offset to the
\* end of slots no snapshot needs, if at all, and recycle_xid forward.
LEMMA RecycleKept ==
    ASSUME IndInv, KeptInv, recycle_undo_space
    PROVE  /\ dw.idx \in Logs
           /\ \A l \in Logs : l # dw.idx => discard_offset'[l] = discard_offset[l]
                                            /\ recycle_xid'[l] = recycle_xid[l]
           /\ \/ discard_offset'[dw.idx] = discard_offset[dw.idx]
              \/ \E k \in 1 .. Len(slots[dw.idx]) :
                     discard_offset'[dw.idx] = SlotEnd(dw.idx, k) /\ Unneeded(dw.idx, k)
           /\ recycle_slot[dw.idx] > 0 =>
                  slots[dw.idx][recycle_slot[dw.idx]].xid <= recycle_xid'[dw.idx]
           /\ dw'.pc = "release" => dw'.idx = dw.idx
                                    /\ recycle_xid'[dw.idx] = slots[dw.idx][dw'.recycle].xid
  <1>p. dw.pc = "recycle"
    BY Zenon DEF recycle_undo_space
  <1>l. PICK l \in Logs : l = dw.idx
    BY Zenon, <1>p, AtLog
  <1>f. PICK first \in Nat : first = recycle_slot[l] /\ first <= Len(slots[l])
    BY Zenon, <1>p, <1>l, AtLog
  <1>a. dw.allocate \in Nat /\ dw.allocate <= Len(slots[l]) /\ Len(slots[l]) \in Nat
    BY Zenon, <1>p, <1>l, AtLog
  <1>t. UlogType /\ SlotType /\ SlotInv /\ dw \in DiscardLocals
    BY Zenon DEF IndInv, TypeOK
  <1>1. PICK last \in first .. dw.allocate :
            /\ IsBatch(l, first, last)
            /\ \E kept \in first .. last :
                   /\ NotForced(l, first, last, kept)
                   /\ discard_offset' = [discard_offset EXCEPT ![l] =
                          IF kept = first THEN @ ELSE slots[l][kept].end]
            /\ recycle_xid' = [recycle_xid EXCEPT ![l] =
                   IF last = first THEN @ ELSE slots[l][last].xid]
            /\ dw' = IF last = first THEN LogDone
                     ELSE [dw EXCEPT !.pc = "release", !.recycle = last]
    BY ZenonT(30), <1>l, <1>f DEF recycle_undo_space
  <1>2. PICK kept \in first .. last :
            /\ NotForced(l, first, last, kept)
            /\ discard_offset' = [discard_offset EXCEPT ![l] =
                   IF kept = first THEN @ ELSE slots[l][kept].end]
    BY ZenonT(30), <1>1
  <1>n. kept \in Nat /\ last \in Nat /\ first <= kept /\ kept <= last /\ last <= Len(slots[l])
        /\ kept <= dw.allocate
    BY <1>1, <1>2, <1>f, <1>a
  <1>3. \A k \in Logs : k # l => discard_offset'[k] = discard_offset[k]
                                 /\ recycle_xid'[k] = recycle_xid[k]
    BY Zenon, <1>1, <1>2, <1>t DEF UlogType
  <1>4. \/ discard_offset'[l] = discard_offset[l]
        \/ \E k \in 1 .. Len(slots[l]) : discard_offset'[l] = SlotEnd(l, k) /\ Unneeded(l, k)
    <2>1. CASE kept = first
      BY Zenon, <2>1, <1>2, <1>t DEF UlogType
    <2>2. CASE kept # first
      <3>1. discard_offset'[l] = slots[l][kept].end
        BY Zenon, <2>2, <1>2, <1>t DEF UlogType
      <3>2. \A i \in first + 1 .. kept : i \in first + 1 .. last
        BY <1>n, <1>f
      <3>3. \A i \in first + 1 .. kept : Recyclable(slots[l][i]) /\ slots[l][i].xid < dw.oldestXmin
        BY Zenon, <3>2, <1>1, <1>2 DEF IsBatch, NotForced
      <3>4. Unneeded(l, kept) /\ kept \in 1 .. Len(slots[l])
        BY SMTT(20), <3>3, <2>2, <1>n, <1>l, <1>f, <1>p, RecycledUnneeded
      <3> QED
        BY <3>1, <3>4 DEF SlotEnd
    <2> QED
      BY Zenon, <2>1, <2>2
  <1>5. first > 0 => slots[l][first].xid <= recycle_xid'[l]
    <2> SUFFICES ASSUME first > 0 PROVE slots[l][first].xid <= recycle_xid'[l]
      BY Zenon
    <2>1. CASE last = first
      BY Zenon, <2>1, <1>1, <1>t, <1>f DEF KeptInv, UlogType
    <2>2. CASE last # first
      <3>1. first \in 1 .. Len(slots[l]) /\ last \in 1 .. Len(slots[l]) /\ first < last
        BY SMTT(20), <2>2, <1>n, <1>f, <1>1
      <3>2. slots[l][first].xid \in Nat /\ slots[l][last].xid \in Nat
        BY SMTT(20), <3>1, <1>t, SlotAt DEF Xids
      <3>3. slots[l][first].xid < slots[l][last].xid
        BY Zenon, <3>1, <1>t DEF SlotInv
      <3>4. recycle_xid'[l] = slots[l][last].xid
        BY Zenon, <2>2, <1>1, <1>t DEF UlogType
      <3> QED
        BY <3>2, <3>3, <3>4
    <2> QED
      BY Zenon, <2>1, <2>2
  <1>6. dw'.pc = "release" => dw'.idx = l /\ recycle_xid'[l] = slots[l][dw'.recycle].xid
    <2> SUFFICES ASSUME dw'.pc = "release"
                 PROVE  dw'.idx = l /\ recycle_xid'[l] = slots[l][dw'.recycle].xid
      BY Zenon
    <2>1. last # first
      BY Zenon, <1>1, <1>t DEF LogDone, DiscardLocals
    <2>2. dw'.idx = l /\ dw'.recycle = last
      BY Zenon, <2>1, <1>1, <1>l, <1>t DEF DiscardLocals
    <2>3. recycle_xid'[l] = slots[l][last].xid
      BY Zenon, <2>1, <1>1, <1>t DEF UlogType
    <2> QED
      BY Zenon, <2>2, <2>3
  <1> QED
    BY Zenon, <1>3, <1>4, <1>5, <1>6, <1>l, <1>f

\* What snapshots rely on survives every step.
LEMMA KeptStep ==
    ASSUME IndInv, TypeOK', RequestInv, UndoneInv, KeptInv, [Next]_vars
    PROVE  KeptInv'
  <1>t. UlogType /\ SlotType /\ AtLogInv /\ dw \in DiscardLocals
    BY Zenon DEF IndInv, TypeOK
  <1>1. \A r \in Readers : snapshot_xmin'[r] # InvalidXid => dw'.oldestXmin <= snapshot_xmin'[r]
    BY Zenon, SnapshotStep
  <1>2. ASSUME NEW l \in Logs
        PROVE  \E k \in 0 .. Len(slots'[l]) : discard_offset'[l] = SlotEnd(l, k)' /\ Unneeded(l, k)'
    <2>1. PICK k \in 0 .. Len(slots[l]) : discard_offset'[l] = SlotEnd(l, k) /\ Unneeded(l, k)
      <3>1. CASE discard_offset'[l] = discard_offset[l]
        BY Zenon, <3>1 DEF KeptInv
      <3>2. CASE \E k \in 1 .. Len(slots[l]) : discard_offset'[l] = SlotEnd(l, k) /\ Unneeded(l, k)
        <4>1. PICK k \in 1 .. Len(slots[l]) : discard_offset'[l] = SlotEnd(l, k) /\ Unneeded(l, k)
          BY Zenon, <3>2
        <4>2. k \in 0 .. Len(slots[l])
          BY <1>t, SlotAt
        <4> QED
          BY Zenon, <4>1, <4>2
      <3> QED
        BY Zenon, <3>1, <3>2, DiscardOffsetCases, RecycleKept
    <2> QED
      BY Zenon, <2>1, UnneededStays
  <1>g. \A l \in Logs : Grow(l)
    BY Zenon, GrowStep
  <1>3. ASSUME NEW l \in Logs, recycle_slot'[l] > 0
        PROVE  slots'[l][recycle_slot'[l]].xid <= recycle_xid'[l]
    <2>1. CASE recycle_slot'[l] = recycle_slot[l]
      <3>1. recycle_slot[l] \in 1 .. Len(slots[l])
        BY SMTT(20), <1>3, <2>1, <1>t, SlotAt DEF SlotType
      <3>2. slots'[l][recycle_slot[l]].xid = slots[l][recycle_slot[l]].xid
        BY <3>1, <1>g DEF Grow
      <3>3. slots[l][recycle_slot[l]].xid <= recycle_xid'[l]
        BY Zenon, <1>3, <2>1, DiscardOffsetCases, RecycleKept DEF KeptInv
      <3> QED
        BY Zenon, <2>1, <3>2, <3>3
    <2>2. CASE recycle_release /\ recycle_slot'[l] # recycle_slot[l]
      <3>1. /\ dw.pc = "release" /\ l = dw.idx /\ recycle_slot'[l] = dw.recycle
            /\ slots' = slots /\ recycle_xid' = recycle_xid
        BY Zenon, <2>2, <1>t DEF recycle_release, SlotType
      <3>2. dw.recycle \in 1 .. Len(slots[l])
        BY Zenon, <3>1, <1>t DEF AtLogInv
      <3>3. slots[l][dw.recycle].xid \in Nat
        BY <3>2, <1>t, SlotAt DEF Xids
      <3> QED
        BY <3>1, <3>3 DEF KeptInv
    <2>3. recycle_slot' = recycle_slot \/ recycle_release
      BY ZenonT(30), SpaceCases DEF alloc_undo_log, cleanup_undo_log, undolog_switch, update_undolog_meta,
                        release_undolog_meta, execute_undo_actions, ulogVars
    <2> QED
      BY Zenon, <2>1, <2>2, <2>3
  <1>4. ASSUME dw'.pc = "release"
        PROVE  recycle_xid'[dw'.idx] = slots'[dw'.idx][dw'.recycle].xid
    <2>1. CASE UNCHANGED <<recycle_xid, dw>>
      <3>1. dw.idx \in Logs /\ dw.recycle \in 1 .. Len(slots[dw.idx])
        BY Zenon, <1>4, <2>1, <1>t, AtLog DEF AtLogInv
      <3>2. slots'[dw.idx][dw.recycle].xid = slots[dw.idx][dw.recycle].xid
        BY <3>1, <1>g DEF Grow
      <3> QED
        BY Zenon, <1>4, <2>1, <3>2 DEF KeptInv
    <2>2. CASE Discard \/ discard_restart
      <3>1. recycle_undo_space /\ slots' = slots
        BY Zenon, <1>4, <2>2, PendingCases, DiscardStill DEF Still
      <3> QED
        BY Zenon, <1>4, <3>1, RecycleKept
    <2> QED
      BY Zenon, <2>1, <2>2, DiscardCases
  <1> QED
    BY Zenon, <1>1, <1>2, <1>3, <1>4 DEF KeptInv

\* A record of a transaction a snapshot may not see is there, or its reader
\* is told that it was forced out: discard_offset ends with slots older than
\* every snapshot, and recycle_xid names the youngest slot that is gone.
LEMMA KeptForSnapshots == IndInv /\ SpaceInv /\ KeptInv => SnapshotUndoKept
  <1> SUFFICES ASSUME IndInv, SpaceInv, KeptInv, NEW r \in Readers, NEW l \in Logs,
                      NEW i \in 1 .. Len(slots[l]), snapshot_xmin[r] # InvalidXid,
                      slots[l][i].xid >= snapshot_xmin[r], slots[l][i].start # 0,
                      NEW offset \in slots[l][i].start .. slots[l][i].end - 1
               PROVE  undolog_check_undo_record_valid(l, offset) # "DISCARD"
    BY Zenon DEF SnapshotUndoKept
  <1>t. XactType /\ UlogType /\ SlotType /\ SlotInv
    BY Zenon DEF IndInv, TypeOK
  <1>n. PICK n \in Nat : n = Len(slots[l])
    BY Zenon, <1>t, SlotAt
  <1>c. PICK c \in Nat : c = recycle_slot[l] /\ c <= n
    BY Zenon, <1>t, <1>n DEF SlotType
  <1>x. PICK x \in Nat : x = slots[l][i].xid
    BY SMTT(20), <1>t, SlotAt DEF Xids
  <1>s. PICK m \in Nat : m = snapshot_xmin[r] /\ m <= x
    BY SMTT(20), <1>t, <1>x DEF XactType, XidOrNone
  <1>o. /\ slots[l][i].start \in Nat /\ slots[l][i].end \in Nat /\ offset \in Nat
        /\ slots[l][i].start <= offset /\ offset < slots[l][i].end
    BY SMTT(20), <1>t, SlotAt, ConstantsAssumption DEF ConstantsAssumption
  <1>i. insert_offset[l] \in Nat /\ force_discard_offset[l] \in Nat /\ discard_offset[l] \in Nat
    BY <1>t, ConstantsAssumption DEF UlogType, ConstantsAssumption
  <1>p. /\ slots[l][i].end <= insert_offset[l]
        /\ \A j \in 0 .. i - 1 : SlotEnd(l, j) <= slots[l][i].start
    BY Zenon, SpaceParts DEF PlacedInv
  <1>1. offset < insert_offset[l]
    BY SMTT(20), <1>o, <1>p, <1>i
  <1>2. ASSUME offset < force_discard_offset[l]
        PROVE  offset >= discard_offset[l] /\ \E y \in OldestXminSet : recycle_xid[l] >= y
    <2>1. i <= c
      <3> SUFFICES ASSUME i > c PROVE FALSE
        BY <1>c, <1>n
      <3>1. c \in 0 .. i - 1
        BY <1>c, <1>n
      <3>2. force_discard_offset[l] = SlotEnd(l, c)
        BY Zenon, <1>c, SpaceParts DEF ForcedInv
      <3> QED
        BY SMTT(20), <3>1, <3>2, <1>p, <1>o, <1>i, <1>2
    <2>2. recycle_xid[l] >= x
      <3>1. c \in 1 .. n /\ i \in 1 .. n
        BY SMTT(20), <2>1, <1>c, <1>n
      <3>2. PICK z \in Nat : z = slots[l][c].xid
        BY <3>1, <1>n, <1>t, SlotAt DEF Xids
      <3>3. i < c => x < z
        BY Zenon, <3>1, <3>2, <1>n, <1>x, <1>t DEF SlotInv
      <3>4. x <= z
        BY SMTT(20), <3>1, <3>2, <3>3, <2>1, <1>x
      <3>5. z <= recycle_xid[l]
        BY <3>1, <3>2, <1>c DEF KeptInv
      <3>6. recycle_xid[l] \in Nat
        BY <1>t DEF UlogType, Xids
      <3> QED
        BY SMTT(20), <3>4, <3>5, <3>6
    <2>3. m \in OldestXminSet /\ recycle_xid[l] >= m
      <3>1. recycle_xid[l] \in Nat
        BY <1>t DEF UlogType, Xids
      <3>2. m \in OldestXminSet
        BY Zenon, <1>s DEF OldestXminSet
      <3> QED
        BY <3>1, <3>2, <2>2, <1>s
    <2>4. PICK k \in 0 .. n : discard_offset[l] = SlotEnd(l, k) /\ Unneeded(l, k)
      BY Zenon, <1>n DEF KeptInv
    <2>5. i > k
      <3> SUFFICES ASSUME i <= k PROVE FALSE
        BY <1>n, <2>4
      <3>1. i \in 1 .. k
        BY <1>n, <2>4
      <3>2. x < m
        BY Zenon, <3>1, <2>4, <1>x, <1>s DEF Unneeded
      <3> QED
        BY <3>2, <1>s
    <2>6. k \in 0 .. i - 1
      BY <2>4, <2>5, <1>n
    <2>7. SlotEnd(l, k) <= slots[l][i].start
      BY Zenon, <2>6, <1>p
    <2> QED
      BY SMTT(20), <2>3, <2>4, <2>7, <1>o, <1>i
  <1>3. CASE offset >= force_discard_offset[l]
    <2>1. undolog_check_undo_record_valid(l, offset) = "NORMAL"
      BY <1>1, <1>3, <1>o, <1>i DEF undolog_check_undo_record_valid
    <2> QED
      BY Zenon, <2>1
  <1>4. CASE offset < force_discard_offset[l]
    <2>1. ~(offset >= insert_offset[l]) /\ ~(offset >= force_discard_offset[l])
      BY <1>1, <1>4, <1>o, <1>i
    <2>2. undolog_check_undo_record_valid(l, offset) = "FORCE_DISCARD"
      BY Zenon, <2>1, <1>2, <1>4 DEF undolog_check_undo_record_valid
    <2> QED
      BY Zenon, <2>2
  <1> QED
    BY <1>3, <1>4, <1>o, <1>i

-----------------------------------------------------------------------------
(* The inductive invariant                                                 *)

\* A step of the discard worker keeps what the pointers and the horizons say.
LEMMA DiscardStep ==
    ASSUME IndInv, Discard \/ discard_restart
    PROVE  Pointers' /\ Globals' /\ HorizonInv' /\ PassInv' /\ AtLogInv'
  <1>s. Still
    BY Zenon, DiscardStill
  <1>1. CASE discard_loop
    BY ZenonT(30), <1>1, <1>s, LoopStep, StillPointers, StillGlobals DEF discard_loop, ulogVars
  <1>2. CASE discard_skip_log
    BY SMTT(20), <1>2, <1>s, SkipStep, StillPointers, StillGlobals DEF discard_skip_log, ulogVars
  <1>3. CASE advance_frozen_xid
    BY ZenonT(30), <1>3, <1>s, AdvanceStep, StillGlobals DEF advance_frozen_xid
  <1>4. CASE request_async_rollback
    BY SMTT(20), <1>4, <1>s, RequestStep, StillPointers, StillGlobals DEF request_async_rollback, ulogVars
  <1>5. CASE recycle_undo_space
    BY ZenonT(30), <1>5, <1>s, RecycleStep, StillGlobals DEF recycle_undo_space
  <1>6. CASE recycle_release
    BY Zenon, <1>6, <1>s, ReleaseStep, StillGlobals DEF recycle_release
  <1>7. CASE discard_publish_frozen
    BY Zenon, <1>7, <1>s, PublishFrozenStep, StillPointers DEF discard_publish_frozen, ulogVars
  <1>8. CASE discard_retry
    BY ZenonT(30), <1>8, <1>s, RetryStep, StillPointers, StillGlobals DEF discard_retry, ulogVars
  <1>9. CASE discard_publish_recycle
    BY ZenonT(30), <1>9, <1>s, PublishRecycleStep, StillPointers DEF discard_publish_recycle, ulogVars
  <1>10. CASE discard_restart
    BY Zenon, <1>10, <1>s, RestartStep, StillPointers, StillGlobals DEF discard_restart, ulogVars
  <1> QED
    BY Zenon, <1>1, <1>2, <1>3, <1>4, <1>5, <1>6, <1>7, <1>8, <1>9, <1>10 DEF Discard

\* Every step of every process keeps the invariant.
LEMMA IndStep == IndInv /\ [Next]_vars => IndInv'
  <1> SUFFICES ASSUME IndInv, [Next]_vars PROVE IndInv'
    BY Zenon
  <1>1. TypeOK' /\ XactInv' /\ SlotInv' /\ UsedInv'
    BY Zenon, TypeOKStep, XactStep, SlotStep, UsedStep
  <1>2. CtxInv'
    BY Zenon, AttachStep, WriterStep DEF CtxInv
  <1>3. /\ PointerInv' /\ RecycledSettled' /\ HorizonInv' /\ FrozenSettled'
        /\ GlobalRecycleBound' /\ PassInv' /\ AtLogInv'
    <2>1. CASE Quiet
      BY Zenon, <2>1, QuietPointers, QuietHorizons, QuietPass
    <2>2. CASE Discard \/ discard_restart
      BY Zenon, <2>2, DiscardStep DEF Pointers, Globals
    <2> QED
      BY Zenon, <2>1, <2>2, DiscardCases DEF Quiet
  <1> QED
    BY Zenon, <1>1, <1>2, <1>3 DEF IndInv

\* The invariant holds in every reachable state, whatever the number of
\* backends, readers, logs, transactions and restarts.
THEOREM Invariance == Spec => []IndInv
  BY InitInd, IndStep, PTL DEF Spec

\* Variables keep their types; in particular no slot pointer of a log runs past
\* its slots and no record ends behind the end of its log.
THEOREM TypeCorrect == Spec => []TypeOK
  <1>1. IndInv => TypeOK
    BY Zenon DEF IndInv
  <1> QED
    BY <1>1, Invariance, PTL

\* No transaction below global_frozen_xid is running or waits for rollback, so
\* a reader may skip its undo: the test of recheck_undo_recycle_xid never fails.
THEOREM FrozenSafe == Spec => []FrozenSettled
  <1>1. IndInv => FrozenSettled
    BY Zenon DEF IndInv
  <1> QED
    BY <1>1, Invariance, PTL

\* recycle_undo_space, forced or not, gives up no undo that a rollback needs.
THEOREM RecycleSafe == Spec => []RecycledSettled
  <1>1. IndInv => RecycledSettled
    BY Zenon DEF IndInv
  <1> QED
    BY <1>1, Invariance, PTL

\* global_recycle_xid stays at or below every transaction that waits for
\* rollback: the assertion at the head of execute_xheap_undoactions.
THEOREM RecycleBound == Spec => []GlobalRecycleBound
  <1>1. IndInv => GlobalRecycleBound
    BY Zenon DEF IndInv
  <1> QED
    BY <1>1, Invariance, PTL

-----------------------------------------------------------------------------
(* The refinement                                                          *)

\* The undo logs implement UndoRetention, whatever the number of backends,
\* readers, logs, transactions and restarts.
THEOREM Implementation == Spec => ImplementsRetention
  <1>1. Spec => []RequestInv
    BY RequestInit, RequestKept, Invariance, PTL DEF Spec
  <1>2. Init => ReleaseInv
    BY DEF Init, ReleaseInv, DiscardStart
  <1>3. Spec => []ReleaseInv
    BY <1>2, ReleaseKept, Invariance, PTL DEF Spec
  <1> QED
    BY <1>1, <1>3, MappedInit, StepMapped, Invariance, PTL
       DEF Spec, ImplementsRetention, R!Spec

\* In every reachable state of the undo logs, undo that is given up or lies
\* below a published horizon is owed to nobody: UndoRetention's promise, which
\* its implementations inherit.
THEOREM RetentionPromise == Spec => []R!NothingOwedGone
  <1>1. IndInv => /\ status \in [Xids -> {"unassigned", "in_progress", "committed", "aborted"}]
                  /\ WrittenParts \subseteq Logs \X Xids /\ ReleasedParts \subseteq Logs \X Xids
                  /\ global_frozen_xid \in Nat /\ global_recycle_xid \in Nat
    BY DEF IndInv, TypeOK, XactType, HorizonType, Horizon, FirstNormalXid, WrittenParts,
           ReleasedParts
  <1>2. R!Init => R!NothingOwedGone
    BY DEF R!Init, R!NothingOwedGone, R!Over, R!NothingOwed, Xids, FirstNormalXid
  <1>3. IndInv /\ R!NothingOwedGone /\ [R!Next]_R!vars => R!NothingOwedGone'
    BY Zenon, <1>1, PromiseStep
  <1> QED
    BY <1>2, <1>3, Implementation, Invariance, PTL DEF ImplementsRetention, R!Spec

-----------------------------------------------------------------------------
(* Undo space and snapshots                                                *)

\* What contiguous undo and snapshots need besides IndInv: inductive together.
LogInv == IndInv /\ RequestInv /\ UndoneInv /\ SpaceInv /\ KeptInv

\* At the start there is neither undo nor a snapshot.
LEMMA LogInit == Init => LogInv
  <1> SUFFICES ASSUME Init PROVE UndoneInv /\ KeptInv
    BY Zenon, InitInd, RequestInit, SpaceInit DEF LogInv
  <1>1. \A l \in Logs : slots[l] = << >> /\ Len(slots[l]) = 0
    BY Zenon DEF Init
  <1>2. UndoneInv
    BY SMTT(20), <1>1 DEF UndoneInv
  <1>3. \A l \in Logs : \E k \in 0 .. Len(slots[l]) :
            discard_offset[l] = SlotEnd(l, k) /\ Unneeded(l, k)
    BY SMTT(20), <1>1 DEF Init, SlotEnd, Unneeded
  <1>4. \A r \in Readers : snapshot_xmin[r] = InvalidXid
    BY Zenon DEF Init
  <1>5. \A l \in Logs : recycle_slot[l] = 0
    BY Zenon DEF Init
  <1>6. dw.pc # "release"
    BY Zenon DEF Init, DiscardStart
  <1> QED
    BY SMTT(20), <1>2, <1>3, <1>4, <1>5, <1>6 DEF KeptInv

\* Every step keeps it.
LEMMA LogStep == LogInv /\ [Next]_vars => LogInv'
  BY Zenon, IndStep, TypeOKStep, RequestKept, UndoneStep, SpaceStep, KeptStep DEF LogInv

\* For any number of backends, readers, logs and transactions: a log's slots
\* are in xid order and their undo lies one behind the other, from where
\* recycle_undo_space left off to the insert pointer, although a slot shows
\* before its pointers do and logs pass from backend to backend.
THEOREM Contiguous == Spec => []SlotsContiguous
  <1>1. LogInv => SlotsContiguous
    BY Zenon, SpaceContiguous DEF LogInv
  <1> QED
    BY <1>1, LogInit, LogStep, PTL DEF Spec

\* A reader with a snapshot finds the undo it needs, or is told by
\* undolog_check_undo_record_valid that it was forced out; it is never told
\* that the version chain simply ends.
THEOREM SnapshotSafe == Spec => []SnapshotUndoKept
  <1>1. LogInv => SnapshotUndoKept
    BY Zenon, KeptForSnapshots DEF LogInv
  <1> QED
    BY <1>1, LogInit, LogStep, PTL DEF Spec

-----------------------------------------------------------------------------
(* Horizons                                                                *)

\* global_recycle_xid never moves back, and global_frozen_xid does not in the
\* first pass of discard_worker_main's loop, although it is written without
\* being compared and a standby may push oldestXmin back.
THEOREM FirstPassForward ==
    Spec => [][/\ global_recycle_xid' >= global_recycle_xid
               /\ dw.retry = 1 => global_frozen_xid' >= global_frozen_xid]_vars
  <1>1. IndInv /\ AdvanceInv /\ [Next]_vars =>
            [/\ global_recycle_xid' >= global_recycle_xid
             /\ dw.retry = 1 => global_frozen_xid' >= global_frozen_xid]_vars
    BY Zenon, ForwardStep
  <1> QED
    BY <1>1, InitInd, IndStep, AdvanceInit, AdvanceKept, PTL DEF Spec

\* Where undo is never recycled by force there is no other pass, and neither
\* horizon ever moves back.
THEOREM HorizonsForward == TRUE \notin ForceRecycle => (Spec => HorizonsAdvance)
  <1> SUFFICES ASSUME TRUE \notin ForceRecycle PROVE Spec => HorizonsAdvance
    BY Zenon
  <1>1. IndInv /\ AdvanceInv /\ [Next]_vars =>
            [/\ global_frozen_xid' >= global_frozen_xid
             /\ global_recycle_xid' >= global_recycle_xid]_vars
    BY Zenon, ForwardStep DEF AdvanceInv
  <1> QED
    BY <1>1, InitInd, IndStep, AdvanceInit, AdvanceKept, PTL DEF Spec, HorizonsAdvance
=============================================================================
