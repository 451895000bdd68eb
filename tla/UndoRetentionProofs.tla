------------------------- MODULE UndoRetentionProofs ------------------------
(***************************************************************************)
(* The initial state, and what a writer remembers of its own slot and the  *)
(* counter of used logs, which stay true since no other backend writes to  *)
(* the log.  Then: every step of the undo logs is a step of UndoRetention  *)
(* or none, and the horizons of the first pass of a loop never go back.    *)
(***************************************************************************)
EXTENDS UndoLogStepProofs, UndoLogRetention

USE DEF InvalidXid, FirstNormalXid, NoLog

-----------------------------------------------------------------------------
(* Writers                                                                 *)

\* A log still has one writer after a step: a backend attaches only to a
\* detached log, and detaches only its own.
LEMMA AttachStep == IndInv /\ [Next]_vars => AttachInv'
  <1> SUFFICES ASSUME IndInv, [Next]_vars PROVE AttachInv'
    BY Zenon
  <1>t. XactType /\ CtxType /\ AttachInv
    BY Zenon DEF IndInv, TypeOK, CtxInv
  <1>1. ASSUME NEW b \in Backends, alloc_undo_log(b) PROVE AttachInv'
    BY <1>1, <1>t DEF alloc_undo_log, IsLeast, AttachInv, CtxType, xactVars, Logs
  <1>2. ASSUME NEW b \in Backends, cleanup_undo_log(b) PROVE AttachInv'
    BY Zenon, <1>2, <1>t DEF cleanup_undo_log, AttachInv, CtxType, xactVars
  <1>3. ASSUME NEW b \in Backends, AssignTransactionId(b) PROVE AttachInv'
    BY Zenon, <1>3, <1>t DEF AssignTransactionId, AttachInv, XactType, ctxVars
  <1>4. ASSUME NEW b \in Backends, NEW o \in {"committed", "aborted"}, EndTransaction(b, o)
        PROVE  AttachInv'
    BY Zenon, <1>4, <1>t DEF EndTransaction, AttachInv, XactType, ctxVars
  <1>5. ASSUME NEW b \in Backends, NEW size \in RecordSizes, undolog_switch(b, size)
        PROVE  AttachInv'
    BY <1>5, <1>t DEF undolog_switch, FreshLogs, AttachInv, CtxType, xactVars, Logs
  <1>6. CASE UNCHANGED <<xact, logs, attached>>
    BY Zenon, <1>6, <1>t DEF AttachInv
  <1>7. ASSUME NEW b \in Backends, NEW size \in RecordSizes, update_undolog_meta(b, size)
        PROVE  UNCHANGED <<xact, logs, attached>>
    BY Zenon, <1>7 DEF update_undolog_meta, xactVars
  <1>8. ASSUME NEW b \in Backends, release_undolog_meta(b)
        PROVE  UNCHANGED <<xact, logs, attached>>
    BY Zenon, <1>8 DEF release_undolog_meta, xactVars
  <1>9. ASSUME NEW r \in requests, execute_undo_actions(r[1], r[2])
        PROVE  UNCHANGED <<xact, logs, attached>>
    BY Zenon, <1>9 DEF execute_undo_actions, xactVars, ctxVars
  <1> QED
    BY Zenon, <1>1, <1>2, <1>3, <1>4, <1>5, <1>6, <1>7, <1>8, <1>9, WriterCases DEF ctxVars

\* What a writer remembers of its slot stays true: no other backend writes to
\* its log, and the discard worker and rollbacks change no xid.
LEMMA WriterStep ==
    ASSUME IndInv, [Next]_vars, NEW b \in Backends
    PROVE  WriterInv(b)'
  <1>t. XactType /\ CtxType /\ UlogType /\ SlotType /\ AttachInv /\ XactInv /\ SlotInv
    BY Zenon DEF IndInv, TypeOK, CtxInv
  <1>w. WriterInv(b)
    BY Zenon DEF IndInv, CtxInv
  <1>n. nextXid \in Nat /\ prev_xid[b] \in Nat /\ xact[b] \in {InvalidXid} \cup Xids
    BY <1>t DEF XactType, CtxType, Horizon, Xids
  <1>l. xact[b] # InvalidXid => logs[b] \in Logs /\ xact[b] \in Xids /\ InProgress(xact[b])
    BY Zenon, <1>t, WriterAt DEF IndInv
  <1> DEFINE l == logs[b]
             Same == /\ Len(slots'[l]) = Len(slots[l])
                     /\ \A i \in 1 .. Len(slots[l]) : slots'[l][i].xid = slots[l][i].xid
             Frame == /\ xact'[b] = xact[b] /\ logs'[b] = logs[b] /\ prev_xid'[b] = prev_xid[b]
                      /\ phase'[b] = phase[b] /\ urecptr'[b] = urecptr[b]
                      /\ nextXid' \in Nat /\ nextXid <= nextXid'
                      /\ xact[b] # InvalidXid => Same
  <1>f. ASSUME Frame PROVE WriterInv(b)'
    <2>1. xact[b] # InvalidXid => Len(slots[l]) \in Nat
      BY Zenon, <1>l, <1>t, SlotAt
    <2>2. CASE xact[b] = InvalidXid
      BY SMTT(20), <2>2, <1>f, <1>w, <1>n DEF WriterInv
    <2>3. CASE xact[b] # InvalidXid
      <3>1. Same /\ l' = l
        BY Zenon, <2>3, <1>f
      <3> QED
        BY SMTT(20), <2>1, <2>3, <3>1, <1>f, <1>w, <1>n DEF WriterInv
    <2> QED
      BY Zenon, <2>2, <2>3
  <1>1. ASSUME NEW c \in Backends, alloc_undo_log(c) PROVE WriterInv(b)'
    <2>1. UNCHANGED <<nextXid, xact, prev_xid, phase, urecptr, slots>>
      BY ZenonT(30), <1>1 DEF alloc_undo_log, xactVars, ulogVars
    <2>2. c # b => Frame
      BY <1>1, <2>1, <1>t, <1>n DEF alloc_undo_log, CtxType
    <2>3. c = b => xact[b] = InvalidXid
      BY Zenon, <1>1, <1>t DEF alloc_undo_log, AttachInv
    <2>4. c = b => WriterInv(b)'
      BY Zenon, <2>1, <2>3, <1>w DEF WriterInv
    <2> QED
      BY ZenonT(30), <2>2, <2>4, <1>f
  <1>2. ASSUME NEW c \in Backends, cleanup_undo_log(c) PROVE WriterInv(b)'
    <2>1. UNCHANGED <<nextXid, xact, phase, urecptr, slots>>
      BY ZenonT(30), <1>2 DEF cleanup_undo_log, xactVars, ulogVars
    <2>2. c # b => Frame
      BY <1>2, <2>1, <1>t, <1>n DEF cleanup_undo_log, CtxType
    <2>3. c = b => xact[b] = InvalidXid /\ prev_xid'[b] = InvalidXid
      BY Zenon, <1>2, <1>t DEF cleanup_undo_log, CtxType
    <2>4. nextXid > 0
      BY <1>t DEF XactType, Horizon
    <2>5. c = b => WriterInv(b)'
      BY Zenon, <2>1, <2>3, <2>4, <1>w DEF WriterInv
    <2> QED
      BY Zenon, <2>2, <2>5, <1>f
  <1>3. ASSUME NEW c \in Backends, AssignTransactionId(c) PROVE WriterInv(b)'
    <2>1. UNCHANGED <<logs, prev_xid, phase, urecptr, slots>> /\ nextXid' = nextXid + 1
      BY Zenon, <1>3 DEF AssignTransactionId, ctxVars, ulogVars
    <2>2. c # b => Frame
      BY <1>3, <2>1, <1>t, <1>n DEF AssignTransactionId, XactType
    <2>3. c = b => xact[b] = InvalidXid /\ xact'[b] = nextXid /\ logs[b] \in Logs
      BY Zenon, <1>3, <1>t DEF AssignTransactionId, XactType, CtxType
    <2>4. ASSUME c = b PROVE \A i \in 1 .. Len(slots[l]) : slots[l][i].xid < nextXid
      BY Zenon, <2>3, <2>4, <1>t DEF SlotInv
    <2>5. ASSUME c = b PROVE \A i \in 1 .. Len(slots[l]) : slots[l][i].xid \in Nat
      BY SMTT(20), <2>3, <2>5, <1>t, SlotAt DEF Xids
    <2>6. c = b => WriterInv(b)'
      BY <2>1, <2>3, <2>4, <2>5, <1>w, <1>n DEF WriterInv
    <2> QED
      BY Zenon, <2>2, <2>6, <1>f
  <1>4. ASSUME NEW c \in Backends, NEW o \in {"committed", "aborted"}, EndTransaction(c, o)
        PROVE  WriterInv(b)'
    <2>1. UNCHANGED <<nextXid, logs, prev_xid, phase, urecptr, slots>>
      BY ZenonT(30), <1>4 DEF EndTransaction, ctxVars, ulogVars
    <2>2. c # b => Frame
      BY <1>4, <2>1, <1>t, <1>n DEF EndTransaction, XactType
    <2>3. c = b => xact'[b] = InvalidXid /\ phase[b] = "idle"
      BY Zenon, <1>4, <1>t DEF EndTransaction, XactType
    <2>4. c = b => WriterInv(b)'
      BY Zenon, <2>1, <2>3, <1>w DEF WriterInv
    <2> QED
      BY ZenonT(30), <2>2, <2>4, <1>f
  <1>5. ASSUME NEW c \in Backends, NEW size \in RecordSizes, undolog_switch(c, size)
        PROVE  WriterInv(b)'
    <2>1. UNCHANGED <<nextXid, xact, prev_xid, urecptr, slots>>
      BY Zenon, <1>5 DEF undolog_switch, xactVars
    <2>2. c # b => Frame
      BY <1>5, <2>1, <1>t, <1>n DEF undolog_switch, CtxType
    <2>3. CASE logs' = logs /\ phase' = phase
      BY <2>1, <2>3, <1>n, <1>f
    <2>4. CASE c = b /\ ~(logs' = logs /\ phase' = phase)
      <3>1. PICK k \in FreshLogs(logs[b]) : /\ logs' = [logs EXCEPT ![b] = k]
                                            /\ phase' = [phase EXCEPT ![b] = "switched"]
        BY Zenon, <1>5, <2>4 DEF undolog_switch
      <3>2. k \in Logs /\ insert_offset[k] = 1
        BY Zenon DEF FreshLogs
      <3>3. Len(slots[k]) = 0
        BY Zenon, <3>2, <1>t DEF SlotInv
      <3>4. logs'[b] = k /\ phase'[b] = "switched" /\ xact[b] # InvalidXid
        BY <1>5, <2>4, <3>1, <1>t DEF undolog_switch, CtxType
      <3> QED
        BY <2>1, <3>3, <3>4, <1>w DEF WriterInv
    <2> QED
      BY Zenon, <2>2, <2>3, <2>4, <1>f
  <1>6. ASSUME NEW c \in Backends, NEW size \in RecordSizes, update_undolog_meta(c, size)
        PROVE  WriterInv(b)'
    <2>1. UNCHANGED <<nextXid, xact, logs>>
      BY Zenon, <1>6 DEF update_undolog_meta, xactVars
    <2>2. logs[c] \in Logs /\ xact[c] \in Xids /\ InProgress(xact[c]) /\ xact[c] # InvalidXid
      BY Zenon, <1>6, <1>t, WriterAt DEF update_undolog_meta, IndInv
    <2>3. /\ prev_xid'[c] = xact[c] /\ phase'[c] = "meta"
          /\ urecptr'[c] = insert_offset[logs[c]] /\ phase[c] \in {"idle", "switched"}
      BY Zenon, <1>6, <1>t DEF update_undolog_meta, CtxType
    <2>4. CASE c # b
      <3>1. xact[b] # InvalidXid => logs[b] # logs[c]
        BY Zenon, <2>2, <2>4, <1>l, <1>t DEF AttachInv, Logs
      <3>2. xact[b] # InvalidXid => slots'[l] = slots[l]
        BY Zenon, <1>6, <2>2, <3>1, <1>l, <1>t DEF update_undolog_meta, SlotType
      <3> QED
        <4>1. /\ prev_xid'[b] = prev_xid[b] /\ phase'[b] = phase[b]
              /\ urecptr'[b] = urecptr[b]
          BY Zenon, <1>6, <2>4, <1>t DEF update_undolog_meta, CtxType
        <4>2. nextXid' \in Nat /\ nextXid <= nextXid'
          BY <2>1, <1>n
        <4> QED
          BY Zenon, <2>1, <3>2, <4>1, <4>2, <1>f
    <2>5. CASE c = b
      <3>1. insert_offset[l] # 0
        BY <2>2, <2>5, <1>t DEF UlogType
      <3>2. Len(slots[l]) \in Nat /\ slots[l] \in Seq(Slot)
        BY Zenon, <2>2, <2>5, <1>t, SlotAt
      <3>3. xact[b] < nextXid
        BY SMTT(20), <2>2, <2>5, <1>t, <1>n DEF XactInv, InProgress, Xids
      <3>4. CASE xact[b] # prev_xid[b] \/ phase[b] = "switched"
        <4>1. NewSlot(xact[b]) \in Slot /\ NewSlot(xact[b]).xid = xact[b]
          BY <2>2, <2>5, ConstantsAssumption DEF NewSlot, Slot, ConstantsAssumption
        <4>2. slots'[l] = Append(slots[l], NewSlot(xact[b]))
          BY ZenonT(30), <1>6, <2>2, <2>5, <3>4, <1>t DEF update_undolog_meta, SlotType
        <4>3. /\ Len(slots'[l]) = Len(slots[l]) + 1
              /\ slots'[l][Len(slots[l]) + 1] = NewSlot(xact[b])
              /\ \A i \in 1 .. Len(slots[l]) : slots'[l][i] = slots[l][i]
          BY <4>1, <4>2, <3>2, SlotAppend
        <4>4. \A i \in 1 .. Len(slots[l]) : slots[l][i].xid <= xact[b]
          BY Zenon, <2>2, <2>5, <1>w DEF WriterInv
        <4>5. \A i \in 1 .. Len(slots'[l]) : slots'[l][i].xid <= xact[b]
          <5>1. \A i \in 1 .. Len(slots'[l]) : i \in 1 .. Len(slots[l]) \/ i = Len(slots[l]) + 1
            BY <4>3, <3>2
          <5> QED
            <6>1. xact[b] \in Nat
              BY <2>2, <2>5 DEF Xids
            <6>2. xact[b] <= xact[b]
              BY <6>1
            <6> QED
              BY Zenon, <5>1, <4>1, <4>3, <4>4, <6>2
        <4> QED
          BY SMTT(20), <2>1, <2>2, <2>3, <2>5, <3>1, <3>2, <3>3, <4>1, <4>3, <4>5 DEF WriterInv
      <3>5. CASE ~(xact[b] # prev_xid[b] \/ phase[b] = "switched")
        <4>1. slots' = slots
          BY Zenon, <1>6, <2>5, <3>5 DEF update_undolog_meta
        <4> QED
          BY ZenonT(30), <2>1, <2>2, <2>3, <2>5, <3>1, <3>3, <3>5, <4>1, <1>w DEF WriterInv
      <3> QED
        BY Zenon, <3>4, <3>5
    <2> QED
      BY Zenon, <2>4, <2>5
  <1>7. ASSUME NEW c \in Backends, release_undolog_meta(c) PROVE WriterInv(b)'
    <2>1. UNCHANGED <<nextXid, xact, logs, prev_xid>>
      BY Zenon, <1>7 DEF release_undolog_meta, xactVars
    <2>2. logs[c] \in Logs /\ xact[c] # InvalidXid
      BY <1>7, <1>t, MetaAt DEF release_undolog_meta, IndInv, Xids
    <2>3. CASE c # b
      <3>1. xact[b] # InvalidXid => logs[b] # logs[c]
        BY Zenon, <2>2, <2>3, <1>l, <1>t DEF AttachInv, Logs
      <3>2. xact[b] # InvalidXid => slots'[l] = slots[l]
        BY ZenonT(30), <1>7, <2>2, <3>1, <1>l, <1>t DEF release_undolog_meta, SlotType
      <3> QED
        <4>1. phase'[b] = phase[b] /\ urecptr'[b] = urecptr[b]
          BY Zenon, <1>7, <2>3, <1>t DEF release_undolog_meta, CtxType
        <4>2. prev_xid'[b] = prev_xid[b] /\ nextXid' \in Nat /\ nextXid <= nextXid'
          BY <2>1, <1>n
        <4> QED
          BY Zenon, <2>1, <3>2, <4>1, <4>2, <1>f
    <2>4. CASE c = b
      <3>1. phase'[b] = "idle" /\ phase[b] = "meta"
        BY Zenon, <1>7, <2>4, <1>t DEF release_undolog_meta, CtxType
      <3>2. Len(slots[l]) \in 1 .. Len(slots[l]) /\ Len(slots[l]) \in Nat
        BY ZenonT(30), <3>1, <2>2, <2>4, <1>t, MetaAt, SlotAt DEF IndInv
      <3>3. Len(slots'[l]) = Len(slots[l])
        BY <1>7, <2>2, <2>4, <3>2, <1>t DEF release_undolog_meta, SlotType
      <3>4. \A i \in 1 .. Len(slots[l]) : slots'[l][i].xid = slots[l][i].xid
        BY ZenonT(30), <2>2, <2>4, GrowStep DEF Grow
      <3>5. \A i \in 1 .. Len(slots'[l]) : slots'[l][i].xid = slots[l][i].xid
        BY Zenon, <3>3, <3>4
      <3> QED
        BY ZenonT(30), <2>1, <2>2, <2>4, <3>1, <3>2, <3>3, <3>5, <1>w DEF WriterInv
    <2> QED
      BY Zenon, <2>3, <2>4
  <1>8. ASSUME NEW r \in requests, execute_undo_actions(r[1], r[2]) PROVE WriterInv(b)'
    <2>1. UNCHANGED <<nextXid, xact, logs, prev_xid, phase, urecptr>>
      BY Zenon, <1>8 DEF execute_undo_actions, xactVars, ctxVars
    <2>2. r[1] \in Logs /\ r[2] \in 1 .. Len(slots[r[1]])
      BY Zenon, <1>t DEF SlotType
    <2>3. \A k \in Logs : Len(slots'[k]) = Len(slots[k])
      BY <1>8, <2>2, <1>t DEF execute_undo_actions, SlotType
    <2>4. xact[b] # InvalidXid => Same
      BY ZenonT(30), <1>l, <2>3, GrowStep DEF Grow
    <2>5. Frame
      BY <2>1, <2>4, <1>n
    <2> QED
      BY Zenon, <2>5, <1>f
  <1>9. CASE UNCHANGED <<nextXid, status, xact, ctxVars, insert_offset, slots>>
    <2>1. Frame
      BY <1>9, <1>n DEF ctxVars
    <2> QED
      BY ZenonT(30), <2>1, <1>f
  <1> QED
    BY Zenon, <1>1, <1>2, <1>3, <1>4, <1>5, <1>6, <1>7, <1>8, <1>9, WriterCases

-----------------------------------------------------------------------------
(* The counter of used logs                                                *)

\* With no log in use the counter is right.
LEMMA UsedInit == Init => UsedInv
  <1> SUFFICES ASSUME Init PROVE UsedInv
    BY Zenon
  <1>1. UsedLogs = {} /\ frozen = {} /\ undo_log_used_cout = 0
    BY Zenon DEF Init, UsedLogs
  <1> QED
    BY Zenon, <1>1, FS_EmptySet DEF UsedInv

\* The counter of used logs stays exact, and a retired log stays empty.
LEMMA UsedStep == IndInv /\ [Next]_vars => UsedInv'
  <1> SUFFICES ASSUME IndInv, [Next]_vars PROVE UsedInv'
    BY Zenon
  <1>t. CtxType /\ UlogType /\ SlotType /\ UsedInv /\ dw \in DiscardLocals
    BY Zenon DEF IndInv, TypeOK
  <1>c. LogSize \in Nat \ {0} /\ RecordSizes \subseteq 1 .. LogSize /\ NLogs \in Nat
    BY Zenon, ConstantsAssumption DEF ConstantsAssumption
  <1> DEFINE S == {l \in Logs : insert_offset[l] # 1 /\ l \notin frozen}
             T == {l \in Logs : insert_offset'[l] # 1 /\ l \notin frozen'}
             Retired == \A l \in frozen' :
                            insert_offset'[l] = LogSize + 1 /\ recycle_slot'[l] = Len(slots'[l])
  <1>o. IsFiniteSet(Logs)
    BY SMTT(20), <1>c, FS_Interval DEF Logs
  <1>s. IsFiniteSet(S) /\ Cardinality(S) \in Nat /\ undo_log_used_cout = Cardinality(S)
    <2>1. IsFiniteSet(S)
      BY Zenon, <1>o, FS_Subset
    <2> QED
      BY Zenon, <2>1, <1>t, FS_CardinalityType DEF UsedInv, UsedLogs
  <1>g. \A l \in Logs : Len(slots'[l]) = Len(slots[l]) \/
                        \E b \in Backends : NewSlotIn(b) /\ logs[b] = l
    BY Zenon, GrowStep DEF Grow
  <1>f. \A l \in frozen : l \in Logs /\ insert_offset[l] = LogSize + 1
                          /\ recycle_slot[l] = Len(slots[l])
    BY Zenon, <1>t DEF UsedInv, UlogType
  <1>q. ASSUME undo_log_used_cout' = Cardinality(T), Retired PROVE UsedInv'
    <2>1. IsFiniteSet(T)
      BY Zenon, <1>o, FS_Subset
    <2>2. T # {} => Cardinality(T) >= 1
      BY SMTT(20), <2>1, FS_CardinalityType, FS_EmptySet
    <2> QED
      BY Zenon, <1>q, <2>2 DEF UsedInv, UsedLogs
  <1>n. ASSUME \A b \in Backends, size \in RecordSizes : ~update_undolog_meta(b, size)
        PROVE  \A l \in Logs : Len(slots'[l]) = Len(slots[l])
    <2>1. ASSUME NEW b \in Backends, release_undolog_meta(b)
          PROVE  \A l \in Logs : Len(slots'[l]) = Len(slots[l])
      <3>1. logs[b] \in Logs /\ Len(slots[logs[b]]) \in 1 .. Len(slots[logs[b]])
        BY Zenon, <2>1, <1>t, MetaAt DEF IndInv, TypeOK, release_undolog_meta
      <3> QED
        BY SMTT(20), <2>1, <3>1, <1>t DEF release_undolog_meta, SlotType
    <2>2. ASSUME NEW r \in requests, execute_undo_actions(r[1], r[2])
          PROVE  \A l \in Logs : Len(slots'[l]) = Len(slots[l])
      <3>1. r[1] \in Logs /\ r[2] \in 1 .. Len(slots[r[1]])
        BY Zenon, <1>t DEF SlotType
      <3> QED
        BY SMTT(20), <2>2, <3>1, <1>t DEF execute_undo_actions, SlotType
    <2>3. ASSUME NEW b \in Backends, NEW size \in RecordSizes, undolog_switch(b, size)
          PROVE  slots' = slots
      BY Zenon, <2>3 DEF undolog_switch
    <2> QED
      BY Zenon, <1>n, <2>1, <2>2, <2>3, SlotCases DEF Write
  <1>1. CASE UNCHANGED <<insert_offset, frozen, undo_log_used_cout, recycle_slot>>
    <2>1. \A b \in Backends, size \in RecordSizes : ~update_undolog_meta(b, size)
      <3> SUFFICES ASSUME NEW b \in Backends, NEW size \in RecordSizes,
                          update_undolog_meta(b, size)
                   PROVE  FALSE
        BY Zenon
      <3>1. logs[b] \in Logs
        BY Zenon, <1>t, WriterAt DEF IndInv, TypeOK, update_undolog_meta
      <3>2. insert_offset'[logs[b]] = insert_offset[logs[b]] + size
        BY Zenon, <3>1, <1>t DEF update_undolog_meta, UlogType
      <3> QED
        BY SMTT(20), <1>1, <3>1, <3>2, <1>c, <1>t DEF UlogType
    <2>2. T = S /\ Retired
      BY Zenon, <1>1, <2>1, <1>n, <1>f
    <2> QED
      BY Zenon, <1>1, <2>2, <1>s, <1>q
  <1>2. ASSUME NEW b \in Backends, NEW size \in RecordSizes, undolog_switch(b, size)
        PROVE  UsedInv'
    <2>1. logs[b] \in Logs
      BY Zenon, <1>2, <1>t, WriterAt DEF IndInv, TypeOK, undolog_switch
    <2>2. /\ insert_offset' = [insert_offset EXCEPT ![logs[b]] = LogSize + 1]
          /\ UNCHANGED <<frozen, recycle_slot, undo_log_used_cout, slots>>
          /\ insert_offset[logs[b]] + size > LogSize + 1
      BY Zenon, <1>2 DEF undolog_switch, check_need_switch_undolog
    <2>3. insert_offset[logs[b]] # 1 /\ LogSize + 1 # 1
      BY SMTT(20), <2>1, <2>2, <1>c, <1>t DEF UlogType
    <2>4. T = S
      BY Zenon, <2>1, <2>2, <2>3, <1>t DEF UlogType
    <2>5. Retired
      BY Zenon, <2>1, <2>2, <1>f, <1>t DEF UlogType
    <2> QED
      BY ZenonT(30), <2>2, <2>4, <2>5, <1>s, <1>q
  <1>3. ASSUME NEW b \in Backends, NEW size \in RecordSizes, update_undolog_meta(b, size)
        PROVE  UsedInv'
    <2> DEFINE l == logs[b]
    <2>1. l \in Logs
      BY Zenon, <1>3, <1>t, WriterAt DEF IndInv, TypeOK, update_undolog_meta
    <2>2. /\ insert_offset' = [insert_offset EXCEPT ![l] = insert_offset[l] + size]
          /\ UNCHANGED <<frozen, recycle_slot>>
          /\ ~(insert_offset[l] + size > LogSize + 1)
          /\ undo_log_used_cout' = undo_log_used_cout + (IF insert_offset[l] = 1 THEN 1 ELSE 0)
      BY Zenon, <1>3 DEF update_undolog_meta, check_need_switch_undolog
    <2>3. l \notin frozen /\ insert_offset[l] + size # 1
      BY SMTT(20), <2>1, <2>2, <1>c, <1>f, <1>t DEF UlogType
    <2>4. \A k \in Logs : k # l => slots'[k] = slots[k]
      BY Zenon, <1>3, <2>1, <1>t DEF update_undolog_meta, SlotType
    <2>5. Retired
      <3> SUFFICES ASSUME NEW k \in frozen
                   PROVE  insert_offset'[k] = LogSize + 1 /\ recycle_slot'[k] = Len(slots'[k])
        BY Zenon, <2>2
      <3>1. k \in Logs /\ k # l
        BY Zenon, <2>3, <1>f
      <3> QED
        BY ZenonT(30), <3>1, <2>1, <2>2, <2>4, <1>f, <1>t DEF UlogType
    <2>6. CASE insert_offset[l] = 1
      <3>1. T = S \cup {l} /\ l \notin S
        BY Zenon, <2>1, <2>2, <2>3, <2>6, <1>t DEF UlogType
      <3>2. Cardinality(T) = Cardinality(S) + 1
        BY ZenonT(30), <3>1, <1>s, FS_AddElement
      <3> QED
        BY Zenon, <3>2, <2>2, <2>5, <2>6, <1>s, <1>q
    <2>7. CASE insert_offset[l] # 1
      <3>1. T = S
        BY Zenon, <2>1, <2>2, <2>3, <2>7, <1>t DEF UlogType
      <3> QED
        <4>1. undo_log_used_cout' = undo_log_used_cout + 0 /\ undo_log_used_cout \in Nat
          BY Zenon, <2>2, <2>7, <1>s
        <4>2. undo_log_used_cout' = undo_log_used_cout
          BY SMTT(20), <4>1
        <4>3. undo_log_used_cout' = Cardinality(T)
          BY Zenon, <4>2, <3>1, <1>s
        <4> QED
          BY Zenon, <4>3, <2>5, <1>q
    <2> QED
      BY Zenon, <2>6, <2>7
  <1>4. ASSUME NEW l \in Logs, checkpoint_undo_logs(l) PROVE UsedInv'
    <2>1. /\ UNCHANGED <<insert_offset, recycle_slot, slots>> /\ frozen' = frozen \cup {l}
          /\ insert_offset[l] > LogSize /\ Len(slots[l]) = recycle_slot[l] /\ l \notin frozen
          /\ undo_log_used_cout' = undo_log_used_cout - 1
      BY Zenon, <1>4 DEF checkpoint_undo_logs
    <2>2. insert_offset[l] = LogSize + 1 /\ insert_offset[l] # 1
      BY SMTT(20), <2>1, <1>c, <1>t DEF UlogType
    <2>3. Retired
      BY Zenon, <2>1, <2>2, <1>f
    <2>4. T = S \ {l} /\ l \in S
      BY Zenon, <2>1, <2>2
    <2>5. Cardinality(T) = Cardinality(S) - 1
      BY ZenonT(30), <2>4, <1>s, FS_RemoveElement
    <2> QED
      BY Zenon, <2>1, <2>3, <2>5, <1>s, <1>q
  <1>5. ASSUME recycle_release PROVE UsedInv'
    <2>1. /\ UNCHANGED <<insert_offset, frozen, slots, undo_log_used_cout>>
          /\ recycle_slot' = [recycle_slot EXCEPT ![dw.idx] = dw.recycle] /\ dw.pc = "release"
      BY Zenon, <1>5 DEF recycle_release
    <2>2. dw.idx \in Logs /\ dw.idx \notin frozen
      <3>1. dw.idx < NLogs /\ dw.idx \notin frozen
        BY Zenon, <2>1 DEF IndInv, AtLogInv
      <3>2. dw.idx \in 0 .. NLogs
        BY Zenon, <1>t, LocalsAt
      <3> QED
        BY SMTT(20), <3>1, <3>2, <1>c DEF Logs
    <2>3. Retired
      BY Zenon, <2>1, <2>2, <1>f, <1>t DEF SlotType
    <2>4. T = S
      BY Zenon, <2>1
    <2> QED
      BY Zenon, <2>1, <2>3, <2>4, <1>s, <1>q
  <1> QED
    BY Zenon, <1>1, <1>2, <1>3, <1>4, <1>5, UsedCases

-----------------------------------------------------------------------------
(* The initial state                                                       *)

\* The initial state, with no transaction and no undo, has the invariant.
LEMMA InitInd == Init => IndInv
  <1> SUFFICES ASSUME Init PROVE IndInv
    BY Zenon
  <1>c. NLogs \in Nat /\ LogSize \in Nat \ {0} /\ MaxXid \in Nat /\ MaxXid >= 3
    BY Zenon, ConstantsAssumption DEF ConstantsAssumption
  <1>e. \A l \in Logs : slots[l] = <<>> /\ Len(slots[l]) = 0
    BY Zenon DEF Init
  <1>1. XactType /\ CtxType /\ UlogType /\ HorizonType
    BY SMTT(20), <1>c DEF Init, XactType, CtxType, UlogType, HorizonType, Horizon, XidOrNone, Xids
  <1>2. SlotType
    BY DEF Init, SlotType
  <1>3. dw \in DiscardLocals
    <2>1. dw = DiscardStart(InvalidXid, InvalidXid, FALSE, 0)
      BY Zenon DEF Init
    <2>2. InvalidXid \in XidOrNone /\ FALSE \in BOOLEAN /\ 0 \in Nat
      BY Zenon DEF XidOrNone
    <2> QED
      BY ZenonT(30), <2>1, <2>2, StartType
  <1>4. XactInv /\ SlotInv /\ AttachInv
    BY SMTT(20), <1>c, <1>e DEF Init, XactInv, SlotInv, AttachInv, InProgress, Xids
  <1>5. \A b \in Backends : WriterInv(b)
    BY <1>e DEF Init, WriterInv
  <1>6. UsedInv
    BY Zenon, UsedInit
  <1>7. PointerInv /\ RecycledSettled
    BY DEF Init, PointerInv, RecycledSettled
  <1>8. FrozenSettled /\ GlobalRecycleBound
    BY SMTT(20), <1>e DEF Init, FrozenSettled, GlobalRecycleBound, InProgress
  <1>9. /\ dw.pc = "loop" /\ dw.oldestXmin = 3 /\ dw.frozenXid = 3
        /\ dw.oldestFrozenXidInUndo = 3 /\ dw.idx = 0 /\ dw.isAnyLogUsed = FALSE
        /\ dw.recycleXids = {} /\ dw.lastForceAdvanceXid = 0
    BY Zenon DEF Init, DiscardStart
  <1>10. HorizonInv
    BY SMTT(20), <1>c, <1>9 DEF Init, HorizonInv, AllOver, InProgress, Xids
  <1>11. PassInv /\ AtLogInv
    BY Zenon, <1>9 DEF PassInv, InLogs, AtLogInv
  <1> QED
    BY SMTT(20), <1>1, <1>2, <1>3, <1>4, <1>5, <1>6, <1>7, <1>8, <1>10, <1>11 DEF IndInv, TypeOK, CtxInv

HIDE DEF InvalidXid, FirstNormalXid, NoLog

-----------------------------------------------------------------------------
(* Requests                                                                *)

\* No request exists when the server starts.
LEMMA RequestInit == Init => RequestInv
  BY DEF Init, RequestInv, DiscardStart

\* What aborted stays aborted, and a slot keeps its transaction.
LEMMA AbortedStays ==
    ASSUME IndInv, [Next]_vars, NEW l \in Logs, NEW i \in 1 .. Len(slots[l]),
           status[slots[l][i].xid] = "aborted"
    PROVE  i \in 1 .. Len(slots'[l]) /\ status'[slots'[l][i].xid] = "aborted"
  <1>t. XactType /\ XactInv /\ SlotType
    BY Zenon DEF IndInv, TypeOK
  <1>x. slots[l][i].xid \in Xids
    BY Zenon, <1>t, SlotAt
  <1>g. i \in 1 .. Len(slots'[l]) /\ slots'[l][i].xid = slots[l][i].xid
    BY GrowStep DEF Grow
  <1>1. ASSUME NEW b \in Backends, AssignTransactionId(b)
        PROVE  status'[slots[l][i].xid] = "aborted"
    <2>1. nextXid \in Xids /\ status[nextXid] = "unassigned"
      BY <1>1, <1>t DEF AssignTransactionId, XactType, XactInv, Horizon, Xids
    <2> QED
      BY Zenon, <1>1, <2>1, <1>t, <1>x DEF AssignTransactionId, XactType
  <1>2. ASSUME NEW b \in Backends, NEW o \in {"committed", "aborted"}, EndTransaction(b, o)
        PROVE  status'[slots[l][i].xid] = "aborted"
    <2>1. xact[b] \in Xids /\ status[xact[b]] = "in_progress"
      BY Zenon, <1>2, <1>t DEF EndTransaction, XactType, XactInv, InProgress
    <2> QED
      BY Zenon, <1>2, <2>1, <1>t, <1>x DEF EndTransaction, XactType
  <1> QED
    BY Zenon, <1>1, <1>2, <1>x, <1>g, XactCases

\* A slot of a transaction that is over and did not commit has aborted.
LEMMA AbortedAt ==
    ASSUME IndInv, NEW l \in Logs, NEW i \in 1 .. Len(slots[l]),
           ~InProgress(slots[l][i].xid), ~DidCommit(slots[l][i].xid)
    PROVE  status[slots[l][i].xid] = "aborted"
  <1>t. XactType /\ XactInv /\ SlotType /\ SlotInv
    BY Zenon DEF IndInv, TypeOK
  <1>x. slots[l][i].xid \in Xids /\ slots[l][i].xid < nextXid
    BY Zenon, <1>t, SlotAt DEF SlotInv
  <1>1. status[slots[l][i].xid] # "unassigned"
    BY <1>t, <1>x DEF XactInv, XactType, Horizon, Xids
  <1> QED
    BY Zenon, <1>t, <1>x, <1>1 DEF XactType, InProgress, DidCommit

\* advance_frozen_xid stops for a rollback at an aborted transaction only.
LEMMA PendingAborted ==
    ASSUME IndInv, advance_frozen_xid, dw'.pc = "request"
    PROVE  /\ dw'.idx \in Logs /\ dw'.pending \in 1 .. Len(slots[dw'.idx])
           /\ status[slots[dw'.idx][dw'.pending].xid] = "aborted"
  <1> DEFINE l == dw.idx
             first == Larger(frozen_slot[l], recycle_slot[l])
  <1>t. SlotType /\ dw \in DiscardLocals /\ HorizonInv
    BY Zenon DEF IndInv, TypeOK
  <1>l. l \in Logs
    BY Zenon, <1>t, IdxAt DEF advance_frozen_xid
  <1>f. first \in Nat /\ Len(slots[l]) \in Nat
    BY Zenon, <1>t, <1>l, SlotAt DEF SlotType, Larger
  <1>1. PICK stop \in first .. Len(slots[l]) :
            /\ stop < Len(slots[l]) /\ NeedsRollback(slots[l][stop + 1], dw.oldestXmin)
            /\ dw' = [dw EXCEPT !.pc = "request", !.pending = stop + 1,
                                !.frozenXid = slots[l][stop + 1].xid,
                                !.allocate = Len(slots[l])]
    <2>1. PICK stop \in first .. Len(slots[l]) :
              LET s == slots[l][stop + 1]
                  rollback == stop < Len(slots[l]) /\ s.start # 0
                                  /\ NeedsRollback(s, dw.oldestXmin)
              IN  dw' = [dw EXCEPT
                            !.pc = IF rollback THEN "request" ELSE "recycle",
                            !.pending = IF rollback THEN stop + 1 ELSE 0,
                            !.frozenXid = IF rollback THEN s.xid ELSE dw.oldestXmin,
                            !.allocate = Len(slots[l])]
      BY ZenonT(30) DEF advance_frozen_xid
    <2> DEFINE s == slots[l][stop + 1]
               rollback == stop < Len(slots[l]) /\ s.start # 0 /\ NeedsRollback(s, dw.oldestXmin)
    <2>2. rollback
      BY Zenon, <2>1, <1>t DEF DiscardLocals
    <2> QED
      BY ZenonT(30), <2>1, <2>2
  <1>2. dw'.idx = l /\ dw'.pending = stop + 1
    BY Zenon, <1>1, <1>t DEF DiscardLocals
  <1>3. stop + 1 \in 1 .. Len(slots[l])
    BY <1>1, <1>f
  <1>4. slots[l][stop + 1].xid \in Xids
    BY Zenon, <1>3, <1>l, <1>t, SlotAt
  <1>5. ~InProgress(slots[l][stop + 1].xid) /\ ~DidCommit(slots[l][stop + 1].xid)
    BY Zenon, <1>1, <1>4, <1>t DEF NeedsRollback, xstore_transaction_id_did_commit, HorizonInv, AllOver
  <1> QED
    BY Zenon, <1>2, <1>3, <1>5, <1>l, AbortedAt

\* A forced pass asks for the rollback of an aborted transaction only.
LEMMA BlockedAborted ==
    ASSUME IndInv, recycle_undo_space, NEW r \in requests', r \notin requests
    PROVE  r[1] \in Logs /\ r[2] \in 1 .. Len(slots[r[1]]) /\ status[slots[r[1]][r[2]].xid] = "aborted"
  <1> DEFINE l == dw.idx
             first == recycle_slot[l]
  <1>a. dw.pc = "recycle"
    BY Zenon DEF recycle_undo_space
  <1>l. /\ l \in Logs /\ dw.allocate \in Nat /\ dw.allocate <= Len(slots[l])
        /\ first \in Nat /\ Len(slots[l]) \in Nat
    BY Zenon, <1>a, AtLog
  <1>1. PICK last \in first .. dw.allocate :
            IF /\ last < dw.allocate /\ SamePage(first, last)
               /\ ForceCandidate(slots[l][last + 1]) /\ ~Recyclable(slots[l][last + 1])
            THEN register_rollback_req(l, last + 1) ELSE UNCHANGED requests
    BY ZenonT(30) DEF recycle_undo_space
  <1>2. /\ last < dw.allocate /\ ForceCandidate(slots[l][last + 1])
        /\ ~Recyclable(slots[l][last + 1]) /\ r = <<l, last + 1>>
    BY Zenon, <1>1 DEF register_rollback_req
  <1>3. last + 1 \in 1 .. Len(slots[l])
    BY <1>1, <1>2, <1>l
  <1>4. ~InProgress(slots[l][last + 1].xid) /\ ~DidCommit(slots[l][last + 1].xid)
    BY Zenon, <1>2 DEF ForceCandidate, Recyclable, xstore_transaction_id_is_in_progress,
                xstore_transaction_id_did_commit
  <1> QED
    BY Zenon, <1>2, <1>3, <1>4, <1>l, AbortedAt

\* Which actions may disturb the table of requests or the worker's pending one.
LEMMA RequestCases ==
    [Next]_vars =>
        \/ UNCHANGED <<requests, dw>>
        \/ requests' \subseteq requests /\ dw' = dw
        \/ Discard
        \/ discard_restart
  BY ZenonT(30) DEF Next, Backend, Write, vars, ulogVars, globalVars, alloc_undo_log,
         AssignTransactionId, EndTransaction, cleanup_undo_log, undolog_switch,
         update_undolog_meta, release_undolog_meta,
         GetSnapshotData, ReleaseSnapshot, StandbyFeedback, checkpoint_undo_logs,
         execute_undo_actions

\* What is requested has aborted, whatever happens between the worker's look
\* at the slot and its request.
LEMMA RequestKept == IndInv /\ RequestInv /\ [Next]_vars => RequestInv'
  <1> SUFFICES ASSUME IndInv, RequestInv, [Next]_vars PROVE RequestInv'
    BY Zenon
  <1>t. SlotType /\ dw \in DiscardLocals
    BY Zenon DEF IndInv, TypeOK
  <1>r. \A r \in requests : status'[slots'[r[1]][r[2]].xid] = "aborted"
    BY ZenonT(30), <1>t, AbortedStays DEF SlotType, RequestInv
  <1>p. dw.pc = "request" =>
            /\ dw.idx \in Logs /\ dw.pending \in 1 .. Len(slots[dw.idx])
            /\ status'[slots'[dw.idx][dw.pending].xid] = "aborted"
    <2> SUFFICES ASSUME dw.pc = "request"
                 PROVE  /\ dw.idx \in Logs /\ dw.pending \in 1 .. Len(slots[dw.idx])
                        /\ status'[slots'[dw.idx][dw.pending].xid] = "aborted"
      BY Zenon
    <2>1. dw.idx \in Logs /\ dw.pending \in 1 .. Len(slots[dw.idx])
      BY Zenon, AtLog DEF IndInv, AtLogInv
    <2> QED
      BY Zenon, <2>1, AbortedStays DEF RequestInv
  <1>1. CASE requests' \subseteq requests /\ dw' = dw
    BY Zenon, <1>1, <1>r, <1>p DEF RequestInv
  <1>2. CASE Discard \/ discard_restart
    <2>s. status' = status /\ slots' = slots
      BY Zenon, <1>2, DiscardStill DEF Still
    <2>1. dw'.pc = "request" => status'[slots'[dw'.idx][dw'.pending].xid] = "aborted"
      BY Zenon, <1>2, <2>s, PendingCases, PendingAborted
    <2>2. \A r \in requests' : status'[slots'[r[1]][r[2]].xid] = "aborted"
      <3>1. CASE request_async_rollback
        <4>1. dw.pc = "request" /\ \A r \in requests' : r \in requests \/ r = <<dw.idx, dw.pending>>
          BY Zenon, <3>1 DEF request_async_rollback, register_rollback_req
        <4> QED
          BY <4>1, <1>r, <1>p
      <3>2. CASE recycle_undo_space
        BY Zenon, <3>2, <2>s, <1>r, BlockedAborted
      <3>3. CASE requests' = requests
        BY Zenon, <3>3, <1>r
      <3>4. request_async_rollback \/ recycle_undo_space \/ requests' = requests
        BY ZenonT(30), <1>2 DEF Discard, discard_loop, discard_skip_log, advance_frozen_xid, recycle_release,
                    discard_publish_frozen, discard_retry, discard_publish_recycle,
                    discard_restart
      <3> QED
        BY Zenon, <3>1, <3>2, <3>3, <3>4
    <2> QED
      BY Zenon, <2>1, <2>2 DEF RequestInv
  <1> QED
    BY Zenon, <1>1, <1>2, RequestCases

\* The pointer a batch of slots moves to is not behind the one that is there.
LEMMA ReleaseKept == IndInv /\ ReleaseInv /\ [Next]_vars => ReleaseInv'
  <1> SUFFICES ASSUME IndInv, ReleaseInv, [Next]_vars, dw'.pc = "release"
               PROVE  recycle_slot'[dw'.idx] <= dw'.recycle
    BY Zenon DEF ReleaseInv
  <1>1. CASE UNCHANGED <<recycle_slot, dw>>
    BY Zenon, <1>1 DEF ReleaseInv
  <1>2. CASE Discard \/ discard_restart
    <2>t. dw \in DiscardLocals
      BY Zenon DEF IndInv, TypeOK
    <2>1. recycle_undo_space
      BY Zenon, <1>2, PendingCases
    <2>2. dw.pc = "recycle" /\ recycle_slot' = recycle_slot
      BY Zenon, <2>1 DEF recycle_undo_space
    <2>3. dw.idx \in Logs /\ recycle_slot[dw.idx] \in Nat /\ dw.allocate \in Nat
      BY Zenon, <2>2, AtLog
    <2>4. PICK last \in recycle_slot[dw.idx] .. dw.allocate :
              dw' = IF last = recycle_slot[dw.idx] THEN LogDone
                    ELSE [dw EXCEPT !.pc = "release", !.recycle = last]
      BY ZenonT(30), <2>1 DEF recycle_undo_space
    <2>5. dw'.idx = dw.idx /\ dw'.recycle = last
      BY Zenon, <2>4, <2>t DEF LogDone, DiscardLocals
    <2> QED
      BY <2>2, <2>3, <2>4, <2>5
  <1> QED
    BY Zenon, <1>1, <1>2, DiscardCases

-----------------------------------------------------------------------------
(* The mapping                                                             *)

\* No slots, no parts.
LEMMA MappedInit == Init => R!Init
  <1> SUFFICES ASSUME Init PROVE R!Init
    BY Zenon
  <1>1. \A l \in Logs : Len(slots[l]) = 0 /\ recycle_slot[l] = 0
    BY Zenon DEF Init
  <1>2. \A p \in Logs \X Xids : ~HasSlot(p, Len(slots[p[1]])) /\ ~HasSlot(p, recycle_slot[p[1]])
    BY <1>1 DEF HasSlot
  <1>3. WrittenParts = {} /\ ReleasedParts = {}
    BY Zenon, <1>2 DEF WrittenParts, ReleasedParts
  <1>4. UndoneParts = {}
    BY <1>1 DEF UndoneParts
  <1> QED
    BY Zenon, <1>3, <1>4 DEF R!Init, Init

\* A settled slot's part is not owed.
LEMMA NotOwed ==
    ASSUME SlotType, NEW l \in Logs, NEW i \in 1 .. Len(slots[l]), Settled(slots[l][i])
    PROVE  ~R!Owed(<<l, slots[l][i].xid>>)
  <1>1. slots[l][i].xid \in Xids
    BY Zenon, SlotAt
  <1>2. slots[l][i].info = "ROLLBACK" => <<l, slots[l][i].xid>> \in UndoneParts
    BY Zenon, <1>1 DEF UndoneParts
  <1> QED
    BY Zenon, <1>2 DEF R!Owed, Settled, DidCommit

\* Each part is there for a slot.
LEMMA PartSlot ==
    ASSUME SlotType, NEW p \in WrittenParts
    PROVE  /\ p[1] \in Logs /\ p[2] \in Xids /\ p = <<p[1], p[2]>>
           /\ \E i \in 1 .. Len(slots[p[1]]) : slots[p[1]][i].xid = p[2]
  BY DEF WrittenParts, HasSlot

\* While no slot appears the parts are the same, and what is released stays
\* so while the recycle pointers stand.
LEMMA SameParts ==
    ASSUME IndInv, [Next]_vars
    PROVE  /\ (\A l \in Logs : Len(slots'[l]) = Len(slots[l])) => WrittenParts' = WrittenParts
           /\ recycle_slot' = recycle_slot => ReleasedParts' = ReleasedParts
  <1>t. SlotType
    BY Zenon DEF IndInv, TypeOK
  <1>g. \A l \in Logs : \A i \in 1 .. Len(slots[l]) : slots'[l][i].xid = slots[l][i].xid
    BY Zenon, GrowStep DEF Grow
  <1>1. ASSUME \A l \in Logs : Len(slots'[l]) = Len(slots[l])
        PROVE  WrittenParts' = WrittenParts
    BY SMTT(20), <1>1, <1>g DEF WrittenParts, HasSlot
  <1>2. ASSUME recycle_slot' = recycle_slot PROVE ReleasedParts' = ReleasedParts
    <2>1. \A l \in Logs : recycle_slot[l] \in Nat /\ Len(slots[l]) \in Nat
                          /\ recycle_slot[l] <= Len(slots[l])
      BY Zenon, <1>t, SlotAt DEF SlotType
    <2>2. \A l \in Logs : \A i \in 1 .. recycle_slot[l] : slots'[l][i].xid = slots[l][i].xid
      BY <2>1, <1>g
    <2> QED
      BY <1>2, <2>2 DEF ReleasedParts, HasSlot
  <1> QED
    BY Zenon, <1>1, <1>2

\* A new slot is an abstract write of its running transaction.
LEMMA NewSlotMapped ==
    ASSUME IndInv, [Next]_vars, NEW b \in Backends, NewSlotIn(b),
           UNCHANGED <<recycle_slot, globalVars>>
    PROVE  R!Write(logs[b], xact[b])
  <1> DEFINE l == logs[b]
             x == xact[b]
             n == Len(slots[l])
  <1>t. SlotType
    BY Zenon DEF IndInv, TypeOK
  <1>l. l \in Logs /\ x \in Xids /\ status[x] = "in_progress" /\ status' = status
    BY Zenon DEF NewSlotIn, InProgress, xactVars
  <1>n. /\ n \in Nat /\ Len(slots'[l]) = n + 1
        /\ slots'[l][n + 1].xid = x /\ slots'[l][n + 1].info # "ROLLBACK"
        /\ \A i \in 1 .. n : slots'[l][i] = slots[l][i]
        /\ \A k \in Logs : k # l => slots'[k] = slots[k]
    <2>1. n \in Nat
      BY Zenon, <1>l, <1>t, SlotAt
    <2>2. NewSlot(x).xid = x /\ NewSlot(x).info # "ROLLBACK"
      BY Zenon DEF NewSlot
    <2> QED
      BY Zenon, <2>1, <2>2, <1>t, NewSlotAt
  <1>i. \A i : i \in 1 .. n + 1 <=> i \in 1 .. n \/ i = n + 1
    BY <1>n
  <1>1. WrittenParts' = WrittenParts \cup {<<l, x>>}
    <2>1. ASSUME NEW p \in Logs \X Xids
          PROVE  HasSlot(p, Len(slots[p[1]]))' <=> HasSlot(p, Len(slots[p[1]])) \/ p = <<l, x>>
      <3>0. p[1] \in Logs /\ p[2] \in Xids /\ p = <<p[1], p[2]>>
        OBVIOUS
      <3>1. CASE p[1] # l
        BY <3>0, <3>1, <1>n DEF HasSlot
      <3>2. CASE p[1] = l
        <4>1. HasSlot(p, Len(slots[p[1]]))' <=> \E i \in 1 .. n + 1 : slots'[l][i].xid = p[2]
          BY Zenon, <3>2, <1>n DEF HasSlot
        <4>2. (\E i \in 1 .. n + 1 : slots'[l][i].xid = p[2])
                  <=> (\E i \in 1 .. n : slots[l][i].xid = p[2]) \/ p[2] = x
          BY ZenonT(30), <1>n, <1>i
        <4>3. p = <<l, x>> <=> p[2] = x
          BY <3>0, <3>2
        <4> QED
          BY Zenon, <4>1, <4>2, <4>3, <3>2 DEF HasSlot
      <3> QED
        BY Zenon, <3>1, <3>2
    <2>2. <<l, x>> \in Logs \X Xids
      BY Zenon, <1>l
    <2> QED
      BY Zenon, <2>1, <2>2 DEF WrittenParts
  <1>2. UndoneParts' = UndoneParts
    <2>1. ASSUME NEW p \in Logs \X Xids
          PROVE  (\E i \in 1 .. Len(slots'[p[1]]) :
                      slots'[p[1]][i].xid = p[2] /\ slots'[p[1]][i].info = "ROLLBACK")
                 <=> (\E i \in 1 .. Len(slots[p[1]]) :
                          slots[p[1]][i].xid = p[2] /\ slots[p[1]][i].info = "ROLLBACK")
      <3>1. CASE p[1] # l
        BY <3>1, <1>n
      <3>2. CASE p[1] = l
        BY ZenonT(30), <3>2, <1>n, <1>i
      <3> QED
        BY Zenon, <3>1, <3>2
    <2> QED
      BY Zenon, <2>1 DEF UndoneParts
  <1>3. ReleasedParts' = ReleasedParts
    BY Zenon, SameParts
  <1> QED
    BY Zenon, <1>1, <1>2, <1>3, <1>l DEF R!Write, globalVars

\* Slots that keep xid and flag keep the parts.
LEMMA SameUndone ==
    ASSUME \A l \in Logs : Len(slots'[l]) = Len(slots[l]),
           \A l \in Logs : \A i \in 1 .. Len(slots[l]) :
               slots'[l][i].xid = slots[l][i].xid /\ slots'[l][i].info = slots[l][i].info
    PROVE  UndoneParts' = UndoneParts
  BY DEF UndoneParts

\* A step of a writer is an abstract write, or none.
LEMMA WriteMapped ==
    ASSUME IndInv, [Next]_vars, NEW b \in Backends, Write(b)
    PROVE  (\E l \in Logs, x \in Xids : R!Write(l, x)) \/ UNCHANGED R!vars
  <1>t. XactType /\ CtxType /\ UlogType /\ SlotType /\ CtxInv /\ XactInv
    BY Zenon DEF IndInv, TypeOK
  <1>u. UNCHANGED <<recycle_slot, globalVars, status>>
    BY ZenonT(30) DEF Write, undolog_switch, update_undolog_meta, release_undolog_meta, xactVars
  <1>s. ASSUME \A l \in Logs : Len(slots'[l]) = Len(slots[l]), UndoneParts' = UndoneParts
        PROVE  UNCHANGED R!vars
    BY Zenon, <1>s, <1>u, SameParts DEF R!vars, globalVars
  <1>e. slots' = slots => UNCHANGED R!vars
    BY Zenon, <1>s DEF UndoneParts
  <1>1. ASSUME NEW size \in RecordSizes, undolog_switch(b, size) PROVE slots' = slots
    BY Zenon, <1>1 DEF undolog_switch
  <1>2. ASSUME NEW size \in RecordSizes, update_undolog_meta(b, size)
        PROVE  slots' = slots \/ NewSlotIn(b)
    <2>1. logs[b] \in Logs /\ xact[b] \in Xids /\ InProgress(xact[b])
      BY Zenon, <1>2, <1>t, WriterAt DEF update_undolog_meta
    <2> QED
      BY Zenon, <1>2, <2>1 DEF update_undolog_meta, NewSlotIn
  <1>3. ASSUME release_undolog_meta(b) PROVE UNCHANGED R!vars
    <2> DEFINE l == logs[b]
               i == Len(slots[l])
               s == update_undo_slot(slots[l][i], urecptr[b], insert_offset[l])
    <2>1. l \in Logs /\ i \in 1 .. Len(slots[l])
      BY Zenon, <1>3, <1>t, MetaAt DEF release_undolog_meta
    <2>2. slots[l][i] \in Slot /\ slots[l] \in Seq(Slot)
      BY Zenon, <2>1, <1>t, SlotAt
    <2>3. urecptr[b] \in 0 .. LogSize /\ insert_offset[l] \in 0 .. LogSize + 1
      BY <2>1, <1>t DEF CtxType, UlogType
    <2>4. s \in Slot /\ s.xid = slots[l][i].xid /\ s.info = slots[l][i].info
      BY ZenonT(30), <2>2, <2>3 DEF update_undo_slot, Slot
    <2>5. slots' = [slots EXCEPT ![l] = [slots[l] EXCEPT ![i] = s]]
      BY Zenon, <1>3 DEF release_undolog_meta
    <2>6. slots'[l] = [slots[l] EXCEPT ![i] = s] /\ \A k \in Logs : k # l => slots'[k] = slots[k]
      BY Zenon, <2>1, <2>5, <1>t DEF SlotType
    <2>7. /\ Len(slots'[l]) = Len(slots[l]) /\ slots'[l][i] = s
          /\ \A j \in 1 .. Len(slots[l]) : j # i => slots'[l][j] = slots[l][j]
      BY <2>1, <2>2, <2>4, <2>6, SlotExcept
    <2>8. \A k \in Logs : Len(slots'[k]) = Len(slots[k])
      BY Zenon, <2>6, <2>7
    <2>9. \A k \in Logs : \A j \in 1 .. Len(slots[k]) :
              slots'[k][j].xid = slots[k][j].xid /\ slots'[k][j].info = slots[k][j].info
      BY ZenonT(30), <2>4, <2>6, <2>7
    <2> QED
      BY Zenon, <2>8, <2>9, <1>s, SameUndone
  <1>4. NewSlotIn(b) => R!Write(logs[b], xact[b]) /\ logs[b] \in Logs /\ xact[b] \in Xids
    BY ZenonT(30), <1>u, NewSlotMapped DEF NewSlotIn
  <1> QED
    BY Zenon, <1>1, <1>2, <1>3, <1>4, <1>e DEF Write

\* Serving a request takes back what an aborted transaction wrote, or finds
\* it done.
LEMMA ExecuteMapped ==
    ASSUME IndInv, RequestInv, [Next]_vars, NEW r \in requests, execute_undo_actions(r[1], r[2])
    PROVE  (\E p \in Logs \X Xids : R!RollBack(p)) \/ UNCHANGED R!vars
  <1> DEFINE l == r[1]
             i == r[2]
             x == slots[l][i].xid
             s == [slots[l][i] EXCEPT !.info = "ROLLBACK"]
             p == <<l, x>>
  <1>t. SlotType /\ SlotInv /\ RecycledSettled
    BY Zenon DEF IndInv, TypeOK
  <1>l. l \in Logs /\ i \in 1 .. Len(slots[l]) /\ status[x] = "aborted"
    BY Zenon, <1>t DEF SlotType, RequestInv
  <1>x. x \in Xids /\ slots[l][i] \in Slot /\ slots[l] \in Seq(Slot) /\ Len(slots[l]) \in Nat
    BY Zenon, <1>l, <1>t, SlotAt
  <1>p. p \in Logs \X Xids /\ p[1] = l /\ p[2] = x
    BY Zenon, <1>l, <1>x
  <1>u. UNCHANGED <<recycle_slot, globalVars, status>>
    BY Zenon DEF execute_undo_actions, xactVars
  <1>1. CASE slots' = slots
    BY <1>1, <1>u DEF R!vars, globalVars, WrittenParts, UndoneParts, ReleasedParts, HasSlot
  <1>2. CASE slots' # slots
    <2>1. slots' = [slots EXCEPT ![l] = [slots[l] EXCEPT ![i] = s]]
      BY Zenon, <1>2 DEF execute_undo_actions
    <2>2. s \in Slot /\ s.xid = x /\ s.info = "ROLLBACK"
      BY ZenonT(30), <1>x DEF Slot
    <2>3. slots'[l] = [slots[l] EXCEPT ![i] = s] /\ \A k \in Logs : k # l => slots'[k] = slots[k]
      BY ZenonT(30), <2>1, <1>l, <1>t DEF SlotType
    <2>4. /\ Len(slots'[l]) = Len(slots[l]) /\ slots'[l][i] = s
          /\ \A j \in 1 .. Len(slots[l]) : j # i => slots'[l][j] = slots[l][j]
      BY <2>2, <2>3, <1>l, <1>x, SlotExcept
    <2>5. WrittenParts' = WrittenParts /\ ReleasedParts' = ReleasedParts
      <3>1. \A k \in Logs : Len(slots'[k]) = Len(slots[k])
        BY Zenon, <2>3, <2>4
      <3> QED
        BY Zenon, <3>1, <1>u, SameParts
    <2>6. UndoneParts' = UndoneParts \cup {p}
      <3>1. ASSUME NEW q \in Logs \X Xids
            PROVE  (\E j \in 1 .. Len(slots'[q[1]]) :
                        slots'[q[1]][j].xid = q[2] /\ slots'[q[1]][j].info = "ROLLBACK")
                   <=> q = p \/ \E j \in 1 .. Len(slots[q[1]]) :
                            slots[q[1]][j].xid = q[2] /\ slots[q[1]][j].info = "ROLLBACK"
        <4>0. q = <<q[1], q[2]>> /\ q[1] \in Logs
          OBVIOUS
        <4>1. CASE q[1] # l
          BY SMTT(20), <4>0, <4>1, <2>3, <1>p
        <4>2. CASE q[1] = l
          <5>1. q = p <=> q[2] = x
            BY <4>0, <4>2
          <5>2. ASSUME NEW j \in 1 .. Len(slots[l]), slots'[l][j].xid = q[2],
                       slots'[l][j].info = "ROLLBACK", q[2] # x
                PROVE  slots[l][j].xid = q[2] /\ slots[l][j].info = "ROLLBACK"
            BY ZenonT(30), <5>2, <2>2, <2>4
          <5>3. ASSUME NEW j \in 1 .. Len(slots[l]), slots[l][j].xid = q[2],
                       slots[l][j].info = "ROLLBACK"
                PROVE  slots'[l][j].xid = q[2] /\ slots'[l][j].info = "ROLLBACK"
            BY ZenonT(30), <5>3, <2>2, <2>4
          <5>4. slots'[l][i].xid = x /\ slots'[l][i].info = "ROLLBACK"
            BY Zenon, <2>2, <2>4
          <5>5. (\E j \in 1 .. Len(slots[l]) :
                     slots'[l][j].xid = q[2] /\ slots'[l][j].info = "ROLLBACK")
                <=> q[2] = x \/ \E j \in 1 .. Len(slots[l]) :
                         slots[l][j].xid = q[2] /\ slots[l][j].info = "ROLLBACK"
            BY ZenonT(30), <5>2, <5>3, <5>4, <1>l
          <5> QED
            BY SMTT(20), <4>2, <5>1, <5>5, <2>4
        <4> QED
          BY Zenon, <4>1, <4>2
      <3> QED
        BY SMTT(20), <3>1, <1>p DEF UndoneParts
    <2>7. p \in WrittenParts
      BY ZenonT(30), <1>l, <1>p DEF WrittenParts, HasSlot
    <2>8. ASSUME p \in ReleasedParts PROVE p \in UndoneParts
      <3>1. PICK j \in 1 .. recycle_slot[l] : slots[l][j].xid = x
        BY ZenonT(30), <2>8, <1>p DEF ReleasedParts, HasSlot
      <3>2. j \in 1 .. Len(slots[l])
        BY <1>l, <1>x, <1>t DEF SlotType
      <3>3. slots[l][j].info = "ROLLBACK"
        BY Zenon, <3>1, <1>l, <1>t DEF RecycledSettled, Settled, DidCommit
      <3> QED
        BY ZenonT(30), <3>1, <3>2, <3>3, <1>p DEF UndoneParts
    <2>9. CASE p \in UndoneParts
      <3>1. UndoneParts' = UndoneParts
        BY Zenon, <2>6, <2>9
      <3> QED
        BY Zenon, <3>1, <2>5, <1>u DEF R!vars, globalVars
    <2>10. CASE p \notin UndoneParts
      <3>1. R!RollBack(p)
        BY Zenon, <2>5, <2>6, <2>7, <2>8, <2>10, <1>l, <1>p, <1>u DEF R!RollBack, globalVars
      <3> QED
        BY Zenon, <3>1, <1>p
    <2> QED
      BY Zenon, <2>9, <2>10
  <1> QED
    BY Zenon, <1>1, <1>2

\* Moving the recycle pointer releases settled parts.
LEMMA ReleaseMapped ==
    ASSUME IndInv, ReleaseInv, recycle_release
    PROVE  R!Release \/ UNCHANGED R!vars
  <1> DEFINE l == dw.idx
  <1>t. SlotType /\ RecycledSettled /\ AtLogInv /\ dw \in DiscardLocals
    BY Zenon DEF IndInv, TypeOK
  <1>a. dw.pc = "release"
    BY Zenon DEF recycle_release
  <1>l. /\ l \in Logs /\ Len(slots[l]) \in Nat /\ dw.recycle \in 1 .. Len(slots[l])
        /\ \A i \in 1 .. dw.recycle : Settled(slots[l][i])
    BY Zenon, <1>a, <1>t, AtLog DEF AtLogInv
  <1>u. /\ recycle_slot' = [recycle_slot EXCEPT ![l] = dw.recycle]
        /\ UNCHANGED <<status, slots, globalVars>>
    BY Zenon DEF recycle_release, xactVars
  <1>b. \A k \in Logs : /\ recycle_slot'[k] \in Nat /\ recycle_slot'[k] <= Len(slots[k])
                        /\ \A i \in 1 .. recycle_slot'[k] : Settled(slots[k][i])
    BY SMTT(20), <1>l, <1>u, <1>t DEF SlotType, RecycledSettled
  <1>1. WrittenParts' = WrittenParts /\ UndoneParts' = UndoneParts
    BY Zenon, <1>u DEF WrittenParts, UndoneParts, HasSlot
  <1>2. ASSUME NEW p \in ReleasedParts' PROVE p \in WrittenParts /\ ~R!Owed(p)
    <2>1. p \in Logs \X Xids /\ p[1] \in Logs /\ p = <<p[1], p[2]>>
      BY DEF ReleasedParts
    <2>2. PICK i \in 1 .. recycle_slot'[p[1]] : slots[p[1]][i].xid = p[2]
      BY Zenon, <1>u DEF ReleasedParts, HasSlot
    <2>3. i \in 1 .. Len(slots[p[1]]) /\ Settled(slots[p[1]][i])
      <3>1. Len(slots[p[1]]) \in Nat
        BY Zenon, <2>1, <1>t, SlotAt
      <3> QED
        BY <3>1, <2>1, <1>b
    <2>4. ~R!Owed(<<p[1], slots[p[1]][i].xid>>)
      BY Zenon, <2>1, <2>3, <1>t, NotOwed
    <2>5. p \in WrittenParts
      BY Zenon, <2>1, <2>2, <2>3 DEF WrittenParts, HasSlot
    <2> QED
      BY Zenon, <2>1, <2>2, <2>4, <2>5
  <1>3. ASSUME NEW p \in ReleasedParts PROVE p \in ReleasedParts'
    <2>1. p \in Logs \X Xids /\ p[1] \in Logs
      BY Zenon DEF ReleasedParts
    <2>2. PICK i \in 1 .. recycle_slot[p[1]] : slots[p[1]][i].xid = p[2]
      BY Zenon DEF ReleasedParts, HasSlot
    <2>3. recycle_slot[p[1]] \in Nat /\ recycle_slot[p[1]] <= recycle_slot'[p[1]]
      BY <2>1, <1>a, <1>l, <1>u, <1>t DEF SlotType, ReleaseInv
    <2>4. i \in 1 .. recycle_slot'[p[1]]
      BY <2>1, <2>3, <1>b
    <2> QED
      BY Zenon, <2>1, <2>2, <2>4, <1>u DEF ReleasedParts, HasSlot
  <1> QED
    BY Zenon, <1>1, <1>2, <1>3, <1>u DEF R!Release, R!vars, globalVars

\* The horizons are only published where nothing is owed below them.
LEMMA PublishMapped ==
    ASSUME IndInv, IndInv', Still, UNCHANGED recycle_slot
    PROVE  R!Publish \/ UNCHANGED R!vars
  <1>t. XactType /\ XactInv /\ SlotType /\ SlotInv
    BY Zenon DEF IndInv, TypeOK
  <1>g. /\ AllOver(global_frozen_xid)' /\ AllOver(global_recycle_xid)'
        /\ FrozenSettled' /\ GlobalRecycleBound' /\ HorizonType'
    BY Zenon DEF IndInv, HorizonInv, TypeOK
  <1>u. UNCHANGED <<nextXid, status, slots>>
    BY Zenon DEF Still
  <1>p. UNCHANGED <<WrittenParts, UndoneParts, ReleasedParts>>
    BY Zenon, <1>u DEF WrittenParts, UndoneParts, ReleasedParts, HasSlot
  <1>o. ASSUME NEW h \in Nat, h <= nextXid, \A x \in Xids : x < h => ~InProgress(x)
        PROVE  R!Over(h)
    <2> SUFFICES ASSUME NEW x \in Xids, x < h PROVE status[x] \in {"committed", "aborted"}
      BY Zenon DEF R!Over
    <2>1. status[x] # "unassigned"
      BY <1>o, <1>t DEF XactType, XactInv, Horizon, Xids
    <2> QED
      BY Zenon, <2>1, <1>o, <1>t DEF XactType, InProgress
  <1>s. ASSUME NEW h \in Nat,
               \A l \in Logs : \A i \in 1 .. Len(slots[l]) :
                   slots[l][i].xid < h => Settled(slots[l][i])
        PROVE  R!NothingOwed(h)
    <2> SUFFICES ASSUME NEW p \in WrittenParts, p[2] < h PROVE ~R!Owed(p)
      BY Zenon DEF R!NothingOwed
    <2>1. p[1] \in Logs /\ p = <<p[1], p[2]>>
      BY Zenon, <1>t, PartSlot
    <2>2. PICK i \in 1 .. Len(slots[p[1]]) : slots[p[1]][i].xid = p[2]
      BY Zenon, <1>t, PartSlot
    <2>3. Settled(slots[p[1]][i])
      BY Zenon, <2>1, <2>2, <1>s
    <2>4. ~R!Owed(<<p[1], slots[p[1]][i].xid>>)
      BY Zenon, <2>1, <2>3, <1>t, NotOwed
    <2> QED
      BY Zenon, <2>1, <2>2, <2>4
  <1>h. global_frozen_xid' \in Nat /\ global_recycle_xid' \in Nat
    BY <1>g DEF HorizonType, Horizon, FirstNormalXid
  <1>1. R!Over(global_frozen_xid') /\ R!Over(global_recycle_xid')
    BY Zenon, <1>g, <1>h, <1>o, <1>u DEF AllOver, InProgress
  <1>2. R!NothingOwed(global_frozen_xid')
    <2>1. \A l \in Logs : \A i \in 1 .. Len(slots[l]) :
              slots[l][i].xid < global_frozen_xid' => Settled(slots[l][i])
      BY Zenon, <1>g, <1>u DEF FrozenSettled, Settled, DidCommit
    <2> QED
      BY Zenon, <2>1, <1>h, <1>s
  <1>3. R!NothingOwed(global_recycle_xid')
    <2>1. ASSUME NEW l \in Logs, NEW i \in 1 .. Len(slots[l]),
                 slots[l][i].xid < global_recycle_xid'
          PROVE  Settled(slots[l][i])
      <3>1. slots[l][i].xid \in Int
        BY <1>t, SlotAt DEF Xids
      <3> QED
        BY SMTT(20), <2>1, <3>1, <1>g, <1>h, <1>u DEF GlobalRecycleBound, Settled, DidCommit
    <2> QED
      BY Zenon, <2>1, <1>h, <1>s
  <1> QED
    BY Zenon, <1>1, <1>2, <1>3, <1>p, <1>u DEF R!Publish, R!vars

\* Every step of the undo logs is an abstract step, or none.
LEMMA StepMapped ==
    IndInv /\ IndInv' /\ RequestInv /\ ReleaseInv /\ [Next]_vars => [R!Next]_R!vars
  <1> SUFFICES ASSUME IndInv, IndInv', RequestInv, ReleaseInv, [Next]_vars
               PROVE  R!Next \/ UNCHANGED R!vars
    BY Zenon
  <1>t. XactType /\ XactInv /\ HorizonInv /\ HorizonType
    BY Zenon DEF IndInv, TypeOK
  <1>s. UNCHANGED <<slots, recycle_slot>> => UNCHANGED <<WrittenParts, UndoneParts, ReleasedParts>>
    BY DEF WrittenParts, UndoneParts, ReleasedParts, HasSlot
  <1>1. ASSUME NEW b \in Backends, AssignTransactionId(b) PROVE R!Next
    <2>1. nextXid \in Xids /\ status[nextXid] = "unassigned"
      BY <1>1, <1>t DEF AssignTransactionId, XactType, XactInv, Horizon, Xids
    <2>2. nextXid >= global_frozen_xid /\ nextXid >= global_recycle_xid
      BY Zenon, <1>t, <2>1 DEF HorizonInv, AllOver, HorizonType, Horizon, Xids
    <2>3. R!Assign(nextXid)
      BY Zenon, <1>1, <2>1, <2>2, <1>s DEF AssignTransactionId, R!Assign, ulogVars, globalVars
    <2> QED
      BY Zenon, <2>1, <2>3 DEF R!Next
  <1>2. ASSUME NEW b \in Backends, NEW o \in {"committed", "aborted"}, EndTransaction(b, o)
        PROVE  R!Next
    <2>1. xact[b] \in Xids /\ status[xact[b]] = "in_progress"
      BY Zenon, <1>2, <1>t DEF EndTransaction, XactType, XactInv, InProgress
    <2>2. R!End(xact[b], o)
      BY Zenon, <1>2, <2>1, <1>s DEF EndTransaction, R!End, ulogVars, globalVars
    <2> QED
      BY Zenon, <2>1, <2>2 DEF R!Next
  <1>3. ASSUME NEW b \in Backends, Write(b) PROVE R!Next \/ UNCHANGED R!vars
    BY Zenon, <1>3, WriteMapped DEF R!Next
  <1>4. ASSUME NEW r \in requests, execute_undo_actions(r[1], r[2])
        PROVE  R!Next \/ UNCHANGED R!vars
    BY Zenon, <1>4, ExecuteMapped DEF R!Next
  <1>5. CASE recycle_release
    BY Zenon, <1>5, ReleaseMapped DEF R!Next
  <1>6. CASE (Discard \/ discard_restart) /\ recycle_slot' = recycle_slot
    BY Zenon, <1>6, DiscardStill, PublishMapped DEF R!Next
  <1>7. CASE UNCHANGED <<status, slots, recycle_slot, globalVars>>
    BY Zenon, <1>7, <1>s DEF R!vars, globalVars
  <1> QED
    <2>1. CASE Discard \/ discard_restart
      <3>1. recycle_release \/ recycle_slot' = recycle_slot
        BY ZenonT(30), <2>1 DEF Discard, discard_loop, discard_skip_log, advance_frozen_xid,
                    request_async_rollback, recycle_undo_space, discard_publish_frozen,
                    discard_retry, discard_publish_recycle, discard_restart, ulogVars
      <3> QED
        BY Zenon, <3>1, <2>1, <1>5, <1>6
    <2>2. CASE UNCHANGED <<recycle_slot, globalVars>>
      <3>1. CASE UNCHANGED <<status, slots>>
        BY Zenon, <2>2, <3>1, <1>7
      <3>2. \/ UNCHANGED <<status, slots>>
            \/ \E b \in Backends : AssignTransactionId(b)
            \/ \E b \in Backends, o \in {"committed", "aborted"} : EndTransaction(b, o)
            \/ \E b \in Backends : Write(b)
            \/ \E r \in requests : execute_undo_actions(r[1], r[2])
        BY ZenonT(30), WriterCases DEF alloc_undo_log, cleanup_undo_log, xactVars, ulogVars, Write
      <3> QED
        BY Zenon, <3>1, <3>2, <1>1, <1>2, <1>3, <1>4
    <2> QED
      BY Zenon, <2>1, <2>2, DiscardCases

-----------------------------------------------------------------------------
(* The promise                                                             *)

\* What UndoRetention promises follows from its steps alone.
LEMMA PromiseStep ==
    ASSUME R!NothingOwedGone, [R!Next]_R!vars,
           status \in [Xids -> {"unassigned", "in_progress", "committed", "aborted"}],
           WrittenParts \subseteq Logs \X Xids, ReleasedParts \subseteq Logs \X Xids,
           global_frozen_xid \in Nat, global_recycle_xid \in Nat
    PROVE  R!NothingOwedGone'
  <1>x. \A x \in Xids : x \in Int
    BY DEF Xids, FirstNormalXid
  <1>p. /\ \A p \in ReleasedParts : ~R!Owed(p)
        /\ R!Over(global_frozen_xid) /\ R!NothingOwed(global_frozen_xid)
        /\ R!Over(global_recycle_xid) /\ R!NothingOwed(global_recycle_xid)
    BY Zenon DEF R!NothingOwedGone
  <1>1. ASSUME NEW x \in Xids, R!Assign(x) PROVE R!NothingOwedGone'
    <2>1. /\ status' = [status EXCEPT ![x] = "in_progress"] /\ status[x] = "unassigned"
          /\ x >= global_frozen_xid /\ x >= global_recycle_xid
          /\ UNCHANGED <<WrittenParts, UndoneParts, ReleasedParts, globalVars>>
      BY Zenon, <1>1 DEF R!Assign, globalVars
    <2>2. \A p \in Logs \X Xids : ~R!Owed(p) => ~R!Owed(p)'
      BY Zenon, <2>1 DEF R!Owed
    <2>3. \A h \in Nat : R!Over(h) /\ x >= h => \A y \in Xids : y < h => status'[y] = status[y]
      BY Zenon, <2>1, <1>x DEF R!Over
    <2>4. R!Over(global_frozen_xid)' /\ R!Over(global_recycle_xid)'
      BY Zenon, <2>1, <2>3, <1>p DEF R!Over, globalVars
    <2> QED
      BY Zenon, <2>1, <2>2, <2>4, <1>p DEF R!NothingOwedGone, R!NothingOwed, globalVars
  <1>2. ASSUME NEW x \in Xids, NEW o \in {"committed", "aborted"}, R!End(x, o)
        PROVE  R!NothingOwedGone'
    <2>1. /\ status' = [status EXCEPT ![x] = o] /\ status[x] = "in_progress"
          /\ UNCHANGED <<WrittenParts, UndoneParts, ReleasedParts, globalVars>>
      BY Zenon, <1>2 DEF R!End, globalVars
    <2>2. \A p \in Logs \X Xids : ~R!Owed(p) => ~R!Owed(p)'
      BY Zenon, <2>1 DEF R!Owed
    <2>3. R!Over(global_frozen_xid)' /\ R!Over(global_recycle_xid)'
      BY Zenon, <2>1, <1>p DEF R!Over, globalVars
    <2> QED
      BY Zenon, <2>1, <2>2, <2>3, <1>p DEF R!NothingOwedGone, R!NothingOwed, globalVars
  <1>3. ASSUME NEW l \in Logs, NEW x \in Xids, R!Write(l, x) PROVE R!NothingOwedGone'
    <2>1. /\ WrittenParts' = WrittenParts \cup {<<l, x>>} /\ status[x] = "in_progress"
          /\ UNCHANGED <<status, UndoneParts, ReleasedParts, globalVars>>
      BY Zenon, <1>3 DEF R!Write, globalVars
    <2>2. \A p : R!Owed(p)' <=> R!Owed(p)
      BY Zenon, <2>1 DEF R!Owed
    <2>3. ~(x < global_frozen_xid) /\ ~(x < global_recycle_xid)
      BY Zenon, <2>1, <1>p DEF R!Over
    <2>4. R!NothingOwed(global_frozen_xid)' /\ R!NothingOwed(global_recycle_xid)'
      BY <2>1, <2>2, <2>3, <1>p DEF R!NothingOwed, globalVars
    <2>5. R!Over(global_frozen_xid)' /\ R!Over(global_recycle_xid)'
      BY Zenon, <2>1, <1>p DEF R!Over, globalVars
    <2> QED
      BY Zenon, <2>1, <2>2, <2>4, <2>5, <1>p DEF R!NothingOwedGone
  <1>4. ASSUME NEW p \in Logs \X Xids, R!RollBack(p) PROVE R!NothingOwedGone'
    <2>1. /\ UndoneParts' = UndoneParts \cup {p}
          /\ UNCHANGED <<status, WrittenParts, ReleasedParts, globalVars>>
      BY Zenon, <1>4 DEF R!RollBack, globalVars
    <2>2. \A q : ~R!Owed(q) => ~R!Owed(q)'
      BY Zenon, <2>1 DEF R!Owed
    <2> QED
      BY Zenon, <2>1, <2>2, <1>p DEF R!NothingOwedGone, R!NothingOwed, R!Over, globalVars
  <1>5. ASSUME R!Release PROVE R!NothingOwedGone'
    <2>1. /\ \A p \in ReleasedParts' : p \in ReleasedParts \/ ~R!Owed(p)
          /\ UNCHANGED <<status, WrittenParts, UndoneParts, globalVars>>
      BY Zenon, <1>5 DEF R!Release, globalVars
    <2>2. \A q : ~R!Owed(q) => ~R!Owed(q)'
      BY Zenon, <2>1 DEF R!Owed
    <2> QED
      BY Zenon, <2>1, <2>2, <1>p DEF R!NothingOwedGone, R!NothingOwed, R!Over, globalVars
  <1>6. ASSUME R!Publish PROVE R!NothingOwedGone'
    <2>1. /\ UNCHANGED <<status, WrittenParts, UndoneParts, ReleasedParts>>
          /\ R!Over(global_frozen_xid') /\ R!NothingOwed(global_frozen_xid')
          /\ R!Over(global_recycle_xid') /\ R!NothingOwed(global_recycle_xid')
      BY Zenon, <1>6 DEF R!Publish
    <2>2. \A q : R!Owed(q)' <=> R!Owed(q)
      BY Zenon, <2>1 DEF R!Owed
    <2> QED
      BY Zenon, <2>1, <2>2, <1>p DEF R!NothingOwedGone, R!NothingOwed, R!Over
  <1>7. CASE UNCHANGED R!vars
    BY Zenon, <1>7, <1>p DEF R!vars, R!NothingOwedGone, R!NothingOwed, R!Over, R!Owed
  <1> QED
    BY Zenon, <1>1, <1>2, <1>3, <1>4, <1>5, <1>6, <1>7 DEF R!Next

-----------------------------------------------------------------------------
(* Horizons                                                                *)

USE DEF InvalidXid, FirstNormalXid, NoLog

\* What the worker's next locals say, when global_frozen_xid is h.
AdvanceNext(h) ==
    /\ dw'.retry >= 1
    /\ dw'.retry = 1 =>
           /\ dw'.pc \in {"logs", "request", "recycle", "release", "publish"} =>
                  dw'.oldestFrozenXidInUndo >= h
           /\ dw'.pc \in {"request", "recycle", "release"} => dw'.frozenXid >= h
    /\ TRUE \notin ForceRecycle => ~dw'.force /\ dw'.retry = 1

\* The head of the loop refuses a horizon behind global_frozen_xid.
LEMMA LoopAdvance ==
    ASSUME IndInv, AdvanceInv, discard_loop
    PROVE  AdvanceNext(global_frozen_xid)
  <1>t. dw \in DiscardLocals
    BY Zenon DEF IndInv, TypeOK
  <1>1. PICK m \in OldestXminSet, force \in ForceRecycle :
            /\ m >= global_frozen_xid
            /\ dw' = IF undo_log_used_cout = 0
                 THEN [dw EXCEPT !.pc = "publish", !.oldestXmin = m,
                                 !.oldestFrozenXidInUndo = m]
                 ELSE [dw EXCEPT
                         !.pc = "logs", !.oldestXmin = m, !.force = force,
                         !.forceRecycleXid = IF force THEN get_force_recycle_xid(m, 1)
                                                      ELSE InvalidXid,
                         !.oldestFrozenXidInUndo = m]
    BY ZenonT(30) DEF discard_loop, OldestXminUsable
  <1>2. /\ dw'.pc \in {"publish", "logs"} /\ dw'.oldestFrozenXidInUndo = m
        /\ dw'.retry = dw.retry /\ (dw'.force = dw.force \/ dw'.force = force)
    BY Zenon, <1>1, <1>t DEF DiscardLocals
  <1>3. force \in BOOLEAN
    BY Zenon, <1>1, ConstantsAssumption DEF ConstantsAssumption
  <1> QED
    BY ZenonT(30), <1>1, <1>2, <1>3 DEF AdvanceNext, AdvanceInv

\* advance_frozen_xid stops at an xid below the horizon only to roll it back,
\* and then global_frozen_xid has not passed it.
LEMMA FrozenAdvance ==
    ASSUME IndInv, AdvanceInv, advance_frozen_xid
    PROVE  AdvanceNext(global_frozen_xid)
  <1>t. dw \in DiscardLocals /\ SlotType
    BY Zenon DEF IndInv, TypeOK
  <1>i. dw.idx \in Int /\ dw.idx >= 0 /\ NLogs \in Nat
    BY SMTT(20), LocalsAt, <1>t, ConstantsAssumption DEF ConstantsAssumption
  <1>p. dw.pc = "logs" /\ dw.idx \in Logs
    BY <1>i DEF advance_frozen_xid, Logs
  <1>h. /\ dw.oldestXmin \in Nat /\ dw.oldestFrozenXidInUndo \in Nat /\ global_frozen_xid \in Nat
        /\ dw.oldestFrozenXidInUndo <= dw.oldestXmin
    BY Zenon, HorizonsOver DEF IndInv, HorizonInv, TypeOK, HorizonType, Horizon
  <1> DEFINE l == dw.idx
             first == Larger(frozen_slot[l], recycle_slot[l])
  <1>1. PICK stop \in first .. Len(slots[l]) :
            LET s == slots[l][stop + 1]
                rollback == stop < Len(slots[l]) /\ s.start # 0 /\ NeedsRollback(s, dw.oldestXmin)
            IN  dw' = [dw EXCEPT
                            !.pc = IF rollback THEN "request" ELSE "recycle",
                            !.pending = IF rollback THEN stop + 1 ELSE 0,
                            !.frozenXid = IF rollback THEN s.xid ELSE dw.oldestXmin,
                            !.allocate = Len(slots[l])]
    BY ZenonT(30) DEF advance_frozen_xid
  <1>2. /\ dw'.retry = dw.retry /\ dw'.force = dw.force
        /\ dw'.oldestFrozenXidInUndo = dw.oldestFrozenXidInUndo
    BY Zenon, <1>1, <1>t DEF DiscardLocals
  <1>3. \/ dw'.frozenXid = dw.oldestXmin
        \/ /\ dw'.frozenXid = slots[l][stop + 1].xid /\ stop < Len(slots[l])
           /\ NeedsRollback(slots[l][stop + 1], dw.oldestXmin)
    BY Zenon, <1>1, <1>t DEF DiscardLocals
  <1>4. dw.retry = 1 => dw.oldestFrozenXidInUndo >= global_frozen_xid
    BY Zenon, <1>p DEF AdvanceInv, InLogs
  <1>5. ASSUME stop < Len(slots[l]), NeedsRollback(slots[l][stop + 1], dw.oldestXmin)
        PROVE  slots[l][stop + 1].xid >= global_frozen_xid
    <2>1. first \in Nat /\ Len(slots[l]) \in Nat
      BY Zenon, <1>p, <1>t, SlotAt DEF Larger, SlotType
    <2>2. stop + 1 \in 1 .. Len(slots[l])
      BY SMTT(20), <1>5, <2>1
    <2>3. slots[l][stop + 1].xid \in Nat
      BY SMTT(20), <2>2, <1>p, <1>t, SlotAt DEF Xids
    <2> QED
      BY SMTT(20), <1>5, <2>3, <1>h DEF NeedsRollback, xstore_transaction_id_did_commit,
                              TransactionIdOlderThanAllUndo
  <1>6. dw.retry = 1 => dw'.frozenXid >= global_frozen_xid
    BY SMTT(20), <1>3, <1>4, <1>5, <1>h
  <1> QED
    BY ZenonT(30), <1>2, <1>4, <1>6 DEF AdvanceNext, AdvanceInv

\* Folding a log's frozenXid into the minimum of the pass keeps it.
LEMMA RecycleAdvance ==
    ASSUME IndInv, AdvanceInv, recycle_undo_space
    PROVE  AdvanceNext(global_frozen_xid)
  <1>t. dw \in DiscardLocals
    BY Zenon DEF IndInv, TypeOK
  <1>p. dw.pc = "recycle"
    BY Zenon DEF recycle_undo_space
  <1>1. PICK last : dw' = IF last = recycle_slot[dw.idx] THEN LogDone
                          ELSE [dw EXCEPT !.pc = "release", !.recycle = last]
    BY ZenonT(30) DEF recycle_undo_space
  <1>2. CASE dw' = [dw EXCEPT !.pc = "release", !.recycle = last]
    <2>1. /\ dw'.retry = dw.retry /\ dw'.force = dw.force /\ dw'.frozenXid = dw.frozenXid
          /\ dw'.oldestFrozenXidInUndo = dw.oldestFrozenXidInUndo
      BY Zenon, <1>2, <1>t DEF DiscardLocals
    <2> QED
      BY ZenonT(30), <2>1, <1>p DEF AdvanceNext, AdvanceInv, InLogs
  <1>3. CASE dw' = LogDone
    <2>1. /\ dw'.pc = "logs" /\ dw'.retry = dw.retry /\ dw'.force = dw.force
          /\ dw'.oldestFrozenXidInUndo = Smaller(dw.oldestFrozenXidInUndo, dw.frozenXid)
      BY Zenon, <1>3, <1>t DEF LogDone, DiscardLocals
    <2> QED
      BY ZenonT(30), <2>1, <1>p DEF AdvanceNext, AdvanceInv, InLogs, Smaller
  <1> QED
    BY Zenon, <1>1, <1>2, <1>3

\* Only discard_publish_frozen and discard_publish_recycle write a horizon.
LEMMA GlobalCases ==
    [Next]_vars =>
        \/ UNCHANGED globalVars
        \/ discard_publish_frozen
        \/ discard_publish_recycle
  BY ZenonT(30), DiscardCases DEF Discard, globalVars, discard_loop, discard_skip_log,
         advance_frozen_xid, request_async_rollback, recycle_undo_space, recycle_release,
         discard_retry, discard_restart

\* Every step keeps AdvanceInv.
LEMMA AdvanceKept == IndInv /\ AdvanceInv /\ [Next]_vars => AdvanceInv'
  <1> SUFFICES ASSUME IndInv, AdvanceInv, [Next]_vars PROVE AdvanceInv'
    BY Zenon
  <1>t. dw \in DiscardLocals
    BY Zenon DEF IndInv, TypeOK
  <1>g. AdvanceNext(global_frozen_xid) /\ global_frozen_xid' = global_frozen_xid => AdvanceInv'
    BY ZenonT(30) DEF AdvanceNext, AdvanceInv, InLogs
  <1>n. \A h, f, force, n : /\ DiscardStart(h, f, force, n).pc = "loop"
                            /\ DiscardStart(h, f, force, n).retry = 1
                            /\ DiscardStart(h, f, force, n).force = force
    BY DEF DiscardStart
  <1>o. 1 >= 1
    OBVIOUS
  <1>0. CASE UNCHANGED <<globalVars, dw>>
    BY ZenonT(30), <1>0 DEF AdvanceInv, InLogs, globalVars
  <1>1. CASE discard_skip_log \/ request_async_rollback \/ recycle_release
    <2>1. /\ dw'.retry = dw.retry /\ dw'.force = dw.force /\ dw'.frozenXid = dw.frozenXid
          /\ dw'.oldestFrozenXidInUndo = dw.oldestFrozenXidInUndo
          /\ dw'.pc \in {"request", "recycle", "release"} =>
                 dw.pc \in {"request", "recycle", "release"}
          /\ InLogs
      BY ZenonT(30), <1>1, <1>t DEF discard_skip_log, request_async_rollback, recycle_release,
           DiscardLocals, InLogs
    <2>2. AdvanceNext(global_frozen_xid)
      BY ZenonT(30), <2>1 DEF AdvanceNext, AdvanceInv, InLogs
    <2> QED
      BY Zenon, <2>2, <1>1, <1>g DEF discard_skip_log, request_async_rollback, recycle_release, globalVars
  <1>2. CASE discard_loop
    BY ZenonT(30), <1>2, <1>g, LoopAdvance DEF discard_loop, globalVars
  <1>3. CASE advance_frozen_xid
    BY ZenonT(30), <1>3, <1>g, FrozenAdvance DEF advance_frozen_xid, globalVars
  <1>4. CASE recycle_undo_space
    BY ZenonT(30), <1>4, <1>g, RecycleAdvance DEF recycle_undo_space, globalVars
  <1>5. CASE discard_publish_frozen
    <2>1. PICK f : dw' = IF undo_log_used_cout = 0
                         THEN DiscardStart(dw.lastHaving, f, dw.force, dw.restarts)
                         ELSE [dw EXCEPT !.pc = "having", !.lastForceAdvanceXid = f]
      BY ZenonT(30), <1>5 DEF discard_publish_frozen
    <2>2. /\ dw'.pc \in {"loop", "having"} /\ (dw'.retry = dw.retry \/ dw'.retry = 1)
          /\ dw'.force = dw.force
      BY <2>1, <1>n, <1>t DEF DiscardLocals
    <2> QED
      BY ZenonT(30), <1>o, <2>2 DEF AdvanceInv, InLogs
  <1>6. CASE discard_retry
    <2>1. dw.force /\ dw'.retry = dw.retry + 1 /\ dw'.force = dw.force
      <3>1. PICK xid, g : dw' = [dw EXCEPT
                    !.pc = "logs", !.idx = 0, !.retry = @ + 1, !.forceRecycleXid = g,
                    !.isAnyLogUsed = FALSE, !.recycleXids = {}, !.having = xid]
        BY ZenonT(30), <1>6 DEF discard_retry
      <3> QED
        BY ZenonT(30), <3>1, <1>6, <1>t DEF discard_retry, DiscardLocals
    <2>2. dw'.retry >= 1 /\ dw'.retry # 1
      BY SMTT(20), <2>1, <1>t, LocalsAt DEF AdvanceInv
    <2> QED
      BY ZenonT(30), <2>1, <2>2 DEF AdvanceInv
  <1>7. CASE discard_publish_recycle \/ discard_restart
    <2>1. PICK h, f, force, n : /\ dw' = DiscardStart(h, f, force, n)
                                /\ force = dw.force \/ force = FALSE
      BY ZenonT(30), <1>7 DEF discard_publish_recycle, discard_restart
    <2>3. dw'.pc = "loop" /\ dw'.retry = 1 /\ dw'.force = force
      BY <2>1, <1>n
    <2>2. dw'.pc = "loop" /\ dw'.retry = 1 /\ (dw'.force = dw.force \/ dw'.force = FALSE)
      BY ZenonT(30), <2>1, <2>3
    <2> QED
      BY ZenonT(30), <1>o, <2>2 DEF AdvanceInv, InLogs
  <1> QED
    BY Zenon, <1>0, <1>1, <1>2, <1>3, <1>4, <1>5, <1>6, <1>7, DiscardCases DEF Discard

\* In the first pass of a loop neither horizon moves back.
LEMMA ForwardStep ==
    ASSUME IndInv, AdvanceInv, [Next]_vars
    PROVE  /\ global_recycle_xid' >= global_recycle_xid
           /\ dw.retry = 1 => global_frozen_xid' >= global_frozen_xid
  <1>t. global_frozen_xid \in Nat /\ global_recycle_xid \in Nat /\ dw \in DiscardLocals
    BY DEF IndInv, TypeOK, HorizonType, Horizon
  <1>l. \A a, c \in Nat : Larger(a, c) >= a
    BY DEF Larger
  <1>1. CASE UNCHANGED globalVars
    BY <1>1, <1>t DEF globalVars
  <1>2. CASE discard_publish_frozen
    <2>1. PICK f : /\ f = ForceAdvanceXid
                   /\ \/ global_frozen_xid' = dw.oldestFrozenXidInUndo
                      \/ global_frozen_xid' = Larger(global_frozen_xid, f)
                      \/ global_frozen_xid' = global_frozen_xid
      BY ZenonT(30), <1>2 DEF discard_publish_frozen, ForceAdvanceXid
    <2>2. f \in Nat
      BY Zenon, <2>1, HorizonsOver DEF ForceAdvanceXid
    <2>3. dw.retry = 1 => dw.oldestFrozenXidInUndo >= global_frozen_xid
      BY Zenon, <1>2 DEF discard_publish_frozen, AdvanceInv, InLogs
    <2>4. global_recycle_xid' = global_recycle_xid
      BY Zenon, <1>2 DEF discard_publish_frozen
    <2> QED
      BY SMTT(20), <2>1, <2>2, <2>3, <2>4, <1>t, <1>l
  <1>3. CASE discard_publish_recycle
    <2>1. PICK xid \in dw.recycleXids \cup {dw.having, InvalidXid} :
              /\ \/ global_recycle_xid' = Larger(global_recycle_xid, Smaller(xid, dw.oldestXmin))
                 \/ global_recycle_xid' = global_recycle_xid
              /\ global_frozen_xid' = global_frozen_xid
      BY ZenonT(30), <1>3 DEF discard_publish_recycle
    <2>2. xid \in Nat /\ dw.oldestXmin \in Nat
      BY <2>1, <1>t, LocalsAt DEF Horizon, XidOrNone
    <2>3. Smaller(xid, dw.oldestXmin) \in Nat
      BY Zenon, <2>2 DEF Smaller
    <2> QED
      BY <2>1, <2>3, <1>t, <1>l
  <1> QED
    BY Zenon, <1>1, <1>2, <1>3, GlobalCases

\* A worker that starts holds nothing back.
LEMMA AdvanceInit == Init => AdvanceInv
  BY DEF Init, DiscardStart, AdvanceInv, InLogs
=============================================================================
