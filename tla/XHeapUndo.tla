------------------------------ MODULE XHeapUndo ------------------------------
(***************************************************************************)
(* Rows of an xheap table and the undo of what transactions did to them    *)
(* (contrib/xstore/src/xheap/xheapundo.c, undo/undorequest.c).  A row is   *)
(* changed in place and points to the undo record of its newest change;    *)
(* the record holds what the row was before.  The changes of an aborted    *)
(* transaction are taken back by an undo worker, page by page, by its own  *)
(* backend for a savepoint, or, for one row, by a writer that waited for   *)
(* it.  Readers walk from the row to the version their snapshot sees       *)
(* (xheapam_visibility.c), and rows that were deleted before the frozen    *)
(* horizon are pruned (prunexheap.c).                                      *)
(*                                                                         *)
(* Record u is the u-th one written, 0 is INVALID_UNDO_REC_PTR, and xid 0  *)
(* stands for transactions long committed.  "val" names a version of a     *)
(* row by the record of the change that made it.  "op" is what the row's   *)
(* flags tell of that change: it inserted the row, changed it in place, or *)
(* it is gone (deleted, or updated to another place).  "hint" is what they *)
(* tell of its transaction.  A transaction that fills its undo log goes on *)
(* in another one, in a slot of its own.                                   *)
(***************************************************************************)
EXTENDS UndoSort, FiniteSets

CONSTANTS
    Backends, Workers,   \* processes that write, and that roll back
    Readers,             \* processes that read, with an MVCC snapshot
    NBlocks, MaxOffset,  \* size of the table
    InitRows,            \* rows on each page at the start
    MaxXid, MaxRecords,  \* bounds: transactions, undo records
    MaxFrozen,           \* bound of the frozen horizon (1: it stays)
    MaxSlot,             \* undo logs one transaction may use
    BatchSize,           \* records fetched at a time (maintenance_work_mem)
    Deletes,             \* may rows be deleted, not only updated?
    MultiInsert,         \* may rows be inserted several at a time?
    Savepoints           \* may transactions use savepoints?

Blocks == 1 .. NBlocks
Offsets == 1 .. MaxOffset
Xids == 1 .. MaxXid

ASSUME XHeapUndoAssumption == InitRows \in 0 .. MaxOffset /\ BatchSize \in Nat \ {0}

VARIABLES
    rows, nline,   \* the pages: row of each offset, and how many row pointers
    undo,          \* all undo records
    status,        \* outcome of each transaction
    xact, slot,    \* transaction of each backend, and the slot it writes to
    sp,            \* its savepoint: where its undo starts, and the rows then
    wait,          \* what it waits for to change a row
    roll,          \* rollback under way in each process
    finished,      \* slots flagged by set_undo_slot_rollback_finish
    frozen,        \* global_frozen_xid
    snap,          \* snapshot of each reader: the xids it does not see, and the
                   \* versions committed when it was taken (not in the program)
    committed      \* last committed version of each row; not in the program

pageVars == <<rows, nline>>
xactVars == <<status, xact, slot, sp, committed>>
readVars == <<frozen, snap>>
vars == <<pageVars, undo, xactVars, wait, roll, finished, readVars>>

Unused == [used |-> FALSE, xid |-> 0, urec |-> 0, val |-> 0, op |-> "new", hint |-> "none"]
InitRow == [Unused EXCEPT !.used = TRUE, !.val = -1]
NoSavepoint == [mark |-> -1, rows |-> <<>>]
NoWait == [blk |-> 0, off |-> 0, xid |-> 0, urec |-> 0, sub |-> FALSE]
NoSnapshot == [xip |-> {}, seen |-> <<>>]
NoRollback == [xid |-> 0, slot |-> 0, ulist |-> <<>>, todo |-> <<>>, start_index |-> 0,
               has_switch |-> FALSE]

\* Below the frozen horizon every transaction is taken to be committed.
TransactionIdOlderThanAllUndo(x) == x < frozen
DidCommit(x) == ~TransactionIdOlderThanAllUndo(x) => status[x] = "committed"

Init ==
    /\ rows = [k \in Blocks |-> [o \in Offsets |-> IF o <= InitRows THEN InitRow ELSE Unused]]
    /\ nline = [k \in Blocks |-> InitRows]
    /\ undo = <<>>
    /\ status = [x \in Xids |-> "unassigned"]
    /\ xact = [b \in Backends |-> 0]
    /\ slot = [b \in Backends |-> 1]
    /\ sp = [b \in Backends |-> NoSavepoint]
    /\ wait = [b \in Backends |-> NoWait]
    /\ roll = [p \in Backends \cup Workers |-> NoRollback]
    /\ finished = {}
    /\ frozen = 1
    /\ snap = [r \in Readers |-> NoSnapshot]
    /\ committed = [k \in Blocks |-> [o \in Offsets |-> rows[k][o].val]]

-----------------------------------------------------------------------------
(* Undoing the records of one page: execute_xheap_undoactions              *)

\* Does undoing record u touch the row?  Not when the row is gone, when
\* another transaction changed it since, or when u is undone already; and not
\* yet when the row has a newer change, in a later log, that is not undone.
\* Mutant: a row with a newer change is taken for one that is undone.
Undoable_NoSwitch(row, u) ==
    IF row.used /\ row.xid = undo[u].xid /\ row.urec = u THEN "UNDO" ELSE "ROK"

Undoable(row, u) ==
    CASE ~row.used \/ row.xid # undo[u].xid -> "ROK"
      [] row.used /\ row.xid = undo[u].xid /\ row.urec = u -> "UNDO"
      [] OTHER -> IF u < row.urec THEN "RSWITCH" ELSE "ROK"

execute_undo_insert(row, u) == IF Undoable(row, u) = "UNDO" THEN Unused ELSE row

\* Mutant: the row keeps the xid of the aborted transaction.
execute_undo_for_update_KeepXid(row, u) ==
    IF Undoable(row, u) = "UNDO" THEN [undo[u].old EXCEPT !.xid = row.xid] ELSE row

\* Also execute_undo_for_delete: what the row was, its xid and undo pointer.
execute_undo_for_update(row, u) ==
    IF Undoable(row, u) = "UNDO" THEN undo[u].old ELSE row

UndoOffsets(u) == undo[u].off .. undo[u].last
Least(S) == CHOOSE x \in S : \A y \in S : x <= y

\* The loop over ulist[i..e], from 0 as in the code.  After the rows of a
\* multi-insert the search for a row still in use runs on the loop's own
\* index i.  A loop that goes round for ever has no result (n runs out).
RECURSIVE UndoLoop(_, _, _, _, _, _)
UndoLoop(page, lines, ulist, i, e, n) ==
    LET u == ulist[i + 1]
        res == {Undoable(page.rows[o], u) : o \in UndoOffsets(u)}
        insert == undo[u].kind # "modify"
        after == [o \in Offsets |->
                     IF o \notin UndoOffsets(u) THEN page.rows[o]
                     ELSE IF insert THEN execute_undo_insert(page.rows[o], u)
                     ELSE execute_undo_for_update(page.rows[o], u)]
        used == {o \in 1 .. lines : after[o].used}
        next == [page EXCEPT !.rows = after,
                             !.has_switch = @ \/ "RSWITCH" \in res,
                             !.init = IF insert THEN used = {} ELSE @]
        j == IF undo[u].kind # "multi" THEN i
             ELSE IF used = {} THEN lines + 1 ELSE Least(used)
    IN  CASE i > e -> page
          [] i <= e /\ n = 0 -> [page EXCEPT !.loops = TRUE]
          [] OTHER -> UndoLoop(next, lines, ulist, j + 1, e, n - 1)

\* The page after the records ulist[s..e], s and e counted from 0.
execute_xheap_undoactions(page, lines, ulist, s, e) ==
    LET start == [rows |-> page, has_switch |-> FALSE, init |-> FALSE, loops |-> FALSE]
    IN  UndoLoop(start, lines, ulist, s, e, 3 * MaxRecords)

\* A page with no row left is set up anew.
UndoPage(blk, result) ==
    /\ ~result.loops
    /\ rows' = [rows EXCEPT ![blk] =
                   IF result.init THEN [o \in Offsets |-> Unused] ELSE result.rows]
    /\ nline' = [nline EXCEPT ![blk] = IF result.init THEN 0 ELSE @]

-----------------------------------------------------------------------------
(* Changing rows                                                           *)

Active(b) == xact[b] # 0 /\ roll[b] = NoRollback /\ wait[b] = NoWait

StartTransaction(b, x) ==
    /\ xact[b] = 0
    /\ status[x] = "unassigned" /\ \A y \in Xids : y < x => status[y] # "unassigned"
    /\ xact' = [xact EXCEPT ![b] = x]
    /\ status' = [status EXCEPT ![x] = "in_progress"]
    /\ slot' = [slot EXCEPT ![b] = 1]
    /\ UNCHANGED <<pageVars, undo, sp, committed, wait, roll, finished, readVars>>

Record(b, s, kind, blk, off, last, old) ==
    [xid |-> xact[b], slot |-> s, kind |-> kind, blk |-> blk, off |-> off, last |-> last,
     subxid |-> IF kind = "modify" /\ sp[b] # NoSavepoint THEN 1 ELSE 0, old |-> old]

\* Mutant: the flags of the row keep the old hint.
NewVersion_KeepHint(b, row, u, op) ==
    [used |-> TRUE, xid |-> xact[b], urec |-> u, val |-> u, op |-> op, hint |-> row.hint]

NewVersion(b, row, u, op) ==
    [used |-> TRUE, xid |-> xact[b], urec |-> u, val |-> u, op |-> op, hint |-> "none"]

\* What a record keeps of the row: an xid below the horizon becomes
\* FrozenTransactionId.
Old(row) == IF TransactionIdOlderThanAllUndo(row.xid) THEN [row EXCEPT !.xid = 0] ELSE row

\* Where the next row goes: the first row pointer not in use, or a new one.
FreeOffset(blk) == Least({o \in 1 .. nline[blk] + 1 : o > MaxOffset \/ ~rows[blk][o].used})

\* The records are written and the page is changed under the buffer lock.  A
\* full undo log is left for another one first.
Write(b, s, new) ==
    /\ Active(b)
    /\ s \in {slot[b], slot[b] + 1} /\ s <= MaxSlot
    /\ Len(undo) + Len(new) <= MaxRecords
    /\ undo' = undo \o new
    /\ slot' = [slot EXCEPT ![b] = s]
    /\ UNCHANGED <<status, xact, sp, committed, wait, roll, finished, readVars>>

\* xheap_insert, and xheap_multi_insert: one record for rows next to each
\* other.
xheap_insert(b, blk, s, more) ==
    LET off == FreeOffset(blk)
        last == off + more
        u == Len(undo) + 1
        kind == IF more = 0 THEN "insert" ELSE "multi"
    IN  /\ last <= MaxOffset
        /\ \A o \in off .. last : ~rows[blk][o].used
        /\ Write(b, s, <<Record(b, s, kind, blk, off, last, Unused)>>)
        /\ rows' = [rows EXCEPT ![blk] =
                       [o \in Offsets |-> IF o \in off .. last
                                           THEN NewVersion(b, @[o], u, "new") ELSE @[o]]]
        /\ nline' = [nline EXCEPT ![blk] = IF last > @ THEN last ELSE @]

\* TM_Ok of xheap_tuple_satisfies_update: a row that is there, of the
\* transaction itself or of one that committed.
MayChange(b, row) == row.used /\ row.op # "gone" /\ (row.xid = xact[b] \/ DidCommit(row.xid))

\* One record, of a row that stays where it is.
ModifyRow(b, blk, off, s, op) ==
    LET row == rows[blk][off]
    IN  /\ MayChange(b, row)
        /\ Write(b, s, <<Record(b, s, "modify", blk, off, off, Old(row))>>)
        /\ rows' = [rows EXCEPT ![blk][off] = NewVersion(b, row, Len(undo) + 1, op)]
        /\ UNCHANGED nline

xheap_delete(b, blk, off, s) == ModifyRow(b, blk, off, s, "gone")
xheap_update_inplace(b, blk, off, s) == ModifyRow(b, blk, off, s, "modified")

\* xheap_update to another place: the old row's record comes first.
xheap_update_move(b, blk, off, to, s) ==
    LET row == rows[blk][off]
        new == FreeOffset(to)
        u == Len(undo) + 1
    IN  /\ MayChange(b, row)
        /\ new <= MaxOffset
        /\ Write(b, s, <<Record(b, s, "modify", blk, off, off, Old(row)),
                         Record(b, s, "insert", to, new, new, Unused)>>)
        /\ rows' = [rows EXCEPT ![blk][off] = NewVersion(b, row, u, "gone"),
                                ![to][new] = NewVersion(b, Unused, u + 1, "new")]
        /\ nline' = [nline EXCEPT ![to] = IF new > @ THEN new ELSE @]

\* The row was deleted or updated by a transaction that runs or has aborted:
\* note which, and where its undo starts, and let go of the page.  A row
\* another transaction has just inserted is not found at all.
xheap_wait(b, blk, off) ==
    LET row == rows[blk][off]
    IN  /\ Active(b)
        /\ row.used /\ row.op # "new"
        /\ row.xid # xact[b] /\ ~DidCommit(row.xid)
        /\ wait' = [wait EXCEPT ![b] =
                       [blk |-> blk, off |-> off, xid |-> row.xid, urec |-> row.urec,
                        sub |-> status[row.xid] = "in_progress" /\ undo[row.urec].subxid # 0]]
        /\ UNCHANGED <<pageVars, undo, xactVars, roll, finished, readVars>>

\* The records of one row from u on, newest first, that one transaction wrote.
bulk_fetch_undo_for_tuple(u, x) ==
    LET chain[k \in 0 .. Len(undo)] ==
            IF k = 0 THEN <<>>
            ELSE IF undo[k].xid # x THEN <<>> ELSE <<k>> \o chain[undo[k].old.urec]
    IN  chain[u]

ExecPendingUndo(w) ==
    LET ulist == bulk_fetch_undo_for_tuple(w.urec, w.xid)
        last == Len(ulist) - 1
    IN  UndoPage(w.blk, execute_xheap_undoactions(rows[w.blk], nline[w.blk], ulist, 0, last))

\* Mutant: who waited for a subtransaction undoes the row as well.
xheap_wait_done_Sub(b) ==
    LET w == wait[b]
    IN  /\ w # NoWait
        /\ \/ status[w.xid] # "in_progress"
           \/ w.sub /\ rows[w.blk][w.off].urec < w.urec
        /\ wait' = [wait EXCEPT ![b] = NoWait]
        /\ IF DidCommit(w.xid) THEN UNCHANGED pageVars ELSE ExecPendingUndo(w)
        /\ UNCHANGED <<undo, xactVars, roll, finished, readVars>>

\* That transaction is over.  If it aborted, xheap_exec_pending_undo_actions
\* undoes the row from the record noted before the wait.  Who waited for a
\* subtransaction goes on when that is rolled back, and undoes nothing.
\* Either way the writer looks at the row again.
xheap_wait_done(b) ==
    LET w == wait[b]
    IN  /\ w # NoWait
        /\ \/ status[w.xid] # "in_progress"
           \/ w.sub /\ rows[w.blk][w.off].urec < w.urec
        /\ wait' = [wait EXCEPT ![b] = NoWait]
        /\ IF w.sub \/ DidCommit(w.xid) THEN UNCHANGED pageVars ELSE ExecPendingUndo(w)
        /\ UNCHANGED <<undo, xactVars, roll, finished, readVars>>

CommitTransaction(b) ==
    /\ Active(b)
    /\ status' = [status EXCEPT ![xact[b]] = "committed"]
    /\ xact' = [xact EXCEPT ![b] = 0]
    /\ sp' = [sp EXCEPT ![b] = NoSavepoint]
    /\ committed' = [k \in Blocks |-> [o \in Offsets |->
                        IF rows[k][o].xid # xact[b] THEN committed[k][o]
                        ELSE IF rows[k][o].op = "gone" THEN 0 ELSE rows[k][o].val]]
    /\ UNCHANGED <<pageVars, undo, slot, wait, roll, finished, readVars>>

\* try_execute_undo_actions leaves the rows of a logged table to the workers.
AbortTransaction(b) ==
    /\ Active(b)
    /\ status' = [status EXCEPT ![xact[b]] = "aborted"]
    /\ xact' = [xact EXCEPT ![b] = 0]
    /\ sp' = [sp EXCEPT ![b] = NoSavepoint]
    /\ UNCHANGED <<pageVars, undo, slot, committed, wait, roll, finished, readVars>>

-----------------------------------------------------------------------------
(* Rollback, a batch of records and a page at a time: execute_undo_actions *)

\* Newest first: the records of a transaction in one slot, or after a mark.
SlotRecords(x, s) == {u \in 1 .. Len(undo) : undo[u].xid = x /\ undo[u].slot = s}
RecordsSince(x, mark) == {u \in mark + 1 .. Len(undo) : undo[u].xid = x}

bulk_fetch_undo_for_range(S) ==
    LET n == Cardinality(S)
    IN  [i \in 1 .. n |-> CHOOSE u \in S : Cardinality({v \in S : v > u}) = i - 1]

\* The next batch of "todo", in the order of its pages.
Sorted(batch) ==
    LET keys == [i \in 1 .. Len(batch) |->
                    [blk |-> undo[batch[i]].blk, subxid |-> undo[batch[i]].subxid, idx |-> i]]
        list == qsort_undo_list(keys)
    IN  [i \in 1 .. Len(batch) |-> batch[list[i].idx]]

NextBatch(r) ==
    LET n == IF Len(r.todo) < BatchSize THEN Len(r.todo) ELSE BatchSize
    IN  [r EXCEPT !.ulist = Sorted(SubSeq(r.todo, 1, n)),
                  !.todo = SubSeq(r.todo, n + 1, Len(r.todo)),
                  !.start_index = 0]

StartRollback(x, s, S) ==
    NextBatch([NoRollback EXCEPT !.xid = x, !.slot = s, !.todo = bulk_fetch_undo_for_range(S)])

\* An undo worker takes up a slot of an aborted transaction; it may have been
\* rolled back before.
UndoPerformRequest(w, x, s) ==
    /\ roll[w] = NoRollback
    /\ status[x] = "aborted"
    /\ SlotRecords(x, s) # {}
    /\ roll' = [roll EXCEPT ![w] = StartRollback(x, s, SlotRecords(x, s))]
    /\ UNCHANGED <<pageVars, undo, xactVars, wait, finished, readVars>>

\* The end of the run of records for one page.
GroupEnd(r) ==
    LET last(e) == \A i \in r.start_index .. e :
                       undo[r.ulist[i + 1]].blk = undo[r.ulist[r.start_index + 1]].blk
    IN  CHOOSE e \in r.start_index .. Len(r.ulist) - 1 :
            last(e) /\ (e < Len(r.ulist) - 1 => ~last(e + 1))

\* One page.  After the last one of a batch the next is fetched, unless a row
\* had to wait for a later log; after the last batch the slot is flagged.
do_undo_actions(p) ==
    LET r == roll[p]
        e == GroupEnd(r)
        blk == undo[r.ulist[r.start_index + 1]].blk
        result == execute_xheap_undoactions(rows[blk], nline[blk], r.ulist, r.start_index, e)
        next == [r EXCEPT !.start_index = e + 1, !.has_switch = @ \/ result.has_switch]
        over == e + 1 = Len(r.ulist) /\ (next.has_switch \/ r.todo = <<>>)
    IN  /\ r # NoRollback
        /\ UndoPage(blk, result)
        /\ roll' = [roll EXCEPT ![p] = IF over THEN NoRollback
                                       ELSE IF e + 1 = Len(r.ulist) THEN NextBatch(next) ELSE next]
        /\ finished' = IF over /\ p \in Workers /\ ~next.has_switch
                       THEN finished \cup {<<r.xid, r.slot>>} ELSE finished
        /\ sp' = IF over /\ p \in Backends THEN [sp EXCEPT ![p] = NoSavepoint] ELSE sp
        /\ UNCHANGED <<undo, status, xact, slot, committed, wait, readVars>>

\* An error, or the end of the worker: the request is taken up again later.
UndoWorkerFails(w) ==
    /\ roll[w] # NoRollback
    /\ roll' = [roll EXCEPT ![w] = NoRollback]
    /\ UNCHANGED <<pageVars, undo, xactVars, wait, finished, readVars>>

DefineSavepoint(b) ==
    /\ Savepoints
    /\ Active(b) /\ sp[b] = NoSavepoint
    /\ sp' = [sp EXCEPT ![b] = [mark |-> Len(undo), rows |-> rows]]
    /\ UNCHANGED <<pageVars, undo, status, xact, slot, committed, wait, roll, finished, readVars>>

ReleaseSavepoint(b) ==
    /\ Active(b) /\ sp[b] # NoSavepoint
    /\ sp' = [sp EXCEPT ![b] = NoSavepoint]
    /\ UNCHANGED <<pageVars, undo, status, xact, slot, committed, wait, roll, finished, readVars>>

\* ROLLBACK TO SAVEPOINT: the backend itself undoes what it wrote since.
RollbackToSavepoint(b) ==
    LET S == RecordsSince(xact[b], sp[b].mark)
    IN  /\ Active(b) /\ sp[b] # NoSavepoint
        /\ S # {}
        /\ roll' = [roll EXCEPT ![b] = StartRollback(xact[b], 0, S)]
        /\ UNCHANGED <<pageVars, undo, xactVars, wait, finished, readVars>>

-----------------------------------------------------------------------------
(* Readers, the horizon and pruning                                        *)

\* Which version does a snapshot see?  (hint is "none" for one from undo.)
XidVisible(x, hint, s) ==
    x \notin s.xip /\ IF hint = "none" THEN status[x] = "committed" ELSE hint = "committed"

xheap_select_version_mvcc(row, hint, s) ==
    IF XidVisible(row.xid, hint, s)
    THEN IF row.op = "gone" THEN "NONE" ELSE "CURRENT"
    ELSE IF row.op = "new" THEN "NONE" ELSE "OLDER"

xheap_tuple_satisfies(row, hint, s) ==
    CASE TransactionIdOlderThanAllUndo(row.xid) -> IF row.op = "gone" THEN "NONE" ELSE "CURRENT"
      [] OTHER -> xheap_select_version_mvcc(row, hint, s)

\* Back through the undo records of the row.  A version below the horizon is
\* the one, without a look at what made it.
RECURSIVE get_tuple_from_undo(_, _)
get_tuple_from_undo(row, s) ==
    LET old == undo[row.urec].old
        selector == xheap_tuple_satisfies(old, "none", s)
    IN  CASE TransactionIdOlderThanAllUndo(old.xid) \/ selector = "CURRENT" -> old.val
          [] OTHER -> IF selector = "NONE" THEN 0 ELSE get_tuple_from_undo(old, s)

\* The version found, 0 for none.
xheap_tuple_fetch(row, s) ==
    LET selector == xheap_tuple_satisfies(row, row.hint, s)
    IN  CASE ~row.used \/ selector = "NONE" -> 0
          [] row.used /\ selector = "CURRENT" -> row.val
          [] OTHER -> get_tuple_from_undo(row, s)

GetSnapshotData(r) ==
    /\ snap[r] = NoSnapshot
    /\ snap' = [snap EXCEPT ![r] =
           [xip |-> {x \in Xids : status[x] \in {"unassigned", "in_progress"}},
            seen |-> committed]]
    /\ UNCHANGED <<pageVars, undo, xactVars, wait, roll, finished, frozen>>

UnregisterSnapshot(r) ==
    /\ snap[r] # NoSnapshot
    /\ snap' = [snap EXCEPT ![r] = NoSnapshot]
    /\ UNCHANGED <<pageVars, undo, xactVars, wait, roll, finished, frozen>>

\* Reading a row changes it when the reader learns how its transaction ended.
xheap_set_hint(r, blk, off) ==
    LET row == rows[blk][off]
    IN  /\ snap[r] # NoSnapshot
        /\ row.used /\ row.hint = "none"
        /\ ~TransactionIdOlderThanAllUndo(row.xid) /\ row.xid \notin snap[r].xip
        /\ rows' = [rows EXCEPT ![blk][off].hint =
                       IF status[row.xid] = "committed" THEN "committed" ELSE "aborted"]
        /\ UNCHANGED <<nline, undo, xactVars, wait, roll, finished, readVars>>

\* The discard worker moves the horizon over transactions that are over and
\* whose slots are committed or rolled back, and never past the xmin of a
\* snapshot: what UndoLog shows of it.
AdvanceFrozen(f) ==
    /\ f \in frozen + 1 .. MaxFrozen
    /\ \A x \in 1 .. f - 1 :
          \/ status[x] = "committed"
          \/ status[x] = "aborted" /\ \A s \in 1 .. MaxSlot :
                 SlotRecords(x, s) = {} \/ <<x, s>> \in finished
    /\ \A r \in Readers, x \in 1 .. f - 1 : x \notin snap[r].xip
    /\ frozen' = f
    /\ UNCHANGED <<pageVars, undo, xactVars, wait, roll, finished, snap>>

\* Mutant: who deleted the row need only have committed.
Dead_Committed(row) == row.used /\ row.op = "gone" /\ DidCommit(row.xid)

\* XHEAPTUPLE_DEAD of xheap_tuple_satisfies_oldest_xmin: pruning passes the
\* frozen horizon as oldestXmin.
Dead(row) == row.used /\ row.op = "gone" /\ TransactionIdOlderThanAllUndo(row.xid)

\* The row pointers of dead rows are free again.
xheap_page_prune(blk) ==
    /\ \E o \in Offsets : Dead(rows[blk][o])
    /\ rows' = [rows EXCEPT ![blk] = [o \in Offsets |-> IF Dead(@[o]) THEN Unused ELSE @[o]]]
    /\ UNCHANGED <<nline, undo, xactVars, wait, roll, finished, readVars>>

-----------------------------------------------------------------------------
Change(b) ==
    \E s \in 1 .. MaxSlot, blk \in Blocks :
        \/ \E more \in IF MultiInsert THEN {0, 1} ELSE {0} : xheap_insert(b, blk, s, more)
        \/ Deletes /\ \E off \in Offsets : xheap_delete(b, blk, off, s)
        \/ \E off \in Offsets : xheap_update_inplace(b, blk, off, s)
        \/ \E off \in Offsets, to \in Blocks : xheap_update_move(b, blk, off, to, s)

Backend(b) ==
    \/ \E x \in Xids : StartTransaction(b, x)
    \/ Change(b)
    \/ \E blk \in Blocks, off \in Offsets : xheap_wait(b, blk, off)
    \/ xheap_wait_done(b)
    \/ CommitTransaction(b)
    \/ AbortTransaction(b)
    \/ DefineSavepoint(b)
    \/ ReleaseSavepoint(b)
    \/ RollbackToSavepoint(b)
    \/ do_undo_actions(b)

Worker(w) ==
    \/ \E x \in Xids, s \in 1 .. MaxSlot : UndoPerformRequest(w, x, s)
    \/ do_undo_actions(w)
    \/ UndoWorkerFails(w)

Reader(r) ==
    \/ GetSnapshotData(r)
    \/ UnregisterSnapshot(r)
    \/ \E blk \in Blocks, off \in Offsets : xheap_set_hint(r, blk, off)

Next ==
    \/ \E b \in Backends : Backend(b)
    \/ \E w \in Workers : Worker(w)
    \/ \E r \in Readers : Reader(r)
    \/ \E f \in 1 .. MaxFrozen : AdvanceFrozen(f)
    \/ \E blk \in Blocks : xheap_page_prune(blk)

Spec == Init /\ [][Next]_vars

-----------------------------------------------------------------------------
(* Properties                                                              *)

\* A row in use names a record that changed that very row, made by the
\* transaction the row names.
TypeOK ==
    /\ nline \in [Blocks -> 0 .. MaxOffset]
    /\ xact \in [Backends -> {0} \cup Xids]
    /\ finished \subseteq Xids \X (1 .. MaxSlot)
    /\ \A k \in Blocks, o \in Offsets :
        LET row == rows[k][o]
        IN  /\ row.used => o <= nline[k]
            /\ row.urec \in 0 .. Len(undo)
            /\ row.urec = 0 => row.xid = 0
            /\ row.urec # 0 => /\ row.xid \in {undo[row.urec].xid, 0}
                               /\ undo[row.urec].blk = k
                               /\ o \in UndoOffsets(row.urec)

\* At every moment, half way through a rollback by a worker or a waiting
\* writer included, a reader finds in every row the version that was
\* committed last when it took its snapshot, whatever was committed, undone,
\* frozen, hinted and pruned since.
ReadersFindCommitted ==
    \A r \in Readers, k \in Blocks, o \in Offsets :
        snap[r] # NoSnapshot => xheap_tuple_fetch(rows[k][o], snap[r]) = snap[r].seen[k][o]

\* A hint, which is believed without a look at the commit log, tells how the
\* transaction of the row ended; also when undo put the hint back.
HintsTrue ==
    \A k \in Blocks, o \in Offsets :
        LET row == rows[k][o]
        IN  row.used /\ row.hint # "none" /\ row.xid # 0 => row.hint = status[row.xid]

\* "return true done rollback": once set_undo_slot_rollback_finish has flagged
\* a slot, no row carries a change of that slot; its xid will be taken for
\* committed as soon as the frozen horizon passes it.
RollbackComplete ==
    \A k \in Blocks, o \in Offsets :
        LET row == rows[k][o]
        IN  row.used /\ row.urec # 0 => <<row.xid, undo[row.urec].slot>> \notin finished

\* When ROLLBACK TO SAVEPOINT is over, every row the transaction had changed
\* before the savepoint, or has changed still, is what it was then.
SavepointRestored ==
    [][\A b \in Backends :
          roll[b] # NoRollback /\ roll'[b] = NoRollback =>
              \A k \in Blocks, o \in Offsets :
                  xact[b] \in {sp[b].rows[k][o].xid, rows'[k][o].xid} =>
                      rows'[k][o] = sp[b].rows[k][o]]_vars
=============================================================================
