---------------------------- MODULE UndoRollback ----------------------------
(***************************************************************************)
(* Asynchronous rollback (contrib/xstore/src/undo/undoworker.c, the hash   *)
(* table of undorequest.c).  The discard worker enters a request for every *)
(* slot of an aborted transaction it meets.  The undo launcher picks one   *)
(* request at a time, writes it into a mailbox in shared memory and starts *)
(* a background process, which reads the mailbox, rolls the slot back and  *)
(* removes the request.                                                    *)
(*                                                                         *)
(* A request stands for one slot.  Elements are the cells of the hash      *)
(* table: a cell that was removed keeps its contents until it is used      *)
(* again, which matters because the launcher reads one without the lock,   *)
(* field by field.  The mailbox has no lock either.  A copy of a request   *)
(* is therefore two parts, the key (transaction and first record) and the  *)
(* slot (last record, database and slot), which may come from two          *)
(* requests.                                                               *)
(***************************************************************************)
EXTENDS Integers, FiniteSets, Sequences, Functions

CONSTANTS
    Requests,    \* slots of aborted transactions
    Xid,         \* transaction of each request; 0 is no transaction
    Bucket,      \* bucket of the hash table each request falls into
    NBuckets,
    HashSize,    \* get_rollback_hash_size
    WaitsFor,    \* WaitsFor[r]: requests of later logs that changed rows of r since
    Procs,       \* background processes that may run at a time
    NWorkers,    \* undo_max_rollback_worker
    Delay,       \* ROLLBACK_DELAY
    MaxErrors,   \* bound: rollbacks that end in an error
    MaxFatal,    \* bound: processes that do not get through InitPostgres
    SlowStart,   \* may a process need more than 10 s to start?
    Restarts,    \* may the launcher be stopped, to be started again?
    NoRequest, NoProc

Elements == 1 .. HashSize
Buckets == 0 .. NBuckets - 1
Workers == 1 .. NWorkers

ASSUME UndoRollbackAssumption ==
    /\ NBuckets \in Nat /\ HashSize \in Nat /\ NWorkers \in Nat /\ Delay \in Nat
    /\ Xid \in [Requests -> Nat \ {0}] /\ Bucket \in [Requests -> Buckets]
    /\ \A r \in Requests : r \notin WaitsFor[r]
    /\ NoRequest \notin Requests /\ NoProc \notin Procs /\ IsFiniteSet(Procs)

VARIABLES
    elem,          \* RollbackHashEntry cells
    chain,         \* cells of each bucket, in order
    RollbackNextBucket,
    launcher,      \* [pc, entry, request, idx, starts]
    rollback_request,  \* the mailbox
    undo_workers,  \* [xid, pid] of each worker slot
    running_undo_workers,
    proc,          \* [pc, undowork]
    discard,       \* request the discard worker is about to enter
    rolledback,    \* slots whose rows are rolled back
    finished,      \* slots flagged UNDOSLOT_ROLLBACK
    mixed,         \* requests some process has parts of, each with a part of
                   \* another; not part of the program
    errors, fatals

hash == <<elem, chain>>
vars == <<elem, chain, RollbackNextBucket, launcher, rollback_request, undo_workers,
          running_undo_workers, proc, discard, rolledback, finished, mixed, errors, fatals>>

\* What is copied of a request.
Whole(r) == [key |-> r, slot |-> r]
NoWork == Whole(NoRequest)

\* What a copy taken without a lock may hold when its source changed from a
\* to b meanwhile.
Copies(a, b) == [key : {a.key, b.key}, slot : {a.slot, b.slot}]

NoEntry == 0
Idle == [pc |-> "loop", entry |-> NoEntry, request |-> NoWork, idx |-> 0, starts |-> 0]
Dead == [pc |-> "none", undowork |-> NoWork]
FreeWorker == [xid |-> 0, pid |-> NoProc]

Init ==
    /\ elem = [e \in Elements |-> [req |-> NoRequest, in_progress |-> FALSE, retry_delay |-> 0]]
    /\ chain = [k \in Buckets |-> <<>>]
    /\ RollbackNextBucket = 0
    /\ launcher = Idle
    /\ rollback_request = NoWork
    /\ undo_workers = [i \in Workers |-> FreeWorker]
    /\ running_undo_workers = 0
    /\ proc = [p \in Procs |-> Dead]
    /\ discard = NoRequest
    /\ rolledback = {} /\ finished = {} /\ mixed = {}
    /\ errors = 0 /\ fatals = 0

-----------------------------------------------------------------------------
(* The hash table                                                          *)

InTable == UNION {Range(chain[k]) : k \in Buckets}
Cells(r) == {e \in InTable : elem[e].req = r}
Cell(r) == CHOOSE e \in Cells(r) : TRUE

is_rollback_ht_full == \A e \in Elements : e \in InTable

\* Mutant: the request is entered without looking for it first.
register_rollback_req_Twice(r) ==
    IF is_rollback_ht_full THEN UNCHANGED hash
    ELSE \E e \in Elements \ InTable :
            /\ elem' = [elem EXCEPT ![e] = [req |-> r, in_progress |-> FALSE, retry_delay |-> 0]]
            /\ chain' = [chain EXCEPT ![Bucket[r]] = Append(@, e)]

register_rollback_req(r) ==
    IF is_rollback_ht_full \/ Cells(r) # {} THEN UNCHANGED hash
    ELSE \E e \in Elements \ InTable :
            /\ elem' = [elem EXCEPT ![e] = [req |-> r, in_progress |-> FALSE, retry_delay |-> 0]]
            /\ chain' = [chain EXCEPT ![Bucket[r]] = Append(@, e)]

\* A chain without its i-th cell.
Without(s, i) == [j \in 1 .. Len(s) - 1 |-> s[IF j < i THEN j ELSE j + 1]]

remove_rollback_entry(r) ==
    /\ IF Cells(r) = {} THEN UNCHANGED chain
       ELSE \E i \in 1 .. Len(chain[Bucket[r]]) :
               /\ elem[chain[Bucket[r]][i]].req = r
               /\ chain' = [chain EXCEPT ![Bucket[r]] = Without(@, i)]
    /\ UNCHANGED elem

\* What mark_rollback_progress and mark_rollback_fail write into an entry.
Marked(e, in_progress) ==
    [elem EXCEPT ![e] = [@ EXCEPT !.in_progress = in_progress, !.retry_delay = Delay]]

mark_rollback_progress(r, in_progress) ==
    /\ elem' = IF Cells(r) = {} THEN elem ELSE Marked(Cell(r), in_progress)
    /\ UNCHANGED chain

\* Without an entry the code writes through a null pointer and the server goes
\* down: the process takes no step here.
mark_rollback_fail(r) ==
    /\ Cells(r) # {}
    /\ elem' = Marked(Cell(r), FALSE)
    /\ UNCHANGED chain

\* The scan starts at bucket RollbackNextBucket.  Where it stopped is noted
\* as a bucket: the next scan starts at the head of it, unless the entry
\* found was its last.
Candidates(k) == {i \in 1 .. Len(chain[k]) : ~elem[chain[k][i]].in_progress}

\* Mutant: at the end of the table the scan does not go back to its start.
get_next_rollback_request_NoWrap ==
    LET found == {k \in Buckets : k >= RollbackNextBucket /\ Candidates(k) # {}}
        k == CHOOSE x \in found : \A y \in found : x <= y
        i == CHOOSE x \in Candidates(k) : \A y \in Candidates(k) : x <= y
    IN  IF found = {} THEN [entry |-> NoEntry, bucket |-> RollbackNextBucket]
        ELSE [entry |-> chain[k][i], bucket |-> IF i = Len(chain[k]) THEN k + 1 ELSE k]

get_next_rollback_request ==
    LET found == {k \in Buckets : k >= RollbackNextBucket /\ Candidates(k) # {}}
        k == CHOOSE x \in found : \A y \in found : x <= y
        i == CHOOSE x \in Candidates(k) : \A y \in Candidates(k) : x <= y
    IN  IF found = {} THEN [entry |-> NoEntry, bucket |-> 0]
        ELSE [entry |-> chain[k][i], bucket |-> IF i = Len(chain[k]) THEN k + 1 ELSE k]

-----------------------------------------------------------------------------
(* The discard worker                                                      *)

\* It reads the slot's flag, and enters the request later.
DiscardReadsSlot(r) ==
    /\ discard = NoRequest
    /\ r \notin finished
    /\ discard' = r
    /\ UNCHANGED <<elem, chain, RollbackNextBucket, launcher, rollback_request, undo_workers,
                   running_undo_workers, proc, rolledback, finished, mixed, errors, fatals>>

request_async_rollback ==
    /\ discard # NoRequest
    /\ register_rollback_req(discard)
    /\ discard' = NoRequest
    /\ UNCHANGED <<RollbackNextBucket, launcher, rollback_request, undo_workers,
                   running_undo_workers, proc, rolledback, finished, mixed, errors, fatals>>

-----------------------------------------------------------------------------
(* The launcher                                                            *)

\* IsUndoWorkerAvailable, and the scan under the lock.
LauncherScan ==
    LET next == get_next_rollback_request
    IN  /\ launcher.pc = "loop"
        /\ running_undo_workers < NWorkers
        /\ RollbackNextBucket' = next.bucket
        /\ launcher' = IF next.entry = NoEntry THEN launcher
                       ELSE [launcher EXCEPT !.pc = "entry", !.entry = next.entry]
        /\ UNCHANGED <<elem, chain, rollback_request, undo_workers, running_undo_workers, proc,
                       discard, rolledback, finished, mixed, errors, fatals>>

\* RegisterUndoWorker: a process that has yet to run, if there is room.
RegisterUndoWorker ==
    LET free == {p \in Procs : proc[p] = Dead}
    IN  IF free = {} THEN UNCHANGED proc
        ELSE \E p \in free : proc' = [proc EXCEPT ![p].pc = "started"]

IdleWorkers == {i \in Workers : undo_workers[i].xid = 0}

\* The entry is read after the lock was let go.  No request is taken whose
\* transaction another worker is busy with.
UndoLauncherGetRequest ==
    LET e == launcher.entry
        busy == \E i \in Workers : undo_workers[i].xid = Xid[elem[e].req]
        idx == CHOOSE x \in IdleWorkers : \A y \in IdleWorkers : x <= y
    IN  /\ launcher.pc = "entry"
        /\ IF busy \/ elem[e].retry_delay > 0 \/ IdleWorkers = {}
           THEN /\ elem' = IF ~busy /\ elem[e].retry_delay > 0
                           THEN [elem EXCEPT ![e].retry_delay = @ - 1] ELSE elem
                /\ launcher' = Idle
           ELSE /\ launcher' = [launcher EXCEPT !.pc = "copy", !.request = Whole(elem[e].req),
                                                !.idx = idx]
                /\ UNCHANGED elem
        /\ UNCHANGED <<chain, RollbackNextBucket, rollback_request, undo_workers,
                       running_undo_workers, proc, discard, rolledback, finished, mixed, errors,
                       fatals>>

\* The parts of the request are read one by one, with the cell as it was at
\* the check or as it is now.  register_rollback_req is one step, which comes
\* before the parts that it had already written.
CopyEntry ==
    /\ launcher.pc = "copy"
    /\ \E q \in Copies(launcher.request, Whole(elem[launcher.entry].req)) :
           launcher' = [launcher EXCEPT !.pc = "mail", !.entry = NoEntry, !.request = q]
    /\ UNCHANGED <<elem, chain, RollbackNextBucket, rollback_request, undo_workers,
                   running_undo_workers, proc, discard, rolledback, finished, mixed, errors, fatals>>

WriteMailbox ==
    /\ launcher.pc = "mail"
    /\ rollback_request' = launcher.request
    /\ launcher' = [launcher EXCEPT !.pc = "start"]
    /\ UNCHANGED <<elem, chain, RollbackNextBucket, undo_workers, running_undo_workers, proc,
                   discard, rolledback, finished, mixed, errors, fatals>>

StartUndoWorkerByIdx ==
    /\ launcher.pc = "start"
    /\ undo_workers' = [undo_workers EXCEPT ![launcher.idx].xid = Xid[launcher.request.key]]
    /\ RegisterUndoWorker
    /\ launcher' = [launcher EXCEPT !.pc = "wait", !.request = NoWork, !.starts = 1]
    /\ UNCHANGED <<elem, chain, RollbackNextBucket, rollback_request, running_undo_workers,
                   discard, rolledback, finished, mixed, errors, fatals>>

\* The worker is done or is running.
StartUndoWorkerDone ==
    /\ launcher.pc = "wait"
    /\ undo_workers[launcher.idx].xid = 0 \/ undo_workers[launcher.idx].pid # NoProc
    /\ launcher' = Idle
    /\ UNCHANGED <<elem, chain, RollbackNextBucket, rollback_request, undo_workers,
                   running_undo_workers, proc, discard, rolledback, finished, mixed, errors, fatals>>

Starting == \E p \in Procs : proc[p].pc \in {"started", "copy", "init"}

\* After 10 s the launcher starts one more process, and 10 ms later it gives
\* up.
StartUndoWorkerAgain ==
    /\ launcher.pc = "wait" /\ launcher.starts = 1
    /\ undo_workers[launcher.idx].xid # 0 /\ undo_workers[launcher.idx].pid = NoProc
    /\ SlowStart \/ ~Starting
    /\ RegisterUndoWorker
    /\ launcher' = [launcher EXCEPT !.starts = 2]
    /\ UNCHANGED <<elem, chain, RollbackNextBucket, rollback_request, undo_workers,
                   running_undo_workers, discard, rolledback, finished, mixed, errors, fatals>>

StartUndoWorkerGivesUp ==
    /\ launcher.pc = "wait" /\ launcher.starts = 2
    /\ undo_workers[launcher.idx].xid # 0 /\ undo_workers[launcher.idx].pid = NoProc
    /\ undo_workers' = [undo_workers EXCEPT ![launcher.idx].xid = 0]
    /\ launcher' = Idle
    /\ UNCHANGED <<elem, chain, RollbackNextBucket, rollback_request, running_undo_workers, proc,
                   discard, rolledback, finished, mixed, errors, fatals>>

\* A launcher that was told to stop leaves its loop, and is started again
\* after 5 s.  RollbackNextBucket is its own; CleanupUndoWorkers clears the
\* first worker slot that no process has.
LauncherRestarts ==
    LET unclaimed == {i \in Workers : undo_workers[i].pid = NoProc}
        i == CHOOSE x \in unclaimed : \A y \in unclaimed : x <= y
    IN  /\ Restarts /\ launcher.pc = "loop"
        /\ RollbackNextBucket' = 0
        /\ undo_workers' = IF unclaimed = {} THEN undo_workers
                           ELSE [undo_workers EXCEPT ![i] = FreeWorker]
        /\ UNCHANGED <<elem, chain, launcher, rollback_request, running_undo_workers, proc,
                       discard, rolledback, finished, mixed, errors, fatals>>

-----------------------------------------------------------------------------
(* A worker process                                                        *)

Goto(p, pc) == proc' = [proc EXCEPT ![p].pc = pc]

\* The process copies the mailbox while the launcher may write the next
\* request into it.
UndoWorkerStarts(p) ==
    /\ proc[p].pc = "started"
    /\ running_undo_workers' = running_undo_workers + 1
    /\ proc' = [proc EXCEPT ![p] = [pc |-> "copy", undowork |-> rollback_request]]
    /\ UNCHANGED <<elem, chain, RollbackNextBucket, launcher, rollback_request, undo_workers,
                   discard, rolledback, finished, mixed, errors, fatals>>

UndoWorkerGetRequest(p) ==
    /\ proc[p].pc = "copy"
    /\ \E q \in Copies(proc[p].undowork, rollback_request) :
           /\ proc' = [proc EXCEPT ![p] = [pc |-> "init", undowork |-> q]]
           /\ mixed' = IF q.key = q.slot THEN mixed ELSE mixed \cup {q.key, q.slot}
    /\ UNCHANGED <<elem, chain, RollbackNextBucket, launcher, rollback_request, undo_workers,
                   running_undo_workers, discard, rolledback, finished, errors, fatals>>

\* InitPostgres may end the process for want of resources.  It has no worker
\* slot then and curr_undowork is not set.
InitPostgresFails(p) ==
    /\ proc[p].pc = "init"
    /\ fatals < MaxFatal /\ fatals' = fatals + 1
    /\ proc' = [proc EXCEPT ![p] = Dead]
    /\ running_undo_workers' = running_undo_workers - 1
    /\ UNCHANGED <<elem, chain, RollbackNextBucket, launcher, rollback_request, undo_workers,
                   discard, rolledback, finished, mixed, errors>>

\* The process takes the first worker slot with its transaction, if any.
ClaimWorker(p) ==
    LET mine == {i \in Workers : undo_workers[i].xid = Xid[proc[p].undowork.key]}
        i == CHOOSE x \in mine : \A y \in mine : x <= y
    IN  /\ proc[p].pc = "init"
        /\ undo_workers' = IF mine = {} THEN undo_workers ELSE [undo_workers EXCEPT ![i].pid = p]
        /\ Goto(p, "mark")
        /\ UNCHANGED <<elem, chain, RollbackNextBucket, launcher, rollback_request,
                       running_undo_workers, discard, rolledback, finished, mixed, errors, fatals>>

MarkInProgress(p) ==
    /\ proc[p].pc = "mark"
    /\ mark_rollback_progress(proc[p].undowork.key, TRUE)
    /\ Goto(p, IF Cells(proc[p].undowork.key) # {} THEN "perform" ELSE "absent")
    /\ UNCHANGED <<RollbackNextBucket, launcher, rollback_request, undo_workers,
                   running_undo_workers, discard, rolledback, finished, mixed, errors, fatals>>

\* Mutant: rows that have to wait for a later log do not hold up the flag.
execute_undo_actions_NoWait(p) ==
    LET r == proc[p].undowork.slot
    IN  /\ proc[p].pc = "perform" /\ proc[p].undowork = Whole(r)
        /\ rolledback' = IF WaitsFor[r] \subseteq rolledback THEN rolledback \cup {r} ELSE rolledback
        /\ finished' = finished \cup {r}
        /\ Goto(p, "remove")
        /\ UNCHANGED <<elem, chain, RollbackNextBucket, launcher, rollback_request, undo_workers,
                       running_undo_workers, discard, mixed, errors, fatals>>

\* All rows are rolled back and the slot is flagged, or rows have to wait for
\* a later log (ROLLBACK_RSWITCH), or there is an error on the way.
execute_undo_actions(p) ==
    LET r == proc[p].undowork.slot
    IN  /\ proc[p].pc = "perform" /\ proc[p].undowork = Whole(r)
        /\ \/ /\ WaitsFor[r] \subseteq rolledback
              /\ rolledback' = rolledback \cup {r} /\ finished' = finished \cup {r}
              /\ Goto(p, "remove") /\ UNCHANGED errors
           \/ /\ ~(WaitsFor[r] \subseteq rolledback)
              /\ Goto(p, "fail") /\ UNCHANGED <<rolledback, finished, errors>>
           \/ /\ errors < MaxErrors /\ errors' = errors + 1
              /\ Goto(p, "fail") /\ UNCHANGED <<rolledback, finished>>
        /\ UNCHANGED <<elem, chain, RollbackNextBucket, launcher, rollback_request, undo_workers,
                       running_undo_workers, discard, mixed, fatals>>

\* The same for a copy with the key of one request and the slot of another.
\* Where the walk from the first record of the key towards the last record of
\* the slot gets to depends on where they are: it may find nothing to do, stop
\* on the way, or undo either or both, and it flags the slot at its end.
execute_mixed_undo_actions(p) ==
    LET q == proc[p].undowork
    IN  /\ proc[p].pc = "perform" /\ q.key # q.slot
        /\ \E done \in {{}, {q.key}, {q.key, q.slot}} : rolledback' = rolledback \cup done
        /\ \/ /\ Goto(p, "remove")
              /\ \E flagged \in SUBSET {q.slot} : finished' = finished \cup flagged
           \/ Goto(p, "fail") /\ UNCHANGED finished
        /\ UNCHANGED <<elem, chain, RollbackNextBucket, launcher, rollback_request, undo_workers,
                       running_undo_workers, discard, mixed, errors, fatals>>

\* No request, no rollback: the slot is flagged all the same.
FlagAbsent(p) ==
    /\ proc[p].pc = "absent"
    /\ finished' = finished \cup {proc[p].undowork.slot}
    /\ Goto(p, "remove")
    /\ UNCHANGED <<elem, chain, RollbackNextBucket, launcher, rollback_request, undo_workers,
                   running_undo_workers, discard, rolledback, mixed, errors, fatals>>

RemoveRequest(p) ==
    /\ proc[p].pc = "remove"
    /\ remove_rollback_entry(proc[p].undowork.key)
    /\ Goto(p, "exit")
    /\ UNCHANGED <<RollbackNextBucket, launcher, rollback_request, undo_workers,
                   running_undo_workers, discard, rolledback, finished, mixed, errors, fatals>>

MarkFail(p) ==
    /\ proc[p].pc = "fail"
    /\ mark_rollback_fail(proc[p].undowork.key)
    /\ Goto(p, "exit")
    /\ UNCHANGED <<RollbackNextBucket, launcher, rollback_request, undo_workers,
                   running_undo_workers, discard, rolledback, finished, mixed, errors, fatals>>

\* Mutant: the worker slot keeps its xid.
UndoWorkerFreeInfo_KeepXid(p) ==
    /\ proc[p].pc = "exit"
    /\ undo_workers' = [i \in Workers |-> IF undo_workers[i].pid = p
                                          THEN [undo_workers[i] EXCEPT !.pid = NoProc]
                                          ELSE undo_workers[i]]
    /\ Goto(p, "free")
    /\ UNCHANGED <<elem, chain, RollbackNextBucket, launcher, rollback_request,
                   running_undo_workers, discard, rolledback, finished, mixed, errors, fatals>>

\* UndoWorkerFreeInfo: the worker slot first, without the lock, then the
\* request.
UndoWorkerFreeInfo(p) ==
    LET mine == {i \in Workers : undo_workers[i].pid = p}
        i == CHOOSE x \in mine : \A y \in mine : x <= y
    IN  /\ proc[p].pc = "exit"
        /\ undo_workers' = IF mine = {} THEN undo_workers ELSE [undo_workers EXCEPT ![i] = FreeWorker]
        /\ Goto(p, "free")
        /\ UNCHANGED <<elem, chain, RollbackNextBucket, launcher, rollback_request,
                       running_undo_workers, discard, rolledback, finished, mixed, errors, fatals>>

\* Mutant: the counter of running workers stays.
UndoWorkerFreeRequest_NoCount(p) ==
    /\ proc[p].pc = "free"
    /\ mark_rollback_progress(proc[p].undowork.key, FALSE)
    /\ proc' = [proc EXCEPT ![p] = Dead]
    /\ UNCHANGED <<RollbackNextBucket, launcher, rollback_request, undo_workers,
                   running_undo_workers, discard, rolledback, finished, mixed, errors, fatals>>

UndoWorkerFreeRequest(p) ==
    /\ proc[p].pc = "free"
    /\ mark_rollback_progress(proc[p].undowork.key, FALSE)
    /\ running_undo_workers' = running_undo_workers - 1
    /\ proc' = [proc EXCEPT ![p] = Dead]
    /\ UNCHANGED <<RollbackNextBucket, launcher, rollback_request, undo_workers,
                   discard, rolledback, finished, mixed, errors, fatals>>

-----------------------------------------------------------------------------
Discard == (\E r \in Requests : DiscardReadsSlot(r)) \/ request_async_rollback

Launcher ==
    \/ LauncherScan \/ UndoLauncherGetRequest \/ CopyEntry \/ WriteMailbox
    \/ StartUndoWorkerByIdx \/ StartUndoWorkerDone \/ StartUndoWorkerAgain
    \/ StartUndoWorkerGivesUp

Process(p) ==
    \/ UndoWorkerStarts(p) \/ UndoWorkerGetRequest(p) \/ InitPostgresFails(p)
    \/ ClaimWorker(p) \/ MarkInProgress(p) \/ execute_undo_actions(p)
    \/ execute_mixed_undo_actions(p) \/ FlagAbsent(p) \/ RemoveRequest(p) \/ MarkFail(p)
    \/ UndoWorkerFreeInfo(p) \/ UndoWorkerFreeRequest(p)

Next == Discard \/ Launcher \/ LauncherRestarts \/ \E p \in Procs : Process(p)

\* Processes run; the launcher's loop wakes up by timeout at the latest; each
\* pass of the discard worker comes to every slot that still needs a rollback.
Fairness ==
    /\ \A r \in Requests : SF_vars(DiscardReadsSlot(r))
    /\ WF_vars(request_async_rollback)
    /\ WF_vars(Launcher)
    /\ \A p \in Procs : WF_vars(Process(p))

Spec == Init /\ [][Next]_vars

FairSpec == Spec /\ Fairness

-----------------------------------------------------------------------------
(* Properties                                                              *)

Steps == {"none", "started", "copy", "init", "mark", "perform", "absent", "remove", "fail",
          "exit", "free"}
Work == [key : Requests \cup {NoRequest}, slot : Requests \cup {NoRequest}]

\* Every variable holds a value of its C type, a request has one entry, in
\* its own bucket, and the counter of running workers is true.
TypeOK ==
    /\ elem \in [Elements -> [req : Requests \cup {NoRequest}, in_progress : BOOLEAN,
                              retry_delay : 0 .. Delay]]
    /\ chain \in [Buckets -> Seq(Elements)]
    /\ launcher \in [pc : {"loop", "entry", "copy", "mail", "start", "wait"},
                     entry : {NoEntry} \cup Elements, request : Work,
                     idx : {0} \cup Workers, starts : 0 .. 2]
    /\ rollback_request \in Work /\ discard \in Requests \cup {NoRequest}
    /\ undo_workers \in [Workers -> [xid : Nat, pid : Procs \cup {NoProc}]]
    /\ proc \in [Procs -> [pc : Steps, undowork : Work]]
    /\ rolledback \subseteq Requests /\ finished \subseteq Requests /\ mixed \subseteq Requests
    /\ \A k \in Buckets : \A i \in 1 .. Len(chain[k]) :
           elem[chain[k][i]].req \in Requests /\ Bucket[elem[chain[k][i]].req] = k
    /\ \A k \in Buckets : \A i, j \in 1 .. Len(chain[k]) :
           elem[chain[k][i]].req = elem[chain[k][j]].req => i = j
    /\ running_undo_workers = Cardinality({p \in Procs : proc[p].pc \notin {"none", "started"}})
    /\ RollbackNextBucket \in 0 .. NBuckets

\* set_undo_slot_rollback_finish is called only for slots whose rows are
\* rolled back, even by a late or second process that finds no request: below
\* the frozen horizon a flagged slot counts as committed.  Only slots that a
\* copy put together from two requests has a part of are exempt: a process
\* with the key of one that is gone and the slot of another flags that slot
\* without a rollback.
FinishedRolledBack == finished \subseteq rolledback \cup mixed

\* With every process gone and the launcher back in its loop, no worker slot
\* is held and no request is left in progress: each would never be served
\* again.
NothingLeftHeld ==
    launcher.pc = "loop" /\ (\A p \in Procs : proc[p] = Dead) =>
        /\ \A i \in Workers : undo_workers[i] = FreeWorker
        /\ \A e \in InTable : ~elem[e].in_progress

\* Every slot of an aborted transaction is rolled back and flagged: errors
\* and slots that wait for a later log are tried again.
AllRolledBack == \A r \in Requests : <>(r \in finished)
=============================================================================
