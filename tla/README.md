# A TLA+ development of OpenTeleDB's XStore and XProxy

OpenTeleDB is PostgreSQL 17 with three additions: **XStore** (`src/contrib/xstore`), a
storage engine that updates rows in place and keeps old versions in undo logs;
**XProxy** (`src/contrib/xproxy`), a connection pooler derived from Odyssey; and
**query_check** (`src/contrib/query_check`), a statement filter. A fourth, XRaft, is
described in the documentation and has no source in this repository.

This development models XStore's undo, and the server pools of XProxy. Undo is where backends,
a background discard worker, rollback workers, checkpoints and standby feedback meet without a
common lock, and where a mistake destroys old versions that a rollback or a snapshot still needs,
or makes an aborted change count as committed. A pool is where clients of several threads wait
for one another by counters and signals, and where a mistake leaves them waiting.

Contents: [inventory](#inventory) · [modules](#modules) · [runs](#runs) ·
[fairness](#fairness) · [what is proved](#what-is-proved) · [findings](#findings) ·
[what is not modelled](#what-is-not-modelled) · [plan](#plan)

## Inventory

| part | source | state | operations |
|---|---|---|---|
| undo logs | `xstore/src/undo/undolog.c` | per log: insert, discard and force-discard offsets, allocate, frozen and recycle slot pointers, `recycle_xid`, attached flag; shared: `global_frozen_xid`, `global_recycle_xid`, used-log count | attach, allocate space and slot, switch to a fresh log, publish a slot, detach, retire at a checkpoint |
| discard worker | `undolog.c` (`discard_worker_main` and below) | its locals: oldest xmin, minima over the logs of a pass, forced-recycling state | freeze, request rollbacks, recycle pages of slots, publish the two horizons |
| rollback requests | `undorequest.c` | bounded hash table of slots to roll back, in-progress flags, retry delays, next bucket | register, scan, mark, remove, execute page by page |
| launcher and workers | `undoworker.c` | mailbox for one request, worker slots, count of running workers | pick a request, start a process, wait, start another, give up; claim, roll back, clean up |
| undo records | `undofetch.c`, `undobuffer.c`, `undorecord.c` | records chained by address within a log and by an explicit link across logs | append, walk a range, walk one row's chain, sort a batch by page |
| transactions | `xstore/src/util/xxact.c`, PostgreSQL's proc array | undo addresses at each nesting level; xids, snapshots, standby xmin | assign, commit, abort, savepoints, hand addresses to the parent |
| xheap | `xstore/src/xheap` | pages of rows, each with the xid and undo address of its newest change | insert, multi-insert, update, delete, wait, undo; visibility, row locks, pruning |
| xbtree | `xstore/src/xbtree` | index pages, recycle queue | insert, split, undo, recycle |
| segments and files | `undofile.c`, parts of `undolog.c` | segment files and their bounds | extend, unlink, checkpoint |
| WAL and recovery | `undoxlog.c`, parts of `undolog.c` | undo meta data in WAL and on meta pages | redo, checkpoint, recovery |
| XProxy | `contrib/xproxy/sources` | routes, client and server pools, wait queues | route, attach, detach, reset, cancel |
| query_check | `contrib/query_check` | none that outlives a statement | check a statement |

How they interact: a backend attaches to one undo log and appends a record for every row
change; each transaction owns one *slot* in each log it wrote to. The discard worker walks
the slots of all logs without the writers' cooperation. A slot is **settled** when its
transaction committed or its rollback has finished. The worker moves a log's frozen
pointer over settled slots, asks for a rollback where it meets an aborted one, recycles
what no snapshot needs, and publishes two horizons: below `global_frozen_xid` readers take
every xid for committed without looking, and below `global_recycle_xid` no undo is left to be
applied: a rollback that meets such an xid is a PANIC. A rollback request goes through a
shared hash table to the launcher, through a one-request mailbox to a worker process, and
from there page by page to the rows.

What is hard here: the worker decides from values read some steps ago; a slot is visible
before its start pointer is; a transaction that fills its log goes on in another, and the
part in the later log must be undone first; three kinds of process undo the same rows;
the request table is bounded and forgets; worker processes come up late, twice or never;
a standby may push the horizon back; over a space limit undo is recycled that snapshots
may still want; hints on rows are believed without a look. In XProxy the decision to wait, the
wait and the signal happen under different locks. `PROJECT.json` lists these hazards at their lines, with the properties
that would catch them.

What correctness means: undo is given up, and horizons pass, only over settled
transactions; a snapshot's undo is kept or its loss is reported; readers find the last
committed version at every moment of a rollback; a slot is flagged as rolled back only when
it is; ROLLBACK TO SAVEPOINT restores exactly what was; every aborted transaction is
eventually undone and all undo eventually reclaimed. In XProxy: the counters by which clients
wait and signal are exact, and a waiting client is woken.

## Modules

| module | models | source |
|---|---|---|
| `UndoLog` | logs, slots, writers, the discard worker, horizons, and rollback as the log sees it | `undolog.c`, `undorequest.c`, `xxact.c` |
| `UndoLogInv` | the inductive invariant of `UndoLog` | |
| `UndoRetention`, `UndoLogRetention` | what the undo logs promise, as an abstract specification, and the refinement mapping from `UndoLog` to it | |
| `UndoLogStepProofs`, `UndoLogDiscardProofs`, `UndoRetentionProofs`, `UndoLogProofs` | the proofs about `UndoLog` | |
| `UndoRecovery` | WAL, redo, checkpoints and files of one undo log under crashes | `undoxlog.c`, `undolog.c`, `undofile.c`, `undobuffer.c` |
| `UndoRecoveryInv`, `UndoRecoveryStepProofs`, `UndoRecoveryProofs` | the inductive invariant of `UndoRecovery`; the proofs | |
| `SubXact` | undo addresses of nested subtransactions, links between records | `xxact.c`, `undobuffer.c`, `undofetch.c` |
| `UndoSort` | the comparator and quicksort that order a batch of undo records | `undofetch.c`, `sort_template.h` |
| `XHeapUndo` | rows, every way to undo them, snapshot reads, hints, pruning | `xheapundo.c`, `undorequest.c`, `xheapam.c`, `xheapam_visibility.c`, `prunexheap.c`, `xlock.c` |
| `UndoRollback`, `UndoRollbackProofs` | hash table, launcher, mailbox and worker processes; the proofs | `undoworker.c`, `undorequest.c` |
| `XProxyPool`, `XProxyPoolProofs` | the server pools of a route; the proofs | `router.c`, `route.h`, `frontend.c`, `cron.c`, machinarium's `channel.c` |
| `MCUndoLog`, `MCXHeapUndo`, `MCUndoRollback` | small instances and symmetries for TLC | |

`UndoLog`, `XHeapUndo` and `UndoRollback` are three views of one rollback. `UndoLog` takes
"execute the undo of a slot and flag it" as one step and asks what the log and the horizons
make of it; `XHeapUndo` opens that step row by row; `UndoRollback` opens the way a request
takes to a process. What one assumes another checks: `UndoLog` flags a slot only when it is
undone (`RollbackComplete` of `XHeapUndo`, `FinishedRolledBack` of `UndoRollback`), and its
fairness for rollbacks is what `AllRolledBack` of `UndoRollback` shows where requests do not share
a bucket. Each has a limit, described under [findings](#findings): a request put together from two
may flag a slot that is not undone, and requests in one bucket may starve. In turn `XHeapUndo` moves the frozen
horizon only where `FrozenSettled` of `UndoLog` lets it be. `UndoRecovery` is the fourth view:
one log whose memory is lost at any step and rebuilt from files and WAL.

### UndoLog

One action per stretch of code between two accesses to shared state that others may change.
Offsets count units of undo data from 1; a slot pointer is the number of slots before it;
recycled slots stay in the sequence so that properties can speak of them.

* Backends: `alloc_undo_log`, `AssignTransactionId`, `undolog_switch`,
  `update_undolog_meta` (the insert pointer moves and the slot becomes visible),
  `release_undolog_meta` (its pointers are published and the log's lock is dropped),
  `EndTransaction`, `cleanup_undo_log`. `phase[b]` is where a backend is between them.
* Horizons: `GetSnapshotData`, `ReleaseSnapshot`, `StandbyFeedback`. `OldestXminSet` is what
  `GetOldestNonRemovableTransactionId` takes the least of.
* Discard worker, its C locals in the record `dw`: `discard_loop`, `discard_skip_log`,
  `advance_frozen_xid`, `request_async_rollback`, `recycle_undo_space` and
  `recycle_release` (the two halves of one critical section), `discard_publish_frozen`,
  `discard_retry`, `discard_publish_recycle`, `discard_restart`.
* `checkpoint_undo_logs` retires full and empty logs; `execute_undo_actions` serves a request.

Left open rather than modelled: whether the undo space is over its limit
(`check_need_force_recycle`), which is a choice from `ForceRecycle`. All logs are permanent.

### UndoRetention

The same system without pointers, passes, requests and processes. A *part* `<<l, x>>` is the
undo transaction `x` wrote in log `l`; it is written, undone and released, and it is *owed* while
its transaction has not committed and it is not undone. Parts are undone only for aborted
transactions, once, and while they are there; they are released, and the horizons move, only where
nothing is owed. `UndoLogRetention` maps slots to parts: a slot is a written part, a flagged slot
an undone one, and the slots before the recycle pointer are released. Most steps of the discard
worker map to no step at all. `UndoRetention` lets the horizons move either way: that is all the
readers of the horizons rely on (see `HorizonsAdvance` below).

### SubXact

One backend. A level of nesting is `[first, latest, latest_xact]`, the three undo addresses
in `TransactionStateData`; `mark`, the number of records when the level started, is only for
the property. A record carries its log and the link to the record before it if it opened
the log. `apply_undo_actions(level)` is the set of records the code's walk reaches. A record that
opened its log and has no link has nothing before it: the walk goes on below the log (`OffLog`), to
a block number that means a new block, and the server goes down (`up`). Which batches were undone
by then does not matter, as recovery rolls back the whole transaction.

### UndoSort

`undo_record_comparator` and the quicksort of `sort_template.h`, both branches: insertion sort
below seven records, partition above (pivot by median of three above seven; the median of
medians above forty is not modelled). `XHeapUndo` orders its batches with it.

### UndoRecovery

One permanent undo log, one page of rows, and everything of them that is in memory, in buffers, in
files and in the WAL. An LSN is a position in the WAL, a pointer counts records or slots. Running:
`undolog_alloc_space` and `undolog_alloc_slot_space` extend the segments, `insert_prepared_undo`
writes record, slot and row (one WAL record, with full-page images after a checkpoint's redo
pointer), `Commit` flushes, `Abort` does not, `execute_undo_actions` and
`set_undo_slot_rollback_finish` roll back, `recycle_undo_space` discards, and
`undolog_release_space` and `undolog_release_slot_space` release files (buffers forgotten, files
truncated, *then* the WAL record). A page may be written at any time after the WAL up to its LSN. A checkpoint copies the meta data of log and segments to the
meta data file in separate steps, flushing the WAL first. A crash keeps files, flushed WAL and the
last complete checkpoint; recovery loads the meta data file and replays record by record, with the
code's gates (`is_skip_insert_undo`, `is_skip_insert_slot`, the LSNs of the meta data) and its
PANICs, and may crash again.

Abstractions: a write to a file is durable at once, `full_page_writes` is on and commits are
synchronous; xids are not used again after a crash; there is no checkpoint at the end of recovery;
the log is never full, and the forced discard pointer is not told from the discard pointer; a
checkpoint writes the undo files before the tables.

### XHeapUndo

A row is `[used, xid, urec, val, op, hint]`. `val` names a version by the record that made it;
`op` is what the row's flags say of that change: it made the row (`new`), changed it in place
(`modified`), or took it away (`gone`: deleted, or updated to another place); `hint` is what they
say of its transaction. Writers change rows and append records in one step, as the code does under
the buffer lock. A writer that meets another's row notes xid and undo address, lets go of the page
(`xheap_wait`) and later undoes that row from the noted address (`xheap_wait_done`). Rollbacks run
batch by batch and page by page (`do_undo_actions`), each page in one step under its buffer lock,
and may fail between pages. `UndoLoop` is the loop of `execute_xheap_undoactions`, with the loop
index as the code uses it.

Readers take a snapshot (`xip`, the xids it does not see) and fetch: `xheap_tuple_fetch` decides on
the row, `get_tuple_from_undo` walks the chain of old versions. `xheap_set_hint` is the note a
reader leaves on the row. `AdvanceFrozen` moves the frozen horizon over any settled transactions,
up to the oldest snapshot, and `xheap_page_prune` frees the pointers of rows deleted below it
(`pd_prune_xid` only decides whether to look, so pruning may happen whenever there is something to
prune). `committed`, and `seen` in a snapshot, are history variables: the last committed version
of each row, now and when the snapshot was taken.

### UndoRollback

Cells of the hash table keep their contents after removal, because the launcher reads one
after it has let go of the lock, field by field (`UndoLauncherGetRequest`, `CopyEntry`). It writes
the request to the mailbox (`WriteMailbox`), which has no lock either, and a process copies it from
there (`UndoWorkerStarts`, `UndoWorkerGetRequest`). So a copy of a request is two parts: its key
(xid and first record, by which it is looked up) and its slot (last record, database and slot). When
the source changes while it is copied, each part is the old or the new one (`Copies`); a *mixed*
copy has the key of one request and the slot of another. Finer parts would add nothing: a key put
together from two requests is found in the table no more than the key of a request that is gone.

The launcher's `StartUndoWorkerByIdx` is split at its waits: started, started again after 10 s, given
up 10 ms later. `SlowStart` says whether a process may take longer than that to come up; a mixed copy
needs one that does, since a cell that was removed keeps its retry delay. `LauncherRestarts` is a
launcher that was told to stop and comes back 5 s later: it clears the first worker slot no process
has (`CleanupUndoWorkers`) and scans from the first bucket. A process may die in `InitPostgres`,
claims a worker slot by xid, marks the request, rolls back (`execute_undo_actions`, or
`execute_mixed_undo_actions` for a mixed copy), removes the request or marks it failed, and cleans
up in two steps.

Taken as one step though they are not: `register_rollback_req` (the choice in `Copies` stands for a
cell half written), the launcher's comparison of the xids of all worker slots, and the decrement of
`retry_delay`, which is unlocked and may be lost or go to -1 (the delay is then shorter or longer,
nothing else). What a mixed walk does to rows of other transactions is not followed: the model lets
it undo either request, both or none.

### XProxyPool

The pools of one route, one per endpoint, with the clients that use them and the cron thread. A
step is what a thread does under one hold of the route lock or of a channel's lock, or one atomic
update of a `waiters` counter; `pc` in a client's record says where it is in `od_frontend_attach`,
`od_router_attach`, `mm_channel_read` and `od_router_detach`. Servers of a pool are interchangeable,
so a pool is two counts, idle and active. Which endpoints have the role a client needs is left open
at every look, since the watchdog may change it at any time. A wait ends by a signal, by
`pool_timeout` or by a failed `od_io_read_stop`; a server leaves its client by detach, a failed
connect, a failed reset or an error. Servers and messages for which there is no memory are modelled
(`od_server_allocate_fails`, the last alternative of `od_route_signal`). `dropped` is an auxiliary
variable: the endpoints whose last server to leave use was closed rather than given back, or given
back without the signal. A `wait_bus` keeps any number of messages; `MaxMsgs` bounds them, and a
client with one more to keep does not go on until there is room.

## Runs

"Passing" runs explore every reachable state of the instance. Sizes are distinct states.

| run | instance | checks | size |
|---|---|---|---|
| `undolog_safety` | 2 backends, 1 reader, 2 logs of 2 units, 2 xids | `IndInv`, `SnapshotUndoKept`, `SlotsContiguous` | 983,104 |
| `undolog_force` | 1 backend, 1 reader, 1 log of 2 units, 2 xids, forced recycling on or off, fair | `RecycledSettled`, `GlobalRecycleBound`, `SnapshotUndoKept`, `ImplementsRetention`, `AbortedRolledBack`, `UndoReclaimed` | 193,875 |
| `undolog_switch` | 1 backend, 2 logs, records of 1 or 2 units, standby feedback, 1 restart | `TypeOK`, `FrozenSettled`, `HorizonsAdvance` | 2,505,622 |
| `subxact_nested` | 4 levels, 5 records, 3 logs | `TypeOK`, `SubRollbackExact` | 160,602 |
| `xheapundo_async` | 2 writers, 1 undo worker, 1 reader, 1 page, 2 xids, 3 records, 2 logs per transaction, horizon up to 3 | `TypeOK`, `ReadersFindCommitted`, `HintsTrue`, `RollbackComplete` | 478,561 |
| `xheapundo_savepoint` | 2 writers with savepoints, 2 pages, 3 records, batches of 2, no plain deletes | `SavepointRestored` | 761,705 |
| `undorollback_safety` | 2 slots of one transaction, table of 1 entry, 2 processes, slow starts, restarts of the launcher, 1 error, 1 failed start | `TypeOK`, `FinishedRolledBack`, `NothingLeftHeld` | 540,181 |
| `undorollback_live` | 2 slots of one transaction in two buckets, table of 2 entries, 1 error, fair | `TypeOK`, `AllRolledBack` | 63,926 |
| `undorecovery_safety` | 2 xids, 2 records, files of 2 records and 1 slot, 6 WAL records, 1 checkpoint, 2 crashes or stray page writes | `TypeOK`, `RedoNeverPanics`, `PointersMatchWal`, `UndoKept`, `FrozenGone` | 1,974,668 |
| `xproxypool` | 3 clients, 1 endpoint, pool of 2, 1 connect at a time, with and without `pool_timeout`, fair | `TypeOK`, `WaitersCounted`, `ServersHeld`, `WaitersQueued`, `NoSleepOnSignal`, `WaiterWoken` | 594,915 |

Two more runs (`subxact_lost_link`, `xheapundo_multi`) end in a violation; they are the
[findings](#findings).

What they show:

* **Undo is given up only when nobody needs it** (`undolog_safety`, `undolog_force`).
  Two backends are enough for a slot to be appended, a log to change hands and a transaction
  to end between any two reads of the discard worker; two logs make a pass take values at
  different times; two units per log fill it, two xids make one transaction finish behind
  another, and a page of two slots puts the page boundary inside the run.
  `SnapshotUndoKept` is stated with the code's own classification: a reader is never
  told `DISCARD` for undo its snapshot may need, and after forced recycling it is told
  `FORCE_DISCARD`, which ends in "snapshot too old".
* **The undo logs keep a simple promise** (`undolog_force`): every step is a step of
  `UndoRetention` or none. In particular a rollback is never applied to a transaction that runs
  or committed, although the decision, the request and the rollback are steps of three processes.
* **Horizons do not go back** (`undolog_switch`), although `global_frozen_xid` is written
  without being compared, as long as recycling is not forced. With forced passes it may step
  back: `lastForceAdvanceXid` is noted; a standby pushes the horizon below it; a pass that meets no
  used log publishes `global_frozen_xid = lastForceAdvanceXid`; the forced loop retries with the
  same oldest xmin, meets a new slot and publishes that xmin (one log of 4 units, 2 xids, feedback
  from {0, 3}, forced recycling: some 30 steps). Nothing in the code promises otherwise, and
  `FrozenSettled` holds all the same, so this is recorded as a hazard only.
* **Recovery rebuilds the log** (`undorecovery_safety`), from a meta data file that may be ahead of
  the redo pointer and may hold a log older than its segments: no redo routine meets a record it
  cannot place (the PANICs for a record past the tail of its segment and for a discard out of
  sequence; those for the total size of undo and for invalid pages are not modelled), the
  pointers end where the WAL says, the undo of every transaction still to be rolled back is there
  and reads as it was written, and below the frozen xid nothing of an aborted transaction is left,
  even when the crash took a rollback back. One checkpoint and two faults let a crash
  fall between any two steps, before, in and after the checkpoint and in the recovery from another
  crash; two records cross a file of slots and fill one of records. `UndoKept` exempts one known
  window, described under [findings](#findings).
* **Rollback to a savepoint** undoes what was written since and nothing else: by addresses
  (`subxact_nested`, for walks that stay within the logs, with a switch to a fresh log at any level;
  that they always do is the comment that `subxact_lost_link` refutes) and by rows (`xheapundo_savepoint`, where a second
  transaction may wait for those rows and a batch ends between two changes of one row).
* **Readers find the committed version at every moment** (`xheapundo_async`): the version that was
  committed when the snapshot was taken, whatever is committed, undone, frozen, hinted and pruned
  since, with a worker, a failed and repeated worker and a waiting writer undoing the same rows in
  any order. A hint never says anything else than the commit log, also when undo puts it back, and
  a flagged slot has left no trace.
* **Every abort is undone and all undo reclaimed** (`undolog_force`, fair), with and without forced
  recycling.
* **Requests** (`undorollback_*`): a slot is never flagged without being undone, unless a mixed copy
  had a part of it (the history variable `mixed`), and nothing stays held, even with late and
  duplicate processes and restarts of the launcher. A table of one entry makes the two requests use
  the same cell, so that the launcher's copy of one may get parts of the other; with two entries and
  slow starts there are more than ten million states, and only the proof covers them. Every slot is
  rolled back in the end where each request has a bucket and no process dies in `InitPostgres`. After
  such a death (`MaxFatal` 1) `AllRolledBack` fails: a second process for the same request may find
  its entry gone in `mark_rollback_fail`.
* **Pools** (`xproxypool`): waiters and held servers are counted right over every way a wait or a
  connection ends, no client sleeps over a signal, and a waiter is woken unless the server it waited
  for was closed or the signal found no memory. With three clients over a pool of two, one waits while two others hold servers,
  and one that never waited may take the server a signal announced. `WaiterWoken` is stated of one client,
  clients being interchangeable. One kept message (`MaxMsgs`) is enough for a signal to come before the
  sleeper; with two the run passes as well (851,903 states).

Each property has a mutant in `PROJECT.json`: a change a plausible bug would make to a mapped
definition, under which TLC finds the property violated.

Bounds are named constants: `MaxXid`, `MaxRestarts`, `MaxRecords`, `MaxFrozen`, `MaxSlot`,
`MaxDepth`, `MaxErrors`, `MaxFatal`, `MaxWal`, `MaxCheckpoints`, `MaxFaults`,
`MaxMsgs`. They bound how
many transactions, records, restarts and failures there are, never what a step does. Symmetry is used for backends, workers and processes, which
no definition tells apart, and not in the fair runs. Deadlock is checked except in `XHeapUndo`
and `UndoRecovery`, where a finished instance (all xids and records used up) really stops.

## Fairness

`UndoLog`: a half-written record is completed and transactions and snapshots end (users are
assumed not to keep them open for ever); the discard worker runs, as the postmaster restarts it
and its loop wakes up by timeout; a request that is not waiting for a later log is served, which
is what `UndoRollback` shows for requests in buckets of their own, with room in the table and without
processes that die in `InitPostgres`; it is an assumption for the others. All are weak fairness.

`UndoRollback`: weak fairness for the launcher, whose loop wakes up by timeout, for each
process, and for the entry of a request the discard worker has read; strong fairness for
`DiscardReadsSlot`, because every pass visits every slot that is not yet flagged, while the
worker is busy with another slot in between. Errors are bounded: a rollback that fails for ever
is never done.

`XProxyPool`: weak fairness for each client that has begun to attach: coroutines are scheduled,
waits with a time limit end, connects succeed or fail, and a client that holds a server ends its
transaction. Nobody is assumed to come for a server, and nothing is assumed of the cron thread.

## What is proved

All theorems hold for every value of the constants that the named assumptions of the modules
admit. Those say no more than the code does: sizes are natural numbers, records fit into a log,
standby horizons are xids, a file holds at least one record or slot (`ConstantsAssumption`); a request hashes to a bucket of the table, does
not wait for itself and has an xid, and processes are finitely many (`UndoRollbackAssumption`);
there is an endpoint, a connect and a message at a time, and clients are finitely many
(`PoolAssumption`).

| module | theorem | states |
|---|---|---|
| `UndoLogProofs` | `Invariance` | `Spec => []IndInv` |
| | `TypeCorrect` | `Spec => []TypeOK` |
| | `FrozenSafe` | `Spec => []FrozenSettled` |
| | `RecycleSafe` | `Spec => []RecycledSettled` |
| | `RecycleBound` | `Spec => []GlobalRecycleBound` |
| | `Implementation` | `Spec => ImplementsRetention`, which is `UndoRetention`'s `Spec` under the mapping |
| | `RetentionPromise` | `Spec => []R!NothingOwedGone`: what is released or below a horizon is owed to nobody |
| | `Contiguous` | `Spec => []SlotsContiguous` |
| | `SnapshotSafe` | `Spec => []SnapshotUndoKept` |
| | `FirstPassForward` | `global_recycle_xid` never moves back, and `global_frozen_xid` not in a first pass |
| | `HorizonsForward` | `TRUE \notin ForceRecycle => (Spec => HorizonsAdvance)` |
| `UndoRollbackProofs` | `RollbackInvariance` | `Spec => []IndInv` of that module |
| | `RollbackTypeCorrect` | `Spec => []TypeOK` |
| | `FlagsTrue` | `Spec => []FinishedRolledBack` |
| | `NothingLost` | `Spec => []NothingLeftHeld` |
| `UndoRecoveryProofs` | `RecoveryInvariance` | `Spec => []IInv` |
| | `RecoveryTypeCorrect`, `RecoveryNeverPanics`, `RecoveryPointers` | `Spec => []` of `TypeOK`, `RedoNeverPanics`, `PointersMatchWal` |
| `XProxyPoolProofs` | `PoolInvariance` | `Spec => []PoolInv` |
| | `PoolTypeCorrect`, `WaitersExact`, `ServersExact`, `QueueExact`, `SignalsTaken` | `Spec => []` of `TypeOK`, `WaitersCounted`, `ServersHeld`, `WaitersQueued`, `NoSleepOnSignal` |

### Undo logs

None of the safety properties is inductive: each is about what the discard worker
publishes, and it publishes from locals read in earlier steps. `IndInv` adds what makes those
locals trustworthy:

* `XactInv`: proc array and commit log agree. `CtxInv`: a log has one writer, and what a writer
  remembers of its slot is true. `SlotInv`: slots are in xid order, and a slot whose start is
  not published belongs to a running transaction in the middle of writing. `UsedInv`: the used
  logs are counted right and retired logs are empty.
* `PointerInv`: slots below a frozen pointer, and xids up to `recycle_xid`, are settled.
* `HorizonInv`: every horizon ever taken has only finished transactions below it.
* `PassInv`, `AtLogInv`: what the locals say of the logs this pass has been through, and of the
  log at hand.

The argument rests on two facts. A settled slot stays settled (`GrowStep`, `StableSettled`).
And a slot allocated later belongs to a running transaction, so it lies at or above every
horizon already taken (`StableBelow`, from `OverStep`). Hence a minimum taken over logs visited
at different times is still right when it is published.

For the refinement `IndInv` needs two more facts: what is requested, or about to be, has aborted
(`RequestInv`), and the recycle pointer moves forward (`ReleaseInv`). That a rollback comes before
the release of its undo then needs no order of offsets: a released part is settled, so a part that
is not yet undone cannot be released. `RetentionPromise` is proved from the abstract steps and
reaches `UndoLog` through `Implementation`.

Contiguous undo (`SpaceInv`) holds although a slot shows before its pointers do: between
`update_undolog_meta` and `release_undolog_meta` the insert pointer is ahead of the slots, by exactly
the record of the one backend that holds the log (`WritesAt`). For snapshots, `KeptInv` says that
`discard_offset` is the end of slots whose transactions are over and older than every snapshot, and
that `recycle_xid` tells of whatever else was recycled; the first needs that a snapshot taken later
is not older than the oldest xmin of a pass under way. `AdvanceInv` says why the horizons of a first
pass do not go back: every horizon the pass has in hand is at or above `global_frozen_xid`, because
a slot below it is settled and holds nothing back. A retry of a forced loop has no such bound, and
there `global_frozen_xid` really may step back (see `HorizonsAdvance` above).

| module | proves |
|---|---|
| `UndoLogStepProofs` | which actions touch which variables (`XactCases`, `SlotCases`, ...); what a step can do to transactions and slots (`SlotChange`, `GrowStep`); a log has one writer |
| `UndoLogDiscardProofs` | each action keeps `TypeOK`; settled slots stay settled; steps of others keep pointers and horizons (`Quiet...`); the discard worker's actions, one lemma each |
| `UndoRetentionProofs` | what a writer remembers of its slot; the count of used logs, by cardinalities; the initial state; every step is a step of `UndoRetention` or none; `AdvanceInv` |
| `UndoLogProofs` | order and start pointers of slots; `SpaceInv`, `UndoneInv`, `KeptInv`; the theorems |

### Asynchronous rollback

`FinishedRolledBack` is endangered by a process that finds no request and takes that for a sign
that its slot is rolled back. It is, by `ServedInv`, as long as the process has one request and not
parts of two: a request that is named anywhere, in a removed cell the launcher still reads, in either
part of its copy, in the mailbox, or by a process that has yet to look, is in the table, rolled back,
or a part of some mixed copy (`Settled`, `Served`). A part may pass from cell to launcher to mailbox to
process while each of them changes, so it is the parts that are served, and a copy with equal parts
is one request (`WorkServed`, `Known`). `FlagsTrue` says no more of mixed copies than that they
are the only exception; what comes of one is under [findings](#findings).

`HeldInv` says who will let go of what is held: a worker slot without a process belongs to the
launcher's wait, and was free when the launcher chose it and until it took it, one with a process
belongs to that process alone, and an entry in progress to some process on its way to remove it or to
mark it failed. Errors, failed starts, second processes and restarts of the launcher each keep it,
and with no process left nothing can be held.

### Recovery

`PointersMatchWal` is about a running server, and a crash leaves only the files and the WAL, so the
invariant `IInv` has to say what those are worth. `InsertAt`, `AllocAt`, `TailAt` and so on give a
pointer or bound after the first n records (from the last record that sets it); a log or segment
*agrees* with a prefix when it has those values. Then

* memory, and each part of the meta data file, agrees with **every** prefix from its own LSN to the
  point of replay (`LogSpan`, `DataSpan`, `TxnSpan`: to the end of the WAL while the server runs, to
  the redo pointer for the file, to the checkpoint's own redo pointer for a part it is done with).
  That is what makes the LSN gates of the redo routines right: below its LSN a part is ahead, and a
  record with a larger LSN finds exactly the values it was written against;
* each record was in order when it was written (`Checked`): an insert below both tails and at the
  pointers, a discard from the recycle pointer, an unlink below the pointers;
* pointers and bounds of every prefix are in order (`PrefixInv`), and insert pointer and tails only
  grow (`GrowInv`). So a segment that is ahead of the record at hand has at least the tail the
  record was checked against, and `PastTail` is false (`RedoTails`);
* slots on pages end below the insert pointer of the page's LSN (`PageInv`), what is not dirty is as
  in the file (`DirtyInv`), and the writer's slot is the last (`WriterInv`).

A step that writes a record (`WriteStep`) and one that replays a record (`ReplayStep`) keep `IInv`
under conditions that each action, and each redo routine, is then shown to meet. A crash cuts the
WAL to a prefix no shorter than what any file holds (`CrashStep`). `UndoRecoveryInv` has the
invariant, `UndoRecoveryStepProofs` the prefixes and the steps that write records,
`UndoRecoveryProofs` the checkpoint, the crash, the replay and the theorems.

### Pools

The five invariants are inductive together. Each action is shown to move one client between states
and to change each counter by the difference of that client's share (`Moves`, `Share`), so that counts
and cardinalities stay equal; the queue of a `wait_bus` follows the clients that sleep on it.

### Only model-checked

* Liveness (`AbortedRolledBack`, `UndoReclaimed`, `AllRolledBack`, `WaiterWoken`) and `ENABLED` are
  out of the prover's reach.
* `XHeapUndo` rests on the sort of `UndoSort` and on a walk along undo chains, both recursive over
  their input; `SubXact` on a walk along records. What a recursion computes for every input would
  need induction over data, which the installed provers cannot do.
* `UndoKept` and `FrozenGone` of `UndoRecovery`: they compare the contents of pages with the
  transactions behind them, after replay from images and from pages of different ages. `IInv` says
  of the pages no more than the pointers need.

## Findings

Each is a run that TLC ends with a violation, of a property that states what a comment
in the repository says.

| run | what the code does |
|---|---|
| `subxact_lost_link` | A new subtransaction starts without the parent's `latest_urp_xact`. If its first record opens a fresh undo log, the link back is lost. After it is released, a rollback of the outer savepoint walks below the first record of that log, and the server goes down. |
| `xheapundo_multi` | After undoing a multi-insert, `execute_xheap_undoactions` searches for a used row with the index of its main loop; following records are skipped, and the slot is flagged as rolled back. |

Met while modelling, without a run of their own:

* `undolog.c:2087`: `release_space` forgets buffers and unlinks files before it writes the WAL
  record, and neither that record nor the discard before it is flushed first
  (`src/backend/access/transam/README:407` asks that log entries reach stable storage before the
  changes they describe). Insert, abort, checkpoint, undo, ROLLBACK_FINISH, discard, unlink, crash:
  when only the WAL up to the checkpoint survives, the transaction has to be rolled back again and
  its undo is gone. In `UndoRecovery`, `UndoKept` says nothing after a crash that lost the record of
  a file already truncated (the history variable `truncated`); `UndoAvailable`, without that
  exemption, is violated.
* `undofetch.c:116`: `undo_record_comparator` is not antisymmetric when subtransaction ids differ.
  From seven records on, where quicksort partitions, the records of a page may come out apart,
  though they are to be applied together page by page.
* `xxact.c:345` says that a transaction below `globalFrozenXid` must have committed; aborted
  ones fall below it too (`\A x \in Xids : x < global_frozen_xid => DidCommit(x)` is violated
  in `undolog_safety`). That is safe for xids found on rows, as rollback precedes freezing.
* `xact.h:256` says that `latest_urp_xact` includes the parent's records; a new level starts with
  none. `subxact_lost_link` is the consequence.
* `undoworker.c:128`, `undoworker.c:349`: requests are copied without a lock. Two processes were
  started for request 2, both late; one serves and removes it. Request 1 is entered in its
  cell, and while the launcher writes it to the mailbox the other process copies the key of 2 with
  the slot of 1. It finds no request for that key, takes it for done and flags slot 1, whose rows
  are not rolled back (28 steps; TLC finds them when `FinishedRolledBack` is stated without
  `mixed`). A process more than 10 s late is needed.
* `undorequest.c:244`: the scan for requests restarts at the head of a bucket. With both slots
  of a transaction in one bucket (`NBuckets = 1`), in the wrong order, `AllRolledBack` is violated:
  the request that must wait is picked every time.
* `undoworker.c:228`: the check for a dropped database comes after `InitPostgres`, which ends the
  process first, so the slot is never flagged. `UndoRollback` drops no database.
* `undorequest.c:206`: a second process started for a slow one may serve the next request together
  with that one's own process; when one removes the request and the other fails, `mark_rollback_fail`
  writes through a null pointer. In `UndoRollback` a process that gets there stays there.
* `router.c:959`: `pool_size` is compared under the route lock, which is let go before the new server
  joins the pool: clients that meet in between start more servers than `pool_size`. Reachable in
  `XProxyPool`; nothing says that the limit is exact.
* `router.c:1139`: `od_router_close` and the cron thread wake nobody. With `pool_timeout` 0 a client
  may be left waiting on a pool that has become empty; `WaiterWoken` exempts it (`dropped`).

## What is not modelled

* Crashes with several logs: log switch, retirement and attachment under crashes, reuse of xids,
  the redo of rows beyond what undo needs, standbys and their conflicts. `UndoLog` restarts the
  discard worker but never the server; `UndoRecovery` restarts the server with one log.
* The count of the total size of undo with its limit, and the PANIC when it would go below zero;
  errors half way through the extension of a segment; the PANIC for invalid pages in recovery.
* Fine-grained attach and detach: `UndoLog` takes each as one step, though `undolog_release`
  does it in three without `undo_log_lock`; and an error in `extend_undo_segment` right after a
  log switch.
* Temporary and unlogged logs, two-phase commit, xid wraparound (xids are 64 bits wide here).
* xheap: reads of a transaction's own changes by command id, other kinds of snapshot, row locks and
  multixacts, page space and compaction, TOAST; xbtree.
* XProxy: the relay of messages, authentication, the watchdog that finds the roles of endpoints, the
  console and reloads.
* Byte layouts, buffer pinning, statistics, logging, signals: no property is about them.
* query_check (no state between statements), XRaft (no source), the unchanged PostgreSQL kernel
  (only the calls XStore makes into it appear, marked external).

## Plan

In this order:

1. `UndoAttach`: attach, release and switch step by step, with errors on extension; `UndoLog`'s
   single steps as the abstract specification.
2. Row locks and multixacts; reads of own changes by command id.
3. xbtree: page recycle queue, undo of index entries.
4. XProxy: roles and the watchdog, reset on return, reloads.
5. Proofs: the contents of pages in `UndoRecovery` (`UndoKept`), with a page that agrees with every
   prefix from its LSN to the point of replay, as `LogSpan` has it for the log.
