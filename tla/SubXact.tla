------------------------------- MODULE SubXact -------------------------------
(***************************************************************************)
(* What a backend remembers of its undo at each level of its transaction   *)
(* (contrib/xstore/src/util/xxact.c, fields first_urp, latest_urp and      *)
(* latest_urp_xact of TransactionStateData), and the rollback to a         *)
(* savepoint that walks the undo records between the two ends.             *)
(*                                                                         *)
(* One backend and its permanent undo: record u is the u-th one it ever    *)
(* wrote, and 0 is INVALID_UNDO_REC_PTR.  A log that is full makes the     *)
(* next record go to a fresh one; when that happens is left open.          *)
(***************************************************************************)
EXTENDS Integers, Sequences

CONSTANTS
    MaxDepth,     \* bound: levels of nesting, the top level included
    MaxRecords,   \* bound: undo records written
    NLogs         \* undo logs the backend may go through

ASSUME SubXactAssumption ==
    MaxDepth \in Nat \ {0} /\ MaxRecords \in Nat /\ NLogs \in Nat \ {0}

VARIABLES
    levels,    \* the stack of TransactionStateData, top level first
    records,   \* the undo records, with the log each one is in
    log,       \* undo_log_ctx->logs
    undone,    \* records whose effect a rollback has taken back
    up         \* the server has not gone down

vars == <<levels, records, log, undone, up>>

Urps == 1 .. Len(records)
Current == levels[Len(levels)]

\* reset_undo_actions_info, at the start of a level; mark is where the level
\* begins and is not part of the program.
reset_undo_actions_info == [first |-> 0, latest |-> 0, latest_xact |-> 0, mark |-> Len(records)]

Init ==
    /\ levels = <<[first |-> 0, latest |-> 0, latest_xact |-> 0, mark |-> 0]>>
    /\ records = <<>>
    /\ log = 1
    /\ undone = {}
    /\ up = TRUE

-----------------------------------------------------------------------------
(* Writing a record                                                        *)

\* Mutant: the first record is remembered as the last one only.
set_current_tansaction_undorec_ptr_NoFirst(s, u) == [s EXCEPT !.latest = u, !.latest_xact = u]

set_current_tansaction_undorec_ptr(s, u) ==
    [s EXCEPT !.first = IF @ = 0 THEN u ELSE @, !.latest = u, !.latest_xact = u]

\* A record that starts in a fresh log carries the address of the one before
\* it (UREC_INFO_PREURP, uur_txnprevurp): what get_current_tansaction_undorec_ptr
\* finds at the current level.
prepare_undo(switch) ==
    /\ up
    /\ Len(records) < MaxRecords
    /\ switch => log < NLogs
    /\ log' = IF switch THEN log + 1 ELSE log
    /\ records' = Append(records, [log |-> log',
                                   txnprevurp |-> IF switch THEN Current.latest_xact ELSE 0])
    /\ levels' = [levels EXCEPT ![Len(levels)] =
                      set_current_tansaction_undorec_ptr(@, Len(records) + 1)]
    /\ UNCHANGED <<undone, up>>

-----------------------------------------------------------------------------
(* Walking records: bulk_fetch_undo_for_range                              *)

\* What lies below the first record of a log: there is no block before block
\* 0, so reading the length of the record before goes to block P_NEW.
OffLog == -1

\* The record before u: the one it names, or else the one that ends where u
\* starts.  A log that a transaction moves to is empty (allocate_undo_logno),
\* so its first record starts right after the header of block 0.
undo_record_get_preurp(u) ==
    CASE records[u].txnprevurp # 0 -> records[u].txnprevurp
      [] u > 1 /\ records[u].txnprevurp = 0 /\ records[u - 1].log = records[u].log -> u - 1
      [] OTHER -> OffLog

\* The addresses met on the way from the newest record down to the end.
bulk_fetch_undo_for_range(from, to) ==
    LET walk[u \in {OffLog} \cup Urps] ==
            IF u \in {OffLog, to} THEN {u}
            ELSE {u} \cup walk[undo_record_get_preurp(u)]
    IN  walk[from]

\* The addresses rolling back level s goes through.
apply_undo_actions(s) ==
    IF s.latest = 0 THEN {} ELSE bulk_fetch_undo_for_range(s.latest, s.first)

-----------------------------------------------------------------------------
(* Levels                                                                  *)

StartSubTransaction ==
    /\ up
    /\ Len(levels) < MaxDepth
    /\ levels' = Append(levels, reset_undo_actions_info)
    /\ UNCHANGED <<records, log, undone, up>>

\* Mutant: a parent that has undo of its own keeps its end.
proprgate_undo_info_to_parents_KeepLatest(s, parent) ==
    [parent EXCEPT
        !.latest = IF @ = 0 THEN s.latest ELSE @,
        !.latest_xact = IF s.latest # 0 THEN s.latest ELSE @,
        !.first = IF @ = 0 THEN s.first ELSE @]

proprgate_undo_info_to_parents(s, parent) ==
    [parent EXCEPT
        !.latest = IF s.latest # 0 THEN s.latest ELSE @,
        !.latest_xact = IF s.latest # 0 THEN s.latest ELSE @,
        !.first = IF @ = 0 THEN s.first ELSE @]

CommitSubTransaction ==
    LET d == Len(levels)
    IN  /\ up
        /\ d > 1
        /\ levels' = [k \in 1 .. d - 1 |->
                         IF k = d - 1 THEN proprgate_undo_info_to_parents(levels[d], levels[k])
                                      ELSE levels[k]]
        /\ UNCHANGED <<records, log, undone, up>>

\* ROLLBACK TO: the backend undoes the level before it goes on.
RollbackLevel ==
    /\ OffLog \notin apply_undo_actions(Current)
    /\ undone' = undone \cup apply_undo_actions(Current)
    /\ levels' = SubSeq(levels, 1, Len(levels) - 1)
    /\ UNCHANGED up

\* A walk that leaves the log takes the server down: the read of block P_NEW
\* extends a relation that is not there (ReadUndoBufferWithoutRelcache passes
\* none), and a length of 0 is a PANIC.  The batches the walk had undone by
\* then make no difference: the transaction is over.
RollbackCrash ==
    /\ OffLog \in apply_undo_actions(Current)
    /\ up' = FALSE
    /\ UNCHANGED <<levels, undone>>

AbortSubTransaction ==
    /\ up
    /\ Len(levels) > 1
    /\ RollbackLevel \/ RollbackCrash
    /\ UNCHANGED <<records, log>>

\* COMMIT or ABORT at the top level, which forgets the undo addresses; an
\* aborted transaction is rolled back later, slot by slot (module UndoLog).
EndTransaction ==
    /\ up
    /\ Len(levels) = 1
    /\ levels' = <<reset_undo_actions_info>>
    /\ UNCHANGED <<records, log, undone, up>>

Next ==
    \/ \E switch \in BOOLEAN : prepare_undo(switch)
    \/ StartSubTransaction
    \/ CommitSubTransaction
    \/ AbortSubTransaction
    \/ EndTransaction

Spec == Init /\ [][Next]_vars

-----------------------------------------------------------------------------
(* Properties                                                              *)

\* Addresses at a level are those of records written so far, a level has a
\* first record exactly when it has a last one, and they are in order.
TypeOK ==
    /\ records \in Seq([log : 1 .. NLogs, txnprevurp : 0 .. MaxRecords])
    /\ log \in 1 .. NLogs
    /\ undone \subseteq Urps
    /\ up \in BOOLEAN
    /\ Len(levels) \in 1 .. MaxDepth
    /\ \A d \in 1 .. Len(levels) :
        /\ levels[d].first \in 0 .. levels[d].latest
        /\ levels[d].latest \in 0 .. Len(records)
        /\ levels[d].first = 0 <=> levels[d].latest = 0

\* A rollback to a savepoint that can be carried out is exact: whenever the
\* walk of apply_undo_actions over the current subtransaction stays within
\* the logs, it undoes every record written since the subtransaction started
\* that is not undone yet, and no record from before.
SubRollbackExact ==
    Len(levels) > 1 /\ OffLog \notin apply_undo_actions(Current) =>
        /\ apply_undo_actions(Current) \subseteq Current.mark + 1 .. Len(records)
        /\ Current.mark + 1 .. Len(records) \subseteq undone \cup apply_undo_actions(Current)

\* "Make parents kown the undo ptr for its sub transactions, so parent can
\* rollback its sub transactions": a subtransaction that could be rolled back
\* now has a walk that reaches its end, apply_undo_actions never steps below
\* the first record of a log.
SubRollbackCompletes ==
    Len(levels) > 1 => OffLog \notin apply_undo_actions(Current)
=============================================================================
