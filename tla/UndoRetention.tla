---------------------------- MODULE UndoRetention ----------------------------
(***************************************************************************)
(* What the undo logs promise to the rest of XStore, without the logs'     *)
(* pointers, passes, requests or processes: undo is kept while it is owed  *)
(* to somebody.  UndoLog implements this (module UndoLogRetention).        *)
(*                                                                         *)
(* A part <<l, x>> is the undo that transaction x wrote in log l.          *)
(***************************************************************************)
EXTENDS Integers

CONSTANTS Logs, Xids, FirstXid

VARIABLES
    status,      \* outcome of each transaction
    written,     \* parts that exist
    undone,      \* parts whose changes were taken back
    released,    \* parts whose undo was given up
    frozen_xid,  \* below it transactions are taken to be settled unseen
    recycle_xid  \* below it no undo is looked for

vars == <<status, written, undone, released, frozen_xid, recycle_xid>>

\* The part may still be read to take its changes back.
Owed(p) == status[p[2]] # "committed" /\ p \notin undone

\* Every transaction below h is over.
Over(h) == \A x \in Xids : x < h => status[x] \in {"committed", "aborted"}

\* No part below h is owed.
NothingOwed(h) == \A p \in written : p[2] < h => ~Owed(p)

Init ==
    /\ status = [x \in Xids |-> "unassigned"]
    /\ written = {} /\ undone = {} /\ released = {}
    /\ frozen_xid = FirstXid /\ recycle_xid = FirstXid

\* A new transaction is not below a horizon.
Assign(x) ==
    /\ status[x] = "unassigned" /\ x >= frozen_xid /\ x >= recycle_xid
    /\ status' = [status EXCEPT ![x] = "in_progress"]
    /\ UNCHANGED <<written, undone, released, frozen_xid, recycle_xid>>

Write(l, x) ==
    /\ status[x] = "in_progress"
    /\ written' = written \cup {<<l, x>>}
    /\ UNCHANGED <<status, undone, released, frozen_xid, recycle_xid>>

End(x, outcome) ==
    /\ status[x] = "in_progress"
    /\ status' = [status EXCEPT ![x] = outcome]
    /\ UNCHANGED <<written, undone, released, frozen_xid, recycle_xid>>

\* Only what an aborted transaction wrote is taken back, once, and while the
\* undo is there.
RollBack(p) ==
    /\ status[p[2]] = "aborted"
    /\ p \in written \ (undone \cup released)
    /\ undone' = undone \cup {p}
    /\ UNCHANGED <<status, written, released, frozen_xid, recycle_xid>>

\* Undo is given up in any order and number, but never while it is owed.
Release ==
    /\ released # released'
    /\ released \subseteq released' /\ released' \subseteq written
    /\ \A p \in released' \ released : ~Owed(p)
    /\ UNCHANGED <<status, written, undone, frozen_xid, recycle_xid>>

\* The horizons move to where nothing is owed below them.
Publish ==
    /\ <<frozen_xid, recycle_xid>> # <<frozen_xid', recycle_xid'>>
    /\ Over(frozen_xid') /\ NothingOwed(frozen_xid')
    /\ Over(recycle_xid') /\ NothingOwed(recycle_xid')
    /\ UNCHANGED <<status, written, undone, released>>

Next ==
    \/ \E x \in Xids : Assign(x) \/ End(x, "committed") \/ End(x, "aborted")
    \/ \E l \in Logs, x \in Xids : Write(l, x)
    \/ \E p \in Logs \X Xids : RollBack(p)
    \/ Release
    \/ Publish

Spec == Init /\ [][Next]_vars

\* What is given up, or lies below a horizon, is owed to nobody, and a
\* transaction below a horizon is over.
NothingOwedGone ==
    /\ \A p \in released : ~Owed(p)
    /\ Over(frozen_xid) /\ NothingOwed(frozen_xid)
    /\ Over(recycle_xid) /\ NothingOwed(recycle_xid)
=============================================================================
