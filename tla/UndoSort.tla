------------------------------ MODULE UndoSort ------------------------------
(***************************************************************************)
(* The order in which the undo records of one batch are applied:           *)
(* qsort_undo_list sorts them by page with undo_record_comparator          *)
(* (contrib/xstore/src/undo/undofetch.c) and the quicksort of              *)
(* src/include/lib/sort_template.h.  Records come newest first; on a page  *)
(* they have to be undone in that order.                                   *)
(*                                                                         *)
(* A record is [blk, subxid, idx]: its page (tablespace, relation file and *)
(* block are compared one after the other, so a number stands for the      *)
(* three), the subtransaction that wrote it or 0, and its place in the     *)
(* list (buffer_idx, set by push_undo_list).                               *)
(***************************************************************************)
EXTENDS Integers, Sequences

\* A later page is not always greater: the subtransaction decides.
undo_record_comparator(l, r) ==
    CASE l.blk = r.blk -> IF l.idx < r.idx THEN -1 ELSE 1
      [] l.blk < r.blk -> -1
      [] OTHER -> IF l.subxid < r.subxid THEN -1 ELSE 1

Less(l, r) == undo_record_comparator(l, r) < 0

Swap(a, i, j) == [a EXCEPT ![i] = a[j], ![j] = a[i]]

ST_MED3(a, i, j, k) ==
    IF Less(a[i], a[j])
    THEN IF Less(a[j], a[k]) THEN j ELSE IF Less(a[i], a[k]) THEN k ELSE i
    ELSE IF ~Less(a[j], a[k]) THEN j ELSE IF Less(a[i], a[k]) THEN i ELSE k

RECURSIVE SiftDown(_, _)
SiftDown(a, k) ==
    IF k > 1 /\ ~Less(a[k - 1], a[k]) THEN SiftDown(Swap(a, k, k - 1), k - 1) ELSE a

RECURSIVE InsertionSort(_, _)
InsertionSort(a, k) == IF k > Len(a) THEN a ELSE InsertionSort(SiftDown(a, k), k + 1)

\* The two scans that move towards each other until they cross; the pivot is
\* a[1].  The comparator never answers 0, so nothing is set aside as equal.
RECURSIVE ScanUp(_, _, _), ScanDown(_, _, _)
ScanUp(a, b, c) == IF b <= c /\ Less(a[b], a[1]) THEN ScanUp(a, b + 1, c) ELSE b
ScanDown(a, b, c) == IF b <= c /\ ~Less(a[c], a[1]) THEN ScanDown(a, b, c - 1) ELSE c

RECURSIVE Partition(_, _, _)
Partition(a, b, c) ==
    LET pb == ScanUp(a, b, c)
        pc == ScanDown(a, pb, c)
    IN  IF pb > pc THEN [a |-> a, pb |-> pb] ELSE Partition(Swap(a, pb, pc), pb + 1, pc - 1)

\* Lists of up to 40 records: beyond, the pivot is a median of medians.
Pivot(a) ==
    LET n == Len(a)
        pm == n \div 2 + 1
    IN  IF n > 7 THEN ST_MED3(a, 1, pm, n) ELSE pm

RECURSIVE ST_SORT(_)
ST_SORT(a) ==
    LET n == Len(a)
        presorted == \A i \in 2 .. n : Less(a[i - 1], a[i])
        p == Partition(Swap(a, 1, Pivot(a)), 2, n)
        parted == Swap(p.a, 1, p.pb - 1)
    IN  CASE n < 7 -> InsertionSort(a, 2)
          [] n >= 7 /\ presorted -> a
          [] OTHER -> ST_SORT(SubSeq(parted, 1, p.pb - 2)) \o <<parted[p.pb - 1]>>
                          \o ST_SORT(SubSeq(parted, p.pb, n))

\* The list as bulk_fetch_undo_for_range leaves it, sorted for the pages.
qsort_undo_list(ulist) == ST_SORT(ulist)
=============================================================================
