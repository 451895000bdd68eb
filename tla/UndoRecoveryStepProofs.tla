----------------------- MODULE UndoRecoveryStepProofs -----------------------
(***************************************************************************)
(* What a prefix of the WAL says of the pointers and the bounds, what a    *)
(* record appended to it changes, and that every step of a running server  *)
(* that writes a record keeps the invariant.                               *)
(***************************************************************************)
EXTENDS UndoRecoveryInv, WellFoundedInduction, TLAPS

-----------------------------------------------------------------------------
(* Prefixes of the WAL                                                     *)

\* A non-empty set of numbers up to n has a largest element, which Max picks.
LEMMA MaxIn ==
    ASSUME NEW n \in Nat, NEW S \in SUBSET (0 .. n), S # {}
    PROVE  Max(S) \in S /\ \A y \in S : y <= Max(S)
<1> DEFINE T == {n - x : x \in S}
<1>1. T \in SUBSET Nat /\ T # {}
   <2>1. \A x \in 0 .. n : n - x \in Nat
      OBVIOUS
   <2>2. \E x \in S : n - x \in T
      BY Zenon
   <2> QED BY <2>1, <2>2, Zenon
<1>2. PICK R : R = {ss \in Nat \X Nat : ss[1] < ss[2]}
   BY Zenon
<1>3. R = OpToRel(<, Nat)
   BY <1>2, Zenon DEF OpToRel
<1>4. IsWellFoundedOn(R, Nat)
   BY <1>3, NatLessThanWellFounded, Zenon
<1> HIDE DEF T
<1>5. PICK m \in T : \A y \in T : ~ (<<y, m>> \in R)
   BY <1>1, <1>4, WFMin, Zenon
<1>6. \A y \in T : y \in Nat /\ m \in Nat /\ ~(y < m)
   BY <1>1, <1>5, <1>2, Zenon
<1>7. PICK x \in S : m = n - x
   BY <1>5, Zenon DEF T
<1>8. \A y \in S : x >= y
   <2> SUFFICES ASSUME NEW y \in S PROVE x >= y
      OBVIOUS
   <2>1. n - y \in T
      BY Zenon DEF T
   <2> QED BY <2>1, <1>6, <1>7
<1>9. Max(S) \in S /\ \A y \in S : Max(S) >= y
   BY <1>8, Zenon DEF Max
<1> QED BY <1>9

\* The last record of a type, one record further on.
LEMMA LastStep ==
    ASSUME NEW w, NEW type, NEW n \in Nat
    PROVE  /\ Last(w, type, n) \in 0 .. n
           /\ Last(w, type, 0) = 0
           /\ n > 0 => Last(w, type, n) =
                  IF w[n].type = type THEN n ELSE Last(w, type, n - 1)
<1> DEFINE S(k) == {0} \cup {i \in 1 .. k : w[i].type = type}
<1>1. \A k \in Nat : S(k) \in SUBSET (0 .. k) /\ S(k) # {}
   OBVIOUS
<1>2. \A k \in Nat : Last(w, type, k) \in S(k) /\ \A y \in S(k) : y <= Last(w, type, k)
   <2> TAKE k \in Nat
   <2> HIDE DEF S
   <2>1. Max(S(k)) \in S(k) /\ \A y \in S(k) : y <= Max(S(k))
      BY <1>1, MaxIn, Zenon
   <2>2. Last(w, type, k) = Max(S(k))
      BY Zenon DEF Last, S
   <2> QED BY <2>1, <2>2, Zenon
<1>3. Last(w, type, n) \in 0 .. n /\ Last(w, type, 0) = 0
   BY <1>2
<1>4. ASSUME n > 0
      PROVE  Last(w, type, n) = IF w[n].type = type THEN n ELSE Last(w, type, n - 1)
   <2>1. CASE w[n].type = type
      <3>1. n \in S(n)
         BY <1>4, <2>1
      <3> QED BY <3>1, <1>2, <1>3, <2>1
   <2>2. CASE w[n].type # type
      <3>1. S(n) = S(n - 1)
         BY <1>4, <2>2
      <3>2. n - 1 \in Nat
         BY <1>4
      <3>3. /\ Last(w, type, n) = Max(S(n))
            /\ Last(w, type, n - 1) = Max(S(n - 1))
         BY Zenon DEF Last
      <3> QED BY <3>1, <3>3, <2>2, Zenon
   <2> QED BY <2>1, <2>2
<1> QED BY <1>3, <1>4

\* The last record of a type in a prefix depends on the prefix only.
LEMMA LastSame ==
    ASSUME NEW w, NEW v, NEW type, NEW n \in Nat, \A i \in 1 .. n : v[i] = w[i]
    PROVE  Last(v, type, n) = Last(w, type, n)
<1>1. {i \in 1 .. n : v[i].type = type} = {i \in 1 .. n : w[i].type = type}
   OBVIOUS
<1> QED BY <1>1, Zenon DEF Last

\* What the empty prefix says.
LEMMA AtZero ==
    ASSUME NEW w, NEW t
    PROVE  /\ InsertAt(w, 0) = 0 /\ AllocAt(w, 0) = 0
           /\ RecycleAt(w, 0) = 0 /\ DiscardAt(w, 0) = 0
           /\ HeadAt(w, "unlink", 0) = 0 /\ HeadAt(w, "slot_unlink", 0) = 0
           /\ DataTail(w, 0, t) = t * RecordsPerFile /\ TxnTail(w, 0, t) = t * SlotsPerFile
<1>1. \A type : Last(w, type, 0) = 0
   BY LastStep, Zenon
<1> QED BY <1>1, Zenon DEF InsertAt, AllocAt, RecycleAt, DiscardAt, HeadAt, TailAt, DataTail,
                           TxnTail

\* What a prefix says, in terms of its last record and of the prefix before it.
LEMMA AtStep ==
    ASSUME NEW w, NEW t, NEW n \in Nat, n > 0
    PROVE  /\ InsertAt(w, n) =
                  IF w[n].type = "insert" THEN w[n].urp + 1 ELSE InsertAt(w, n - 1)
           /\ AllocAt(w, n) =
                  IF w[n].type = "insert" THEN w[n].slot + 1 ELSE AllocAt(w, n - 1)
           /\ RecycleAt(w, n) =
                  IF w[n].type = "discard" THEN w[n].endSlot ELSE RecycleAt(w, n - 1)
           /\ DiscardAt(w, n) =
                  IF w[n].type = "discard" THEN w[n].endUndoPtr ELSE DiscardAt(w, n - 1)
           /\ \A type : HeadAt(w, type, n) =
                  IF w[n].type = type THEN w[n].head ELSE HeadAt(w, type, n - 1)
           /\ DataTail(w, n, t) =
                  IF w[n].type = "extend" THEN w[n].tail ELSE DataTail(w, n - 1, t)
           /\ TxnTail(w, n, t) =
                  IF w[n].type = "slot_extend" THEN w[n].tail ELSE TxnTail(w, n - 1, t)
<1>1. n # 0 /\ n - 1 \in Nat
   OBVIOUS
<1>2. \A type : Last(w, type, n) = IF w[n].type = type THEN n ELSE Last(w, type, n - 1)
   BY LastStep, Zenon
<1>3. \A type : w[n].type = type => Last(w, type, n) = n /\ Last(w, type, n) # 0
   BY <1>1, <1>2, Zenon
<1>4. \A type : w[n].type # type => Last(w, type, n) = Last(w, type, n - 1)
   BY <1>2, Zenon
<1>5. InsertAt(w, n) = IF w[n].type = "insert" THEN w[n].urp + 1 ELSE InsertAt(w, n - 1)
   BY <1>3, <1>4, Zenon DEF InsertAt
<1>6. AllocAt(w, n) = IF w[n].type = "insert" THEN w[n].slot + 1 ELSE AllocAt(w, n - 1)
   BY <1>3, <1>4, Zenon DEF AllocAt
<1>7. RecycleAt(w, n) = IF w[n].type = "discard" THEN w[n].endSlot ELSE RecycleAt(w, n - 1)
   BY <1>3, <1>4, Zenon DEF RecycleAt
<1>8. DiscardAt(w, n) = IF w[n].type = "discard" THEN w[n].endUndoPtr ELSE DiscardAt(w, n - 1)
   BY <1>3, <1>4, Zenon DEF DiscardAt
<1>9. \A type : HeadAt(w, type, n) =
           IF w[n].type = type THEN w[n].head ELSE HeadAt(w, type, n - 1)
   BY <1>3, <1>4, Zenon DEF HeadAt
<1>10. DataTail(w, n, t) = IF w[n].type = "extend" THEN w[n].tail ELSE DataTail(w, n - 1, t)
   BY <1>3, <1>4, Zenon DEF TailAt, DataTail
<1>11. TxnTail(w, n, t) = IF w[n].type = "slot_extend" THEN w[n].tail ELSE TxnTail(w, n - 1, t)
   BY <1>3, <1>4, Zenon DEF TailAt, TxnTail
<1> QED BY <1>5, <1>6, <1>7, <1>8, <1>9, <1>10, <1>11, Zenon

\* Two WALs agree up to n, and what the first k records of both say is the same.
SamePrefix(v, w, n) == \A i \in 1 .. n : v[i] = w[i]
SamePointers(v, w, k, t) ==
    /\ InsertAt(v, k) = InsertAt(w, k) /\ AllocAt(v, k) = AllocAt(w, k)
    /\ RecycleAt(v, k) = RecycleAt(w, k) /\ DiscardAt(v, k) = DiscardAt(w, k)
    /\ \A type : HeadAt(v, type, k) = HeadAt(w, type, k)
    /\ DataTail(v, k, t) = DataTail(w, k, t) /\ TxnTail(v, k, t) = TxnTail(w, k, t)

\* Two WALs that agree up to n say the same there.
LEMMA AtSame ==
    ASSUME NEW w, NEW v, NEW t, NEW n \in Nat, SamePrefix(v, w, n)
    PROVE  SamePointers(v, w, n, t)
<1>1. \A type : /\ Last(v, type, n) = Last(w, type, n)
                /\ Last(w, type, n) # 0 => v[Last(w, type, n)] = w[Last(w, type, n)]
   <2> TAKE type
   <2>1. Last(v, type, n) = Last(w, type, n)
      BY LastSame DEF SamePrefix
   <2>2. Last(w, type, n) \in 0 .. n
      BY LastStep, Zenon
   <2>3. Last(w, type, n) # 0 => Last(w, type, n) \in 1 .. n
      BY <2>2
   <2> QED BY <2>1, <2>3, Zenon DEF SamePrefix
<1>2. InsertAt(v, n) = InsertAt(w, n) /\ AllocAt(v, n) = AllocAt(w, n)
   BY <1>1 DEF InsertAt, AllocAt
<1>3. RecycleAt(v, n) = RecycleAt(w, n) /\ DiscardAt(v, n) = DiscardAt(w, n)
   BY <1>1 DEF RecycleAt, DiscardAt
<1>4. \A type : HeadAt(v, type, n) = HeadAt(w, type, n)
   BY <1>1 DEF HeadAt
<1>5. DataTail(v, n, t) = DataTail(w, n, t) /\ TxnTail(v, n, t) = TxnTail(w, n, t)
   BY <1>1 DEF DataTail, TxnTail, TailAt
<1> QED BY <1>2, <1>3, <1>4, <1>5, Zenon DEF SamePointers

\* All that is stated of the first k records.
SameFacts(v, w, k, t) ==
    /\ \A items : EndsBelow(items, v, k) <=> EndsBelow(items, w, k)
    /\ PrefixInv(v, k, t) <=> PrefixInv(w, k, t)
    /\ k > 0 => (RecordInv(v, k, t) <=> RecordInv(w, k, t))
    /\ \A log : LogAgrees(log, v, k) <=> LogAgrees(log, w, k)
    /\ \A seg : DataAgrees(seg, v, k, t) <=> DataAgrees(seg, w, k, t)
    /\ \A seg : TxnAgrees(seg, v, k, t) <=> TxnAgrees(seg, w, k, t)

\* A record is checked against what the WAL says, no matter which WAL says it.
LEMMA CheckedSame ==
    ASSUME NEW w, NEW v, NEW t, NEW n, SamePointers(v, w, n, t), NEW rec
    PROVE  Checked(rec, v, n, t) <=> Checked(rec, w, n, t)
<1>1. /\ InsertAt(v, n) = InsertAt(w, n) /\ AllocAt(v, n) = AllocAt(w, n)
      /\ RecycleAt(v, n) = RecycleAt(w, n)
      /\ DataTail(v, n, t) = DataTail(w, n, t) /\ TxnTail(v, n, t) = TxnTail(w, n, t)
   BY Zenon DEF SamePointers
<1> QED BY <1>1, Zenon DEF Checked, EndsBelow

\* Two WALs that agree up to n have the same said of every prefix up to there.
LEMMA PrefixSame ==
    ASSUME NEW w, NEW v, NEW t, NEW n \in Nat, SamePrefix(v, w, n)
    PROVE  \A k \in 0 .. n : SamePointers(v, w, k, t) /\ SameFacts(v, w, k, t)
<1>1. \A j \in 0 .. n : SamePointers(v, w, j, t)
   <2> TAKE j \in 0 .. n
   <2>1. j \in Nat /\ SamePrefix(v, w, j)
      BY DEF SamePrefix
   <2> QED BY <2>1, AtSame, Zenon
<1> TAKE k \in 0 .. n
<1>2. /\ InsertAt(v, k) = InsertAt(w, k) /\ AllocAt(v, k) = AllocAt(w, k)
      /\ RecycleAt(v, k) = RecycleAt(w, k) /\ DiscardAt(v, k) = DiscardAt(w, k)
      /\ \A type : HeadAt(v, type, k) = HeadAt(w, type, k)
      /\ DataTail(v, k, t) = DataTail(w, k, t) /\ TxnTail(v, k, t) = TxnTail(w, k, t)
   BY <1>1, Zenon DEF SamePointers
<1>3. \A items : EndsBelow(items, v, k) <=> EndsBelow(items, w, k)
   BY <1>2, Zenon DEF EndsBelow
<1>4. PrefixInv(v, k, t) <=> PrefixInv(w, k, t)
   BY <1>2 DEF PrefixInv
<1>5. ASSUME k > 0
      PROVE  RecordInv(v, k, t) <=> RecordInv(w, k, t)
   <2>1. k \in 1 .. n /\ k - 1 \in 0 .. n
      BY <1>5
   <2>2. v[k] = w[k]
      BY <2>1, Zenon DEF SamePrefix
   <2>3. PICK j \in 0 .. n : j = k - 1
      BY <2>1
   <2>4. \A rec : Checked(rec, v, j, t) <=> Checked(rec, w, j, t)
      BY <1>1, <2>3, CheckedSame, Zenon
   <2> QED BY <2>2, <2>3, <2>4, Zenon DEF RecordInv
<1>6. \A log : LogAgrees(log, v, k) <=> LogAgrees(log, w, k)
   BY <1>2, Zenon DEF LogAgrees
<1>7. \A seg : DataAgrees(seg, v, k, t) <=> DataAgrees(seg, w, k, t)
   BY <1>2, Zenon DEF DataAgrees, DataTail
<1>8. \A seg : TxnAgrees(seg, v, k, t) <=> TxnAgrees(seg, w, k, t)
   BY <1>2, Zenon DEF TxnAgrees, TxnTail
<1> QED BY <1>1, <1>3, <1>4, <1>5, <1>6, <1>7, <1>8, Zenon DEF SameFacts

\* What is in order is a number.
LEMMA PrefixNumbers ==
    ASSUME NEW w, NEW t, NEW n, PrefixInv(w, n, t)
    PROVE  /\ InsertAt(w, n) \in Nat /\ AllocAt(w, n) \in Nat
           /\ DataTail(w, n, t) \in Nat /\ TxnTail(w, n, t) \in Nat
BY DEF PrefixInv

\* The order in which what is checked stands, as inequalities.
LEMMA PrefixOrder ==
    ASSUME NEW w, NEW t, NEW n, PrefixInv(w, n, t)
    PROVE  /\ RecycleAt(w, n) <= AllocAt(w, n) /\ DiscardAt(w, n) <= InsertAt(w, n)
           /\ HeadAt(w, "unlink", n) <= DataTail(w, n, t)
           /\ HeadAt(w, "slot_unlink", n) <= TxnTail(w, n, t)
BY DEF PrefixInv

\* extend_undo_segment extends to a tail that is not zero.
LEMMA CheckedTail ==
    ASSUME NEW rec, NEW w, NEW n, NEW t, Checked(rec, w, n, t), rec.type = "extend"
    PROVE  rec.tail \in Nat /\ rec.tail > 0 /\ rec.tail >= DataTail(w, n, t)
BY DEF Checked

\* The gate of the redo routines: an LSN that is not smaller is at least as large.
LEMMA NotLess ==
    ASSUME NEW a \in Nat, NEW b \in Nat, ~(a < b)
    PROVE  a >= b
OBVIOUS

\* The order of the pointers and bounds survives a record that was checked
\* before it was written.
LEMMA PrefixStep ==
    ASSUME NEW w, NEW t, NEW n \in Nat, n > 0, PrefixInv(w, n - 1, t), RecordInv(w, n, t)
    PROVE  /\ PrefixInv(w, n, t)
           /\ InsertAt(w, n - 1) <= InsertAt(w, n)
           /\ DataTail(w, n - 1, t) <= DataTail(w, n, t)
           /\ TxnTail(w, n - 1, t) <= TxnTail(w, n, t)
<1> DEFINE rec == w[n]
<1>1. /\ InsertAt(w, n) = IF rec.type = "insert" THEN rec.urp + 1 ELSE InsertAt(w, n - 1)
      /\ AllocAt(w, n) = IF rec.type = "insert" THEN rec.slot + 1 ELSE AllocAt(w, n - 1)
      /\ RecycleAt(w, n) = IF rec.type = "discard" THEN rec.endSlot ELSE RecycleAt(w, n - 1)
      /\ DiscardAt(w, n) = IF rec.type = "discard" THEN rec.endUndoPtr ELSE DiscardAt(w, n - 1)
      /\ HeadAt(w, "unlink", n) =
             IF rec.type = "unlink" THEN rec.head ELSE HeadAt(w, "unlink", n - 1)
      /\ HeadAt(w, "slot_unlink", n) =
             IF rec.type = "slot_unlink" THEN rec.head ELSE HeadAt(w, "slot_unlink", n - 1)
      /\ DataTail(w, n, t) = IF rec.type = "extend" THEN rec.tail ELSE DataTail(w, n - 1, t)
      /\ TxnTail(w, n, t) = IF rec.type = "slot_extend" THEN rec.tail ELSE TxnTail(w, n - 1, t)
   BY AtStep, Zenon
<1>2. CASE rec.type = "insert"
   <2>1. /\ rec.urp = InsertAt(w, n - 1) /\ rec.urp + 1 < DataTail(w, n - 1, t)
         /\ rec.slot \in 0 .. TxnTail(w, n - 1, t) - 1
         /\ rec.slot = AllocAt(w, n - 1) \/ rec.slot + 1 = AllocAt(w, n - 1)
      BY <1>2, Zenon DEF RecordInv, Checked
   <2> QED BY <1>1, <1>2, <2>1 DEF PrefixInv
<1>3. CASE rec.type = "discard"
   <2>1. /\ rec.startSlot = RecycleAt(w, n - 1) /\ rec.endSlot \in 0 .. AllocAt(w, n - 1)
         /\ rec.endUndoPtr \in 0 .. InsertAt(w, n - 1)
      BY <1>3, Zenon DEF RecordInv, Checked
   <2> QED BY <1>1, <1>3, <2>1 DEF PrefixInv
<1>4. CASE rec.type = "unlink"
   <2>1. rec.head \in 0 .. InsertAt(w, n - 1)
      BY <1>4, Zenon DEF RecordInv, Checked
   <2> QED BY <1>1, <1>4, <2>1 DEF PrefixInv
<1>5. CASE rec.type = "slot_unlink"
   <2>1. rec.head \in 0 .. AllocAt(w, n - 1)
      BY <1>5, Zenon DEF RecordInv, Checked
   <2> QED BY <1>1, <1>5, <2>1 DEF PrefixInv
<1>6. CASE rec.type = "extend"
   <2>1. rec.tail \in Nat \ {0} /\ rec.tail >= DataTail(w, n - 1, t)
      BY <1>6, Zenon DEF RecordInv, Checked
   <2> QED BY <1>1, <1>6, <2>1 DEF PrefixInv
<1>7. CASE rec.type = "slot_extend"
   <2>1. rec.tail \in Nat /\ rec.tail >= TxnTail(w, n - 1, t)
      BY <1>7, Zenon DEF RecordInv, Checked
   <2> QED BY <1>1, <1>7, <2>1 DEF PrefixInv
<1>8. CASE rec.type \notin {"insert", "discard", "unlink", "slot_unlink", "extend", "slot_extend"}
   BY <1>1, <1>8 DEF PrefixInv
<1> QED BY <1>2, <1>3, <1>4, <1>5, <1>6, <1>7, <1>8, Zenon

\* A sequence is a sequence over its own range.
LEMMA SeqRange ==
    ASSUME NEW S, NEW s \in Seq(S)
    PROVE  s \in Seq(Range(s))
BY DEF Range

\* A WAL with a checked record more.
LEMMA WalLonger ==
    ASSUME NEW w, NEW v, NEW t, NEW n \in Nat, WalInv(w, t), Len(w) = n, v \in Seq(Range(v)),
           Len(v) = n + 1, SamePrefix(v, w, n), RecordInv(v, n + 1, t)
    PROVE  WalInv(v, t)
<1>1. \A k \in 0 .. n : SamePointers(v, w, k, t) /\ SameFacts(v, w, k, t)
   BY PrefixSame, Zenon
<1>2. \A k \in 0 .. n : /\ InsertAt(v, k) = InsertAt(w, k)
                        /\ DataTail(v, k, t) = DataTail(w, k, t)
                        /\ TxnTail(v, k, t) = TxnTail(w, k, t)
   BY <1>1, Zenon DEF SamePointers
<1>3. \A k \in 0 .. n : /\ PrefixInv(v, k, t) <=> PrefixInv(w, k, t)
                        /\ k > 0 => (RecordInv(v, k, t) <=> RecordInv(w, k, t))
   BY <1>1, Zenon DEF SameFacts
<1>4. /\ \A k \in 1 .. n : RecordInv(w, k, t)
      /\ \A k \in 0 .. n : PrefixInv(w, k, t)
      /\ \A m \in 0 .. n : \A k \in 0 .. m :
             /\ InsertAt(w, k) <= InsertAt(w, m)
             /\ DataTail(w, k, t) <= DataTail(w, m, t) /\ TxnTail(w, k, t) <= TxnTail(w, m, t)
   BY Zenon DEF WalInv, GrowInv
<1>5. \A k \in 1 .. n + 1 : RecordInv(v, k, t)
   <2>1. \A k \in 1 .. n : k \in 0 .. n /\ k > 0
      OBVIOUS
   <2>2. \A k \in 1 .. n : RecordInv(v, k, t)
      BY <1>3, <1>4, <2>1, Zenon
   <2>3. \A k \in 1 .. n + 1 : k \in 1 .. n \/ k = n + 1
      OBVIOUS
   <2> QED BY <2>2, <2>3, Zenon
<1>6. \A k \in 0 .. n : PrefixInv(v, k, t)
   BY <1>3, <1>4, Zenon
<1>7. PICK m \in Nat : m = n + 1 /\ m > 0 /\ m - 1 = n /\ n \in 0 .. n
   OBVIOUS
<1>8. PrefixInv(v, m - 1, t) /\ RecordInv(v, m, t)
   BY <1>6, <1>7, Zenon
<1>9. /\ PrefixInv(v, m, t)
      /\ InsertAt(v, m - 1) <= InsertAt(v, m)
      /\ DataTail(v, m - 1, t) <= DataTail(v, m, t)
      /\ TxnTail(v, m - 1, t) <= TxnTail(v, m, t)
   BY <1>7, <1>8, PrefixStep, Zenon
<1>10. \A k \in 0 .. n + 1 : PrefixInv(v, k, t)
   <2>1. \A k \in 0 .. n + 1 : k \in 0 .. n \/ k = n + 1
      OBVIOUS
   <2> QED BY <2>1, <1>6, <1>7, <1>9, Zenon
<1>11. \A i \in 0 .. n + 1 : \A k \in 0 .. i :
             /\ InsertAt(v, k) <= InsertAt(v, i)
             /\ DataTail(v, k, t) <= DataTail(v, i, t) /\ TxnTail(v, k, t) <= TxnTail(v, i, t)
   <2> TAKE i \in 0 .. n + 1
   <2> TAKE k \in 0 .. i
   <2>1. CASE i \in 0 .. n
      <3>1. k \in 0 .. n
         BY <2>1
      <3> QED BY <2>1, <3>1, <1>2, <1>4, Zenon
   <2>2. CASE i = n + 1 /\ k = n + 1
      <3>1. InsertAt(v, k) \in Nat /\ DataTail(v, k, t) \in Nat /\ TxnTail(v, k, t) \in Nat
         BY <2>2, <1>10, PrefixNumbers, Zenon
      <3> QED BY <3>1, <2>2
   <2>3. CASE i = n + 1 /\ k \in 0 .. n
      <3>1. /\ InsertAt(v, k) <= InsertAt(v, n)
            /\ DataTail(v, k, t) <= DataTail(v, n, t) /\ TxnTail(v, k, t) <= TxnTail(v, n, t)
         BY <2>3, <1>2, <1>4, <1>7, Zenon
      <3>2. /\ InsertAt(v, n) <= InsertAt(v, i)
            /\ DataTail(v, n, t) <= DataTail(v, i, t) /\ TxnTail(v, n, t) <= TxnTail(v, i, t)
         BY <2>3, <1>7, <1>9, Zenon
      <3>3. \A j \in {k, n, i} : /\ InsertAt(v, j) \in Nat
                                 /\ DataTail(v, j, t) \in Nat /\ TxnTail(v, j, t) \in Nat
         <4>1. \A j \in {k, n, i} : PrefixInv(v, j, t)
            BY <2>3, <1>10, <1>6, <1>7, Zenon
         <4> QED BY <4>1, PrefixNumbers, Zenon
      <3> QED BY <3>1, <3>2, <3>3
   <2> QED BY <2>1, <2>2, <2>3
<1> QED BY <1>5, <1>10, <1>11, Zenon DEF WalInv, GrowInv

\* A WAL with fewer records.
LEMMA WalShorter ==
    ASSUME NEW w, NEW v, NEW t, NEW m \in Nat, WalInv(w, t), m <= Len(w), v \in Seq(Range(v)),
           Len(v) = m, SamePrefix(v, w, m)
    PROVE  WalInv(v, t)
<1>0. Len(w) \in Nat
   BY DEF WalInv
<1>1. \A k \in 0 .. m : SamePointers(v, w, k, t) /\ SameFacts(v, w, k, t)
   BY PrefixSame, Zenon
<1>2. \A k \in 0 .. m : /\ InsertAt(v, k) = InsertAt(w, k)
                        /\ DataTail(v, k, t) = DataTail(w, k, t)
                        /\ TxnTail(v, k, t) = TxnTail(w, k, t)
   BY <1>1, Zenon DEF SamePointers
<1>3. \A k \in 0 .. m : /\ PrefixInv(v, k, t) <=> PrefixInv(w, k, t)
                        /\ k > 0 => (RecordInv(v, k, t) <=> RecordInv(w, k, t))
   BY <1>1, Zenon DEF SameFacts
<1>4. /\ \A k \in 1 .. m : RecordInv(w, k, t) /\ k \in 0 .. m /\ k > 0
      /\ \A k \in 0 .. m : PrefixInv(w, k, t)
   BY <1>0 DEF WalInv
<1>5. \A i \in 0 .. m : \A k \in 0 .. i :
             /\ InsertAt(v, k) <= InsertAt(v, i)
             /\ DataTail(v, k, t) <= DataTail(v, i, t) /\ TxnTail(v, k, t) <= TxnTail(v, i, t)
   <2> TAKE i \in 0 .. m
   <2> TAKE k \in 0 .. i
   <2>1. i \in 0 .. Len(w) /\ k \in 0 .. m
      BY <1>0
   <2> QED BY <2>1, <1>2, Zenon DEF WalInv, GrowInv
<1> QED BY <1>3, <1>4, <1>5, Zenon DEF WalInv, GrowInv

\* XLogInsert adds a checked record to the WAL.
LEMMA WalGrows ==
    ASSUME NEW w, NEW t, NEW rec, WalInv(w, t), Checked(rec, w, Len(w), t),
           NEW v, v = Append(w, rec)
    PROVE  WalInv(v, t)
<1>1. /\ Len(w) \in Nat /\ v \in Seq(Range(w) \cup {rec}) /\ Len(v) = Len(w) + 1 /\ v[Len(w) + 1] = rec
      /\ \A i \in 1 .. Len(w) : v[i] = w[i]
   BY DEF WalInv
<1>2. v \in Seq(Range(v)) /\ SamePrefix(v, w, Len(w))
   BY <1>1, SeqRange, Zenon DEF SamePrefix
<1>3. PICK n \in Nat : n = Len(w) /\ n \in 0 .. n
   BY <1>1
<1>4. SamePointers(v, w, n, t)
   BY <1>2, <1>3, PrefixSame, Zenon
<1>5. Checked(rec, v, n, t)
   BY <1>3, <1>4, CheckedSame, Zenon
<1>6. RecordInv(v, n + 1, t)
   BY <1>1, <1>3, <1>5 DEF RecordInv
<1> QED BY <1>1, <1>2, <1>3, <1>6, WalLonger, Zenon

\* A crash leaves the first m records of the WAL.
LEMMA WalCut ==
    ASSUME NEW w, NEW t, WalInv(w, t), NEW m \in 0 .. Len(w), NEW v, v = SubSeq(w, 1, m)
    PROVE  WalInv(v, t) /\ Len(v) = m /\ SamePrefix(v, w, m)
<1>1. /\ m \in Nat /\ m <= Len(w) /\ v \in Seq(Range(w)) /\ Len(v) = m
      /\ \A i \in 1 .. m : v[i] = w[i]
   BY DEF WalInv
<1>2. v \in Seq(Range(v)) /\ SamePrefix(v, w, m)
   BY <1>1, SeqRange, Zenon DEF SamePrefix
<1> QED BY <1>1, <1>2, WalShorter, Zenon

-----------------------------------------------------------------------------
(* Logs and segments that agree with the WAL                               *)

\* The records that change a log and its segments.
LogTypes == {"insert", "discard"}
DataTypes == {"extend", "unlink"}
TxnTypes == {"slot_extend", "slot_unlink"}

\* Other records leave what the WAL says of them alone.
LEMMA AgreeStep ==
    ASSUME NEW w, NEW t, NEW n \in Nat, n > 0
    PROVE  /\ w[n].type \notin LogTypes =>
                  \A log : LogAgrees(log, w, n - 1) => LogAgrees(log, w, n)
           /\ w[n].type \notin DataTypes =>
                  \A seg : DataAgrees(seg, w, n - 1, t) => DataAgrees(seg, w, n, t)
           /\ w[n].type \notin TxnTypes =>
                  \A seg : TxnAgrees(seg, w, n - 1, t) => TxnAgrees(seg, w, n, t)
<1>1. ASSUME w[n].type \notin LogTypes
      PROVE  \A log : LogAgrees(log, w, n - 1) => LogAgrees(log, w, n)
   <2>1. /\ InsertAt(w, n) = InsertAt(w, n - 1) /\ AllocAt(w, n) = AllocAt(w, n - 1)
         /\ RecycleAt(w, n) = RecycleAt(w, n - 1) /\ DiscardAt(w, n) = DiscardAt(w, n - 1)
      BY <1>1, AtStep, Zenon DEF LogTypes
   <2> QED BY <2>1 DEF LogAgrees
<1>2. ASSUME w[n].type \notin DataTypes
      PROVE  \A seg : DataAgrees(seg, w, n - 1, t) => DataAgrees(seg, w, n, t)
   <2>1. /\ HeadAt(w, "unlink", n) = HeadAt(w, "unlink", n - 1)
         /\ DataTail(w, n, t) = DataTail(w, n - 1, t)
      BY <1>2, AtStep, Zenon DEF DataTypes
   <2> QED BY <2>1 DEF DataAgrees, DataTail
<1>3. ASSUME w[n].type \notin TxnTypes
      PROVE  \A seg : TxnAgrees(seg, w, n - 1, t) => TxnAgrees(seg, w, n, t)
   <2>1. /\ HeadAt(w, "slot_unlink", n) = HeadAt(w, "slot_unlink", n - 1)
         /\ TxnTail(w, n, t) = TxnTail(w, n - 1, t)
      BY <1>3, AtStep, Zenon DEF TxnTypes
   <2> QED BY <2>1 DEF TxnAgrees, TxnTail
<1> QED BY <1>1, <1>2, <1>3, Zenon

\* One more record has been written or replayed that does not change the log or
\* segment, or that it already has.
LEMMA SpanStep ==
    ASSUME NEW w, NEW t, Len(w) \in Nat, NEW n \in 1 .. Len(w), NEW x, x.lsn \in Nat
    PROVE  /\ LogSpan(x, w, n - 1) /\ (w[n].type \notin LogTypes \/ x.lsn >= n) =>
                  LogSpan(x, w, n)
           /\ DataSpan(x, w, n - 1, t) /\ (w[n].type \notin DataTypes \/ x.lsn >= n) =>
                  DataSpan(x, w, n, t)
           /\ TxnSpan(x, w, n - 1, t) /\ (w[n].type \notin TxnTypes \/ x.lsn >= n) =>
                  TxnSpan(x, w, n, t)
<1> DEFINE old == x.lsn .. Larger(x.lsn, n - 1)
           new == x.lsn .. Larger(x.lsn, n)
<1>1. x.lsn >= n => new = old
   BY DEF Larger
<1>2. n - 1 \in old \/ x.lsn >= n
   BY DEF Larger
<1>3. \A k \in new : k \in old \/ (k = n /\ x.lsn < n)
   BY DEF Larger
<1>4. n \in Nat /\ n > 0
   OBVIOUS
<1>5. \A k \in new : k \in old \/ (k = n /\ n - 1 \in old)
   BY <1>2, <1>3
<1> HIDE DEF old, new
<1>6. LogSpan(x, w, n - 1) /\ (w[n].type \notin LogTypes \/ x.lsn >= n) => LogSpan(x, w, n)
   <2>1. w[n].type \notin LogTypes => (LogAgrees(x, w, n - 1) => LogAgrees(x, w, n))
      BY <1>4, AgreeStep, Zenon
   <2> QED BY <1>1, <1>5, <2>1, Zenon DEF LogSpan, old, new
<1>7. DataSpan(x, w, n - 1, t) /\ (w[n].type \notin DataTypes \/ x.lsn >= n) =>
         DataSpan(x, w, n, t)
   <2>1. w[n].type \notin DataTypes => (DataAgrees(x, w, n - 1, t) => DataAgrees(x, w, n, t))
      BY <1>4, AgreeStep, Zenon
   <2> QED BY <1>1, <1>5, <2>1, Zenon DEF DataSpan, old, new
<1>8. TxnSpan(x, w, n - 1, t) /\ (w[n].type \notin TxnTypes \/ x.lsn >= n) => TxnSpan(x, w, n, t)
   <2>1. w[n].type \notin TxnTypes => (TxnAgrees(x, w, n - 1, t) => TxnAgrees(x, w, n, t))
      BY <1>4, AgreeStep, Zenon
   <2> QED BY <1>1, <1>5, <2>1, Zenon DEF TxnSpan, old, new
<1> QED BY <1>6, <1>7, <1>8, Zenon

\* What is flushed, or was there before a record was added, still agrees.
LEMMA SpanSame ==
    ASSUME NEW w, NEW v, NEW t, NEW n \in Nat, SamePrefix(v, w, n), Len(v) \in Nat, n <= Len(v),
           NEW to \in 0 .. n, NEW x, x.lsn \in 0 .. n
    PROVE  /\ LogSpan(x, w, to) => LogSpan(x, v, to)
           /\ DataSpan(x, w, to, t) => DataSpan(x, v, to, t)
           /\ TxnSpan(x, w, to, t) => TxnSpan(x, v, to, t)
<1>1. x.lsn \in 0 .. Len(v) /\ x.lsn .. Larger(x.lsn, to) \subseteq 0 .. n
   BY DEF Larger
<1>2. \A k \in 0 .. n : SameFacts(v, w, k, t)
   BY PrefixSame, Zenon
<1>3. \A k \in x.lsn .. Larger(x.lsn, to) : SameFacts(v, w, k, t)
   BY <1>1, <1>2, Zenon
<1>4. LogSpan(x, w, to) => LogSpan(x, v, to)
   BY <1>1, <1>3, Zenon DEF LogSpan, SameFacts
<1>5. DataSpan(x, w, to, t) => DataSpan(x, v, to, t)
   BY <1>1, <1>3, Zenon DEF DataSpan, SameFacts
<1>6. TxnSpan(x, w, to, t) => TxnSpan(x, v, to, t)
   BY <1>1, <1>3, Zenon DEF TxnSpan, SameFacts
<1> QED BY <1>4, <1>5, <1>6, Zenon

\* What a record has just changed.
LEMMA SpanNew ==
    ASSUME NEW w, NEW t, Len(w) \in Nat, NEW n \in 0 .. Len(w), NEW x, x.lsn = n
    PROVE  /\ LogAgrees(x, w, n) => LogSpan(x, w, n)
           /\ DataAgrees(x, w, n, t) => DataSpan(x, w, n, t)
           /\ TxnAgrees(x, w, n, t) => TxnSpan(x, w, n, t)
<1>1. x.lsn \in 0 .. Len(w) /\ \A k \in x.lsn .. Larger(x.lsn, n) : k = n
   BY DEF Larger
<1> QED BY <1>1, Zenon DEF LogSpan, DataSpan, TxnSpan

\* What agrees up to a record agrees up to an earlier one.
LEMMA SpanLess ==
    ASSUME NEW w, NEW t, NEW n \in Nat, NEW to \in 0 .. n, NEW x, x.lsn \in Nat
    PROVE  /\ LogSpan(x, w, n) => LogSpan(x, w, to)
           /\ DataSpan(x, w, n, t) => DataSpan(x, w, to, t)
           /\ TxnSpan(x, w, n, t) => TxnSpan(x, w, to, t)
<1>1. x.lsn .. Larger(x.lsn, to) \subseteq x.lsn .. Larger(x.lsn, n)
   BY DEF Larger
<1> QED BY <1>1, Zenon DEF LogSpan, DataSpan, TxnSpan

-----------------------------------------------------------------------------
(* Steps that write a record                                               *)

\* The WAL has a length.
LEMMA WalLength ==
    ASSUME NEW w, NEW t, WalInv(w, t)
    PROVE  Len(w) \in Nat
BY DEF WalInv

\* While the server is up, the log and its segments are what the WAL says now.
LEMMA Now ==
    ASSUME NEW t \in InitTails, Inv(t), mode = "up"
    PROVE  /\ Len(wal) \in Nat /\ PrefixInv(wal, Len(wal), t)
           /\ LogAgrees(ulog, wal, Len(wal))
           /\ DataAgrees(data_seg, wal, Len(wal), t) /\ TxnAgrees(txn_seg, wal, Len(wal), t)
<1>1. WalInv(wal, t) /\ ShapeInv
   BY Zenon DEF Inv
<1>2. LogSpan(ulog, wal, Len(wal)) /\ DataSpan(data_seg, wal, Len(wal), t)
      /\ TxnSpan(txn_seg, wal, Len(wal), t)
   BY Zenon DEF Inv, MemoryInv, Replayed
<1>3. Len(wal) \in Nat /\ Len(wal) \in 0 .. Len(wal)
   BY <1>1 DEF WalInv
<1>4. \A l \in 0 .. Len(wal) : Len(wal) \in l .. Larger(l, Len(wal))
   BY <1>3 DEF Larger
<1>5. PrefixInv(wal, Len(wal), t)
   BY <1>1, <1>3, Zenon DEF WalInv
<1> QED BY <1>2, <1>3, <1>4, <1>5, Zenon DEF LogSpan, DataSpan, TxnSpan

\* The numbers behind it.
LEMMA NowNumbers ==
    ASSUME NEW t \in InitTails, Inv(t), mode = "up"
    PROVE  /\ InsertAt(wal, Len(wal)) = ulog.insert /\ AllocAt(wal, Len(wal)) = ulog.alloc
           /\ RecycleAt(wal, Len(wal)) = ulog.recycle /\ DiscardAt(wal, Len(wal)) = ulog.discard
           /\ HeadAt(wal, "unlink", Len(wal)) = data_seg.head
           /\ HeadAt(wal, "slot_unlink", Len(wal)) = txn_seg.head
           /\ DataTail(wal, Len(wal), t) = data_seg.tail /\ TxnTail(wal, Len(wal), t) = txn_seg.tail
           /\ data_seg.tail \in Nat /\ txn_seg.tail \in Nat
           /\ ulog.insert \in 0 .. data_seg.tail /\ ulog.alloc \in 0 .. txn_seg.tail
           /\ ulog.recycle \in 0 .. ulog.alloc /\ ulog.discard \in 0 .. ulog.insert
           /\ data_seg.head \in 0 .. ulog.insert /\ txn_seg.head \in 0 .. ulog.alloc
           /\ ulog.alloc > 0 => data_seg.tail > 0
<1>1. /\ InsertAt(wal, Len(wal)) = ulog.insert /\ AllocAt(wal, Len(wal)) = ulog.alloc
      /\ RecycleAt(wal, Len(wal)) = ulog.recycle /\ DiscardAt(wal, Len(wal)) = ulog.discard
   BY Now, Zenon DEF LogAgrees
<1>2. /\ HeadAt(wal, "unlink", Len(wal)) = data_seg.head
      /\ DataTail(wal, Len(wal), t) = data_seg.tail
   BY Now, Zenon DEF DataAgrees, DataTail
<1>3. /\ HeadAt(wal, "slot_unlink", Len(wal)) = txn_seg.head
      /\ TxnTail(wal, Len(wal), t) = txn_seg.tail
   BY Now, Zenon DEF TxnAgrees, TxnTail
<1>4. PrefixInv(wal, Len(wal), t)
   BY Now, Zenon
<1> QED BY <1>1, <1>2, <1>3, <1>4, Zenon DEF PrefixInv

\* A step that writes one checked record.
Appends(rec, t) == wal' = Append(wal, rec) /\ Checked(rec, wal, Len(wal), t)

\* The WAL stays what it was up to there.
LEMMA AppendWal ==
    ASSUME NEW t \in InitTails, Inv(t), NEW rec, Appends(rec, t)
    PROVE  /\ WalInv(wal', t) /\ SamePrefix(wal', wal, Len(wal))
           /\ Len(wal) \in Nat /\ Len(wal') = Len(wal) + 1 /\ wal'[Len(wal')] = rec
<1>1. wal' = Append(wal, rec) /\ Checked(rec, wal, Len(wal), t)
   BY Zenon DEF Appends
<1>2. WalInv(wal, t)
   BY Zenon DEF Inv
<1>3. WalInv(wal', t)
   BY <1>1, <1>2, WalGrows, Zenon
<1>4. wal \in Seq(Range(wal))
   BY <1>2, Zenon DEF WalInv
<1>5. /\ Len(wal) \in Nat /\ Len(wal') = Len(wal) + 1 /\ wal'[Len(wal')] = rec
      /\ \A i \in 1 .. Len(wal) : wal'[i] = wal[i]
   BY <1>1, AtStep
<1> QED BY <1>3, <1>5, Zenon DEF SamePrefix

\* What agreed with the WAL still does, and does so up to the new record if
\* that is of another kind.
LEMMA AppendSpan ==
    ASSUME NEW t \in InitTails, Inv(t), NEW rec, Appends(rec, t), NEW x, NEW to \in 0 .. Len(wal)
    PROVE  /\ LogSpan(x, wal, to) => LogSpan(x, wal', to)
           /\ DataSpan(x, wal, to, t) => DataSpan(x, wal', to, t)
           /\ TxnSpan(x, wal, to, t) => TxnSpan(x, wal', to, t)
           /\ LogSpan(x, wal, Len(wal)) /\ rec.type \notin LogTypes =>
                  LogSpan(x, wal', Len(wal'))
           /\ DataSpan(x, wal, Len(wal), t) /\ rec.type \notin DataTypes =>
                  DataSpan(x, wal', Len(wal'), t)
           /\ TxnSpan(x, wal, Len(wal), t) /\ rec.type \notin TxnTypes =>
                  TxnSpan(x, wal', Len(wal'), t)
<1>1. /\ SamePrefix(wal', wal, Len(wal)) /\ Len(wal) \in Nat /\ Len(wal') \in Nat
      /\ Len(wal) <= Len(wal') /\ Len(wal') \in 1 .. Len(wal') /\ Len(wal') - 1 = Len(wal)
      /\ Len(wal) \in 0 .. Len(wal) /\ wal'[Len(wal')] = rec
   BY AppendWal
<1>2. CASE x.lsn \in 0 .. Len(wal)
   <2>1. x.lsn \in Nat
      BY <1>1, <1>2
   <2>2. \A n \in 0 .. Len(wal) : /\ LogSpan(x, wal, n) => LogSpan(x, wal', n)
                                  /\ DataSpan(x, wal, n, t) => DataSpan(x, wal', n, t)
                                  /\ TxnSpan(x, wal, n, t) => TxnSpan(x, wal', n, t)
      BY <1>1, <1>2, SpanSame, Zenon
   <2>3. /\ LogSpan(x, wal', Len(wal') - 1) /\ rec.type \notin LogTypes =>
               LogSpan(x, wal', Len(wal'))
         /\ DataSpan(x, wal', Len(wal') - 1, t) /\ rec.type \notin DataTypes =>
               DataSpan(x, wal', Len(wal'), t)
         /\ TxnSpan(x, wal', Len(wal') - 1, t) /\ rec.type \notin TxnTypes =>
               TxnSpan(x, wal', Len(wal'), t)
      BY <1>1, <2>1, SpanStep, Zenon
   <2> QED BY <1>1, <2>2, <2>3, Zenon
<1>3. CASE x.lsn \notin 0 .. Len(wal)
   BY <1>3, Zenon DEF LogSpan, DataSpan, TxnSpan
<1> QED BY <1>2, <1>3, Zenon

\* What the WAL says with the record.
LEMMA AppendAt ==
    ASSUME NEW t \in InitTails, Inv(t), NEW rec, Appends(rec, t)
    PROVE  /\ InsertAt(wal', Len(wal')) =
                  IF rec.type = "insert" THEN rec.urp + 1 ELSE InsertAt(wal, Len(wal))
           /\ AllocAt(wal', Len(wal')) =
                  IF rec.type = "insert" THEN rec.slot + 1 ELSE AllocAt(wal, Len(wal))
           /\ RecycleAt(wal', Len(wal')) =
                  IF rec.type = "discard" THEN rec.endSlot ELSE RecycleAt(wal, Len(wal))
           /\ DiscardAt(wal', Len(wal')) =
                  IF rec.type = "discard" THEN rec.endUndoPtr ELSE DiscardAt(wal, Len(wal))
           /\ \A type : HeadAt(wal', type, Len(wal')) =
                  IF rec.type = type THEN rec.head ELSE HeadAt(wal, type, Len(wal))
           /\ DataTail(wal', Len(wal'), t) =
                  IF rec.type = "extend" THEN rec.tail ELSE DataTail(wal, Len(wal), t)
           /\ TxnTail(wal', Len(wal'), t) =
                  IF rec.type = "slot_extend" THEN rec.tail ELSE TxnTail(wal, Len(wal), t)
<1> DEFINE n == Len(wal')
<1>1. /\ SamePrefix(wal', wal, Len(wal)) /\ Len(wal) \in Nat /\ n \in Nat /\ n > 0
      /\ n - 1 = Len(wal) /\ wal'[n] = rec
   BY AppendWal
<1> HIDE DEF n
<1>2. /\ InsertAt(wal', n) = IF rec.type = "insert" THEN rec.urp + 1 ELSE InsertAt(wal', Len(wal))
      /\ AllocAt(wal', n) = IF rec.type = "insert" THEN rec.slot + 1 ELSE AllocAt(wal', Len(wal))
      /\ RecycleAt(wal', n) =
             IF rec.type = "discard" THEN rec.endSlot ELSE RecycleAt(wal', Len(wal))
      /\ DiscardAt(wal', n) =
             IF rec.type = "discard" THEN rec.endUndoPtr ELSE DiscardAt(wal', Len(wal))
      /\ \A type : HeadAt(wal', type, n) =
             IF rec.type = type THEN rec.head ELSE HeadAt(wal', type, Len(wal))
      /\ DataTail(wal', n, t) = IF rec.type = "extend" THEN rec.tail ELSE DataTail(wal', Len(wal), t)
      /\ TxnTail(wal', n, t) =
             IF rec.type = "slot_extend" THEN rec.tail ELSE TxnTail(wal', Len(wal), t)
   BY <1>1, AtStep
<1>3. SamePointers(wal', wal, Len(wal), t)
   BY <1>1, AtSame, Zenon
<1> QED BY <1>2, <1>3 DEF SamePointers, n

\* The metadata file is as good after the record as before.
LEMMA AppendMeta ==
    ASSUME NEW t \in InitTails, Inv(t), NEW rec, Appends(rec, t),
           UNCHANGED <<meta, control>>, flushed' \in Nat, flushed <= flushed',
           ckpt'.pc = ckpt.pc, ckpt'.redo = ckpt.redo
    PROVE  MetaInv(t)'
<1>1. MetaInv(t) /\ ShapeInv
   BY Zenon DEF Inv
<1>2. Len(wal) \in Nat
   BY AppendWal, Zenon
<1>3. control.redo \in 0 .. Len(wal) /\ (ckpt.pc # "idle" => ckpt.redo \in 0 .. Len(wal))
   <2>1. ckpt.redo \in Nat
      BY <1>1, Zenon DEF ShapeInv, Checkpoints
   <2> QED BY <1>1, <1>2, <2>1 DEF ShapeInv
<1>4. meta.log \in Logs /\ meta.data \in Segments /\ meta.txn \in Segments /\ flushed \in Nat
   BY <1>1, <1>2 DEF ShapeInv
<1>5. \A x : \A to \in 0 .. Len(wal) : /\ LogSpan(x, wal, to) => LogSpan(x, wal', to)
                                       /\ DataSpan(x, wal, to, t) => DataSpan(x, wal', to, t)
                                       /\ TxnSpan(x, wal, to, t) => TxnSpan(x, wal', to, t)
   BY AppendSpan, Zenon
<1>6. /\ meta.log.lsn <= flushed' /\ meta.data.lsn <= flushed' /\ meta.txn.lsn <= flushed'
   BY <1>1, <1>4 DEF MetaInv, Logs, Segments
<1> QED BY <1>1, <1>3, <1>5, <1>6, Zenon DEF MetaInv

\* The record is in the memory it describes, and other memory is as before.
LEMMA AppendMemory ==
    ASSUME NEW t \in InitTails, Inv(t), NEW rec, Appends(rec, t), mode = "up", mode' = "up",
           \/ ulog' = ulog /\ rec.type \notin LogTypes
           \/ ulog'.lsn = Len(wal') /\ LogAgrees(ulog', wal', Len(wal')),
           \/ data_seg' = data_seg /\ rec.type \notin DataTypes
           \/ data_seg'.lsn = Len(wal') /\ DataAgrees(data_seg', wal', Len(wal'), t),
           \/ txn_seg' = txn_seg /\ rec.type \notin TxnTypes
           \/ txn_seg'.lsn = Len(wal') /\ TxnAgrees(txn_seg', wal', Len(wal'), t)
    PROVE  MemoryInv(t)'
<1>1. /\ LogSpan(ulog, wal, Len(wal)) /\ DataSpan(data_seg, wal, Len(wal), t)
      /\ TxnSpan(txn_seg, wal, Len(wal), t)
   BY Zenon DEF Inv, MemoryInv, Replayed
<1>2. Len(wal) \in Nat /\ Len(wal) \in 0 .. Len(wal) /\ Len(wal') \in Nat /\ Len(wal') \in 0 .. Len(wal')
   BY AppendWal
<1>3. LogSpan(ulog', wal', Len(wal'))
   <2>1. CASE ulog' = ulog /\ rec.type \notin LogTypes
      BY <1>1, <1>2, <2>1, AppendSpan, Zenon
   <2>2. CASE ulog'.lsn = Len(wal') /\ LogAgrees(ulog', wal', Len(wal'))
      BY <1>2, <2>2, SpanNew, Zenon
   <2> QED BY <2>1, <2>2, Zenon
<1>4. DataSpan(data_seg', wal', Len(wal'), t)
   <2>1. CASE data_seg' = data_seg /\ rec.type \notin DataTypes
      BY <1>1, <1>2, <2>1, AppendSpan, Zenon
   <2>2. CASE data_seg'.lsn = Len(wal') /\ DataAgrees(data_seg', wal', Len(wal'), t)
      BY <1>2, <2>2, SpanNew, Zenon
   <2> QED BY <2>1, <2>2, Zenon
<1>5. TxnSpan(txn_seg', wal', Len(wal'), t)
   <2>1. CASE txn_seg' = txn_seg /\ rec.type \notin TxnTypes
      BY <1>1, <1>2, <2>1, AppendSpan, Zenon
   <2>2. CASE txn_seg'.lsn = Len(wal') /\ TxnAgrees(txn_seg', wal', Len(wal'), t)
      BY <1>2, <2>2, SpanNew, Zenon
   <2> QED BY <2>1, <2>2, Zenon
<1>6. Replayed' = Len(wal')
   BY DEF Replayed
<1> QED BY <1>3, <1>4, <1>5, <1>6, Zenon DEF MemoryInv

\* A page with nothing on it.
LEMMA EmptyPages ==
    ASSUME NEW w, NEW n
    PROVE  EmptyPage.lsn = 0 /\ EndsBelow(EmptyPage.items, w, n)
BY DEF EmptyPage, EndsBelow, EndUpTo

\* The pages are as before, empty, or changed by the record.
LEMMA AppendPages ==
    ASSUME NEW t \in InitTails, Inv(t), NEW rec, Appends(rec, t),
           flushed' \in 0 .. Len(wal'), flushed <= flushed', disk' = [p \in Pages |-> disk'[p]],
           \A p \in Pages : disk'[p] = disk[p] \/ disk'[p] = EmptyPage,
           \A p \in Pages :
              \/ buf'[p] = buf[p] \/ buf'[p] = EmptyPage
              \/ /\ buf'[p].lsn = Len(wal')
                 /\ p[1] = "slot" => EndsBelow(buf'[p].items, wal', Len(wal'))
    PROVE  PageInv'
<1>1. PageInv /\ ShapeInv
   BY Zenon DEF Inv
<1>2. /\ Len(wal) \in Nat /\ Len(wal') = Len(wal) + 1 /\ SamePrefix(wal', wal, Len(wal))
      /\ flushed \in 0 .. Len(wal)
   BY <1>1, AppendWal DEF ShapeInv
<1>3. \A k \in 0 .. Len(wal) : \A items : EndsBelow(items, wal', k) <=> EndsBelow(items, wal, k)
   BY <1>2, PrefixSame, Zenon DEF SameFacts
<1>4. \A k \in 0 .. Len(wal) : k \in 0 .. Len(wal')
   BY <1>2
<1>5. \A k \in 0 .. flushed : k \in 0 .. flushed' /\ k \in 0 .. Len(wal)
   BY <1>2
<1>6. 0 \in 0 .. Len(wal') /\ 0 \in 0 .. flushed' /\ Len(wal') \in 0 .. Len(wal')
   BY <1>2
<1>7. ASSUME NEW p \in Pages
      PROVE  /\ buf'[p].lsn \in 0 .. Len(wal') /\ disk'[p].lsn \in 0 .. flushed'
             /\ p[1] = "slot" => /\ EndsBelow(buf'[p].items, wal', buf'[p].lsn)
                                 /\ EndsBelow(disk'[p].items, wal', disk'[p].lsn)
   <2>1. /\ buf[p].lsn \in 0 .. Len(wal) /\ disk[p].lsn \in 0 .. flushed
         /\ p[1] = "slot" => /\ EndsBelow(buf[p].items, wal, buf[p].lsn)
                             /\ EndsBelow(disk[p].items, wal, disk[p].lsn)
      BY <1>1, <1>7, Zenon DEF PageInv
   <2>2. /\ disk'[p].lsn \in 0 .. flushed'
         /\ p[1] = "slot" => EndsBelow(disk'[p].items, wal', disk'[p].lsn)
      BY <1>3, <1>5, <1>6, <1>7, <2>1, EmptyPages, Zenon
   <2>3. /\ buf'[p].lsn \in 0 .. Len(wal')
         /\ p[1] = "slot" => EndsBelow(buf'[p].items, wal', buf'[p].lsn)
      BY <1>3, <1>4, <1>6, <1>7, <2>1, EmptyPages, Zenon
   <2> QED BY <2>2, <2>3, Zenon
<1> QED BY <1>7, Zenon DEF PageInv

\* Slots have been allocated up to the record's, or as before.
LEMMA AppendAlloc ==
    ASSUME NEW t \in InitTails, Inv(t), NEW rec, Appends(rec, t), NEW x \in Int, AllocBelow(wal, x),
           rec.type = "insert" => rec.slot + 1 < x
    PROVE  AllocBelow(wal', x)
<1>1. /\ Len(wal) \in Nat /\ Len(wal') = Len(wal) + 1 /\ SamePrefix(wal', wal, Len(wal))
   BY AppendWal
<1>2. \A k \in 0 .. Len(wal) : AllocAt(wal', k) = AllocAt(wal, k)
   BY <1>1, PrefixSame, Zenon DEF SamePointers
<1>3. AllocAt(wal', Len(wal')) = IF rec.type = "insert" THEN rec.slot + 1 ELSE AllocAt(wal, Len(wal))
   BY AppendAt, Zenon
<1>4. \A k \in 0 .. Len(wal) : AllocAt(wal, k) < x
   BY Zenon DEF AllocBelow
<1>5. AllocAt(wal', Len(wal')) < x
   BY <1>1, <1>3, <1>4
<1>6. \A k \in 0 .. Len(wal') : k \in 0 .. Len(wal) \/ k = Len(wal')
   BY <1>1
<1> QED BY <1>2, <1>4, <1>5, <1>6, Zenon DEF AllocBelow

\* What a step that writes the record may do to memory: nothing, or what the
\* record says.
LogWritten(rec) ==
    \/ ulog' = ulog /\ rec.type \notin LogTypes
    \/ /\ ulog' \in Logs /\ ulog'.dirty /\ data_seg'.tail > 0
       /\ ulog'.lsn = Len(wal') /\ LogAgrees(ulog', wal', Len(wal'))
DataWritten(rec, t) ==
    \/ data_seg' = data_seg /\ rec.type \notin DataTypes
    \/ /\ data_seg' \in Segments /\ data_seg'.dirty /\ data_seg'.tail > 0
       /\ data_seg'.lsn = Len(wal') /\ DataAgrees(data_seg', wal', Len(wal'), t)
TxnWritten(rec, t) ==
    \/ txn_seg' = txn_seg /\ rec.type \notin TxnTypes
    \/ /\ txn_seg' \in Segments /\ txn_seg'.dirty /\ data_seg'.tail > 0
       /\ txn_seg'.lsn = Len(wal') /\ TxnAgrees(txn_seg', wal', Len(wal'), t)
PagesWritten ==
    /\ disk' = [p \in Pages |-> disk'[p]]
    /\ \A p \in Pages : disk'[p] = disk[p] \/ disk'[p] = EmptyPage
    /\ \A p \in Pages : \/ buf'[p] = buf[p] \/ buf'[p] = EmptyPage
                        \/ /\ buf'[p].lsn = Len(wal')
                           /\ p[1] = "slot" => EndsBelow(buf'[p].items, wal', Len(wal'))
ServerKept ==
    /\ mode = "up" /\ UNCHANGED <<meta, control, mode, next_redo>>
    /\ flushed' = flushed \/ flushed' = NextLsn
    /\ ckpt' \in Checkpoints /\ ckpt'.pc = ckpt.pc /\ ckpt'.redo = ckpt.redo
    /\ dw' \in Discards /\ used' = IF data_seg'.tail > 0 THEN 1 ELSE 0

\* A step that writes a checked record and does nothing else to memory and pages
\* keeps the invariant.
LEMMA WriteStep ==
    ASSUME NEW t \in InitTails, Inv(t), NEW rec, Appends(rec, t), ServerKept, LogWritten(rec),
           DataWritten(rec, t), TxnWritten(rec, t), PagesWritten, WriterInv'
    PROVE  Inv(t)'
<1>1. ShapeInv /\ DirtyInv
   BY Zenon DEF Inv
<1>2. WalInv(wal', t) /\ Len(wal) \in Nat /\ Len(wal') = Len(wal) + 1
   BY AppendWal, Zenon
<1>3. /\ flushed \in 0 .. Len(wal) /\ flushed' \in 0 .. Len(wal') /\ flushed <= flushed'
      /\ flushed' \in Nat /\ mode' = "up" /\ mode = "up"
   BY <1>1, <1>2 DEF ServerKept, NextLsn, ShapeInv
<1>4. MemoryInv(t)'
   BY <1>3, AppendMemory, Zenon DEF LogWritten, DataWritten, TxnWritten
<1>5. MetaInv(t)'
   BY <1>3, AppendMeta, Zenon DEF ServerKept
<1>6. PageInv'
   BY <1>3, AppendPages, Zenon DEF PagesWritten
<1>7. ulog' \in Logs /\ data_seg' \in Segments /\ txn_seg' \in Segments
   BY <1>1, Zenon DEF ShapeInv, LogWritten, DataWritten, TxnWritten
<1>8. ShapeInv'
   <2>1. meta' \in [log : Logs, data : Segments, txn : Segments]
      BY <1>1, Zenon DEF ShapeInv, ServerKept
   <2>2. /\ control'.redo \in 0 .. flushed' /\ next_redo' \in 0 .. Len(wal') + 1
         /\ ckpt'.pc # "idle" => ckpt'.redo <= Len(wal')
      <3>1. /\ control.redo \in 0 .. flushed /\ next_redo \in 0 .. Len(wal) + 1
            /\ ckpt.pc # "idle" => ckpt.redo <= Len(wal)
         BY <1>1, Zenon DEF ShapeInv
      <3>2. ckpt.redo \in Nat
         BY <1>1, Zenon DEF ShapeInv, Checkpoints
      <3> QED BY <1>2, <1>3, <3>1, <3>2 DEF ServerKept
   <2>3. next_redo' = 0
      BY <1>1, <1>3, Zenon DEF ShapeInv, ServerKept
   <2> QED BY <1>3, <1>7, <2>1, <2>2, <2>3, Zenon DEF ShapeInv, ServerKept
<1>9. DirtyInv'
   <2>1. ~meta'.log.dirty /\ ~meta'.data.dirty /\ ~meta'.txn.dirty /\ meta' = meta
      BY <1>1, Zenon DEF DirtyInv, ServerKept
   <2>2. /\ ~ulog'.dirty => ulog' = meta.log
         /\ ~data_seg'.dirty => data_seg' = meta.data
         /\ ~txn_seg'.dirty => txn_seg' = meta.txn
      BY <1>1, <1>3, Zenon DEF DirtyInv, LogWritten, DataWritten, TxnWritten
   <2>3. data_seg'.tail > 0 \/ (UNCHANGED <<ulog, data_seg, txn_seg>>)
      BY Zenon DEF LogWritten, DataWritten, TxnWritten
   <2>4. data_seg'.tail = 0 => UNCHANGED <<ulog, data_seg, txn_seg>>
      BY <2>3
   <2>5. data_seg'.tail = 0 => ~ulog'.dirty /\ ~data_seg'.dirty /\ ~txn_seg'.dirty
      BY <1>1, <1>3, <2>4, Zenon DEF DirtyInv
   <2> QED BY <2>1, <2>2, <2>5, Zenon DEF DirtyInv
<1> QED BY <1>2, <1>4, <1>5, <1>6, <1>8, <1>9, Zenon DEF Inv

\* Files start and end at multiples of their size.
LEMMA Multiples ==
    ASSUME NEW x \in Nat, NEW m \in Nat \ {0}
    PROVE  /\ (x \div m) * m \in 0 .. x
           /\ (x \div m + 1) * m \in Nat /\ (x \div m + 1) * m > x
OBVIOUS

\* Records other than a heap change leave the writer alone, or end its
\* transaction.
LEMMA WriterKept ==
    ASSUME NEW t \in InitTails, Inv(t), NEW rec, Appends(rec, t), rec.type # "insert", mode = "up",
           UNCHANGED <<nextXid, mode>>, ulog'.insert = ulog.insert, ulog'.alloc = ulog.alloc,
           (UNCHANGED <<running, slot_ptr>>) \/ (running' = NoXid /\ slot_ptr' = NoSlot),
           dw'.pc # "idle" => /\ data_seg'.tail > 0
                              /\ dw'.undo \in 0 .. ulog.insert /\ dw'.slot \in 0 .. ulog.alloc
    PROVE  WriterInv'
<1>1. WriterInv
   BY Zenon DEF Inv
<1>2. nextXid \in Int /\ nextXid - 1 \in Int
   BY <1>1, ConstantsAssumption DEF WriterInv
<1>3. AllocBelow(wal, nextXid) => AllocBelow(wal', nextXid)
   BY <1>2, AppendAlloc, Zenon
<1>4. AllocBelow(wal, nextXid - 1) => AllocBelow(wal', nextXid - 1)
   BY <1>2, AppendAlloc, Zenon
<1> QED BY <1>1, <1>3, <1>4, Zenon DEF WriterInv

-----------------------------------------------------------------------------
(* The steps: writing                                                      *)

\* A transaction begins.
LEMMA BeginStep ==
    ASSUME NEW t \in InitTails, Inv(t), Begin
    PROVE  Inv(t)'
<1>1. /\ WalInv(wal, t)' /\ MemoryInv(t)' /\ MetaInv(t)' /\ ShapeInv' /\ DirtyInv' /\ PageInv'
   BY Zenon DEF Inv, Begin, MemoryInv, Replayed, MetaInv, ShapeInv, DirtyInv, PageInv, memVars, walVars,
             diskVars, serverVars
<1>2. WriterInv /\ WalInv(wal, t)
   BY Zenon DEF Inv
<1>3. /\ running = NoXid /\ nextXid <= MaxXid /\ running' = nextXid /\ nextXid' = nextXid + 1
      /\ UNCHANGED <<slot_ptr, dw, mode, ulog, data_seg, wal>>
   BY DEF Begin, memVars, walVars, serverVars
<1>4. Len(wal) \in Nat /\ \A k \in 0 .. Len(wal) : AllocAt(wal, k) \in Nat
   <2>1. \A k \in 0 .. Len(wal) : PrefixInv(wal, k, t)
      BY <1>2, Zenon DEF WalInv
   <2>2. \A k \in 0 .. Len(wal) : AllocAt(wal, k) \in Nat
      BY <2>1, PrefixNumbers, Zenon
   <2>3. Len(wal) \in Nat
      BY <1>2 DEF WalInv
   <2> QED BY <2>2, <2>3
<1>5. nextXid \in 1 .. MaxXid + 1 /\ AllocBelow(wal, nextXid)
   BY <1>2, Zenon DEF WriterInv
<1>6. nextXid' \in 1 .. MaxXid + 1 /\ running' \in {NoXid} \cup Xids /\ nextXid' - 1 = nextXid
   BY <1>3, <1>5, ConstantsAssumption DEF Xids
<1>7. AllocBelow(wal, nextXid')
   BY <1>3, <1>4, <1>5 DEF AllocBelow
<1>8. WriterInv'
   BY <1>2, <1>3, <1>5, <1>6, <1>7, Zenon DEF WriterInv
<1> QED BY <1>1, <1>8, Zenon DEF Inv

\* A transaction aborts.
LEMMA AbortStep ==
    ASSUME NEW t \in InitTails, Inv(t), Abort
    PROVE  Inv(t)'
<1>1. /\ WalInv(wal, t)' /\ MemoryInv(t)' /\ MetaInv(t)' /\ ShapeInv' /\ DirtyInv' /\ PageInv'
   BY Zenon DEF Inv, Abort, MemoryInv, Replayed, MetaInv, ShapeInv, DirtyInv, PageInv, memVars, walVars,
             diskVars, serverVars
<1>2. WriterInv'
   BY Zenon DEF Inv, Abort, WriterInv, memVars, walVars, serverVars
<1> QED BY <1>1, <1>2, Zenon DEF Inv

\* A transaction commits.
LEMMA CommitStep ==
    ASSUME NEW t \in InitTails, Inv(t), Commit
    PROVE  Inv(t)'
<1>1. PICK rec : rec = [type |-> "commit", xid |-> running]
   BY Zenon
<1>2. rec.type = "commit" /\ Checked(rec, wal, Len(wal), t)
   BY <1>1 DEF Checked
<1>3. Appends(rec, t)
   BY <1>1, <1>2, Zenon DEF Commit, XLogInsert, Appends
<1>4. /\ mode = "up" /\ flushed' = NextLsn /\ running' = NoXid /\ slot_ptr' = NoSlot
      /\ UNCHANGED <<nextXid, ulog, data_seg, txn_seg, used, buf, dw, ckpt, disk, meta, control, mode,
                     next_redo>>
   BY Zenon DEF Commit, memVars, diskVars, serverVars
<1>5. ShapeInv /\ WriterInv /\ PageInv
   BY Zenon DEF Inv
<1>6. ServerKept
   BY <1>4, <1>5, Zenon DEF ServerKept, ShapeInv
<1>7. LogWritten(rec) /\ DataWritten(rec, t) /\ TxnWritten(rec, t)
   BY <1>2, <1>4, Zenon DEF LogWritten, DataWritten, TxnWritten, LogTypes, DataTypes, TxnTypes
<1>8. PagesWritten
   BY <1>4, <1>5, Zenon DEF PagesWritten, PageInv
<1>9. WriterInv'
   BY <1>2, <1>3, <1>4, <1>5, WriterKept, Zenon DEF WriterInv
<1> QED BY <1>3, <1>6, <1>7, <1>8, <1>9, WriteStep, Zenon

\* undolog_alloc_space extends the data segment.
LEMMA SpaceStep ==
    ASSUME NEW t \in InitTails, Inv(t), undolog_alloc_space
    PROVE  Inv(t)'
<1>1. PICK tail : tail = ((ulog.insert + 1) \div RecordsPerFile + 1) * RecordsPerFile
   OBVIOUS
<1>2. PICK rec : rec = [type |-> "extend", tail |-> tail]
   BY Zenon
<1>3. rec.type = "extend" /\ rec.tail = tail
   BY <1>2
<1>4. ShapeInv /\ WriterInv /\ PageInv
   BY Zenon DEF Inv
<1>5. data_seg \in Segments
   BY <1>4, Zenon DEF ShapeInv
<1>6. /\ mode = "up" /\ ulog.insert + 1 >= data_seg.tail
      /\ data_seg' = [data_seg EXCEPT !.tail = tail, !.lsn = NextLsn, !.dirty = TRUE]
      /\ used' = IF data_seg.tail = 0 THEN used + 1 ELSE used
      /\ UNCHANGED <<nextXid, running, slot_ptr, ulog, txn_seg, buf, dw, ckpt, flushed, disk, meta,
                     control, mode, next_redo>>
   BY <1>1, Zenon DEF undolog_alloc_space, Extended, xactVars, diskVars, serverVars
<1>7. /\ tail \in Nat /\ tail \in Nat \ {0} /\ tail > data_seg.tail /\ DataTail(wal, Len(wal), t) = data_seg.tail
      /\ data_seg.tail \in Nat
   <2>1. ulog.insert + 1 \in Nat /\ data_seg.tail \in Nat /\ DataTail(wal, Len(wal), t) = data_seg.tail
      BY <1>6, NowNumbers
   <2>2. tail \in Nat /\ tail > ulog.insert + 1
      BY <1>1, <2>1, Multiples, ConstantsAssumption, Zenon
   <2> QED BY <1>6, <2>1, <2>2
<1>8. Checked(rec, wal, Len(wal), t)
   BY <1>3, <1>7 DEF Checked
<1>9. wal' = Append(wal, [type |-> "extend", tail |-> data_seg'.tail])
   BY DEF undolog_alloc_space, XLogInsert
<1>10. Len(wal) \in Nat /\ NextLsn \in Nat
   BY <1>6, Now DEF NextLsn
<1>11. /\ data_seg' \in Segments /\ data_seg'.head = data_seg.head /\ data_seg'.tail = tail
       /\ data_seg'.lsn = NextLsn /\ data_seg'.dirty
   BY <1>5, <1>6, <1>7, <1>10, Zenon DEF Segments
<1>12. Appends(rec, t)
   BY <1>2, <1>8, <1>9, <1>11 DEF Appends
<1>13. NextLsn = Len(wal') /\ data_seg'.tail > 0
   BY <1>7, <1>11, <1>12, AppendWal DEF NextLsn
<1>14. DataAgrees(data_seg', wal', Len(wal'), t)
   <2>1. HeadAt(wal', "unlink", Len(wal')) = data_seg.head /\ DataTail(wal', Len(wal'), t) = tail
      BY <1>3, <1>6, <1>12, AppendAt, NowNumbers
   <2> QED BY <1>11, <2>1, Zenon DEF DataAgrees, DataTail
<1>15. LogWritten(rec) /\ DataWritten(rec, t) /\ TxnWritten(rec, t)
   BY <1>3, <1>6, <1>11, <1>13, <1>14, Zenon DEF LogWritten, DataWritten, TxnWritten, LogTypes, TxnTypes
<1>16. PagesWritten
   BY <1>4, <1>6, Zenon DEF PagesWritten, PageInv
<1>17. ServerKept
   <2>1. used' = IF data_seg'.tail > 0 THEN 1 ELSE 0
      BY <1>4, <1>6, <1>7, <1>13 DEF ShapeInv
   <2> QED BY <1>4, <1>6, <2>1, Zenon DEF ServerKept, ShapeInv
<1>18. WriterInv'
   BY <1>3, <1>4, <1>6, <1>12, <1>13, WriterKept, Zenon DEF WriterInv
<1> QED BY <1>12, <1>15, <1>16, <1>17, <1>18, WriteStep, Zenon

\* undolog_alloc_slot_space extends the slot segment.
LEMMA SlotSpaceStep ==
    ASSUME NEW t \in InitTails, Inv(t), undolog_alloc_slot_space
    PROVE  Inv(t)'
<1>1. PICK tail : tail = ((ulog.alloc + 1) \div SlotsPerFile + 1) * SlotsPerFile
   OBVIOUS
<1>2. PICK rec : rec = [type |-> "slot_extend", tail |-> tail]
   BY Zenon
<1>3. rec.type = "slot_extend" /\ rec.tail = tail
   BY <1>2
<1>4. ShapeInv /\ WriterInv /\ PageInv
   BY Zenon DEF Inv
<1>5. txn_seg \in Segments
   BY <1>4, Zenon DEF ShapeInv
<1>6. /\ mode = "up" /\ ulog.alloc + 1 >= txn_seg.tail
      /\ txn_seg' = [txn_seg EXCEPT !.tail = tail, !.lsn = NextLsn, !.dirty = TRUE]
      /\ ulog.insert + 1 < data_seg.tail
      /\ UNCHANGED <<nextXid, running, slot_ptr, ulog, data_seg, used, buf, dw, ckpt, flushed, disk, meta,
                     control, mode, next_redo>>
   BY <1>1, Zenon DEF undolog_alloc_slot_space, Extended, xactVars, diskVars, serverVars
<1>7. /\ tail \in Nat /\ tail > txn_seg.tail /\ TxnTail(wal, Len(wal), t) = txn_seg.tail
      /\ txn_seg.tail \in Nat /\ data_seg.tail > 0 /\ DataTail(wal, Len(wal), t) = data_seg.tail
   <2>3. /\ ulog.insert \in Nat /\ data_seg.tail \in Nat
         /\ DataTail(wal, Len(wal), t) = data_seg.tail
      BY <1>6, NowNumbers
   <2>1. ulog.alloc + 1 \in Nat /\ txn_seg.tail \in Nat /\ TxnTail(wal, Len(wal), t) = txn_seg.tail
      BY <1>6, NowNumbers
   <2>2. tail \in Nat /\ tail > ulog.alloc + 1
      BY <1>1, <2>1, Multiples, ConstantsAssumption, Zenon
   <2> QED BY <1>6, <2>1, <2>2, <2>3
<1>8. Checked(rec, wal, Len(wal), t)
   BY <1>3, <1>7 DEF Checked
<1>9. wal' = Append(wal, [type |-> "slot_extend", tail |-> txn_seg'.tail])
   BY DEF undolog_alloc_slot_space, XLogInsert
<1>10. Len(wal) \in Nat /\ NextLsn \in Nat
   BY <1>6, Now DEF NextLsn
<1>11. /\ txn_seg' \in Segments /\ txn_seg'.head = txn_seg.head /\ txn_seg'.tail = tail
       /\ txn_seg'.lsn = NextLsn /\ txn_seg'.dirty
   BY <1>5, <1>6, <1>7, <1>10, Zenon DEF Segments
<1>12. Appends(rec, t)
   BY <1>2, <1>8, <1>9, <1>11 DEF Appends
<1>13. NextLsn = Len(wal') /\ data_seg'.tail > 0
   BY <1>6, <1>7, <1>12, AppendWal DEF NextLsn
<1>14. TxnAgrees(txn_seg', wal', Len(wal'), t)
   <2>1. HeadAt(wal', "slot_unlink", Len(wal')) = txn_seg.head /\ TxnTail(wal', Len(wal'), t) = tail
      BY <1>3, <1>6, <1>12, AppendAt, NowNumbers
   <2> QED BY <1>11, <2>1, Zenon DEF TxnAgrees, TxnTail
<1>15. LogWritten(rec) /\ DataWritten(rec, t) /\ TxnWritten(rec, t)
   BY <1>3, <1>6, <1>11, <1>13, <1>14, Zenon DEF LogWritten, DataWritten, TxnWritten, LogTypes, DataTypes
<1>16. PagesWritten
   BY <1>4, <1>6, Zenon DEF PagesWritten, PageInv
<1>17. ServerKept
   BY <1>4, <1>6, Zenon DEF ServerKept, ShapeInv
<1>18. WriterInv'
   BY <1>3, <1>4, <1>6, <1>12, <1>13, WriterKept, Zenon DEF WriterInv
<1> QED BY <1>12, <1>15, <1>16, <1>17, <1>18, WriteStep, Zenon

\* The slots on a page, after the page has been changed.
LEMMA MoreItems ==
    ASSUME NEW items, NEW a \in Nat, EndUpTo(items, a), NEW b \in Nat, a <= b
    PROVE  EndUpTo(items, b)
BY DEF EndUpTo

\* insert_prepared_undo and its redo write slots that end at the new insert pointer.
LEMMA SlotItemsEnd ==
    ASSUME NEW items, NEW urp \in Nat, EndUpTo(items, urp), NEW s \in Int, NEW x \in Int, NEW new
    PROVE  EndUpTo(SlotItems(items, s, x, urp, new), urp + 1)
<1>1. EndUpTo(items, urp + 1) /\ urp + 1 \in 0 .. urp + 1 /\ urp + 1 \in Int /\ urp \in Int
   BY MoreItems
<1>2. CASE new
   <2> DEFINE r == [slot |-> s, xid |-> x, start |-> urp, end |-> urp + 1, rollback |-> FALSE]
   <2>1. r \in SlotRecords /\ r.end = urp + 1
      BY <1>1, Zenon DEF SlotRecords
   <2>2. SlotItems(items, s, x, urp, new) = items \cup {r}
      BY <1>2, Zenon DEF SlotItems
   <2> HIDE DEF r
   <2> QED BY <1>1, <2>1, <2>2, Zenon DEF EndUpTo
<1>3. CASE ~new
   <2>1. ASSUME NEW r \in items
         PROVE  [r EXCEPT !.end = urp + 1] \in SlotRecords /\ [r EXCEPT !.end = urp + 1].end = urp + 1
      <3>1. r \in SlotRecords
         BY <2>1, Zenon DEF EndUpTo
      <3> QED BY <1>1, <3>1, Zenon DEF SlotRecords
   <2>2. SlotItems(items, s, x, urp, new) =
            {IF r.slot = s THEN [r EXCEPT !.end = urp + 1] ELSE r : r \in items}
      BY <1>3, Zenon DEF SlotItems
   <2> QED BY <1>1, <2>1, <2>2, Zenon DEF EndUpTo
<1> QED BY <1>2, <1>3, Zenon

\* set_undo_slot_rollback_finish and its redo leave the ends of slots alone.
LEMMA FinishEnd ==
    ASSUME NEW items, NEW u, EndUpTo(items, u), NEW s
    PROVE  EndUpTo(Finish(items, s), u)
<1>1. ASSUME NEW r \in items
      PROVE  [r EXCEPT !.rollback = TRUE] \in SlotRecords /\ [r EXCEPT !.rollback = TRUE].end \in 0 .. u
   <2>1. r \in SlotRecords /\ r.end \in 0 .. u
      BY <1>1, Zenon DEF EndUpTo
   <2> QED BY <2>1, Zenon DEF SlotRecords
<1> QED BY <1>1, Zenon DEF EndUpTo, Finish

\* While the server is up, every slot ends at or below the insert pointer.
LEMMA PageNow ==
    ASSUME NEW t \in InitTails, Inv(t), mode = "up", NEW p \in Pages, p[1] = "slot"
    PROVE  EndUpTo(buf[p].items, ulog.insert)
<1>1. WalInv(wal, t) /\ PageInv
   BY Zenon DEF Inv
<1>2. EndUpTo(buf[p].items, InsertAt(wal, buf[p].lsn)) /\ buf[p].lsn \in 0 .. Len(wal)
   BY <1>1, Zenon DEF PageInv, EndsBelow
<1>3. Len(wal) \in Nat /\ Len(wal) \in 0 .. Len(wal)
   BY Now
<1>4. InsertAt(wal, buf[p].lsn) <= InsertAt(wal, Len(wal))
   BY <1>1, <1>2, <1>3, Zenon DEF WalInv, GrowInv
<1>5. PrefixInv(wal, buf[p].lsn, t) /\ PrefixInv(wal, Len(wal), t)
   BY <1>1, <1>2, <1>3, Zenon DEF WalInv
<1>6. InsertAt(wal, buf[p].lsn) \in Nat /\ InsertAt(wal, Len(wal)) \in Nat
   BY <1>5, PrefixNumbers, Zenon
<1>7. InsertAt(wal, Len(wal)) = ulog.insert
   BY NowNumbers, Zenon
<1> QED BY <1>2, <1>4, <1>6, <1>7, MoreItems, Zenon

\* Pages have names of their own, and there is one for every slot in use.
LEMMA PageNames ==
    ASSUME NEW urp, NEW slot
    PROVE  /\ HeapPage[1] = "heap" /\ DataPage(urp)[1] = "data" /\ SlotPage(slot)[1] = "slot"
           /\ slot \in 0 .. MaxXid => SlotPage(slot) \in Pages
BY DEF HeapPage, DataPage, SlotPage, Pages

\* The slot that a heap change of the running transaction goes to.
LEMMA WriterSlot ==
    ASSUME NEW t \in InitTails, Inv(t), mode = "up", running # NoXid,
           NEW slot, slot = IF slot_ptr = NoSlot THEN ulog.alloc ELSE slot_ptr
    PROVE  /\ slot \in 0 .. MaxXid /\ slot + 1 < nextXid
           /\ slot_ptr = NoSlot => slot = ulog.alloc
           /\ slot_ptr # NoSlot => slot + 1 = ulog.alloc
<1>1. WriterInv
   BY Zenon DEF Inv
<1>2. ulog.alloc \in Nat /\ AllocAt(wal, Len(wal)) = ulog.alloc /\ Len(wal) \in 0 .. Len(wal)
   BY Now, NowNumbers
<1>3. /\ nextXid \in 1 .. MaxXid + 1
      /\ slot_ptr = NoSlot \/ slot_ptr = ulog.alloc - 1
      /\ ulog.alloc < nextXid /\ (slot_ptr = NoSlot => ulog.alloc < nextXid - 1)
   BY <1>1, <1>2, Zenon DEF WriterInv, AllocBelow
<1>4. CASE slot_ptr = NoSlot
   BY <1>2, <1>3, <1>4, ConstantsAssumption
<1>5. CASE slot_ptr # NoSlot
   <2>1. slot = ulog.alloc - 1 /\ slot # -1
      BY <1>3, <1>5 DEF NoSlot
   <2>2. ulog.alloc \in 1 .. MaxXid
      BY <1>2, <1>3, <2>1, ConstantsAssumption
   <2>3. slot \in 0 .. MaxXid /\ slot + 1 = ulog.alloc
      BY <2>1, <2>2, ConstantsAssumption
   <2> QED BY <1>3, <1>5, <2>3, Zenon
<1> QED BY <1>4, <1>5

\* insert_prepared_undo writes the tuple, the undo record and the slot.
LEMMA InsertStep ==
    ASSUME NEW t \in InitTails, Inv(t), insert_prepared_undo
    PROVE  Inv(t)'
<1> DEFINE urp == ulog.insert
           new == slot_ptr = NoSlot
           slot == IF new THEN ulog.alloc ELSE slot_ptr
           item == [urp |-> urp, xid |-> running]
           zero == {p \in {DataPage(urp)} : urp % RecordsPerFile = 0}
                       \cup {p \in {SlotPage(slot)} : new /\ slot % SlotsPerFile = 0}
           old == [p \in Pages |-> IF p \in zero THEN {} ELSE buf[p].items]
           change == [p \in {HeapPage, DataPage(urp), SlotPage(slot)} |->
                         IF p = SlotPage(slot) THEN SlotItems(old[p], slot, running, urp, new)
                         ELSE old[p] \cup {item}]
<1>1. PICK rec : rec = [type |-> "insert", xid |-> running, urp |-> urp, slot |-> slot,
                        new |-> new, init |-> zero, image |-> Images(change, zero)]
   BY Zenon
<1>2. /\ mode = "up" /\ running # NoXid /\ urp + 1 < data_seg.tail /\ (new => slot + 1 < txn_seg.tail)
      /\ wal' = Append(wal, rec)
      /\ buf' = [p \in Pages |-> IF p \in DOMAIN change
                                 THEN [lsn |-> NextLsn, items |-> change[p]] ELSE buf[p]]
      /\ ulog' = [ulog EXCEPT !.insert = urp + 1, !.alloc = IF new THEN slot + 1 ELSE @,
                              !.lsn = NextLsn, !.dirty = TRUE]
      /\ slot_ptr' = slot
      /\ UNCHANGED <<nextXid, running, data_seg, txn_seg, used, dw, ckpt, flushed, disk, meta, control,
                     mode, next_redo>>
   BY <1>1, Zenon DEF insert_prepared_undo, XLogInsertPages, XLogInsert, diskVars, serverVars
<1>3. ShapeInv /\ WriterInv /\ PageInv
   BY Zenon DEF Inv
<1>4. /\ slot \in 0 .. MaxXid /\ slot + 1 < nextXid /\ (new => slot = ulog.alloc)
      /\ ~new => slot + 1 = ulog.alloc
   BY <1>2, WriterSlot, Zenon
<1>5. running \in Int /\ slot \in Int /\ slot + 1 \in Nat /\ slot + 1 \in Int /\ nextXid \in Int
   BY <1>3, <1>4, ConstantsAssumption DEF WriterInv, Xids, NoXid
<1>6. /\ rec.type = "insert" /\ rec.urp = urp /\ rec.slot = slot /\ (rec.new <=> new)
      /\ rec.new \in BOOLEAN /\ rec.xid = running /\ rec.image = Images(change, zero)
   BY <1>1, Zenon
<1>7. /\ urp \in Nat /\ InsertAt(wal, Len(wal)) = urp /\ AllocAt(wal, Len(wal)) = ulog.alloc
      /\ RecycleAt(wal, Len(wal)) = ulog.recycle /\ DiscardAt(wal, Len(wal)) = ulog.discard
      /\ DataTail(wal, Len(wal), t) = data_seg.tail /\ TxnTail(wal, Len(wal), t) = txn_seg.tail
      /\ data_seg.tail \in Nat /\ txn_seg.tail \in Nat /\ ulog.alloc \in 0 .. txn_seg.tail
   BY <1>2, NowNumbers
<1>8. ASSUME NEW p \in DOMAIN change, p[1] = "slot"
      PROVE  EndUpTo(change[p], urp + 1)
   <2>1. p = SlotPage(slot) /\ p \in Pages
      BY <1>4, <1>8, PageNames, Zenon
   <2>2. change[p] = SlotItems(old[p], slot, running, urp, new)
      BY <1>8, <2>1, Zenon
   <2>3. EndUpTo({}, urp)
      BY DEF EndUpTo
   <2>4. old[p] = {} \/ old[p] = buf[p].items
      BY <2>1, Zenon
   <2>5. EndUpTo(old[p], urp)
      BY <1>2, <1>8, <2>1, <2>3, <2>4, PageNow, Zenon
   <2> HIDE DEF old, change, slot, urp, new
   <2> QED BY <1>5, <1>7, <2>2, <2>5, SlotItemsEnd, Zenon
<1>9. ASSUME NEW p \in DOMAIN rec.image
      PROVE  p \in DOMAIN change /\ rec.image[p] = change[p]
   <2> HIDE DEF change, zero
   <2> QED BY <1>6, <1>9, Zenon DEF Images
<1> HIDE DEF change, zero, old, item
<1>10. Checked(rec, wal, Len(wal), t)
   <2>1. \A p \in DOMAIN rec.image : p[1] = "slot" => EndUpTo(rec.image[p], rec.urp + 1)
      BY <1>6, <1>8, <1>9, Zenon
   <2>2. rec.slot \in 0 .. TxnTail(wal, Len(wal), t) - 1
      BY <1>2, <1>4, <1>5, <1>6, <1>7
   <2> HIDE DEF urp, slot, new
   <2> QED BY <1>2, <1>4, <1>5, <1>6, <1>7, <2>1, <2>2, Zenon DEF Checked
<1>11. Appends(rec, t)
   BY <1>2, <1>10, Zenon DEF Appends
<1>12. WalInv(wal', t) /\ Len(wal) \in Nat /\ Len(wal') = Len(wal) + 1 /\ NextLsn = Len(wal')
   BY <1>11, AppendWal DEF NextLsn
<1>13. /\ ulog' \in Logs /\ ulog'.insert = urp + 1 /\ ulog'.alloc = slot + 1
       /\ ulog'.recycle = ulog.recycle /\ ulog'.discard = ulog.discard
       /\ ulog'.lsn = Len(wal') /\ ulog'.dirty
   <2>1. ulog \in Logs
      BY <1>3, Zenon DEF ShapeInv
   <2>2. ulog' = [ulog EXCEPT !.insert = urp + 1, !.alloc = slot + 1, !.lsn = Len(wal'), !.dirty = TRUE]
      BY <1>2, <1>4, <1>12, Zenon
   <2>3. urp + 1 \in Nat /\ Len(wal') \in Nat
      BY <1>7, <1>12
   <2> HIDE DEF urp, slot, new
   <2> QED BY <1>5, <2>1, <2>2, <2>3, Zenon DEF Logs
<1>14. InsertAt(wal', Len(wal')) = urp + 1 /\ LogAgrees(ulog', wal', Len(wal'))
   <2>1. /\ InsertAt(wal', Len(wal')) = urp + 1 /\ AllocAt(wal', Len(wal')) = slot + 1
         /\ RecycleAt(wal', Len(wal')) = ulog.recycle /\ DiscardAt(wal', Len(wal')) = ulog.discard
      BY <1>6, <1>7, <1>11, AppendAt, Zenon
   <2> QED BY <1>13, <2>1, Zenon DEF LogAgrees
<1>15. LogWritten(rec) /\ DataWritten(rec, t) /\ TxnWritten(rec, t)
   <2>1. data_seg'.tail > 0
      BY <1>2, <1>7
   <2> QED BY <1>2, <1>6, <1>13, <1>14, <2>1, Zenon DEF LogWritten, DataWritten, TxnWritten, DataTypes,
                                                      TxnTypes
<1>16. PagesWritten
   BY <1>2, <1>3, <1>8, <1>12, <1>14, Zenon DEF PagesWritten, PageInv, EndsBelow
<1>17. ServerKept
   BY <1>2, <1>3, Zenon DEF ServerKept, ShapeInv
<1>18. WriterInv'
   <2>1. AllocBelow(wal', nextXid)
      <3>1. AllocBelow(wal, nextXid)
         BY <1>3, Zenon DEF WriterInv
      <3> QED BY <1>4, <1>5, <1>6, <1>11, <3>1, AppendAlloc, Zenon
   <2>2. slot_ptr' = ulog'.alloc - 1 /\ slot_ptr' # NoSlot
      BY <1>2, <1>4, <1>5, <1>13 DEF NoSlot
   <2>3. dw.pc # "idle" => dw.undo \in 0 .. ulog'.insert /\ dw.slot \in 0 .. ulog'.alloc
      <3>1. dw.pc # "idle" => dw.undo \in 0 .. urp /\ dw.slot \in 0 .. ulog.alloc
         BY <1>3, Zenon DEF WriterInv
      <3> QED BY <1>4, <1>5, <1>7, <1>13, <3>1
   <2> QED BY <1>2, <1>3, <2>1, <2>2, <2>3, Zenon DEF WriterInv
<1> QED BY <1>11, <1>15, <1>16, <1>17, <1>18, WriteStep, Zenon

-----------------------------------------------------------------------------
(* The steps: rollback and discard                                         *)

\* A slot of the log has its page.
LEMMA SlotNow ==
    ASSUME NEW t \in InitTails, Inv(t), mode = "up", NEW s \in ulog.recycle .. ulog.alloc - 1
    PROVE  s \in 0 .. ulog.alloc - 1 /\ SlotPage(s) \in Pages /\ SlotPage(s)[1] = "slot"
<1>1. WriterInv
   BY Zenon DEF Inv
<1>2. /\ ulog.alloc \in Nat /\ ulog.recycle \in 0 .. ulog.alloc /\ Len(wal) \in 0 .. Len(wal)
      /\ AllocAt(wal, Len(wal)) = ulog.alloc
   BY Now, NowNumbers
<1>3. ulog.alloc < nextXid /\ nextXid \in 1 .. MaxXid + 1
   BY <1>1, <1>2, Zenon DEF WriterInv, AllocBelow
<1>4. s \in 0 .. ulog.alloc - 1 /\ s \in 0 .. MaxXid
   BY <1>2, <1>3, ConstantsAssumption
<1> QED BY <1>4, PageNames, Zenon

\* execute_undo_actions takes changes of the heap page back.
LEMMA ExecuteStep ==
    ASSUME NEW t \in InitTails, Inv(t), execute_undo_actions
    PROVE  Inv(t)'
<1>1. /\ mode = "up"
      /\ UNCHANGED <<nextXid, running, slot_ptr, ulog, data_seg, txn_seg, used, dw, ckpt, flushed, disk,
                     meta, control, mode, next_redo>>
   BY Zenon DEF execute_undo_actions, xactVars, memVars, diskVars, serverVars
<1> DEFINE Batch(s, first) == {i \in Changes(s) : i.urp >= first.urp}
           Change(s, first) == [p \in {HeapPage} |-> buf[p].items \ Batch(s, first)]
           Rec(s, first) == [type |-> "undo", batch |-> Batch(s, first), init |-> {},
                             image |-> Images(Change(s, first), {})]
<1>2. PICK s \in Slots : \E first \in Changes(s) : XLogInsertPages(Rec(s, first), Change(s, first))
   BY Zenon DEF execute_undo_actions
<1>14. PICK first \in Changes(s) : XLogInsertPages(Rec(s, first), Change(s, first))
   BY <1>2, Zenon
<1> DEFINE change == Change(s, first)
<1>3. PICK rec : rec = Rec(s, first)
   BY Zenon
<1>4. /\ wal' = Append(wal, rec)
      /\ buf' = [p \in Pages |-> IF p \in DOMAIN change
                                 THEN [lsn |-> NextLsn, items |-> change[p]] ELSE buf[p]]
   BY <1>3, <1>14, Zenon DEF XLogInsertPages, XLogInsert
<1>5. DOMAIN change = {HeapPage}
   BY Zenon
<1>6. rec.type = "undo"
   BY <1>3, Zenon
<1> HIDE DEF Batch, change
<1>7. Appends(rec, t)
   BY <1>4, <1>6, Zenon DEF Appends, Checked
<1>8. ShapeInv /\ WriterInv /\ PageInv
   BY Zenon DEF Inv
<1>9. NextLsn = Len(wal')
   BY <1>7, AppendWal DEF NextLsn
<1>10. LogWritten(rec) /\ DataWritten(rec, t) /\ TxnWritten(rec, t)
   BY <1>1, <1>6, Zenon DEF LogWritten, DataWritten, TxnWritten, LogTypes, DataTypes, TxnTypes
<1>11. PagesWritten
   <2>1. \A p \in DOMAIN change : p[1] # "slot"
      BY <1>5, PageNames
   <2> QED BY <1>1, <1>4, <1>8, <1>9, <2>1, Zenon DEF PagesWritten, PageInv
<1>12. ServerKept
   BY <1>1, <1>8, Zenon DEF ServerKept, ShapeInv
<1>13. WriterInv'
   BY <1>1, <1>6, <1>7, <1>8, WriterKept, Zenon DEF WriterInv
<1> QED BY <1>7, <1>10, <1>11, <1>12, <1>13, WriteStep, Zenon

\* set_undo_slot_rollback_finish flags the slot.
LEMMA FinishStep ==
    ASSUME NEW t \in InitTails, Inv(t), set_undo_slot_rollback_finish
    PROVE  Inv(t)'
<1>1. /\ mode = "up"
      /\ UNCHANGED <<nextXid, running, slot_ptr, ulog, data_seg, txn_seg, used, dw, ckpt, flushed, disk,
                     meta, control, mode, next_redo>>
   BY Zenon DEF set_undo_slot_rollback_finish, xactVars, memVars, diskVars, serverVars
<1>2. PICK s \in Slots :
         LET change == [p \in {SlotPage(s)} |-> Finish(buf[p].items, s)]
         IN  XLogInsertPages([type |-> "rollback_finish", slot |-> s, init |-> {},
                              image |-> Images(change, {})], change)
   BY Zenon DEF set_undo_slot_rollback_finish
<1> DEFINE change == [p \in {SlotPage(s)} |-> Finish(buf[p].items, s)]
<1>3. PICK rec : rec = [type |-> "rollback_finish", slot |-> s, init |-> {}, image |-> Images(change, {})]
   BY Zenon
<1>4. /\ wal' = Append(wal, rec)
      /\ buf' = [p \in Pages |-> IF p \in DOMAIN change
                                 THEN [lsn |-> NextLsn, items |-> change[p]] ELSE buf[p]]
   BY <1>2, <1>3, Zenon DEF XLogInsertPages, XLogInsert
<1>5. /\ s \in 0 .. ulog.alloc - 1 /\ SlotPage(s) \in Pages /\ SlotPage(s)[1] = "slot"
      /\ InsertAt(wal, Len(wal)) = ulog.insert /\ AllocAt(wal, Len(wal)) = ulog.alloc
   <2>1. s \in ulog.recycle .. ulog.alloc - 1
      BY <1>2, Zenon DEF Slots
   <2> QED BY <1>1, <2>1, SlotNow, NowNumbers, Zenon
<1>6. ASSUME NEW p \in DOMAIN change
      PROVE  EndUpTo(change[p], ulog.insert)
   <2>1. p = SlotPage(s) /\ change[p] = Finish(buf[p].items, s)
      BY <1>6, Zenon
   <2>2. EndUpTo(buf[p].items, ulog.insert)
      BY <1>1, <1>5, <2>1, PageNow, Zenon
   <2> QED BY <2>1, <2>2, FinishEnd, Zenon
<1>7. /\ rec.type = "rollback_finish" /\ rec.slot = s
      /\ \A p \in DOMAIN rec.image : p \in DOMAIN change /\ rec.image[p] = change[p]
   <2> HIDE DEF change
   <2> QED BY <1>3, Zenon DEF Images
<1> HIDE DEF change
<1>8. Checked(rec, wal, Len(wal), t)
   BY <1>5, <1>6, <1>7, Zenon DEF Checked, EndsBelow
<1>9. Appends(rec, t)
   BY <1>4, <1>8, Zenon DEF Appends
<1>10. ShapeInv /\ WriterInv /\ PageInv
   BY Zenon DEF Inv
<1>11. NextLsn = Len(wal') /\ InsertAt(wal', Len(wal')) = ulog.insert
   BY <1>5, <1>7, <1>9, AppendWal, AppendAt, Zenon DEF NextLsn
<1>12. LogWritten(rec) /\ DataWritten(rec, t) /\ TxnWritten(rec, t)
   BY <1>1, <1>7, Zenon DEF LogWritten, DataWritten, TxnWritten, LogTypes, DataTypes, TxnTypes
<1>13. PagesWritten
   BY <1>1, <1>4, <1>6, <1>10, <1>11, Zenon DEF PagesWritten, PageInv, EndsBelow
<1>14. ServerKept
   BY <1>1, <1>10, Zenon DEF ServerKept, ShapeInv
<1>15. WriterInv'
   BY <1>1, <1>7, <1>9, <1>10, WriterKept, Zenon DEF WriterInv
<1> QED BY <1>9, <1>12, <1>13, <1>14, <1>15, WriteStep, Zenon

\* recycle_undo_space gives up a run of settled slots.
LEMMA RecycleStep ==
    ASSUME NEW t \in InitTails, Inv(t), recycle_undo_space
    PROVE  Inv(t)'
<1>1. /\ mode = "up"
      /\ UNCHANGED <<nextXid, running, slot_ptr, data_seg, txn_seg, used, buf, ckpt, flushed, disk, meta,
                     control, mode, next_redo>>
   BY Zenon DEF recycle_undo_space, xactVars, diskVars, serverVars
<1>2. PICK last \in ulog.recycle .. ulog.alloc - 1 :
         /\ Settled(last)
         /\ wal' = Append(wal, [type |-> "discard", startSlot |-> ulog.recycle, endSlot |-> last + 1,
                                endUndoPtr |-> SlotAt(last).end])
         /\ ulog' = [ulog EXCEPT !.recycle = last + 1, !.discard = SlotAt(last).end, !.lsn = NextLsn,
                                 !.dirty = TRUE]
         /\ dw' = [pc |-> "data", undo |-> SlotAt(last).end, slot |-> last + 1]
   <2>1. ulog.alloc \in Nat /\ ulog.recycle \in Nat
      BY <1>1, NowNumbers
   <2>2. \A last \in ulog.recycle .. ulog.alloc - 1 : last \in ulog.recycle .. last
      BY <2>1
   <2> QED BY <2>2, Zenon DEF recycle_undo_space, XLogInsert
<1>3. PICK undo : undo = SlotAt(last).end
   OBVIOUS
<1>4. PICK rec : rec = [type |-> "discard", startSlot |-> ulog.recycle, endSlot |-> last + 1,
                        endUndoPtr |-> undo]
   BY Zenon
<1>5. /\ InsertAt(wal, Len(wal)) = ulog.insert /\ AllocAt(wal, Len(wal)) = ulog.alloc
      /\ RecycleAt(wal, Len(wal)) = ulog.recycle /\ DataTail(wal, Len(wal), t) = data_seg.tail
      /\ ulog.alloc \in Nat /\ ulog.insert \in Nat /\ data_seg.tail \in Nat
      /\ ulog.alloc > 0 => data_seg.tail > 0
   BY <1>1, NowNumbers
<1>6. last \in 0 .. ulog.alloc - 1 /\ SlotPage(last) \in Pages /\ SlotPage(last)[1] = "slot"
   BY <1>1, <1>2, SlotNow, Zenon
<1>7. undo \in 0 .. ulog.insert
   <2>1. SlotAt(last) \in buf[SlotPage(last)].items
      BY <1>2, Zenon DEF Settled, Slots, SlotsOn, SlotAt
   <2>2. EndUpTo(buf[SlotPage(last)].items, ulog.insert)
      BY <1>1, <1>6, PageNow, Zenon
   <2> QED BY <1>3, <2>1, <2>2, Zenon DEF EndUpTo
<1>8. last + 1 \in 0 .. ulog.alloc /\ last + 1 \in Nat /\ undo \in Nat /\ data_seg.tail > 0
   BY <1>5, <1>6, <1>7
<1>9. /\ rec.type = "discard" /\ rec.startSlot = ulog.recycle /\ rec.endSlot = last + 1
      /\ rec.endUndoPtr = undo
   BY <1>4, Zenon
<1>10. Checked(rec, wal, Len(wal), t)
   BY <1>5, <1>7, <1>8, <1>9, Zenon DEF Checked
<1>11. Appends(rec, t)
   BY <1>2, <1>3, <1>4, <1>10, Zenon DEF Appends
<1>12. Len(wal') \in Nat /\ NextLsn = Len(wal')
   BY <1>11, AppendWal DEF NextLsn
<1>13. ShapeInv /\ WriterInv /\ PageInv
   BY Zenon DEF Inv
<1>14. /\ ulog' \in Logs /\ ulog'.insert = ulog.insert /\ ulog'.alloc = ulog.alloc
       /\ ulog'.recycle = last + 1 /\ ulog'.discard = undo /\ ulog'.lsn = Len(wal') /\ ulog'.dirty
   <2>1. ulog \in Logs
      BY <1>13, Zenon DEF ShapeInv
   <2>2. ulog' = [ulog EXCEPT !.recycle = last + 1, !.discard = undo, !.lsn = Len(wal'), !.dirty = TRUE]
      BY <1>2, <1>3, <1>12, Zenon
   <2> QED BY <1>8, <1>12, <2>1, <2>2, Zenon DEF Logs
<1>15. LogAgrees(ulog', wal', Len(wal'))
   <2>1. /\ InsertAt(wal', Len(wal')) = ulog.insert /\ AllocAt(wal', Len(wal')) = ulog.alloc
         /\ RecycleAt(wal', Len(wal')) = last + 1 /\ DiscardAt(wal', Len(wal')) = undo
      BY <1>5, <1>9, <1>11, AppendAt
   <2> QED BY <1>14, <2>1, Zenon DEF LogAgrees
<1>16. LogWritten(rec) /\ DataWritten(rec, t) /\ TxnWritten(rec, t)
   BY <1>1, <1>8, <1>9, <1>14, <1>15, Zenon DEF LogWritten, DataWritten, TxnWritten, DataTypes, TxnTypes
<1>17. PagesWritten
   BY <1>1, <1>13, Zenon DEF PagesWritten, PageInv
<1>18. dw' \in Discards /\ dw'.undo = undo /\ dw'.slot = last + 1
   BY <1>2, <1>3, <1>8, Zenon DEF Discards
<1>19. ServerKept
   BY <1>1, <1>13, <1>18, Zenon DEF ServerKept, ShapeInv
<1>20. WriterInv'
   BY <1>1, <1>7, <1>8, <1>9, <1>11, <1>14, <1>18, WriterKept, Zenon
<1> QED BY <1>11, <1>16, <1>17, <1>19, <1>20, WriteStep, Zenon

\* Removed files take their pages along.
LEMMA UnlinkPages ==
    ASSUME NEW files, Unlink(files)
    PROVE  PagesWritten
BY Zenon DEF PagesWritten, Unlink

\* undolog_release_space removes files of the data segment, if there are any.
LEMMA ReleaseStep ==
    ASSUME NEW t \in InitTails, Inv(t), undolog_release_space
    PROVE  Inv(t)'
<1>1. /\ mode = "up" /\ dw.pc = "data" /\ dw' = [dw EXCEPT !.pc = "slot"]
      /\ UNCHANGED <<nextXid, running, slot_ptr, ulog, txn_seg, used, flushed, meta, control, mode,
                     next_redo>>
   BY Zenon DEF undolog_release_space, xactVars, diskVars, serverVars
<1>2. ShapeInv /\ WriterInv /\ PageInv
   BY Zenon DEF Inv
<1>3. dw' \in Discards /\ dw'.undo = dw.undo /\ dw'.slot = dw.slot
   <2>1. dw \in Discards
      BY <1>2, Zenon DEF ShapeInv
   <2> QED BY <1>1, <2>1, Zenon DEF Discards
<1>4. CASE UNCHANGED <<data_seg, buf, disk, wal, ckpt>>
   <2>1. WriterInv'
      BY <1>1, <1>2, <1>3, <1>4, Zenon DEF WriterInv
   <2>2. ShapeInv'
      BY <1>1, <1>2, <1>3, <1>4, Zenon DEF ShapeInv
   <2> QED BY <1>1, <1>4, <2>1, <2>2, Zenon DEF Inv, MemoryInv, Replayed, MetaInv, DirtyInv, PageInv
<1> DEFINE files == Files("data", data_seg.head, dw.undo, RecordsPerFile)
<1>5. PICK head : head = (dw.undo \div RecordsPerFile) * RecordsPerFile
   OBVIOUS
<1>6. CASE /\ Unlink(files) /\ ckpt' = [ckpt EXCEPT !.todo = @ \ files]
           /\ wal' = Append(wal, [type |-> "unlink", prevhead |-> data_seg.head, head |-> head])
           /\ data_seg' = [data_seg EXCEPT !.head = head, !.lsn = NextLsn, !.dirty = TRUE]
   <2>1. PICK rec : rec = [type |-> "unlink", prevhead |-> data_seg.head, head |-> head]
      BY Zenon
   <2>2. rec.type = "unlink" /\ rec.head = head
      BY <2>1, Zenon
   <2>3. /\ InsertAt(wal, Len(wal)) = ulog.insert /\ DataTail(wal, Len(wal), t) = data_seg.tail
         /\ ulog.insert \in Nat
      BY <1>1, NowNumbers
   <2>4. dw.undo \in 0 .. ulog.insert /\ dw.slot \in 0 .. ulog.alloc /\ data_seg.tail > 0
      BY <1>1, <1>2 DEF WriterInv
   <2>5. head \in 0 .. ulog.insert /\ head \in Nat
      <3>1. dw.undo \in Nat
         BY <2>3, <2>4
      <3>2. head \in 0 .. dw.undo
         BY <1>5, <3>1, Multiples, ConstantsAssumption, Zenon
      <3> QED BY <2>3, <2>4, <3>2
   <2>6. Checked(rec, wal, Len(wal), t)
      BY <2>2, <2>3, <2>4, <2>5, Zenon DEF Checked
   <2>7. Appends(rec, t)
      BY <1>6, <2>1, <2>6, Zenon DEF Appends
   <2>8. Len(wal') \in Nat /\ NextLsn = Len(wal')
      BY <2>7, AppendWal DEF NextLsn
   <2>9. /\ data_seg' \in Segments /\ data_seg'.head = head /\ data_seg'.tail = data_seg.tail
         /\ data_seg'.lsn = Len(wal') /\ data_seg'.dirty
      <3>1. data_seg \in Segments
         BY <1>2, Zenon DEF ShapeInv
      <3>2. data_seg' = [data_seg EXCEPT !.head = head, !.lsn = Len(wal'), !.dirty = TRUE]
         BY <1>6, <2>8, Zenon
      <3> QED BY <2>5, <2>8, <3>1, <3>2, Zenon DEF Segments
   <2>10. DataAgrees(data_seg', wal', Len(wal'), t)
      <3>1. HeadAt(wal', "unlink", Len(wal')) = head /\ DataTail(wal', Len(wal'), t) = data_seg.tail
         BY <2>2, <2>3, <2>7, AppendAt, Zenon
      <3> QED BY <2>9, <3>1, Zenon DEF DataAgrees, DataTail
   <2>11. LogWritten(rec) /\ DataWritten(rec, t) /\ TxnWritten(rec, t)
      BY <1>1, <2>2, <2>4, <2>9, <2>10, Zenon DEF LogWritten, DataWritten, TxnWritten, LogTypes, TxnTypes
   <2>12. PagesWritten
      BY <1>6, UnlinkPages, Zenon
   <2>13. ckpt' \in Checkpoints /\ ckpt'.pc = ckpt.pc /\ ckpt'.redo = ckpt.redo
      <3>1. ckpt \in Checkpoints
         BY <1>2, Zenon DEF ShapeInv
      <3> HIDE DEF files
      <3> QED BY <1>6, <3>1, Zenon DEF Checkpoints
   <2>14. ServerKept
      BY <1>1, <1>2, <1>3, <2>9, <2>13, Zenon DEF ServerKept, ShapeInv
   <2>15. WriterInv'
      BY <1>1, <1>3, <2>2, <2>4, <2>7, <2>9, WriterKept, Zenon
   <2> QED BY <2>7, <2>11, <2>12, <2>14, <2>15, WriteStep, Zenon
<1> QED BY <1>4, <1>5, <1>6, Zenon DEF undolog_release_space, XLogInsert

\* undolog_release_slot_space removes files of the slot segment, if there are any.
LEMMA ReleaseSlotStep ==
    ASSUME NEW t \in InitTails, Inv(t), undolog_release_slot_space
    PROVE  Inv(t)'
<1>1. /\ mode = "up" /\ dw.pc = "slot" /\ dw' = IdleDiscard
      /\ UNCHANGED <<nextXid, running, slot_ptr, ulog, data_seg, used, flushed, meta, control, mode,
                     next_redo>>
   BY Zenon DEF undolog_release_slot_space, xactVars, diskVars, serverVars
<1>2. ShapeInv /\ WriterInv /\ PageInv
   BY Zenon DEF Inv
<1>3. dw' \in Discards /\ dw'.pc = "idle"
   BY <1>1 DEF IdleDiscard, Discards
<1>4. CASE UNCHANGED <<txn_seg, buf, disk, wal, ckpt>>
   <2>1. WriterInv'
      BY <1>1, <1>2, <1>3, <1>4, Zenon DEF WriterInv
   <2>2. ShapeInv'
      BY <1>1, <1>2, <1>3, <1>4, Zenon DEF ShapeInv
   <2> QED BY <1>1, <1>4, <2>1, <2>2, Zenon DEF Inv, MemoryInv, Replayed, MetaInv, DirtyInv, PageInv
<1> DEFINE files == Files("slot", txn_seg.head, dw.slot, SlotsPerFile)
<1>5. PICK head : head = (dw.slot \div SlotsPerFile) * SlotsPerFile
   OBVIOUS
<1>6. CASE /\ Unlink(files) /\ ckpt' = [ckpt EXCEPT !.todo = @ \ files]
           /\ wal' = Append(wal, [type |-> "slot_unlink", prevhead |-> txn_seg.head, head |-> head])
           /\ txn_seg' = [txn_seg EXCEPT !.head = head, !.lsn = NextLsn, !.dirty = TRUE]
   <2>1. PICK rec : rec = [type |-> "slot_unlink", prevhead |-> txn_seg.head, head |-> head]
      BY Zenon
   <2>2. rec.type = "slot_unlink" /\ rec.head = head
      BY <2>1, Zenon
   <2>3. /\ AllocAt(wal, Len(wal)) = ulog.alloc /\ DataTail(wal, Len(wal), t) = data_seg.tail
         /\ TxnTail(wal, Len(wal), t) = txn_seg.tail /\ ulog.alloc \in Nat
      BY <1>1, NowNumbers
   <2>4. dw.slot \in 0 .. ulog.alloc /\ data_seg.tail > 0
      BY <1>1, <1>2 DEF WriterInv
   <2>5. head \in 0 .. ulog.alloc /\ head \in Nat
      <3>1. dw.slot \in Nat
         BY <2>3, <2>4
      <3>2. head \in 0 .. dw.slot
         BY <1>5, <3>1, Multiples, ConstantsAssumption, Zenon
      <3> QED BY <2>3, <2>4, <3>2
   <2>6. Checked(rec, wal, Len(wal), t)
      BY <2>2, <2>3, <2>4, <2>5, Zenon DEF Checked
   <2>7. Appends(rec, t)
      BY <1>6, <2>1, <2>6, Zenon DEF Appends
   <2>8. Len(wal') \in Nat /\ NextLsn = Len(wal')
      BY <2>7, AppendWal DEF NextLsn
   <2>9. /\ txn_seg' \in Segments /\ txn_seg'.head = head /\ txn_seg'.tail = txn_seg.tail
         /\ txn_seg'.lsn = Len(wal') /\ txn_seg'.dirty
      <3>1. txn_seg \in Segments
         BY <1>2, Zenon DEF ShapeInv
      <3>2. txn_seg' = [txn_seg EXCEPT !.head = head, !.lsn = Len(wal'), !.dirty = TRUE]
         BY <1>6, <2>8, Zenon
      <3> QED BY <2>5, <2>8, <3>1, <3>2, Zenon DEF Segments
   <2>10. TxnAgrees(txn_seg', wal', Len(wal'), t)
      <3>1. HeadAt(wal', "slot_unlink", Len(wal')) = head /\ TxnTail(wal', Len(wal'), t) = txn_seg.tail
         BY <2>2, <2>3, <2>7, AppendAt, Zenon
      <3> QED BY <2>9, <3>1, Zenon DEF TxnAgrees, TxnTail
   <2>11. LogWritten(rec) /\ DataWritten(rec, t) /\ TxnWritten(rec, t)
      BY <1>1, <2>2, <2>4, <2>9, <2>10, Zenon DEF LogWritten, DataWritten, TxnWritten, LogTypes, DataTypes
   <2>12. PagesWritten
      BY <1>6, UnlinkPages, Zenon
   <2>13. ckpt' \in Checkpoints /\ ckpt'.pc = ckpt.pc /\ ckpt'.redo = ckpt.redo
      <3>1. ckpt \in Checkpoints
         BY <1>2, Zenon DEF ShapeInv
      <3> HIDE DEF files
      <3> QED BY <1>6, <3>1, Zenon DEF Checkpoints
   <2>14. ServerKept
      BY <1>1, <1>2, <1>3, <2>13, Zenon DEF ServerKept, ShapeInv
   <2>15. WriterInv'
      BY <1>1, <1>3, <2>2, <2>7, WriterKept, Zenon
   <2> QED BY <2>7, <2>11, <2>12, <2>14, <2>15, WriteStep, Zenon
<1> QED BY <1>4, <1>5, <1>6, Zenon DEF undolog_release_slot_space, XLogInsert
=============================================================================
