------------------------- MODULE UndoRollbackProofs -------------------------
(***************************************************************************)
(* Proofs about asynchronous rollback (UndoRollback): the hash table of    *)
(* requests stays well formed, a slot is flagged as rolled back only when  *)
(* its rows are or a copy put together from two requests has a part of it, *)
(* and nothing is left held once every process has ended.                  *)
(***************************************************************************)
EXTENDS UndoRollback, FiniteSetTheorems, TLAPS

\* The slots that are rolled back, or that a copy put together from two
\* requests has a part of.
Settled == rolledback \cup mixed

\* A request the launcher or a process may come across is in the table, or
\* is settled.
Served(r) == r \in Requests /\ (Cells(r) # {} \/ r \in Settled)
WorkServed(q) == Served(q.key) /\ Served(q.slot)

\* A copy that was not put together from two requests, or is known to be.
Known(q) == q.key = q.slot \/ (q.key \in mixed /\ q.slot \in mixed)

\* No request is forgotten: wherever one is still named - in a cell that was
\* removed, by the launcher, in the mailbox, by a process - it is in the table
\* or settled.
ServedInv ==
    /\ \A e \in Elements : elem[e].req # NoRequest => Served(elem[e].req)
    /\ rollback_request # NoWork => WorkServed(rollback_request)
    /\ launcher.pc \in {"copy", "mail", "start"} => WorkServed(launcher.request)
    /\ \A p \in Procs : proc[p].pc \notin {"none", "started"} => WorkServed(proc[p].undowork)
    /\ \A p \in Procs : proc[p].pc \notin {"none", "started", "copy"} => Known(proc[p].undowork)
    /\ \A p \in Procs : proc[p].pc \in {"absent", "remove"} => proc[p].undowork.key \in Settled
    /\ \A p \in Procs : proc[p].pc \in {"started", "copy"} => rollback_request # NoWork
    /\ launcher.pc \in {"entry", "copy"} =>
           launcher.entry \in Elements /\ elem[launcher.entry].req # NoRequest
    /\ launcher.pc \in {"start", "wait"} => rollback_request # NoWork
    /\ finished \subseteq Settled

\* A worker slot is held by the launcher that fills it or by one process that
\* will free it, and an entry in progress by a process that will remove it
\* or mark it failed.
HeldInv ==
    /\ \A i \in Workers : undo_workers[i].xid # 0 /\ undo_workers[i].pid = NoProc =>
           launcher.pc = "wait" /\ launcher.idx = i
    /\ \A i \in Workers : undo_workers[i].pid # NoProc =>
           /\ undo_workers[i].xid # 0
           /\ proc[undo_workers[i].pid].pc \in {"mark", "perform", "absent", "remove", "fail", "exit"}
    /\ \A i, j \in Workers : undo_workers[i].pid = undo_workers[j].pid
                             /\ undo_workers[i].pid # NoProc => i = j
    /\ launcher.pc \in {"copy", "mail", "start", "wait"} => launcher.idx \in Workers
    /\ launcher.pc \in {"copy", "mail", "start"} => undo_workers[launcher.idx].xid = 0
    /\ \A e \in InTable : elem[e].in_progress =>
           \E p \in Procs : /\ proc[p].undowork.key = elem[e].req
                            /\ proc[p].pc \in {"perform", "absent", "remove", "fail", "exit", "free"}

\* The inductive invariant.
IndInv == TypeOK /\ ServedInv /\ HeldInv

\* The two halves of TypeOK: the hash table, and the rest.
Entry == [req : Requests \cup {NoRequest}, in_progress : BOOLEAN, retry_delay : 0 .. Delay]

HashOK ==
    /\ elem \in [Elements -> Entry] /\ chain \in [Buckets -> Seq(Elements)]
    /\ \A k \in Buckets : \A i \in 1 .. Len(chain[k]) :
           elem[chain[k][i]].req \in Requests /\ Bucket[elem[chain[k][i]].req] = k
    /\ \A k \in Buckets : \A i, j \in 1 .. Len(chain[k]) :
           elem[chain[k][i]].req = elem[chain[k][j]].req => i = j

ProcInfo == [pc : Steps, undowork : Work]
WorkerInfo == [xid : Nat, pid : Procs \cup {NoProc}]
Active == {p \in Procs : proc[p].pc \notin {"none", "started"}}

LauncherInfo == [pc : {"loop", "entry", "copy", "mail", "start", "wait"},
                 entry : {NoEntry} \cup Elements, request : Work,
                 idx : {0} \cup Workers, starts : 0 .. 2]

ControlOK ==
    /\ launcher \in LauncherInfo
    /\ rollback_request \in Work /\ discard \in Requests \cup {NoRequest}
    /\ undo_workers \in [Workers -> WorkerInfo]
    /\ proc \in [Procs -> ProcInfo]
    /\ rolledback \subseteq Requests /\ finished \subseteq Requests /\ mixed \subseteq Requests
    /\ running_undo_workers = Cardinality(Active)
    /\ RollbackNextBucket \in 0 .. NBuckets

-----------------------------------------------------------------------------
(* Operators                                                               *)

\* TypeOK is its two halves.
LEMMA TypeHalves == TypeOK <=> HashOK /\ ControlOK
BY Zenon DEF TypeOK, HashOK, ControlOK, Entry, Active, LauncherInfo, ProcInfo, WorkerInfo

\* A non-empty set of naturals has a least element, which is what the CHOOSE
\* of the scans and of the worker slots picks.
LEMMA Least ==
    ASSUME NEW S \in SUBSET Nat, S # {}
    PROVE  (CHOOSE x \in S : \A y \in S : x <= y) \in S
<1>1. PICK R : R = {ss \in Nat \X Nat : ss[1] < ss[2]}
   BY Zenon
<1>2. R = OpToRel(<, Nat)
   BY <1>1, Zenon DEF OpToRel
<1>3. IsWellFoundedOn(R, Nat)
   BY <1>2, NatLessThanWellFounded, Zenon
<1>4. PICK x \in S : \A y \in S : ~ (<<y, x>> \in R)
   BY <1>3, WFMin, Zenon
<1>5. \A y \in S : ~(y < x)
   BY <1>4, <1>1, Zenon
<1>6. \E z \in S : \A y \in S : z <= y
   BY <1>5
<1> QED BY <1>6, Zenon

\* The cells of the table are the ones some bucket's chain goes through.
LEMMA ChainCells ==
    ASSUME NEW c \in [Buckets -> Seq(Elements)], NEW e
    PROVE  e \in UNION {Range(c[k]) : k \in Buckets} <=>
               \E k \in Buckets : \E i \in 1 .. Len(c[k]) : c[k][i] = e
<1>1. \A k \in Buckets : c[k] \in Seq(Elements) /\ DOMAIN c[k] = 1 .. Len(c[k])
   OBVIOUS
<1>2. \A k \in Buckets : e \in Range(c[k]) <=> \E i \in 1 .. Len(c[k]) : c[k][i] = e
   BY <1>1, Zenon DEF Range
<1>3. e \in UNION {Range(c[k]) : k \in Buckets} <=> \E k \in Buckets : e \in Range(c[k])
   BY Zenon
<1> QED BY <1>2, <1>3, Zenon

\* Taking one cell out of a chain keeps the others, in order.
LEMMA WithoutCell ==
    ASSUME NEW T, NEW s \in Seq(T), NEW i \in 1 .. Len(s)
    PROVE  /\ Without(s, i) \in Seq(T)
           /\ Len(Without(s, i)) = Len(s) - 1
           /\ \A j \in 1 .. Len(s) - 1 :
                  Without(s, i)[j] = IF j < i THEN s[j] ELSE s[j + 1]
<1>1. Len(s) \in Nat /\ \A j \in 1 .. Len(s) - 1 : s[IF j < i THEN j ELSE j + 1] \in T
   OBVIOUS
<1> QED BY <1>1 DEF Without

\* A cell is in the table when some bucket's chain goes through it.
LEMMA InTableIff ==
    ASSUME HashOK, NEW e
    PROVE  /\ e \in InTable <=> \E k \in Buckets : \E i \in 1 .. Len(chain[k]) : chain[k][i] = e
           /\ e \in InTable => e \in Elements
<1>1. chain \in [Buckets -> Seq(Elements)]
   BY Zenon DEF HashOK
<1>2. e \in InTable <=> \E k \in Buckets : \E i \in 1 .. Len(chain[k]) : chain[k][i] = e
   BY <1>1, ChainCells, Zenon DEF InTable
<1>3. (\E k \in Buckets : \E i \in 1 .. Len(chain[k]) : chain[k][i] = e) => e \in Elements
   BY <1>1
<1> QED BY Zenon, <1>2, <1>3

\* The cell mark_rollback_progress and mark_rollback_fail find is a cell of
\* the table with their request.
LEMMA CellFound ==
    ASSUME HashOK, NEW r, Cells(r) # {}
    PROVE  Cell(r) \in InTable /\ Cell(r) \in Elements /\ elem[Cell(r)].req = r
<1>1. Cell(r) \in Cells(r)
   BY Zenon DEF Cell
<1>2. Cell(r) \in InTable /\ elem[Cell(r)].req = r
   BY <1>1, Zenon DEF Cells
<1> QED BY <1>2, InTableIff, Zenon

-----------------------------------------------------------------------------
(* What the operations on the hash table do                                *)

\* Writing into the entries without touching their keys, as the functions
\* that mark an entry and the launcher do, keeps the table.
LEMMA HashWrite ==
    ASSUME HashOK, chain' = chain, elem' \in [Elements -> Entry],
           \A e \in Elements : elem'[e].req = elem[e].req
    PROVE  HashOK' /\ InTable' = InTable /\ \A r : Cells(r)' = Cells(r)
<1>1. InTable' = InTable
   BY Zenon DEF InTable
<1>2. \A e \in InTable : e \in Elements
   BY InTableIff, Zenon
<1>3. \A r : Cells(r)' = Cells(r)
   BY <1>1, <1>2, Zenon DEF Cells
<1>4. \A k \in Buckets : \A i \in 1 .. Len(chain[k]) : chain[k][i] \in Elements
   BY DEF HashOK
<1>5. \A k \in Buckets : \A i \in 1 .. Len(chain[k]) : elem'[chain[k][i]].req = elem[chain[k][i]].req
   BY <1>4, Zenon
<1>6. /\ \A k \in Buckets : \A i \in 1 .. Len(chain'[k]) :
             elem'[chain'[k][i]].req \in Requests /\ Bucket[elem'[chain'[k][i]].req] = k
      /\ \A k \in Buckets : \A i, j \in 1 .. Len(chain'[k]) :
             elem'[chain'[k][i]].req = elem'[chain'[k][j]].req => i = j
   BY <1>5 DEF HashOK
<1>7. HashOK'
   BY <1>6, Zenon DEF HashOK
<1> QED BY Zenon, <1>1, <1>3, <1>7

\* register_rollback_req enters a request that has no entry yet into a free
\* cell; every entry stays as it is.
LEMMA RegisterStep ==
    ASSUME HashOK, NEW r \in Requests, register_rollback_req(r)
    PROVE  /\ HashOK'
           /\ \A e \in InTable : e \in InTable' /\ elem'[e] = elem[e]
           /\ \A e \in InTable' : e \in InTable \/ elem'[e].in_progress = FALSE
           /\ \A e \in Elements : elem'[e] = elem[e] \/ (e \in InTable' /\ elem'[e].req = r)
<1>1. CASE UNCHANGED hash
   <2>1. elem' = elem /\ chain' = chain
      BY Zenon, <1>1 DEF hash
   <2>2. HashOK' /\ InTable' = InTable
      BY Zenon, <2>1, HashWrite DEF HashOK
   <2> QED BY Zenon, <2>1, <2>2
<1>2. CASE ~(UNCHANGED hash)
   <2>0. Cells(r) = {}
      BY <1>2, Zenon DEF register_rollback_req
   <2>1. PICK x \in Elements \ InTable :
            /\ elem' = [elem EXCEPT ![x] = [req |-> r, in_progress |-> FALSE, retry_delay |-> 0]]
            /\ chain' = [chain EXCEPT ![Bucket[r]] = Append(@, x)]
      BY <1>2, Zenon DEF register_rollback_req
   <2> DEFINE b == Bucket[r]
              new == [req |-> r, in_progress |-> FALSE, retry_delay |-> 0]
   <2>2. b \in Buckets /\ Delay \in Nat
      BY Zenon, UndoRollbackAssumption
   <2>3. elem \in [Elements -> Entry] /\ chain \in [Buckets -> Seq(Elements)]
      BY Zenon DEF HashOK
   <2>4. new \in Entry /\ new.req = r /\ new.in_progress = FALSE
      BY <2>2 DEF Entry
   <2> HIDE DEF new
   <2>5. elem' \in [Elements -> Entry] /\ elem'[x] = new
         /\ \A e \in Elements : e # x => elem'[e] = elem[e]
      BY Zenon, <2>1, <2>3, <2>4 DEF new
   <2> DEFINE s == chain[b]
   <2>6. s \in Seq(Elements) /\ Append(s, x) \in Seq(Elements) /\ Len(Append(s, x)) = Len(s) + 1
         /\ Append(s, x)[Len(s) + 1] = x /\ \A i \in 1 .. Len(s) : Append(s, x)[i] = s[i]
      BY <2>1, <2>2, <2>3
   <2>7. chain' \in [Buckets -> Seq(Elements)] /\ chain'[b] = Append(s, x)
         /\ \A k \in Buckets : k # b => chain'[k] = chain[k]
      BY <2>1, <2>2, <2>3, <2>6, Zenon
   <2> HIDE DEF b, s
   <2>8. \A e : e \in InTable => e \in Elements /\ e # x
      BY <2>1, InTableIff, Zenon
   <2>9. \A k \in Buckets : \A i \in 1 .. Len(chain[k]) :
            chain[k][i] \in InTable /\ chain[k][i] \in Elements /\ chain[k][i] # x
      BY <2>8, InTableIff, Zenon
   <2>10. \A e : e \in InTable' <=> \E k \in Buckets : \E i \in 1 .. Len(chain'[k]) : chain'[k][i] = e
      BY <2>7, ChainCells, Zenon DEF InTable
   <2>11. Len(s) \in Nat
      BY <2>6
   <2>12. x \in InTable'
      <3>1. Len(s) + 1 \in 1 .. Len(chain'[b]) /\ chain'[b][Len(s) + 1] = x
         BY <2>6, <2>7, <2>11
      <3> QED BY <2>2, <2>10, <3>1, Zenon DEF b
   <2>13. \A k \in Buckets : \A i \in 1 .. Len(chain[k]) :
             i \in 1 .. Len(chain'[k]) /\ chain'[k][i] = chain[k][i]
      <3> SUFFICES ASSUME NEW k \in Buckets, NEW i \in 1 .. Len(chain[k])
                   PROVE  i \in 1 .. Len(chain'[k]) /\ chain'[k][i] = chain[k][i]
         BY Zenon
      <3>1. CASE k = b
         BY <3>1, <2>6, <2>7 DEF s
      <3>2. CASE k # b
         BY Zenon, <3>2, <2>7
      <3> QED BY Zenon, <3>1, <3>2
   <2>14. \A k \in Buckets : \A i \in 1 .. Len(chain'[k]) :
             i \in 1 .. Len(chain[k]) \/ (k = b /\ i = Len(s) + 1 /\ chain'[k][i] = x)
      <3> SUFFICES ASSUME NEW k \in Buckets, NEW i \in 1 .. Len(chain'[k])
                   PROVE  i \in 1 .. Len(chain[k]) \/ (k = b /\ i = Len(s) + 1 /\ chain'[k][i] = x)
         BY Zenon
      <3>1. CASE k = b
         BY <3>1, <2>6, <2>7 DEF s
      <3>2. CASE k # b
         BY Zenon, <3>2, <2>7
      <3> QED BY Zenon, <3>1, <3>2
   <2>15. \A e \in InTable : e \in InTable' /\ elem'[e] = elem[e]
      BY <2>5, <2>8, <2>10, <2>13, InTableIff, Zenon
   <2>16. \A e \in InTable' : e \in InTable \/ e = x
      <3> SUFFICES ASSUME NEW e \in InTable', e # x PROVE e \in InTable
         BY Zenon
      <3>1. PICK k \in Buckets : \E i \in 1 .. Len(chain'[k]) : chain'[k][i] = e
         BY <2>10, Zenon
      <3>2. PICK i \in 1 .. Len(chain'[k]) : chain'[k][i] = e
         BY <3>1, Zenon
      <3>3. i \in 1 .. Len(chain[k])
         BY <3>2, <2>14, Zenon
      <3> QED BY <3>2, <3>3, <2>9, <2>13, Zenon
   <2>17. \A k \in Buckets : \A i \in 1 .. Len(chain'[k]) :
             elem'[chain'[k][i]].req \in Requests /\ Bucket[elem'[chain'[k][i]].req] = k
      <3> SUFFICES ASSUME NEW k \in Buckets, NEW i \in 1 .. Len(chain'[k])
                   PROVE  elem'[chain'[k][i]].req \in Requests /\ Bucket[elem'[chain'[k][i]].req] = k
         BY Zenon
      <3>1. CASE i \in 1 .. Len(chain[k])
         <4>1. chain'[k][i] = chain[k][i] /\ elem'[chain[k][i]] = elem[chain[k][i]]
            BY <3>1, <2>5, <2>9, <2>13, Zenon
         <4> QED BY <3>1, <4>1 DEF HashOK
      <3>2. CASE i \notin 1 .. Len(chain[k])
         BY <3>2, <2>4, <2>5, <2>14, Zenon DEF b
      <3> QED BY Zenon, <3>1, <3>2
   <2>18. \A k \in Buckets : \A i, j \in 1 .. Len(chain'[k]) :
             elem'[chain'[k][i]].req = elem'[chain'[k][j]].req => i = j
      <3> SUFFICES ASSUME NEW k \in Buckets, NEW i \in 1 .. Len(chain'[k]), NEW j \in 1 .. Len(chain'[k]),
                          elem'[chain'[k][i]].req = elem'[chain'[k][j]].req
                   PROVE  i = j
         BY Zenon
      <3>1. \A n \in 1 .. Len(chain[k]) :
               elem'[chain'[k][n]].req = elem[chain[k][n]].req /\ elem'[chain'[k][n]].req # r
         <4> SUFFICES ASSUME NEW n \in 1 .. Len(chain[k])
                      PROVE  elem'[chain'[k][n]].req = elem[chain[k][n]].req /\ elem'[chain'[k][n]].req # r
            BY Zenon
         <4>1. chain'[k][n] = chain[k][n] /\ elem'[chain[k][n]] = elem[chain[k][n]] /\ chain[k][n] \in InTable
            BY <2>5, <2>9, <2>13, Zenon
         <4>2. elem[chain[k][n]].req # r
            BY <2>0, <4>1, Zenon DEF Cells
         <4> QED BY <4>1, <4>2, Zenon
      <3>2. CASE i \in 1 .. Len(chain[k]) /\ j \in 1 .. Len(chain[k])
         BY <3>1, <3>2, Zenon DEF HashOK
      <3>3. CASE ~(i \in 1 .. Len(chain[k]) /\ j \in 1 .. Len(chain[k]))
         BY <3>1, <3>3, <2>4, <2>5, <2>14, Zenon
      <3> QED BY <3>2, <3>3
   <2>19. HashOK'
      BY <2>5, <2>7, <2>17, <2>18, Zenon DEF HashOK
   <2>20. \A e \in Elements : elem'[e] = elem[e] \/ (e \in InTable' /\ elem'[e].req = r)
      BY <2>4, <2>5, <2>12, Zenon
   <2> QED BY <2>4, <2>5, <2>15, <2>16, <2>19, <2>20, Zenon
<1> QED BY Zenon, <1>1, <1>2

\* remove_rollback_entry takes at most the entry of its request out of the
\* table; the cell keeps its contents.
LEMMA RemoveStep ==
    ASSUME HashOK, NEW r \in Requests, remove_rollback_entry(r)
    PROVE  /\ HashOK' /\ elem' = elem
           /\ \A e \in InTable' : e \in InTable
           /\ \A e \in InTable : e \in InTable' \/ elem[e].req = r
<1>0. elem' = elem
   BY Zenon DEF remove_rollback_entry
<1>1. CASE chain' = chain
   <2>1. HashOK' /\ InTable' = InTable
      BY <1>0, <1>1, HashWrite DEF HashOK
   <2> QED BY <1>0, <2>1
<1>2. CASE chain' # chain
   <2> DEFINE b == Bucket[r]
              s == chain[b]
   <2>1. PICK n \in 1 .. Len(s) : elem[s[n]].req = r /\ chain' = [chain EXCEPT ![b] = Without(@, n)]
      BY <1>2, Zenon DEF remove_rollback_entry
   <2>2. b \in Buckets
      BY Zenon, UndoRollbackAssumption
   <2>3. elem \in [Elements -> Entry] /\ chain \in [Buckets -> Seq(Elements)]
      BY Zenon DEF HashOK
   <2>4. s \in Seq(Elements) /\ Len(s) \in Nat
      BY <2>2, <2>3
   <2> HIDE DEF s
   <2>5. /\ Without(s, n) \in Seq(Elements) /\ Len(Without(s, n)) = Len(s) - 1
         /\ \A j \in 1 .. Len(s) - 1 : Without(s, n)[j] = IF j < n THEN s[j] ELSE s[j + 1]
      BY <2>4, WithoutCell, Zenon
   <2>6. chain' \in [Buckets -> Seq(Elements)] /\ chain'[b] = Without(s, n)
         /\ \A k \in Buckets : k # b => chain'[k] = chain[k]
      BY <2>1, <2>2, <2>3, <2>5, Zenon DEF s
   <2> HIDE DEF b
   \* Where the cells of the shorter chain stood.
   <2> DEFINE pos(k, j) == IF k # b \/ j < n THEN j ELSE j + 1
   <2>7. \A k \in Buckets : Len(chain[k]) \in Nat
      BY <2>3
   <2>8. \A k \in Buckets : \A j \in 1 .. Len(chain'[k]) :
            pos(k, j) \in 1 .. Len(chain[k]) /\ chain'[k][j] = chain[k][pos(k, j)]
      <3> SUFFICES ASSUME NEW k \in Buckets, NEW j \in 1 .. Len(chain'[k])
                   PROVE  pos(k, j) \in 1 .. Len(chain[k]) /\ chain'[k][j] = chain[k][pos(k, j)]
         BY Zenon
      <3>1. CASE k = b
         BY <3>1, <2>4, <2>5, <2>6 DEF s
      <3>2. CASE k # b
         BY Zenon, <3>2, <2>6
      <3> QED BY Zenon, <3>1, <3>2
   <2>9. \A k \in Buckets : \A j \in 1 .. Len(chain[k]) :
            \/ k = b /\ j = n
            \/ \E m \in 1 .. Len(chain'[k]) : chain'[k][m] = chain[k][j]
      <3> SUFFICES ASSUME NEW k \in Buckets, NEW j \in 1 .. Len(chain[k]), ~(k = b /\ j = n)
                   PROVE  \E m \in 1 .. Len(chain'[k]) : chain'[k][m] = chain[k][j]
         BY Zenon
      <3>1. CASE k = b /\ j < n
         <4>1. j \in 1 .. Len(chain'[k]) /\ chain'[k][j] = chain[k][j]
            BY <3>1, <2>4, <2>5, <2>6 DEF s
         <4> QED BY <4>1, Zenon
      <3>2. CASE k = b /\ ~(j < n)
         <4>1. j - 1 \in 1 .. Len(chain'[k]) /\ chain'[k][j - 1] = chain[k][j]
            BY <3>2, <2>4, <2>5, <2>6 DEF s
         <4> QED BY <4>1, Zenon
      <3>3. CASE k # b
         BY <3>3, <2>6, Zenon
      <3> QED BY <3>1, <3>2, <3>3, Zenon
   <2>10. \A e : e \in InTable' <=> \E k \in Buckets : \E i \in 1 .. Len(chain'[k]) : chain'[k][i] = e
      BY <2>6, ChainCells, Zenon DEF InTable
   <2>11. \A k \in Buckets : \A i, j \in 1 .. Len(chain'[k]) : pos(k, i) = pos(k, j) => i = j
      BY <2>7
   <2> HIDE DEF pos
   <2>12. \A e \in InTable' : e \in InTable
      <3> SUFFICES ASSUME NEW e \in InTable' PROVE e \in InTable
         BY Zenon
      <3>1. PICK k \in Buckets : \E i \in 1 .. Len(chain'[k]) : chain'[k][i] = e
         BY <2>10, Zenon
      <3>2. PICK i \in 1 .. Len(chain'[k]) : chain'[k][i] = e
         BY <3>1, Zenon
      <3>3. pos(k, i) \in 1 .. Len(chain[k]) /\ chain[k][pos(k, i)] = e
         BY <3>2, <2>8, Zenon
      <3> QED BY <3>3, InTableIff, Zenon
   <2>13. \A e \in InTable : e \in InTable' \/ elem[e].req = r
      <3> SUFFICES ASSUME NEW e \in InTable, elem[e].req # r PROVE e \in InTable'
         BY Zenon
      <3>1. PICK k \in Buckets : \E i \in 1 .. Len(chain[k]) : chain[k][i] = e
         BY InTableIff, Zenon
      <3>2. PICK i \in 1 .. Len(chain[k]) : chain[k][i] = e
         BY <3>1, Zenon
      <3>3. ~(k = b /\ i = n)
         BY <3>2, <2>1, Zenon DEF s
      <3> QED BY <3>2, <3>3, <2>9, <2>10, Zenon
   <2>14. \A k \in Buckets : \A i \in 1 .. Len(chain'[k]) :
             elem'[chain'[k][i]].req \in Requests /\ Bucket[elem'[chain'[k][i]].req] = k
      <3> SUFFICES ASSUME NEW k \in Buckets, NEW i \in 1 .. Len(chain'[k])
                   PROVE  elem'[chain'[k][i]].req \in Requests /\ Bucket[elem'[chain'[k][i]].req] = k
         BY Zenon
      <3>1. PICK m \in 1 .. Len(chain[k]) : chain'[k][i] = chain[k][m]
         BY <2>8, Zenon
      <3>2. elem'[chain'[k][i]] = elem[chain[k][m]]
         BY Zenon, <1>0, <3>1
      <3> QED BY <3>2 DEF HashOK
   <2>15. \A k \in Buckets : \A i, j \in 1 .. Len(chain'[k]) :
             elem'[chain'[k][i]].req = elem'[chain'[k][j]].req => i = j
      <3> SUFFICES ASSUME NEW k \in Buckets, NEW i \in 1 .. Len(chain'[k]), NEW j \in 1 .. Len(chain'[k]),
                          elem'[chain'[k][i]].req = elem'[chain'[k][j]].req
                   PROVE  i = j
         BY Zenon
      <3>1. elem[chain[k][pos(k, i)]].req = elem[chain[k][pos(k, j)]].req
         BY <1>0, <2>8, Zenon
      <3>2. pos(k, i) = pos(k, j)
         BY <2>8, <3>1 DEF HashOK
      <3> QED BY <3>2, <2>11, Zenon
   <2>16. HashOK'
      BY <1>0, <2>3, <2>6, <2>14, <2>15, Zenon DEF HashOK
   <2> QED BY <1>0, <2>12, <2>13, <2>16
<1> QED BY Zenon, <1>1, <1>2

\* Marking an entry changes its progress and its delay, and no key.
LEMMA MarkStep ==
    ASSUME HashOK, NEW e \in Elements, NEW b \in BOOLEAN, elem' = Marked(e, b), chain' = chain
    PROVE  /\ HashOK' /\ InTable' = InTable /\ \A r : Cells(r)' = Cells(r)
           /\ \A f \in Elements : elem'[f].req = elem[f].req /\ (f # e => elem'[f] = elem[f])
           /\ elem'[e].in_progress = b
<1>1. elem \in [Elements -> Entry] /\ Delay \in Nat
   BY Zenon, UndoRollbackAssumption DEF HashOK
<1> DEFINE new == [elem[e] EXCEPT !.in_progress = b, !.retry_delay = Delay]
<1>2. elem[e] \in Entry
   BY Zenon, <1>1
<1>3. new \in Entry /\ new.req = elem[e].req /\ new.in_progress = b
   <2>1. Delay \in 0 .. Delay
      BY <1>1
   <2>2. new \in Entry
      BY <1>2, <2>1, ZenonT(30) DEF Entry
   <2>3. new.req = elem[e].req /\ new.in_progress = b
      BY Zenon, <1>2 DEF Entry
   <2> QED BY Zenon, <2>2, <2>3
<1>4. elem' = [elem EXCEPT ![e] = new]
   BY Zenon DEF Marked
<1> HIDE DEF new
<1>5. /\ elem' \in [Elements -> Entry] /\ elem'[e] = new
      /\ \A f \in Elements : f # e => elem'[f] = elem[f]
   BY <1>1, <1>3, <1>4, Zenon
<1>6. \A f \in Elements : elem'[f].req = elem[f].req
   BY <1>3, <1>5, Zenon
<1> QED BY <1>3, <1>5, <1>6, HashWrite, Zenon

-----------------------------------------------------------------------------
(* Who writes what                                                         *)

\* The steps that write the hash table.
HashWriter ==
    \/ request_async_rollback \/ UndoLauncherGetRequest
    \/ \E p \in Procs : MarkInProgress(p) \/ RemoveRequest(p) \/ MarkFail(p) \/ UndoWorkerFreeRequest(p)

\* The steps that write the worker slots.
SlotWriter ==
    \/ StartUndoWorkerByIdx \/ StartUndoWorkerGivesUp \/ LauncherRestarts
    \/ \E p \in Procs : ClaimWorker(p) \/ UndoWorkerFreeInfo(p)

\* The steps that write the flags of the slots, or that make a copy of two
\* requests.
FlagWriter ==
    \E p \in Procs : \/ execute_undo_actions(p) \/ execute_mixed_undo_actions(p)
                     \/ FlagAbsent(p) \/ UndoWorkerGetRequest(p)

\* The steps of a process that keep its request.
Moves(p) ==
    \/ ClaimWorker(p) \/ MarkInProgress(p) \/ execute_undo_actions(p)
    \/ execute_mixed_undo_actions(p) \/ FlagAbsent(p) \/ RemoveRequest(p) \/ MarkFail(p)
    \/ UndoWorkerFreeInfo(p)

\* Each shared variable is written by a few steps of the launcher, the discard
\* worker and the processes.
LEMMA Writers ==
    ASSUME [Next]_vars
    PROVE  /\ UNCHANGED <<elem, chain>> \/ HashWriter
           /\ UNCHANGED launcher \/ Launcher
           /\ UNCHANGED RollbackNextBucket \/ LauncherScan \/ LauncherRestarts
           /\ UNCHANGED rollback_request \/ WriteMailbox
           /\ UNCHANGED undo_workers \/ SlotWriter
           /\ UNCHANGED <<rolledback, finished, mixed>> \/ FlagWriter
           /\ UNCHANGED discard \/ Discard
           /\ \/ UNCHANGED <<proc, running_undo_workers>>
              \/ StartUndoWorkerByIdx \/ StartUndoWorkerAgain
              \/ \E p \in Procs : Process(p)
<1>1. CASE UNCHANGED vars
   BY Zenon, <1>1 DEF vars
<1>2. CASE \E r \in Requests : DiscardReadsSlot(r)
   BY <1>2, Zenon DEF DiscardReadsSlot, Discard
<1>3. CASE request_async_rollback
   BY <1>3, Zenon DEF request_async_rollback, HashWriter, Discard
<1>4. CASE LauncherScan
   BY <1>4, Zenon DEF LauncherScan, Launcher
<1>5. CASE UndoLauncherGetRequest
   <2>1. UNCHANGED <<RollbackNextBucket, rollback_request, undo_workers, proc, running_undo_workers>>
      BY <1>5, Zenon DEF UndoLauncherGetRequest
   <2>2. UNCHANGED <<discard, rolledback, finished, mixed>>
      BY <1>5, Zenon DEF UndoLauncherGetRequest
   <2> QED BY <1>5, <2>1, <2>2, Zenon DEF Launcher, HashWriter
<1>6. CASE CopyEntry
   BY <1>6, Zenon DEF CopyEntry, Launcher
<1>7. CASE WriteMailbox
   BY <1>7, Zenon DEF WriteMailbox, Launcher
<1>8. CASE StartUndoWorkerByIdx
   <2>1. UNCHANGED <<elem, chain, RollbackNextBucket, rollback_request, discard, rolledback, finished, mixed>>
      BY <1>8, Zenon DEF StartUndoWorkerByIdx
   <2> QED BY <1>8, <2>1, Zenon DEF Launcher, SlotWriter
<1>9. CASE StartUndoWorkerDone
   BY <1>9, Zenon DEF StartUndoWorkerDone, Launcher
<1>10. CASE StartUndoWorkerAgain
   BY <1>10, Zenon DEF StartUndoWorkerAgain, Launcher
<1>11. CASE StartUndoWorkerGivesUp
   BY <1>11, Zenon DEF StartUndoWorkerGivesUp, Launcher, SlotWriter
<1>12. CASE LauncherRestarts
   <2>1. UNCHANGED <<elem, chain, launcher, rollback_request, proc, running_undo_workers>>
      BY <1>12, Zenon DEF LauncherRestarts
   <2>2. UNCHANGED <<discard, rolledback, finished, mixed>>
      BY <1>12, Zenon DEF LauncherRestarts
   <2> QED BY <1>12, <2>1, <2>2, Zenon DEF SlotWriter
<1>13. ASSUME NEW p \in Procs, UndoWorkerStarts(p) \/ InitPostgresFails(p)
       PROVE  /\ UNCHANGED <<elem, chain, launcher, RollbackNextBucket, rollback_request, undo_workers>>
              /\ UNCHANGED <<rolledback, finished, mixed, discard>> /\ Process(p)
   BY <1>13, Zenon DEF UndoWorkerStarts, InitPostgresFails, Process
<1>14. ASSUME NEW p \in Procs, ClaimWorker(p) \/ UndoWorkerFreeInfo(p)
       PROVE  /\ UNCHANGED <<elem, chain, launcher, RollbackNextBucket, rollback_request>>
              /\ UNCHANGED <<rolledback, finished, mixed, discard>> /\ Process(p) /\ SlotWriter
   BY <1>14, Zenon DEF ClaimWorker, UndoWorkerFreeInfo, Process, SlotWriter
<1>15. ASSUME NEW p \in Procs,
              \/ execute_undo_actions(p) \/ execute_mixed_undo_actions(p)
              \/ FlagAbsent(p) \/ UndoWorkerGetRequest(p)
       PROVE  /\ UNCHANGED <<elem, chain, launcher, RollbackNextBucket, rollback_request, undo_workers>>
              /\ UNCHANGED discard /\ Process(p) /\ FlagWriter
   BY <1>15, Zenon DEF execute_undo_actions, execute_mixed_undo_actions, FlagAbsent,
                       UndoWorkerGetRequest, Process, FlagWriter
<1>16. ASSUME NEW p \in Procs,
              MarkInProgress(p) \/ RemoveRequest(p) \/ MarkFail(p) \/ UndoWorkerFreeRequest(p)
       PROVE  /\ UNCHANGED <<launcher, RollbackNextBucket, rollback_request, undo_workers>>
              /\ UNCHANGED <<rolledback, finished, mixed, discard>> /\ Process(p) /\ HashWriter
   BY <1>16, Zenon DEF MarkInProgress, RemoveRequest, MarkFail, UndoWorkerFreeRequest, Process, HashWriter
<1>17. CASE \E p \in Procs : Process(p)
   <2> PICK p \in Procs : Process(p)
      BY Zenon, <1>17
   <2>1. CASE UndoWorkerStarts(p) \/ InitPostgresFails(p)
      BY <1>13, <2>1, Zenon
   <2>2. CASE ClaimWorker(p) \/ UndoWorkerFreeInfo(p)
      BY <1>14, <2>2, Zenon
   <2>3. CASE \/ execute_undo_actions(p) \/ execute_mixed_undo_actions(p)
              \/ FlagAbsent(p) \/ UndoWorkerGetRequest(p)
      BY <1>15, <2>3, Zenon
   <2>4. CASE MarkInProgress(p) \/ RemoveRequest(p) \/ MarkFail(p) \/ UndoWorkerFreeRequest(p)
      BY <1>16, <2>4, Zenon
   <2> QED BY <2>1, <2>2, <2>3, <2>4, Zenon DEF Process
<1> QED BY <1>1, <1>2, <1>3, <1>4, <1>5, <1>6, <1>7, <1>8, <1>9, <1>10, <1>11, <1>12, <1>17, Zenon
        DEF Next, Discard, Launcher

-----------------------------------------------------------------------------
(* Processes and their counter                                             *)

ProcsOK == proc \in [Procs -> ProcInfo] /\ running_undo_workers = Cardinality(Active)

\* A process that goes on keeps its request.
LEMMA GotoStep ==
    ASSUME proc \in [Procs -> ProcInfo], NEW p \in Procs, NEW x \in Steps, Goto(p, x)
    PROVE  /\ proc' \in [Procs -> ProcInfo]
           /\ proc'[p].pc = x /\ proc'[p].undowork = proc[p].undowork
           /\ \A q \in Procs : q # p => proc'[q] = proc[q]
<1> DEFINE new == [proc[p] EXCEPT !.pc = x]
<1>1. proc[p] \in ProcInfo
   BY Zenon
<1>2. new \in ProcInfo /\ new.pc = x /\ new.undowork = proc[p].undowork
   BY <1>1, ZenonT(30) DEF ProcInfo
<1>3. proc' = [proc EXCEPT ![p] = new]
   BY Zenon DEF Goto
<1> HIDE DEF new
<1>4. proc' \in [Procs -> ProcInfo] /\ proc'[p] = new /\ \A q \in Procs : q # p => proc'[q] = proc[q]
   BY <1>2, <1>3, Zenon
<1> QED BY <1>2, <1>4, Zenon

\* RegisterUndoWorker starts a process in place of one that is gone, or none.
LEMMA RegisterWorkerStep ==
    ASSUME ProcsOK, RegisterUndoWorker, running_undo_workers' = running_undo_workers
    PROVE  /\ ProcsOK'
           /\ \A q \in Procs : \/ proc'[q] = proc[q]
                               \/ proc[q] = Dead /\ proc'[q].pc = "started"
<1>1. CASE UNCHANGED proc
   BY <1>1, Zenon DEF ProcsOK, Active
<1>2. CASE ~(UNCHANGED proc)
   <2>1. PICK p \in Procs : proc[p] = Dead /\ proc' = [proc EXCEPT ![p].pc = "started"]
      BY <1>2, Zenon DEF RegisterUndoWorker
   <2>2. Goto(p, "started") /\ "started" \in Steps /\ proc \in [Procs -> ProcInfo]
      BY Zenon, <2>1 DEF Goto, Steps, ProcsOK
   <2>3. /\ proc' \in [Procs -> ProcInfo] /\ proc'[p].pc = "started"
         /\ \A q \in Procs : q # p => proc'[q] = proc[q]
      BY <2>2, GotoStep, Zenon
   <2>4. proc[p].pc = "none"
      BY <2>1 DEF Dead
   <2>5. Active' = Active
      BY Zenon, <2>3, <2>4 DEF Active
   <2> QED BY <2>1, <2>3, <2>5, Zenon DEF ProcsOK
<1> QED BY Zenon, <1>1, <1>2

\* A copy has its parts from one of the two requests.
LEMMA CopyParts ==
    ASSUME NEW a \in Work, NEW b \in Work, NEW q \in Copies(a, b)
    PROVE  q \in Work /\ q.key \in {a.key, b.key} /\ q.slot \in {a.slot, b.slot}
BY DEF Work, Copies

\* UndoWorkerStarts counts the process, which begins to read the mailbox.
LEMMA StartsStep ==
    ASSUME ProcsOK, rollback_request \in Work, NEW p \in Procs, UndoWorkerStarts(p)
    PROVE  /\ ProcsOK'
           /\ proc'[p].pc = "copy" /\ proc'[p].undowork = rollback_request
           /\ \A q \in Procs : q # p => proc'[q] = proc[q]
<1> DEFINE new == [pc |-> "copy", undowork |-> rollback_request]
<1>1. /\ proc[p].pc = "started" /\ running_undo_workers' = running_undo_workers + 1
      /\ proc' = [proc EXCEPT ![p] = new]
   BY Zenon DEF UndoWorkerStarts
<1>2. new \in ProcInfo /\ new.pc = "copy" /\ new.undowork = rollback_request
   BY DEF ProcInfo, Steps
<1> HIDE DEF new
<1>3. proc' \in [Procs -> ProcInfo] /\ proc'[p] = new /\ \A q \in Procs : q # p => proc'[q] = proc[q]
   BY <1>1, <1>2, Zenon DEF ProcsOK
<1>4. Active' = Active \cup {p} /\ p \notin Active
   BY <1>1, <1>2, <1>3 DEF Active
<1>5. IsFiniteSet(Active)
   BY Zenon, UndoRollbackAssumption, FS_Subset DEF Active
<1>6. Cardinality(Active') = Cardinality(Active) + 1
   BY <1>4, <1>5, FS_AddElement, Zenon
<1> QED BY <1>1, <1>2, <1>3, <1>6 DEF ProcsOK

\* UndoWorkerGetRequest ends with a copy of the mailbox as it was and as it is.
LEMMA GetRequestStep ==
    ASSUME ProcsOK, rollback_request \in Work, NEW p \in Procs, UndoWorkerGetRequest(p)
    PROVE  /\ ProcsOK'
           /\ proc'[p].pc = "init"
           /\ \E w \in Work : /\ proc'[p].undowork = w
                              /\ w.key \in {proc[p].undowork.key, rollback_request.key}
                              /\ w.slot \in {proc[p].undowork.slot, rollback_request.slot}
                              /\ mixed' = IF w.key = w.slot THEN mixed ELSE mixed \cup {w.key, w.slot}
           /\ \A q \in Procs : q # p => proc'[q] = proc[q]
<1>1. PICK w \in Copies(proc[p].undowork, rollback_request) :
         /\ proc' = [proc EXCEPT ![p] = [pc |-> "init", undowork |-> w]]
         /\ mixed' = IF w.key = w.slot THEN mixed ELSE mixed \cup {w.key, w.slot}
   BY Zenon DEF UndoWorkerGetRequest
<1> DEFINE new == [pc |-> "init", undowork |-> w]
<1>2. proc[p].pc = "copy" /\ running_undo_workers' = running_undo_workers
   BY Zenon DEF UndoWorkerGetRequest
<1>3. proc[p].undowork \in Work
   BY Zenon DEF ProcsOK, ProcInfo
<1>4. /\ w \in Work /\ w.key \in {proc[p].undowork.key, rollback_request.key}
      /\ w.slot \in {proc[p].undowork.slot, rollback_request.slot}
   BY <1>3, CopyParts, Zenon
<1>5. new \in ProcInfo /\ new.pc = "init" /\ new.undowork = w
   BY <1>4 DEF ProcInfo, Steps
<1>6. proc' = [proc EXCEPT ![p] = new]
   BY <1>1, Zenon
<1> HIDE DEF new
<1>7. proc' \in [Procs -> ProcInfo] /\ proc'[p] = new /\ \A q \in Procs : q # p => proc'[q] = proc[q]
   BY <1>5, <1>6, Zenon DEF ProcsOK
<1>8. Active' = Active
   BY <1>2, <1>5, <1>7 DEF Active
<1>9. ProcsOK'
   BY <1>2, <1>7, <1>8, Zenon DEF ProcsOK
<1> QED BY <1>1, <1>4, <1>5, <1>7, <1>9, Zenon

\* A process that ends is no longer counted.
LEMMA EndStep ==
    ASSUME ProcsOK, NEW p \in Procs, p \in Active, proc' = [proc EXCEPT ![p] = Dead],
           running_undo_workers' = running_undo_workers - 1
    PROVE  ProcsOK' /\ proc'[p] = Dead /\ \A q \in Procs : q # p => proc'[q] = proc[q]
<1>1. Dead \in ProcInfo /\ Dead.pc = "none"
   BY DEF ProcInfo, Steps, Dead, Work, NoWork, Whole
<1>2. proc' \in [Procs -> ProcInfo] /\ proc'[p] = Dead /\ \A q \in Procs : q # p => proc'[q] = proc[q]
   BY <1>1, Zenon DEF ProcsOK
<1>3. Active' = Active \ {p}
   BY Zenon, <1>1, <1>2 DEF Active
<1>4. IsFiniteSet(Active)
   BY Zenon, UndoRollbackAssumption, FS_Subset DEF Active
<1>5. Cardinality(Active') = Cardinality(Active) - 1
   BY <1>3, <1>4, FS_RemoveElement, Zenon
<1> QED BY Zenon, <1>2, <1>5 DEF ProcsOK

\* Every other step of a process keeps its request and the counter.
LEMMA MoveStep ==
    ASSUME ProcsOK, NEW p \in Procs, Moves(p)
    PROVE  /\ ProcsOK'
           /\ proc[p].pc \in {"init", "mark", "perform", "absent", "remove", "fail", "exit"}
           /\ proc'[p].pc \in {"mark", "perform", "absent", "remove", "fail", "exit", "free"}
           /\ proc'[p].undowork = proc[p].undowork
           /\ \A q \in Procs : q # p => proc'[q] = proc[q]
<1>1. PICK x \in {"mark", "perform", "absent", "remove", "fail", "exit", "free"} : Goto(p, x)
   <2>1. CASE MarkInProgress(p)
      <3>1. Goto(p, IF Cells(proc[p].undowork.key) # {} THEN "perform" ELSE "absent")
         BY <2>1, Zenon DEF MarkInProgress
      <3>2. Goto(p, "perform") \/ Goto(p, "absent")
         BY <3>1, Zenon DEF Goto
      <3> QED BY Zenon, <3>2
   <2>2. CASE ~MarkInProgress(p)
      <3>1. Goto(p, "mark") \/ Goto(p, "remove") \/ Goto(p, "fail") \/ Goto(p, "exit") \/ Goto(p, "free")
         BY <2>2, Zenon DEF Moves, ClaimWorker, execute_undo_actions, execute_mixed_undo_actions,
                            FlagAbsent, RemoveRequest, MarkFail, UndoWorkerFreeInfo
      <3> QED BY Zenon, <3>1
   <2> QED BY Zenon, <2>1, <2>2
<1>2. /\ proc[p].pc \in {"init", "mark", "perform", "absent", "remove", "fail", "exit"}
      /\ running_undo_workers' = running_undo_workers
   BY Zenon DEF Moves, ClaimWorker, MarkInProgress, execute_undo_actions,
                execute_mixed_undo_actions, FlagAbsent, RemoveRequest, MarkFail, UndoWorkerFreeInfo
<1>3. x \in Steps /\ proc \in [Procs -> ProcInfo]
   BY Zenon DEF Steps, ProcsOK
<1>4. /\ proc' \in [Procs -> ProcInfo]
      /\ proc'[p].pc = x /\ proc'[p].undowork = proc[p].undowork
      /\ \A q \in Procs : q # p => proc'[q] = proc[q]
   BY <1>1, <1>3, GotoStep, Zenon
<1>5. Active' = Active
   BY <1>2, <1>4 DEF Active
<1> QED BY Zenon, <1>2, <1>4, <1>5 DEF ProcsOK

-----------------------------------------------------------------------------
(* Types                                                                   *)

\* The launcher's scan returns an entry of the table that is not in progress,
\* or nothing.
LEMMA ScanResult ==
    ASSUME HashOK
    PROVE  /\ get_next_rollback_request.bucket \in 0 .. NBuckets
           /\ \/ get_next_rollback_request.entry = NoEntry
              \/ get_next_rollback_request.entry \in InTable
<1> DEFINE found == {k \in Buckets : k >= RollbackNextBucket /\ Candidates(k) # {}}
           k == CHOOSE x \in found : \A y \in found : x <= y
           i == CHOOSE x \in Candidates(k) : \A y \in Candidates(k) : x <= y
<1>1. CASE found = {}
   <2>1. get_next_rollback_request = [entry |-> NoEntry, bucket |-> 0]
      BY <1>1, Zenon DEF get_next_rollback_request
   <2> QED BY <2>1, UndoRollbackAssumption
<1>2. CASE found # {}
   <2>1. get_next_rollback_request =
            [entry |-> chain[k][i], bucket |-> IF i = Len(chain[k]) THEN k + 1 ELSE k]
      BY <1>2, Zenon DEF get_next_rollback_request
   <2>2. found \in SUBSET Nat
      BY DEF Buckets
   <2>3. k \in found
      BY <1>2, <2>2, Least, Zenon
   <2>4. k \in Buckets /\ Candidates(k) # {}
      BY <2>3, Zenon
   <2> HIDE DEF k, found
   <2>5. Candidates(k) \in SUBSET Nat
      BY DEF Candidates
   <2>6. i \in Candidates(k)
      BY <2>4, <2>5, Least, Zenon
   <2> HIDE DEF i
   <2>7. i \in 1 .. Len(chain[k])
      BY <2>6, Zenon DEF Candidates
   <2>8. chain[k][i] \in InTable
      BY <2>4, <2>7, InTableIff, Zenon
   <2>9. k \in 0 .. NBuckets /\ k + 1 \in 0 .. NBuckets
      BY <2>4, UndoRollbackAssumption DEF Buckets
   <2> QED BY Zenon, <2>1, <2>8, <2>9
<1> QED BY Zenon, <1>1, <1>2

\* The worker slot the launcher takes is a free one.
LEMMA IdleChosen ==
    ASSUME NEW S, S \subseteq Workers, S # {}
    PROVE  (CHOOSE x \in S : \A y \in S : x <= y) \in S
<1>1. S \in SUBSET Nat
   BY UndoRollbackAssumption DEF Workers
<1> QED BY <1>1, Least, Zenon

\* UndoLauncherGetRequest takes the entry and a free worker slot, or lets the
\* entry be.
LEMMA TakeEntry ==
    ASSUME HashOK, UndoLauncherGetRequest
    PROVE  \/ /\ launcher' = Idle
              /\ \/ elem' = elem
                 \/ /\ elem[launcher.entry].retry_delay > 0
                    /\ elem' = [elem EXCEPT ![launcher.entry].retry_delay = @ - 1]
           \/ /\ elem' = elem
              /\ \E i \in IdleWorkers :
                    launcher' = [launcher EXCEPT !.pc = "copy",
                                                 !.request = Whole(elem[launcher.entry].req), !.idx = i]
<1> DEFINE e == launcher.entry
           busy == \E i \in Workers : undo_workers[i].xid = Xid[elem[e].req]
           idx == CHOOSE x \in IdleWorkers : \A y \in IdleWorkers : x <= y
<1>1. CASE busy \/ elem[e].retry_delay > 0 \/ IdleWorkers = {}
   <2>1. /\ elem' = IF ~busy /\ elem[e].retry_delay > 0
                    THEN [elem EXCEPT ![e].retry_delay = @ - 1] ELSE elem
         /\ launcher' = Idle
      BY <1>1, Zenon DEF UndoLauncherGetRequest
   <2> QED BY <2>1, Zenon
<1>2. CASE ~(busy \/ elem[e].retry_delay > 0 \/ IdleWorkers = {})
   <2>1. /\ elem' = elem
         /\ launcher' = [launcher EXCEPT !.pc = "copy", !.request = Whole(elem[e].req), !.idx = idx]
      BY <1>2, Zenon DEF UndoLauncherGetRequest
   <2>2. IdleWorkers \subseteq Workers
      BY Zenon DEF IdleWorkers
   <2>3. idx \in IdleWorkers
      BY <1>2, <2>2, IdleChosen, Zenon
   <2> QED BY <2>1, <2>3, Zenon
<1> QED BY Zenon, <1>1, <1>2

-----------------------------------------------------------------------------
(* Requests are served                                                     *)

\* The parts of the copy a process works on are requests, which are served.
LEMMA ProcServed ==
    ASSUME IndInv, NEW p \in Procs, proc[p].pc \notin {"none", "started"}
    PROVE  /\ Served(proc[p].undowork.key) /\ Served(proc[p].undowork.slot)
           /\ proc[p].undowork.key \in Requests /\ proc[p].undowork.slot \in Requests
BY Zenon DEF IndInv, ServedInv, WorkServed, Served

\* A slot is flagged as rolled back only when it is settled, and it stays so.
LEMMA FlagStep ==
    ASSUME IndInv, [Next]_vars
    PROVE  /\ Settled \subseteq Settled' /\ mixed \subseteq mixed'
           /\ rolledback' \subseteq Requests /\ mixed' \subseteq Requests
           /\ finished' \subseteq Settled'
<1>0. rolledback \subseteq Requests /\ mixed \subseteq Requests /\ finished \subseteq Settled
   BY Zenon DEF IndInv, TypeOK, ServedInv
<1>1. CASE UNCHANGED <<rolledback, finished, mixed>>
   BY Zenon, <1>0, <1>1 DEF Settled
<1>2. CASE FlagWriter
   <2>1. PICK p \in Procs : \/ execute_undo_actions(p) \/ execute_mixed_undo_actions(p)
                            \/ FlagAbsent(p) \/ UndoWorkerGetRequest(p)
      BY Zenon, <1>2 DEF FlagWriter
   <2>2. CASE execute_undo_actions(p)
      <3>1. proc[p].undowork.slot \in Requests
         <4>1. proc[p].pc = "perform"
            BY <2>2, Zenon DEF execute_undo_actions
         <4> QED BY <4>1, ProcServed
      <3>2. /\ mixed' = mixed
            /\ \/ UNCHANGED <<rolledback, finished>>
               \/ /\ rolledback' = rolledback \cup {proc[p].undowork.slot}
                  /\ finished' = finished \cup {proc[p].undowork.slot}
         BY <2>2, Zenon DEF execute_undo_actions
      <3> QED BY <1>0, <3>1, <3>2 DEF Settled
   <2>3. CASE execute_mixed_undo_actions(p)
      <3>1. /\ proc[p].pc = "perform" /\ proc[p].undowork.key # proc[p].undowork.slot /\ mixed' = mixed
            /\ \E done \in {{}, {proc[p].undowork.key}, {proc[p].undowork.key, proc[p].undowork.slot}} :
                  rolledback' = rolledback \cup done
            /\ \/ finished' = finished
               \/ \E flagged \in SUBSET {proc[p].undowork.slot} : finished' = finished \cup flagged
         BY <2>3, Zenon DEF execute_mixed_undo_actions
      <3>2. proc[p].undowork.key \in mixed /\ proc[p].undowork.slot \in mixed
         BY <3>1 DEF IndInv, ServedInv, Known
      <3>3. PICK done \in SUBSET mixed : rolledback' = rolledback \cup done
         BY <3>1, <3>2
      <3>4. PICK flagged \in SUBSET mixed : finished' = finished \cup flagged
         <4>1. CASE finished' = finished
            <5>1. {} \in SUBSET mixed /\ finished' = finished \cup {}
               BY <4>1
            <5> QED BY <5>1, Zenon
         <4>2. CASE \E flagged \in SUBSET {proc[p].undowork.slot} : finished' = finished \cup flagged
            BY <3>2, <4>2, Zenon
         <4> QED BY <3>1, <4>1, <4>2
      <3> QED BY <1>0, <3>1, <3>3, <3>4 DEF Settled
   <2>4. CASE FlagAbsent(p)
      <3>1. /\ proc[p].pc = "absent" /\ UNCHANGED <<rolledback, mixed>>
            /\ finished' = finished \cup {proc[p].undowork.slot}
         BY <2>4, Zenon DEF FlagAbsent
      <3>2. proc[p].undowork.slot \in Settled
         BY <3>1 DEF IndInv, ServedInv, Known, Settled
      <3> QED BY <1>0, <3>1, <3>2 DEF Settled
   <2>5. CASE UndoWorkerGetRequest(p)
      <3>1. proc[p].pc = "copy" /\ UNCHANGED <<rolledback, finished>>
         BY <2>5, Zenon DEF UndoWorkerGetRequest
      <3>2. /\ proc[p].undowork.key \in Requests /\ proc[p].undowork.slot \in Requests
         BY <3>1, ProcServed
      <3>3. rollback_request.key \in Requests /\ rollback_request.slot \in Requests
         BY <3>1 DEF IndInv, ServedInv, WorkServed, Served
      <3>4. ProcsOK /\ rollback_request \in Work
         BY TypeHalves, Zenon DEF IndInv, ControlOK, ProcsOK
      <3>5. PICK w \in Work : /\ w.key \in {proc[p].undowork.key, rollback_request.key}
                              /\ w.slot \in {proc[p].undowork.slot, rollback_request.slot}
                              /\ mixed' = IF w.key = w.slot THEN mixed ELSE mixed \cup {w.key, w.slot}
         BY <2>5, <3>4, GetRequestStep, Zenon
      <3>6. w.key \in Requests /\ w.slot \in Requests
         BY <3>2, <3>3, <3>5, Zenon
      <3> QED BY <1>0, <3>1, <3>5, <3>6 DEF Settled
   <2> QED BY Zenon, <2>1, <2>2, <2>3, <2>4, <2>5
<1> QED BY <1>1, <1>2, Writers, Zenon

\* A request stays served when no key of the table changes.
LEMMA ServedKeys ==
    ASSUME Settled \subseteq Settled', NEW r, Served(r), Cells(r)' = Cells(r)
    PROVE  Served(r)'
BY DEF Served

\* mark_rollback_progress and mark_rollback_fail change no key.
LEMMA MarkKeys ==
    ASSUME HashOK, NEW r, NEW b \in BOOLEAN,
           mark_rollback_progress(r, b) \/ (mark_rollback_fail(r) /\ b = FALSE)
    PROVE  /\ HashOK' /\ InTable' = InTable /\ \A q : Cells(q)' = Cells(q)
           /\ \A e \in Elements : elem'[e].req = elem[e].req
           /\ \A e \in InTable : IF elem[e].req = r THEN elem'[e].in_progress = b
                                                    ELSE elem'[e] = elem[e]
<1>1. CASE Cells(r) = {}
   <2>1. elem' = elem /\ chain' = chain
      BY <1>1, Zenon DEF mark_rollback_progress, mark_rollback_fail
   <2>2. \A e \in InTable : elem[e].req # r
      BY <1>1, Zenon DEF Cells
   <2>3. elem' \in [Elements -> Entry]
      BY <2>1 DEF HashOK
   <2> QED BY <2>1, <2>2, <2>3, HashWrite, Zenon
<1>2. CASE Cells(r) # {}
   <2>1. PICK e \in Elements : e = Cell(r)
      BY <1>2, CellFound, Zenon
   <2>2. elem' = Marked(e, b) /\ chain' = chain
      BY <1>2, <2>1, Zenon DEF mark_rollback_progress, mark_rollback_fail
   <2>3. /\ HashOK' /\ InTable' = InTable /\ \A q : Cells(q)' = Cells(q)
         /\ \A f \in Elements : elem'[f].req = elem[f].req /\ (f # e => elem'[f] = elem[f])
         /\ elem'[e].in_progress = b
      BY <2>2, MarkStep, Zenon
   <2>4. \A f \in InTable : f \in Elements /\ (elem[f].req = r => f = e)
      <3> SUFFICES ASSUME NEW f \in InTable PROVE f \in Elements /\ (elem[f].req = r => f = e)
         BY Zenon
      <3> PICK k \in Buckets : \E i \in 1 .. Len(chain[k]) : chain[k][i] = f
         BY InTableIff, Zenon
      <3>1. PICK i \in 1 .. Len(chain[k]) : chain[k][i] = f
         BY Zenon
      <3> PICK m \in Buckets : \E j \in 1 .. Len(chain[m]) : chain[m][j] = e
         BY <1>2, <2>1, CellFound, InTableIff, Zenon
      <3>2. PICK j \in 1 .. Len(chain[m]) : chain[m][j] = e
         BY Zenon
      <3>3. elem[e].req = r
         BY <1>2, <2>1, CellFound, Zenon
      <3>4. elem[f].req = r => k = m /\ i = j
         BY <3>1, <3>2, <3>3 DEF HashOK
      <3> QED BY <3>1, <3>2, <3>4, InTableIff, Zenon
   <2>5. e \in InTable /\ elem[e].req = r
      BY <1>2, <2>1, CellFound, Zenon
   <2> QED BY <2>3, <2>4, <2>5, Zenon
<1> QED BY <1>1, <1>2

\* Every step keeps the hash table well formed, keeps every served request
\* served, and a key it writes is that of a request in the table.
LEMMA HashNext ==
    ASSUME IndInv, [Next]_vars
    PROVE  /\ HashOK'
           /\ \A r \in Requests : Served(r) => Served(r)'
           /\ \A e \in Elements : \/ elem'[e].req = elem[e].req
                                  \/ \E r \in Requests : elem'[e].req = r /\ Served(r)'
<1>0. HashOK /\ ControlOK /\ ServedInv
   BY TypeHalves, Zenon DEF IndInv
<1>1. Settled \subseteq Settled'
   BY FlagStep
<1>2. ASSUME HashOK', \A r : Cells(r)' = Cells(r), \A e \in Elements : elem'[e].req = elem[e].req
      PROVE  /\ HashOK'
             /\ \A r \in Requests : Served(r) => Served(r)'
             /\ \A e \in Elements : \/ elem'[e].req = elem[e].req
                                    \/ \E r \in Requests : elem'[e].req = r /\ Served(r)'
   BY <1>1, <1>2, ServedKeys, Zenon
<1>3. CASE UNCHANGED <<elem, chain>>
   <2>1. HashOK' /\ \A r : Cells(r)' = Cells(r)
      BY <1>0, <1>3, HashWrite DEF HashOK
   <2> QED BY <1>2, <1>3, <2>1
<1>4. CASE request_async_rollback
   <2>1. PICK d \in Requests : d = discard
      BY <1>0, <1>4, Zenon DEF request_async_rollback, ControlOK
   <2>2. register_rollback_req(d)
      BY <1>4, <2>1, Zenon DEF request_async_rollback
   <2>3. /\ HashOK'
         /\ \A e \in InTable : e \in InTable' /\ elem'[e] = elem[e]
         /\ \A e \in Elements : elem'[e] = elem[e] \/ (e \in InTable' /\ elem'[e].req = d)
      BY <1>0, <2>2, RegisterStep, Zenon
   <2>4. ASSUME NEW r \in Requests, Served(r) PROVE Served(r)'
      <3>1. CASE r \in Settled
         BY <1>1, <3>1 DEF Served
      <3>2. CASE r \notin Settled
         <4>1. PICK e \in InTable : elem[e].req = r
            BY <2>4, <3>2, Zenon DEF Served, Cells
         <4>2. e \in InTable' /\ elem'[e].req = r
            BY <2>3, <4>1, Zenon
         <4> QED BY <4>2, Zenon DEF Served, Cells
      <3> QED BY <3>1, <3>2
   <2>5. ASSUME NEW e \in Elements, e \in InTable', elem'[e].req = d PROVE Served(d)'
      BY <2>5, Zenon DEF Served, Cells
   <2> QED BY <2>3, <2>4, <2>5, Zenon
<1>5. CASE UndoLauncherGetRequest
   <2>1. CASE UNCHANGED <<elem, chain>>
      BY <1>3, <2>1
   <2>2. CASE ~(UNCHANGED <<elem, chain>>)
      <3>1. /\ chain' = chain /\ elem[launcher.entry].retry_delay > 0
            /\ elem' = [elem EXCEPT ![launcher.entry].retry_delay = @ - 1]
         BY <1>0, <1>5, <2>2, TakeEntry, Zenon DEF UndoLauncherGetRequest
      <3>2. PICK f \in Elements : f = launcher.entry
         BY <1>0, <1>5, Zenon DEF ServedInv, UndoLauncherGetRequest
      <3> DEFINE new == [elem[f] EXCEPT !.retry_delay = @ - 1]
      <3>3. elem \in [Elements -> Entry] /\ elem[f] \in Entry
         BY <1>0 DEF HashOK
      <3>4. elem[f].retry_delay - 1 \in 0 .. Delay
         BY <3>1, <3>2, <3>3, UndoRollbackAssumption DEF Entry
      <3>5. new \in Entry
         BY <3>3, <3>4, ZenonT(30) DEF Entry
      <3>6. new.req = elem[f].req
         BY <3>3 DEF Entry
      <3>7. elem' = [elem EXCEPT ![f] = new]
         BY <3>1, <3>2, Zenon
      <3> HIDE DEF new
      <3>8. elem' \in [Elements -> Entry] /\ \A e \in Elements : elem'[e].req = elem[e].req
         BY <3>3, <3>5, <3>6, <3>7, Zenon
      <3>9. HashOK' /\ \A r : Cells(r)' = Cells(r)
         BY <1>0, <3>1, <3>8, HashWrite, Zenon
      <3> QED BY <1>2, <3>8, <3>9, Zenon
   <2> QED BY <2>1, <2>2
<1>6. ASSUME NEW p \in Procs, MarkInProgress(p) \/ MarkFail(p) \/ UndoWorkerFreeRequest(p)
      PROVE  HashOK' /\ (\A r : Cells(r)' = Cells(r)) /\ \A e \in Elements : elem'[e].req = elem[e].req
   <2>1. PICK r : r = proc[p].undowork.key
      OBVIOUS
   <2>2. mark_rollback_progress(r, TRUE) \/ mark_rollback_progress(r, FALSE) \/ mark_rollback_fail(r)
      BY <1>6, <2>1, Zenon DEF MarkInProgress, MarkFail, UndoWorkerFreeRequest
   <2>3. CASE mark_rollback_progress(r, TRUE)
      BY <1>0, <2>3, MarkKeys, Zenon
   <2>4. CASE mark_rollback_progress(r, FALSE) \/ mark_rollback_fail(r)
      BY <1>0, <2>4, MarkKeys, Zenon
   <2> QED BY <2>2, <2>3, <2>4, Zenon
<1>7. ASSUME NEW p \in Procs, RemoveRequest(p)
      PROVE  /\ HashOK' /\ elem' = elem
             /\ \A r \in Requests : Served(r) => Served(r)'
   <2>1. proc[p].pc = "remove" /\ remove_rollback_entry(proc[p].undowork.key)
      BY <1>7, Zenon DEF RemoveRequest
   <2>2. PICK d \in Requests : d = proc[p].undowork.key /\ d \in Settled
      BY <1>0, <2>1, ProcServed DEF ServedInv
   <2>3. /\ HashOK' /\ elem' = elem
         /\ \A e \in InTable : e \in InTable' \/ elem[e].req = d
      BY <1>0, <2>1, <2>2, RemoveStep, Zenon
   <2>4. ASSUME NEW r \in Requests, Served(r) PROVE Served(r)'
      <3>1. CASE r \in Settled
         BY <1>1, <3>1 DEF Served
      <3>2. CASE r \notin Settled
         <4>1. PICK e \in InTable : elem[e].req = r
            BY <2>4, <3>2, Zenon DEF Served, Cells
         <4>2. e \in InTable' /\ elem'[e].req = r
            BY <2>2, <2>3, <3>2, <4>1, Zenon
         <4> QED BY <4>2, Zenon DEF Served, Cells
      <3> QED BY <3>1, <3>2
   <2> QED BY <2>3, <2>4
<1>8. CASE \E p \in Procs : MarkInProgress(p) \/ RemoveRequest(p) \/ MarkFail(p) \/ UndoWorkerFreeRequest(p)
   <2>1. PICK p \in Procs : MarkInProgress(p) \/ RemoveRequest(p) \/ MarkFail(p) \/ UndoWorkerFreeRequest(p)
      BY <1>8, Zenon
   <2>2. CASE RemoveRequest(p)
      BY <1>7, <2>2, Zenon
   <2>3. CASE ~RemoveRequest(p)
      BY <1>2, <1>6, <2>1, <2>3, Zenon
   <2> QED BY <2>2, <2>3
<1> QED BY <1>3, <1>4, <1>5, <1>8, Writers, Zenon DEF HashWriter

\* How a step changes a process: it starts, reads the mailbox, has its copy,
\* goes on with it, or ends.
LEMMA ProcCases ==
    ASSUME IndInv, [Next]_vars
    PROVE  /\ ProcsOK'
           /\ \A q \in Procs :
                 \/ proc'[q] = proc[q]
                 \/ proc[q] = Dead /\ proc'[q].pc = "started"
                       /\ (StartUndoWorkerByIdx \/ StartUndoWorkerAgain)
                 \/ proc[q].pc = "started" /\ proc'[q].pc = "copy"
                       /\ proc'[q].undowork = rollback_request /\ UndoWorkerStarts(q)
                 \/ proc[q].pc = "copy" /\ proc'[q].pc = "init" /\ UndoWorkerGetRequest(q)
                       /\ \E w \in Work :
                             /\ proc'[q].undowork = w
                             /\ w.key \in {proc[q].undowork.key, rollback_request.key}
                             /\ w.slot \in {proc[q].undowork.slot, rollback_request.slot}
                             /\ mixed' = IF w.key = w.slot THEN mixed ELSE mixed \cup {w.key, w.slot}
                 \/ Moves(q) /\ proc'[q].undowork = proc[q].undowork
                       /\ proc'[q].pc \in {"mark", "perform", "absent", "remove", "fail", "exit", "free"}
                 \/ proc'[q] = Dead /\ (InitPostgresFails(q) \/ UndoWorkerFreeRequest(q))
<1>0. ProcsOK /\ rollback_request \in Work
   BY TypeHalves, Zenon DEF IndInv, ControlOK, ProcsOK
<1>1. CASE UNCHANGED <<proc, running_undo_workers>>
   BY <1>0, <1>1, Zenon DEF ProcsOK, Active
<1>2. CASE StartUndoWorkerByIdx \/ StartUndoWorkerAgain
   <2>1. running_undo_workers' = running_undo_workers /\ RegisterUndoWorker
      BY <1>2, Zenon DEF StartUndoWorkerByIdx, StartUndoWorkerAgain
   <2> QED BY <1>0, <1>2, <2>1, RegisterWorkerStep, Zenon
<1>3. ASSUME NEW p \in Procs, UndoWorkerStarts(p)
      PROVE  /\ ProcsOK' /\ proc[p].pc = "started" /\ proc'[p].pc = "copy"
             /\ proc'[p].undowork = rollback_request
             /\ \A q \in Procs : q # p => proc'[q] = proc[q]
   <2>1. proc[p].pc = "started"
      BY <1>3, Zenon DEF UndoWorkerStarts
   <2> QED BY <1>0, <1>3, <2>1, StartsStep, Zenon
<1>4. ASSUME NEW p \in Procs, UndoWorkerGetRequest(p)
      PROVE  /\ ProcsOK' /\ proc[p].pc = "copy" /\ proc'[p].pc = "init"
             /\ \E w \in Work :
                   /\ proc'[p].undowork = w
                   /\ w.key \in {proc[p].undowork.key, rollback_request.key}
                   /\ w.slot \in {proc[p].undowork.slot, rollback_request.slot}
                   /\ mixed' = IF w.key = w.slot THEN mixed ELSE mixed \cup {w.key, w.slot}
             /\ \A q \in Procs : q # p => proc'[q] = proc[q]
   <2>1. proc[p].pc = "copy"
      BY <1>4, Zenon DEF UndoWorkerGetRequest
   <2> QED BY <1>0, <1>4, <2>1, GetRequestStep, Zenon
<1>5. ASSUME NEW p \in Procs, InitPostgresFails(p) \/ UndoWorkerFreeRequest(p)
      PROVE  ProcsOK' /\ proc'[p] = Dead /\ \A q \in Procs : q # p => proc'[q] = proc[q]
   <2>1. /\ proc[p].pc \in {"init", "free"} /\ proc' = [proc EXCEPT ![p] = Dead]
         /\ running_undo_workers' = running_undo_workers - 1
      BY <1>5, Zenon DEF InitPostgresFails, UndoWorkerFreeRequest
   <2>2. p \in Active
      BY <2>1 DEF Active
   <2> QED BY <1>0, <2>1, <2>2, EndStep, Zenon
<1>6. CASE \E p \in Procs : Process(p)
   <2>1. PICK p \in Procs : Process(p)
      BY <1>6, Zenon
   <2>2. CASE UndoWorkerStarts(p)
      BY <1>3, <2>2, Zenon
   <2>3. CASE UndoWorkerGetRequest(p)
      BY <1>4, <2>3, Zenon
   <2>4. CASE InitPostgresFails(p) \/ UndoWorkerFreeRequest(p)
      BY <1>5, <2>4, Zenon
   <2>5. CASE Moves(p)
      BY <1>0, <2>5, MoveStep, Zenon
   <2> QED BY <2>1, <2>2, <2>3, <2>4, <2>5, Zenon DEF Process, Moves
<1> QED BY <1>1, <1>2, <1>6, Writers, Zenon

\* What the launcher is at, and where it has it from.
LauncherOK(l, mail) ==
    /\ l \in LauncherInfo
    /\ l.pc \in {"copy", "mail", "start"} =>
           \E q \in Work : l.request = q /\ Served(q.key) /\ Served(q.slot)
    /\ l.pc \in {"entry", "copy"} => l.entry \in Elements /\ elem[l.entry].req # NoRequest
    /\ l.pc \in {"copy", "mail", "start", "wait"} => l.idx \in Workers
    /\ l.pc \in {"copy", "mail", "start"} => undo_workers[l.idx].xid = 0
    /\ l.pc \in {"start", "wait"} => mail # NoWork

\* The launcher before a step.
LEMMA LauncherNow ==
    ASSUME IndInv
    PROVE  LauncherOK(launcher, rollback_request)
<1>0. ControlOK /\ ServedInv /\ HeldInv
   BY TypeHalves, Zenon DEF IndInv
<1>1. launcher \in LauncherInfo /\ launcher.request \in Work
   BY <1>0, Zenon DEF ControlOK, LauncherInfo
<1> QED BY <1>0, <1>1, Zenon DEF ServedInv, HeldInv, WorkServed, LauncherOK

\* The launcher after a step, with what it names as it was before.
LEMMA LauncherStep ==
    ASSUME IndInv, [Next]_vars
    PROVE  /\ LauncherOK(launcher', rollback_request')
           /\ rollback_request' = rollback_request \/ WriteMailbox
<1>0. HashOK /\ ControlOK /\ ServedInv
   BY TypeHalves, Zenon DEF IndInv
<1>1. launcher \in LauncherInfo /\ LauncherOK(launcher, rollback_request)
   BY <1>0, LauncherNow, Zenon DEF ControlOK
<1>2. rollback_request' = rollback_request \/ WriteMailbox
   BY Writers, Zenon
<1>3. CASE UNCHANGED <<launcher, rollback_request>>
   BY <1>1, <1>3, Zenon
<1>4. CASE launcher' = Idle
   <2>1. Idle.pc = "loop" /\ Idle \in LauncherInfo
      BY DEF Idle, LauncherInfo, Work, NoWork, Whole
   <2>2. launcher'.pc \notin {"entry", "copy", "mail", "start", "wait"}
      BY <1>4, <2>1
   <2> QED BY <1>2, <1>4, <2>1, <2>2, Zenon DEF LauncherOK
<1>5. CASE LauncherScan /\ ~(UNCHANGED launcher)
   <2>1. PICK x : x = get_next_rollback_request.entry
      OBVIOUS
   <2>2. x # NoEntry /\ launcher' = [launcher EXCEPT !.pc = "entry", !.entry = x]
      BY <1>5, <2>1, Zenon DEF LauncherScan
   <2>3. x \in InTable
      BY <1>0, <2>1, <2>2, ScanResult, Zenon
   <2>4. PICK k \in Buckets : \E i \in 1 .. Len(chain[k]) : chain[k][i] = x
      BY <1>0, <2>3, InTableIff, Zenon
   <2>5. x \in Elements
      BY <1>0, <2>3, InTableIff, Zenon
   <2>6. elem[x].req # NoRequest
      BY <1>0, <2>4, UndoRollbackAssumption DEF HashOK
   <2>7. launcher' \in LauncherInfo
      BY <1>1, <2>2, <2>5, ZenonT(30) DEF LauncherInfo
   <2>8. launcher'.pc = "entry" /\ launcher'.entry = x
      BY <1>1, <2>2 DEF LauncherInfo
   <2>9. launcher'.pc \notin {"copy", "mail", "start", "wait"}
      BY <2>8
   <2> QED BY <1>2, <2>5, <2>6, <2>7, <2>8, <2>9, Zenon DEF LauncherOK
<1>6. CASE UndoLauncherGetRequest /\ launcher' # Idle
   <2>1. PICK i \in IdleWorkers :
            launcher' = [launcher EXCEPT !.pc = "copy",
                                         !.request = Whole(elem[launcher.entry].req), !.idx = i]
      BY <1>0, <1>6, TakeEntry, Zenon
   <2>2. launcher.pc = "entry"
      BY <1>6, Zenon DEF UndoLauncherGetRequest
   <2>3. PICK e \in Elements : e = launcher.entry /\ elem[e].req # NoRequest
      BY <1>1, <2>2 DEF LauncherOK
   <2>4. Served(elem[e].req) /\ elem[e].req \in Requests
      BY <1>0, <2>3, Zenon DEF ServedInv, Served
   <2>5. PICK q : q = Whole(elem[e].req)
      OBVIOUS
   <2>6. q \in Work /\ q.key = elem[e].req /\ q.slot = elem[e].req
      BY <2>4, <2>5 DEF Work, Whole
   <2>7. i \in Workers /\ undo_workers[i].xid = 0
      BY Zenon DEF IdleWorkers
   <2>8. launcher' = [launcher EXCEPT !.pc = "copy", !.request = q, !.idx = i]
      BY <2>1, <2>3, <2>5, Zenon
   <2>9. launcher' \in LauncherInfo
      BY <1>1, <2>6, <2>7, <2>8, ZenonT(30) DEF LauncherInfo
   <2>10. launcher'.pc = "copy" /\ launcher'.request = q /\ launcher'.idx = i /\ launcher'.entry = e
      BY <1>1, <2>3, <2>8 DEF LauncherInfo
   <2>11. launcher'.pc \notin {"start", "wait"}
      BY <2>10
   <2>12. \E w \in Work : launcher'.request = w /\ Served(w.key) /\ Served(w.slot)
      BY <2>4, <2>6, <2>10, Zenon
   <2>13. /\ launcher'.entry \in Elements /\ elem[launcher'.entry].req # NoRequest
          /\ launcher'.idx \in Workers /\ undo_workers[launcher'.idx].xid = 0
      BY <2>3, <2>7, <2>10, Zenon
   <2> QED BY <1>2, <2>9, <2>11, <2>12, <2>13, Zenon DEF LauncherOK
<1>7. CASE CopyEntry
   <2>1. PICK q \in Copies(launcher.request, Whole(elem[launcher.entry].req)) :
            launcher' = [launcher EXCEPT !.pc = "mail", !.entry = NoEntry, !.request = q]
      BY <1>7, Zenon DEF CopyEntry
   <2>2. launcher.pc = "copy"
      BY <1>7, Zenon DEF CopyEntry
   <2>3. PICK e \in Elements : e = launcher.entry /\ elem[e].req # NoRequest
      BY <1>1, <2>2 DEF LauncherOK
   <2>4. Served(elem[e].req) /\ elem[e].req \in Requests
      BY <1>0, <2>3, Zenon DEF ServedInv, Served
   <2>5. PICK w : w = Whole(elem[e].req)
      OBVIOUS
   <2>6. w \in Work /\ w.key = elem[e].req /\ w.slot = elem[e].req
      BY <2>4, <2>5 DEF Work, Whole
   <2>7. /\ launcher.request \in Work /\ Served(launcher.request.key) /\ Served(launcher.request.slot)
         /\ launcher.idx \in Workers /\ undo_workers[launcher.idx].xid = 0
      BY <1>1, <2>2 DEF LauncherOK
   <2>8. /\ q \in Work /\ q.key \in {launcher.request.key, w.key}
         /\ q.slot \in {launcher.request.slot, w.slot}
      BY <2>1, <2>3, <2>5, <2>6, <2>7, CopyParts, Zenon
   <2>9. Served(q.key) /\ Served(q.slot)
      BY <2>4, <2>6, <2>7, <2>8, Zenon
   <2>10. launcher' \in LauncherInfo
      BY <1>1, <2>1, <2>8, ZenonT(30) DEF LauncherInfo
   <2>11. launcher'.pc = "mail" /\ launcher'.request = q /\ launcher'.idx = launcher.idx
      BY <1>1, <2>1 DEF LauncherInfo
   <2>12. launcher'.pc \notin {"entry", "copy", "start", "wait"}
      BY <2>11
   <2>13. \E v \in Work : launcher'.request = v /\ Served(v.key) /\ Served(v.slot)
      BY <2>8, <2>9, <2>11, Zenon
   <2>14. launcher'.idx \in Workers /\ undo_workers[launcher'.idx].xid = 0
      BY <2>7, <2>11, Zenon
   <2> QED BY <1>2, <2>10, <2>12, <2>13, <2>14, Zenon DEF LauncherOK
<1>8. CASE WriteMailbox
   <2>1. /\ launcher.pc = "mail" /\ rollback_request' = launcher.request
         /\ launcher' = [launcher EXCEPT !.pc = "start"]
      BY <1>8, Zenon DEF WriteMailbox
   <2>2. /\ launcher.request \in Work /\ Served(launcher.request.key) /\ Served(launcher.request.slot)
         /\ launcher.idx \in Workers /\ undo_workers[launcher.idx].xid = 0
      BY <1>1, <2>1 DEF LauncherOK
   <2>3. launcher.request # NoWork
      BY <2>2, UndoRollbackAssumption DEF Served, NoWork, Whole
   <2>4. launcher' \in LauncherInfo
      BY <1>1, <2>1, ZenonT(30) DEF LauncherInfo
   <2>5. launcher'.pc = "start" /\ launcher'.request = launcher.request /\ launcher'.idx = launcher.idx
      BY <1>1, <2>1 DEF LauncherInfo
   <2>6. launcher'.pc \notin {"entry", "copy"}
      BY <2>5
   <2> QED BY <1>2, <2>1, <2>2, <2>3, <2>4, <2>5, <2>6, Zenon DEF LauncherOK
<1>9. CASE StartUndoWorkerByIdx \/ StartUndoWorkerAgain
   <2>1. /\ launcher.pc \in {"start", "wait"}
         /\ \E r \in {launcher.request, NoWork}, n \in {1, 2} :
               launcher' = [launcher EXCEPT !.pc = "wait", !.request = r, !.starts = n]
      <3>1. CASE StartUndoWorkerByIdx
         BY <3>1, Zenon DEF StartUndoWorkerByIdx
      <3>2. CASE StartUndoWorkerAgain
         <4>1. launcher.pc = "wait" /\ launcher' = [launcher EXCEPT !.starts = 2]
            BY <3>2, Zenon DEF StartUndoWorkerAgain
         <4>2. launcher' = [launcher EXCEPT !.pc = "wait", !.request = launcher.request, !.starts = 2]
            BY <1>1, <4>1, Zenon DEF LauncherInfo
         <4> QED BY <4>1, <4>2, Zenon
      <3> QED BY <1>9, <3>1, <3>2
   <2>2. PICK r \in {launcher.request, NoWork}, n \in {1, 2} :
            launcher' = [launcher EXCEPT !.pc = "wait", !.request = r, !.starts = n]
      BY <2>1, Zenon
   <2>3. launcher.idx \in Workers /\ rollback_request # NoWork
      BY <1>1, <2>1 DEF LauncherOK
   <2>4. r \in Work /\ n \in 0 .. 2
      BY <1>1, <2>2 DEF LauncherInfo, NoWork, Whole, Work
   <2>5. launcher' \in LauncherInfo
      BY <1>1, <2>2, <2>4, ZenonT(30) DEF LauncherInfo
   <2>6. launcher'.pc = "wait" /\ launcher'.idx = launcher.idx
      BY <1>1, <2>2 DEF LauncherInfo
   <2>7. launcher'.pc \notin {"entry", "copy", "mail", "start"} /\ rollback_request' = rollback_request
      BY <1>9, <2>6, Zenon DEF StartUndoWorkerByIdx, StartUndoWorkerAgain
   <2> QED BY <2>3, <2>5, <2>6, <2>7 DEF LauncherOK
<1>10. LauncherScan \/ UndoLauncherGetRequest => UNCHANGED rollback_request
   BY Zenon DEF LauncherScan, UndoLauncherGetRequest
<1>11. StartUndoWorkerDone \/ StartUndoWorkerGivesUp => launcher' = Idle
   BY Zenon DEF StartUndoWorkerDone, StartUndoWorkerGivesUp
<1>12. UNCHANGED launcher /\ ~(UNCHANGED rollback_request) => WriteMailbox
   BY <1>2, Zenon
<1> QED BY <1>2, <1>3, <1>4, <1>5, <1>6, <1>7, <1>8, <1>9, <1>10, <1>11, <1>12, Writers, Zenon
        DEF Launcher

\* The mailbox, once written, holds a copy whose parts are served.
LEMMA MailboxStep ==
    ASSUME IndInv, [Next]_vars
    PROVE  \E q \in Work :
              /\ rollback_request' = q /\ (q # NoWork => Served(q.key) /\ Served(q.slot))
              /\ rollback_request # NoWork => q # NoWork
<1>0. ControlOK /\ ServedInv
   BY TypeHalves, Zenon DEF IndInv
<1>1. CASE UNCHANGED rollback_request
   BY <1>0, <1>1, Zenon DEF ControlOK, ServedInv, WorkServed
<1>2. CASE WriteMailbox
   <2>1. launcher.pc = "mail" /\ rollback_request' = launcher.request
      BY <1>2, Zenon DEF WriteMailbox
   <2>2. launcher.request \in Work /\ Served(launcher.request.key) /\ Served(launcher.request.slot)
      BY <2>1, LauncherNow DEF LauncherOK
   <2>3. launcher.request # NoWork
      BY <2>2, UndoRollbackAssumption DEF Served, NoWork, Whole
   <2> QED BY <2>1, <2>2, <2>3, Zenon
<1> QED BY <1>1, <1>2, Writers, Zenon

\* A process that has seen that there is nothing to do, or has done it, works
\* on a request that is settled.
LEMMA DoneStep ==
    ASSUME IndInv, [Next]_vars, NEW q \in Procs, proc'[q].pc \in {"absent", "remove"}
    PROVE  proc'[q].undowork.key \in Settled'
<1>0. Settled \subseteq Settled' /\ ProcsOK
   BY FlagStep, TypeHalves, Zenon DEF IndInv, ControlOK, ProcsOK
<1>1. CASE proc'[q] = proc[q]
   BY <1>0, <1>1, Zenon DEF IndInv, ServedInv
<1>2. CASE Moves(q) /\ proc'[q].undowork = proc[q].undowork
   <2> DEFINE r == proc[q].undowork.key
   <2>0. proc[q].pc \notin {"none", "started"}
      BY <1>0, <1>2, MoveStep
   <2>1. ASSUME NEW x \in Steps, Goto(q, x) PROVE x \in {"absent", "remove"}
      BY <1>0, <2>1, GotoStep, Zenon DEF ProcsOK
   <2>2. ~Goto(q, "mark") /\ ~Goto(q, "exit") /\ ~Goto(q, "fail") /\ ~Goto(q, "free")
         /\ ~Goto(q, "perform")
      BY <2>1 DEF Steps
   <2>3. CASE MarkInProgress(q)
      <3>1. Goto(q, IF Cells(r) # {} THEN "perform" ELSE "absent")
         BY <2>3, Zenon DEF MarkInProgress
      <3>2. Cells(r) = {}
         BY <2>2, <3>1, Zenon DEF Goto
      <3>3. r \in Settled
         BY <2>0, <3>2, ProcServed, Zenon DEF Served
      <3> QED BY <1>0, <1>2, <3>3, Zenon
   <2>4. CASE execute_undo_actions(q)
      <3>1. /\ rolledback' = rolledback \cup {proc[q].undowork.slot}
            /\ proc[q].undowork = Whole(proc[q].undowork.slot)
         BY <2>2, <2>4, Zenon DEF execute_undo_actions
      <3>2. r = proc[q].undowork.slot
         BY <3>1 DEF Whole
      <3> QED BY <1>2, <3>1, <3>2, Zenon DEF Settled
   <2>5. CASE execute_mixed_undo_actions(q)
      <3>1. proc[q].pc = "perform" /\ r # proc[q].undowork.slot
         BY <2>5, Zenon DEF execute_mixed_undo_actions
      <3>2. r \in Settled
         BY <3>1 DEF IndInv, ServedInv, Known, Settled
      <3> QED BY <1>0, <1>2, <3>2, Zenon
   <2>6. CASE FlagAbsent(q)
      <3>1. proc[q].pc = "absent"
         BY <2>6, Zenon DEF FlagAbsent
      <3>2. r \in Settled
         BY <3>1 DEF IndInv, ServedInv
      <3> QED BY <1>0, <1>2, <3>2, Zenon
   <2> QED BY <1>2, <2>2, <2>3, <2>4, <2>5, <2>6, Zenon
               DEF Moves, ClaimWorker, RemoveRequest, MarkFail, UndoWorkerFreeInfo
<1>3. CASE proc'[q].pc = "started" \/ proc'[q].pc = "copy" \/ proc'[q].pc = "init" \/ proc'[q] = Dead
   BY <1>3 DEF Dead
<1> QED BY <1>1, <1>2, <1>3, ProcCases, Zenon

\* A copy that is put together from two requests is noted when it is made.
LEMMA KnownStep ==
    ASSUME IndInv, [Next]_vars, NEW q \in Procs, proc'[q].pc \notin {"none", "started", "copy"}
    PROVE  Known(proc[q].undowork)'
<1>0. mixed \subseteq mixed' /\ ProcsOK
   BY FlagStep, TypeHalves, Zenon DEF IndInv, ControlOK, ProcsOK
<1>1. ASSUME proc'[q].undowork = proc[q].undowork, proc[q].pc \notin {"none", "started", "copy"}
      PROVE  Known(proc[q].undowork)'
   <2>1. Known(proc[q].undowork)
      BY <1>1, Zenon DEF IndInv, ServedInv
   <2> QED BY <1>0, <1>1, <2>1, Zenon DEF Known
<1>2. CASE proc'[q] = proc[q]
   BY <1>1, <1>2, Zenon
<1>3. CASE Moves(q) /\ proc'[q].undowork = proc[q].undowork
   <2>1. proc[q].pc \notin {"none", "started", "copy"}
      BY <1>0, <1>3, MoveStep
   <2> QED BY <1>1, <1>3, <2>1, Zenon
<1>4. CASE \E w \in Work : /\ proc'[q].undowork = w
                           /\ mixed' = IF w.key = w.slot THEN mixed ELSE mixed \cup {w.key, w.slot}
   <2>1. PICK w \in Work : /\ proc'[q].undowork = w
                           /\ mixed' = IF w.key = w.slot THEN mixed ELSE mixed \cup {w.key, w.slot}
      BY <1>4, Zenon
   <2>2. w.key = w.slot \/ (w.key \in mixed' /\ w.slot \in mixed')
      BY <2>1
   <2> QED BY <2>1, <2>2, Zenon DEF Known
<1>5. ~(proc'[q].pc = "started") /\ ~(proc'[q].pc = "copy") /\ ~(proc'[q] = Dead)
   BY DEF Dead
<1> QED BY <1>2, <1>3, <1>4, <1>5, ProcCases, Zenon

\* Every step keeps the parts of the copy of a process served.
LEMMA WorkStep ==
    ASSUME IndInv, [Next]_vars, NEW q \in Procs, proc'[q].pc \notin {"none", "started"}
    PROVE  WorkServed(proc[q].undowork)'
<1>0. ServedInv /\ ProcsOK
   BY TypeHalves, Zenon DEF IndInv, ControlOK, ProcsOK
<1>1. PICK w : w = proc'[q].undowork
   OBVIOUS
<1>2. ASSUME proc[q].pc \in {"started", "copy"}
      PROVE  Served(rollback_request.key) /\ Served(rollback_request.slot)
   BY <1>0, <1>2, Zenon DEF ServedInv, WorkServed
<1>3. Served(w.key) /\ Served(w.slot)
   <2>1. CASE proc'[q] = proc[q]
      BY <1>1, <2>1, ProcServed, Zenon
   <2>2. CASE proc[q].pc = "started" /\ proc'[q].undowork = rollback_request
      BY <1>1, <1>2, <2>2, Zenon
   <2>3. CASE /\ proc[q].pc = "copy"
              /\ \E v \in Work : /\ proc'[q].undowork = v
                                 /\ v.key \in {proc[q].undowork.key, rollback_request.key}
                                 /\ v.slot \in {proc[q].undowork.slot, rollback_request.slot}
      <3>1. Served(proc[q].undowork.key) /\ Served(proc[q].undowork.slot)
         BY <2>3, ProcServed
      <3>2. /\ w.key \in {proc[q].undowork.key, rollback_request.key}
            /\ w.slot \in {proc[q].undowork.slot, rollback_request.slot}
         BY <1>1, <2>3, Zenon
      <3> QED BY <1>2, <2>3, <3>1, <3>2, Zenon
   <2>4. CASE Moves(q) /\ proc'[q].undowork = proc[q].undowork
      <3>1. proc[q].pc \notin {"none", "started"}
         BY <1>0, <2>4, MoveStep
      <3> QED BY <1>1, <2>4, <3>1, ProcServed, Zenon
   <2>5. ~(proc'[q] = Dead) /\ ~(proc'[q].pc = "started")
      BY DEF Dead
   <2> QED BY <2>1, <2>2, <2>3, <2>4, <2>5, ProcCases, Zenon
<1>4. Served(w.key)' /\ Served(w.slot)'
   BY <1>3, HashNext, Zenon DEF Served
<1> QED BY <1>1, <1>4, Zenon DEF WorkServed, Served, Cells, Settled

\* A process is started only after the mailbox was written.
LEMMA StartedStep ==
    ASSUME IndInv, [Next]_vars, NEW q \in Procs, proc'[q].pc \in {"started", "copy"}
    PROVE  rollback_request' # NoWork
<1>0. ServedInv
   BY Zenon DEF IndInv
<1>1. ASSUME rollback_request # NoWork PROVE rollback_request' # NoWork
   BY <1>1, MailboxStep, Zenon
<1>2. CASE proc'[q] = proc[q]
   BY <1>0, <1>1, <1>2, Zenon DEF ServedInv
<1>3. CASE StartUndoWorkerByIdx \/ StartUndoWorkerAgain
   <2>1. launcher.pc \in {"start", "wait"}
      BY <1>3, Zenon DEF StartUndoWorkerByIdx, StartUndoWorkerAgain
   <2> QED BY <1>0, <1>1, <2>1, Zenon DEF ServedInv
<1>4. CASE proc[q].pc = "started"
   BY <1>0, <1>1, <1>4, Zenon DEF ServedInv
<1>5. /\ ~(proc'[q].pc = "init") /\ ~(proc'[q] = Dead)
      /\ proc'[q].pc \notin {"mark", "perform", "absent", "remove", "fail", "exit", "free"}
   BY DEF Dead
<1> QED BY <1>2, <1>3, <1>4, <1>5, ProcCases, Zenon

\* Every step keeps ServedInv.
LEMMA ServedStep ==
    ASSUME IndInv, [Next]_vars
    PROVE  ServedInv'
<1>0. ServedInv
   BY Zenon DEF IndInv
<1>1. ASSUME NEW e \in Elements, elem'[e].req # NoRequest
      PROVE  Served(elem[e].req)'
   <2>1. PICK r : r = elem'[e].req
      OBVIOUS
   <2>2. Served(r)'
      <3>1. CASE r = elem[e].req
         <4>1. Served(r) /\ r \in Requests
            BY <1>0, <1>1, <2>1, <3>1, Zenon DEF ServedInv, Served
         <4> QED BY <4>1, HashNext, Zenon
      <3>2. CASE r # elem[e].req
         BY <2>1, <3>2, HashNext, Zenon
      <3> QED BY <3>1, <3>2
   <2> QED BY <2>1, <2>2, Zenon DEF Served, Cells, Settled
<1>2. (rollback_request # NoWork => WorkServed(rollback_request))'
   <2>1. PICK q \in Work : rollback_request' = q /\ (q # NoWork => Served(q.key) /\ Served(q.slot))
      BY MailboxStep, Zenon
   <2>2. q # NoWork => Served(q.key)' /\ Served(q.slot)'
      BY <2>1, HashNext, Zenon DEF Served
   <2> QED BY <2>1, <2>2, Zenon DEF WorkServed, Served, Cells, Settled
<1>3. ASSUME launcher'.pc \in {"copy", "mail", "start"}
      PROVE  WorkServed(launcher.request)'
   <2>1. PICK q \in Work : launcher'.request = q /\ Served(q.key) /\ Served(q.slot)
      BY <1>3, LauncherStep, Zenon DEF LauncherOK
   <2>2. Served(q.key)' /\ Served(q.slot)'
      BY <2>1, HashNext, Zenon DEF Served
   <2> QED BY <2>1, <2>2, Zenon DEF WorkServed, Served, Cells, Settled
<1>4. ASSUME launcher'.pc \in {"entry", "copy"}
      PROVE  launcher'.entry \in Elements /\ elem'[launcher'.entry].req # NoRequest
   <2>1. PICK e \in Elements : e = launcher'.entry /\ elem[e].req # NoRequest
      BY <1>4, LauncherStep, Zenon DEF LauncherOK
   <2>2. elem'[e].req # NoRequest
      BY <2>1, HashNext, UndoRollbackAssumption, Zenon
   <2> QED BY <2>1, <2>2, Zenon
<1>5. launcher'.pc \in {"start", "wait"} => rollback_request' # NoWork
   BY LauncherStep, Zenon DEF LauncherOK
<1>6. finished' \subseteq Settled'
   BY FlagStep
<1> QED BY <1>1, <1>2, <1>3, <1>4, <1>5, <1>6, WorkStep, KnownStep, DoneStep, StartedStep, Zenon
        DEF ServedInv

-----------------------------------------------------------------------------
(* Worker slots and marks are given back                                   *)

\* What a worker slot holds while nobody writes it.
SlotTaken(i) ==
    /\ undo_workers[i].xid = 0 /\ undo_workers'[i].xid # 0
    /\ undo_workers'[i].pid = undo_workers[i].pid
    /\ launcher'.pc = "wait" /\ launcher'.idx = i
SlotGivenUp(i) ==
    /\ undo_workers[i].pid = NoProc
    /\ undo_workers'[i].pid = NoProc /\ undo_workers'[i].xid = 0
SlotClaimed(i, p) ==
    /\ ClaimWorker(p) /\ undo_workers'[i].pid = p
    /\ undo_workers'[i].xid = undo_workers[i].xid /\ undo_workers[i].xid # 0
SlotFreed(i, p) ==
    UndoWorkerFreeInfo(p) /\ undo_workers[i].pid = p /\ undo_workers'[i] = FreeWorker

\* Writing one field of one worker slot.
LEMMA SlotWrite ==
    ASSUME undo_workers \in [Workers -> WorkerInfo], NEW i \in Workers
    PROVE  /\ \A x \in Nat : undo_workers' = [undo_workers EXCEPT ![i].xid = x] =>
                 /\ undo_workers' \in [Workers -> WorkerInfo]
                 /\ undo_workers'[i].xid = x /\ undo_workers'[i].pid = undo_workers[i].pid
                 /\ \A j \in Workers : j # i => undo_workers'[j] = undo_workers[j]
           /\ \A p \in Procs : undo_workers' = [undo_workers EXCEPT ![i].pid = p] =>
                 /\ undo_workers' \in [Workers -> WorkerInfo]
                 /\ undo_workers'[i].pid = p /\ undo_workers'[i].xid = undo_workers[i].xid
                 /\ \A j \in Workers : j # i => undo_workers'[j] = undo_workers[j]
<1>0. undo_workers[i] \in WorkerInfo
   OBVIOUS
<1>1. ASSUME NEW x \in Nat, undo_workers' = [undo_workers EXCEPT ![i].xid = x]
      PROVE  /\ undo_workers' \in [Workers -> WorkerInfo]
             /\ undo_workers'[i].xid = x /\ undo_workers'[i].pid = undo_workers[i].pid
             /\ \A j \in Workers : j # i => undo_workers'[j] = undo_workers[j]
   <2> DEFINE new == [undo_workers[i] EXCEPT !.xid = x]
   <2>1. new \in WorkerInfo /\ new.xid = x /\ new.pid = undo_workers[i].pid
      BY <1>0, ZenonT(30) DEF WorkerInfo
   <2>2. undo_workers' = [undo_workers EXCEPT ![i] = new]
      BY <1>1, Zenon
   <2> HIDE DEF new
   <2>3. undo_workers' \in [Workers -> WorkerInfo] /\ undo_workers'[i] = new
         /\ \A j \in Workers : j # i => undo_workers'[j] = undo_workers[j]
      BY <2>1, <2>2, Zenon
   <2> QED BY <2>1, <2>3, Zenon
<1>2. ASSUME NEW p \in Procs, undo_workers' = [undo_workers EXCEPT ![i].pid = p]
      PROVE  /\ undo_workers' \in [Workers -> WorkerInfo]
             /\ undo_workers'[i].pid = p /\ undo_workers'[i].xid = undo_workers[i].xid
             /\ \A j \in Workers : j # i => undo_workers'[j] = undo_workers[j]
   <2> DEFINE new == [undo_workers[i] EXCEPT !.pid = p]
   <2>1. new \in WorkerInfo /\ new.pid = p /\ new.xid = undo_workers[i].xid
      BY <1>0, ZenonT(30) DEF WorkerInfo
   <2>2. undo_workers' = [undo_workers EXCEPT ![i] = new]
      BY <1>2, Zenon
   <2> HIDE DEF new
   <2>3. undo_workers' \in [Workers -> WorkerInfo] /\ undo_workers'[i] = new
         /\ \A j \in Workers : j # i => undo_workers'[j] = undo_workers[j]
      BY <2>1, <2>2, Zenon
   <2> QED BY <2>1, <2>3, Zenon
<1> QED BY <1>1, <1>2, Zenon

\* A step changes at most one worker slot, in one of four ways.
LEMMA SlotCases ==
    ASSUME IndInv, [Next]_vars
    PROVE  /\ undo_workers' \in [Workers -> WorkerInfo]
           /\ \/ UNCHANGED undo_workers
              \/ \E i \in Workers :
                    /\ \A j \in Workers : j # i => undo_workers'[j] = undo_workers[j]
                    /\ \/ SlotTaken(i) \/ SlotGivenUp(i)
                       \/ \E p \in Procs : SlotClaimed(i, p) \/ SlotFreed(i, p)
<1>0. HashOK /\ ControlOK /\ ServedInv /\ HeldInv
   BY TypeHalves, Zenon DEF IndInv
<1>1. undo_workers \in [Workers -> WorkerInfo]
   BY <1>0 DEF ControlOK
<1>2. CASE UNCHANGED undo_workers
   BY <1>1, <1>2
<1>3. CASE StartUndoWorkerByIdx
   <2>1. /\ launcher.pc = "start" /\ launcher' = [launcher EXCEPT !.pc = "wait", !.request = NoWork, !.starts = 1]
         /\ undo_workers' = [undo_workers EXCEPT ![launcher.idx].xid = Xid[launcher.request.key]]
      BY <1>3, Zenon DEF StartUndoWorkerByIdx
   <2>2. PICK i \in Workers : i = launcher.idx /\ undo_workers[i].xid = 0
      BY <1>0, <2>1 DEF HeldInv
   <2>3. launcher.request.key \in Requests
      BY <1>0, <2>1 DEF ServedInv, WorkServed, Served
   <2>4. PICK x \in Nat : x = Xid[launcher.request.key] /\ x # 0
      BY <2>3, UndoRollbackAssumption
   <2>5. undo_workers' = [undo_workers EXCEPT ![i].xid = x]
      BY <2>1, <2>2, <2>4, Zenon
   <2>6. /\ undo_workers' \in [Workers -> WorkerInfo]
         /\ undo_workers'[i].xid = x /\ undo_workers'[i].pid = undo_workers[i].pid
         /\ \A j \in Workers : j # i => undo_workers'[j] = undo_workers[j]
      BY <1>1, <2>2, <2>5, SlotWrite, Zenon
   <2>7. launcher'.pc = "wait" /\ launcher'.idx = i
      BY <1>0, <2>1, <2>2 DEF ControlOK, LauncherInfo
   <2>8. SlotTaken(i)
      BY <2>2, <2>4, <2>6, <2>7, Zenon DEF SlotTaken
   <2> QED BY <2>2, <2>6, <2>8, Zenon
<1>4. CASE StartUndoWorkerGivesUp
   <2>1. /\ launcher.pc = "wait" /\ undo_workers[launcher.idx].pid = NoProc
         /\ undo_workers' = [undo_workers EXCEPT ![launcher.idx].xid = 0]
      BY <1>4, Zenon DEF StartUndoWorkerGivesUp
   <2>2. PICK i \in Workers : i = launcher.idx
      BY <1>0, <2>1 DEF HeldInv
   <2>3. 0 \in Nat /\ undo_workers' = [undo_workers EXCEPT ![i].xid = 0]
      BY <2>1, <2>2, Zenon
   <2>4. /\ undo_workers' \in [Workers -> WorkerInfo]
         /\ undo_workers'[i].xid = 0 /\ undo_workers'[i].pid = undo_workers[i].pid
         /\ \A j \in Workers : j # i => undo_workers'[j] = undo_workers[j]
      BY <1>1, <2>3, SlotWrite, Zenon
   <2>5. SlotGivenUp(i)
      BY <2>1, <2>2, <2>4, Zenon DEF SlotGivenUp
   <2> QED BY <2>4, <2>5, Zenon
<1>5. ASSUME NEW p \in Procs, ClaimWorker(p), ~(UNCHANGED undo_workers)
      PROVE  /\ undo_workers' \in [Workers -> WorkerInfo]
             /\ \E i \in Workers :
                   /\ \A j \in Workers : j # i => undo_workers'[j] = undo_workers[j]
                   /\ SlotClaimed(i, p)
   <2> DEFINE mine == {i \in Workers : undo_workers[i].xid = Xid[proc[p].undowork.key]}
   <2>1. /\ proc[p].pc = "init" /\ mine # {}
         /\ undo_workers' = [undo_workers EXCEPT ![CHOOSE x \in mine : \A y \in mine : x <= y].pid = p]
      BY <1>5, Zenon DEF ClaimWorker
   <2>2. mine \subseteq Workers
      BY Zenon
   <2>3. PICK i \in mine : i = CHOOSE x \in mine : \A y \in mine : x <= y
      BY <2>1, <2>2, IdleChosen, Zenon
   <2>4. i \in Workers /\ undo_workers[i].xid = Xid[proc[p].undowork.key]
      BY <2>3, Zenon
   <2>5. undo_workers' = [undo_workers EXCEPT ![i].pid = p]
      BY <2>1, <2>3, Zenon
   <2>6. proc[p].undowork.key \in Requests
      <3>1. proc[p].pc \notin {"none", "started"}
         BY <2>1, Zenon
      <3> QED BY <3>1, ProcServed, Zenon
   <2>7. undo_workers[i].xid # 0
      BY <2>4, <2>6, UndoRollbackAssumption
   <2>8. /\ undo_workers' \in [Workers -> WorkerInfo]
         /\ undo_workers'[i].pid = p /\ undo_workers'[i].xid = undo_workers[i].xid
         /\ \A j \in Workers : j # i => undo_workers'[j] = undo_workers[j]
      BY <1>1, <2>4, <2>5, SlotWrite, Zenon
   <2>9. SlotClaimed(i, p)
      BY <1>5, <2>7, <2>8, Zenon DEF SlotClaimed
   <2> QED BY <2>4, <2>8, <2>9, Zenon
<1>6. ASSUME NEW p \in Procs, UndoWorkerFreeInfo(p), ~(UNCHANGED undo_workers)
      PROVE  /\ undo_workers' \in [Workers -> WorkerInfo]
             /\ \E i \in Workers :
                   /\ \A j \in Workers : j # i => undo_workers'[j] = undo_workers[j]
                   /\ SlotFreed(i, p)
   <2> DEFINE mine == {i \in Workers : undo_workers[i].pid = p}
   <2>1. /\ mine # {}
         /\ undo_workers' = [undo_workers EXCEPT ![CHOOSE x \in mine : \A y \in mine : x <= y] = FreeWorker]
      BY <1>6, Zenon DEF UndoWorkerFreeInfo
   <2>2. mine \subseteq Workers
      BY Zenon
   <2>3. PICK i \in mine : i = CHOOSE x \in mine : \A y \in mine : x <= y
      BY <2>1, <2>2, IdleChosen, Zenon
   <2>4. i \in Workers /\ undo_workers[i].pid = p
      BY <2>3, Zenon
   <2>5. undo_workers' = [undo_workers EXCEPT ![i] = FreeWorker] /\ FreeWorker \in WorkerInfo
      BY <2>1, <2>3 DEF FreeWorker, WorkerInfo
   <2>6. /\ undo_workers' \in [Workers -> WorkerInfo] /\ undo_workers'[i] = FreeWorker
         /\ \A j \in Workers : j # i => undo_workers'[j] = undo_workers[j]
      BY <1>1, <2>4, <2>5, Zenon
   <2>7. SlotFreed(i, p)
      BY <1>6, <2>4, <2>6, Zenon DEF SlotFreed
   <2> QED BY <2>4, <2>6, <2>7, Zenon
<1>7. CASE LauncherRestarts /\ ~(UNCHANGED undo_workers)
   <2> DEFINE unclaimed == {i \in Workers : undo_workers[i].pid = NoProc}
   <2>1. /\ unclaimed # {}
         /\ undo_workers' =
               [undo_workers EXCEPT ![CHOOSE x \in unclaimed : \A y \in unclaimed : x <= y] = FreeWorker]
      BY <1>7, Zenon DEF LauncherRestarts
   <2>2. unclaimed \subseteq Workers
      BY Zenon
   <2>3. PICK i \in unclaimed : i = CHOOSE x \in unclaimed : \A y \in unclaimed : x <= y
      BY <2>1, <2>2, IdleChosen, Zenon
   <2>4. i \in Workers /\ undo_workers[i].pid = NoProc
      BY <2>3, Zenon
   <2>5. undo_workers' = [undo_workers EXCEPT ![i] = FreeWorker] /\ FreeWorker \in WorkerInfo
      BY <2>1, <2>3 DEF FreeWorker, WorkerInfo
   <2>6. /\ undo_workers' \in [Workers -> WorkerInfo] /\ undo_workers'[i] = FreeWorker
         /\ \A j \in Workers : j # i => undo_workers'[j] = undo_workers[j]
      BY <1>1, <2>4, <2>5, Zenon
   <2>7. FreeWorker.pid = NoProc /\ FreeWorker.xid = 0
      BY DEF FreeWorker
   <2>8. SlotGivenUp(i)
      BY <2>4, <2>6, <2>7, Zenon DEF SlotGivenUp
   <2> QED BY <2>4, <2>6, <2>8, Zenon
<1>8. UNCHANGED undo_workers \/ SlotWriter
   BY Writers, Zenon
<1> QED BY <1>2, <1>3, <1>4, <1>5, <1>6, <1>7, <1>8, Zenon DEF SlotWriter

HeldPcs == {"mark", "perform", "absent", "remove", "fail", "exit"}
WorkPcs == {"perform", "absent", "remove", "fail", "exit", "free"}

\* The launcher waits at a slot it has taken until somebody writes the slot.
LEMMA LauncherKeeps ==
    ASSUME IndInv, [Next]_vars, launcher.pc = "wait",
           undo_workers[launcher.idx].xid # 0, undo_workers[launcher.idx].pid = NoProc,
           undo_workers'[launcher.idx] = undo_workers[launcher.idx]
    PROVE  launcher'.pc = "wait" /\ launcher'.idx = launcher.idx
<1>0. ControlOK /\ HeldInv
   BY TypeHalves, Zenon DEF IndInv
<1>1. launcher \in LauncherInfo
   BY <1>0, Zenon DEF ControlOK
<1>2. CASE UNCHANGED launcher
   BY <1>2
<1>3. CASE \/ LauncherScan \/ UndoLauncherGetRequest \/ CopyEntry \/ WriteMailbox
           \/ StartUndoWorkerByIdx
   <2>1. launcher.pc \in {"loop", "entry", "copy", "mail", "start"}
      BY <1>3, Zenon DEF LauncherScan, UndoLauncherGetRequest, CopyEntry, WriteMailbox,
                         StartUndoWorkerByIdx
   <2> QED BY <2>1
<1>4. ~StartUndoWorkerDone
   BY Zenon DEF StartUndoWorkerDone
<1>5. ~StartUndoWorkerGivesUp
   <2>1. ASSUME StartUndoWorkerGivesUp PROVE FALSE
      <3>1. undo_workers' = [undo_workers EXCEPT ![launcher.idx].xid = 0]
         BY <2>1, Zenon DEF StartUndoWorkerGivesUp
      <3>2. PICK i \in Workers : i = launcher.idx
         BY <1>0 DEF HeldInv
      <3>3. undo_workers' = [undo_workers EXCEPT ![i].xid = 0] /\ 0 \in Nat
            /\ undo_workers \in [Workers -> WorkerInfo]
         BY <1>0, <3>1, <3>2, Zenon DEF ControlOK
      <3>4. undo_workers'[i].xid = 0
         BY <3>3, SlotWrite, Zenon
      <3> QED BY <3>2, <3>4, Zenon
   <2> QED BY <2>1
<1>6. CASE StartUndoWorkerAgain
   <2>1. launcher' = [launcher EXCEPT !.starts = 2]
      BY <1>6, Zenon DEF StartUndoWorkerAgain
   <2> QED BY <1>1, <2>1 DEF LauncherInfo
<1>7. UNCHANGED launcher \/ Launcher
   BY Writers, Zenon
<1> QED BY <1>2, <1>3, <1>4, <1>5, <1>6, <1>7, Zenon DEF Launcher

\* A process that holds a worker slot goes on holding it until it frees it.
LEMMA HolderStays ==
    ASSUME IndInv, [Next]_vars, NEW q \in Procs, proc[q].pc \in HeldPcs,
           ~UndoWorkerFreeInfo(q)
    PROVE  proc'[q].pc \in HeldPcs
<1>0. ProcsOK
   BY TypeHalves, Zenon DEF IndInv, ControlOK, ProcsOK
<1>1. proc[q].pc \notin {"none", "started", "copy", "init", "free"}
   BY DEF HeldPcs
<1>2. CASE proc'[q] = proc[q]
   BY <1>2
<1>3. CASE Moves(q) /\ proc'[q].pc \in {"mark", "perform", "absent", "remove", "fail", "exit", "free"}
   <2>1. ASSUME NEW x \in Steps, Goto(q, x) PROVE proc'[q].pc = x
      BY <1>0, <2>1, GotoStep, Zenon DEF ProcsOK
   <2>2. proc'[q].pc # "free"
      <3>1. CASE MarkInProgress(q)
         <4>1. Goto(q, "perform") \/ Goto(q, "absent")
            BY <3>1, Zenon DEF MarkInProgress, Goto
         <4> QED BY <2>1, <4>1 DEF Steps
      <3>2. CASE ~MarkInProgress(q)
         <4>1. Goto(q, "mark") \/ Goto(q, "remove") \/ Goto(q, "fail") \/ Goto(q, "exit")
            BY <1>3, <3>2, Zenon DEF Moves, ClaimWorker, execute_undo_actions,
                                     execute_mixed_undo_actions, FlagAbsent, RemoveRequest, MarkFail
         <4> QED BY <2>1, <4>1 DEF Steps
      <3> QED BY <3>1, <3>2
   <2> QED BY <1>3, <2>2 DEF HeldPcs
<1>4. CASE proc[q] = Dead
   BY <1>1, <1>4 DEF Dead
<1>5. CASE \/ UndoWorkerStarts(q) \/ UndoWorkerGetRequest(q) \/ InitPostgresFails(q)
           \/ UndoWorkerFreeRequest(q)
   <2>1. proc[q].pc \in {"started", "copy", "init", "free"}
      BY <1>5, Zenon DEF UndoWorkerStarts, UndoWorkerGetRequest, InitPostgresFails, UndoWorkerFreeRequest
   <2> QED BY <1>1, <2>1
<1> QED BY <1>2, <1>3, <1>4, <1>5, ProcCases, Zenon

\* A process that has marked its request works on it until it has given the
\* mark back.
LEMMA WorkerStays ==
    ASSUME IndInv, [Next]_vars, NEW q \in Procs, proc[q].pc \in WorkPcs,
           ~UndoWorkerFreeRequest(q)
    PROVE  proc'[q].pc \in WorkPcs /\ proc'[q].undowork = proc[q].undowork
<1>0. ProcsOK
   BY TypeHalves, Zenon DEF IndInv, ControlOK, ProcsOK
<1>1. proc[q].pc \notin {"none", "started", "copy", "init", "mark"}
   BY DEF WorkPcs
<1>2. CASE proc'[q] = proc[q]
   BY <1>2
<1>3. CASE Moves(q) /\ proc'[q].pc \in {"mark", "perform", "absent", "remove", "fail", "exit", "free"}
   <2>1. ASSUME NEW x \in Steps, Goto(q, x)
         PROVE  proc'[q].pc = x /\ proc'[q].undowork = proc[q].undowork
      BY <1>0, <2>1, GotoStep, Zenon DEF ProcsOK
   <2>2. Goto(q, "remove") \/ Goto(q, "fail") \/ Goto(q, "exit") \/ Goto(q, "free")
      <3>1. ~ClaimWorker(q) /\ ~MarkInProgress(q)
         BY <1>1, Zenon DEF ClaimWorker, MarkInProgress
      <3> QED BY <1>3, <3>1, Zenon DEF Moves, execute_undo_actions, execute_mixed_undo_actions,
                                       FlagAbsent, RemoveRequest, MarkFail, UndoWorkerFreeInfo
   <2> QED BY <2>1, <2>2 DEF WorkPcs, Steps
<1>4. CASE proc[q] = Dead
   BY <1>1, <1>4 DEF Dead
<1>5. CASE UndoWorkerStarts(q) \/ UndoWorkerGetRequest(q) \/ InitPostgresFails(q)
   <2>1. proc[q].pc \in {"started", "copy", "init"}
      BY <1>5, Zenon DEF UndoWorkerStarts, UndoWorkerGetRequest, InitPostgresFails
   <2> QED BY <1>1, <2>1
<1> QED BY <1>2, <1>3, <1>4, <1>5, ProcCases, Zenon

\* Every step keeps what HeldInv says of the worker slots.
LEMMA SlotsHeldStep ==
    ASSUME IndInv, [Next]_vars
    PROVE  /\ \A i \in Workers : undo_workers'[i].xid # 0 /\ undo_workers'[i].pid = NoProc =>
                  launcher'.pc = "wait" /\ launcher'.idx = i
           /\ \A i \in Workers : undo_workers'[i].pid # NoProc =>
                  undo_workers'[i].xid # 0 /\ proc'[undo_workers'[i].pid].pc \in HeldPcs
           /\ \A i, j \in Workers : undo_workers'[i].pid = undo_workers'[j].pid
                                    /\ undo_workers'[i].pid # NoProc => i = j
<1>0. ControlOK /\ HeldInv
   BY TypeHalves, Zenon DEF IndInv
<1>1. /\ \A i \in Workers : undo_workers[i].xid # 0 /\ undo_workers[i].pid = NoProc =>
             launcher.pc = "wait" /\ launcher.idx = i
      /\ \A i \in Workers : undo_workers[i].pid # NoProc =>
             undo_workers[i].xid # 0 /\ proc[undo_workers[i].pid].pc \in HeldPcs
      /\ \A i, j \in Workers : undo_workers[i].pid = undo_workers[j].pid
                               /\ undo_workers[i].pid # NoProc => i = j
   BY <1>0, Zenon DEF HeldInv, HeldPcs
<1>2. \A i \in Workers : undo_workers[i].pid \in Procs \cup {NoProc}
   BY <1>0 DEF ControlOK, WorkerInfo
\* A slot nobody writes stays as it was, and so does its holder.
<1>3. ASSUME NEW i \in Workers, undo_workers'[i] = undo_workers[i]
      PROVE  /\ undo_workers'[i].xid # 0 /\ undo_workers'[i].pid = NoProc =>
                    launcher'.pc = "wait" /\ launcher'.idx = i
             /\ undo_workers'[i].pid # NoProc => undo_workers'[i].xid # 0
   BY <1>1, <1>3, LauncherKeeps, Zenon
<1>4. ASSUME NEW i \in Workers, NEW q \in Procs, undo_workers[i].pid = q,
             undo_workers'[i] = undo_workers[i]
      PROVE  proc'[q].pc \in HeldPcs
   <2>1. proc[q].pc \in HeldPcs
      BY <1>1, <1>4, UndoRollbackAssumption, Zenon
   <2>2. ~UndoWorkerFreeInfo(q)
      <3> SUFFICES ASSUME UndoWorkerFreeInfo(q) PROVE FALSE
         OBVIOUS
      <3> DEFINE mine == {j \in Workers : undo_workers[j].pid = q}
      <3>1. i \in mine /\ \A j \in mine : j = i
         BY <1>1, <1>4, UndoRollbackAssumption, Zenon
      <3>2. (CHOOSE x \in mine : \A y \in mine : x <= y) \in mine
         BY <3>1, IdleChosen, Zenon
      <3>3. undo_workers' = [undo_workers EXCEPT ![i] = FreeWorker]
         BY <3>1, <3>2, Zenon DEF UndoWorkerFreeInfo
      <3>4. undo_workers'[i] = FreeWorker
         BY <1>0, <3>3, Zenon DEF ControlOK
      <3>5. FreeWorker.pid = NoProc
         BY DEF FreeWorker
      <3> QED BY <1>4, <3>4, <3>5, UndoRollbackAssumption, Zenon
   <2> QED BY <2>1, <2>2, HolderStays, Zenon
<1>5. CASE UNCHANGED undo_workers
   BY <1>1, <1>2, <1>3, <1>4, <1>5, Zenon
<1>6. ASSUME NEW i \in Workers, \A j \in Workers : j # i => undo_workers'[j] = undo_workers[j],
             undo_workers'[i].xid # 0 /\ undo_workers'[i].pid = NoProc =>
                 launcher'.pc = "wait" /\ launcher'.idx = i,
             undo_workers'[i].pid # NoProc =>
                 /\ undo_workers'[i].xid # 0 /\ proc'[undo_workers'[i].pid].pc \in HeldPcs
                 /\ \A j \in Workers : undo_workers[j].pid # undo_workers'[i].pid
      PROVE  /\ \A k \in Workers : undo_workers'[k].xid # 0 /\ undo_workers'[k].pid = NoProc =>
                    launcher'.pc = "wait" /\ launcher'.idx = k
             /\ \A k \in Workers : undo_workers'[k].pid # NoProc =>
                    undo_workers'[k].xid # 0 /\ proc'[undo_workers'[k].pid].pc \in HeldPcs
             /\ \A k, j \in Workers : undo_workers'[k].pid = undo_workers'[j].pid
                                      /\ undo_workers'[k].pid # NoProc => k = j
   <2>1. ASSUME NEW k \in Workers, undo_workers'[k].xid # 0 /\ undo_workers'[k].pid = NoProc
         PROVE  launcher'.pc = "wait" /\ launcher'.idx = k
      BY <1>3, <1>6, <2>1, Zenon
   <2>2. ASSUME NEW k \in Workers, undo_workers'[k].pid # NoProc
         PROVE  undo_workers'[k].xid # 0 /\ proc'[undo_workers'[k].pid].pc \in HeldPcs
      <3>1. CASE k = i
         BY <1>6, <2>2, <3>1, Zenon
      <3>2. CASE k # i
         <4>1. undo_workers'[k] = undo_workers[k]
            BY <1>6, <3>2, Zenon
         <4>2. PICK q \in Procs : q = undo_workers[k].pid
            BY <1>2, <2>2, <4>1, Zenon
         <4>3. proc'[q].pc \in HeldPcs
            BY <1>4, <4>1, <4>2, Zenon
         <4> QED BY <1>3, <2>2, <4>1, <4>2, <4>3, Zenon
      <3> QED BY <3>1, <3>2
   <2>3. ASSUME NEW k \in Workers, NEW j \in Workers,
                undo_workers'[k].pid = undo_workers'[j].pid, undo_workers'[k].pid # NoProc
         PROVE  k = j
      <3>1. CASE k # i /\ j # i
         <4>1. undo_workers'[k] = undo_workers[k] /\ undo_workers'[j] = undo_workers[j]
            BY <1>6, <3>1, Zenon
         <4> QED BY <1>1, <2>3, <4>1, Zenon
      <3>2. CASE k = i \/ j = i
         BY <1>6, <2>3, <3>2, Zenon
      <3> QED BY <3>1, <3>2
   <2> QED BY <2>1, <2>2, <2>3, Zenon
<1>7. ASSUME NEW i \in Workers, \A j \in Workers : j # i => undo_workers'[j] = undo_workers[j],
             SlotTaken(i)
      PROVE  undo_workers'[i].pid = NoProc /\ launcher'.pc = "wait" /\ launcher'.idx = i
   BY <1>1, <1>7, Zenon DEF SlotTaken
<1>8. ASSUME NEW i \in Workers, NEW p \in Procs, SlotClaimed(i, p)
      PROVE  /\ undo_workers'[i].pid = p /\ undo_workers'[i].xid # 0 /\ proc'[p].pc \in HeldPcs
             /\ \A j \in Workers : undo_workers[j].pid # p
   <2>1. proc[p].pc = "init" /\ Goto(p, "mark")
      BY <1>8, Zenon DEF SlotClaimed, ClaimWorker
   <2>2. proc'[p].pc = "mark"
      BY <1>0, <2>1, GotoStep DEF ControlOK, Steps
   <2>3. proc[p].pc \notin HeldPcs /\ proc'[p].pc \in HeldPcs /\ p # NoProc
      BY <2>1, <2>2, UndoRollbackAssumption DEF HeldPcs
   <2> QED BY <1>1, <1>8, <2>3, Zenon DEF SlotClaimed
<1>9. ASSUME NEW i \in Workers, NEW p \in Procs, SlotFreed(i, p)
      PROVE  undo_workers'[i].pid = NoProc /\ undo_workers'[i].xid = 0
   BY <1>9 DEF SlotFreed, FreeWorker
<1>10. ASSUME NEW i \in Workers, \A j \in Workers : j # i => undo_workers'[j] = undo_workers[j],
              \/ SlotTaken(i) \/ SlotGivenUp(i)
              \/ \E p \in Procs : SlotClaimed(i, p) \/ SlotFreed(i, p)
       PROVE  /\ undo_workers'[i].xid # 0 /\ undo_workers'[i].pid = NoProc =>
                     launcher'.pc = "wait" /\ launcher'.idx = i
              /\ undo_workers'[i].pid # NoProc =>
                     /\ undo_workers'[i].xid # 0 /\ proc'[undo_workers'[i].pid].pc \in HeldPcs
                     /\ \A j \in Workers : undo_workers[j].pid # undo_workers'[i].pid
   <2>1. CASE SlotTaken(i)
      BY <1>7, <1>10, <2>1, Zenon
   <2>2. CASE SlotGivenUp(i)
      BY <2>2, Zenon DEF SlotGivenUp
   <2>3. CASE \E p \in Procs : SlotClaimed(i, p)
      <3>1. PICK p \in Procs : SlotClaimed(i, p)
         BY <2>3, Zenon
      <3>2. p # NoProc
         BY UndoRollbackAssumption
      <3> QED BY <1>8, <3>1, <3>2, Zenon
   <2>4. CASE \E p \in Procs : SlotFreed(i, p)
      BY <1>9, <2>4, Zenon
   <2> QED BY <1>10, <2>1, <2>2, <2>3, <2>4, Zenon
<1> QED BY <1>5, <1>6, <1>10, SlotCases, Zenon

MarkHeld(e) == \E p \in Procs : proc[p].undowork.key = elem[e].req /\ proc[p].pc \in WorkPcs

\* Every step keeps a process at work on every request that is marked: the
\* mark is set by a process that goes on to work, and the process that ends
\* takes it back.
LEMMA MarksHeldStep ==
    ASSUME IndInv, [Next]_vars
    PROVE  (\A e \in InTable : elem[e].in_progress => MarkHeld(e))'
<1>0. HashOK /\ ControlOK
   BY TypeHalves, Zenon DEF IndInv
<1>1. \A e \in InTable : elem[e].in_progress => MarkHeld(e)
   BY Zenon DEF IndInv, HeldInv, MarkHeld, WorkPcs
<1>2. \A e \in InTable : e \in Elements
   BY <1>0, InTableIff, Zenon
\* An entry stays marked: its process is still at work.
<1>3. ASSUME NEW e \in InTable, elem[e].in_progress, elem'[e].req = elem[e].req,
             \A q \in Procs : UndoWorkerFreeRequest(q) => proc[q].undowork.key # elem[e].req
      PROVE  MarkHeld(e)'
   <2>1. PICK q \in Procs : proc[q].undowork.key = elem[e].req /\ proc[q].pc \in WorkPcs
      BY <1>1, <1>3, Zenon DEF MarkHeld
   <2>2. proc'[q].pc \in WorkPcs /\ proc'[q].undowork = proc[q].undowork
      BY <1>3, <2>1, WorkerStays, Zenon
   <2> QED BY <1>3, <2>1, <2>2, Zenon DEF MarkHeld
<1>4. SUFFICES ASSUME NEW e \in InTable', elem'[e].in_progress
               PROVE  MarkHeld(e)'
   BY Zenon
\* A process takes the mark of its request back, or sets it.
<1>5. ASSUME NEW p \in Procs, MarkInProgress(p) \/ MarkFail(p) \/ UndoWorkerFreeRequest(p)
      PROVE  MarkHeld(e)'
   <2>1. PICK r : r = proc[p].undowork.key
      OBVIOUS
   <2>2. PICK b \in BOOLEAN : /\ mark_rollback_progress(r, b) \/ (mark_rollback_fail(r) /\ b = FALSE)
                              /\ MarkInProgress(p) <=> b
      <3>1. CASE MarkInProgress(p)
         BY <2>1, <3>1, Zenon DEF MarkInProgress
      <3>2. CASE ~MarkInProgress(p)
         BY <1>5, <2>1, <3>2, Zenon DEF MarkFail, UndoWorkerFreeRequest
      <3> QED BY <3>1, <3>2, Zenon
   <2>3. /\ InTable' = InTable /\ \A f \in Elements : elem'[f].req = elem[f].req
         /\ \A f \in InTable : IF elem[f].req = r THEN elem'[f].in_progress = b
                                                  ELSE elem'[f] = elem[f]
      BY <1>0, <2>2, MarkKeys, Zenon
   <2>4. e \in InTable /\ e \in Elements /\ elem'[e].req = elem[e].req
      BY <1>2, <1>4, <2>3, Zenon
   <2>5. CASE elem[e].req = r
      <3>1. MarkInProgress(p)
         BY <1>4, <2>2, <2>3, <2>4, <2>5, Zenon
      <3>2. Cells(r) # {}
         BY <2>4, <2>5, Zenon DEF Cells
      <3>3. Goto(p, "perform")
         BY <2>1, <3>1, <3>2, Zenon DEF MarkInProgress
      <3>4. proc'[p].pc = "perform" /\ proc'[p].undowork.key = r
         BY <1>0, <2>1, <3>3, GotoStep DEF ControlOK, Steps
      <3>5. proc'[p].pc \in WorkPcs
         BY <3>4 DEF WorkPcs
      <3> QED BY <2>4, <2>5, <3>4, <3>5, Zenon DEF MarkHeld
   <2>6. CASE elem[e].req # r
      <3>1. elem[e].in_progress
         BY <1>4, <2>3, <2>4, <2>6, Zenon
      <3>2. ASSUME NEW q \in Procs, UndoWorkerFreeRequest(q), proc[q].undowork.key = elem[e].req
            PROVE  FALSE
         <4>1. q # p
            BY <2>1, <2>6, <3>2, Zenon
         <4>2. \A x \in Procs : x # p => proc'[x] = proc[x]
            <5>1. CASE Moves(p)
               BY <1>0, <5>1, MoveStep, Zenon DEF ControlOK, ProcsOK
            <5>2. CASE UndoWorkerFreeRequest(p)
               <6>1. proc' = [proc EXCEPT ![p] = Dead]
                  BY <5>2, Zenon DEF UndoWorkerFreeRequest
               <6> QED BY <1>0, <6>1, Zenon DEF ControlOK
            <5> QED BY <1>5, <5>1, <5>2, Zenon DEF Moves
         <4>3. proc[q].pc = "free" /\ proc' = [proc EXCEPT ![q] = Dead]
            BY <3>2, Zenon DEF UndoWorkerFreeRequest
         <4>4. proc'[q] = Dead
            BY <1>0, <4>3, Zenon DEF ControlOK
         <4> QED BY <4>1, <4>2, <4>3, <4>4 DEF Dead
      <3> QED BY <1>3, <2>4, <3>1, <3>2, Zenon
   <2> QED BY <2>5, <2>6
<1>6. CASE \A q \in Procs : ~UndoWorkerFreeRequest(q) /\ ~MarkInProgress(q) /\ ~MarkFail(q)
   <2>1. CASE UNCHANGED <<elem, chain>>
      <3>1. InTable' = InTable
         BY <2>1, Zenon DEF InTable
      <3> QED BY <1>3, <1>4, <1>6, <2>1, <3>1, Zenon
   <2>2. CASE request_async_rollback
      <3>1. PICK d \in Requests : d = discard
         BY <1>0, <2>2, Zenon DEF request_async_rollback, ControlOK
      <3>2. register_rollback_req(d)
         BY <2>2, <3>1, Zenon DEF request_async_rollback
      <3>3. /\ \A f \in InTable : f \in InTable' /\ elem'[f] = elem[f]
            /\ \A f \in InTable' : f \in InTable \/ elem'[f].in_progress = FALSE
         BY <1>0, <3>2, RegisterStep, Zenon
      <3> QED BY <1>3, <1>4, <1>6, <3>3, Zenon
   <2>3. CASE UndoLauncherGetRequest /\ ~(UNCHANGED <<elem, chain>>)
      <3>1. chain' = chain /\ elem' = [elem EXCEPT ![launcher.entry].retry_delay = @ - 1]
         BY <1>0, <2>3, TakeEntry, Zenon DEF UndoLauncherGetRequest
      <3>2. InTable' = InTable
         BY <3>1, Zenon DEF InTable
      <3>3. elem \in [Elements -> Entry] /\ e \in Elements /\ e \in InTable
         BY <1>0, <1>2, <1>4, <3>2, Zenon DEF HashOK
      <3>4. elem'[e].req = elem[e].req /\ elem'[e].in_progress = elem[e].in_progress
         <4>1. elem[e] \in Entry
            BY <3>3
         <4>2. CASE e = launcher.entry
            <5>1. elem'[e] = [elem[e] EXCEPT !.retry_delay = @ - 1]
               BY <3>1, <3>3, <4>2, Zenon
            <5> QED BY <4>1, <5>1 DEF Entry
         <4>3. CASE e # launcher.entry
            BY <3>1, <3>3, <4>3, Zenon
         <4> QED BY <4>2, <4>3
      <3> QED BY <1>3, <1>4, <1>6, <3>3, <3>4, Zenon
   <2>4. CASE \E p \in Procs : RemoveRequest(p)
      <3>1. PICK p \in Procs : RemoveRequest(p)
         BY <2>4, Zenon
      <3>2. proc[p].pc = "remove" /\ remove_rollback_entry(proc[p].undowork.key)
         BY <3>1, Zenon DEF RemoveRequest
      <3>3. PICK d \in Requests : d = proc[p].undowork.key
         BY <3>2, ProcServed
      <3>4. elem' = elem /\ \A f \in InTable' : f \in InTable
         BY <1>0, <3>2, <3>3, RemoveStep, Zenon
      <3> QED BY <1>3, <1>4, <1>6, <3>4, Zenon
   <2> QED BY <1>6, <2>1, <2>2, <2>3, <2>4, Writers, Zenon DEF HashWriter
<1> QED BY <1>5, <1>6, Zenon

-----------------------------------------------------------------------------
(* The invariant                                                           *)

\* Every step keeps the rest of TypeOK.
LEMMA ControlStep ==
    ASSUME IndInv, [Next]_vars
    PROVE  ControlOK'
<1>0. HashOK /\ ControlOK
   BY TypeHalves, Zenon DEF IndInv
<1>1. launcher' \in LauncherInfo /\ rollback_request' \in Work
   BY LauncherStep, MailboxStep, Zenon DEF LauncherOK
<1>2. discard' \in Requests \cup {NoRequest}
   <2>1. CASE UNCHANGED discard
      BY <1>0, <2>1 DEF ControlOK
   <2>2. CASE Discard
      <3>1. discard' \in Requests \/ discard' = NoRequest
         BY <2>2, Zenon DEF Discard, DiscardReadsSlot, request_async_rollback
      <3> QED BY <3>1
   <2> QED BY <2>1, <2>2, Writers, Zenon
<1>3. RollbackNextBucket' \in 0 .. NBuckets
   <2>1. CASE UNCHANGED RollbackNextBucket
      BY <1>0, <2>1 DEF ControlOK
   <2>2. CASE LauncherScan
      <3>1. RollbackNextBucket' = get_next_rollback_request.bucket
         BY <2>2, Zenon DEF LauncherScan
      <3> QED BY <1>0, <3>1, ScanResult, Zenon
   <2>3. CASE LauncherRestarts
      <3>1. RollbackNextBucket' = 0
         BY <2>3, Zenon DEF LauncherRestarts
      <3> QED BY <3>1, UndoRollbackAssumption
   <2> QED BY <2>1, <2>2, <2>3, Writers, Zenon
<1>4. rolledback' \subseteq Requests /\ finished' \subseteq Requests /\ mixed' \subseteq Requests
   BY FlagStep DEF Settled
<1>5. ProcsOK' /\ undo_workers' \in [Workers -> WorkerInfo]
   BY ProcCases, SlotCases, Zenon
<1> QED BY <1>1, <1>2, <1>3, <1>4, <1>5, Zenon DEF ControlOK, ProcsOK

\* Every step keeps HeldInv.
LEMMA HeldStep ==
    ASSUME IndInv, [Next]_vars
    PROVE  HeldInv'
<1>1. /\ launcher'.pc \in {"copy", "mail", "start", "wait"} => launcher'.idx \in Workers
      /\ launcher'.pc \in {"copy", "mail", "start"} => undo_workers[launcher'.idx].xid = 0
   BY LauncherStep, Zenon DEF LauncherOK
<1>2. (\A e \in InTable : elem[e].in_progress =>
          \E p \in Procs : proc[p].undowork.key = elem[e].req /\ proc[p].pc \in WorkPcs)'
   BY MarksHeldStep, Zenon DEF MarkHeld
\* The slot the launcher has chosen stays free until it fills it.
<1>3. ASSUME launcher'.pc \in {"copy", "mail", "start"}
      PROVE  undo_workers'[launcher'.idx].xid = 0
   <2>1. PICK k \in Workers : k = launcher'.idx /\ undo_workers[k].xid = 0
      BY <1>1, <1>3
   <2>2. ~SlotTaken(k)
      BY <1>3 DEF SlotTaken
   <2>3. SlotGivenUp(k) => undo_workers'[k].xid = 0
      BY Zenon DEF SlotGivenUp
   <2>4. \A p \in Procs : ~SlotClaimed(k, p) /\ (SlotFreed(k, p) => undo_workers'[k].xid = 0)
      BY <2>1 DEF SlotClaimed, SlotFreed, FreeWorker
   <2> QED BY <2>1, <2>2, <2>3, <2>4, SlotCases, Zenon
<1> QED BY <1>1, <1>2, <1>3, SlotsHeldStep, Zenon DEF HeldInv, HeldPcs, WorkPcs

\* Nothing is held, in progress or flagged at start.
LEMMA InitInd == Init => IndInv
<1> SUFFICES ASSUME Init PROVE IndInv
   OBVIOUS
<1>0. /\ NBuckets \in Nat /\ HashSize \in Nat /\ NWorkers \in Nat /\ Delay \in Nat
      /\ NoRequest \notin Requests /\ NoProc \notin Procs
   BY UndoRollbackAssumption
<1>1. \A k \in Buckets : chain[k] = <<>> /\ Len(chain[k]) = 0
   BY DEF Init
<1>2. HashOK
   <2>1. elem \in [Elements -> Entry]
      BY <1>0 DEF Init, Entry
   <2>2. chain \in [Buckets -> Seq(Elements)]
      BY DEF Init
   <2> QED BY <1>1, <2>1, <2>2 DEF HashOK
<1>3. \A e : e \notin InTable
   <2>1. \A k \in Buckets : \A i : i \notin 1 .. Len(chain[k])
      BY <1>1
   <2> QED BY <1>2, <2>1, InTableIff, Zenon
<1>4. \A p \in Procs : proc[p].pc = "none"
   BY DEF Init, Dead
<1>5. ControlOK
   <2>1. Active = {}
      BY <1>4 DEF Active
   <2>2. running_undo_workers = Cardinality(Active)
      BY <2>1, FS_EmptySet DEF Init
   <2>3. proc \in [Procs -> ProcInfo] /\ undo_workers \in [Workers -> WorkerInfo]
      BY DEF Init, Dead, ProcInfo, Steps, FreeWorker, WorkerInfo, Work, NoWork, Whole
   <2>4. launcher \in LauncherInfo /\ rollback_request \in Work
      BY DEF Init, Idle, LauncherInfo, Work, NoWork, Whole
   <2> QED BY <1>0, <2>2, <2>3, <2>4 DEF ControlOK, Init
<1>6. ServedInv
   <2>1. \A e \in Elements : elem[e].req = NoRequest
      BY DEF Init
   <2>2. launcher.pc = "loop" /\ rollback_request = NoWork /\ finished = {}
      BY DEF Init, Idle
   <2> QED BY <1>4, <2>1, <2>2 DEF ServedInv
<1>7. HeldInv
   <2>1. \A i \in Workers : undo_workers[i].xid = 0 /\ undo_workers[i].pid = NoProc
      BY DEF Init, FreeWorker
   <2>2. launcher.pc = "loop"
      BY DEF Init, Idle
   <2> QED BY <1>3, <2>1, <2>2 DEF HeldInv
<1> QED BY <1>2, <1>5, <1>6, <1>7, TypeHalves, Zenon DEF IndInv

\* Every step keeps the inductive invariant.
LEMMA IndNext == IndInv /\ [Next]_vars => IndInv'
<1> SUFFICES ASSUME IndInv, [Next]_vars PROVE IndInv'
   OBVIOUS
<1>1. HashOK' /\ ControlOK'
   BY HashNext, ControlStep, Zenon
<1>2. TypeOK'
   BY <1>1, Zenon DEF TypeOK, HashOK, ControlOK, Entry, Active, LauncherInfo, ProcInfo, WorkerInfo
<1> QED BY <1>2, ServedStep, HeldStep, Zenon DEF IndInv

\* The invariant holds throughout.
THEOREM RollbackInvariance == Spec => []IndInv
BY InitInd, IndNext, PTL DEF Spec

\* The hash table of requests stays well formed, one entry per request in its
\* own bucket, and running_undo_workers counts the processes at work.
THEOREM RollbackTypeCorrect == Spec => []TypeOK
<1>1. IndInv => TypeOK
   BY Zenon DEF IndInv
<1> QED BY <1>1, RollbackInvariance, PTL

\* set_undo_slot_rollback_finish is called only for slots whose rows are
\* rolled back, however many processes were started for a request, however
\* late they come, and whatever the launcher and the processes read without a
\* lock meanwhile - except for the two requests of a copy that has the key of
\* one and the slot of the other.
THEOREM FlagsTrue == Spec => []FinishedRolledBack
<1>1. IndInv => FinishedRolledBack
   BY Zenon DEF IndInv, ServedInv, Settled, FinishedRolledBack
<1> QED BY <1>1, RollbackInvariance, PTL

\* When every process is gone and the launcher is back in its loop, no worker
\* slot is held and no request is marked: none is lost to a failed start, an
\* error or a second process.
THEOREM NothingLost == Spec => []NothingLeftHeld
<1>1. IndInv => NothingLeftHeld
   <2> SUFFICES ASSUME IndInv, launcher.pc = "loop", \A p \in Procs : proc[p] = Dead
                PROVE  /\ \A i \in Workers : undo_workers[i] = FreeWorker
                       /\ \A e \in InTable : ~elem[e].in_progress
      BY Zenon DEF NothingLeftHeld
   <2>1. \A p \in Procs : proc[p].pc = "none"
      BY DEF Dead
   <2>2. HeldInv /\ undo_workers \in [Workers -> WorkerInfo]
      BY TypeHalves, Zenon DEF IndInv, ControlOK
   <2>3. ASSUME NEW i \in Workers PROVE undo_workers[i] = FreeWorker
      <3>1. undo_workers[i] \in WorkerInfo
         BY <2>2
      <3>2. undo_workers[i].pid = NoProc
         BY <2>1, <2>2, <3>1 DEF HeldInv, WorkerInfo
      <3>3. undo_workers[i].xid = 0
         BY <2>2, <3>2 DEF HeldInv
      <3> QED BY <3>1, <3>2, <3>3 DEF WorkerInfo, FreeWorker
   <2>4. \A e \in InTable : ~elem[e].in_progress
      BY <2>1, <2>2 DEF HeldInv
   <2> QED BY <2>3, <2>4
<1> QED BY <1>1, RollbackInvariance, PTL
=============================================================================
