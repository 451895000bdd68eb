-------------------------- MODULE XProxyPoolProofs --------------------------
(***************************************************************************)
(* The counters and wait queues of XProxy's server pools are exact, for    *)
(* any number of clients and endpoints and any pool size.                  *)
(***************************************************************************)
EXTENDS XProxyPool, FiniteSetTheorems, SequenceTheorems, TLAPS

\* The properties are inductive together: a counter is right because the
\* client whose state changes is in the set it counts.
PoolInv == TypeOK /\ WaitersCounted /\ ServersHeld /\ WaitersQueued /\ NoSleepOnSignal

\* What a client in state k contributes to a count over endpoint e.
Share(k, e, pcs) == IF k.ep = e /\ k.pc \in pcs THEN 1 ELSE 0

\* Client c goes to state k, and takes its share of both counters along.
Moves(c, k) ==
    /\ Become(c, k)
    /\ waiters' \in [Endpoints -> Int] /\ count_active' \in [Endpoints -> Int]
    /\ \A e \in Endpoints : /\ waiters'[e] = waiters[e]
                                   - Share(client[c], e, Waiting) + Share(k, e, Waiting)
                            /\ count_active'[e] = count_active[e]
                                   - Share(client[c], e, Holding) + Share(k, e, Holding)

-----------------------------------------------------------------------------
(* Counting clients                                                        *)

\* A set of clients is finite.
LEMMA SomeClients ==
  ASSUME NEW S \in SUBSET Clients
  PROVE  IsFiniteSet(S) /\ Cardinality(S) \in Nat
  <1>1. IsFiniteSet(Clients)
    BY Zenon, PoolAssumption DEF PoolAssumption
  <1>2. IsFiniteSet(S)
    BY Zenon, <1>1, FS_Subset
  <1> QED
    BY Zenon, <1>2, FS_CardinalityType

\* When one client changes its state, a count changes by its share.
LEMMA ShareMoves ==
  ASSUME client \in [Clients -> Client], NEW c \in Clients, NEW k \in Client,
         Become(c, k), NEW e, NEW pcs
  PROVE  Cardinality(At(e, pcs)') =
             Cardinality(At(e, pcs)) - Share(client[c], e, pcs) + Share(k, e, pcs)
  <1> DEFINE S == At(e, pcs)
             T == {x \in Clients : client'[x].ep = e /\ client'[x].pc \in pcs}
  <1>1. IsFiniteSet(S) /\ Cardinality(S) \in Nat
    <2>1. S \in SUBSET Clients
      BY Zenon DEF At
    <2> QED
      BY Zenon, <2>1, SomeClients
  <1>2. IsFiniteSet(T) /\ Cardinality(T) \in Nat
    BY Zenon, SomeClients
  <1>4. client'[c] = k /\ \A x \in Clients : x # c => client'[x] = client[x]
    BY Zenon DEF Become
  <1>5. S \ {c} = T \ {c}
    BY Zenon, <1>4 DEF At
  <1>6. c \in S <=> client[c].ep = e /\ client[c].pc \in pcs
    BY Zenon DEF At
  <1>7. c \in T <=> k.ep = e /\ k.pc \in pcs
    BY Zenon, <1>4
  <1>8. Cardinality(S \ {c}) = IF c \in S THEN Cardinality(S) - 1 ELSE Cardinality(S)
    BY Zenon, <1>1, FS_RemoveElement
  <1>9. Cardinality(T \ {c}) = IF c \in T THEN Cardinality(T) - 1 ELSE Cardinality(T)
    BY Zenon, <1>2, FS_RemoveElement
  <1>10. Cardinality(T) = Cardinality(S) - Share(client[c], e, pcs) + Share(k, e, pcs)
    <2>1. Share(client[c], e, pcs) = IF c \in S THEN 1 ELSE 0
      BY Zenon, <1>6 DEF Share
    <2>2. Share(k, e, pcs) = IF c \in T THEN 1 ELSE 0
      BY Zenon, <1>7 DEF Share
    <2> HIDE DEF S, T
    <2> QED
      BY <1>1, <1>2, <1>5, <1>8, <1>9, <2>1, <2>2
  <1>11. At(e, pcs)' = T
    BY Zenon DEF At
  <1> QED
    BY Zenon, <1>10, <1>11

\* A client that moves with its shares keeps both counters exact.
LEMMA CountsMove ==
  ASSUME PoolInv, NEW c \in Clients, NEW k \in Client, Moves(c, k)
  PROVE  /\ WaitersCounted' /\ ServersHeld'
         /\ waiters' \in [Endpoints -> Nat] /\ count_active' \in [Endpoints -> Nat]
         /\ client' \in [Clients -> Client]
  <1>t. TypeOK /\ WaitersCounted /\ ServersHeld /\ client \in [Clients -> Client]
    BY Zenon DEF PoolInv, TypeOK
  <1>1. \A e \in Endpoints : waiters'[e] = Cardinality(At(e, Waiting)')
    <2> SUFFICES ASSUME NEW e \in Endpoints
                 PROVE  waiters'[e] = Cardinality(At(e, Waiting)')
      BY Zenon
    <2>1. Cardinality(At(e, Waiting)') = Cardinality(At(e, Waiting))
                 - Share(client[c], e, Waiting) + Share(k, e, Waiting)
      BY <1>t, ShareMoves DEF Moves
    <2> QED
      BY Zenon, <2>1, <1>t DEF Moves, WaitersCounted
  <1>2. \A e \in Endpoints : count_active'[e] = Cardinality(At(e, Holding)')
    <2> SUFFICES ASSUME NEW e \in Endpoints
                 PROVE  count_active'[e] = Cardinality(At(e, Holding)')
      BY Zenon
    <2>1. Cardinality(At(e, Holding)') = Cardinality(At(e, Holding))
                 - Share(client[c], e, Holding) + Share(k, e, Holding)
      BY <1>t, ShareMoves DEF Moves
    <2> QED
      BY Zenon, <2>1, <1>t DEF Moves, ServersHeld
  <1>3. \A e, pcs : Cardinality(At(e, pcs)') \in Nat
    <2>1. \A e, pcs : At(e, pcs)' \in SUBSET Clients
      BY Zenon DEF At
    <2> QED
      BY Zenon, <2>1, SomeClients
  <1> QED
    BY <1>1, <1>2, <1>3, <1>t DEF Moves, WaitersCounted, ServersHeld, Become, Waiting, Holding

\* Counter f becomes g when a client goes from pc and endpoint ep to state k: it
\* is told of a client that enters or leaves, and of no other.
Follows(f, g, pc, ep, k, pcs) ==
    \/ pc \notin pcs /\ k.pc \notin pcs /\ g = f
    \/ pc \in pcs /\ k.pc \in pcs /\ ep = k.ep /\ g = f
    \/ pc \notin pcs /\ k.pc \in pcs /\ g = Add(f, k.ep, 1)
    \/ pc \in pcs /\ k.pc \notin pcs /\ g = Add(f, ep, -1)

\* Then it changes by the client's share, at every endpoint.
LEMMA FollowsShare ==
  ASSUME NEW f \in [Endpoints -> Nat], NEW g, NEW old \in Client, NEW k \in Client, NEW pcs,
         Follows(f, g, old.pc, old.ep, k, pcs)
  PROVE  /\ g \in [Endpoints -> Int]
         /\ \A e \in Endpoints : g[e] = f[e] - Share(old, e, pcs) + Share(k, e, pcs)
  <1>t. old.ep \in Endpoints /\ k.ep \in Endpoints
    BY Zenon DEF Client
  <1>1. \A e \in Endpoints, n \in {1, -1} :
            /\ Add(f, e, n) \in [Endpoints -> Int]
            /\ \A d \in Endpoints : Add(f, e, n)[d] = IF d = e THEN f[d] + n ELSE f[d]
    BY DEF Add
  <1>2. CASE g = f /\ \A e \in Endpoints : Share(old, e, pcs) = Share(k, e, pcs)
    <2>1. \A e \in Endpoints : Share(k, e, pcs) \in Int
      BY DEF Share
    <2> QED
      BY <1>2, <2>1
  <1>3. CASE old.pc \notin pcs /\ k.pc \in pcs /\ g = Add(f, k.ep, 1)
    <2>1. \A e \in Endpoints : /\ Share(old, e, pcs) = 0
                               /\ Share(k, e, pcs) = IF e = k.ep THEN 1 ELSE 0
      BY Zenon, <1>3 DEF Share
    <2>2. g \in [Endpoints -> Int]
      BY Zenon, <1>t, <1>1, <1>3
    <2>3. \A e \in Endpoints : g[e] = IF e = k.ep THEN f[e] + 1 ELSE f[e]
      BY <1>t, <1>1, <1>3
    <2> QED
      BY <2>1, <2>2, <2>3
  <1>4. CASE old.pc \in pcs /\ k.pc \notin pcs /\ g = Add(f, old.ep, -1)
    <2>1. \A e \in Endpoints : /\ Share(k, e, pcs) = 0
                               /\ Share(old, e, pcs) = IF e = old.ep THEN 1 ELSE 0
      BY Zenon, <1>4 DEF Share
    <2>2. g \in [Endpoints -> Int]
      BY Zenon, <1>t, <1>1, <1>4
    <2>3. \A e \in Endpoints : g[e] = IF e = old.ep THEN f[e] + (-1) ELSE f[e]
      BY <1>t, <1>1, <1>4
    <2> QED
      BY <2>1, <2>2, <2>3
  <1> QED
    BY Zenon, <1>2, <1>3, <1>4 DEF Follows, Share

\* A client whose state both counters follow moves with its shares.
LEMMA FollowsMoves ==
  ASSUME PoolInv, NEW c \in Clients, NEW k \in Client, Become(c, k),
         Follows(waiters, waiters', client[c].pc, client[c].ep, k, Waiting),
         Follows(count_active, count_active', client[c].pc, client[c].ep, k, Holding)
  PROVE  Moves(c, k)
  <1>1. /\ waiters \in [Endpoints -> Nat] /\ count_active \in [Endpoints -> Nat]
        /\ client[c] \in Client
    BY Zenon DEF PoolInv, TypeOK
  <1>2. /\ waiters' \in [Endpoints -> Int]
        /\ \A e \in Endpoints :
              waiters'[e] = waiters[e] - Share(client[c], e, Waiting) + Share(k, e, Waiting)
    BY <1>1, FollowsShare
  <1>3. /\ count_active' \in [Endpoints -> Int]
        /\ \A e \in Endpoints :
              count_active'[e] = count_active[e] - Share(client[c], e, Holding) + Share(k, e, Holding)
    BY SMTT(20), <1>1, FollowsShare
  <1> QED
    BY Zenon, <1>2, <1>3 DEF Moves

-----------------------------------------------------------------------------
(* Steps of one client that leave the wait queues alone                    *)

\* The locks and lists a client uses while it looks for a server, or gives
\* one back, are not those of the wait_bus.
BusUnchanged == UNCHANGED <<pool_timeout, busVars>>

\* The queue stays exact when a client that is not queued does not queue.
LEMMA QueueKept ==
  ASSUME PoolInv, NEW c \in Clients, NEW k \in Client, Become(c, k),
         readers' = readers, client[c].pc # "wait", k.pc # "wait"
  PROVE  WaitersQueued'
  <1>1. \A e : At(e, {"wait"})' = At(e, {"wait"})
    BY Zenon DEF At, Become, PoolInv, TypeOK
  <1> QED
    BY <1>1 DEF PoolInv, WaitersQueued

\* Such a step keeps the invariant if it accounts for its client.
LEMMA MoveKeepsInv ==
  ASSUME PoolInv, NEW c \in Clients, NEW k \in Client, Moves(c, k), BusUnchanged,
         client[c].pc # "wait", k.pc # "wait",
         count_idle' \in [Endpoints -> Nat], cleaning' = cleaning, dropped' \subseteq Endpoints
  PROVE  PoolInv'
  <1>1. /\ WaitersCounted' /\ ServersHeld'
        /\ waiters' \in [Endpoints -> Nat] /\ count_active' \in [Endpoints -> Nat]
        /\ client' \in [Clients -> Client]
    BY Zenon, CountsMove
  <1>2. WaitersQueued'
    BY Zenon, QueueKept DEF Moves, BusUnchanged, busVars
  <1>3. TypeOK'
    BY Zenon, <1>1 DEF PoolInv, TypeOK, BusUnchanged, busVars
  <1>4. NoSleepOnSignal'
    BY Zenon DEF PoolInv, NoSleepOnSignal, BusUnchanged, busVars
  <1> QED
    BY Zenon, <1>1, <1>2, <1>3, <1>4 DEF PoolInv

\* What a look for a server may do: its client, which had no share in any
\* count, goes on with the share of its new state.
Looks(c) ==
    /\ \E k \in Client : Moves(c, k) /\ k.pc # "wait"
    /\ count_idle' \in [Endpoints -> Nat]
    /\ UNCHANGED <<cleaning, dropped>>

\* The client has no part in the counts.
Free(c) == client[c].pc \notin Waiting \cup Holding

\* An idle server goes to the active list for the client that takes it.
LEMMA TakeLooks ==
  ASSUME PoolInv, NEW c \in Clients, Free(c), NEW e \in Endpoints, count_idle[e] > 0, Take(c, e)
  PROVE  Looks(c)
  <1> DEFINE k == [Start(client[c].wait_for_idle) EXCEPT !.pc = "attached", !.ep = e]
  <1>t. TypeOK
    BY Zenon DEF PoolInv
  <1>1. k \in Client /\ k.pc = "attached" /\ k.ep = e
    BY Zenon, <1>t DEF TypeOK, Client, Start
  <1>2. Become(c, k)
    BY Zenon DEF Take
  <1> HIDE DEF k
  <1>3. Moves(c, k)
    <2>1. Follows(waiters, waiters', client[c].pc, client[c].ep, k, Waiting)
      BY Zenon, <1>1 DEF Take, Follows, Free, Waiting
    <2>2. Follows(count_active, count_active', client[c].pc, client[c].ep, k, Holding)
      BY Zenon, <1>1 DEF Take, Follows, Free, Holding
    <2> QED
      BY <1>1, <1>2, <2>1, <2>2, FollowsMoves
  <1>4. count_idle' \in [Endpoints -> Nat] /\ UNCHANGED <<cleaning, dropped>>
    BY <1>t DEF Take, Add, TypeOK
  <1> QED
    BY Zenon, <1>1, <1>3, <1>4 DEF Looks

\* A client that neither holds a server nor waits afterwards.
LEMMA StayLooks ==
  ASSUME PoolInv, NEW c \in Clients, Free(c), NEW k \in Client,
         k.pc \in {"out", "new"}, Become(c, k), UNCHANGED <<poolVars, waiters>>
  PROVE  Looks(c)
  <1>1. Follows(waiters, waiters', client[c].pc, client[c].ep, k, Waiting)
    BY Zenon DEF Follows, Free, Waiting
  <1>2. Follows(count_active, count_active', client[c].pc, client[c].ep, k, Holding)
    BY Zenon DEF Follows, Free, Holding, poolVars
  <1>3. Moves(c, k)
    BY Zenon, <1>1, <1>2, FollowsMoves
  <1> QED
    BY Zenon, <1>3 DEF Looks, poolVars, PoolInv, TypeOK

\* A client that goes to wait is counted.
LEMMA WaitLooks ==
  ASSUME PoolInv, NEW c \in Clients, Free(c), NEW k \in Client,
         k.pc = "read", Become(c, k), od_route_inc_waiters(k.ep), UNCHANGED poolVars
  PROVE  Looks(c)
  <1>1. Follows(waiters, waiters', client[c].pc, client[c].ep, k, Waiting)
    BY Zenon DEF Follows, Free, Waiting, od_route_inc_waiters
  <1>2. Follows(count_active, count_active', client[c].pc, client[c].ep, k, Holding)
    BY Zenon DEF Follows, Free, Holding, poolVars
  <1>3. Moves(c, k)
    BY <1>1, <1>2, FollowsMoves
  <1> QED
    BY Zenon, <1>3 DEF Looks, poolVars, PoolInv, TypeOK

\* The part of an iteration after the earlier waiters were let pass.
LEMMA TryPoolLooks ==
  ASSUME PoolInv, NEW c \in Clients, Free(c), NEW k \in Client, TryPool(c, k)
  PROVE  Looks(c)
  <1>t. k.ep \in Endpoints /\ k.wait_for_idle \in BOOLEAN
    BY Zenon DEF Client
  <1> DEFINE new == [Start(k.wait_for_idle) EXCEPT !.pc = "new", !.ep = k.ep]
  <1>n. new \in Client /\ new.pc = "new"
    BY Zenon, <1>t DEF Client, Start
  <1>1. CASE count_idle[k.ep] > 0 /\ Take(c, k.ep)
    BY Zenon, <1>1, <1>t, TakeLooks
  <1>2. CASE Allocate(c, k) /\ UNCHANGED <<poolVars, waiters>>
    BY ZenonT(30), <1>2, <1>n, StayLooks DEF Allocate
  <1>3. CASE WaitOrGrow(c, k)
    <2>1. UNCHANGED poolVars
      BY Zenon, <1>3 DEF WaitOrGrow
    <2>2. CASE Become(c, [k EXCEPT !.pc = "out"]) /\ UNCHANGED waiters
      <3>1. [k EXCEPT !.pc = "out"] \in Client /\ [k EXCEPT !.pc = "out"].pc = "out"
        BY Zenon DEF Client
      <3> QED
        BY Zenon, <2>1, <2>2, <3>1, StayLooks
    <2>3. CASE Allocate(c, k) /\ UNCHANGED waiters
      BY Zenon, <2>1, <2>3, <1>n, StayLooks DEF Allocate
    <2>4. CASE od_route_inc_waiters(k.ep) /\ Become(c, [k EXCEPT !.pc = "read"])
      <3> DEFINE r == [k EXCEPT !.pc = "read"]
      <3>1. r \in Client /\ r.pc = "read" /\ r.ep = k.ep
        BY Zenon DEF Client
      <3> HIDE DEF r
      <3>2. od_route_inc_waiters(r.ep) /\ Become(c, r)
        BY Zenon, <2>4, <3>1 DEF r
      <3> QED
        BY <2>1, <3>1, <3>2, WaitLooks
    <2> QED
      BY Zenon, <1>3, <2>2, <2>3, <2>4 DEF WaitOrGrow
  <1> QED
    BY <1>1, <1>2, <1>3 DEF TryPool

\* One iteration of the loop of od_router_attach.
LEMMA IterateLooks ==
  ASSUME PoolInv, NEW c \in Clients, Free(c), NEW k \in Client, Iterate(c, k)
  PROVE  Looks(c)
  <1>1. CASE /\ \E next \in {[k EXCEPT !.pc = "out"], Out} : Become(c, next)
             /\ UNCHANGED <<poolVars, waiters>>
    <2>1. PICK next \in {[k EXCEPT !.pc = "out"], Out} : Become(c, next)
      BY Zenon, <1>1
    <2>2. Endpoints # {} /\ 0 \in Endpoints
      BY PoolAssumption DEF PoolAssumption, Endpoints
    <2>3. /\ [k EXCEPT !.pc = "out"] \in Client /\ [k EXCEPT !.pc = "out"].pc = "out"
          /\ Out \in Client /\ Out.pc = "out"
      BY Zenon, <2>2 DEF Client, Out, Start
    <2> QED
      BY Zenon, <1>1, <2>1, <2>3, StayLooks
  <1>2. CASE \E e \in Endpoints :
               /\ k.first /\ waiters[e] > count_idle[e]
               /\ od_route_inc_waiters(e)
               /\ Become(c, [k EXCEPT !.pc = "read", !.ep = e])
               /\ UNCHANGED poolVars
    <2>1. PICK e \in Endpoints : /\ od_route_inc_waiters(e)
                                 /\ Become(c, [k EXCEPT !.pc = "read", !.ep = e])
                                 /\ UNCHANGED poolVars
      BY Zenon, <1>2
    <2> DEFINE r == [k EXCEPT !.pc = "read", !.ep = e]
    <2>2. r \in Client /\ r.pc = "read" /\ r.ep = e
      BY Zenon DEF Client
    <2> HIDE DEF r
    <2>3. od_route_inc_waiters(r.ep) /\ Become(c, r)
      BY Zenon, <2>1, <2>2 DEF r
    <2> QED
      BY Zenon, <2>1, <2>2, <2>3, WaitLooks
  <1>3. CASE \E e \in Endpoints : TryPool(c, [k EXCEPT !.first = FALSE, !.ep = e])
    <2>1. PICK e \in Endpoints : TryPool(c, [k EXCEPT !.first = FALSE, !.ep = e])
      BY Zenon, <1>3
    <2>2. [k EXCEPT !.first = FALSE, !.ep = e] \in Client
      BY Zenon DEF Client
    <2> QED
      BY Zenon, <2>1, <2>2, TryPoolLooks
  <1> QED
    BY Zenon, <1>1, <1>2, <1>3 DEF Iterate

\* A look for a server keeps the invariant.
LEMMA LooksKeepsInv ==
  ASSUME PoolInv, NEW c \in Clients, Free(c), Looks(c), BusUnchanged
  PROVE  PoolInv'
  <1>1. PICK k \in Client : Moves(c, k) /\ k.pc # "wait"
    BY Zenon DEF Looks
  <1>2. client[c].pc # "wait"
    BY Zenon DEF Free, Waiting
  <1>3. dropped' \subseteq Endpoints
    BY Zenon DEF Looks, PoolInv, TypeOK
  <1> QED
    BY Zenon, <1>1, <1>2, <1>3, MoveKeepsInv DEF Looks

-----------------------------------------------------------------------------
(* The wait_bus                                                            *)

\* A client leaves the waiters for a state in which it has no share.
LEMMA LeaveMoves ==
  ASSUME PoolInv, NEW c \in Clients, NEW k \in Client, Become(c, k),
         client[c].pc \in Waiting, k.pc \in {"out", "relock"},
         waiters' = Add(waiters, client[c].ep, -1), count_active' = count_active
  PROVE  Moves(c, k)
  <1>1. Follows(waiters, waiters', client[c].pc, client[c].ep, k, Waiting)
    BY Zenon DEF Follows, Waiting
  <1>2. Follows(count_active, count_active', client[c].pc, client[c].ep, k, Holding)
    BY Zenon DEF Follows, Waiting, Holding
  <1> QED
    BY <1>1, <1>2, FollowsMoves

\* The initial record of a client is one.
LEMMA StartClient ==
  ASSUME NEW w \in BOOLEAN
  PROVE  Start(w) \in Client /\ Start(w).pc = "out" /\ Out \in Client /\ Out.pc = "out"
  <1>1. 0 \in Endpoints
    BY SMTT(20), PoolAssumption DEF PoolAssumption, Endpoints
  <1> QED
    BY <1>1 DEF Start, Out, Client

\* A reader takes a kept message or queues behind the others.
LEMMA ReadKeepsInv ==
  ASSUME PoolInv, NEW c \in Clients, mm_channel_read(c)
  PROVE  PoolInv'
  <1>t. TypeOK /\ WaitersQueued /\ NoSleepOnSignal
    BY Zenon DEF PoolInv
  <1>e. PICK e \in Endpoints : e = client[c].ep /\ client[c] \in Client /\ client[c].pc = "read"
    BY Zenon, <1>t DEF TypeOK, Client, mm_channel_read
  <1>1. CASE HasMessage(e) /\ msgs' = Add(msgs, e, -1)
             /\ Become(c, [client[c] EXCEPT !.pc = "taken"]) /\ readers' = readers
    <2> DEFINE k == [client[c] EXCEPT !.pc = "taken"]
    <2>1. k \in Client /\ k.pc = "taken" /\ k.ep = e
      BY Zenon, <1>e DEF Client
    <2> HIDE DEF k
    <2>2. Become(c, k)
      BY Zenon, <1>1 DEF k
    <2>3. Follows(waiters, waiters', client[c].pc, client[c].ep, k, Waiting)
      BY Zenon, <1>e, <2>1 DEF Follows, Waiting, mm_channel_read
    <2>4. Follows(count_active, count_active', client[c].pc, client[c].ep, k, Holding)
      BY Zenon, <1>e, <2>1 DEF Follows, Holding, mm_channel_read, poolVars
    <2>5. /\ WaitersCounted' /\ ServersHeld'
          /\ waiters' \in [Endpoints -> Nat] /\ count_active' \in [Endpoints -> Nat]
          /\ client' \in [Clients -> Client]
      BY <2>1, <2>2, <2>3, <2>4, FollowsMoves, CountsMove
    <2>6. WaitersQueued'
      BY <1>1, <1>e, <2>1, <2>2, QueueKept
    <2>7. msgs' \in [Endpoints -> Nat] /\ NoSleepOnSignal'
      BY <1>1, <1>e, <1>t DEF Add, HasMessage, TypeOK, NoSleepOnSignal
    <2>8. TypeOK'
      BY Zenon, <1>1, <1>t, <2>5, <2>7 DEF TypeOK, mm_channel_read, poolVars
    <2> QED
      BY Zenon, <2>5, <2>6, <2>7, <2>8 DEF PoolInv
  <1>2. CASE ~HasMessage(e) /\ readers' = [readers EXCEPT ![e] = Append(@, c)]
             /\ Become(c, [client[c] EXCEPT !.pc = "wait"]) /\ msgs' = msgs
    <2> DEFINE k == [client[c] EXCEPT !.pc = "wait"]
    <2>1. k \in Client /\ k.pc = "wait" /\ k.ep = e
      BY Zenon, <1>e DEF Client
    <2> HIDE DEF k
    <2>2. Become(c, k)
      BY Zenon, <1>2 DEF k
    <2>3. Follows(waiters, waiters', client[c].pc, client[c].ep, k, Waiting)
      BY Zenon, <1>e, <2>1 DEF Follows, Waiting, mm_channel_read
    <2>4. Follows(count_active, count_active', client[c].pc, client[c].ep, k, Holding)
      BY Zenon, <1>e, <2>1 DEF Follows, Holding, mm_channel_read, poolVars
    <2>5. /\ WaitersCounted' /\ ServersHeld'
          /\ waiters' \in [Endpoints -> Nat] /\ count_active' \in [Endpoints -> Nat]
          /\ client' \in [Clients -> Client]
      BY SMTT(20), <2>1, <2>2, <2>3, <2>4, FollowsMoves, CountsMove
    <2>6. /\ readers \in [Endpoints -> Seq(Clients)] /\ readers' \in [Endpoints -> Seq(Clients)]
          /\ readers'[e] = Append(readers[e], c)
          /\ \A d \in Endpoints : d # e => readers'[d] = readers[d]
      BY <1>2, <1>e, <1>t DEF TypeOK
    <2>7. WaitersQueued'
      <3> SUFFICES ASSUME NEW d \in Endpoints
                   PROVE  /\ \A i, j \in DOMAIN readers'[d] : readers'[d][i] = readers'[d][j] => i = j
                          /\ \A i \in DOMAIN readers'[d] : readers'[d][i] \in At(d, {"wait"})'
                          /\ \A x \in At(d, {"wait"})' : \E i \in DOMAIN readers'[d] : readers'[d][i] = x
        BY Zenon DEF WaitersQueued
      <3>1. At(d, {"wait"})' = At(d, {"wait"}) \cup (IF d = e THEN {c} ELSE {})
        BY SMTT(20), <1>e, <1>t, <2>1, <2>2 DEF At, Become, TypeOK
      <3>2. c \notin At(e, {"wait"})
        BY Zenon, <1>e DEF At
      <3>3. CASE d # e
        BY <2>6, <3>1, <3>3, <1>t DEF WaitersQueued
      <3>4. CASE d = e
        <4>1. /\ DOMAIN readers[e] = 1 .. Len(readers[e]) /\ Len(readers[e]) \in Nat
              /\ DOMAIN readers'[e] = 1 .. Len(readers[e]) + 1
              /\ readers'[e][Len(readers[e]) + 1] = c
              /\ \A i \in DOMAIN readers[e] : readers'[e][i] = readers[e][i]
          BY <1>e, <2>6
        <4>2. \A i \in DOMAIN readers[e] : readers[e][i] # c
          BY SMTT(20), <1>e, <1>t, <3>2 DEF WaitersQueued
        <4>3. /\ \A i, j \in DOMAIN readers[e] : readers[e][i] = readers[e][j] => i = j
              /\ \A i \in DOMAIN readers[e] : readers[e][i] \in At(e, {"wait"})
              /\ \A x \in At(e, {"wait"}) : \E i \in DOMAIN readers[e] : readers[e][i] = x
          BY Zenon, <1>e, <1>t DEF WaitersQueued
        <4>4. At(e, {"wait"})' = At(e, {"wait"}) \cup {c}
          BY Zenon, <3>1, <3>4
        <4>5. \A i \in DOMAIN readers'[e] : i \in DOMAIN readers[e] \/ i = Len(readers[e]) + 1
          BY <4>1
        <4>6. DOMAIN readers[e] \subseteq DOMAIN readers'[e]
              /\ Len(readers[e]) + 1 \in DOMAIN readers'[e]
          BY <4>1
        <4>7. \A i, j \in DOMAIN readers'[e] : readers'[e][i] = readers'[e][j] => i = j
          BY SMTT(20), <4>1, <4>2, <4>3, <4>5
        <4>8. \A i \in DOMAIN readers'[e] : readers'[e][i] \in At(e, {"wait"})'
          BY SMTT(20), <4>1, <4>3, <4>4, <4>5
        <4>9. \A x \in At(e, {"wait"})' : \E i \in DOMAIN readers'[e] : readers'[e][i] = x
          BY <4>1, <4>3, <4>4, <4>6
        <4> QED
          BY SMTT(20), <3>4, <4>7, <4>8, <4>9
      <3> QED
        BY Zenon, <3>3, <3>4
    <2>8. NoSleepOnSignal'
      <3>1. msgs[e] > 0 => readers[e] # <<>>
        BY Zenon, <1>2 DEF HasMessage
      <3>2. ~(msgs[e] > 0)
        BY <1>e, <1>t, <3>1 DEF NoSleepOnSignal
      <3> QED
        BY <1>2, <1>t, <2>6, <3>2 DEF NoSleepOnSignal
    <2>9. TypeOK'
      BY <1>2, <1>t, <2>5, <2>6 DEF TypeOK, mm_channel_read, poolVars
    <2> QED
      BY Zenon, <2>5, <2>7, <2>8, <2>9 DEF PoolInv
  <1> QED
    BY Zenon, <1>1, <1>2, <1>e DEF mm_channel_read

\* A wait that fails before it begins, has ended with a message or by time: the
\* client is not in the queue.
LEMMA WaitEndsKeepsInv ==
  ASSUME PoolInv, NEW c \in Clients,
         od_io_read_stop_fails(c) \/ od_route_wait_ok(c) \/ od_route_wait_failed(c)
  PROVE  PoolInv'
  <1>t. TypeOK /\ client[c] \in Client
    BY Zenon DEF PoolInv, TypeOK
  <1>1. PICK k \in Client : k.pc \in {"out", "relock"} /\ Become(c, k)
    <2>1. CASE od_io_read_stop_fails(c)
      BY Zenon, <2>1, StartClient DEF od_io_read_stop_fails, ReadStopFailed
    <2>2. /\ [client[c] EXCEPT !.pc = "relock"] \in Client
          /\ [client[c] EXCEPT !.pc = "relock"].pc = "relock"
      BY Zenon, <1>t DEF Client
    <2>3. CASE od_route_wait_ok(c)
      BY Zenon, <2>2, <2>3 DEF od_route_wait_ok
    <2>4. CASE od_route_wait_failed(c)
      BY Zenon, <2>2, <2>4, StartClient DEF od_route_wait_failed
    <2> QED
      BY Zenon, <2>1, <2>3, <2>4
  <1>2. /\ client[c].pc \in Waiting /\ client[c].pc # "wait"
        /\ waiters' = Add(waiters, client[c].ep, -1)
        /\ UNCHANGED <<pool_timeout, poolVars, busVars>>
    BY Zenon DEF od_io_read_stop_fails, ReadStopFailed, od_route_wait_ok, od_route_wait_failed,
                 Waiting
  <1>3. Moves(c, k)
    BY Zenon, <1>1, <1>2, LeaveMoves DEF poolVars
  <1>4. /\ count_idle' \in [Endpoints -> Nat] /\ cleaning' = cleaning
        /\ dropped' \subseteq Endpoints /\ BusUnchanged
    BY Zenon, <1>2, <1>t DEF poolVars, TypeOK, BusUnchanged
  <1> QED
    BY <1>1, <1>2, <1>3, <1>4, MoveKeepsInv

\* What unlinking a reader leaves: the others, in their order.
LEMMA UnlinkOthers ==
  ASSUME NEW s \in Seq(Clients), NEW i \in DOMAIN s
  PROVE  /\ Unlink(s, i) \in Seq(Clients) /\ DOMAIN Unlink(s, i) = 1 .. Len(s) - 1
         /\ \A j \in DOMAIN Unlink(s, i) :
               LET m == IF j < i THEN j ELSE j + 1
               IN  m \in DOMAIN s /\ m # i /\ Unlink(s, i)[j] = s[m]
         /\ \A m \in DOMAIN s : m # i =>
               \E j \in DOMAIN Unlink(s, i) : Unlink(s, i)[j] = s[m]
  <1>1. Len(s) \in Nat /\ DOMAIN s = 1 .. Len(s) /\ i \in 1 .. Len(s) /\ Len(s) - 1 \in Nat
    OBVIOUS
  <1>2. /\ DOMAIN Unlink(s, i) = 1 .. Len(s) - 1
        /\ \A j \in 1 .. Len(s) - 1 : Unlink(s, i)[j] = IF j < i THEN s[j] ELSE s[j + 1]
    BY Zenon DEF Unlink
  <1>3. \A j \in 1 .. Len(s) - 1 :
            LET m == IF j < i THEN j ELSE j + 1
            IN  m \in DOMAIN s /\ m # i /\ Unlink(s, i)[j] = s[m]
    BY <1>1, <1>2
  <1>4. ASSUME NEW m \in DOMAIN s, m # i
        PROVE  \E j \in 1 .. Len(s) - 1 : Unlink(s, i)[j] = s[m]
    <2> DEFINE j == IF m < i THEN m ELSE m - 1
    <2>1. j \in 1 .. Len(s) - 1 /\ (j < i <=> m < i) /\ (~(m < i) => j + 1 = m)
      BY <1>1, <1>4
    <2>2. Unlink(s, i)[j] = s[m]
      BY Zenon, <1>2, <2>1
    <2> QED
      BY Zenon, <2>1, <2>2
  <1>5. Unlink(s, i) \in [1 .. Len(s) - 1 -> Clients]
    BY <1>1 DEF Unlink
  <1>6. Unlink(s, i) \in Seq(Clients)
    BY <1>1, <1>5
  <1> QED
    BY Zenon, <1>2, <1>3, <1>4, <1>6

\* One reader out of the queue and out of its sleep leaves the queue exact.
LEMMA QueueUnlinked ==
  ASSUME PoolInv, NEW e \in Endpoints, NEW i \in DOMAIN readers[e],
         readers' = [readers EXCEPT ![e] = Unlink(@, i)],
         \A d \in Endpoints :
             At(d, {"wait"})' = At(d, {"wait"}) \ (IF d = e THEN {readers[e][i]} ELSE {})
  PROVE  WaitersQueued' /\ readers' \in [Endpoints -> Seq(Clients)]
  <1>t. WaitersQueued /\ readers \in [Endpoints -> Seq(Clients)]
    BY Zenon DEF PoolInv, TypeOK
  <1> DEFINE s == readers[e]
             u == Unlink(readers[e], i)
  <1>2. /\ u \in Seq(Clients) /\ DOMAIN u = 1 .. Len(s) - 1 /\ s \in Seq(Clients)
        /\ \A j \in DOMAIN u : LET m == IF j < i THEN j ELSE j + 1
                               IN  m \in DOMAIN s /\ m # i /\ u[j] = s[m]
        /\ \A m \in DOMAIN s : m # i => \E j \in DOMAIN u : u[j] = s[m]
    BY SMTT(20), <1>t, UnlinkOthers
  <1>3. /\ readers' \in [Endpoints -> Seq(Clients)] /\ readers'[e] = u
        /\ \A d \in Endpoints : d # e => readers'[d] = readers[d]
    BY Zenon, <1>t, <1>2
  <1>5. /\ \A j, m \in DOMAIN s : s[j] = s[m] => j = m
        /\ \A j \in DOMAIN s : s[j] \in At(e, {"wait"})
        /\ \A x \in At(e, {"wait"}) : \E j \in DOMAIN s : s[j] = x
    BY Zenon, <1>t DEF WaitersQueued
  <1>6. /\ \A j, m \in DOMAIN u : u[j] = u[m] => j = m
        /\ \A j \in DOMAIN u : u[j] \in At(e, {"wait"}) \ {readers[e][i]}
        /\ \A x \in At(e, {"wait"}) \ {readers[e][i]} : \E j \in DOMAIN u : u[j] = x
    <2> HIDE DEF s, u
    <2>0. s[i] = readers[e][i] /\ i \in DOMAIN s /\ i \in Int
      BY <1>2 DEF s
    <2>1. ASSUME NEW j \in DOMAIN u, NEW m \in DOMAIN u, u[j] = u[m]
          PROVE  j = m
      <3>1. (IF j < i THEN j ELSE j + 1) = (IF m < i THEN m ELSE m + 1)
        BY SMTT(20), <1>2, <1>5, <2>1
      <3> QED
        BY SMTT(20), <1>2, <2>0, <3>1
    <2>2. \A j \in DOMAIN u : u[j] \in At(e, {"wait"}) \ {readers[e][i]}
      BY SMTT(20), <1>2, <1>5, <2>0
    <2>3. \A x \in At(e, {"wait"}) \ {readers[e][i]} : \E j \in DOMAIN u : u[j] = x
      BY SMTT(20), <1>2, <1>5, <2>0
    <2> QED
      BY Zenon, <2>1, <2>2, <2>3
  <1>7. WaitersQueued'
    <2> SUFFICES ASSUME NEW d \in Endpoints
                 PROVE  /\ \A j, m \in DOMAIN readers'[d] : readers'[d][j] = readers'[d][m] => j = m
                        /\ \A j \in DOMAIN readers'[d] : readers'[d][j] \in At(d, {"wait"})'
                        /\ \A x \in At(d, {"wait"})' : \E j \in DOMAIN readers'[d] : readers'[d][j] = x
      BY Zenon DEF WaitersQueued
    <2>1. CASE d = e
      BY <1>3, <1>6, <2>1
    <2>2. CASE d # e
      BY <1>3, <2>2, <1>t DEF WaitersQueued
    <2> QED
      BY Zenon, <2>1, <2>2
  <1> QED
    BY Zenon, <1>3, <1>7

\* A wait that ends by time: the client is still counted but, if no message
\* had reached it, is out of the queue.
LEMMA TimeoutKeepsInv ==
  ASSUME PoolInv, NEW c \in Clients, od_route_wait_timedout(c)
  PROVE  PoolInv'
  <1>t. TypeOK /\ client[c] \in Client /\ WaitersQueued /\ NoSleepOnSignal
        /\ readers \in [Endpoints -> Seq(Clients)]
    BY Zenon DEF PoolInv, TypeOK
  <1>e. PICK e \in Endpoints : e = client[c].ep
    BY Zenon, <1>t DEF Client
  <1>1. PICK k \in Client : k.pc = "timedout" /\ k.ep = client[c].ep /\ Become(c, k)
    <2>1. /\ [client[c] EXCEPT !.pc = "timedout"] \in Client
          /\ [client[c] EXCEPT !.pc = "timedout"].pc = "timedout"
          /\ [client[c] EXCEPT !.pc = "timedout"].ep = client[c].ep
      BY Zenon, <1>t DEF Client
    <2> QED
      BY Zenon, <2>1 DEF od_route_wait_timedout
  <1>2. /\ client[c].pc \in {"wait", "signalled"}
        /\ UNCHANGED <<pool_timeout, poolVars, waiters, msgs>>
    BY Zenon DEF od_route_wait_timedout
  <1>3. /\ WaitersCounted' /\ ServersHeld'
        /\ waiters' \in [Endpoints -> Nat] /\ count_active' \in [Endpoints -> Nat]
        /\ client' \in [Clients -> Client]
    <2>1. Follows(waiters, waiters', client[c].pc, client[c].ep, k, Waiting)
      BY Zenon, <1>1, <1>2 DEF Follows, Waiting
    <2>2. Follows(count_active, count_active', client[c].pc, client[c].ep, k, Holding)
      BY Zenon, <1>1, <1>2 DEF Follows, Holding, poolVars
    <2> QED
      BY Zenon, <1>1, <2>1, <2>2, FollowsMoves, CountsMove
  <1>4. CASE client[c].pc = "signalled" /\ readers' = readers
    <2>1. WaitersQueued'
      BY Zenon, <1>1, <1>4, QueueKept
    <2>2. NoSleepOnSignal'
      BY Zenon, <1>2, <1>4, <1>t DEF NoSleepOnSignal
    <2>3. TypeOK'
      BY SMTT(20), <1>2, <1>3, <1>4, <1>t DEF TypeOK, poolVars
    <2> QED
      BY Zenon, <1>3, <2>1, <2>2, <2>3 DEF PoolInv
  <1>5. CASE client[c].pc = "wait" /\ \E i \in DOMAIN readers[e] :
                     /\ readers[e][i] = c
                     /\ readers' = [readers EXCEPT ![e] = Unlink(@, i)]
    <2>1. PICK i \in DOMAIN readers[e] : /\ readers[e][i] = c
                                         /\ readers' = [readers EXCEPT ![e] = Unlink(@, i)]
      BY Zenon, <1>5
    <2>4. \A d \in Endpoints : At(d, {"wait"})' = At(d, {"wait"}) \ (IF d = e THEN {c} ELSE {})
      BY SMTT(20), <1>e, <1>t, <1>1 DEF At, Become, TypeOK
    <2>7. WaitersQueued' /\ readers' \in [Endpoints -> Seq(Clients)]
      BY ZenonT(30), <2>1, <2>4, QueueUnlinked
    <2>8. NoSleepOnSignal'
      <3>1. readers[e] # <<>>
        BY <1>t, <2>1
      <3>2. ~(msgs[e] > 0)
        BY Zenon, <3>1, <1>t DEF NoSleepOnSignal
      <3> QED
        BY Zenon, <1>2, <1>t, <2>1, <3>2 DEF NoSleepOnSignal, TypeOK
    <2>9. TypeOK'
      BY SMTT(20), <1>2, <1>3, <1>t, <2>7 DEF TypeOK, poolVars
    <2> QED
      BY Zenon, <1>3, <2>7, <2>8, <2>9 DEF PoolInv
  <1> QED
    BY Zenon, <1>4, <1>5, <1>e DEF od_route_wait_timedout

\* A signal wakes the reader at the head of the queue, which stays counted, or
\* is kept for the next one, or is lost for want of memory.
LEMMA SignalKeepsInv ==
  ASSUME PoolInv, NEW c \in Clients, od_route_signal(c)
  PROVE  PoolInv'
  <1>t. /\ TypeOK /\ client \in [Clients -> Client] /\ readers \in [Endpoints -> Seq(Clients)]
        /\ WaitersCounted /\ ServersHeld /\ WaitersQueued /\ NoSleepOnSignal
    BY Zenon DEF PoolInv, TypeOK
  <1>e. PICK e \in Endpoints : e = client[c].ep /\ client[c].pc = "signal"
    BY SMTT(20), <1>t DEF Client, od_route_signal
  <1>u. /\ UNCHANGED <<pool_timeout, count_idle, count_active, cleaning, waiters>>
        /\ dropped' \subseteq Endpoints
    BY Zenon, <1>e, <1>t DEF od_route_signal, TypeOK
  <1>o. Out \in Client /\ Out.pc = "out"
    BY ZenonT(30), StartClient
  <1>1. CASE /\ readers[e] # <<>>
             /\ readers' = [readers EXCEPT ![e] = Tail(@)]
             /\ client' = [client EXCEPT ![c] = Out, ![Head(readers[e])].pc = "signalled"]
             /\ msgs' = msgs
    <2>1. PICK h \in Clients : h = readers[e][1]
      BY <1>1, <1>t
    <2>2. 1 \in DOMAIN readers[e] /\ Head(readers[e]) = h
      BY <1>1, <1>t, <2>1
    <2>3. client[h].pc = "wait" /\ client[h].ep = e
      BY <1>t, <2>1, <2>2 DEF WaitersQueued, At
    <2>4. /\ client'[c] = Out /\ client'[h] = [client[h] EXCEPT !.pc = "signalled"]
          /\ \A x \in Clients : x # c /\ x # h => client'[x] = client[x]
          /\ client' \in [Clients -> Client]
      BY ZenonT(30), <1>1, <1>e, <1>o, <1>t, <2>2, <2>3 DEF Client
    <2>5. client'[h].pc = "signalled" /\ client'[h].ep = e /\ client'[c].pc = "out"
      BY Zenon, <1>o, <1>t, <2>3, <2>4 DEF Client
    <2>6. \A d \in Endpoints : At(d, Waiting)' = At(d, Waiting) /\ At(d, Holding)' = At(d, Holding)
      <3>1. \A x \in Clients : /\ client'[x].pc \in Waiting => client'[x].ep = client[x].ep
                               /\ client'[x].pc \in Waiting <=> client[x].pc \in Waiting
        BY Zenon, <1>e, <2>3, <2>4, <2>5 DEF Waiting
      <3>2. \A x \in Clients : /\ client'[x].pc \in Holding => client'[x].ep = client[x].ep
                               /\ client'[x].pc \in Holding <=> client[x].pc \in Holding
        BY Zenon, <1>e, <2>3, <2>4, <2>5 DEF Holding
      <3> QED
        BY Zenon, <3>1, <3>2 DEF At
    <2>7. \A d \in Endpoints : At(d, {"wait"})' = At(d, {"wait"}) \ (IF d = e THEN {h} ELSE {})
      BY ZenonT(30), <1>e, <2>3, <2>4, <2>5 DEF At
    <2>8. Tail(readers[e]) = Unlink(readers[e], 1)
      <3>1. readers[e] \in Seq(Clients) /\ readers[e] # <<>>
        BY Zenon, <1>1, <1>t
      <3>2. /\ Tail(readers[e]) \in Seq(Clients) /\ Len(Tail(readers[e])) = Len(readers[e]) - 1
            /\ \A j \in 1 .. Len(Tail(readers[e])) : Tail(readers[e])[j] = readers[e][j + 1]
        BY Zenon, <3>1, HeadTailProperties
      <3>3. /\ Unlink(readers[e], 1) \in Seq(Clients)
            /\ DOMAIN Unlink(readers[e], 1) = 1 .. Len(readers[e]) - 1
        BY Zenon, <3>1, <2>2, UnlinkOthers
      <3>4. Len(Unlink(readers[e], 1)) = Len(readers[e]) - 1
        BY <3>1, <3>3
      <3>5. \A j \in 1 .. Len(readers[e]) - 1 : Unlink(readers[e], 1)[j] = readers[e][j + 1]
        BY <3>1 DEF Unlink
      <3> QED
        BY Zenon, <3>2, <3>3, <3>4, <3>5, SeqEqual
    <2>9. WaitersQueued' /\ readers' \in [Endpoints -> Seq(Clients)]
      BY ZenonT(30), <1>1, <1>t, <2>1, <2>2, <2>7, <2>8, QueueUnlinked
    <2>10. WaitersCounted' /\ ServersHeld'
      BY Zenon, <1>u, <1>t, <2>6 DEF WaitersCounted, ServersHeld
    <2>11. NoSleepOnSignal'
      <3>1. ~(msgs[e] > 0)
        BY Zenon, <1>1, <1>t DEF NoSleepOnSignal
      <3> QED
        BY Zenon, <1>1, <1>t, <3>1 DEF NoSleepOnSignal
    <2>12. TypeOK'
      BY ZenonT(30), <1>1, <1>u, <1>t, <2>4, <2>9 DEF TypeOK
    <2> QED
      BY Zenon, <2>9, <2>10, <2>11, <2>12 DEF PoolInv
  <1>2. CASE /\ \/ readers[e] = <<>> /\ msgs' = Add(msgs, e, 1)
                \/ msgs' = msgs
             /\ Become(c, Out) /\ readers' = readers
    <2>1. Follows(waiters, waiters', client[c].pc, client[c].ep, Out, Waiting)
      BY Zenon, <1>e, <1>o, <1>u DEF Follows, Waiting
    <2>2. Follows(count_active, count_active', client[c].pc, client[c].ep, Out, Holding)
      BY SMTT(20), <1>e, <1>o, <1>u DEF Follows, Holding
    <2>3. /\ WaitersCounted' /\ ServersHeld'
          /\ waiters' \in [Endpoints -> Nat] /\ count_active' \in [Endpoints -> Nat]
          /\ client' \in [Clients -> Client]
      BY SMTT(20), <1>2, <1>o, <2>1, <2>2, FollowsMoves, CountsMove
    <2>4. WaitersQueued'
      BY Zenon, <1>2, <1>e, <1>o, QueueKept
    <2>5. msgs' \in [Endpoints -> Nat] /\ NoSleepOnSignal'
      <3>1. CASE readers[e] = <<>> /\ msgs' = Add(msgs, e, 1)
        BY <1>2, <1>t, <3>1 DEF Add, TypeOK, NoSleepOnSignal
      <3>2. CASE msgs' = msgs
        BY Zenon, <1>2, <1>t, <3>2 DEF TypeOK, NoSleepOnSignal
      <3> QED
        BY Zenon, <1>2, <3>1, <3>2
    <2>6. TypeOK'
      BY SMTT(20), <1>2, <1>t, <1>u, <2>3, <2>5 DEF TypeOK
    <2> QED
      BY SMTT(20), <2>3, <2>4, <2>5, <2>6 DEF PoolInv
  <1> QED
    BY ZenonT(30), <1>1, <1>2, <1>e DEF od_route_signal, busVars

-----------------------------------------------------------------------------
(* Servers that leave use                                                  *)

\* A client lets its server go, to the idle list or to be closed.
LEMMA LetGoKeepsInv ==
  ASSUME PoolInv, NEW c \in Clients, NEW k \in Client, client[c].pc \in Holding,
         k.pc \in {"out", "signal"}, Become(c, k),
         count_active' = Add(count_active, client[c].ep, -1),
         count_idle' = count_idle \/ count_idle' = Add(count_idle, client[c].ep, 1),
         dropped' \subseteq dropped \cup {client[c].ep},
         UNCHANGED <<cleaning, waiters>>, BusUnchanged
  PROVE  PoolInv'
  <1>t. TypeOK /\ client[c] \in Client /\ client[c].ep \in Endpoints
    BY ZenonT(30) DEF PoolInv, TypeOK, Client
  <1>1. Follows(waiters, waiters', client[c].pc, client[c].ep, k, Waiting)
    BY Zenon DEF Follows, Waiting, Holding
  <1>2. Follows(count_active, count_active', client[c].pc, client[c].ep, k, Holding)
    BY Zenon DEF Follows, Holding
  <1>3. Moves(c, k)
    BY Zenon, <1>1, <1>2, FollowsMoves
  <1>4. count_idle' \in [Endpoints -> Nat]
    <2>1. count_idle \in [Endpoints -> Nat]
      BY SMTT(20), <1>t DEF TypeOK
    <2>2. Add(count_idle, client[c].ep, 1) \in [Endpoints -> Nat]
      BY <1>t, <2>1 DEF Add
    <2> QED
      BY Zenon, <2>1, <2>2
  <1>5. dropped' \subseteq Endpoints
    BY Zenon, <1>t DEF TypeOK
  <1>6. client[c].pc # "wait" /\ k.pc # "wait"
    BY SMTT(20) DEF Holding
  <1> QED
    BY SMTT(20), <1>3, <1>4, <1>5, <1>6, MoveKeepsInv

\* A client keeps its server, or gets the one it allocated into the pool.
LEMMA HoldKeepsInv ==
  ASSUME PoolInv, NEW c \in Clients, NEW k \in Client, k.pc \in Holding, Become(c, k),
         k.ep = client[c].ep, client[c].pc \in Holding \cup {"new"},
         count_active' = IF client[c].pc = "new" THEN Add(count_active, k.ep, 1) ELSE count_active,
         UNCHANGED <<count_idle, dropped, cleaning, waiters>>, BusUnchanged
  PROVE  PoolInv'
  <1>1. Follows(waiters, waiters', client[c].pc, client[c].ep, k, Waiting)
    BY SMTT(20) DEF Follows, Waiting, Holding
  <1>2. Follows(count_active, count_active', client[c].pc, client[c].ep, k, Holding)
    BY SMTT(20) DEF Follows, Holding
  <1>3. Moves(c, k)
    BY Zenon, <1>1, <1>2, FollowsMoves
  <1>4. count_idle' \in [Endpoints -> Nat] /\ dropped' \subseteq Endpoints
    BY Zenon DEF PoolInv, TypeOK
  <1>5. client[c].pc # "wait" /\ k.pc # "wait"
    BY Zenon DEF Holding
  <1> QED
    BY SMTT(20), <1>3, <1>4, <1>5, MoveKeepsInv

\* The steps of a client that has a server or is getting one.
LEMMA ServerKeepsInv ==
  ASSUME PoolInv, NEW c \in Clients,
         \/ od_router_attach_new_server(c) \/ od_frontend_attach_check(c)
         \/ od_frontend_attach_connected(c) \/ od_router_detach(c) \/ od_frontend_cleanup(c)
  PROVE  PoolInv'
  <1>t. client[c] \in Client /\ client[c].ep \in Endpoints /\ client[c].wait_for_idle \in BOOLEAN
    BY Zenon DEF PoolInv, TypeOK, Client
  <1>a. Active(client[c].ep) \in Client /\ Active(client[c].ep).pc = "active"
        /\ Active(client[c].ep).ep = client[c].ep
    BY ZenonT(30), <1>t DEF Active, Out, Start, Client
  <1>1. CASE od_router_attach_new_server(c)
    <2> DEFINE k == [client[c] EXCEPT !.pc = "connect"]
    <2>1. k \in Client /\ k.pc = "connect" /\ k.ep = client[c].ep
      BY Zenon, <1>t DEF Client
    <2> HIDE DEF k
    <2>2. Become(c, k) /\ BusUnchanged
      BY Zenon, <1>1 DEF od_router_attach_new_server, k, BusUnchanged
    <2>3. /\ client[c].pc = "new" /\ count_active' = Add(count_active, k.ep, 1)
          /\ UNCHANGED <<count_idle, cleaning, dropped, waiters>>
      BY SMTT(20), <1>1, <2>1 DEF od_router_attach_new_server
    <2> QED
      BY <2>1, <2>2, <2>3, HoldKeepsInv DEF Holding
  <1>2. ASSUME client[c].pc \in Holding, Become(c, Active(client[c].ep)), UNCHANGED poolVars,
               waiters' = waiters, BusUnchanged
        PROVE  PoolInv'
    <2>1. client[c].pc # "new"
      BY Zenon, <1>2 DEF Holding
    <2> QED
      BY SMTT(20), <1>2, <1>a, <2>1, HoldKeepsInv DEF Holding, poolVars
  <1>3. ASSUME client[c].pc \in Holding, NEW k \in Client, k.pc = "out", od_router_close(c, k),
               waiters' = waiters, BusUnchanged
        PROVE  PoolInv'
    BY SMTT(20), <1>3, LetGoKeepsInv DEF od_router_close, Undef
  <1>4. CASE od_frontend_attach_check(c)
    <2>1. client[c].pc \in Holding /\ waiters' = waiters /\ BusUnchanged
      BY Zenon, <1>4 DEF od_frontend_attach_check, Holding, BusUnchanged
    <2>2. Start(client[c].wait_for_idle) \in Client /\ Start(client[c].wait_for_idle).pc = "out"
      BY Zenon, <1>t, StartClient
    <2> QED
      BY SMTT(20), <1>2, <1>3, <1>4, <2>1, <2>2 DEF od_frontend_attach_check
  <1>5. CASE od_frontend_attach_connected(c)
    <2>1. client[c].pc \in Holding /\ waiters' = waiters /\ BusUnchanged
      BY Zenon, <1>5 DEF od_frontend_attach_connected, Holding, BusUnchanged
    <2>2. CASE \E wait_for_idle \in {TRUE, FALSE, client[c].wait_for_idle} :
                   od_router_close(c, IF wait_for_idle THEN Start(TRUE) ELSE Out)
      <3>1. PICK k \in {Start(TRUE), Out} : od_router_close(c, k)
        BY Zenon, <2>2
      <3> QED
        BY Zenon, <1>3, <2>1, <3>1, StartClient
    <2> QED
      BY Zenon, <1>2, <1>5, <2>1, <2>2 DEF od_frontend_attach_connected
  <1>6. CASE od_frontend_cleanup(c)
    <2>1. client[c].pc \in Holding /\ waiters' = waiters /\ BusUnchanged
      BY Zenon, <1>6 DEF od_frontend_cleanup, Holding, BusUnchanged
    <2> QED
      BY Zenon, <1>3, <1>6, <2>1, StartClient DEF od_frontend_cleanup
  <1>7. CASE od_router_detach(c)
    <2> DEFINE sig == [Start(FALSE) EXCEPT !.pc = "signal", !.ep = client[c].ep]
    <2>1. sig \in Client /\ sig.pc = "signal"
      BY Zenon, <1>t DEF Start, Client
    <2>2. PICK k \in {sig, Out} : Become(c, k)
      BY Zenon, <1>7 DEF od_router_detach
    <2>3. k \in Client /\ k.pc \in {"out", "signal"}
      BY Zenon, <2>1, <2>2, StartClient
    <2>4. /\ client[c].pc \in Holding /\ waiters' = waiters /\ cleaning' = cleaning /\ BusUnchanged
          /\ count_active' = Add(count_active, client[c].ep, -1)
          /\ count_idle' = count_idle \/ count_idle' = Add(count_idle, client[c].ep, 1)
          /\ dropped' \subseteq dropped \cup {client[c].ep}
      BY Zenon, <1>7 DEF od_router_detach, Undef, Holding, BusUnchanged
    <2> HIDE DEF sig
    <2> QED
      BY Zenon, <2>2, <2>3, <2>4, LetGoKeepsInv
  <1> QED
    BY SMTT(20), <1>1, <1>4, <1>5, <1>6, <1>7

\* The looks for a server.
LEMMA AttachKeepsInv ==
  ASSUME PoolInv, NEW c \in Clients,
         od_router_attach(c) \/ od_router_attach_relock(c) \/ od_server_allocate_fails(c)
  PROVE  PoolInv'
  <1>t. client[c] \in Client /\ client[c].ep \in Endpoints
    BY Zenon DEF PoolInv, TypeOK, Client
  <1>1. Free(c) /\ BusUnchanged
    BY Zenon DEF od_router_attach, od_router_attach_relock, od_server_allocate_fails, Free, Waiting,
                 Holding, BusUnchanged
  <1>2. [client[c] EXCEPT !.first = FALSE] \in Client
    BY ZenonT(30), <1>t DEF Client
  <1>3. \/ Iterate(c, client[c])
        \/ TryPool(c, [client[c] EXCEPT !.first = FALSE])
        \/ count_idle[client[c].ep] > 0 /\ Take(c, client[c].ep)
        \/ Become(c, Out) /\ UNCHANGED <<poolVars, waiters>>
    BY Zenon DEF od_router_attach, od_router_attach_relock, od_server_allocate_fails
  <1>4. CASE Become(c, Out) /\ UNCHANGED <<poolVars, waiters>>
    <2>1. Looks(c)
      BY Zenon, <1>1, <1>4, StartClient, StayLooks
    <2> QED
      BY Zenon, <1>1, <2>1, LooksKeepsInv
  <1>5. CASE \/ Iterate(c, client[c])
             \/ TryPool(c, [client[c] EXCEPT !.first = FALSE])
             \/ count_idle[client[c].ep] > 0 /\ Take(c, client[c].ep)
    <2>1. Looks(c)
      BY SMTT(20), <1>t, <1>1, <1>2, <1>5, IterateLooks, TryPoolLooks, TakeLooks
    <2> QED
      BY Zenon, <1>1, <2>1, LooksKeepsInv
  <1> QED
    BY Zenon, <1>3, <1>4, <1>5

\* The cron thread touches idle servers only.
LEMMA CronKeepsInv ==
  ASSUME PoolInv, od_router_expire \/ \E e \in Endpoints : cron_close_expired_prep_stmt(e)
  PROVE  PoolInv'
  <1>t. TypeOK
    BY SMTT(20) DEF PoolInv
  <1>1. UNCHANGED <<pool_timeout, count_active, waiters, busVars, client>>
    BY Zenon DEF od_router_expire, cron_close_expired_prep_stmt
  <1>2. /\ count_idle' \in [Endpoints -> Nat] /\ cleaning' \in [Endpoints -> Nat]
        /\ dropped' \subseteq Endpoints
    <2>1. CASE od_router_expire
      <3>1. PICK left \in [Endpoints -> 0 .. Cardinality(Clients)], clean \in [Endpoints -> 0 .. 1] :
                /\ count_idle' = left /\ cleaning' = clean
                /\ dropped' = dropped \cup
                       {e \in Endpoints : left[e] < count_idle[e] /\ count_active[e] = 0}
        BY Zenon, <2>1 DEF od_router_expire
      <3>2. 0 .. Cardinality(Clients) \subseteq Nat /\ 0 .. 1 \subseteq Nat
        OBVIOUS
      <3> QED
        BY Zenon, <1>t, <3>1, <3>2 DEF TypeOK
    <2>2. ASSUME NEW e \in Endpoints, cron_close_expired_prep_stmt(e)
          PROVE  /\ count_idle' \in [Endpoints -> Nat] /\ cleaning' \in [Endpoints -> Nat]
                 /\ dropped' \subseteq Endpoints
      BY SMTT(20), <1>t, <2>2 DEF cron_close_expired_prep_stmt, Add, TypeOK
    <2> QED
      BY Zenon, <2>1, <2>2
  <1>3. \A e, pcs : At(e, pcs)' = At(e, pcs)
    BY Zenon, <1>1 DEF At
  <1>4. TypeOK'
    BY Zenon, <1>t, <1>1, <1>2 DEF TypeOK, busVars
  <1> QED
    BY <1>1, <1>3, <1>4 DEF PoolInv, WaitersCounted, ServersHeld, WaitersQueued,
                            NoSleepOnSignal, busVars

-----------------------------------------------------------------------------
(* The theorems                                                            *)

\* At the start no client has a share in anything.
LEMMA InitInv == Init => PoolInv
  <1> SUFFICES ASSUME Init PROVE PoolInv
    BY Zenon
  <1>1. \A e, pcs : "out" \notin pcs => At(e, pcs) = {}
    BY Zenon, StartClient DEF Init, At
  <1>2. Cardinality({}) = 0
    BY Zenon, FS_EmptySet
  <1>3. TypeOK
    BY StartClient DEF Init, TypeOK
  <1>4. WaitersCounted
    BY Zenon, <1>1, <1>2 DEF Init, WaitersCounted, Waiting
  <1>5. ServersHeld
    BY Zenon, <1>1, <1>2 DEF Init, ServersHeld, Holding
  <1>6. WaitersQueued /\ NoSleepOnSignal
    BY <1>1 DEF Init, WaitersQueued, NoSleepOnSignal
  <1> QED
    BY Zenon, <1>3, <1>4, <1>5, <1>6 DEF PoolInv

\* Every step of a client or of the cron thread keeps the invariant.
LEMMA NextInv == PoolInv /\ [Next]_vars => PoolInv'
  <1> SUFFICES ASSUME PoolInv, [Next]_vars PROVE PoolInv'
    BY Zenon
  <1>1. CASE UNCHANGED vars
    <2>1. \A e, pcs : At(e, pcs)' = At(e, pcs)
      BY Zenon, <1>1 DEF At, vars
    <2> QED
      BY <1>1, <2>1 DEF PoolInv, TypeOK, WaitersCounted, ServersHeld, WaitersQueued,
                        NoSleepOnSignal, vars, poolVars, busVars
  <1>2. ASSUME NEW c \in Clients, od_router_attach(c) \/ Step(c)
        PROVE  PoolInv'
    BY SMTT(20), <1>2, AttachKeepsInv, ServerKeepsInv, ReadKeepsInv, WaitEndsKeepsInv, TimeoutKeepsInv,
       SignalKeepsInv DEF Step
  <1> QED
    BY Zenon, <1>1, <1>2, CronKeepsInv DEF Next

\* Over any number of clients, endpoints and servers, and in every interleaving of
\* attach, wait, signal, timeout, detach, close and cron: the counters stay
\* typed, and above zero in particular, and all of them are exact.
THEOREM PoolInvariance == Spec => []PoolInv
  BY InitInv, NextInv, PTL DEF Spec

\* No counter of a pool wraps below zero.
THEOREM PoolTypeCorrect == Spec => []TypeOK
  BY PoolInvariance, PTL DEF PoolInv

\* od_router_detach may trust the waiters counter when it decides to signal.
THEOREM WaitersExact == Spec => []WaitersCounted
  BY PoolInvariance, PTL DEF PoolInv

\* The active count that pool_size is compared with is the number of clients
\* that hold a server.
THEOREM ServersExact == Spec => []ServersHeld
  BY PoolInvariance, PTL DEF PoolInv

\* A signal never goes to a client that no longer sleeps on the wait_bus.
THEOREM QueueExact == Spec => []WaitersQueued
  BY PoolInvariance, PTL DEF PoolInv

\* No client sleeps on a wait_bus that keeps a message, although
\* od_route_signal is called without the route lock.
THEOREM SignalsTaken == Spec => []NoSleepOnSignal
  BY PoolInvariance, PTL DEF PoolInv
=============================================================================
