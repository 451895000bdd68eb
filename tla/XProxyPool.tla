----------------------------- MODULE XProxyPool -----------------------------
(***************************************************************************)
(* The server pools of one XProxy route (contrib/xproxy/sources/router.c,  *)
(* route.h, frontend.c, cron.c): clients attach to a pooled server         *)
(* connection of an endpoint with the role they need, wait on the          *)
(* endpoint's wait_bus when its pool is full, and detach or close.  The    *)
(* cron thread takes idle servers out of the pools.  Which endpoints have  *)
(* the role a client needs, by what the watchdog saw last, is left open at *)
(* every look.                                                             *)
(*                                                                         *)
(* A step is what one thread does under one hold of the route lock, of a   *)
(* channel's lock, or one atomic update of a waiters counter.  Servers of  *)
(* a pool are interchangeable, so a pool is two counts.  "pc" of a client: *)
(*   out        no server, or between two looks for one                    *)
(*   read       counted as a waiter      wait      queued on the wait_bus  *)
(*   signalled  handed a message         taken     found one that was kept *)
(*   timedout   off the wait_bus         relock    to take the lock again  *)
(*   new        allocating a server      connect   in od_backend_connect   *)
(*   attached   attached to a used one   active    relaying                *)
(*   signal     detached, to signal                                        *)
(***************************************************************************)
EXTENDS Integers, Sequences, FiniteSets

CONSTANTS
    Clients,
    NEndpoints,        \* endpoints of the storage
    PoolSize,          \* pool_size of the rule, 0: no limit
    ServerMaxRouting,  \* server_max_routing: connects under way at a time
    MaxMsgs            \* bound: messages kept in a wait_bus

Endpoints == 0 .. NEndpoints - 1
NoEndpoint == -1

ASSUME PoolAssumption ==
    /\ NEndpoints \in Nat \ {0} /\ PoolSize \in Nat /\ ServerMaxRouting \in Nat \ {0}
    /\ MaxMsgs \in Nat \ {0} /\ IsFiniteSet(Clients)

VARIABLES
    pool_timeout,     \* is pool_timeout set?  0 in the rule waits for ever
    count_idle, count_active,  \* servers in each pool
    cleaning,         \* servers on the cron thread's prep_stmt_clean_list
    waiters,          \* route->waiters
    msgs, readers,    \* each wait_bus: messages kept, clients queued
    client,
    dropped           \* endpoints where the last server that left use was closed,
                      \* not given back to the pool, or given back without the
                      \* signal; not in the program

poolVars == <<count_idle, count_active, cleaning, dropped>>
busVars == <<msgs, readers>>
vars == <<pool_timeout, poolVars, waiters, busVars, client>>

----------------------------------------------------------------------------
\* What od_router_attach starts with: its locals, and the client's flag.
Start(wait_for_idle) ==
    [pc |-> "out", wait_for_idle |-> wait_for_idle, first |-> TRUE, ep |-> 0]

Out == Start(FALSE)

\* The flag means nothing once the client is attached.
Active(e) == [Out EXCEPT !.pc = "active", !.ep = e]

Become(c, k) == client' = [client EXCEPT ![c] = k]
Add(f, e, n) == [f EXCEPT ![e] = @ + n]

Init ==
    /\ pool_timeout \in BOOLEAN
    /\ count_idle = [e \in Endpoints |-> 0]
    /\ count_active = [e \in Endpoints |-> 0]
    /\ cleaning = [e \in Endpoints |-> 0]
    /\ waiters = [e \in Endpoints |-> 0]
    /\ msgs = [e \in Endpoints |-> 0]
    /\ readers = [e \in Endpoints |-> <<>>]
    /\ client = [c \in Clients |-> Out]
    /\ dropped = {}

----------------------------------------------------------------------------
(* od_router_attach *)

servers_routing == Cardinality({c \in Clients : client[c].pc = "connect"})

od_should_not_spun_connection_yet(connections_in_pool) ==
    LET ramp == (ServerMaxRouting * (PoolSize - connections_in_pool * 2)) \div PoolSize
        max_routing == IF PoolSize = 0 THEN ServerMaxRouting
                       ELSE IF ramp <= 0 THEN 1 ELSE ramp
    IN  servers_routing >= max_routing

\* goto attach with an idle server.
Take(c, e) ==
    /\ count_idle' = Add(count_idle, e, -1)
    /\ count_active' = Add(count_active, e, 1)
    /\ Become(c, [Start(client[c].wait_for_idle) EXCEPT !.pc = "attached", !.ep = e])
    /\ UNCHANGED <<cleaning, dropped, waiters>>

od_route_inc_waiters(e) == waiters' = Add(waiters, e, 1)

Allocate(c, k) ==
    Become(c, [Start(k.wait_for_idle) EXCEPT !.pc = "new", !.ep = k.ep])

\* No idle server but active ones: start another, spin while too many are
\* being started, or wait for a signal.
WaitOrGrow(c, k) ==
    LET room == ~k.wait_for_idle /\ (PoolSize = 0 \/ count_active[k.ep] < PoolSize)
        spin == od_should_not_spun_connection_yet(count_active[k.ep])
    IN  /\ \/ /\ room /\ spin
              /\ Become(c, [k EXCEPT !.pc = "out"])
              /\ UNCHANGED waiters
           \/ /\ room /\ ~spin
              /\ Allocate(c, k)
              /\ UNCHANGED waiters
           \/ /\ ~room
              /\ od_route_inc_waiters(k.ep)
              /\ Become(c, [k EXCEPT !.pc = "read"])
        /\ UNCHANGED poolVars

\* The rest of an iteration, once the first one has let earlier waiters pass.
TryPool(c, k) ==
    \/ /\ count_idle[k.ep] > 0
       /\ Take(c, k.ep)
    \/ /\ count_idle[k.ep] = 0 /\ count_active[k.ep] = 0
       /\ Allocate(c, k)
       /\ UNCHANGED <<poolVars, waiters>>
    \/ /\ count_idle[k.ep] = 0 /\ count_active[k.ep] > 0
       /\ WaitOrGrow(c, k)

\* One iteration of the loop, under the route lock.  When no endpoint will do
\* the loop goes on, or gives up after 20 times.
Iterate(c, k) ==
    \/ /\ \E next \in {[k EXCEPT !.pc = "out"], Out} : Become(c, next)
       /\ UNCHANGED <<poolVars, waiters>>
    \/ \E e \in Endpoints :
        \/ /\ k.first /\ waiters[e] > count_idle[e]
           /\ od_route_inc_waiters(e)
           /\ Become(c, [k EXCEPT !.pc = "read", !.ep = e])
           /\ UNCHANGED poolVars
        \/ /\ k.first => waiters[e] <= count_idle[e]
           /\ TryPool(c, [k EXCEPT !.first = FALSE, !.ep = e])

od_router_attach(c) ==
    /\ client[c].pc = "out"
    /\ Iterate(c, client[c])
    /\ UNCHANGED <<pool_timeout, busVars>>

\* Back from od_route_wait: the first wait goes on with the pool it chose, the
\* later ones take an idle server of that pool or start over.
od_router_attach_relock(c) ==
    LET k == client[c]
    IN  /\ k.pc = "relock"
        /\ IF k.first THEN TryPool(c, [k EXCEPT !.first = FALSE])
           ELSE IF count_idle[k.ep] > 0 THEN Take(c, k.ep) ELSE Iterate(c, k)
        /\ UNCHANGED <<pool_timeout, busVars>>

\* The new server joins the pool, unchecked: the lock was released since.
\* servers_routing, which paces the starts, is taken to rise with it.
od_router_attach_new_server(c) ==
    /\ client[c].pc = "new"
    /\ count_active' = Add(count_active, client[c].ep, 1)
    /\ Become(c, [client[c] EXCEPT !.pc = "connect"])
    /\ UNCHANGED <<pool_timeout, count_idle, cleaning, dropped, waiters, busVars>>

\* No memory for it.
od_server_allocate_fails(c) ==
    /\ client[c].pc = "new"
    /\ Become(c, Out)
    /\ UNCHANGED <<pool_timeout, poolVars, waiters, busVars>>

----------------------------------------------------------------------------
(* od_route_wait and od_route_signal on a machinarium channel *)

\* Mutant: a reader queues without a look at the messages kept.
HasMessage_Never(e) == FALSE

HasMessage(e) == msgs[e] > 0 /\ readers[e] = <<>>

mm_channel_read(c) ==
    LET e == client[c].ep
    IN  /\ client[c].pc = "read"
        /\ \/ /\ HasMessage(e)
              /\ msgs' = Add(msgs, e, -1)
              /\ Become(c, [client[c] EXCEPT !.pc = "taken"])
              /\ UNCHANGED readers
           \/ /\ ~HasMessage(e)
              /\ readers' = [readers EXCEPT ![e] = Append(@, c)]
              /\ Become(c, [client[c] EXCEPT !.pc = "wait"])
              /\ UNCHANGED msgs
        /\ UNCHANGED <<pool_timeout, poolVars, waiters>>

\* Mutant: the error path forgets to take back the count.
ReadStopFailed_StillCounted(c) == Become(c, Out) /\ UNCHANGED waiters

ReadStopFailed(c) ==
    /\ Become(c, Out)
    /\ waiters' = Add(waiters, client[c].ep, -1)

\* The client's own socket fails before a later wait.
od_io_read_stop_fails(c) ==
    /\ client[c].pc = "read" /\ ~client[c].first
    /\ ReadStopFailed(c)
    /\ UNCHANGED <<pool_timeout, poolVars, busVars>>

od_route_wait_ok(c) ==
    /\ client[c].pc \in {"signalled", "taken"}
    /\ waiters' = Add(waiters, client[c].ep, -1)
    /\ Become(c, [client[c] EXCEPT !.pc = "relock"])
    /\ UNCHANGED <<pool_timeout, poolVars, busVars>>

\* Mutant: the reader stays in the queue.
Unlink_Left(s, i) == s

\* s without its i-th element.
Unlink(s, i) == [j \in 1 .. Len(s) - 1 |-> IF j < i THEN s[j] ELSE s[j + 1]]

\* A wait ends by time: 100 ms for the first one, pool_timeout for the others.
\* A message that was handed over meanwhile is freed.  The waiter is still
\* counted.
od_route_wait_timedout(c) ==
    LET k == client[c]
    IN  /\ ~k.first => pool_timeout
        /\ \/ /\ k.pc = "wait"
              /\ \E i \in DOMAIN readers[k.ep] :
                     /\ readers[k.ep][i] = c
                     /\ readers' = [readers EXCEPT ![k.ep] = Unlink(@, i)]
           \/ /\ k.pc = "signalled"
              /\ UNCHANGED readers
        /\ Become(c, [k EXCEPT !.pc = "timedout"])
        /\ UNCHANGED <<pool_timeout, poolVars, waiters, msgs>>

od_route_wait_failed(c) ==
    LET k == client[c]
    IN  /\ k.pc = "timedout"
        /\ waiters' = Add(waiters, k.ep, -1)
        /\ Become(c, IF k.first THEN [k EXCEPT !.pc = "relock"] ELSE Out)
        /\ UNCHANGED <<pool_timeout, poolVars, busVars>>

\* mm_channel_write: to the reader that has waited longest, or kept.  There is
\* no signal when there is no memory for a message.
od_route_signal(c) ==
    LET e == client[c].ep
    IN  /\ client[c].pc = "signal"
        /\ \/ /\ readers[e] # <<>>
              /\ readers' = [readers EXCEPT ![e] = Tail(@)]
              /\ client' = [client EXCEPT ![c] = Out,
                                          ![Head(readers[e])].pc = "signalled"]
              /\ UNCHANGED <<msgs, dropped>>
           \/ /\ readers[e] = <<>> /\ msgs[e] < MaxMsgs
              /\ msgs' = Add(msgs, e, 1)
              /\ Become(c, Out)
              /\ UNCHANGED <<readers, dropped>>
           \/ /\ dropped' = dropped \cup {e}
              /\ Become(c, Out)
              /\ UNCHANGED busVars
        /\ UNCHANGED <<pool_timeout, count_idle, count_active, cleaning, waiters>>

----------------------------------------------------------------------------
(* Detach, close, and the frontend *)

\* Mutant: the server is taken off the idle list.
Undef_WrongList(e) ==
    /\ count_idle' = Add(count_idle, e, -1)
    /\ dropped' = dropped \cup {e}
    /\ UNCHANGED <<count_active, cleaning>>

\* A server of the client is taken off the active list and not put on another.
Undef(e) ==
    /\ count_active' = Add(count_active, e, -1)
    /\ dropped' = dropped \cup {e}
    /\ UNCHANGED <<count_idle, cleaning>>

\* Mutant: the server of a client that gives up stays on the active list.
od_router_close_Leak(c, k) == Become(c, k) /\ UNCHANGED poolVars

\* od_router_close; nobody is signalled.
od_router_close(c, k) ==
    /\ Undef(client[c].ep)
    /\ Become(c, k)

\* Mutant: one signal for all servers that are idle.
SignalNeeded_FirstIdle(e) == waiters[e] > 0 /\ count_idle[e] = 0

SignalNeeded(e) == waiters[e] > 0

\* The transaction is over and the server was reset: it goes back to the pool,
\* or, flagged offline by a reload, is closed.  Waiters are signalled after
\* the lock is released.
od_router_detach(c) ==
    LET e == client[c].ep
    IN  /\ client[c].pc = "active"
        /\ \/ /\ count_idle' = Add(count_idle, e, 1)
              /\ count_active' = Add(count_active, e, -1)
              /\ dropped' = dropped \ {e}
              /\ UNCHANGED cleaning
           \/ Undef(e)
        /\ Become(c, IF SignalNeeded(e) THEN [Start(FALSE) EXCEPT !.pc = "signal", !.ep = e]
                                        ELSE Out)
        /\ UNCHANGED <<pool_timeout, waiters, busVars>>

\* What od_frontend_attach does with a used server: it is ready if it is still
\* connected, else it is closed and the client attaches again.
od_frontend_attach_check(c) ==
    /\ client[c].pc = "attached"
    /\ \/ /\ Become(c, Active(client[c].ep))
          /\ UNCHANGED poolVars
       \/ od_router_close(c, Start(client[c].wait_for_idle))
    /\ UNCHANGED <<pool_timeout, waiters, busVars>>

\* The connect ends: done, refused with "too many connections" or failed.  A
\* failure that is seen after the startup (the plugin check timing out) leaves
\* the flag as an earlier refusal set it.
od_frontend_attach_connected(c) ==
    /\ client[c].pc = "connect"
    /\ \/ /\ Become(c, Active(client[c].ep))
          /\ UNCHANGED poolVars
       \/ \E wait_for_idle \in {TRUE, FALSE, client[c].wait_for_idle} :
              od_router_close(c, IF wait_for_idle THEN Start(TRUE) ELSE Out)
    /\ UNCHANGED <<pool_timeout, waiters, busVars>>

\* The server fails, or cannot be reset.
od_frontend_cleanup(c) ==
    /\ client[c].pc = "active"
    /\ od_router_close(c, Out)
    /\ UNCHANGED <<pool_timeout, waiters, busVars>>

----------------------------------------------------------------------------
(* The cron thread *)

\* A tick takes idle servers off the pools: to close them, or to close
\* prepared statements on them.  How long they were idle is left open.
od_router_expire ==
    /\ \A e \in Endpoints : cleaning[e] = 0
    /\ \E left \in [Endpoints -> 0 .. Cardinality(Clients)], clean \in [Endpoints -> 0 .. 1] :
        /\ \A e \in Endpoints : left[e] + clean[e] <= count_idle[e]
        /\ count_idle' = left
        /\ cleaning' = clean
        /\ dropped' = dropped \cup {e \in Endpoints : left[e] < count_idle[e] /\ count_active[e] = 0}
    /\ UNCHANGED <<pool_timeout, count_active, waiters, busVars, client>>

\* The server comes back, and nobody is signalled, or it is closed.
cron_close_expired_prep_stmt(e) ==
    /\ cleaning[e] > 0
    /\ cleaning' = Add(cleaning, e, -1)
    /\ \E n \in {0, 1} : count_idle' = Add(count_idle, e, n)
    /\ UNCHANGED <<pool_timeout, count_active, dropped, waiters, busVars, client>>

----------------------------------------------------------------------------
Step(c) ==
    \/ od_router_attach_relock(c)
    \/ od_router_attach_new_server(c)
    \/ od_server_allocate_fails(c)
    \/ mm_channel_read(c)
    \/ od_io_read_stop_fails(c)
    \/ od_route_wait_ok(c)
    \/ od_route_wait_timedout(c)
    \/ od_route_wait_failed(c)
    \/ od_route_signal(c)
    \/ od_frontend_attach_check(c)
    \/ od_frontend_attach_connected(c)
    \/ od_router_detach(c)
    \/ od_frontend_cleanup(c)

Next ==
    \/ \E c \in Clients : od_router_attach(c) \/ Step(c)
    \/ od_router_expire
    \/ \E e \in Endpoints : cron_close_expired_prep_stmt(e)

Spec == Init /\ [][Next]_vars

\* Coroutines are scheduled, waits with a time limit end, connects succeed or
\* fail, and a client that holds a server ends its transaction.
FairSpec == Spec /\ \A c \in Clients : WF_vars(Step(c))

----------------------------------------------------------------------------
Client == [pc : {"out", "read", "wait", "signalled", "taken", "timedout", "relock", "new",
                 "attached", "connect", "active", "signal"},
           wait_for_idle : BOOLEAN, first : BOOLEAN, ep : Endpoints]
Waiting == {"read", "wait", "signalled", "taken", "timedout"}
Holding == {"attached", "connect", "active"}
At(e, pcs) == {c \in Clients : client[c].ep = e /\ client[c].pc \in pcs}

\* Every variable keeps its type; in particular no counter of the pools or of
\* the waiters wraps below zero.
TypeOK ==
    /\ pool_timeout \in BOOLEAN
    /\ count_idle \in [Endpoints -> Nat] /\ count_active \in [Endpoints -> Nat]
    /\ cleaning \in [Endpoints -> Nat] /\ waiters \in [Endpoints -> Nat]
    /\ msgs \in [Endpoints -> Nat] /\ readers \in [Endpoints -> Seq(Clients)]
    /\ dropped \subseteq Endpoints
    /\ client \in [Clients -> Client]

\* od_router_detach signals by the waiters counter alone.  It is exactly the
\* number of clients between their decision to wait and their wake-up, over
\* all the ways a wait ends.
WaitersCounted == \A e \in Endpoints : waiters[e] = Cardinality(At(e, Waiting))

\* A server on the active list of a pool is held by exactly one client, over
\* failed connects, refused and broken servers and resets that fail: the
\* count that pool_size and the next attach go by does not drift.
ServersHeld == \A e \in Endpoints : count_active[e] = Cardinality(At(e, Holding))

\* The queue of a wait_bus holds each client that sleeps on it once, and no
\* other: a signal goes to a client that is still there to take it, although
\* waits end by time as well.
WaitersQueued ==
    \A e \in Endpoints :
        /\ \A i, j \in DOMAIN readers[e] : readers[e][i] = readers[e][j] => i = j
        /\ \A i \in DOMAIN readers[e] : readers[e][i] \in At(e, {"wait"})
        /\ \A c \in At(e, {"wait"}) : \E i \in DOMAIN readers[e] : readers[e][i] = c

\* No client sleeps on a wait_bus that holds a signal, although signals are
\* sent without the route lock and may come before the waiter has queued.
NoSleepOnSignal ==
    \A e \in Endpoints : msgs[e] > 0 => readers[e] = <<>>

\* A client that waits for a server, with pool_timeout 0 too, is woken in the
\* end: whoever takes the idle server that a signal announced signals again
\* when it detaches.  It may be left behind only when servers of its endpoint
\* are not put back by od_router_detach but closed, when its signal finds no
\* memory, or when the cron thread takes the last one.  Clients are interchangeable: it is stated of one.
WaiterWoken ==
    LET c == CHOOSE c \in Clients : TRUE
    IN  client[c].pc = "wait" ~> (client[c].pc # "wait" \/ client[c].ep \in dropped)
=============================================================================
