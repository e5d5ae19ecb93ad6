----------------------------- MODULE Listening -----------------------------
(***************************************************************************)
(* The listening sockets of the client ports and the limit on the          *)
(* connections accepted through them (max_special_connections): the accept *)
(* loop of net_accept_new_connections on the main thread, the CPU threads  *)
(* that close connections, and JS_AUX, which opens the ports again.        *)
(*                                                                         *)
(* A port at the limit is taken out of epoll by the main thread alone and  *)
(* put back by a close that finds the count at the limit; the count is     *)
(* touched by both without a lock.  Epoll is edge-triggered, and reports   *)
(* what waits on a socket when the socket is added.                        *)
(***************************************************************************)
EXTENDS Integers, FiniteSets

CONSTANTS
    Listeners,      \* special_socket[]
    Conns,          \* connections, used again once freed
    max_special_connections,
    max_accept_rate,     \* 0 is no limit
    max_connection_fd,
    MaxArrivals     \* bound: clients that come

ASSUME ListeningAssumption ==
    /\ IsFiniteSet(Conns)
    /\ max_special_connections \in Nat \ {0}
    /\ max_accept_rate \in Nat
    /\ max_connection_fd \in Nat
    /\ MaxArrivals \in Nat

VARIABLES
    in_epoll,       \* per listener: EVT_IN_EPOLL
    run, aux,       \* the listeners with JS_RUN, JS_AUX pending
    backlog,        \* per listener: clients that wait in the kernel
    arrived,        \* clients that have come
    main,           \* where the main thread is in the accept loop, and for which listener
    conn,           \* per connection: free, open, closing (its count is given back)
    wakes,          \* per connection: the listeners its close has still to signal
    active_special_connections,
    remaining,      \* cur_accept_rate_remaining
    stalled         \* listeners left by a failed accept; the next event of the port resumes

vars == <<in_epoll, run, aux, backlog, arrived, main, conn, wakes, active_special_connections, remaining, stalled>>

Idle == [pc |-> "idle"]
At(pc, l) == [pc |-> pc, l |-> l]
Used == {x \in Conns : conn[x] # "free"}

Init ==
    /\ in_epoll = [l \in Listeners |-> TRUE]
    /\ run = {}
    /\ aux = {}
    /\ backlog = [l \in Listeners |-> 0]
    /\ arrived = 0
    /\ main = Idle
    /\ conn = [x \in Conns |-> "free"]
    /\ wakes = [x \in Conns |-> {}]
    /\ active_special_connections = 0
    /\ remaining = 0
    /\ stalled = {}

-----------------------------------------------------------------------------
\* A client connects.
Arrive(l) ==
    /\ arrived < MaxArrivals
    /\ arrived' = arrived + 1
    /\ backlog' = [backlog EXCEPT ![l] = @ + 1]
    /\ run' = IF in_epoll[l] THEN run \cup {l} ELSE run
    /\ stalled' = IF in_epoll[l] THEN stalled \ {l} ELSE stalled
    /\ UNCHANGED <<in_epoll, aux, main, conn, wakes, active_special_connections, remaining>>

\* Time passes, and the accept rate allows connections again.
Refill ==
    /\ remaining < max_accept_rate
    /\ remaining' = remaining + 1
    /\ UNCHANGED <<in_epoll, run, aux, backlog, arrived, main, conn, wakes, active_special_connections, stalled>>

\* JS_RUN and JS_AUX of a listener, on the main thread; JS_AUX, the higher signal, is first.
MutantIgnoreAux(l) ==
    /\ main = Idle
    /\ l \in aux
    /\ aux' = aux \ {l}
    /\ in_epoll' = [in_epoll EXCEPT ![l] = @ \/ active_special_connections + 1 < max_special_connections]
    /\ run' = IF in_epoll[l] \/ backlog[l] = 0 THEN run ELSE run \cup {l}
    /\ stalled' = IF in_epoll[l] THEN stalled ELSE stalled \ {l}
    /\ UNCHANGED <<backlog, arrived, main, conn, wakes, active_special_connections, remaining>>

epoll_insert_listener(l) ==
    /\ main = Idle
    /\ l \in aux
    /\ aux' = aux \ {l}
    /\ in_epoll' = [in_epoll EXCEPT ![l] = TRUE]
    /\ run' = IF in_epoll[l] \/ backlog[l] = 0 THEN run ELSE run \cup {l}
    /\ stalled' = IF in_epoll[l] THEN stalled ELSE stalled \ {l}
    /\ UNCHANGED <<backlog, arrived, main, conn, wakes, active_special_connections, remaining>>

do_listening_connection_job(l) ==
    /\ main = Idle
    /\ l \in run \ aux
    /\ run' = run \ {l}
    /\ main' = At("accept", l)
    /\ UNCHANGED <<in_epoll, aux, backlog, arrived, conn, wakes, active_special_connections, remaining, stalled>>

\* The loop ends: the port is out of epoll, or no client waits.
accept_done ==
    /\ main.pc = "accept"
    /\ ~in_epoll[main.l] \/ backlog[main.l] = 0
    /\ main' = Idle
    /\ UNCHANGED <<in_epoll, run, aux, backlog, arrived, conn, wakes, active_special_connections, remaining, stalled>>

\* accept fails with anything but EAGAIN (no descriptor is to be had, a signal comes): the loop
\* ends with clients still waiting, and an edge-triggered event will not report them again.
accept_fails ==
    /\ main.pc = "accept"
    /\ in_epoll[main.l]
    /\ backlog[main.l] > 0
    /\ stalled' = stalled \cup {main.l}
    /\ main' = Idle
    /\ UNCHANGED <<in_epoll, run, aux, backlog, arrived, conn, wakes, active_special_connections, remaining>>

\* A client is accepted and dropped: the rate is exceeded, the access list refuses its
\* address, its descriptor is too high, or init_accepted fails.
accept_dropped ==
    /\ main.pc = "accept"
    /\ in_epoll[main.l]
    /\ backlog[main.l] > 0
    /\ backlog' = [backlog EXCEPT ![main.l] = @ - 1]
    /\ \/ max_accept_rate > 0 /\ remaining < 1 /\ UNCHANGED remaining
       \/ max_accept_rate = 0 /\ UNCHANGED remaining
       \/ remaining >= 1 /\ remaining' = remaining - 1
    /\ UNCHANGED <<in_epoll, run, aux, arrived, main, conn, wakes, active_special_connections, stalled>>

\* A client is accepted, alloc_new_connection up to the addition to the count.
alloc_new_connection ==
    /\ main.pc = "accept"
    /\ in_epoll[main.l]
    /\ backlog[main.l] > 0
    /\ max_accept_rate > 0 => remaining >= 1
    /\ Cardinality(Used) < max_connection_fd
    /\ backlog' = [backlog EXCEPT ![main.l] = @ - 1]
    /\ remaining' = IF max_accept_rate > 0 THEN remaining - 1 ELSE remaining
    /\ \E x \in Conns \ Used : conn' = [conn EXCEPT ![x] = "open"]
    /\ active_special_connections' = active_special_connections + 1
    /\ main' = At("check", main.l)
    /\ UNCHANGED <<in_epoll, run, aux, arrived, wakes, stalled>>

\* The count is read again and compared; a close may come before the port is taken out.
special_limit_check ==
    /\ main.pc = "check"
    /\ main' = At(IF active_special_connections >= max_special_connections THEN "remove" ELSE "accept", main.l)
    /\ UNCHANGED <<in_epoll, run, aux, backlog, arrived, conn, wakes, active_special_connections, remaining, stalled>>

epoll_remove_listener ==
    /\ main.pc = "remove"
    /\ in_epoll' = [in_epoll EXCEPT ![main.l] = FALSE]
    /\ main' = At("accept", main.l)
    /\ UNCHANGED <<run, aux, backlog, arrived, conn, wakes, active_special_connections, remaining, stalled>>

\* The special part of cpu_server_close_connection: the count goes down, and the close that
\* finds it at the limit signals every port.
MutantWakeAboveLimit(x) ==
    /\ conn[x] = "open"
    /\ conn' = [conn EXCEPT ![x] = "closing"]
    /\ active_special_connections' = active_special_connections - 1
    /\ wakes' = [wakes EXCEPT ![x] = IF active_special_connections > max_special_connections THEN Listeners ELSE {}]
    /\ UNCHANGED <<in_epoll, run, aux, backlog, arrived, main, remaining, stalled>>

cpu_server_close_connection(x) ==
    /\ conn[x] = "open"
    /\ conn' = [conn EXCEPT ![x] = "closing"]
    /\ active_special_connections' = active_special_connections - 1
    /\ wakes' = [wakes EXCEPT ![x] = IF active_special_connections = max_special_connections THEN Listeners ELSE {}]
    /\ UNCHANGED <<in_epoll, run, aux, backlog, arrived, main, remaining, stalled>>

signal_listener(x, l) ==
    /\ l \in wakes[x]
    /\ aux' = aux \cup {l}
    /\ wakes' = [wakes EXCEPT ![x] = @ \ {l}]
    /\ UNCHANGED <<in_epoll, run, backlog, arrived, main, conn, active_special_connections, remaining, stalled>>

\* The connection is freed, its descriptor closed.
cpu_server_free_connection(x) ==
    /\ conn[x] = "closing"
    /\ wakes[x] = {}
    /\ conn' = [conn EXCEPT ![x] = "free"]
    /\ UNCHANGED <<in_epoll, run, aux, backlog, arrived, main, wakes, active_special_connections, remaining, stalled>>

-----------------------------------------------------------------------------
Main ==
    \/ \E l \in Listeners : epoll_insert_listener(l) \/ do_listening_connection_job(l)
    \/ accept_done
    \/ accept_fails
    \/ accept_dropped
    \/ alloc_new_connection
    \/ special_limit_check
    \/ epoll_remove_listener
Cpu(x) ==
    \/ cpu_server_close_connection(x)
    \/ \E l \in Listeners : signal_listener(x, l)
    \/ cpu_server_free_connection(x)

Next ==
    \/ \E l \in Listeners : Arrive(l)
    \/ Refill
    \/ Main
    \/ \E x \in Conns : Cpu(x)

\* The threads run, and clients do not stay for ever.
Fairness == WF_vars(Main) /\ \A x \in Conns : WF_vars(Cpu(x))
Spec == Init /\ [][Next]_vars /\ Fairness

-----------------------------------------------------------------------------
TypeOK ==
    /\ in_epoll \in [Listeners -> BOOLEAN]
    /\ run \subseteq Listeners
    /\ aux \subseteq Listeners
    /\ backlog \in [Listeners -> Nat]
    /\ arrived \in Nat
    /\ main \in [pc : {"idle"}] \cup [pc : {"accept", "check", "remove"}, l : Listeners]
    /\ conn \in [Conns -> {"free", "open", "closing"}]
    /\ wakes \in [Conns -> SUBSET Listeners]
    /\ active_special_connections \in Int
    /\ remaining \in Nat
    /\ stalled \subseteq Listeners

\* The count is the number of connections open: alloc_new_connection and
\* cpu_server_close_connection keep it without a lock, and on every path once each.
SpecialCounted == active_special_connections = Cardinality({x \in Conns : conn[x] = "open"})

\* the limit explains that a port is closed, or its JS_AUX is on the way
Reopening(l) ==
    \/ active_special_connections >= max_special_connections
    \/ l \in aux
    \/ \E x \in Conns : l \in wakes[x]

\* A client port is never left closed for no reason: while it is out of epoll the count is
\* at the limit, or the port has been signalled, or a close is about to signal it.
PortsReopen == \A l \in Listeners : ~in_epoll[l] => Reopening(l)

\* The inductive invariant behind the two: between the comparison with the limit and the
\* removal of the port a close may have taken the count below the limit, and then the
\* port's signal is already on its way; only a close that is not over has signals to send.
LimitInv ==
    /\ TypeOK
    /\ SpecialCounted
    /\ PortsReopen
    /\ main.pc = "remove" => Reopening(main.l)
    /\ \A x \in Conns : wakes[x] # {} => conn[x] = "closing"

\* Whoever waits on a port is accepted or dropped in the end, if connections end, whatever the
\* limit did to the port meanwhile; unless accept itself has failed, which
\* net_accept_new_connections does not come back to before another client arrives.
EveryClientServed == \A l \in Listeners : backlog[l] > 0 ~> (backlog[l] = 0 \/ l \in stalled)
=============================================================================
