------------------------------- MODULE Relay -------------------------------
(***************************************************************************)
(* The relay of mtproto-proxy.c: client queries forwarded to middle-end    *)
(* connections, answers brought back, and the table of ext_connections     *)
(* that ties the two together.                                             *)
(*                                                                         *)
(* The table belongs to the engine thread.  The connections belong to the  *)
(* CPU threads, which hand the engine queries, packets (both through the   *)
(* job queue of JC_ENGINE) and "ready" and "close" notifications (through  *)
(* the queue of one notification job, net-thread.c).  The notification job *)
(* drains its queue whenever it runs, so a close may overtake a query that *)
(* was handed over before it.                                              *)
(*                                                                         *)
(* A file descriptor is free for another connection only once the last     *)
(* reference to its connection is dropped; every notification and every    *)
(* job of the engine holds one.                                            *)
(***************************************************************************)
EXTENDS Integers, Sequences

CONSTANTS
    Clients,      \* inbound connections; identity is (fd, generation)
    Outs,         \* connections to the middle-ends
    Fds,          \* file descriptors, positive numbers
    EXT_CONN_TABLE_SIZE,
    NoConn,
    MaxQueries,   \* bound: queries a client sends
    MaxRelay      \* bound: queries, middle-end packets and middle-end closes in all

ASSUME RelayAssumption ==
    /\ EXT_CONN_TABLE_SIZE \in Nat \ {0}
    /\ Fds \subseteq 1 .. EXT_CONN_TABLE_SIZE - 1
    /\ Clients \cap Outs = {}
    /\ NoConn \notin Clients \cup Outs

VARIABLES
    conn,         \* per connection: fd, status, whether its socket lives, answers received
    dropped,      \* clients with RPC_F_DROPPED
    ex,           \* per in_fd: the ext_connection, or none
    slot,         \* OutExtConnections[h].out_conn_id
    out,          \* per fd: the middle-end connection whose list hangs at ExtConnectionHead[fd]
    tag,          \* middle-end connections with extra_int = get_conn_tag
    lru,          \* the in_fds of ConnLRU, oldest first
    eq,           \* the job queue of JC_ENGINE
    nq,           \* the queue of the notification job
    active_ips,   \* ip_stats_connect less ip_stats_disconnect
    remote,       \* per middle-end connection: requests it has not answered
    told,         \* per middle-end connection: ids it opened / ids either side closed
    asked,        \* per client: queries handed to the engine
    forwarded,    \* per client: numbers of the queries sent on
    steps,        \* bound
    aborted       \* an assertion has failed

table == <<ex, slot, out, tag, lru>>
peers == <<remote, told, asked, forwarded>>
vars == <<conn, dropped, table, eq, nq, active_ips, peers, steps, aborted>>

Conns == Clients \cup Outs
Malformed == 0
NoEx == [in |-> NoConn, out |-> NoConn, id |-> 0]

Init ==
    /\ conn = [x \in Conns |-> [fd |-> 0, st |-> "none", sock |-> FALSE, got |-> {}]]
    /\ dropped = {}
    /\ ex = [f \in Fds |-> NoEx]
    /\ slot = [f \in Fds |-> 0]
    /\ out = [f \in Fds |-> NoConn]
    /\ tag = {}
    /\ lru = <<>>
    /\ eq = <<>>
    /\ nq = <<>>
    /\ active_ips = 0
    /\ remote = [o \in Outs |-> {}]
    /\ told = [o \in Outs |-> [opened |-> {}, closed |-> {}]]
    /\ asked = [c \in Clients |-> 0]
    /\ forwarded = [c \in Clients |-> {}]
    /\ steps = 0
    /\ aborted = FALSE

(* ---- connections and queues ------------------------------------------ *)

\* connection_get_by_fd_generation, for the connection a record names.
Live(x) == x # NoConn /\ conn[x].sock
Fail(cs) == [x \in Conns |-> IF x \in cs /\ conn[x].st = "open" THEN [conn[x] EXCEPT !.st = "failed"] ELSE conn[x]]

FreeFds == Fds \ {conn[x].fd : x \in {y \in Conns : conn[y].st \notin {"none", "freed"}}}

notification_event_insert_conn(x, type) ==
    /\ nq' = Append(nq, [ev |-> type, who |-> x])
    /\ eq' = IF \E i \in 1 .. Len(eq) : eq[i].job = "notify" THEN eq ELSE Append(eq, [job |-> "notify"])

\* A connection is accepted or made: the client's ready event comes at once,
\* the middle-end's when its handshake is over.
Open(x) ==
    /\ conn[x].st = "none"
    /\ \E f \in FreeFds : conn' = [conn EXCEPT ![x] = [@ EXCEPT !.fd = f, !.st = "open", !.sock = TRUE]]
    /\ notification_event_insert_conn(x, "ready")
    /\ UNCHANGED <<dropped, table, active_ips, peers, steps, aborted>>

SocketFails(x) ==
    /\ conn[x].sock
    /\ conn' = [conn EXCEPT ![x].sock = FALSE]
    /\ UNCHANGED <<dropped, table, eq, nq, active_ips, peers, steps, aborted>>

\* JS_ABORT of do_connection_job: tcp_rpcs_close_connection, tcp_rpcc_close_connection.
Close(x) ==
    /\ conn[x].st = "failed" \/ (conn[x].st = "open" /\ ~conn[x].sock)
    /\ conn' = [conn EXCEPT ![x] = [@ EXCEPT !.st = "closed", !.sock = FALSE]]
    /\ notification_event_insert_conn(x, "close")
    /\ UNCHANGED <<dropped, table, active_ips, peers, steps, aborted>>

Referenced(x) ==
    \/ \E i \in 1 .. Len(nq) : nq[i].who = x
    \/ \E i \in 1 .. Len(eq) : eq[i].job # "notify" /\ eq[i].who = x

cpu_server_free_connection(x) ==
    /\ conn[x].st = "closed"
    /\ ~Referenced(x)
    /\ conn' = [conn EXCEPT ![x].st = "freed"]
    /\ UNCHANGED <<dropped, table, eq, nq, active_ips, peers, steps, aborted>>

(* ---- what the CPU threads hand to the engine -------------------------- *)

ext_rpcs_execute(c) ==
    /\ conn[c].st \in {"open", "failed"}
    /\ asked[c] < MaxQueries /\ steps < MaxRelay
    /\ \/ /\ asked' = [asked EXCEPT ![c] = @ + 1]
          /\ eq' = Append(eq, [job |-> "query", who |-> c, n |-> asked[c] + 1, flags |-> c \in dropped])
       \/ /\ eq' = Append(eq, [job |-> "query", who |-> c, n |-> Malformed, flags |-> c \in dropped])
          /\ UNCHANGED asked
    /\ steps' = steps + 1
    /\ UNCHANGED <<conn, dropped, table, nq, active_ips, remote, told, forwarded, aborted>>

\* check_conn_buffers, in ext_rpcs_execute and in client_send_message.
check_conn_buffers(c) ==
    /\ conn[c].st = "open"
    /\ asked[c] > 0
    /\ conn' = Fail({c})
    /\ UNCHANGED <<dropped, table, eq, nq, active_ips, peers, steps, aborted>>

\* The middle-end answers a request, or acknowledges it first.
MiddleEndAnswers(o) ==
    /\ Live(o) /\ steps < MaxRelay
    /\ \E r \in remote[o] :
        \/ /\ remote' = [remote EXCEPT ![o] = @ \ {r}]
           /\ eq' = Append(eq, [job |-> "RPC_PROXY_ANS", who |-> o, id |-> r.id, to |-> r.q])
        \/ /\ remote' = [remote EXCEPT ![o] = @ \ {r}]
           /\ eq' = Append(eq, [job |-> "RPC_SIMPLE_ACK", who |-> o, id |-> r.id, to |-> r.q])
    /\ steps' = steps + 1
    /\ UNCHANGED <<conn, dropped, table, nq, active_ips, told, asked, forwarded, aborted>>

MiddleEndCloses(o) ==
    /\ Live(o) /\ steps < MaxRelay
    /\ \E id \in told[o].opened \ told[o].closed :
        /\ told' = [told EXCEPT ![o].closed = @ \cup {id}]
        /\ eq' = Append(eq, [job |-> "RPC_CLOSE_EXT", who |-> o, id |-> id])
    /\ steps' = steps + 1
    /\ UNCHANGED <<conn, dropped, table, nq, active_ips, remote, asked, forwarded, aborted>>

(* ---- the table --------------------------------------------------------- *)

Has(f) == ex[f] # NoEx

MutantFind(id) ==
    LET f == id % EXT_CONN_TABLE_SIZE IN IF f \in Fds /\ Has(f) THEN {f} ELSE {}
find_ext_connection_by_out_conn_id(id) ==
    LET f == id % EXT_CONN_TABLE_SIZE IN IF f \in Fds /\ Has(f) /\ slot[f] = id THEN {f} ELSE {}

\* The in_fds of the ext_connections removed leave the hash, both lists and the LRU.
Unlinked(fs) == [f \in Fds |-> IF f \in fs THEN NoEx ELSE ex[f]]
lru_delete_ext_conn(fs) == SelectSeq(lru, LAMBDA f : f \notin fs)
lru_insert_conn(c) ==
    IF Has(conn[c].fd) /\ ex[conn[c].fd].in = c THEN Append(lru_delete_ext_conn({conn[c].fd}), conn[c].fd) ELSE lru

\* _notify_remote_closed for the ids a removal drops, where the connection lives.
Notified(t, o, ids) == IF Live(o) THEN [t EXCEPT ![o].closed = @ \cup ids] ELSE t

\* remove_ext_connection(Ex, 1), for the one ext_connection of an in_fd.
MutantSilent(f) ==
    /\ ex' = Unlinked({f})
    /\ lru' = lru_delete_ext_conn({f})
    /\ told' = told
RemoveAndNotify(f) ==
    /\ ex' = Unlinked({f})
    /\ lru' = lru_delete_ext_conn({f})
    /\ told' = Notified(told, ex[f].out, {ex[f].id})

\* remove_ext_connection(Ex, 2): the clients are failed.
RemoveAndFail(fs) ==
    /\ ex' = Unlinked(fs)
    /\ lru' = lru_delete_ext_conn(fs)
    /\ conn' = Fail({ex[f].in : f \in {g \in fs : Live(ex[g].in)}})

(* ---- the notification job ---------------------------------------------- *)

Done == eq' = Tail(eq)
At(job) == eq # <<>> /\ Head(eq).job = job

mtfront_client_ready(o) ==
    LET f == conn[o].fd IN
    /\ aborted' = (o \in tag \/ out[f] # NoConn)
    /\ tag' = tag \cup {o}
    /\ out' = [out EXCEPT ![f] = o]
    /\ UNCHANGED <<conn, ex, slot, lru, active_ips, told>>

mtfront_client_close(o) ==
    LET f == conn[o].fd
        mine == {g \in Fds : Has(g) /\ ex[g].out = o} IN
    /\ IF o \in tag THEN /\ aborted' = (out[f] # o)
                         /\ RemoveAndFail(mine)
                         /\ out' = [out EXCEPT ![f] = NoConn]
                    ELSE UNCHANGED <<aborted, conn, ex, lru, out>>
    /\ tag' = tag \ {o}
    /\ UNCHANGED <<slot, active_ips, told>>

mtproto_ext_rpc_ready(c) ==
    /\ active_ips' = active_ips + 1
    /\ lru' = lru_insert_conn(c)
    /\ UNCHANGED <<conn, ex, slot, out, tag, told, aborted>>

mtproto_ext_rpc_close(c) ==
    /\ active_ips' = active_ips - 1
    /\ IF Has(conn[c].fd) THEN RemoveAndNotify(conn[c].fd) ELSE UNCHANGED <<ex, lru, told>>
    /\ UNCHANGED <<conn, slot, out, tag, aborted>>

run_notification_event(e) ==
    \/ e.ev = "ready" /\ e.who \in Outs /\ mtfront_client_ready(e.who)
    \/ e.ev = "close" /\ e.who \in Outs /\ mtfront_client_close(e.who)
    \/ e.ev = "ready" /\ e.who \in Clients /\ mtproto_ext_rpc_ready(e.who)
    \/ e.ev = "close" /\ e.who \in Clients /\ mtproto_ext_rpc_close(e.who)

notification_event_run ==
    /\ At("notify")
    /\ \/ /\ nq # <<>>
          /\ run_notification_event(Head(nq))
          /\ nq' = Tail(nq)
          /\ UNCHANGED eq
       \/ /\ nq = <<>>
          /\ Done
          /\ UNCHANGED <<conn, table, nq, active_ips, told, aborted>>
    /\ UNCHANGED <<dropped, remote, asked, forwarded, steps>>

(* ---- queries ------------------------------------------------------------ *)

\* The query goes out under the ext_connection of the client's fd.
Sends(c, n, o, id) ==
    /\ remote' = [remote EXCEPT ![o] = IF Live(o) THEN @ \cup {[id |-> id, q |-> <<c, n>>]} ELSE @]
    /\ forwarded' = [forwarded EXCEPT ![c] = @ \cup {n}]

\* The slot h is in_fd: the slots are given to ext_connections with
\* in_conn_id 0 alone, one for each fd.
create_ext_connection(c, o) ==
    LET f == conn[c].fd
        id == ((slot[f] \div EXT_CONN_TABLE_SIZE) + 1) * EXT_CONN_TABLE_SIZE + f IN
    /\ aborted' = (out[conn[o].fd] # o)
    /\ slot' = [slot EXCEPT ![f] = id]
    /\ ex' = [ex EXCEPT ![f] = [in |-> c, out |-> o, id |-> id]]

\* choose_proxy_target, rpc_target_choose_random_connections: a connection
\* without error that is ready, or none.
Choosable == {o \in tag : conn[o].st = "open"}

\* There is an ext_connection on the client's fd (of whatever generation),
\* and its middle-end connection is alive and has its target.
Attached(c) == LET e == ex[conn[c].fd] IN e # NoEx /\ Live(e.out) /\ conn[e.out].st # "closed"

forward_attached(c, n) ==
    LET e == ex[conn[c].fd] IN
    /\ Attached(c)
    /\ Sends(c, n, e.out, e.id)
    /\ UNCHANGED <<conn, dropped, ex, slot, told, aborted>>

\* remove_ext_connection(Ex, 1) where the ext_connection has lost its middle-end.
Detach(f) ==
    told' = IF Has(f) THEN Notified(told, ex[f].out, {ex[f].id}) ELSE told

nowhere_to_forward(c) ==
    /\ ~Attached(c)
    /\ dropped' = dropped \cup {c}
    /\ ex' = Unlinked({conn[c].fd})
    /\ Detach(conn[c].fd)
    /\ UNCHANGED <<conn, slot, remote, forwarded, aborted>>

forward_refused(c, flags) ==
    /\ ~Attached(c) /\ Choosable # {}
    /\ flags
    /\ conn' = Fail({c})
    /\ ex' = Unlinked({conn[c].fd})
    /\ Detach(conn[c].fd)
    /\ UNCHANGED <<dropped, slot, remote, forwarded, aborted>>

forward_new(c, n, flags) ==
    /\ ~Attached(c)
    /\ ~flags
    /\ \E o \in Choosable :
        /\ create_ext_connection(c, o)
        /\ Sends(c, n, o, ex'[conn[c].fd].id)
        /\ LET t == IF Has(conn[c].fd) THEN Notified(told, ex[conn[c].fd].out, {ex[conn[c].fd].id}) ELSE told
           IN told' = [t EXCEPT ![o].opened = IF Live(o) THEN @ \cup {ex'[conn[c].fd].id} ELSE @]
    /\ UNCHANGED <<conn, dropped>>

MutantFlags(c, task) == task.flags
query_flags(c, task) == task.flags \/ c \in dropped

forward_tcp_query(c, n, flags) ==
    /\ \/ forward_attached(c, n)
       \/ nowhere_to_forward(c)
       \/ forward_refused(c, flags)
       \/ forward_new(c, n, flags)
    /\ lru' = IF Has(conn[c].fd) /\ ~Attached(c) THEN lru_delete_ext_conn({conn[c].fd}) ELSE lru_insert_conn(c)

\* A packet that is too short, or neither encrypted nor a step of the key
\* exchange, is passed over.
forward_mtproto_packet(c, task) ==
    \/ /\ task.n = Malformed
       /\ lru' = lru_insert_conn(c)
       /\ UNCHANGED <<conn, dropped, ex, slot, told, remote, forwarded, aborted>>
    \/ /\ task.n # Malformed
       /\ forward_tcp_query(c, task.n, query_flags(c, task))

do_rpcs_execute ==
    /\ At("query")
    /\ forward_mtproto_packet(Head(eq).who, Head(eq))
    /\ Done
    /\ UNCHANGED <<out, tag, nq, active_ips, asked, steps>>

(* ---- packets of the middle-end ------------------------------------------ *)

\* RPC_PROXY_ANS and RPC_SIMPLE_ACK: the ext_connection of the id, if its
\* middle-end connection is the one the packet came from, names the client.
Deliver(f, q) == conn' = [conn EXCEPT ![ex[f].in].got = @ \cup {q}]

Addressee(o, id) == {f \in find_ext_connection_by_out_conn_id(id) : ex[f].out = o /\ Live(ex[f].in)}

\* client_send_message and push_rpc_confirmation.
Answer(p) ==
    \/ /\ \E f \in Addressee(p.who, p.id) : Deliver(f, p.to)
       /\ UNCHANGED told
    \/ /\ Addressee(p.who, p.id) = {}
       /\ told' = Notified(told, p.who, {p.id})
       /\ UNCHANGED conn

process_client_packet ==
    /\ eq # <<>> /\ Head(eq).job \in {"RPC_PROXY_ANS", "RPC_SIMPLE_ACK"}
    /\ Answer(Head(eq))
    /\ Done
    /\ UNCHANGED <<dropped, table, nq, active_ips, remote, asked, forwarded, steps, aborted>>

process_close_ext ==
    /\ At("RPC_CLOSE_EXT")
    /\ RemoveAndFail(find_ext_connection_by_out_conn_id(Head(eq).id))
    /\ Done
    /\ UNCHANGED <<dropped, slot, out, tag, nq, active_ips, peers, steps, aborted>>

\* cron: while too much buffer memory is in use, the client at the head of
\* the LRU is failed.
check_all_conn_buffers ==
    /\ lru # <<>>
    /\ \E k \in 1 .. Len(lru) :
        /\ conn' = Fail({ex[lru[i]].in : i \in {j \in 1 .. k : Live(ex[lru[j]].in)}})
        /\ lru' = SubSeq(lru, k + 1, Len(lru))
    /\ UNCHANGED <<dropped, ex, slot, out, tag, eq, nq, active_ips, peers, steps, aborted>>

Next ==
    \/ \E x \in Conns : Open(x) \/ SocketFails(x) \/ Close(x) \/ cpu_server_free_connection(x)
    \/ \E c \in Clients : ext_rpcs_execute(c) \/ check_conn_buffers(c)
    \/ \E o \in Outs : MiddleEndAnswers(o) \/ MiddleEndCloses(o)
    \/ notification_event_run
    \/ do_rpcs_execute
    \/ process_client_packet
    \/ process_close_ext
    \/ check_all_conn_buffers

Spec == Init /\ [][Next]_vars

(* ---- properties ---------------------------------------------------------- *)

States == {"none", "open", "failed", "closed", "freed"}
Tasks ==
    [job : {"notify"}]
        \cup [job : {"query"}, who : Clients, n : Nat, flags : BOOLEAN]
        \cup [job : {"RPC_PROXY_ANS", "RPC_SIMPLE_ACK"}, who : Outs, id : Nat, to : Clients \X Nat]
        \cup [job : {"RPC_CLOSE_EXT"}, who : Outs, id : Nat]

ConnRecs == [fd : Fds \cup {0}, st : States, sock : BOOLEAN, got : SUBSET (Clients \X Nat)]
ExRecs == [in : Clients, out : Outs, id : Nat] \cup {NoEx}
Events == [ev : {"ready", "close"}, who : Conns]
Requests == [id : Nat, q : Clients \X Nat]
\* (the LRU is a sequence of descriptors that decides who is failed and no more)
TypeOK ==
    /\ conn \in [Conns -> ConnRecs]
    /\ dropped \subseteq Clients
    /\ ex \in [Fds -> ExRecs]
    /\ slot \in [Fds -> Nat]
    /\ out \in [Fds -> Outs \cup {NoConn}]
    /\ tag \subseteq Outs
    /\ eq \in Seq(Tasks)
    /\ nq \in Seq(Events)
    /\ remote \in [Outs -> SUBSET Requests]
    /\ told \in [Outs -> [opened : SUBSET Nat, closed : SUBSET Nat]]
    /\ asked \in [Clients -> Nat]
    /\ forwarded \in [Clients -> SUBSET Nat]

\* Whatever the middle-end sends back goes to the client that asked, or to
\* nobody, however file descriptors, ids and late answers cross
\* (process_client_packet); and no assertion of the table fails: the list
\* heads of a descriptor are clean when the next connection becomes ready on
\* it, and an ext_connection is made on a registered connection alone.
AnswersReachOwner ==
    /\ ~aborted
    /\ \A c \in Clients : \A q \in conn[c].got : q[1] = c

\* A session the table has forgotten is closed on the other side as well: on
\* every live middle-end connection an id is in the table, or was closed by
\* one of the two sides (RPC_CLOSE_CONN of remove_ext_connection).
NoSessionLeft ==
    \A o \in Outs : Live(o) =>
        \A id \in told[o].opened \ told[o].closed : \E f \in Fds : ex[f].out = o /\ ex[f].id = id

\* "there was at least one dropped inbound packet on this connection, have to
\* close it now instead of forwarding next queries": the queries of a client
\* that are forwarded leave no gap.
NoGaps ==
    \A c \in Clients : \A n \in forwarded[c] : \A m \in 1 .. n : m \in forwarded[c]

(***************************************************************************)
(* The inductive invariant behind the three.                               *)
(***************************************************************************)
\* A connection holds its descriptor, alone, until its last reference is gone.
Alive(x) == conn[x].st \notin {"none", "freed"}
FdsHeld ==
    \A x \in Conns :
        /\ conn[x].sock => conn[x].st \in {"open", "failed"}
        /\ Alive(x) => conn[x].fd \in Fds
        /\ \A y \in Conns : Alive(x) /\ Alive(y) /\ conn[x].fd = conn[y].fd => x = y

\* Jobs and events hold a reference to their connection.
RefsHeld ==
    /\ \A i \in 1 .. Len(eq) : eq[i].job # "notify" => Alive(eq[i].who)
    /\ \A i \in 1 .. Len(nq) : Alive(nq[i].who)

\* A connection is ready once, then closed once; a registered one that is
\* closed has its close event to come.
Told(type, x) == \E i \in 1 .. Len(nq) : nq[i] = [ev |-> type, who |-> x]
EventsOrdered ==
    /\ \A i, j \in 1 .. Len(nq) : nq[i] = nq[j] => i = j
    /\ \A i, j \in 1 .. Len(nq) : nq[i].who = nq[j].who /\ nq[i].ev = "ready" /\ nq[j].ev = "close" => i < j
    /\ \A i \in 1 .. Len(nq) : nq[i].ev = "ready" => nq[i].who \notin tag
    /\ \A i \in 1 .. Len(nq) : nq[i].ev = "close" => conn[nq[i].who].st = "closed"
    /\ \A x \in Conns : conn[x].st = "closed" /\ (x \in tag \/ Told("ready", x)) => Told("close", x)

\* The list head of a descriptor is that of the registered connection that has it.
HeadsSound ==
    /\ \A o \in tag : Alive(o) /\ out[conn[o].fd] = o
    /\ \A f \in Fds : out[f] # NoConn => out[f] \in tag /\ conn[out[f]].fd = f

\* An id is found under the descriptor it was made for, and every id made is
\* below the last one of its descriptor.
TableSound ==
    \A f \in Fds : Has(f) =>
        /\ ex[f].id = slot[f] /\ ex[f].id % EXT_CONN_TABLE_SIZE = f
        /\ conn[ex[f].in].st # "none" /\ conn[ex[f].in].fd = f
Issued(id) == id % EXT_CONN_TABLE_SIZE \in Fds /\ id <= slot[id % EXT_CONN_TABLE_SIZE]

\* What is asked, or answered, under an id was asked by the client the id
\* names, unless that one is gone.
Owner(id, c) ==
    LET f == id % EXT_CONN_TABLE_SIZE IN
    /\ Issued(id)
    /\ Has(f) /\ slot[f] = id => ex[f].in = c \/ ~conn[ex[f].in].sock
AnswersOwned ==
    /\ \A o \in Outs : \A r \in remote[o] : Owner(r.id, r.q[1])
    /\ \A i \in 1 .. Len(eq) : eq[i].job \in {"RPC_PROXY_ANS", "RPC_SIMPLE_ACK"} => Owner(eq[i].id, eq[i].to[1])

\* An id is told to the one middle-end connection it belongs to.
Session(o, id) ==
    LET f == id % EXT_CONN_TABLE_SIZE IN
    /\ Issued(id)
    /\ conn[o].st # "none"
    /\ Has(f) /\ slot[f] = id => ex[f].out = o
SessionsOwned ==
    /\ \A o \in Outs : \A id \in told[o].opened : Session(o, id)
    /\ \A i \in 1 .. Len(eq) : eq[i].job = "RPC_CLOSE_EXT" =>
          eq[i].id \in told[eq[i].who].opened \cap told[eq[i].who].closed

\* A client one of whose queries was dropped has no ext_connection.
DroppedOut ==
    /\ \A c \in dropped : conn[c].st # "none" /\ (Alive(c) => ~Has(conn[c].fd))
    /\ \A i \in 1 .. Len(eq) : eq[i].job = "query" /\ eq[i].flags => eq[i].who \in dropped

\* The queries of a client that wait follow those forwarded, one by one.
QueryOf(i, c) == eq[i].job = "query" /\ eq[i].who = c /\ eq[i].n # Malformed
Follows(c, n, k) ==
    n = 0 \/ n \in forwarded[c] \/ \E j \in 1 .. k : QueryOf(j, c) /\ eq[j].n = n
InOrder ==
    \A c \in Clients \ dropped :
        /\ \A n \in forwarded[c] : n <= asked[c]
        /\ Follows(c, asked[c], Len(eq))
        /\ \A i \in 1 .. Len(eq) : QueryOf(i, c) =>
              /\ eq[i].n <= asked[c]
              /\ Follows(c, eq[i].n - 1, i - 1)

RelayInv ==
    /\ TypeOK
    /\ FdsHeld
    /\ RefsHeld
    /\ EventsOrdered
    /\ HeadsSound
    /\ TableSound
    /\ AnswersOwned
    /\ SessionsOwned
    /\ DroppedOut
    /\ InOrder
    /\ AnswersReachOwner
    /\ NoSessionLeft
    /\ NoGaps
=============================================================================
