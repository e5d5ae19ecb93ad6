----------------------------- MODULE Connection -----------------------------
(***************************************************************************)
(* One TCP connection, as the threads of net-connections.c and             *)
(* net-tcp-connections.c serve it: the connection job C (do_connection_job,*)
(* on a CPU thread), the socket job S (do_socket_connection_job: reads and *)
(* writes on an I/O thread, aborts on the main thread), the epoll gateway  *)
(* on the main thread, an engine thread that holds a reference, and the    *)
(* kernel's end of the socket.                                             *)
(*                                                                         *)
(* Data is counted in chunks.  A job runs one signal at a time, ABORT      *)
(* before RUN, and after JOB_COMPLETED only waits for its last reference   *)
(* (module Jobs); a handler is split where the other threads can see it    *)
(* half done.  "crashed" is an assertion that failed.                      *)
(*                                                                         *)
(* JS_AUX of the socket job is left out: with EPOLLET compute_conn_events  *)
(* returns the same mask for as long as the job runs, so it is never sent. *)
(***************************************************************************)
EXTENDS Integers, FiniteSets

CONSTANTS
    MaxIn,       \* bound: chunks the peer sends
    MaxOut,      \* bound: packets the program sends
    MaxEagain    \* the 100 of net_server_socket_writer

VARIABLES
    c,       \* struct connection_info
    cjob,    \* its job: pending signals, where the handler is, its local stop
    s,       \* struct socket_connection_info
    sjob,    \* its job
    net,     \* the kernel's end of the socket and its entry in epoll
    engine,  \* the engine thread: does it hold a reference, packets sent
    crashed

vars == <<c, cjob, s, sjob, net, engine, crashed>>

\* The process runs on; nothing happens after an assertion has failed.
Running == ~crashed /\ UNCHANGED crashed

Signal(job, sig) == IF job.pc \in {"completed", "freed"} THEN job ELSE [job EXCEPT !.sig = @ \cup {sig}]
Take(job, sig, pc) == [job EXCEPT !.sig = @ \ {sig}, !.pc = pc]
At(job, pc) == [job EXCEPT !.pc = pc, !.stop = pc \in {"writer", "writev"} /\ @]
Completed(job) == [job EXCEPT !.sig = {}, !.pc = "completed"]

\* fail_connection: the connection after it, and its job after it.
failed(conn) == [conn EXCEPT !.flags = @ \cup {"ERROR"}, !.status = IF "ERROR" \in conn.flags THEN @ ELSE "error"]
aborted(conn, job) == IF "ERROR" \in conn.flags THEN job ELSE Signal(job, "ABORT")

-----------------------------------------------------------------------------
(***************************************************************************)
(* alloc_new_connection and alloc_new_socket_connection, and what epoll    *)
(* reports of a socket that is added: an accepted one can be written to.   *)
(***************************************************************************)
alloc_new_connection(type) ==
    [flags |-> IF type = "inbound" THEN {"CONNECTED"} ELSE {},
     status |-> IF type = "outbound" THEN "connecting" ELSE "working",
     io_conn |-> TRUE, in_queue |-> 0, in |-> 0, out_queue |-> 0]

alloc_new_socket_connection(conn) ==
    [flags |-> {"WANTWR", "WANTRD"} \cup (conn.flags \cap {"CONNECTED"}),
     ev |-> TRUE, conn |-> TRUE, packets |-> 0, out |-> 0, eagain_count |-> 0]

Idle == [sig |-> {}, pc |-> "idle", stop |-> FALSE]

Init ==
    \E type \in {"inbound", "outbound"} :
        /\ c = alloc_new_connection(type)
        /\ s = alloc_new_socket_connection(c)
        /\ cjob = Idle
        /\ sjob = Idle
        /\ net = [up |-> type = "inbound", hup |-> FALSE, rbuf |-> 0, sent |-> 0, room |-> TRUE,
                  armed |-> TRUE, edges |-> IF type = "inbound" THEN {"OUT"} ELSE {}]
        /\ engine = [ref |-> FALSE, sent |-> 0]
        /\ crashed = FALSE

-----------------------------------------------------------------------------
(***************************************************************************)
(* The peer and the kernel.  Epoll is edge-triggered: an event is reported *)
(* when something changes, and once.                                       *)
(***************************************************************************)
Edge(e) == IF net.armed THEN net.edges \cup {e} ELSE net.edges

PeerConnects ==
    /\ ~net.up
    /\ ~net.hup
    /\ net' = [net EXCEPT !.up = TRUE, !.edges = Edge("OUT")]
    /\ UNCHANGED <<c, cjob, s, sjob, engine>>
    /\ Running

PeerSends ==
    /\ net.up
    /\ ~net.hup
    /\ net.sent < MaxIn
    /\ net' = [net EXCEPT !.rbuf = @ + 1, !.sent = @ + 1, !.edges = Edge("IN")]
    /\ UNCHANGED <<c, cjob, s, sjob, engine>>
    /\ Running

PeerTakes ==
    /\ ~net.room
    /\ net' = [net EXCEPT !.room = TRUE, !.edges = Edge("OUT")]
    /\ UNCHANGED <<c, cjob, s, sjob, engine>>
    /\ Running

\* The peer closes, resets, or the connect fails.
PeerCloses ==
    /\ ~net.hup
    /\ net' = [net EXCEPT !.hup = TRUE, !.edges = Edge("HUP")]
    /\ UNCHANGED <<c, cjob, s, sjob, engine>>
    /\ Running

-----------------------------------------------------------------------------
(***************************************************************************)
(* The main thread.                                                        *)
(***************************************************************************)

\* epoll_fetch_events, epoll_runqueue and the handler they call.
MutantKeepNord ==
    /\ net.edges # {}
    /\ s' = [s EXCEPT !.flags = IF "OUT" \in net.edges THEN @ \ {"NOWR"} ELSE @]
    /\ net' = [net EXCEPT !.edges = {}, !.armed = "HUP" \notin net.edges]
    /\ sjob' = Signal(sjob, IF "HUP" \in net.edges THEN "ABORT" ELSE "RUN")
    /\ UNCHANGED <<c, cjob, engine>>
    /\ Running

net_server_socket_read_write_gateway ==
    /\ net.edges # {}
    /\ s' = [s EXCEPT !.flags = @ \ ((IF {"IN", "HUP"} \cap net.edges # {} THEN {"NORD"} ELSE {})
                                     \cup (IF {"OUT", "HUP"} \cap net.edges # {} THEN {"NOWR"} ELSE {}))]
    /\ net' = [net EXCEPT !.edges = {}, !.armed = "HUP" \notin net.edges]
    /\ sjob' = Signal(sjob, IF "HUP" \in net.edges THEN "ABORT" ELSE "RUN")
    /\ UNCHANGED <<c, cjob, engine>>
    /\ Running

\* JS_ABORT of the socket job.
fail_socket_connection ==
    /\ sjob.pc = "idle"
    /\ "ABORT" \in sjob.sig
    /\ s' = [s EXCEPT !.flags = @ \cup {"ERROR"}, !.ev = FALSE]
    /\ net' = [net EXCEPT !.armed = FALSE, !.edges = {}]
    /\ sjob' = Completed(sjob)
    /\ c' = failed(c)
    /\ cjob' = aborted(c, cjob)
    /\ UNCHANGED <<engine>>
    /\ Running

-----------------------------------------------------------------------------
(***************************************************************************)
(* The I/O thread: JS_RUN of the socket job.                               *)
(***************************************************************************)
Reads(flags) == flags \cap {"WANTRD", "NORD", "STOPREAD", "ERROR", "NET_FAILED"} = {"WANTRD"}
Writes(flags) == flags \cap {"WANTWR", "NOWR", "ERROR", "NET_FAILED"} = {"WANTWR"}

\* The call failed: C_NET_FAILED, and JS_ABORT to the job itself.
NetFail(flags, pc) ==
    /\ s' = [s EXCEPT !.flags = flags \cup {"NET_FAILED"}]
    /\ sjob' = Signal(At(sjob, pc), "ABORT")

net_server_socket_read_write ==
    /\ sjob.pc = "idle"
    /\ "RUN" \in sjob.sig
    /\ "ABORT" \notin sjob.sig
    /\ \/ /\ "CONNECTED" \in s.flags
          /\ sjob' = Take(sjob, "RUN", "read")
          /\ UNCHANGED <<c, cjob, s>>
       \/ /\ "CONNECTED" \notin s.flags
          /\ "NOWR" \in s.flags
          /\ sjob' = Take(sjob, "RUN", "idle")
          /\ UNCHANGED <<c, cjob, s>>
       \/ /\ {"CONNECTED", "NOWR"} \cap s.flags = {}
          /\ s' = [s EXCEPT !.flags = {"WANTRD", "CONNECTED"}]
          /\ c' = [c EXCEPT !.flags = @ \cup {"READY_PENDING", "CONNECTED"}]
          /\ sjob' = Take(sjob, "RUN", "read")
          /\ cjob' = Signal(cjob, "RUN")
    /\ UNCHANGED <<net, engine>>
    /\ Running

\* The loop of net_server_socket_reader, and the one around it.  C_NORD is set before the
\* call, so that an event that comes between the call and its result is not lost.  At the
\* end of the loop the packets of the CPU thread join the message being written.
socket_reader_loop ==
    /\ sjob.pc = "read"
    /\ IF Reads(s.flags)
       THEN /\ s' = [s EXCEPT !.flags = @ \cup {"NORD"}]
            /\ sjob' = At(sjob, "readv")
       ELSE /\ s' = [s EXCEPT !.out = @ + s.packets, !.packets = 0,
                              !.flags = IF s.out + s.packets > 0 THEN @ \cup {"WANTWR"} ELSE @]
            /\ sjob' = At(sjob, "write")
    /\ UNCHANGED <<c, cjob, net, engine>>
    /\ Running

\* readv returns: data (after which new receive buffers may not be had), nothing yet, the
\* end of the stream or an error.
net_server_socket_reader ==
    /\ sjob.pc = "readv"
    /\ \/ /\ net.rbuf > 0
          /\ c' = [c EXCEPT !.in_queue = @ + net.rbuf]
          /\ cjob' = Signal(cjob, "RUN")
          /\ net' = [net EXCEPT !.rbuf = 0]
          /\ \/ /\ s' = [s EXCEPT !.flags = @ \ {"NORD"}]
                /\ sjob' = At(sjob, "read")
             \/ NetFail(s.flags \ {"NORD"}, "read")
       \/ /\ net.rbuf = 0
          /\ ~net.hup
          /\ sjob' = At(sjob, "read")
          /\ UNCHANGED <<c, cjob, s, net>>
       \/ /\ net.rbuf = 0
          /\ net.hup
          /\ NetFail(s.flags, "read")
          /\ UNCHANGED <<c, cjob, net>>
    /\ UNCHANGED <<engine>>
    /\ Running

\* The loop around net_server_socket_writer, and its entry: stop is read once.
socket_writer_loop ==
    /\ sjob.pc = "write"
    /\ sjob' = IF Writes(s.flags)
               THEN [sjob EXCEPT !.pc = "writer", !.stop = "STOPWRITE" \in s.flags]
               ELSE At(sjob, "idle")
    /\ UNCHANGED <<c, cjob, s, net, engine>>
    /\ Running

\* Its own loop, up to writev; or out of it: C_WANTWR goes when all is written, and then a
\* connection that was to be closed is closed.
writer_loop ==
    /\ sjob.pc = "writer"
    /\ IF Writes(s.flags) /\ s.out > 0
       THEN /\ s' = [s EXCEPT !.flags = @ \cup {"NOWR"}]
            /\ sjob' = At(sjob, "writev")
       ELSE LET flags == IF Writes(s.flags) THEN s.flags \ {"WANTWR"} ELSE s.flags
            IN IF sjob.stop /\ "WANTWR" \notin flags
               THEN NetFail(flags, "write")
               ELSE /\ s' = [s EXCEPT !.flags = flags]
                    /\ sjob' = At(sjob, "write")
    /\ UNCHANGED <<c, cjob, net, engine>>
    /\ Running

\* writev returns: some of the chunks are taken; none are, for the time being or once too
\* often; or there is an error.
net_server_socket_writer ==
    /\ sjob.pc = "writev"
    /\ \/ /\ net.up
          /\ net.room
          /\ ~net.hup
          /\ \E n \in 1 .. s.out :
                /\ s' = [s EXCEPT !.out = @ - n, !.eagain_count = 0, !.flags = @ \ {"NOWR"}]
                /\ \E full \in {n < s.out, TRUE} : net' = [net EXCEPT !.room = ~full]
          /\ sjob' = At(sjob, "writer")
       \/ /\ ~(net.up /\ net.room)
          /\ ~net.hup
          /\ s.eagain_count < MaxEagain
          /\ s' = [s EXCEPT !.eagain_count = @ + 1]
          /\ sjob' = At(sjob, "writer")
          /\ UNCHANGED net
       \/ /\ \/ net.hup
             \/ ~(net.up /\ net.room) /\ s.eagain_count = MaxEagain
          /\ NetFail(s.flags, "write")
          /\ UNCHANGED net
    /\ UNCHANGED <<c, cjob, engine>>
    /\ Running

\* Either call is cut short by a signal, and made again.
interrupted ==
    /\ sjob.pc \in {"readv", "writev"}
    /\ s' = [s EXCEPT !.flags = @ \ {IF sjob.pc = "readv" THEN "NORD" ELSE "NOWR"}]
    /\ sjob' = At(sjob, IF sjob.pc = "readv" THEN "read" ELSE "writer")
    /\ UNCHANGED <<c, cjob, net, engine>>
    /\ Running

\* JS_FINISH of the socket job: neither the event nor the connection refers to it.
net_server_socket_free ==
    /\ sjob.pc = "completed"
    /\ ~s.ev
    /\ ~c.io_conn
    /\ s' = [s EXCEPT !.conn = FALSE]
    /\ sjob' = At(sjob, "freed")
    /\ c' = failed(c)
    /\ cjob' = aborted(c, cjob)
    /\ UNCHANGED <<net, engine>>
    /\ Running

-----------------------------------------------------------------------------
(***************************************************************************)
(* The CPU thread: the connection job.                                     *)
(***************************************************************************)

\* The first part of JS_RUN: an outbound connection has been established.
become_ready(conn) ==
    IF "READY_PENDING" \in conn.flags
    THEN [conn EXCEPT !.flags = @ \ {"READY_PENDING"}, !.status = IF @ = "connecting" THEN "working" ELSE @]
    ELSE conn

do_connection_job ==
    /\ cjob.pc = "idle"
    /\ "RUN" \in cjob.sig
    /\ "ABORT" \notin cjob.sig
    /\ IF "ERROR" \in c.flags
       THEN /\ cjob' = Take(cjob, "RUN", "idle")
            /\ UNCHANGED c
       ELSE /\ cjob' = Take(cjob, "RUN", "reader")
            /\ c' = become_ready(c)
    /\ UNCHANGED <<s, sjob, net, engine>>
    /\ Running

\* What was read joins the input, and the loop over parse_execute goes through it: the
\* protocol takes it and perhaps answers; it wants more bytes; it fails the connection; or
\* it answers and closes (connection_write_close, begun here).
cpu_tcp_server_reader ==
    /\ cjob.pc = "reader"
    /\ LET in == c.in + c.in_queue
           fetched == [c EXCEPT !.in = in, !.in_queue = 0]
           parse == in > 0 /\ c.flags \cap {"FAILED", "ERROR", "STOPREAD"} = {}
       IN \/ /\ ~parse
             /\ c' = fetched
             /\ cjob' = At(cjob, "writer")
             /\ UNCHANGED <<s, engine>>
          \/ /\ parse
             /\ \E left \in {0, in}, answers \in {0, 1} :
                   /\ engine.sent + answers <= MaxOut
                   /\ c' = [fetched EXCEPT !.in = left, !.out_queue = @ + answers]
                   /\ engine' = [engine EXCEPT !.sent = @ + answers]
             /\ cjob' = At(cjob, "writer")
             /\ UNCHANGED s
          \/ /\ parse
             /\ c' = failed(fetched)
             /\ cjob' = aborted(c, At(cjob, "writer"))
             /\ UNCHANGED <<s, engine>>
          \/ /\ parse
             /\ c.status = "working"
             /\ engine.sent < MaxOut
             /\ c' = [fetched EXCEPT !.in = 0, !.out_queue = @ + 1, !.flags = @ \cup {"STOPREAD"}]
             /\ s' = [s EXCEPT !.flags = @ \cup {"STOPREAD"}]
             /\ cjob' = At(cjob, "write_close")
             /\ engine' = [engine EXCEPT !.sent = @ + 1]
    /\ UNCHANGED <<sjob, net>>
    /\ Running

\* The rest of connection_write_close: the status it read as working may be another by now.
connection_write_close ==
    /\ cjob.pc = "write_close"
    /\ c' = [c EXCEPT !.status = "write_close"]
    /\ cjob' = Signal(At(cjob, "writer"), "RUN")
    /\ UNCHANGED <<s, sjob, net, engine>>
    /\ Running

\* The packets go to the socket job in one message; then, the connection being one to
\* close, C_STOPWRITE; then JS_RUN.  With nothing to send nothing is done.
cpu_tcp_server_writer ==
    /\ cjob.pc = "writer"
    /\ c' = [c EXCEPT !.out_queue = 0]
    /\ s' = [s EXCEPT !.packets = @ + c.out_queue]
    /\ cjob' = IF c.out_queue > 0
                THEN [cjob EXCEPT !.pc = "push", !.stop = c.status = "write_close"]
                ELSE At(cjob, "idle")
    /\ UNCHANGED <<sjob, net, engine>>
    /\ Running

signal_io_conn ==
    /\ cjob.pc = "push"
    /\ s' = IF cjob.stop THEN [s EXCEPT !.flags = @ \cup {"STOPWRITE"}] ELSE s
    /\ sjob' = Signal(sjob, "RUN")
    /\ cjob' = At(cjob, "idle")
    /\ UNCHANGED <<c, net, engine>>
    /\ Running


cpu_server_close_connection ==
    /\ cjob.pc = "idle"
    /\ "ABORT" \in cjob.sig
    /\ ~crashed
    /\ IF c.status = "error"
       THEN /\ c' = [c EXCEPT !.flags = @ \cup {"FAILED"}, !.io_conn = FALSE]
            /\ cjob' = Completed(cjob)
            /\ sjob' = Signal(sjob, "ABORT")
            /\ UNCHANGED crashed
       ELSE /\ crashed' = TRUE
            /\ UNCHANGED <<c, cjob, sjob>>
    /\ UNCHANGED <<s, net, engine>>

\* JS_FINISH: the last reference is gone; the descriptor is closed here.
MutantFreeEarly ==
    /\ cjob.pc \in {"idle", "completed"}
    /\ "FAILED" \in c.flags
    /\ cjob' = At(cjob, "freed")
    /\ UNCHANGED <<c, s, sjob, net, engine>>
    /\ Running

cpu_server_free_connection ==
    /\ cjob.pc \in {"idle", "completed"}
    /\ cjob.sig = {}
    /\ ~s.conn
    /\ ~engine.ref
    /\ cjob' = At(cjob, "freed")
    /\ UNCHANGED <<c, s, sjob, net, engine>>
    /\ Running

-----------------------------------------------------------------------------
(***************************************************************************)
(* Another thread: it finds the connection by its descriptor, sends on it, *)
(* may fail it, and lets it go.                                            *)
(***************************************************************************)
connection_get_by_fd ==
    /\ ~engine.ref
    /\ s.ev
    /\ "ERROR" \notin s.flags
    /\ engine' = [engine EXCEPT !.ref = TRUE]
    /\ UNCHANGED <<c, cjob, s, sjob, net>>
    /\ Running

SendPacket ==
    /\ engine.ref
    /\ engine.sent < MaxOut
    /\ engine' = [engine EXCEPT !.sent = @ + 1]
    /\ c' = [c EXCEPT !.out_queue = @ + 1]
    /\ cjob' = Signal(cjob, "RUN")
    /\ UNCHANGED <<s, sjob, net>>
    /\ Running

fail_connection ==
    /\ engine.ref
    /\ "ERROR" \notin c.flags
    /\ c' = failed(c)
    /\ cjob' = aborted(c, cjob)
    /\ UNCHANGED <<s, sjob, net, engine>>
    /\ Running

job_decref ==
    /\ engine.ref
    /\ engine' = [engine EXCEPT !.ref = FALSE]
    /\ UNCHANGED <<c, cjob, s, sjob, net>>
    /\ Running

-----------------------------------------------------------------------------
Peer == PeerConnects \/ PeerSends \/ PeerTakes \/ PeerCloses
MainThread == net_server_socket_read_write_gateway \/ fail_socket_connection
IoThread ==
    \/ net_server_socket_read_write
    \/ socket_reader_loop
    \/ net_server_socket_reader
    \/ socket_writer_loop
    \/ writer_loop
    \/ net_server_socket_writer
    \/ net_server_socket_free
CpuThread ==
    \/ do_connection_job
    \/ cpu_tcp_server_reader
    \/ connection_write_close
    \/ cpu_tcp_server_writer
    \/ signal_io_conn
    \/ cpu_server_close_connection
    \/ cpu_server_free_connection
EngineThread == connection_get_by_fd \/ SendPacket \/ fail_connection \/ job_decref

Next == Peer \/ MainThread \/ IoThread \/ interrupted \/ CpuThread \/ EngineThread

\* Every thread keeps running its jobs, a reference is let go in the end, and signals do
\* not cut short every call for ever.
Fairness ==
    /\ WF_vars(MainThread)
    /\ WF_vars(IoThread)
    /\ SF_vars(net_server_socket_reader \/ net_server_socket_writer)
    /\ WF_vars(CpuThread)
    /\ WF_vars(job_decref)

Spec == Init /\ [][Next]_vars /\ Fairness

-----------------------------------------------------------------------------
ConnFlags == {"ERROR", "FAILED", "STOPREAD", "READY_PENDING", "CONNECTED"}
Conns ==
    [flags : SUBSET ConnFlags, status : {"connecting", "working", "write_close", "error"},
     io_conn : BOOLEAN, in_queue : Nat, in : Nat, out_queue : Nat]
SockFlags ==
    {"WANTRD", "WANTWR", "NORD", "NOWR", "STOPREAD", "STOPWRITE", "ERROR", "NET_FAILED", "CONNECTED"}
Socks ==
    [flags : SUBSET SockFlags, ev : BOOLEAN, conn : BOOLEAN, packets : Nat, out : Nat, eagain_count : Nat]
Jobs(labels) == [sig : SUBSET {"RUN", "ABORT"}, pc : labels, stop : BOOLEAN]
CpuLabels == {"idle", "reader", "write_close", "writer", "push", "completed", "freed"}
IoLabels == {"idle", "read", "readv", "write", "writer", "writev", "completed", "freed"}
Nets ==
    [up : BOOLEAN, hup : BOOLEAN, rbuf : Nat, sent : Nat, room : BOOLEAN, armed : BOOLEAN,
     edges : SUBSET {"IN", "OUT", "HUP"}]

\* Type invariant.
TypeOK ==
    /\ c \in Conns
    /\ cjob \in Jobs(CpuLabels)
    /\ s \in Socks
    /\ sjob \in Jobs(IoLabels)
    /\ net \in Nets
    /\ engine \in [ref : BOOLEAN, sent : Nat]
    /\ crashed \in BOOLEAN

\* Teardown takes the references down in order: when the connection is freed and its
\* descriptor closed (cpu_server_free_connection), it had been closed, the socket job is
\* gone, no other thread has the connection or will find it, and the descriptor is out of
\* epoll, so that an accept that gets the same number finds its event_descr clean.
FreedLast ==
    cjob.pc = "freed" =>
        /\ {"ERROR", "FAILED"} \subseteq c.flags
        /\ sjob.pc = "freed"
        /\ ~c.io_conn
        /\ ~s.ev
        /\ ~net.armed
        /\ ~engine.ref

\* The inductive invariant of the teardown.  The two jobs refer to each other, and the event
\* to the socket job: a connection is aborted only when it has failed, gives up its socket
\* only when it is closed, and is given up by it only when the socket job is gone, which
\* leaves nothing in epoll, reported or to be reported.
TeardownInv ==
    /\ TypeOK
    /\ FreedLast
    /\ "ABORT" \in cjob.sig => "ERROR" \in c.flags
    /\ ~c.io_conn => {"ERROR", "FAILED"} \subseteq c.flags
    /\ ~s.conn => sjob.pc = "freed"
    /\ sjob.pc = "freed" => ~s.ev /\ ~c.io_conn
    /\ ~s.ev => ~net.armed
    /\ ~net.armed => net.edges = {}

\* What the peer sends is read, although epoll reports it once: net_server_socket_reader
\* and the gateway do not lose an event between them.
ReadsArrive ==
    net.rbuf > 0 ~> (net.rbuf = 0 \/ s.flags \cap {"STOPREAD", "NET_FAILED", "ERROR"} # {} \/ crashed)

=============================================================================
