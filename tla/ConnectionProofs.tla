-------------------------- MODULE ConnectionProofs --------------------------
(***************************************************************************)
(* The teardown of a connection (module Connection), for any amount of     *)
(* data: the jobs of the connection and of its socket let each other go in *)
(* order, whichever thread sees the end first.                             *)
(***************************************************************************)
EXTENDS Connection, TLAPS

\* Zenon proves what names no other prover.
USE Zenon

(***************************************************************************)
(* The operators.                                                          *)
(***************************************************************************)
\* What job_signal does to a job: it may get a signal, and stays where it is.
LEMMA SignalFacts ==
    ASSUME NEW labels, NEW job \in Jobs(labels), NEW sig \in {"RUN", "ABORT"}
    PROVE  /\ Signal(job, sig) \in Jobs(labels)
           /\ Signal(job, sig).pc = job.pc
           /\ Signal(job, sig).sig \in {job.sig, job.sig \cup {sig}}
BY DEF Signal, Jobs

\* What a handler does to its own job when it goes on.
LEMMA AtFacts ==
    ASSUME NEW labels, NEW job \in Jobs(labels), NEW pc \in labels
    PROVE  At(job, pc) \in Jobs(labels) /\ At(job, pc).pc = pc /\ At(job, pc).sig = job.sig
BY DEF At, Jobs

\* The same when it remembers whether it is to stop.
LEMMA StopFacts ==
    ASSUME NEW labels, NEW job \in Jobs(labels), NEW pc \in labels, NEW stop \in BOOLEAN
    PROVE  /\ [job EXCEPT !.pc = pc, !.stop = stop] \in Jobs(labels)
           /\ [job EXCEPT !.pc = pc, !.stop = stop].pc = pc
           /\ [job EXCEPT !.pc = pc, !.stop = stop].sig = job.sig
BY DEF Jobs

\* The same when it begins with JS_RUN.
LEMMA TakeFacts ==
    ASSUME NEW labels, NEW job \in Jobs(labels), NEW pc \in labels
    PROVE  /\ Take(job, "RUN", pc) \in Jobs(labels)
           /\ Take(job, "RUN", pc).pc = pc
           /\ Take(job, "RUN", pc).sig = job.sig \ {"RUN"}
BY DEF Take, Jobs

\* The same when it returns JOB_COMPLETED.
LEMMA CompletedFacts ==
    ASSUME NEW labels, NEW job \in Jobs(labels), "completed" \in labels
    PROVE  Completed(job) \in Jobs(labels) /\ Completed(job).pc = "completed" /\ Completed(job).sig = {}
BY DEF Completed, Jobs

\* fail_connection marks the connection.
LEMMA FailedFacts ==
    ASSUME NEW conn \in Conns
    PROVE  /\ failed(conn) \in Conns
           /\ failed(conn).flags = conn.flags \cup {"ERROR"}
           /\ failed(conn).io_conn = conn.io_conn
BY DEF failed, Conns, ConnFlags

\* A connection gets input, packets to send and marks.
LEMMA ConnFacts ==
    ASSUME NEW conn \in Conns, NEW flags \in SUBSET ConnFlags, NEW left \in Nat, NEW n \in Nat
    PROVE  /\ [conn EXCEPT !.in = left, !.out_queue = @ + n] \in Conns
           /\ [conn EXCEPT !.in = left, !.out_queue = @ + n, !.flags = flags] \in Conns
           /\ [conn EXCEPT !.flags = flags, !.io_conn = FALSE] \in Conns
<1>1. conn.out_queue + n \in Nat
  BY SMT DEF Conns
<1> QED BY <1>1 DEF Conns

\* The engine thread counts what it sends.
LEMMA EngineFacts ==
    ASSUME TypeOK, NEW n \in Nat
    PROVE  /\ [engine EXCEPT !.sent = @ + n] \in [ref : BOOLEAN, sent : Nat]
           /\ [engine EXCEPT !.sent = @ + n].ref = engine.ref
<1>1. engine.sent + n \in Nat
  BY SMT DEF TypeOK
<1> QED BY <1>1 DEF TypeOK

\* Packets are added to what a socket has to write, and taken from it.
LEMMA SockFacts ==
    ASSUME NEW sock \in Socks, NEW flags \in SUBSET SockFlags
    PROVE  /\ [sock EXCEPT !.flags = flags] \in Socks
           /\ [sock EXCEPT !.out = @ + sock.packets, !.packets = 0, !.flags = flags] \in Socks
           /\ \A n \in 1 .. sock.out : [sock EXCEPT !.out = @ - n, !.eagain_count = 0, !.flags = flags] \in Socks
           /\ [sock EXCEPT !.eagain_count = @ + 1] \in Socks
           /\ \A n \in Nat : [sock EXCEPT !.packets = @ + n] \in Socks
<1>1. sock.out \in Nat /\ sock.packets \in Nat /\ sock.eagain_count \in Nat
  BY DEF Socks
<1>2. /\ sock.out + sock.packets \in Nat /\ sock.eagain_count + 1 \in Nat
      /\ \A n \in 1 .. sock.out : sock.out - n \in Nat
      /\ \A n \in Nat : sock.packets + n \in Nat
  BY SMT, <1>1
<1> QED BY <1>2 DEF Socks

\* The labels of the two jobs.
LEMMA LabelFacts ==
    /\ \A l \in {"idle", "reader", "write_close", "writer", "push", "completed", "freed"} : l \in CpuLabels
    /\ \A l \in {"idle", "read", "readv", "write", "writer", "writev", "completed", "freed"} : l \in IoLabels
BY DEF CpuLabels, IoLabels

-----------------------------------------------------------------------------
\* A connection and a socket that have just been allocated.
LEMMA InitTeardown == Init => TeardownInv
<1> SUFFICES ASSUME Init PROVE TeardownInv
  OBVIOUS
<1> USE DEF Init, alloc_new_connection, alloc_new_socket_connection, Idle
<1>1. c \in Conns /\ c.io_conn
  BY SMT DEF Conns, ConnFlags
<1>2. s \in Socks /\ s.ev /\ s.conn
  BY SMT DEF Socks, SockFlags
<1>3. /\ cjob \in Jobs(CpuLabels) /\ sjob \in Jobs(IoLabels)
      /\ cjob.pc = "idle" /\ sjob.pc = "idle" /\ cjob.sig = {}
  BY SMT DEF Jobs, CpuLabels, IoLabels
<1>4. net \in Nets /\ net.armed
  <2>1. PICK type \in {"inbound", "outbound"} :
          net = [up |-> type = "inbound", hup |-> FALSE, rbuf |-> 0, sent |-> 0, room |-> TRUE,
                 armed |-> TRUE, edges |-> IF type = "inbound" THEN {"OUT"} ELSE {}]
    OBVIOUS
  <2>2. (type = "inbound") \in BOOLEAN /\ (IF type = "inbound" THEN {"OUT"} ELSE {}) \in SUBSET {"IN", "OUT", "HUP"}
    OBVIOUS
  <2> QED BY <2>1, <2>2 DEF Nets
<1>5. engine \in [ref : BOOLEAN, sent : Nat] /\ crashed \in BOOLEAN /\ ~engine.ref
  <2>1. engine = [ref |-> FALSE, sent |-> 0] /\ crashed = FALSE
    OBVIOUS
  <2> QED BY <2>1
<1> QED BY <1>1, <1>2, <1>3, <1>4, <1>5 DEF TeardownInv, TypeOK, FreedLast

-----------------------------------------------------------------------------
(***************************************************************************)
(* The steps keep the types.                                               *)
(***************************************************************************)
\* The peer and the kernel change their end of the socket only.
LEMMA PeerType == ASSUME TypeOK, Peer PROVE TypeOK'
<1>1. /\ Edge("IN") \in SUBSET {"IN", "OUT", "HUP"} /\ Edge("OUT") \in SUBSET {"IN", "OUT", "HUP"}
      /\ Edge("HUP") \in SUBSET {"IN", "OUT", "HUP"}
  BY DEF TypeOK, Nets, Edge
<1>2. net.rbuf + 1 \in Nat /\ net.sent + 1 \in Nat
  BY SMT DEF TypeOK, Nets
<1>3. net' \in Nets
  <2>1. CASE PeerConnects
    BY <1>1, <2>1 DEF TypeOK, Nets, PeerConnects
  <2>2. CASE PeerSends
    BY <1>1, <1>2, <2>2 DEF TypeOK, Nets, PeerSends
  <2>3. CASE PeerTakes \/ PeerCloses
    BY ZenonT(60), <1>1, <2>3 DEF TypeOK, Nets, PeerTakes, PeerCloses
  <2> QED BY <2>1, <2>2, <2>3 DEF Peer
<1> QED BY <1>3 DEF Peer, PeerConnects, PeerSends, PeerTakes, PeerCloses, Running, TypeOK

\* The gateway and the failure of a socket.
LEMMA MainType == ASSUME TypeOK, MainThread PROVE TypeOK'
<1>1. CASE net_server_socket_read_write_gateway
  <2> USE <1>1 DEF net_server_socket_read_write_gateway
  <2>1. net' \in Nets
    BY DEF TypeOK, Nets
  <2>2. s' \in Socks
    BY DEF TypeOK, Socks
  <2>3. sjob' \in Jobs(IoLabels)
    BY SignalFacts DEF TypeOK
  <2> QED BY <2>1, <2>2, <2>3 DEF Running, TypeOK
<1>2. CASE fail_socket_connection
  <2> USE <1>2 DEF fail_socket_connection
  <2>1. net' \in Nets
    BY DEF TypeOK, Nets
  <2>2. s' \in Socks
    BY DEF TypeOK, Socks, SockFlags
  <2>3. sjob' \in Jobs(IoLabels)
    BY CompletedFacts, LabelFacts DEF TypeOK
  <2>4. c' \in Conns /\ cjob' \in Jobs(CpuLabels)
    BY FailedFacts, SignalFacts DEF TypeOK, aborted
  <2> QED BY <2>1, <2>2, <2>3, <2>4 DEF Running, TypeOK
<1> QED BY <1>1, <1>2 DEF MainThread

\* Reads, writes, and the end of the socket job.
LEMMA IoType == ASSUME TypeOK, IoThread \/ interrupted PROVE TypeOK'
<1>0. \A l \in IoLabels : At(sjob, l) \in Jobs(IoLabels) /\ Signal(At(sjob, l), "ABORT") \in Jobs(IoLabels)
  BY AtFacts, SignalFacts DEF TypeOK
<1>f. ASSUME NEW flags \in SUBSET SockFlags, NEW l \in IoLabels, NetFail(flags, l)
      PROVE  s' \in Socks /\ sjob' \in Jobs(IoLabels)
  BY <1>0, <1>f DEF NetFail, TypeOK, Socks, SockFlags
<1>1. CASE net_server_socket_read_write
  <2> USE <1>1 DEF net_server_socket_read_write
  <2>1. s' \in Socks
    BY SMT DEF TypeOK, Socks, SockFlags
  <2>2. c' \in Conns
    BY SMT DEF TypeOK, Conns, ConnFlags
  <2>3. sjob' \in Jobs(IoLabels)
    <3>1. \A l \in IoLabels : Take(sjob, "RUN", l) \in Jobs(IoLabels)
      BY TakeFacts DEF TypeOK
    <3> QED BY <3>1, LabelFacts
  <2>4. cjob' \in Jobs(CpuLabels)
    BY SMT, SignalFacts DEF TypeOK
  <2> QED BY <2>1, <2>2, <2>3, <2>4 DEF Running, TypeOK
<1>2. CASE socket_reader_loop
  <2> USE <1>2 DEF socket_reader_loop
  <2>1. s' \in Socks
    <3>1. \A f \in SockFlags : s.flags \in SUBSET SockFlags /\ s.flags \cup {f} \in SUBSET SockFlags
      BY DEF TypeOK, Socks
    <3>2. "NORD" \in SockFlags /\ "WANTWR" \in SockFlags /\ s \in Socks
      BY DEF SockFlags, TypeOK
    <3> QED BY ZenonT(60), <3>1, <3>2, SockFacts
  <2>2. sjob' \in Jobs(IoLabels)
    BY <1>0, LabelFacts
  <2> QED BY ZenonT(60), <2>1, <2>2 DEF Running, TypeOK
<1>3. CASE net_server_socket_reader
  <2> USE <1>3 DEF net_server_socket_reader
  <2>1. c' \in Conns /\ net' \in Nets
    BY SMT DEF TypeOK, Conns, Nets
  <2>2. cjob' \in Jobs(CpuLabels)
    BY SMT, SignalFacts DEF TypeOK
  <2>3. s' \in Socks /\ sjob' \in Jobs(IoLabels)
    <3>1. s.flags \in SUBSET SockFlags /\ s.flags \ {"NORD"} \in SUBSET SockFlags
      BY DEF TypeOK, Socks
    <3>2. [s EXCEPT !.flags = @ \ {"NORD"}] \in Socks
      BY DEF TypeOK, Socks
    <3> QED BY <1>0, <1>f, <3>1, <3>2, LabelFacts DEF TypeOK
  <2> QED BY <2>1, <2>2, <2>3 DEF Running, TypeOK
<1>4. CASE socket_writer_loop
  <2> DEFINE stop == "STOPWRITE" \in s.flags
  <2>1. sjob' = IF Writes(s.flags) THEN [sjob EXCEPT !.pc = "writer", !.stop = stop] ELSE At(sjob, "idle")
    BY <1>4 DEF socket_writer_loop
  <2>2. stop \in BOOLEAN
    BY SMT
  <2> HIDE DEF stop
  <2>3. sjob' \in Jobs(IoLabels)
    BY <1>0, <2>1, <2>2, StopFacts, LabelFacts DEF TypeOK
  <2> QED BY <1>4, <2>3 DEF socket_writer_loop, Running, TypeOK
<1>5. CASE writer_loop
  <2> USE <1>5 DEF writer_loop
  <2>1. /\ s.flags \in SUBSET SockFlags /\ s.flags \ {"WANTWR"} \in SUBSET SockFlags
        /\ s.flags \cup {"NOWR"} \in SUBSET SockFlags
    BY DEF TypeOK, Socks, SockFlags
  <2>2. \A flags \in SUBSET SockFlags : [s EXCEPT !.flags = flags] \in Socks
    BY DEF TypeOK, Socks
  <2>3. s' \in Socks /\ sjob' \in Jobs(IoLabels)
    BY <1>0, <1>f, <2>1, <2>2, LabelFacts
  <2> QED BY <2>3 DEF Running, TypeOK
<1>6. CASE net_server_socket_writer
  <2> USE <1>6 DEF net_server_socket_writer
  <2>1. net' \in Nets
    BY DEF TypeOK, Nets
  <2>2. s.flags \in SUBSET SockFlags
    BY DEF TypeOK, Socks
  <2>3. \A n \in 1 .. s.out : [s EXCEPT !.out = @ - n, !.eagain_count = 0, !.flags = @ \ {"NOWR"}] \in Socks
    <3>1. s.flags \ {"NOWR"} \in SUBSET SockFlags /\ s \in Socks
      BY <2>2 DEF TypeOK
    <3> QED BY <3>1, SockFacts
  <2>4. [s EXCEPT !.eagain_count = @ + 1] \in Socks
    BY <2>2, SockFacts DEF TypeOK
  <2>5. s' \in Socks /\ sjob' \in Jobs(IoLabels)
    BY <1>0, <1>f, <2>2, <2>3, <2>4, LabelFacts
  <2> QED BY <2>1, <2>5 DEF Running, TypeOK
<1>7. CASE net_server_socket_free
  <2> USE <1>7 DEF net_server_socket_free
  <2>1. s' \in Socks
    BY DEF TypeOK, Socks
  <2>2. sjob' \in Jobs(IoLabels)
    BY <1>0, LabelFacts
  <2>3. c' \in Conns /\ cjob' \in Jobs(CpuLabels)
    BY FailedFacts, SignalFacts DEF TypeOK, aborted
  <2> QED BY <2>1, <2>2, <2>3 DEF Running, TypeOK
<1>8. CASE interrupted
  <2> USE <1>8 DEF interrupted
  <2>1. s' \in Socks
    BY DEF TypeOK, Socks
  <2>2. sjob' \in Jobs(IoLabels)
    BY <1>0, LabelFacts
  <2> QED BY <2>1, <2>2 DEF Running, TypeOK
<1> QED BY <1>1, <1>2, <1>3, <1>4, <1>5, <1>6, <1>7, <1>8 DEF IoThread

\* What cpu_tcp_server_reader does, whatever parse_execute makes of the input.
LEMMA ReaderFacts ==
    ASSUME TypeOK, cpu_tcp_server_reader
    PROVE  /\ c' \in Conns /\ c.flags \subseteq c'.flags /\ c'.io_conn = c.io_conn
           /\ engine' \in [ref : BOOLEAN, sent : Nat] /\ engine'.ref = engine.ref
           /\ s' \in {s, [s EXCEPT !.flags = @ \cup {"STOPREAD"}]}
           /\ \/ cjob' \in {At(cjob, "writer"), At(cjob, "write_close")}
              \/ cjob' = aborted(c, At(cjob, "writer")) /\ "ERROR" \in c'.flags
<1> DEFINE in == c.in + c.in_queue
           fetched == [c EXCEPT !.in = in, !.in_queue = 0]
<1>1. in \in Nat /\ c.flags \in SUBSET ConnFlags /\ c.flags \cup {"STOPREAD"} \in SUBSET ConnFlags
  BY SMT DEF TypeOK, Conns, ConnFlags
<1>2. fetched \in Conns /\ fetched.flags = c.flags /\ fetched.io_conn = c.io_conn
  BY <1>1 DEF TypeOK, Conns
<1>3. \/ c' = fetched /\ cjob' = At(cjob, "writer") /\ s' = s /\ engine' = engine
      \/ /\ \E left \in {0, in}, answers \in {0, 1} :
               /\ c' = [fetched EXCEPT !.in = left, !.out_queue = @ + answers]
               /\ engine' = [engine EXCEPT !.sent = @ + answers]
         /\ cjob' = At(cjob, "writer") /\ s' = s
      \/ c' = failed(fetched) /\ cjob' = aborted(c, At(cjob, "writer")) /\ s' = s /\ engine' = engine
      \/ /\ c' = [fetched EXCEPT !.in = 0, !.out_queue = @ + 1, !.flags = @ \cup {"STOPREAD"}]
         /\ s' = [s EXCEPT !.flags = @ \cup {"STOPREAD"}]
         /\ cjob' = At(cjob, "write_close")
         /\ engine' = [engine EXCEPT !.sent = @ + 1]
  BY DEF cpu_tcp_server_reader
<1> HIDE DEF in, fetched
<1>4. CASE c' = fetched /\ cjob' = At(cjob, "writer") /\ s' = s /\ engine' = engine
  BY <1>2, <1>4 DEF TypeOK
<1>5. CASE /\ \E left \in {0, in}, answers \in {0, 1} :
                /\ c' = [fetched EXCEPT !.in = left, !.out_queue = @ + answers]
                /\ engine' = [engine EXCEPT !.sent = @ + answers]
           /\ cjob' = At(cjob, "writer") /\ s' = s
  <2>1. PICK left \in {0, in}, answers \in {0, 1} :
                /\ c' = [fetched EXCEPT !.in = left, !.out_queue = @ + answers]
                /\ engine' = [engine EXCEPT !.sent = @ + answers]
    BY <1>5
  <2>2. left \in Nat /\ answers \in Nat
    BY SMT, <1>1
  <2>3. c' \in Conns
    BY <1>1, <1>2, <2>1, <2>2, ConnFacts
  <2>4. c'.flags = c.flags /\ c'.io_conn = c.io_conn
    BY <1>2, <2>1 DEF Conns
  <2> QED BY <1>5, <2>1, <2>2, <2>3, <2>4, EngineFacts
<1>6. CASE c' = failed(fetched) /\ cjob' = aborted(c, At(cjob, "writer")) /\ s' = s /\ engine' = engine
  BY <1>2, <1>6, FailedFacts DEF TypeOK
<1>7. CASE /\ c' = [fetched EXCEPT !.in = 0, !.out_queue = @ + 1, !.flags = @ \cup {"STOPREAD"}]
           /\ s' = [s EXCEPT !.flags = @ \cup {"STOPREAD"}]
           /\ cjob' = At(cjob, "write_close")
           /\ engine' = [engine EXCEPT !.sent = @ + 1]
  <2>1. c' \in Conns
    BY <1>1, <1>2, <1>7, ConnFacts
  <2>2. c'.flags = c.flags \cup {"STOPREAD"} /\ c'.io_conn = c.io_conn
    BY <1>2, <1>7 DEF Conns
  <2> QED BY <1>7, <2>1, <2>2, EngineFacts
<1> QED BY <1>3, <1>4, <1>5, <1>6, <1>7

\* The connection job.
LEMMA CpuType == ASSUME TypeOK, CpuThread PROVE TypeOK'
<1>0. \A l \in CpuLabels : At(cjob, l) \in Jobs(CpuLabels)
  BY AtFacts DEF TypeOK
<1>1. CASE do_connection_job
  <2> USE <1>1 DEF do_connection_job
  <2>1. become_ready(c) \in Conns
    BY DEF become_ready, TypeOK, Conns
  <2>2. \A l \in CpuLabels : Take(cjob, "RUN", l) \in Jobs(CpuLabels)
    BY TakeFacts DEF TypeOK
  <2>3. c' \in Conns /\ cjob' \in Jobs(CpuLabels)
    BY <2>1, <2>2, LabelFacts DEF TypeOK
  <2> QED BY <2>3 DEF Running, TypeOK
<1>2. CASE cpu_tcp_server_reader
  <2>1. cjob' \in Jobs(CpuLabels)
    <3>1. At(cjob, "writer") \in Jobs(CpuLabels) /\ At(cjob, "write_close") \in Jobs(CpuLabels)
      BY <1>0, LabelFacts
    <3>2. aborted(c, At(cjob, "writer")) \in Jobs(CpuLabels)
      BY <3>1, SignalFacts DEF aborted
    <3> QED BY <1>2, <3>1, <3>2, ReaderFacts
  <2>2. s' \in Socks
    <3>1. [s EXCEPT !.flags = @ \cup {"STOPREAD"}] \in Socks
      BY DEF TypeOK, Socks, SockFlags
    <3> QED BY <1>2, <3>1, ReaderFacts DEF TypeOK
  <2>3. UNCHANGED <<sjob, net, crashed>>
    BY <1>2 DEF cpu_tcp_server_reader, Running
  <2> QED BY <1>2, <2>1, <2>2, <2>3, ReaderFacts DEF TypeOK
<1>3. CASE connection_write_close
  <2>1. c' \in Conns
    BY <1>3 DEF connection_write_close, TypeOK, Conns
  <2>2. cjob' \in Jobs(CpuLabels)
    BY <1>0, <1>3, SignalFacts, LabelFacts DEF connection_write_close
  <2> QED BY <1>3, <2>1, <2>2 DEF connection_write_close, Running, TypeOK
<1>4. CASE cpu_tcp_server_writer
  <2> DEFINE stop == c.status = "write_close"
  <2>1. stop \in BOOLEAN
    OBVIOUS
  <2>2. cjob' = IF c.out_queue > 0 THEN [cjob EXCEPT !.pc = "push", !.stop = stop] ELSE At(cjob, "idle")
    BY <1>4 DEF cpu_tcp_server_writer
  <2> HIDE DEF stop
  <2>3. cjob' \in Jobs(CpuLabels)
    BY <1>0, <2>1, <2>2, StopFacts, LabelFacts DEF TypeOK
  <2>4. c' \in Conns /\ c.out_queue \in Nat
    BY <1>4 DEF cpu_tcp_server_writer, TypeOK, Conns
  <2>5. s' \in Socks
    <3>1. s.flags \in SUBSET SockFlags
      BY DEF TypeOK, Socks
    <3> QED BY <1>4, <2>4, <3>1, SockFacts DEF cpu_tcp_server_writer, TypeOK
  <2> QED BY <1>4, <2>3, <2>4, <2>5 DEF cpu_tcp_server_writer, Running, TypeOK
<1>5. CASE signal_io_conn
  <2>1. s' \in Socks
    BY <1>5 DEF signal_io_conn, TypeOK, Socks, SockFlags
  <2>2. sjob' \in Jobs(IoLabels) /\ cjob' \in Jobs(CpuLabels)
    BY <1>0, <1>5, SignalFacts, LabelFacts DEF signal_io_conn, TypeOK
  <2> QED BY <1>5, <2>1, <2>2 DEF signal_io_conn, Running, TypeOK
<1>6. CASE cpu_server_close_connection
  <2>1. c' \in Conns
    <3>1. c.flags \cup {"FAILED"} \in SUBSET ConnFlags
      BY DEF TypeOK, Conns, ConnFlags
    <3> QED BY ZenonT(60), <1>6, <3>1, ConnFacts DEF cpu_server_close_connection, TypeOK
  <2>2. sjob' \in Jobs(IoLabels) /\ cjob' \in Jobs(CpuLabels)
    BY SMT, <1>6, SignalFacts, CompletedFacts, LabelFacts DEF cpu_server_close_connection, TypeOK
  <2> QED BY ZenonT(60), <1>6, <2>1, <2>2 DEF cpu_server_close_connection, TypeOK
<1>7. CASE cpu_server_free_connection
  BY <1>0, <1>7, LabelFacts DEF cpu_server_free_connection, Running, TypeOK
<1> QED BY <1>1, <1>2, <1>3, <1>4, <1>5, <1>6, <1>7 DEF CpuThread

\* A thread that found the connection by its descriptor.
LEMMA EngineType == ASSUME TypeOK, EngineThread PROVE TypeOK'
<1>1. engine.sent + 1 \in Nat /\ c.out_queue + 1 \in Nat
  BY SMT DEF TypeOK, Conns
<1>2. engine' \in [ref : BOOLEAN, sent : Nat]
  BY <1>1 DEF EngineThread, connection_get_by_fd, SendPacket, fail_connection, job_decref, TypeOK
<1>3. c' \in Conns
  <2>1. [c EXCEPT !.out_queue = @ + 1] \in Conns
    BY <1>1 DEF TypeOK, Conns
  <2> QED BY <2>1, FailedFacts
          DEF EngineThread, connection_get_by_fd, SendPacket, fail_connection, job_decref, TypeOK
<1>4. cjob' \in Jobs(CpuLabels)
  BY SMT, SignalFacts
     DEF EngineThread, connection_get_by_fd, SendPacket, fail_connection, job_decref, aborted, TypeOK
<1> QED BY <1>2, <1>3, <1>4
    DEF EngineThread, connection_get_by_fd, SendPacket, fail_connection, job_decref, Running, TypeOK

\* The type invariant is inductive.
LEMMA TypeStep == ASSUME TypeOK, [Next]_vars PROVE TypeOK'
<1>1. CASE UNCHANGED vars
  BY <1>1 DEF vars, TypeOK
<1> QED BY <1>1, PeerType, MainType, IoType, CpuType, EngineType DEF Next

-----------------------------------------------------------------------------
(***************************************************************************)
(* The teardown.                                                           *)
(***************************************************************************)
\* a step that lets nothing go: marks stay, and a job is aborted only when it has failed
Quiet ==
    /\ c.flags \cap {"ERROR", "FAILED"} \subseteq c'.flags
    /\ c'.io_conn = c.io_conn
    /\ s'.ev = s.ev /\ s'.conn = s.conn
    /\ engine'.ref = engine.ref
    /\ cjob'.pc = "freed" <=> cjob.pc = "freed"
    /\ sjob'.pc = "freed" <=> sjob.pc = "freed"
    /\ "ABORT" \in cjob'.sig => "ABORT" \in cjob.sig \/ "ERROR" \in c'.flags
    /\ net'.armed = net.armed
    /\ ~net.armed /\ net.edges = {} => net'.edges = {}

\* Such a step keeps the order of the teardown.
LEMMA QuietStep == ASSUME TeardownInv, TypeOK', Quiet PROVE TeardownInv'
<1>1. FreedLast'
  BY DEF TeardownInv, FreedLast, Quiet
<1> QED BY <1>1 DEF TeardownInv, Quiet

\* The peer and the kernel.
LEMMA PeerTeardown == ASSUME TeardownInv, TypeOK', Peer PROVE TeardownInv'
<1>1. net'.armed = net.armed /\ (~net.armed /\ net.edges = {} => net'.edges = {})
  BY ZenonT(60) DEF Peer, PeerConnects, PeerSends, PeerTakes, PeerCloses, Edge, TeardownInv, TypeOK, Nets
<1>2. UNCHANGED <<c, cjob, s, sjob, engine>>
  BY DEF Peer, PeerConnects, PeerSends, PeerTakes, PeerCloses
<1> QED BY <1>1, <1>2, QuietStep DEF Quiet

\* An event is taken from epoll, or the socket job gives its event up.
LEMMA MainTeardown == ASSUME TeardownInv, TypeOK', MainThread PROVE TeardownInv'
<1>0. TypeOK /\ sjob \in Jobs(IoLabels) /\ cjob \in Jobs(CpuLabels) /\ c \in Conns
  BY DEF TeardownInv, TypeOK
<1>1. CASE net_server_socket_read_write_gateway
  <2> USE <1>1 DEF net_server_socket_read_write_gateway
  <2>1. s'.ev = s.ev /\ s'.conn = s.conn /\ UNCHANGED <<c, cjob, engine>>
    BY <1>0 DEF TypeOK, Socks
  <2>2. sjob'.pc = sjob.pc
    BY <1>0, SignalFacts
  <2>3. net.armed /\ net'.edges = {}
    BY <1>0 DEF TeardownInv, TypeOK, Nets
  <2>4. s.ev
    BY <2>3 DEF TeardownInv
  <2>5. cjob.pc # "freed" /\ sjob.pc # "freed"
    BY <2>4 DEF TeardownInv, FreedLast
  <2> QED BY <2>1, <2>2, <2>3, <2>4, <2>5 DEF TeardownInv, FreedLast
<1>2. CASE fail_socket_connection
  <2> USE <1>2 DEF fail_socket_connection
  <2>1. ~s'.ev /\ s'.conn = s.conn /\ engine' = engine
    BY <1>0 DEF TypeOK, Socks
  <2>2. ~net'.armed /\ net'.edges = {}
    BY <1>0 DEF TypeOK, Nets
  <2>3. sjob'.pc = "completed" /\ sjob.pc = "idle"
    BY <1>0, CompletedFacts, LabelFacts
  <2>4. c'.flags = c.flags \cup {"ERROR"} /\ c'.io_conn = c.io_conn
    BY <1>0, FailedFacts
  <2>5. cjob'.pc = cjob.pc
    BY <1>0, SignalFacts DEF aborted
  <2>6. cjob.pc # "freed" /\ s.conn
    BY <2>3 DEF TeardownInv, FreedLast
  <2> QED BY <2>1, <2>2, <2>3, <2>4, <2>5, <2>6 DEF TeardownInv, FreedLast
<1> QED BY <1>1, <1>2 DEF MainThread

\* The socket job reads and writes, and is freed in the end.
LEMMA IoTeardown == ASSUME TeardownInv, TypeOK', IoThread \/ interrupted PROVE TeardownInv'
<1>0. TypeOK /\ sjob \in Jobs(IoLabels) /\ cjob \in Jobs(CpuLabels) /\ c \in Conns /\ s \in Socks
  BY DEF TeardownInv, TypeOK
<1>a. \A l \in IoLabels : /\ At(sjob, l).pc = l /\ Take(sjob, "RUN", l).pc = l
                          /\ Signal(At(sjob, l), "ABORT").pc = l
  BY SMT, <1>0, AtFacts, TakeFacts, SignalFacts
<1>r. Signal(cjob, "RUN").pc = cjob.pc /\ ("ABORT" \in Signal(cjob, "RUN").sig => "ABORT" \in cjob.sig)
  BY <1>0, SignalFacts
<1>1. CASE net_server_socket_free
  <2> USE <1>1 DEF net_server_socket_free
  <2>1. ~s'.conn /\ s'.ev = s.ev /\ ~s.ev /\ UNCHANGED <<net, engine>>
    BY <1>0 DEF Socks
  <2>2. sjob'.pc = "freed" /\ sjob.pc # "freed"
    BY <1>a, LabelFacts
  <2>3. c'.flags = c.flags \cup {"ERROR"} /\ c'.io_conn = c.io_conn /\ ~c.io_conn
    BY <1>0, FailedFacts
  <2>4. cjob'.pc = cjob.pc
    BY <1>0, SignalFacts DEF aborted
  <2>5. cjob.pc # "freed"
    BY <2>2 DEF TeardownInv, FreedLast
  <2> QED BY <2>1, <2>2, <2>3, <2>4, <2>5 DEF TeardownInv, FreedLast
<1>2. CASE net_server_socket_read_write
  <2> USE <1>2 DEF net_server_socket_read_write
  <2>1. s'.ev = s.ev /\ s'.conn = s.conn /\ UNCHANGED <<net, engine>>
    BY <1>0 DEF Socks
  <2>2. c.flags \subseteq c'.flags /\ c'.io_conn = c.io_conn
    BY <1>0 DEF Conns
  <2>3. sjob.pc # "freed" /\ sjob'.pc # "freed"
    BY <1>a, LabelFacts
  <2>4. cjob'.pc = cjob.pc /\ ("ABORT" \in cjob'.sig => "ABORT" \in cjob.sig)
    BY <1>r
  <2> QED BY <2>1, <2>2, <2>3, <2>4, QuietStep DEF Quiet
<1>3. CASE net_server_socket_reader
  <2> USE <1>3 DEF net_server_socket_reader, NetFail
  <2>1. s'.ev = s.ev /\ s'.conn = s.conn /\ engine' = engine
    BY <1>0 DEF Socks
  <2>2. c'.flags = c.flags /\ c'.io_conn = c.io_conn
    BY <1>0 DEF Conns
  <2>3. sjob.pc # "freed" /\ sjob'.pc # "freed"
    BY <1>a, LabelFacts
  <2>4. cjob'.pc = cjob.pc /\ ("ABORT" \in cjob'.sig => "ABORT" \in cjob.sig)
    BY <1>r
  <2>5. net'.armed = net.armed /\ net'.edges = net.edges
    BY <1>0 DEF TypeOK, Nets
  <2> QED BY <2>1, <2>2, <2>3, <2>4, <2>5, QuietStep DEF Quiet
<1>4. CASE socket_reader_loop \/ writer_loop \/ net_server_socket_writer \/ interrupted
  <2> USE <1>4 DEF socket_reader_loop, writer_loop, net_server_socket_writer, interrupted, NetFail
  <2>1. s'.ev = s.ev /\ s'.conn = s.conn
    BY <1>0 DEF Socks
  <2>2. UNCHANGED <<c, cjob, engine>>
    OBVIOUS
  <2>3. sjob.pc # "freed" /\ sjob'.pc # "freed"
    BY <1>a, LabelFacts
  <2>4. net'.armed = net.armed /\ net'.edges = net.edges
    BY <1>0 DEF TypeOK, Nets
  <2> QED BY <2>1, <2>2, <2>3, <2>4, QuietStep DEF Quiet
<1>5. CASE socket_writer_loop
  <2>1. UNCHANGED <<c, cjob, s, net, engine>> /\ sjob.pc # "freed"
    BY <1>5 DEF socket_writer_loop
  <2>2. \A b \in BOOLEAN : [sjob EXCEPT !.pc = "writer", !.stop = b].pc = "writer"
    BY <1>0 DEF Jobs
  <2>3. sjob'.pc # "freed"
    BY SMT, <1>0, <1>5, <1>a, <2>2, LabelFacts DEF socket_writer_loop, Jobs
  <2> QED BY <2>1, <2>3, QuietStep DEF Quiet
<1> QED BY <1>1, <1>2, <1>3, <1>4, <1>5 DEF IoThread

\* A connection that becomes ready keeps its errors and its socket job.
LEMMA ReadyFacts ==
  ASSUME NEW k \in Conns, NEW r, r = become_ready(k)
  PROVE  k.flags \cap {"ERROR", "FAILED"} \subseteq r.flags /\ r.io_conn = k.io_conn
<1>1. CASE "READY_PENDING" \notin k.flags
  BY <1>1 DEF become_ready
<1>2. CASE "READY_PENDING" \in k.flags
  <2>1. PICK f, w : r = [k EXCEPT !.flags = f, !.status = w] /\ f = k.flags \ {"READY_PENDING"}
    BY <1>2 DEF become_ready, Conns
  <2>2. r.flags = f /\ r.io_conn = k.io_conn
    BY <2>1 DEF Conns
  <2> QED BY <2>1, <2>2
<1> QED BY <1>1, <1>2

\* The connection job parses and answers, is closed, and is freed in the end.
LEMMA CpuTeardown == ASSUME TeardownInv, TypeOK', CpuThread PROVE TeardownInv'
<1>0. TypeOK /\ sjob \in Jobs(IoLabels) /\ cjob \in Jobs(CpuLabels) /\ c \in Conns /\ s \in Socks
  BY DEF TeardownInv, TypeOK
<1>a. \A l \in CpuLabels : /\ At(cjob, l) \in Jobs(CpuLabels) /\ At(cjob, l).pc = l /\ At(cjob, l).sig = cjob.sig
                           /\ Take(cjob, "RUN", l).pc = l /\ Take(cjob, "RUN", l).sig = cjob.sig \ {"RUN"}
  BY SMT, <1>0, AtFacts, TakeFacts
<1>1. CASE do_connection_job
  <2> USE <1>1 DEF do_connection_job
  <2>1. c.flags \cap {"ERROR", "FAILED"} \subseteq c'.flags /\ c'.io_conn = c.io_conn
    <3>1. CASE c' = c
      BY <3>1
    <3>2. CASE c' = become_ready(c)
      BY <1>0, <3>2, ReadyFacts
    <3> QED BY <3>1, <3>2
  <2>2. cjob.pc # "freed" /\ cjob'.pc # "freed" /\ ("ABORT" \in cjob'.sig => "ABORT" \in cjob.sig)
    BY SMT, <1>a, LabelFacts
  <2>3. UNCHANGED <<s, sjob, net, engine>>
    OBVIOUS
  <2> QED BY <2>1, <2>2, <2>3, QuietStep DEF Quiet
<1>2. CASE cpu_tcp_server_reader
  <2>1. UNCHANGED <<sjob, net>> /\ cjob.pc = "reader"
    BY <1>2 DEF cpu_tcp_server_reader
  <2>2. s'.ev = s.ev /\ s'.conn = s.conn
    BY <1>0, <1>2, ReaderFacts DEF Socks
  <2>3. cjob'.pc # "freed" /\ ("ABORT" \in cjob'.sig => "ABORT" \in cjob.sig \/ "ERROR" \in c'.flags)
    <3>1. CASE cjob' \in {At(cjob, "writer"), At(cjob, "write_close")}
      BY SMT, <1>a, <3>1, LabelFacts
    <3>2. CASE cjob' = aborted(c, At(cjob, "writer")) /\ "ERROR" \in c'.flags
      BY SMT, <1>a, <3>2, SignalFacts, LabelFacts DEF aborted
    <3> QED BY <1>0, <1>2, <3>1, <3>2, ReaderFacts
  <2> QED BY <1>0, <1>2, <2>1, <2>2, <2>3, ReaderFacts, QuietStep DEF Quiet
<1>3. CASE connection_write_close
  <2> USE <1>3 DEF connection_write_close
  <2>1. c'.flags = c.flags /\ c'.io_conn = c.io_conn
    BY <1>0 DEF Conns
  <2>2. cjob.pc # "freed" /\ cjob'.pc # "freed" /\ ("ABORT" \in cjob'.sig => "ABORT" \in cjob.sig)
    BY SMT, <1>a, SignalFacts, LabelFacts
  <2>3. UNCHANGED <<s, sjob, net, engine>>
    OBVIOUS
  <2> QED BY <2>1, <2>2, <2>3, QuietStep DEF Quiet
<1>4. CASE cpu_tcp_server_writer
  <2> USE <1>4 DEF cpu_tcp_server_writer
  <2>1. c'.flags = c.flags /\ c'.io_conn = c.io_conn
    BY <1>0 DEF Conns
  <2>2. s'.ev = s.ev /\ s'.conn = s.conn
    BY <1>0 DEF Socks
  <2>3. cjob.pc # "freed" /\ cjob'.pc # "freed" /\ cjob'.sig = cjob.sig
    BY <1>0, <1>a, LabelFacts DEF Jobs
  <2>4. UNCHANGED <<sjob, net, engine>>
    OBVIOUS
  <2> QED BY <2>1, <2>2, <2>3, <2>4, QuietStep DEF Quiet
<1>5. CASE signal_io_conn
  <2> USE <1>5 DEF signal_io_conn
  <2>1. s'.ev = s.ev /\ s'.conn = s.conn
    BY <1>0 DEF Socks
  <2>2. sjob'.pc = sjob.pc
    BY <1>0, SignalFacts
  <2>3. cjob.pc # "freed" /\ cjob'.pc # "freed" /\ cjob'.sig = cjob.sig
    BY <1>a, LabelFacts
  <2>4. UNCHANGED <<c, net, engine>>
    OBVIOUS
  <2> QED BY <2>1, <2>2, <2>3, <2>4, QuietStep DEF Quiet
<1>6. CASE cpu_server_close_connection
  <2> USE <1>6 DEF cpu_server_close_connection
  <2>1. "ERROR" \in c.flags
    BY DEF TeardownInv
  <2>2. CASE c.status = "error"
    <3>1. c'.flags = c.flags \cup {"FAILED"} /\ ~c'.io_conn
      BY <1>0, <2>2 DEF Conns
    <3>2. cjob.pc # "freed" /\ cjob'.pc = "completed"
      BY SMT, <1>0, <2>2, CompletedFacts, LabelFacts
    <3>3. sjob'.pc = sjob.pc
      BY <1>0, <2>2, SignalFacts
    <3>4. UNCHANGED <<s, net, engine>>
      OBVIOUS
    <3> QED BY <2>1, <3>1, <3>2, <3>3, <3>4 DEF TeardownInv, FreedLast
  <2>3. CASE c.status # "error"
    <3>1. UNCHANGED <<c, cjob, s, sjob, net, engine>>
      BY <2>3
    <3> QED BY <3>1, QuietStep DEF Quiet
  <2> QED BY <2>2, <2>3
<1>7. CASE cpu_server_free_connection
  <2> USE <1>7 DEF cpu_server_free_connection
  <2>1. UNCHANGED <<c, s, sjob, net, engine>> /\ ~s.conn /\ ~engine.ref
    OBVIOUS
  <2>2. sjob.pc = "freed" /\ ~s.ev /\ ~c.io_conn /\ ~net.armed /\ {"ERROR", "FAILED"} \subseteq c.flags
    BY <2>1 DEF TeardownInv
  <2>3. FreedLast'
    BY <2>1, <2>2 DEF FreedLast
  <2>4. cjob'.sig = cjob.sig
    BY <1>a, LabelFacts
  <2> QED BY <2>1, <2>3, <2>4 DEF TeardownInv
<1> QED BY <1>1, <1>2, <1>3, <1>4, <1>5, <1>6, <1>7 DEF CpuThread

\* Another thread finds the connection, uses it and lets it go.
LEMMA EngineTeardown == ASSUME TeardownInv, TypeOK', EngineThread PROVE TeardownInv'
<1>0. TypeOK /\ cjob \in Jobs(CpuLabels) /\ c \in Conns
  BY DEF TeardownInv, TypeOK
<1>1. CASE connection_get_by_fd
  <2>1. UNCHANGED <<c, cjob, s, sjob, net>> /\ s.ev
    BY <1>1 DEF connection_get_by_fd
  <2> QED BY <2>1 DEF TeardownInv, FreedLast
<1>2. CASE SendPacket
  <2> USE <1>2 DEF SendPacket
  <2>1. c'.flags = c.flags /\ c'.io_conn = c.io_conn
    BY <1>0 DEF Conns
  <2>2. engine'.ref = engine.ref
    BY <1>0 DEF TypeOK
  <2>3. cjob'.pc = cjob.pc /\ ("ABORT" \in cjob'.sig => "ABORT" \in cjob.sig)
    BY SMT, <1>0, SignalFacts
  <2>4. UNCHANGED <<s, sjob, net>>
    OBVIOUS
  <2> QED BY <2>1, <2>2, <2>3, <2>4, QuietStep DEF Quiet
<1>3. CASE fail_connection
  <2> USE <1>3 DEF fail_connection
  <2>1. c'.flags = c.flags \cup {"ERROR"} /\ c'.io_conn = c.io_conn
    BY <1>0, FailedFacts
  <2>2. cjob'.pc = cjob.pc
    BY <1>0, SignalFacts DEF aborted
  <2>3. UNCHANGED <<s, sjob, net, engine>>
    OBVIOUS
  <2> QED BY <2>1, <2>2, <2>3, QuietStep DEF Quiet
<1>4. CASE job_decref
  <2>1. UNCHANGED <<c, cjob, s, sjob, net>> /\ ~engine'.ref
    BY <1>0, <1>4 DEF job_decref, TypeOK
  <2> QED BY <2>1 DEF TeardownInv, FreedLast
<1> QED BY <1>1, <1>2, <1>3, <1>4 DEF EngineThread

-----------------------------------------------------------------------------
\* The teardown invariant holds of every connection, whatever its peer, the kernel, the I/O
\* thread, the CPU thread and a thread that found it by its descriptor do.
THEOREM TeardownInductive == Spec => []TeardownInv
<1>1. Init => TeardownInv
  BY InitTeardown
<1>2. ASSUME TeardownInv, [Next]_vars PROVE TeardownInv'
  <2>1. TypeOK'
    BY <1>2, TypeStep DEF TeardownInv
  <2>2. CASE UNCHANGED vars
    BY <1>2, <2>1, <2>2, QuietStep DEF vars, Quiet
  <2> QED BY <1>2, <2>1, <2>2, PeerTeardown, MainTeardown, IoTeardown, CpuTeardown, EngineTeardown
          DEF Next
<1> QED BY <1>1, <1>2, PTL DEF Spec

\* A connection is freed, and its descriptor closed, only after it was closed, its socket job
\* was freed and its event left epoll, and when no thread holds it (cpu_server_free_connection).
THEOREM FreedIsLast == Spec => []FreedLast
<1>1. TeardownInv => FreedLast
  BY DEF TeardownInv
<1> QED BY <1>1, TeardownInductive, PTL
=============================================================================
