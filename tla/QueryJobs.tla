----------------------------- MODULE QueryJobs ------------------------------
(***************************************************************************)
(* The engine's own RPC queries (engine-rpc.c, engine-rpc-common.c,        *)
(* tl-parse.c): a packet of a connection becomes a job; the job parses the *)
(* header, arms a timer and starts a child job that computes the answer;   *)
(* the child's completion, the timer and an abort race to answer.  Answers *)
(* go to any open connection of the process that asked, found in the table *)
(* of rpc targets (net-rpc-targets.c).  All handlers run on the engine     *)
(* thread; the timer and the network do not wait for it.  References are   *)
(* counted as jobs.c counts them, at the grain of whole handlers.          *)
(***************************************************************************)
EXTENDS Integers, Sequences, FiniteSets

CONSTANTS
  Conns,      \* connections of the engine's RPC port
  Pid,        \* connection -> remote_pid, a record ip, port, pid, utime
  Queries,    \* query jobs
  Packets,    \* the packets that may arrive: the connection, the query it will be,
              \* the message, a sequence of TL values
  Acts,       \* what the act function of a query may return: "ok", "fail"
  NoConn

VARIABLES
  conn,       \* connection -> "open", "failed" (C_ERROR) or "closed" (rpc_close ran)
  in_rpc_target,
  job,        \* query -> its job
  child,      \* query -> the job of its act function: "none", "runs" or "freed"
  answers     \* query -> the answers sent: what, and on which connection

vars == <<conn, in_rpc_target, job, child, answers>>

-----------------------------------------------------------------------------
\* tlf_query_header on a packet that starts with RPC_INVOKE_REQ.  Fetching
\* or even looking up a value that is not there is an error, so a header
\* must be followed by something.
Header(ok, actor, rest) == [ok |-> ok, actor |-> actor, rest |-> rest]
HeaderError == Header(FALSE, 0, <<>>)

\* tlf_query_flags: no flag is supported.
tlf_query_flags(f) == f = 0

RECURSIVE destinations(_, _)
destinations(m, a) ==
  CASE m = <<>> -> HeaderError
    [] m # <<>> /\ Head(m) = "DEST_ACTOR" ->
         IF Len(m) < 2 THEN HeaderError ELSE destinations(SubSeq(m, 3, Len(m)), m[2])
    [] m # <<>> /\ Head(m) = "DEST_ACTOR_FLAGS" ->
         IF Len(m) < 3 THEN HeaderError
         ELSE IF ~tlf_query_flags(m[3]) THEN HeaderError ELSE destinations(SubSeq(m, 4, Len(m)), m[2])
    [] m # <<>> /\ Head(m) = "DEST_FLAGS" ->
         IF Len(m) < 2 THEN HeaderError
         ELSE IF ~tlf_query_flags(m[2]) THEN HeaderError ELSE destinations(SubSeq(m, 3, Len(m)), a)
    [] OTHER -> Header(TRUE, a, m)

tlf_query_header(m) == IF Len(m) < 2 THEN HeaderError ELSE destinations(SubSeq(m, 3, Len(m)), 0)

\* The functions every engine answers take no argument.
tl_simple_parse_function(m) == IF Len(m) > 1 THEN "extra data" ELSE "ok"

tl_default_parse_function(h) ==
  IF h.actor = 0 /\ Head(h.rest) \in {"STAT", "NOP"} THEN tl_simple_parse_function(h.rest) ELSE "none"

\* The proxy adds no function of its own.
mtfront_parse_function(h) == IF h.actor # 0 THEN "wrong actor" ELSE "unknown function"

fetch_query(h) ==
  LET d == tl_default_parse_function(h) IN IF d # "none" THEN d ELSE mtfront_parse_function(h)

-----------------------------------------------------------------------------
\* rpc_target_cmp: processes with a port are one target whatever their pid.
Target(p) == IF p.port # 0 THEN <<p.ip, p.port>> ELSE <<p.ip, p.port, p.pid>>
matches_pid(X, Y) == \A f \in DOMAIN Y : Y[f] = 0 \/ X[f] = Y[f]

\* rpc_target_insert_conn, rpc_target_delete_conn.
rpc_target_insert_conn(c) ==
  in_rpc_target' = [in_rpc_target EXCEPT ![c] = @ \/ conn[c] = "open"]

check_connection(c, p) == conn[c] = "open" /\ matches_pid(Pid[c], p)

\* The connections of the target that process p belongs to.
rpc_target_lookup(table, p) == {c \in Conns : table[c] /\ Target(Pid[c]) = Target(p)}

\* The connections rpc_target_choose_connection may take for process p.
Choices(table, p) == {c \in rpc_target_lookup(table, p) : check_connection(c, p)}

\* tl_aio_init_store for tl_type_tcp_raw_msg: where the answer is written.
tl_aio_init_store(q, table) ==
  LET s == Choices(table, Pid[job[q].from]) IN IF s = {} THEN {NoConn} ELSE s

-----------------------------------------------------------------------------
NoJob == [exec |-> "none", sig |-> {}, refcnt |-> 0, children |-> 0, completed |-> FALSE,
          error |-> FALSE, timer |-> "off", answer_sent |-> 0, result |-> FALSE, err |-> "none",
          msg |-> <<>>, from |-> NoConn, held |-> FALSE, missed |-> FALSE, body |-> HeaderError]

Init ==
  /\ conn = [c \in Conns |-> "open"] /\ in_rpc_target = [c \in Conns |-> FALSE]
  /\ job = [q \in Queries |-> NoJob] /\ child = [q \in Queries |-> "none"]
  /\ answers = [q \in Queries |-> <<>>]

\* unlock_job takes the highest signal first: FINISH, ABORT, ALARM, RUN.
Next1(sig) == CASE "ABORT" \in sig -> "ABORT" [] "ABORT" \notin sig /\ "ALARM" \in sig -> "ALARM" [] OTHER -> "RUN"
Pending(q, s) == job[q].sig # {} /\ Next1(job[q].sig) = s

\* job_signal: the reference given with it is kept by the job's queue entry,
\* or dropped when the job has one already.
Signal(j, s) == [j EXCEPT !.sig = @ \cup {s}, !.refcnt = IF j.sig = {} THEN @ ELSE @ - 1]

\* The end of a handler in unlock_job: the signal is done, the queue's
\* reference goes when no signal is left.
Handled(j, s, more) ==
  LET left == (j.sig \ {s}) \cup more
  IN [j EXCEPT !.sig = left, !.refcnt = IF left = {} THEN @ - 1 ELSE @]

complete_job(j) == [j EXCEPT !.completed = TRUE]

\* job_timer_remove: a timer still in the heap is taken out, with its reference.
job_timer_remove(j) == [j EXCEPT !.timer = "off", !.refcnt = IF j.timer = "armed" THEN @ - 1 ELSE @]

Stay == UNCHANGED <<conn, in_rpc_target>>

-----------------------------------------------------------------------------
do_create_query_job(c, m) ==
  [NoJob EXCEPT !.exec = "do_query", !.sig = {"RUN"}, !.refcnt = 1,
                !.msg = m, !.from = c, !.held = Head(m) # "PONG"]

default_tl_tcp_rpcs_execute(c, q, m) ==
  /\ conn[c] = "open" /\ job[q] = NoJob
  /\ job' = [job EXCEPT ![q] = do_create_query_job(c, m)]
  /\ Stay /\ UNCHANGED <<child, answers>>

Send(q, kind, to) ==
  answers' = IF to = NoConn THEN answers ELSE [answers EXCEPT ![q] = Append(@, [kind |-> kind, to |-> to])]

\* do_query_job_run and query_job_run, JS_RUN.
Insert(q) == IF job[q].held THEN rpc_target_insert_conn(job[q].from) ELSE UNCHANGED in_rpc_target

query_job_custom(q) ==
  /\ Pending(q, "RUN") /\ job[q].exec = "do_query" /\ Head(job[q].msg) # "INVOKE"
  /\ Insert(q)
  /\ job' = [job EXCEPT ![q] = Handled([@ EXCEPT !.exec = "custom", !.held = FALSE], "RUN", {"RUN"})]
  /\ UNCHANGED <<conn, child, answers>>

query_job_bad_header(q) ==
  /\ Pending(q, "RUN") /\ job[q].exec = "do_query" /\ Head(job[q].msg) = "INVOKE"
  /\ ~tlf_query_header(job[q].msg).ok
  /\ Insert(q)
  /\ \E to \in tl_aio_init_store(q, in_rpc_target') :
       /\ Send(q, "bad header", to)
       /\ job' = [job EXCEPT ![q] = complete_job(Handled([@ EXCEPT !.held = FALSE, !.missed = to = NoConn], "RUN", {}))]
  /\ UNCHANGED <<conn, child>>

\* create_query_job: the timer is armed, RUN is sent again.
create_query_job(q) ==
  /\ Pending(q, "RUN") /\ job[q].exec = "do_query" /\ Head(job[q].msg) = "INVOKE"
  /\ LET h == tlf_query_header(job[q].msg)
     IN /\ h.ok
        /\ job' = [job EXCEPT ![q] = Handled([@ EXCEPT !.exec = "parse", !.held = FALSE, !.timer = "armed",
                                                       !.refcnt = @ + 1, !.body = h], "RUN", {"RUN"})]
  /\ Insert(q)
  /\ UNCHANGED <<conn, child, answers>>

\* process_query_custom_subjob: no answer is due.
process_query_custom_subjob(q) ==
  /\ Pending(q, "RUN") /\ job[q].exec = "custom"
  /\ job' = [job EXCEPT ![q] = complete_job(Handled(job_timer_remove(@), "RUN", {}))]
  /\ Stay /\ UNCHANGED <<child, answers>>

\* process_parse_subjob: fetch_all_queries creates the child, or the job
\* aborts itself with the error of the parser.
process_parse_subjob(q) ==
  /\ Pending(q, "RUN") /\ job[q].exec = "parse"
  /\ LET r == fetch_query(job[q].body)
         j == [job[q] EXCEPT !.exec = "query"]
     IN \/ /\ r = "ok"
           /\ child' = [child EXCEPT ![q] = "runs"]
           /\ job' = [job EXCEPT ![q] = Handled([j EXCEPT !.refcnt = @ + 1, !.children = @ + 1], "RUN", {})]
        \/ /\ r # "ok" /\ UNCHANGED child
           /\ job' = [job EXCEPT ![q] = Handled([j EXCEPT !.err = r], "RUN", {"ABORT"})]
  /\ Stay /\ UNCHANGED answers

\* process_query_job.  (The path by descriptor is for tl_type_raw_msg only,
\* which no query has.)
Answered(j, kind, to) ==
  [j EXCEPT !.err = IF to = NoConn THEN @ ELSE "none", !.missed = @ \/ to = NoConn]

MutantQueryRun(q) ==
  /\ Pending(q, "RUN") /\ job[q].exec = "query"
  /\ LET j == job[q]
         kind == IF j.err # "none" THEN j.err ELSE IF j.result THEN "result" ELSE "unknown error"
     IN \E to \in tl_aio_init_store(q, in_rpc_target) :
          /\ Send(q, kind, to)
          /\ job' = [job EXCEPT ![q] = complete_job(Handled(job_timer_remove(
                       [Answered(j, kind, to) EXCEPT !.answer_sent = @ + 1]), "RUN", {}))]
  /\ Stay /\ UNCHANGED child

process_query_run(q) ==
  /\ Pending(q, "RUN") /\ job[q].exec = "query"
  /\ LET j == job[q]
         kind == IF j.err # "none" THEN j.err ELSE IF j.result THEN "result" ELSE "unknown error"
     IN \E to \in IF j.answer_sent = 0 THEN tl_aio_init_store(q, in_rpc_target) ELSE {NoConn} :
          /\ Send(q, kind, to)
          /\ job' = [job EXCEPT ![q] = complete_job(Handled(job_timer_remove(
                       [Answered(j, kind, to) EXCEPT !.answer_sent = @ + 1]), "RUN", {}))]
  /\ Stay /\ UNCHANGED child

\* An alarm the job has cancelled meanwhile does nothing (job_timer_check).
process_query_alarm(q) ==
  /\ Pending(q, "ALARM") /\ Stay /\ UNCHANGED child
  /\ \/ /\ job[q].timer # "fired" /\ UNCHANGED answers
        /\ job' = [job EXCEPT ![q] = Handled(@, "ALARM", {})]
     \/ /\ job[q].timer = "fired"
        /\ LET j == job[q]
               kind == IF j.err # "none" THEN j.err ELSE "timeout"
           IN \E to \in IF j.answer_sent = 0 THEN tl_aio_init_store(q, in_rpc_target) ELSE {NoConn} :
                /\ Send(q, kind, to)
                /\ job' = [job EXCEPT ![q] = complete_job(Handled(
                             [Answered(j, kind, to) EXCEPT !.answer_sent = IF to = NoConn THEN @ ELSE @ + 1,
                                                           !.error = TRUE], "ALARM", {}))]

process_query_abort(q) ==
  /\ Pending(q, "ABORT") /\ Stay /\ UNCHANGED child
  /\ LET j == job[q]
         kind == IF j.err # "none" THEN j.err ELSE "cancelled"
     IN \E to \in IF j.answer_sent = 0 THEN tl_aio_init_store(q, in_rpc_target) ELSE {NoConn} :
          /\ Send(q, kind, to)
          /\ job' = [job EXCEPT ![q] = complete_job(Handled(job_timer_remove(
                       [Answered(j, kind, to) EXCEPT !.answer_sent = IF to = NoConn THEN @ ELSE @ + 1]), "ABORT", {}))]

\* JS_FINISH, when the last reference is gone.
Finish(q) ==
  /\ job[q].exec \notin {"none", "freed"} /\ job[q].refcnt = 0
  /\ job' = [job EXCEPT ![q].exec = "freed"]
  /\ Stay /\ UNCHANGED <<child, answers>>

-----------------------------------------------------------------------------
\* complete_subjob for a child created with JSP_PARENT_RWE; p is the parent.
complete_subjob(p, failed) ==
  IF p.completed THEN [p EXCEPT !.refcnt = @ - 1]
  ELSE IF failed
  THEN Signal([p EXCEPT !.error = TRUE, !.children = @ - 1], "ABORT")
  ELSE IF p.children = 1 THEN Signal([p EXCEPT !.children = @ - 1], "RUN")
  ELSE [p EXCEPT !.children = @ - 1, !.refcnt = @ - 1]

\* process_act_atom_subjob: the result or the error is written into the
\* parent, the child completes and, nobody else holding it, is freed.
process_act_atom_subjob(q) ==
  /\ child[q] = "runs" /\ child' = [child EXCEPT ![q] = "freed"]
  /\ \E act \in Acts :
       job' = [job EXCEPT ![q] = complete_subjob(
                 IF act = "ok" THEN [@ EXCEPT !.result = TRUE] ELSE [@ EXCEPT !.err = "act failed"], act = "fail")]
  /\ Stay /\ UNCHANGED answers

\* job_timer_wakeup_gateway: the timer's reference goes with the signal.
TimerFires(q) ==
  /\ job[q].timer = "armed"
  /\ job' = [job EXCEPT ![q] = Signal([@ EXCEPT !.timer = "fired"], "ALARM")]
  /\ Stay /\ UNCHANGED <<child, answers>>

-----------------------------------------------------------------------------
\* fail_connection on some other thread, and the close the engine learns of.
Fail(c) ==
  /\ conn[c] = "open" /\ conn' = [conn EXCEPT ![c] = "failed"]
  /\ UNCHANGED <<in_rpc_target, job, child, answers>>

\* default_tl_close_conn: rpc_target_delete_conn.
default_tl_close_conn(c) ==
  /\ conn[c] = "failed" /\ conn' = [conn EXCEPT ![c] = "closed"]
  /\ in_rpc_target' = [in_rpc_target EXCEPT ![c] = FALSE]
  /\ UNCHANGED <<job, child, answers>>

Next ==
  \/ \E c \in Conns : Fail(c) \/ default_tl_close_conn(c)
  \/ \E p \in Packets : default_tl_tcp_rpcs_execute(p.c, p.q, p.m)
  \/ \E q \in Queries :
       \/ query_job_custom(q) \/ query_job_bad_header(q) \/ create_query_job(q)
       \/ process_query_custom_subjob(q) \/ process_parse_subjob(q)
       \/ process_query_run(q) \/ process_query_alarm(q) \/ process_query_abort(q) \/ Finish(q)
       \/ process_act_atom_subjob(q) \/ TimerFires(q)

Spec == Init /\ [][Next]_vars

-----------------------------------------------------------------------------
TypeOK ==
  /\ child \in [Queries -> {"none", "runs", "freed"}]
  /\ conn \in [Conns -> {"open", "failed", "closed"}] /\ in_rpc_target \in [Conns -> BOOLEAN]
  /\ \A q \in Queries :
       /\ job[q].sig \subseteq {"RUN", "ALARM", "ABORT"} /\ job[q].timer \in {"off", "armed", "fired"}
       /\ job[q].refcnt \in 0..4 /\ job[q].children \in 0..1

\* Whoever holds a reference to the job of query q.
Holders(q) == (IF job[q].sig # {} THEN 1 ELSE 0) + (IF job[q].timer = "armed" THEN 1 ELSE 0)
              + (IF child[q] = "runs" THEN 1 ELSE 0)

\* However the child's completion, the timer, an abort and the loss of
\* connections interleave: a query is answered at most once, and exactly once
\* unless no connection of its process was open when an answer was due; the
\* answer goes to the process that asked, and is a result only of an act that
\* succeeded; RUN finds no child at work (the assert of process_query_job);
\* the child never writes into a freed query, and the query is freed when its
\* last holder lets go; no closed connection stays in the table of targets.
QueriesAnswered ==
  /\ \A q \in Queries : LET j == job[q] IN
       /\ Len(answers[q]) <= 1
       /\ \A i \in DOMAIN answers[q] :
            /\ matches_pid(Pid[answers[q][i].to], Pid[j.from])
            /\ answers[q][i].kind = "result" => j.result
            /\ answers[q][i].kind # "unknown error"
       /\ j.exec = "freed" => answers[q] # <<>> \/ j.missed \/ Head(j.msg) # "INVOKE"
       /\ j.exec = "query" /\ Pending(q, "RUN") => j.children = 0
       /\ j.exec # "none" => j.refcnt = Holders(q)
  /\ \A c \in Conns : conn[c] = "closed" => ~in_rpc_target[c]
=============================================================================
