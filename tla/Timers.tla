------------------------------- MODULE Timers -------------------------------
(***************************************************************************)
(* Timers of jobs.  Each thread that runs timers keeps a heap of them,     *)
(* ordered by wake-up time (net-timers.c).  The main thread (id 1) and the *)
(* only thread of a class have a timer manager; a timer belongs to the     *)
(* thread that first sets it, or to the main thread when that one has no   *)
(* manager.  A thread that is not the owner writes real_wakeup_time and    *)
(* sends the job to the owner's manager (jobs.c), which files it later.    *)
(* The time that the heap has (wakeup_time) and the time that the job      *)
(* wants (real_wakeup_time) differ in between.                             *)
(***************************************************************************)
EXTENDS Integers, Sequences, FiniteSets, SequencesExt

CONSTANTS
    Jobs,           \* jobs with JT_HAVE_TIMER
    Threads,        \* threads; "main" is one of them
    Managed,        \* the threads with a timer manager
    Setters,        \* per job: the threads that run it
    MaxTime,        \* bound: the clock stops here
    MaxSets         \* bound: times that one timer is set

VARIABLES
    now,            \* precise_now
    et_heap,        \* per thread: the heap
    wakeup_time, real_wakeup_time,  \* per job; 0 is never
    owner,          \* per job: flags & 255, "none" at first
    mpq,            \* per thread: the queue of its timer manager
    aux,            \* threads whose manager has JS_AUX pending
    wakeup,         \* per thread: JT->wakeup_time, the first time in its heap
    alarm,          \* jobs with JS_ALARM pending
    pushing,        \* jobs whose setter has still to send them to the manager
    refs,           \* per job: references held by heaps, queues and pending alarms
    sets            \* per job: times it was set

vars == <<now, et_heap, wakeup_time, real_wakeup_time, owner, mpq, aux, wakeup, alarm, pushing, refs, sets>>

Init ==
    /\ now = 1
    /\ et_heap = [t \in Threads |-> <<>>]
    /\ wakeup_time = [j \in Jobs |-> 0]
    /\ real_wakeup_time = [j \in Jobs |-> 0]
    /\ owner = [j \in Jobs |-> "none"]
    /\ mpq = [t \in Threads |-> <<>>]
    /\ aux = {}
    /\ wakeup = [t \in Threads |-> 0]
    /\ alarm = {}
    /\ pushing = {}
    /\ refs = [j \in Jobs |-> 0]
    /\ sets = [j \in Jobs |-> 0]

-----------------------------------------------------------------------------
\* The heap, with the wake-up times w.  h_idx of a timer is its index.
h_idx(h, et) == IF Contains(h, et) THEN CHOOSE i \in DOMAIN h : h[i] = et ELSE 0

RECURSIVE SiftUp(_, _, _, _)
SiftUp(h, w, et, i) ==
    IF i > 1 /\ w[h[i \div 2]] > w[et]
    THEN SiftUp([h EXCEPT ![i] = h[i \div 2]], w, et, i \div 2)
    ELSE <<h, i>>

RECURSIVE SiftDown(_, _, _, _)
SiftDown(h, w, et, i) ==
    LET j == IF 2 * i < Len(h) /\ w[h[2 * i]] > w[h[2 * i + 1]] THEN 2 * i + 1 ELSE 2 * i
    IN  IF j <= Len(h) /\ w[et] > w[h[j]]
        THEN SiftDown([h EXCEPT ![i] = h[j]], w, et, j)
        ELSE [h EXCEPT ![i] = et]

basic_et_adjust(h, w, et, i) ==
    LET up == SiftUp(h, w, et, i) IN SiftDown(up[1], w, et, up[2])

insert_event_timer(h, w, et) ==
    IF Contains(h, et)
    THEN basic_et_adjust(h, w, et, h_idx(h, et))
    ELSE basic_et_adjust(Append(h, et), w, et, Len(h) + 1)

remove_event_timer(h, w, et) ==
    LET i == h_idx(h, et) IN
    IF i = 0 THEN h
    ELSE IF i = Len(h) THEN Front(h)
    ELSE basic_et_adjust(Front(h), w, Last(h), i)

First(h, w) == IF h = <<>> THEN 0 ELSE w[h[1]]

MutantKeepRef(t, j, wants, r) ==
    LET w == [wakeup_time EXCEPT ![j] = wants]
        h == IF wants > 0 THEN insert_event_timer(et_heap[t], w, j) ELSE remove_event_timer(et_heap[t], w, j)
    IN  /\ wakeup_time' = w
        /\ et_heap' = [et_heap EXCEPT ![t] = h]
        /\ wakeup' = [wakeup EXCEPT ![t] = First(h, w)]
        /\ refs' = IF wants > 0 THEN [r EXCEPT ![j] = @ + 1] ELSE r

\* do_immediate_timer_insert, on the owner's thread t: file the time that the job wants now.
\* The heap has a reference of the job while the timer is in it; r are the references before.
do_immediate_timer_insert(t, j, wants, r) ==
    LET w == [wakeup_time EXCEPT ![j] = wants]
        h == IF wants > 0 THEN insert_event_timer(et_heap[t], w, j) ELSE remove_event_timer(et_heap[t], w, j)
        was == Contains(et_heap[t], j)
    IN  /\ wakeup_time' = w
        /\ et_heap' = [et_heap EXCEPT ![t] = h]
        /\ wakeup' = [wakeup EXCEPT ![t] = First(h, w)]
        /\ refs' = CASE wants > 0 /\ ~was -> [r EXCEPT ![j] = @ + 1]
                     [] wants = 0 /\ was -> [r EXCEPT ![j] = @ - 1]
                     [] OTHER -> r

-----------------------------------------------------------------------------
Tick ==
    /\ now < MaxTime
    /\ now' = now + 1
    /\ UNCHANGED <<et_heap, wakeup_time, real_wakeup_time, owner, mpq, aux, wakeup, alarm, pushing, refs, sets>>

\* Whose heap a timer goes to: the first set decides.
Home(t, j) ==
    IF owner[j] # "none" THEN owner[j] ELSE IF t \in Managed THEN t ELSE "main"

\* job_timer_insert and job_timer_remove (time 0), by thread t that runs job j: on the owner's
\* thread at once, elsewhere through the owner's manager.
job_timer_insert(t, j, time) ==
    /\ real_wakeup_time' = [real_wakeup_time EXCEPT ![j] = time]
    /\ IF time = real_wakeup_time[j]
       THEN UNCHANGED <<owner, et_heap, wakeup_time, wakeup, refs, pushing>>
       ELSE /\ owner' = [owner EXCEPT ![j] = Home(t, j)]
            /\ IF Home(t, j) = t
               THEN do_immediate_timer_insert(t, j, time, refs) /\ UNCHANGED pushing
               ELSE pushing' = pushing \cup {j} /\ UNCHANGED <<et_heap, wakeup_time, wakeup, refs>>

\* A handler of the job sets or removes its timer.
SetTimer(t, j, time) ==
    /\ t \in Setters[j]
    /\ j \notin pushing
    /\ sets[j] < MaxSets
    /\ time = 0 \/ time > now
    /\ sets' = [sets EXCEPT ![j] = @ + 1]
    /\ job_timer_insert(t, j, time)
    /\ UNCHANGED <<now, mpq, aux, alarm>>

\* The rest of job_timer_insert on another thread: the manager gets the job, and JS_RUN.
SendToManager(j) ==
    /\ j \in pushing
    /\ pushing' = pushing \ {j}
    /\ mpq' = [mpq EXCEPT ![owner[j]] = Append(@, j)]
    /\ refs' = [refs EXCEPT ![j] = @ + 1]
    /\ UNCHANGED <<now, et_heap, wakeup_time, real_wakeup_time, owner, aux, wakeup, alarm, sets>>

\* JS_RUN of the manager of thread t, one job of its queue.
MutantFileOnce(t) ==
    /\ mpq[t] # <<>>
    /\ mpq' = [mpq EXCEPT ![t] = Tail(@)]
    /\ LET j == Head(mpq[t]) IN
       IF Contains(et_heap[t], j)
       THEN refs' = [refs EXCEPT ![j] = @ - 1] /\ UNCHANGED <<wakeup_time, et_heap, wakeup>>
       ELSE do_immediate_timer_insert(t, j, real_wakeup_time[j], [refs EXCEPT ![j] = @ - 1])
    /\ UNCHANGED <<now, real_wakeup_time, owner, aux, alarm, pushing, sets>>

do_timer_manager_job(t) ==
    /\ mpq[t] # <<>>
    /\ mpq' = [mpq EXCEPT ![t] = Tail(@)]
    /\ LET j == Head(mpq[t]) IN do_immediate_timer_insert(t, j, real_wakeup_time[j], [refs EXCEPT ![j] = @ - 1])
    /\ UNCHANGED <<now, real_wakeup_time, owner, aux, alarm, pushing, sets>>

\* jobs_check_all_timers: the main thread wakes the managers of the others.
jobs_check_all_timers(t) ==
    /\ t \in Managed \ {"main"}
    /\ wakeup[t] > 0 /\ wakeup[t] <= now
    /\ aux' = aux \cup {t}
    /\ UNCHANGED <<now, et_heap, wakeup_time, real_wakeup_time, owner, mpq, wakeup, alarm, pushing, refs, sets>>

\* JS_AUX of a manager, epoll_run_timers of the main thread: thread_run_timers takes the timers
\* that are due, and job_timer_wakeup_gateway passes the heap's reference on with JS_ALARM
\* (a second JS_ALARM gives it back) or, when the job wants another time by now, drops it.
RunDue(t) ==
    LET et == et_heap[t][1]
        h == remove_event_timer(et_heap[t], wakeup_time, et)
        same == wakeup_time[et] = real_wakeup_time[et]
    IN  /\ et_heap' = [et_heap EXCEPT ![t] = h]
        /\ wakeup' = [wakeup EXCEPT ![t] = First(h, wakeup_time)]
        /\ alarm' = IF same THEN alarm \cup {et} ELSE alarm
        /\ refs' = IF same /\ et \notin alarm THEN refs ELSE [refs EXCEPT ![et] = @ - 1]
        /\ UNCHANGED <<now, wakeup_time, real_wakeup_time, owner, mpq, pushing, sets>>

thread_run_timers(t) ==
    /\ et_heap[t] # <<>>
    /\ wakeup_time[et_heap[t][1]] <= now
    /\ t = "main" \/ t \in aux
    /\ RunDue(t)
    /\ UNCHANGED aux

timers_done(t) ==
    /\ t \in aux
    /\ et_heap[t] # <<>> => wakeup_time[et_heap[t][1]] > now
    /\ aux' = aux \ {t}
    /\ UNCHANGED <<now, et_heap, wakeup_time, real_wakeup_time, owner, mpq, wakeup, alarm, pushing, refs, sets>>

\* JS_ALARM of the job: job_timer_check tells a stale alarm by the two times, and removes the
\* timer of a true one.
job_timer_check(t, j) ==
    /\ j \in alarm
    /\ t \in Setters[j]
    /\ j \notin pushing
    /\ alarm' = alarm \ {j}
    /\ LET r == [refs EXCEPT ![j] = @ - 1] IN
       IF real_wakeup_time[j] = 0 \/ real_wakeup_time[j] # wakeup_time[j]
       THEN refs' = r /\ UNCHANGED <<real_wakeup_time, owner, et_heap, wakeup_time, wakeup, pushing>>
       ELSE /\ real_wakeup_time' = [real_wakeup_time EXCEPT ![j] = 0]
            /\ UNCHANGED owner
            /\ IF owner[j] = t
               THEN do_immediate_timer_insert(t, j, 0, r) /\ UNCHANGED pushing
               ELSE /\ refs' = r
                    /\ pushing' = pushing \cup {j}
                    /\ UNCHANGED <<et_heap, wakeup_time, wakeup>>
    /\ UNCHANGED <<now, mpq, aux, sets>>

-----------------------------------------------------------------------------
Deliver ==
    \/ \E j \in Jobs : SendToManager(j)
    \/ \E t \in Threads : do_timer_manager_job(t)
    \/ \E t \in Threads : jobs_check_all_timers(t)
    \/ \E t \in Threads : thread_run_timers(t)
    \/ \E t \in Threads : timers_done(t)
    \/ \E t \in Threads, j \in Jobs : job_timer_check(t, j)

Next ==
    \/ Tick
    \/ \E t \in Threads, j \in Jobs, time \in 0 .. MaxTime : SetTimer(t, j, time)
    \/ Deliver

\* Every thread runs its queue, its timers and its jobs.
Fairness ==
    /\ \A j \in Jobs : WF_vars(SendToManager(j))
    /\ \A t \in Threads : WF_vars(do_timer_manager_job(t)) /\ WF_vars(jobs_check_all_timers(t) /\ t \notin aux)
    /\ \A t \in Threads : WF_vars(thread_run_timers(t)) /\ WF_vars(timers_done(t))
    /\ \A j \in Jobs : WF_vars(\E t \in Threads : job_timer_check(t, j))

Spec == Init /\ [][Next]_vars /\ Fairness

-----------------------------------------------------------------------------
\* Heaps are ordered and hold a timer once, in its owner's heap; a job has exactly one
\* reference for the heap that it is in, for each queue entry and for a pending alarm
\* (do_immediate_timer_insert, job_timer_wakeup_gateway).
HeapSound ==
    /\ \A t \in Threads :
          /\ \A i \in 2 .. Len(et_heap[t]) : wakeup_time[et_heap[t][i \div 2]] <= wakeup_time[et_heap[t][i]]
          /\ IsInjective(et_heap[t])
          /\ \A i \in DOMAIN et_heap[t] : owner[et_heap[t][i]] = t /\ wakeup_time[et_heap[t][i]] > 0
    /\ \A j \in Jobs : refs[j] =
          Cardinality({t \in Threads : Contains(et_heap[t], j)})
          + Cardinality({<<t, i>> \in Threads \X (1 .. MaxSets + 2) : i <= Len(mpq[t]) /\ mpq[t][i] = j})
          + (IF j \in alarm THEN 1 ELSE 0)

\* A timer that is due is not forgotten, whichever thread set it and whatever the managers
\* were doing: the job sees its alarm, or sets the timer again.
TimersFire ==
    \A j \in Jobs : (real_wakeup_time[j] > 0 /\ real_wakeup_time[j] <= now)
                        ~> (real_wakeup_time[j] = 0 \/ real_wakeup_time[j] > now)
=============================================================================
