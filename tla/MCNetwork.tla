----------------------------- MODULE MCNetwork -----------------------------
(***************************************************************************)
(* The parts of the event loop and the processes that run it for TLC, one  *)
(* at a time: a behaviour is of the component that "part" names, and the   *)
(* others stay as they started.  They meet in the code only through what   *)
(* each module models of its neighbours.                                   *)
(***************************************************************************)
EXTENDS Listening, Descriptor

CONSTANTS
    EVT_RWX, MaxStamp,
    MaxTime, MaxSets,
    workers, Rounds, MaxSignals, MaxConns, MaxEdits

VARIABLES
    part,
    ev_heap, in_queue, timestamp, ev_timestamp, state, kernel, running,
    now, et_heap, wakeup_time, real_wakeup_time, owner, mpq, manager, wakeup, alarm, pushing, held, sets,
    life, pending, immediate, pids, cron, special, version, conf, round, abrupt, sent

\* Two listeners, a socket that is closed and opened again, and three that stay.
Fds == 1 .. 6
priority == <<1, 2, 4, 3, 6, 5>>
Regs == {3}

\* A job that the main thread and a CPU thread run, and one of the main and the engine thread.
Jobs == {"j1", "j2"}
Threads == {"main", "cpu", "engine"}
Managed == {"main", "engine"}
Setters == [j1 |-> {"main", "cpu"}, j2 |-> {"main", "engine"}]

R == INSTANCE EventRefs
Q == INSTANCE EventQueue
T == INSTANCE Timers WITH aux <- manager, refs <- held
W == INSTANCE Workers

refsVars == <<hi, lo, data, open, stage, refs, getter, asserted>>
queueVars == <<ev_heap, in_queue, timestamp, ev_timestamp, state, kernel, running>>
timersVars == <<now, et_heap, wakeup_time, real_wakeup_time, owner, mpq, manager, wakeup, alarm, pushing, held, sets>>
workersVars == <<life, pending, immediate, pids, cron, special, version, conf, round, abrupt, sent>>
netVars == <<part, vars, refsVars, queueVars, timersVars, workersVars>>

NetInit ==
    /\ part \in {"listening", "refs", "queue", "timers", "workers"}
    /\ Init /\ R!Init /\ Q!Init /\ T!Init /\ W!Init

NetNext ==
    \/ part = "listening" /\ Next /\ UNCHANGED <<part, refsVars, queueVars, timersVars, workersVars>>
    \/ part = "refs" /\ R!Next /\ UNCHANGED <<part, vars, queueVars, timersVars, workersVars>>
    \/ part = "queue" /\ Q!Next /\ UNCHANGED <<part, vars, refsVars, timersVars, workersVars>>
    \/ part = "timers" /\ T!Next /\ UNCHANGED <<part, vars, refsVars, queueVars, workersVars>>
    \/ part = "workers" /\ W!Next /\ UNCHANGED <<part, vars, refsVars, queueVars, timersVars>>

\* The fairness of each component (Fairness of its module), while it is the one that runs.
NetFairness ==
    /\ WF_vars(part = "listening" /\ Main)
    /\ \A x \in Conns : WF_vars(part = "listening" /\ Cpu(x))
    /\ \A j \in Jobs :
          /\ WF_timersVars(part = "timers" /\ T!SendToManager(j))
          /\ WF_timersVars(part = "timers" /\ \E t \in Threads : T!job_timer_check(t, j))
    /\ \A t \in Threads :
          /\ WF_timersVars(part = "timers" /\ T!do_timer_manager_job(t))
          /\ WF_timersVars(part = "timers" /\ T!jobs_check_all_timers(t) /\ t \notin manager)
          /\ WF_timersVars(part = "timers" /\ T!thread_run_timers(t))
          /\ WF_timersVars(part = "timers" /\ T!timers_done(t))
    /\ WF_workersVars(part = "workers" /\ W!Boot(0))
    /\ WF_workersVars(part = "workers" /\ W!MasterExits)

NetSpec == NetInit /\ [][NetNext]_netVars /\ NetFairness

-----------------------------------------------------------------------------
\* Whoever waits on a port is accepted or dropped in the end (Listening).
Served == part = "listening" => EveryClientServed

\* The heap of events (EventQueue), the heaps of timers and the references that these hold (Timers) are sound.
HeapsSound == Q!QueueSound /\ T!HeapSound

\* A timer that is due is not forgotten (Timers).
TimersFire == part = "timers" => T!TimersFire

\* Once the master has taken SIGTERM or SIGINT, it and all its workers end (Workers).
AllGone == part = "workers" => W!AllGone
=============================================================================
