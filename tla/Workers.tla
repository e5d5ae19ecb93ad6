------------------------------- MODULE Workers -------------------------------
(***************************************************************************)
(* The processes of a proxy: the master (0) and the workers 1..workers it   *)
(* forks in mtfront_pre_init (none: the master serves clients itself), the   *)
(* signals between them, the cron job and the main loop of engine.c.         *)
(*                                                                           *)
(* A signal handler only records the signal.  SIGTERM and SIGINT are seen by *)
(* the main loop at its next turn; the others wait for the precise cron job, *)
(* which re-arms its timer only while the process has client connections.    *)
(***************************************************************************)
EXTENDS Integers, FiniteSets

CONSTANTS
    workers,       \* number of forked workers
    Rounds,        \* 11: how often check_children_dead looks at its children
    MaxSignals,    \* bound: signals the operator sends
    MaxConns,      \* bound: clients of a process
    MaxEdits       \* bound: versions of the configuration file

VARIABLES
    life,       \* "booting", "running", "exiting", "zombie" or "gone"
    pending,    \* pending_signals
    immediate,  \* signals whose handler is now the immediate one
    pids,       \* children the master has a pid for
    cron,       \* the cron job: "queued", "timed" or "idle"
    special,    \* active_special_connections
    version,    \* of the configuration file
    conf,       \* the version a process has applied
    round,      \* j of check_children_dead
    abrupt,     \* the master was ended by a signal, not by its main loop
    sent

workersVars == <<life, pending, immediate, pids, cron, special, version, conf, round, abrupt, sent>>

Children == 1..workers

Procs == 0..workers

Interrupts == {"TERM", "INT"}

Alive(p) == life[p] \in {"booting", "running", "exiting"}

\* The kernel hands the dead children of a dead master to init.
Dead(l, p) ==
    IF p = 0
    THEN [q \in Procs |-> IF q = 0 \/ l[q] = "zombie" THEN "gone" ELSE l[q]]
    ELSE [l EXCEPT ![p] = IF l[0] = "gone" THEN "gone" ELSE "zombie"]

\* exit and the death of the process p; its clients are cut off.
Exits(p) ==
    /\ life' = Dead(life, p)
    /\ special' = [special EXCEPT ![p] = 0]

Init ==
    /\ life = [p \in Procs |-> "booting"]
    /\ pending = [p \in Procs |-> {}] /\ immediate = [p \in Procs |-> {}]
    /\ pids = Children
    /\ cron = [p \in Procs |-> "idle"]
    /\ special = [p \in Procs |-> 0]
    /\ version = 0 /\ conf = [p \in Procs |-> 0]
    /\ round = 0 /\ abrupt = FALSE /\ sent = 0

\* server_init installs the handlers of SIGINT and SIGTERM, the cron job is
\* scheduled, and the main loop begins.
Boot(p) ==
    /\ life[p] = "booting"
    /\ life' = [life EXCEPT ![p] = "running"]
    /\ cron' = [cron EXCEPT ![p] = "queued"]
    /\ UNCHANGED <<pending, immediate, pids, special, version, conf, round, abrupt, sent>>

-----------------------------------------------------------------------------
(* Signals.                                                                 *)

\* A signal that ends its receiver: SIGTERM and SIGINT before their handlers
\* are installed, and again after the first of the kind.
Fatal(p, s) ==
    s \in Interrupts /\ (life[p] = "booting" \/ s \in immediate[p])

\* kill(2) on the processes in ps: who ends, and what is pending afterwards.
Killed(ps, s) == {p \in ps : Alive(p) /\ Fatal(p, s)}

Pend(ps, s) ==
    [p \in Procs |-> IF p \in ps /\ Alive(p) /\ ~Fatal(p, s)
                     THEN pending[p] \cup {s} ELSE pending[p]]

Handlers(ps, s) ==
    [p \in Procs |-> IF p \in ps /\ Alive(p) /\ ~Fatal(p, s) /\ s \in Interrupts
                     THEN immediate[p] \cup {s} ELSE immediate[p]]

\* The operator signals the master.
Signal(s) ==
    /\ sent < MaxSignals /\ Alive(0)
    /\ sent' = sent + 1
    /\ \/ /\ ~Fatal(0, s)
          /\ pending' = Pend({0}, s) /\ immediate' = Handlers({0}, s)
          /\ UNCHANGED <<life, special, abrupt>>
       \/ /\ Fatal(0, s)
          /\ Exits(0) /\ abrupt' = TRUE
          /\ UNCHANGED <<pending, immediate>>
    /\ UNCHANGED <<pids, cron, version, conf, round>>

Edit ==
    /\ version < MaxEdits
    /\ version' = version + 1
    /\ UNCHANGED <<life, pending, immediate, pids, cron, special, conf, round, abrupt, sent>>

\* A worker dies by itself.
Crash(p) ==
    /\ p # 0 /\ life[p] \in {"booting", "running"}
    /\ Exits(p)
    /\ UNCHANGED <<pending, immediate, pids, cron, version, conf, round, abrupt, sent>>

-----------------------------------------------------------------------------
(* Clients.  The master listens for them only when it has no workers.       *)

Serves(p) == p # 0 \/ workers = 0

\* The first special connection queues the cron job again.
Connect(p) ==
    /\ Serves(p) /\ life[p] = "running" /\ special[p] < MaxConns
    /\ special' = [special EXCEPT ![p] = @ + 1]
    /\ cron' = IF special[p] = 0 THEN [cron EXCEPT ![p] = "queued"] ELSE cron
    /\ UNCHANGED <<life, pending, immediate, pids, version, conf, round, abrupt, sent>>

Disconnect(p) ==
    /\ life[p] = "running" /\ special[p] > 0
    /\ special' = [special EXCEPT ![p] = @ - 1]
    /\ UNCHANGED <<life, pending, immediate, pids, cron, version, conf, round, abrupt, sent>>

-----------------------------------------------------------------------------
(* The cron job: engine_process_signals, then cron once a second.           *)

\* check_children_status notices a dead child, or a dead parent.
ChildLost == \E w \in pids : life[w] = "zombie"

ParentLost(p) == p # 0 /\ life[0] = "gone"

Rearmed(p) == [cron EXCEPT ![p] = IF special[p] > 0 THEN "timed" ELSE "idle"]

\* mtfront_sighup_handler reloads and passes the signal to the children.
Handle(p) ==
    IF "HUP" \in pending[p]
    THEN /\ conf' = [conf EXCEPT ![p] = version]
         /\ pending' = [(IF p = 0 THEN Pend(pids, "HUP") ELSE pending)
                          EXCEPT ![p] = @ \ {"HUP"}]
    ELSE UNCHANGED <<conf, pending>>

precise_cron_job_run(p) ==
    /\ life[p] = "running" /\ cron[p] # "idle"
    /\ Handle(p)
    /\ cron' = Rearmed(p)
    /\ UNCHANGED <<life, immediate, pids, special, version, round, abrupt, sent>>

\* The same, in a second whose cron finds the family broken.  A child's end:
\* the others are told to terminate, and waited for.
abort_master ==
    LET w    == CHOOSE c \in pids : life[c] = "zombie" /\ \A d \in pids : life[d] = "zombie" => c <= d
        rest == pids \ {w}
        kill == Killed(rest, "TERM")
    IN  /\ life[0] = "running" /\ cron[0] # "idle" /\ ChildLost
        /\ conf' = IF "HUP" \in pending[0] THEN [conf EXCEPT ![0] = version] ELSE conf
        /\ pids' = rest
        /\ pending' = [p \in Procs |->
              IF p = 0 THEN pending[0] \ {"HUP"}
              ELSE Pend(rest, "TERM")[p] \cup (pending[0] \cap Pend(rest, "HUP")[p])]
        /\ immediate' = Handlers(rest, "TERM")
        /\ life' = [p \in Procs |-> IF p = 0 THEN "exiting"
                                    ELSE IF p \in kill THEN "zombie"
                                    ELSE IF p = w THEN "gone" ELSE life[p]]
        /\ special' = [p \in Procs |-> IF p \in kill THEN 0 ELSE special[p]]
        /\ round' = 0
        /\ UNCHANGED <<cron, version, abrupt, sent>>

abort_worker(p) ==
    /\ life[p] = "running" /\ cron[p] # "idle" /\ ParentLost(p)
    /\ Handle(p)
    /\ Exits(p)
    /\ UNCHANGED <<immediate, pids, cron, version, round, abrupt, sent>>

-----------------------------------------------------------------------------
(* The main loop: an interrupt ends the process through terminate_job.      *)

\* mtfront_on_exit: only a SIGTERM is passed to the children.
terminate_master ==
    LET told == IF "TERM" \in pending[0] THEN pids ELSE {}
        kill == Killed(told, "TERM")
    IN  /\ life[0] = "running" /\ pending[0] \cap Interrupts # {}
        /\ pending' = Pend(told, "TERM")
        /\ immediate' = Handlers(told, "TERM")
        /\ life' = IF workers = 0 THEN Dead(life, 0)
                   ELSE [p \in Procs |-> IF p = 0 THEN "exiting"
                                         ELSE IF p \in kill THEN "zombie" ELSE life[p]]
        /\ special' = [p \in Procs |-> IF p = 0 \/ p \in kill THEN 0 ELSE special[p]]
        /\ round' = 0
        /\ UNCHANGED <<pids, cron, version, conf, abrupt, sent>>

terminate_worker(p) ==
    /\ p # 0 /\ life[p] = "running" /\ pending[p] \cap Interrupts # {}
    /\ Exits(p)
    /\ UNCHANGED <<pending, immediate, pids, cron, version, conf, round, abrupt, sent>>

\* One round of check_children_dead: it reaps its dead children up to the
\* first that still lives.
Reaped == {w \in pids : \A v \in pids : v <= w => life[v] = "zombie"}

Unlife(ps) == [p \in Procs |-> IF p \in ps THEN "gone" ELSE life[p]]

check_children_dead ==
    /\ life[0] = "exiting" /\ round < Rounds
    /\ pids' = pids \ Reaped
    /\ round' = IF pids' = {} THEN Rounds + 1 ELSE round + 1
    /\ life' = IF pids' = {} THEN Dead(Unlife(Reaped), 0) ELSE Unlife(Reaped)
    /\ UNCHANGED <<pending, immediate, cron, special, version, conf, abrupt, sent>>

\* After the last round the children left are killed, and the master exits.
MutantSpare ==
    /\ life[0] = "exiting" /\ round = Rounds
    /\ life' = Dead(life, 0) /\ round' = Rounds + 1
    /\ UNCHANGED <<pending, immediate, pids, cron, special, version, conf, abrupt, sent>>

kill_unfinished ==
    /\ life[0] = "exiting" /\ round = Rounds
    /\ life' = Dead(Unlife(pids), 0)
    /\ special' = [p \in Procs |-> IF p \in pids THEN 0 ELSE special[p]]
    /\ round' = Rounds + 1
    /\ UNCHANGED <<pending, immediate, pids, cron, version, conf, abrupt, sent>>

MasterExits == terminate_master \/ check_children_dead \/ kill_unfinished

Next ==
    \/ \E p \in Procs :
          \/ Boot(p) \/ Crash(p) \/ Connect(p) \/ Disconnect(p)
          \/ precise_cron_job_run(p) \/ abort_worker(p) \/ terminate_worker(p)
    \/ \E s \in {"TERM", "INT", "HUP"} : Signal(s)
    \/ Edit \/ abort_master \/ MasterExits

\* The main loop of the master turns (its epoll_wait has a timeout) and its
\* waits are bounded.  Nothing is assumed of a worker: it may hang.
Fair == WF_workersVars(Boot(0)) /\ WF_workersVars(MasterExits)

\* Every process runs its main loop and the cron job it has queued.
FairSpec ==
    /\ Init /\ [][Next]_workersVars /\ Fair
    /\ \A p \in Procs : /\ WF_workersVars(Boot(p))
                        /\ WF_workersVars(precise_cron_job_run(p))

-----------------------------------------------------------------------------
TypeOK ==
    /\ life \in [Procs -> {"booting", "running", "exiting", "zombie", "gone"}]
    /\ pids \subseteq Children /\ round \in 0..(Rounds + 1)
    /\ pending \in [Procs -> SUBSET {"TERM", "INT", "HUP"}]
    /\ cron \in [Procs -> {"queued", "timed", "idle"}]

\* Once the main loop of the master has a SIGTERM or a SIGINT to act on, the
\* whole family ends, even if a worker hangs or is still booting: the rounds
\* of check_children_dead end in SIGKILL.  The exception is a second signal
\* of the same kind, which ends the master at once.
AllGone ==
    (life[0] = "running" /\ pending[0] \cap Interrupts # {})
        ~> (abrupt \/ \A p \in Procs : life[p] = "gone")

\* "This sends SIGHUP, which reloads secrets and IP ACLs from the config
\* file": a SIGHUP that the master has received is acted on.
ReloadHandled ==
    (life[0] = "running" /\ "HUP" \in pending[0])
        ~> ("HUP" \notin pending[0] \/ life[0] # "running")
=============================================================================
