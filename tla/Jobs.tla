-------------------------------- MODULE Jobs --------------------------------
(***************************************************************************)
(* The lock, signal and reference protocol of one asynchronous job         *)
(* (src/src/jobs/jobs.c).  Every connection, socket, target, timer and     *)
(* query of the proxy is such a job: a heap object that several threads    *)
(* reach through counted references, send signals to, and whose handler    *)
(* j_execute must be run by one thread at a time, in a thread of the class *)
(* that the signal asks for.                                               *)
(*                                                                         *)
(* One job is modelled.  Jobs share nothing but the class queues, and a    *)
(* queue is seen by a job only through its own entries.                    *)
(*                                                                         *)
(* An agent is one activation of the scheduler's code: a job thread, or a  *)
(* call made from inside a handler, possibly this job's own (JT->          *)
(* current_job is then set, and the agent is not in TopLevel).             *)
(*                                                                         *)
(* A reference is a token.  owner says who holds it: an agent, a queue, or *)
(* NoOne.  The word j_refcnt is a variable of its own.                     *)
(*                                                                         *)
(* One action is one access to a shared word.  A load of j_flags and the   *)
(* compare-and-swap that follows it are two actions in unlock_job, where   *)
(* decisions are taken in between; the loop of try_lock_job, which does    *)
(* nothing between them, is one.                                           *)
(***************************************************************************)
EXTENDS Integers, FiniteSets

CONSTANTS
    Agents,      \* activations of the scheduler's code
    Refs,        \* reference tokens: at most Cardinality(Refs) at a time
    Queues,      \* the job queues (a class without threads uses MainJobQueue)
    NoOne,       \* the owner of a reference that does not exist
    Signals,     \* the signals of this job's type, some of 0 .. 7
    SigClass,    \* j_sigclass: the job class of each signal, 0 is "any"
    Fast,        \* JSS_FAST: signals that may run inside another handler
    SelfSignals, \* JOB_SENDSIG: what the handler of a signal may send itself
    MayDrop,     \* the signals a handler may remove from j_status
    Mask,        \* job_class_mask of the agent's thread
    TopLevel,    \* agents whose thread has no current_job
    QueueOf,     \* the queue of a class
    Polls,       \* the queue that an agent's thread pops, or NoOne
    MaxSends     \* bound on the signals sent from outside

FINISH == 7
JC_MAIN == 3
Classes == 0 .. 15

ASSUME AgentsAssumption ==
    /\ IsFiniteSet(Refs)
    /\ NoOne \notin Agents \cup Queues \cup Refs
    /\ Agents \cap Queues = {}
    /\ TopLevel \subseteq Agents
    /\ Mask \in [Agents -> SUBSET Classes]
    /\ QueueOf \in [Classes -> Queues]
    /\ Polls \in [Agents -> Queues \cup {NoOne}]
    /\ \A a \in Agents, c \in Classes : Polls[a] = QueueOf[c] => c \in Mask[a]
    /\ MaxSends \in Nat

ASSUME SignalsAssumption ==
    /\ Signals \subseteq 0 .. 7
    /\ NoOne \notin Signals
    /\ FINISH \in Signals
    /\ SigClass \in [Signals -> Classes]
    /\ Fast \subseteq Signals
    /\ SelfSignals \in [Signals -> SUBSET (Signals \ {FINISH})]
    /\ MayDrop \subseteq Signals \ {FINISH}

VARIABLES
    pend,       \* j_flags, bits 24..31: signals awaiting delivery
    locked,     \* j_flags, JF_LOCKED
    queued,     \* j_flags, bits 0..15: classes in whose queue the job is
    allowed,    \* j_status, bits 24..31: signals that may be delivered
    refcnt,     \* j_refcnt
    freed,      \* job_free was called
    owner,      \* who holds each reference
    pc,         \* where each agent is
    ref,        \* the reference that the agent's call was given
    sig,        \* the signal that is sent, or that unlock_job has chosen
    snap,       \* the part of j_flags that the agent has loaded
    sends       \* signals sent so far

word == <<pend, locked, queued>>
vars == <<pend, locked, queued, allowed, refcnt, freed, owner, pc, ref, sig, snap, sends>>

\* agents that are not a thread's loop but code that was given references
Callers == {a \in Agents : Polls[a] = NoOne}
Held(a) == {r \in Refs : owner[r] = a}
Live == {r \in Refs : owner[r] # NoOne}

NoSnap == [pend |-> {}, queued |-> {}]

(***************************************************************************)
(* create_async_job makes the job locked with one reference; the creator   *)
(* then calls schedule_job, which sets JS_RUN, or unlock_job, with this    *)
(* reference or with a second one.                                         *)
(***************************************************************************)
InitWith(a, r, keep) ==
    /\ pend \in SUBSET (Signals \cap {0})
    /\ locked = TRUE
    /\ queued = {}
    /\ allowed = Signals
    /\ refcnt = Cardinality(keep \cup {r})
    /\ freed = FALSE
    /\ owner = [x \in Refs |-> IF x \in keep \cup {r} THEN a ELSE NoOne]
    /\ pc = [b \in Agents |-> IF b = a THEN "unlock" ELSE "idle"]
    /\ ref = [b \in Agents |-> IF b = a THEN r ELSE NoOne]
    /\ sig = [b \in Agents |-> FINISH]
    /\ snap = [b \in Agents |-> NoSnap]
    /\ sends = 0

Init ==
    \E a \in Callers, r \in Refs, keep \in SUBSET Refs :
        /\ r \notin keep
        /\ Cardinality(keep) <= 1
        /\ InitWith(a, r, keep)

Goto(a, l) == pc' = [pc EXCEPT ![a] = l]

\* the call is over and so is the reference: it goes to x
Give(a, x) ==
    /\ owner' = [owner EXCEPT ![ref[a]] = x]
    /\ ref' = [ref EXCEPT ![a] = NoOne]
    /\ Goto(a, "idle")

-----------------------------------------------------------------------------
(***************************************************************************)
(* What code that holds references does: make another one for somebody     *)
(* (job_incref), and give one away to job_signal or job_decref.            *)
(***************************************************************************)
Incref(a, b) ==
    /\ pc[a] = "idle" \/ (pc[a] = "exec" /\ sig[a] # FINISH)
    /\ Held(a) # {}
    /\ \E r \in Refs :
        /\ owner[r] = NoOne
        /\ owner' = [owner EXCEPT ![r] = b]
    /\ refcnt' = refcnt + 1
    /\ UNCHANGED <<word, allowed, freed, pc, ref, sig, snap, sends>>

JobSignal(a, s) ==
    /\ pc[a] = "idle"
    /\ a \in Callers
    /\ sends < MaxSends
    /\ s # FINISH
    /\ \E r \in Held(a) : ref' = [ref EXCEPT ![a] = r]
    /\ sig' = [sig EXCEPT ![a] = s]
    /\ sends' = sends + 1
    /\ Goto(a, "send")
    /\ UNCHANGED <<word, allowed, refcnt, freed, owner, snap>>

JobDecref(a) ==
    /\ pc[a] = "idle"
    /\ a \in Callers
    /\ \E r \in Held(a) : ref' = [ref EXCEPT ![a] = r]
    /\ Goto(a, "decref")
    /\ UNCHANGED <<word, allowed, refcnt, freed, owner, sig, snap, sends>>

-----------------------------------------------------------------------------
(***************************************************************************)
(* job_send_signals, which consumes ref[a].                                *)
(***************************************************************************)
SendCheck(a) ==
    /\ pc[a] = "send"
    /\ Goto(a, IF sig[a] \in pend THEN "decref" ELSE "sendLock")
    /\ UNCHANGED <<word, allowed, refcnt, freed, owner, ref, sig, snap, sends>>

\* try_lock_job (job, sigset, 0)
SendLock(a) ==
    /\ pc[a] = "sendLock"
    /\ \/ locked /\ Goto(a, "sendOr") /\ UNCHANGED <<pend, locked>>
       \/ ~ locked /\ Goto(a, "unlock") /\ pend' = pend \cup {sig[a]} /\ locked' = TRUE
    /\ UNCHANGED <<queued, allowed, refcnt, freed, owner, ref, sig, snap, sends>>

\* mutant: the sender does not try the lock a second time
SendOrOnly(a) ==
    /\ pc[a] = "sendOr"
    /\ pend' = pend \cup {sig[a]}
    /\ Goto(a, "decref")
    /\ UNCHANGED <<locked, queued, allowed, refcnt, freed, owner, ref, sig, snap, sends>>

SendOr(a) ==
    /\ pc[a] = "sendOr"
    /\ pend' = pend \cup {sig[a]}
    /\ Goto(a, "relock")
    /\ UNCHANGED <<locked, queued, allowed, refcnt, freed, owner, ref, sig, snap, sends>>

\* mutant: goes on as if try_lock_job had succeeded
RelockBlind(a) ==
    /\ pc[a] = "relock"
    /\ locked' = TRUE
    /\ Goto(a, "unlock")
    /\ UNCHANGED <<pend, queued, allowed, refcnt, freed, owner, ref, sig, snap, sends>>

\* try_lock_job (job, 0, 0), in job_send_signals and in process_one_job
Relock(a) ==
    /\ pc[a] = "relock"
    /\ locked' = TRUE
    /\ Goto(a, IF locked THEN "decref" ELSE "unlock")
    /\ UNCHANGED <<pend, queued, allowed, refcnt, freed, owner, ref, sig, snap, sends>>

-----------------------------------------------------------------------------
(***************************************************************************)
(* job_decref, which consumes ref[a]: the load of j_refcnt, the atomic     *)
(* decrement, the store that takes the count back from 0 to 1, and the     *)
(* JS_FINISH that the last owner sends.                                    *)
(***************************************************************************)
\* mutant: off by one, two owners can both be "last"
DecrefCheckTwo(a) ==
    /\ pc[a] = "decref"
    /\ Goto(a, IF refcnt > 2 THEN "dec" ELSE "send")
    /\ sig' = [sig EXCEPT ![a] = FINISH]
    /\ UNCHANGED <<word, allowed, refcnt, freed, owner, ref, snap, sends>>

DecrefCheck(a) ==
    /\ pc[a] = "decref"
    /\ Goto(a, IF refcnt >= 2 THEN "dec" ELSE "send")
    /\ sig' = [sig EXCEPT ![a] = FINISH]
    /\ UNCHANGED <<word, allowed, refcnt, freed, owner, ref, snap, sends>>

\* mutant: the count is not taken back from 0 to 1
DecrefSubZero(a) ==
    /\ pc[a] = "dec"
    /\ refcnt' = refcnt - 1
    /\ \/ refcnt # 1 /\ Give(a, NoOne)
       \/ refcnt = 1 /\ Goto(a, "send") /\ UNCHANGED <<owner, ref>>
    /\ UNCHANGED <<word, allowed, freed, sig, snap, sends>>

DecrefSub(a) ==
    /\ pc[a] = "dec"
    /\ refcnt' = refcnt - 1
    /\ \/ refcnt # 1 /\ Give(a, NoOne)
       \/ refcnt = 1 /\ Goto(a, "reclaim") /\ UNCHANGED <<owner, ref>>
    /\ UNCHANGED <<word, allowed, freed, sig, snap, sends>>

DecrefReclaim(a) ==
    /\ pc[a] = "reclaim"
    /\ refcnt' = 1
    /\ Goto(a, "send")
    /\ UNCHANGED <<word, allowed, freed, owner, ref, sig, snap, sends>>

-----------------------------------------------------------------------------
(***************************************************************************)
(* unlock_job, called by the owner of the lock with ref[a].                *)
(***************************************************************************)
Todo == pend \cap allowed

CanRun(a, s) ==
    /\ SigClass[s] \in Mask[a]
    /\ s \in Fast \/ a \in TopLevel

ReqClass(s) == IF SigClass[s] = 0 THEN JC_MAIN ELSE SigClass[s]

\* the loop's head: load j_flags, choose the highest signal and what to do
Unlock(a) ==
    /\ pc[a] = "unlock"
    /\ snap' = [snap EXCEPT ![a] = [pend |-> pend, queued |-> queued]]
    /\ \/ /\ Todo = {}
          /\ Goto(a, "release")
          /\ UNCHANGED sig
       \/ \E s \in Todo :
             /\ \A t \in Todo : t <= s
             /\ sig' = [sig EXCEPT ![a] = s]
             /\ Goto(a, IF CanRun(a, s) THEN "take" ELSE "enqueue")
    /\ UNCHANGED <<word, allowed, refcnt, freed, owner, ref, sends>>

\* what the compare-and-swap compares: nobody has changed j_flags since
Unmoved(a) == snap[a] = [pend |-> pend, queued |-> queued]
Forget(a) == snap' = [snap EXCEPT ![a] = NoSnap]

\* nothing to do: compare-and-swap JF_LOCKED away
Release(a) ==
    /\ pc[a] = "release"
    /\ \/ Unmoved(a) /\ Goto(a, "udecref") /\ locked' = FALSE
       \/ ~ Unmoved(a) /\ Goto(a, "unlock") /\ UNCHANGED locked
    /\ sig' = [sig EXCEPT ![a] = FINISH]
    /\ Forget(a)
    /\ UNCHANGED <<pend, queued, allowed, refcnt, freed, owner, ref, sends>>

UDecrefCheck(a) ==
    /\ pc[a] = "udecref"
    /\ Goto(a, IF refcnt >= 2 THEN "udec" ELSE "ulast")
    /\ UNCHANGED <<word, allowed, refcnt, freed, owner, ref, sig, snap, sends>>

\* mutant: the result of the decrement is ignored
UDecrefSubBlind(a) ==
    /\ pc[a] = "udec"
    /\ refcnt' = refcnt - 1
    /\ Give(a, NoOne)
    /\ UNCHANGED <<word, allowed, freed, sig, snap, sends>>

UDecrefSub(a) ==
    /\ pc[a] = "udec"
    /\ refcnt' = refcnt - 1
    /\ \/ refcnt # 1 /\ Give(a, NoOne)
       \/ refcnt = 1 /\ Goto(a, "ureclaim") /\ UNCHANGED <<owner, ref>>
    /\ UNCHANGED <<word, allowed, freed, sig, snap, sends>>

UDecrefReclaim(a) ==
    /\ pc[a] = "ureclaim"
    /\ refcnt' = 1
    /\ Goto(a, "ulast")
    /\ UNCHANGED <<word, allowed, freed, owner, ref, sig, snap, sends>>

\* the last owner sets JS_FINISH and JF_LOCKED with a plain store
UDecrefLast(a) ==
    /\ pc[a] = "ulast"
    /\ pend' = pend \cup {FINISH}
    /\ locked' = TRUE
    /\ Goto(a, "unlock")
    /\ UNCHANGED <<queued, allowed, refcnt, freed, owner, ref, sig, snap, sends>>

\* mutant: the bit is cleared after the handler, not before
TakeKeepsBit(a) ==
    /\ pc[a] = "take"
    /\ Forget(a)
    /\ Goto(a, "exec")
    /\ UNCHANGED <<word, allowed, refcnt, freed, owner, ref, sig, sends>>

\* run a signal here: clear its bit, call j_execute
Take(a) ==
    /\ pc[a] = "take"
    /\ pend' = pend \ {sig[a]}
    /\ Forget(a)
    /\ Goto(a, "exec")
    /\ UNCHANGED <<locked, queued, allowed, refcnt, freed, owner, ref, sig, sends>>

\* the handler returns signals for the job itself
Return(a) ==
    /\ pc[a] = "exec"
    /\ sig[a] # FINISH
    /\ \E S \in SUBSET SelfSignals[sig[a]] : pend' = pend \cup S
    /\ \/ allowed' = allowed
       \/ allowed' = allowed \ MayDrop
    /\ sig' = [sig EXCEPT ![a] = FINISH]
    /\ Goto(a, "unlock")
    /\ UNCHANGED <<locked, queued, refcnt, freed, owner, ref, snap, sends>>

\* the handler of JS_FINISH calls job_free and returns JOB_DESTROYED
Destroy(a) ==
    /\ pc[a] = "exec"
    /\ sig[a] = FINISH
    /\ freed' = TRUE
    /\ Give(a, NoOne)
    /\ UNCHANGED <<word, allowed, refcnt, sig, snap, sends>>

\* another class must run it: set the queue bit and release the lock at once
Enqueue(a) ==
    /\ pc[a] = "enqueue"
    /\ \/ /\ Unmoved(a)
          /\ locked' = FALSE
          /\ queued' = queued \cup {ReqClass(sig[a])}
          /\ Goto(a, IF ReqClass(sig[a]) \in queued THEN "decref" ELSE "push")
       \/ /\ ~ Unmoved(a)
          /\ Goto(a, "unlock")
          /\ UNCHANGED <<locked, queued>>
    /\ Forget(a)
    /\ UNCHANGED <<pend, allowed, refcnt, freed, owner, ref, sig, sends>>

\* mpq_push_w (JQ, PTR_MOVE (job), 0)
Push(a) ==
    /\ pc[a] = "push"
    /\ Give(a, QueueOf[ReqClass(sig[a])])
    /\ sig' = [sig EXCEPT ![a] = FINISH]
    /\ UNCHANGED <<word, allowed, refcnt, freed, snap, sends>>

-----------------------------------------------------------------------------
(***************************************************************************)
(* A job thread pops an entry (job_thread_ex, run_pending_main_jobs) and   *)
(* calls process_one_job with it.                                          *)
(***************************************************************************)
Pop(a) ==
    /\ pc[a] = "idle"
    /\ a \notin Callers
    /\ \E r \in Held(Polls[a]) :
        /\ owner' = [owner EXCEPT ![r] = a]
        /\ ref' = [ref EXCEPT ![a] = r]
    /\ Goto(a, "proc")
    /\ UNCHANGED <<word, allowed, refcnt, freed, sig, snap, sends>>

\* queued_flag = j_flags & 0xffff & job_class_mask, kept in snap[a].queued
ProcessRead(a) ==
    /\ pc[a] = "proc"
    /\ snap' = [snap EXCEPT ![a] = [pend |-> {}, queued |-> queued \cap Mask[a]]]
    /\ Goto(a, "procLock")
    /\ UNCHANGED <<word, allowed, refcnt, freed, owner, ref, sig, sends>>

\* mutant: the queue bits stay set
ProcessLockKeepsBits(a) ==
    /\ pc[a] = "procLock"
    /\ \/ locked /\ Goto(a, "procClear") /\ UNCHANGED <<locked, snap>>
       \/ ~ locked /\ Goto(a, "unlock") /\ locked' = TRUE /\ Forget(a)
    /\ UNCHANGED <<pend, queued, allowed, refcnt, freed, owner, ref, sig, sends>>

\* try_lock_job (job, 0, queued_flag)
ProcessLock(a) ==
    /\ pc[a] = "procLock"
    /\ \/ /\ locked
          /\ Goto(a, "procClear")
          /\ UNCHANGED <<locked, queued, snap>>
       \/ /\ ~ locked
          /\ Goto(a, "unlock")
          /\ locked' = TRUE
          /\ queued' = queued \ snap[a].queued
          /\ Forget(a)
    /\ UNCHANGED <<pend, allowed, refcnt, freed, owner, ref, sig, sends>>

\* mutant: the thread leaves the job to the owner of the lock
ProcessClearOnly(a) ==
    /\ pc[a] = "procClear"
    /\ queued' = queued \ snap[a].queued
    /\ Forget(a)
    /\ Goto(a, "decref")
    /\ UNCHANGED <<pend, locked, allowed, refcnt, freed, owner, ref, sig, sends>>

ProcessClear(a) ==
    /\ pc[a] = "procClear"
    /\ queued' = queued \ snap[a].queued
    /\ Forget(a)
    /\ Goto(a, "relock")
    /\ UNCHANGED <<pend, locked, allowed, refcnt, freed, owner, ref, sig, sends>>

-----------------------------------------------------------------------------
Scheduler(a) ==
    \/ SendCheck(a) \/ SendLock(a) \/ SendOr(a) \/ Relock(a)
    \/ DecrefCheck(a) \/ DecrefSub(a) \/ DecrefReclaim(a)
    \/ Unlock(a) \/ Release(a)
    \/ UDecrefCheck(a) \/ UDecrefSub(a) \/ UDecrefReclaim(a) \/ UDecrefLast(a)
    \/ Take(a) \/ Return(a) \/ Destroy(a) \/ Enqueue(a) \/ Push(a)
    \/ Pop(a) \/ ProcessRead(a) \/ ProcessLock(a) \/ ProcessClear(a)

Next ==
    \E a \in Agents :
        \/ \E b \in Callers : Incref(a, b)
        \/ \E s \in Signals : JobSignal(a, s)
        \/ JobDecref(a)
        \/ Scheduler(a)

Spec == Init /\ [][Next]_vars

(***************************************************************************)
(* A thread that is inside the scheduler goes on, handlers return, and a   *)
(* job thread pops when its queue has an entry.  Nothing makes a caller    *)
(* send a signal or drop a reference.                                      *)
(***************************************************************************)
Fairness == \A a \in Agents : WF_vars(Scheduler(a))
FairSpec == Spec /\ Fairness

-----------------------------------------------------------------------------
Labels ==
    {"idle", "send", "sendLock", "sendOr", "relock", "decref", "dec",
     "reclaim", "unlock", "release", "udecref", "udec", "ureclaim",
     "ulast", "take", "exec", "enqueue", "push", "proc", "procLock", "procClear"}

\* Type invariant.
TypeOK ==
    /\ pend \in SUBSET Signals
    /\ locked \in BOOLEAN
    /\ queued \in SUBSET Classes
    /\ allowed \in SUBSET Signals
    /\ refcnt \in Int
    /\ freed \in BOOLEAN
    /\ owner \in [Refs -> Agents \cup Queues \cup {NoOne}]
    /\ pc \in [Agents -> Labels]
    /\ ref \in [Agents -> Refs \cup {NoOne}]
    /\ sig \in [Agents -> Signals]
    /\ snap \in [Agents -> [pend : SUBSET Signals, queued : SUBSET Classes]]
    /\ sends \in 0 .. MaxSends

InLock(a) == pc[a] \in {"unlock", "release", "take", "exec", "enqueue"}

\* At most one agent is between taking JF_LOCKED and giving it up, so a job's
\* handler is never run by two threads at once, although JF_LOCKED is taken at
\* four places (one of them a plain store) and dropped at two.
MutualExclusion ==
    \A a, b \in Agents : InLock(a) /\ InLock(b) => a = b

\* Every assert of the protocol holds where it stands: the lock is set in
\* unlock_job's loop, job_send_signals gets a counted job and never finds
\* JS_FINISH already sent by another owner, the owner that goes on to destroy
\* the job sees a count of exactly one, JS_FINISH is allowed then, and the
\* handler of JS_FINISH is the only one left with a reference.
AssertsHold ==
    \A a \in Agents :
        /\ pc[a] = "unlock" => locked
        /\ pc[a] = "send" => refcnt > 0
        /\ pc[a] = "send" /\ sig[a] \in pend => refcnt > 1 \/ FINISH \notin pend
        /\ pc[a] = "send" /\ sig[a] = FINISH => refcnt = 1
        /\ pc[a] = "ulast" => refcnt = 1
        /\ pc[a] = "ulast" => FINISH \in allowed
        /\ pc[a] = "exec" /\ sig[a] = FINISH => refcnt = 1 /\ Live = {ref[a]}

\* Nobody can reach the job after job_free: no agent is inside the scheduler,
\* no queue has an entry, and no reference is left anywhere.
NoUseAfterFree ==
    freed => Live = {} /\ \A a \in Agents : pc[a] = "idle"

\* j_refcnt counts the references, except between the decrement that takes it
\* to zero and the store that takes it back to one.
RefCount ==
    ~ freed =>
        refcnt = IF \E a \in Agents : pc[a] \in {"reclaim", "ureclaim"} THEN 0
                 ELSE Cardinality(Live)

\* A deliverable signal is never forgotten: when the job is unlocked and
\* nobody is about to try the lock again, the class of the highest one has
\* its queue bit set.
NoLostSignal ==
    (~ locked /\ ~ \E a \in Agents : pc[a] = "relock") =>
        \A s \in Todo : (\A t \in Todo : t <= s) => ReqClass(s) \in queued

\* the job is in that class's queue, or an agent is about to push it there, or
\* a thread has popped it and has not cleared the bit yet
Covered(c) ==
    \/ \E r \in Refs : owner[r] = QueueOf[c]
    \/ \E a \in Agents :
          \/ pc[a] = "push" /\ ReqClass(sig[a]) = c
          \/ pc[a] = "proc" /\ Polls[a] = QueueOf[c]
          \/ pc[a] \in {"procLock", "procClear"} /\ c \in snap[a].queued

\* A queue bit of j_flags, which makes unlock_job skip the push, stands for an
\* entry that is in the queue or on its way into or out of it.
QueuedCovered ==
    \A c \in queued : Covered(c)

-----------------------------------------------------------------------------
(***************************************************************************)
(* The inductive invariant behind the invariants above.                    *)
(***************************************************************************)
\* an agent inside the scheduler owns the reference that it was given
OwnsRef ==
    \A a \in Agents : pc[a] # "idle" => ref[a] \in Refs /\ owner[ref[a]] = a

LockHeld ==
    /\ \A a \in Agents : InLock(a) => locked
    /\ locked /\ ~ freed => \E a \in Agents : InLock(a)
    /\ freed => Live = {}

\* points at which an agent has found out that its reference is the last one
LastOwner(a) ==
    \/ pc[a] \in {"reclaim", "ureclaim", "ulast"}
    \/ pc[a] \in {"send", "sendLock"} /\ sig[a] = FINISH

\* once JS_FINISH is pending, only its own way to the handler is left
FinishPending ==
    FINISH \in pend =>
        /\ \E r \in Refs :
              /\ Live = {r}
              /\ owner[r] \in Agents => pc[owner[r]] # "idle"
        /\ \A a \in Agents :
              /\ pc[a] \in {"idle", "unlock", "take", "enqueue", "push", "proc", "procLock"}
              /\ pc[a] \in {"take", "enqueue", "push"} => sig[a] = FINISH

FinishInv ==
    /\ FINISH \in allowed
    /\ \A a \in Agents :
        /\ LastOwner(a) => Live = {ref[a]} /\ ~ locked /\ FINISH \notin pend
        /\ pc[a] = "sendOr" => sig[a] # FINISH
        /\ pc[a] = "take" /\ sig[a] = FINISH => FINISH \in pend
        /\ pc[a] = "exec" /\ sig[a] = FINISH => Live = {ref[a]} /\ FINISH \notin pend
    /\ FinishPending

\* what unlock_job has concluded from the flags that it loaded; nobody else clears the bit
\* of the signal that it is about to run
Concluded ==
    \A a \in Agents :
        /\ pc[a] = "release" => snap[a].pend \cap allowed = {}
        /\ pc[a] = "enqueue" =>
             /\ sig[a] \in snap[a].pend \cap allowed
             /\ \A t \in snap[a].pend \cap allowed : t <= sig[a]
        /\ pc[a] = "take" => sig[a] \in pend

\* the part that is inductive by itself
LifeInv ==
    /\ TypeOK
    /\ OwnsRef
    /\ QueuedCovered
    /\ MutualExclusion
    /\ LockHeld
    /\ FinishInv
    /\ RefCount

\* The inductive invariant of the job protocol: an agent in the scheduler owns
\* its reference, JF_LOCKED is set exactly while one agent is responsible for
\* it, queue bits are covered by references, the count is right, from the
\* moment that an owner knows to be the last one nobody else can interfere, and
\* no deliverable signal is forgotten.
IndInv ==
    /\ LifeInv
    /\ Concluded
    /\ NoLostSignal

-----------------------------------------------------------------------------
\* Every signal that is sent and allowed is taken from the flags sooner or
\* later, whatever thread sent it and whatever class has to run it.
Delivered ==
    \A s \in Signals : (s \in Todo) ~> (s \notin Todo)

\* When callers have dropped all their references, the job is destroyed.
Destroyed ==
    (\A a \in Callers : Held(a) = {}) ~> (freed \/ \E a \in Callers : Held(a) # {})
=============================================================================
