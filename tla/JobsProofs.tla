----------------------------- MODULE JobsProofs -----------------------------
(***************************************************************************)
(* The theorems about the job protocol of Jobs, from the inductive         *)
(* invariant IndInv.                                                       *)
(***************************************************************************)
EXTENDS JobsLife, JobsMailbox

\* Zenon proves what names no other prover.
USE Zenon

(***************************************************************************)
(* No signal is lost.                                                      *)
(***************************************************************************)
\* What unlock_job concluded stays true of the flags that it loaded: only the
\* owner of the lock changes j_status.
LEMMA ConcludedStep ==
    ASSUME IndInv, [Next]_vars
    PROVE  Concluded'
<1>0. TypeOK /\ MutualExclusion /\ Concluded
  BY DEF IndInv, LifeInv
<1>1. CASE UNCHANGED vars
  BY <1>0, <1>1 DEF vars, Concluded
<1>2. ASSUME NEW a \in Agents, NEW b \in Callers, Incref(a, b) PROVE Concluded'
  BY <1>0, <1>2 DEF Incref, Concluded, word
<1>3. ASSUME NEW a \in Agents, NEW s \in Signals, JobSignal(a, s) PROVE Concluded'
  BY <1>0, <1>3 DEF JobSignal, Goto, Concluded, word, TypeOK
<1>4. ASSUME NEW a \in Agents, JobDecref(a) PROVE Concluded'
  BY <1>0, <1>4 DEF JobDecref, Goto, Concluded, word, TypeOK
<1>5. ASSUME NEW a \in Agents, Scheduler(a) PROVE Concluded'
  <2> USE <1>0 DEF Concluded, Goto, TypeOK, word
  <2>1. CASE SendCheck(a)
    BY <2>1 DEF SendCheck
  <2>2. CASE SendLock(a)
    BY <2>2 DEF SendLock
  <2>3. CASE SendOr(a)
    BY <2>3 DEF SendOr
  <2>4. CASE Relock(a)
    BY <2>4 DEF Relock
  <2>5. CASE DecrefCheck(a)
    BY <2>5 DEF DecrefCheck
  <2>6. CASE DecrefSub(a)
    BY <2>6 DEF DecrefSub, Give
  <2>7. CASE DecrefReclaim(a)
    BY <2>7 DEF DecrefReclaim
  <2>8. CASE Unlock(a)
    BY SMT, <2>8 DEF Unlock, Todo
  <2>9. CASE Release(a)
    BY <2>9 DEF Release, Forget, NoSnap
  <2>10. CASE UDecrefCheck(a)
    BY <2>10 DEF UDecrefCheck
  <2>11. CASE UDecrefSub(a)
    BY <2>11 DEF UDecrefSub, Give
  <2>12. CASE UDecrefReclaim(a)
    BY <2>12 DEF UDecrefReclaim
  <2>13. CASE UDecrefLast(a)
    BY <2>13 DEF UDecrefLast
  <2>14. CASE Take(a)
    BY <2>14 DEF Take, Forget, NoSnap, MutualExclusion, InLock
  <2>15. CASE Return(a)
    BY <2>15 DEF Return, MutualExclusion, InLock
  <2>16. CASE Destroy(a)
    BY <2>16 DEF Destroy, Give
  <2>17. CASE Enqueue(a)
    BY <2>17 DEF Enqueue, Forget, NoSnap
  <2>18. CASE Push(a)
    BY <2>18 DEF Push, Give
  <2>19. CASE Pop(a)
    BY <2>19 DEF Pop
  <2>20. CASE ProcessRead(a)
    BY <2>20 DEF ProcessRead
  <2>21. CASE ProcessLock(a)
    BY <2>21 DEF ProcessLock, Forget, NoSnap
  <2>22. CASE ProcessClear(a)
    BY <2>22 DEF ProcessClear, Forget, NoSnap
  <2> QED BY <1>5, <2>1, <2>2, <2>3, <2>4, <2>5, <2>6, <2>7, <2>8, <2>9, <2>10, <2>11,
     <2>12, <2>13, <2>14, <2>15, <2>16, <2>17, <2>18, <2>19, <2>20, <2>21, <2>22 DEF Scheduler
<1> QED BY <1>1, <1>2, <1>3, <1>4, <1>5 DEF Next

\* <= is antisymmetric on the integers.
LEMMA Antisymmetric == \A i, j \in Int : i <= j /\ j <= i => i = j
  BY SMT

\* Whoever leaves the job unlocked has found nothing to do, has set the queue
\* bit of the highest signal, or will try the lock again.
LEMMA NoLostSignalStep ==
    ASSUME IndInv, [Next]_vars
    PROVE  NoLostSignal'
<1>0. TypeOK /\ Concluded /\ NoLostSignal /\ \A a \in Agents : InLock(a) => locked
  BY DEF IndInv, LifeInv, LockHeld
<1>1. CASE UNCHANGED vars
  BY <1>0, <1>1 DEF vars, NoLostSignal, Todo
<1>2. ASSUME NEW a \in Agents, NEW b \in Callers, Incref(a, b) PROVE NoLostSignal'
  BY <1>0, <1>2 DEF Incref, NoLostSignal, Todo, word
<1>3. ASSUME NEW a \in Agents, NEW s \in Signals, JobSignal(a, s) PROVE NoLostSignal'
  BY <1>0, <1>3 DEF JobSignal, Goto, NoLostSignal, Todo, word, TypeOK
<1>4. ASSUME NEW a \in Agents, JobDecref(a) PROVE NoLostSignal'
  BY <1>0, <1>4 DEF JobDecref, Goto, NoLostSignal, Todo, word, TypeOK
<1>5. ASSUME NEW a \in Agents, Scheduler(a) PROVE NoLostSignal'
  <2> USE <1>0 DEF NoLostSignal, Todo, Goto, TypeOK, word
  <2>1. CASE SendCheck(a)
    BY <2>1 DEF SendCheck
  <2>2. CASE SendLock(a)
    BY <2>2 DEF SendLock
  <2>3. CASE SendOr(a)
    BY <2>3 DEF SendOr
  <2>4. CASE Relock(a)
    BY <2>4 DEF Relock
  <2>5. CASE DecrefCheck(a)
    BY <2>5 DEF DecrefCheck
  <2>6. CASE DecrefSub(a)
    BY <2>6 DEF DecrefSub, Give
  <2>7. CASE DecrefReclaim(a)
    BY <2>7 DEF DecrefReclaim
  <2>8. CASE Unlock(a)
    BY <2>8 DEF Unlock
  <2>9. CASE Release(a)
    <3>1. CASE Unmoved(a)
      <4>1. pend \cap allowed = {}
        BY SMT, <2>9, <3>1 DEF Release, Unmoved, Concluded
      <4> QED BY <2>9, <4>1 DEF Release
    <3>2. CASE ~ Unmoved(a)
      BY SMT, <2>9, <3>2 DEF Release, InLock
    <3> QED BY <3>1, <3>2
  <2>10. CASE UDecrefCheck(a)
    BY <2>10 DEF UDecrefCheck
  <2>11. CASE UDecrefSub(a)
    BY <2>11 DEF UDecrefSub, Give
  <2>12. CASE UDecrefReclaim(a)
    BY <2>12 DEF UDecrefReclaim
  <2>13. CASE UDecrefLast(a)
    BY <2>13 DEF UDecrefLast
  <2>14. CASE Take(a)
    BY <2>14 DEF Take, InLock
  <2>15. CASE Return(a)
    BY <2>15 DEF Return, InLock
  <2>16. CASE Destroy(a)
    BY <2>16 DEF Destroy, Give
  <2>17. CASE Enqueue(a)
    <3>1. CASE Unmoved(a)
      <4>1. sig[a] \in Todo /\ \A t \in Todo : t <= sig[a]
        BY SMT, <2>17, <3>1 DEF Enqueue, Unmoved, Concluded
      <4>2. queued' = queued \cup {ReqClass(sig[a])} /\ Todo' = Todo
        BY <2>17, <3>1 DEF Enqueue
      <4>3. Todo \subseteq Int
        BY SMT, SignalsAssumption
      <4>4. ASSUME NEW s \in Todo, \A t \in Todo : t <= s PROVE s = sig[a]
        <5> HIDE DEF Todo
        <5>1. s <= sig[a] /\ sig[a] <= s
          BY <4>1, <4>4
        <5>2. s \in Int /\ sig[a] \in Int
          BY <4>1, <4>3
        <5> QED BY <5>1, <5>2, Antisymmetric
      <4> QED BY <4>2, <4>4
    <3>2. CASE ~ Unmoved(a)
      BY SMT, <2>17, <3>2 DEF Enqueue, InLock
    <3> QED BY <3>1, <3>2
  <2>18. CASE Push(a)
    BY <2>18 DEF Push, Give
  <2>19. CASE Pop(a)
    BY <2>19 DEF Pop
  <2>20. CASE ProcessRead(a)
    BY <2>20 DEF ProcessRead
  <2>21. CASE ProcessLock(a)
    BY <2>21 DEF ProcessLock
  <2>22. CASE ProcessClear(a)
    BY <2>22 DEF ProcessClear
  <2> QED BY <1>5, <2>1, <2>2, <2>3, <2>4, <2>5, <2>6, <2>7, <2>8, <2>9, <2>10, <2>11,
     <2>12, <2>13, <2>14, <2>15, <2>16, <2>17, <2>18, <2>19, <2>20, <2>21, <2>22 DEF Scheduler
<1> QED BY <1>1, <1>2, <1>3, <1>4, <1>5 DEF Next

-----------------------------------------------------------------------------
(***************************************************************************)
(* The theorems.                                                           *)
(***************************************************************************)
\* create_async_job establishes the invariant.
LEMMA InitIndInv == Init => IndInv
<1> SUFFICES ASSUME Init PROVE IndInv
  OBVIOUS
<1>1. PICK a \in Callers, r \in Refs, keep \in SUBSET Refs : InitWith(a, r, keep)
  BY DEF Init
<1>2. a \in Agents /\ a # NoOne
  BY AgentsAssumption DEF Callers
<1>3. Live = keep \cup {r}
  BY <1>1, <1>2 DEF InitWith, Live
<1>4. TypeOK
  BY TypeInit
<1>5. OwnsRef /\ QueuedCovered /\ MutualExclusion
  BY <1>1, <1>2 DEF InitWith, OwnsRef, QueuedCovered, MutualExclusion, InLock
<1>6. LockHeld
  BY <1>1, <1>2 DEF InitWith, LockHeld, InLock
<1>7. FINISH \notin pend /\ FINISH \in allowed
  BY SMT, <1>1, SignalsAssumption DEF InitWith, FINISH
<1>8. FinishInv
  BY <1>1, <1>7 DEF InitWith, FinishInv, FinishPending, LastOwner
<1>9. RefCount
  BY <1>1, <1>3 DEF InitWith, RefCount
<1>10. Concluded /\ NoLostSignal
  BY <1>1 DEF InitWith, Concluded, NoLostSignal
<1> QED BY <1>4, <1>5, <1>6, <1>8, <1>9, <1>10 DEF IndInv, LifeInv

\* Every step of every agent keeps the invariant.
LEMMA IndInvStep == ASSUME IndInv, [Next]_vars PROVE IndInv'
<1>1. TypeOK' /\ OwnsRef' /\ QueuedCovered'
  BY TypeStep, OwnsRefStep, QueuedCoveredStep DEF IndInv, LifeInv
<1>2. LifeInv'
  BY <1>1, LockStep, FinishStep, RefCountStep DEF IndInv, LifeInv
<1> QED BY <1>2, ConcludedStep, NoLostSignalStep DEF IndInv

\* The inductive invariant holds in all behaviours of the job protocol.
THEOREM Inductive == Spec => []IndInv
<1>1. IndInv /\ [Next]_vars => IndInv'
  BY IndInvStep
<1> QED BY <1>1, InitIndInv, PTL DEF Spec

\* unlock_job is never run by two agents at once: the handlers of a job are
\* serialised, for any number of threads, references and signals.
THEOREM Serialised == Spec => []MutualExclusion
<1>1. IndInv => MutualExclusion
  BY DEF IndInv, LifeInv
<1> QED BY <1>1, Inductive, PTL

\* job_free is the last thing that ever happens to a job.
THEOREM SafeFree == Spec => []NoUseAfterFree
<1>1. IndInv => NoUseAfterFree
  BY SMT, AgentsAssumption DEF IndInv, LifeInv, NoUseAfterFree, LockHeld, OwnsRef, Live
<1> QED BY <1>1, Inductive, PTL

\* The asserts of job_send_signals, unlock_job and the FINISH handlers cannot
\* fail.
THEOREM NoAssertFails == Spec => []AssertsHold
<1>1. IndInv => AssertsHold
  <2> SUFFICES ASSUME LifeInv, NEW a \in Agents
               PROVE /\ pc[a] = "unlock" => locked
                     /\ pc[a] = "send" => refcnt > 0
                     /\ pc[a] = "send" /\ sig[a] \in pend => refcnt > 1 \/ FINISH \notin pend
                     /\ pc[a] = "send" /\ sig[a] = FINISH => refcnt = 1
                     /\ pc[a] = "ulast" => refcnt = 1
                     /\ pc[a] = "ulast" => FINISH \in allowed
                     /\ pc[a] = "exec" /\ sig[a] = FINISH => refcnt = 1 /\ Live = {ref[a]}
    BY DEF AssertsHold, IndInv
  <2>1. pc[a] = "unlock" => locked
    BY DEF LifeInv, LockHeld, InLock
  <2>2. pc[a] \in {"send", "ulast", "exec"} => refcnt = Cardinality(Live) /\ refcnt > 0
    BY SMT, CountFacts
  <2>3. pc[a] = "send" => FINISH \notin pend
    BY DEF LifeInv, FinishInv, FinishPending
  <2>4. pc[a] = "ulast" \/ (pc[a] = "send" /\ sig[a] = FINISH) \/ (pc[a] = "exec" /\ sig[a] = FINISH)
           => Live = {ref[a]} /\ FINISH \in allowed
    BY DEF LifeInv, FinishInv, LastOwner
  <2>5. Live = {ref[a]} => Cardinality(Live) = 1
    BY FS_Singleton
  <2> QED BY <2>1, <2>2, <2>3, <2>4, <2>5
<1> QED BY <1>1, Inductive, PTL

\* A signal that may be delivered is never forgotten by the scheduler.
THEOREM SignalKept == Spec => []NoLostSignal
<1>1. IndInv => NoLostSignal
  BY DEF IndInv
<1> QED BY <1>1, Inductive, PTL

\* j_refcnt is the number of references, and every queue bit has its entry.
THEOREM Accounting == Spec => [](RefCount /\ QueuedCovered)
<1>1. IndInv => RefCount /\ QueuedCovered
  BY DEF IndInv, LifeInv
<1> QED BY <1>1, Inductive, PTL

-----------------------------------------------------------------------------
(***************************************************************************)
(* The mailbox.                                                            *)
(***************************************************************************)
\* The handler that runs is the one of the agent inside j_execute: there is at most one.
LEMMA RunningIs ==
    ASSUME MutualExclusion
    PROVE  /\ \A a \in Agents : pc[a] = "exec" => Running = sig[a]
           /\ (\A a \in Agents : pc[a] # "exec") => Running = NoOne
<1>1. ASSUME NEW a \in Agents, pc[a] = "exec" PROVE Running = sig[a]
  <2> DEFINE c == CHOOSE x \in Agents : pc[x] = "exec"
  <2>1. c \in Agents /\ pc[c] = "exec"
    BY <1>1
  <2>2. Running = sig[c]
    BY <1>1 DEF Running
  <2> HIDE DEF c
  <2>3. c = a
    BY <1>1, <2>1 DEF MutualExclusion, InLock
  <2> QED BY <2>2, <2>3
<1> QED BY <1>1 DEF Running

\* The same after a step.
LEMMA RunningIsNext ==
    ASSUME MutualExclusion'
    PROVE  /\ \A a \in Agents : pc'[a] = "exec" => Running' = sig'[a]
           /\ (\A a \in Agents : pc'[a] # "exec") => Running' = NoOne
<1>1. ASSUME NEW a \in Agents, pc'[a] = "exec" PROVE Running' = sig'[a]
  <2> DEFINE c == CHOOSE x \in Agents : pc'[x] = "exec"
  <2>1. c \in Agents /\ pc'[c] = "exec"
    BY <1>1
  <2>2. Running' = sig'[c]
    BY <1>1 DEF Running
  <2> HIDE DEF c
  <2>3. c = a
    BY <1>1, <2>1 DEF MutualExclusion, InLock
  <2> QED BY <2>2, <2>3
<1> QED BY <1>1 DEF Running

\* No handler starts or returns in a step in which nobody comes to or leaves j_execute.
LEMMA RunningStays ==
    ASSUME MutualExclusion, MutualExclusion', NEW a \in Agents,
           \A b \in Agents \ {a} : pc'[b] = pc[b] /\ sig'[b] = sig[b],
           pc[a] # "exec", pc'[a] # "exec"
    PROVE  Running' = Running
<1>1. CASE \E b \in Agents : pc[b] = "exec"
  <2>1. PICK b \in Agents : pc[b] = "exec"
    BY <1>1
  <2>2. pc'[b] = "exec" /\ sig'[b] = sig[b]
    BY <2>1
  <2> QED BY SMT, <2>1, <2>2, RunningIs, RunningIsNext
<1>2. CASE \A b \in Agents : pc[b] # "exec"
  <2>1. \A b \in Agents : pc'[b] # "exec"
    BY <1>2
  <2> QED BY <1>2, <2>1, RunningIs, RunningIsNext
<1> QED BY <1>1, <1>2

\* A handler of JS_FINISH runs for the last owner alone.
LEMMA FinishRunning ==
    ASSUME IndInv, Running = FINISH
    PROVE  \E b \in Agents : pc[b] = "exec" /\ sig[b] = FINISH /\ Live = {ref[b]}
                             /\ \A c \in Agents : c # b => pc[c] = "idle"
<1>1. LifeInv /\ MutualExclusion
  BY DEF IndInv, LifeInv
<1>2. PICK b \in Agents : pc[b] = "exec"
  BY <1>1, RunningIs, SignalsAssumption
<1>3. sig[b] = FINISH
  BY <1>1, <1>2, RunningIs
<1> QED BY <1>1, <1>2, <1>3, LastAlone

\* Whoever is in the scheduler, or holds a reference, has a job that can be used, unless it
\* is the one that destroys it.
LEMMA JobUsable ==
    ASSUME IndInv, NEW a \in Agents, pc[a] # "idle", ~ (pc[a] = "exec" /\ sig[a] = FINISH)
    PROVE  Cardinality(Live) > 0 /\ Running # FINISH
<1>1. ref[a] \in Live
  BY SMT, AgentsAssumption DEF IndInv, LifeInv, OwnsRef, Live
<1>2. Cardinality(Live) # 0
  BY <1>1, LiveFinite, FS_EmptySet
<1>3. Running # FINISH
  BY FinishRunning
<1> QED BY SMT, <1>2, <1>3, LiveFinite

\* The job that is created is an empty mailbox, or one with JS_RUN.
LEMMA InitMailbox == Init => Job!Start
<1> SUFFICES ASSUME Init PROVE Job!Start
  OBVIOUS
<1>1. PICK a \in Callers, r \in Refs, keep \in SUBSET Refs : InitWith(a, r, keep)
  BY DEF Init
<1>2. IndInv
  BY InitIndInv
<1>3. \A b \in Agents : pc[b] # "exec"
  BY <1>1 DEF InitWith
<1>4. Running = NoOne
  BY <1>2, <1>3, RunningIs DEF IndInv, LifeInv
<1>5. a \in Agents /\ pc[a] = "unlock"
  BY <1>1 DEF InitWith, Callers
<1>6. Cardinality(Live) \in Nat \ {0}
  BY SMT, <1>2, <1>5, JobUsable, LiveFinite
<1>7. pend \ {FINISH} \in SUBSET (Signals \ {FINISH}) /\ freed = FALSE
  BY <1>1 DEF InitWith
<1> QED BY <1>4, <1>6, <1>7 DEF Job!Start

\* what an agent outside j_execute does to itself
Aside(a) ==
    /\ pc[a] # "exec" /\ pc'[a] # "exec"
    /\ \A b \in Agents \ {a} : pc'[b] = pc[b] /\ sig'[b] = sig[b]

\* A step does not show when it sends nothing, starts and ends no handler, and makes and
\* drops no reference.
LEMMA Hidden ==
    ASSUME IndInv, IndInv', NEW a \in Agents, Aside(a),
           pend' \ {FINISH} = pend \ {FINISH}, Live' = Live, freed' = freed
    PROVE  UNCHANGED Job!jobVars
<1>1. Running' = Running
  BY RunningStays DEF IndInv, LifeInv, Aside
<1> QED BY <1>1 DEF Job!jobVars

\* job_send_signals puts the signal into the mailbox, before or after the lock is taken.
LEMMA SendShows ==
    ASSUME IndInv, IndInv', NEW a \in Agents, Aside(a), pc[a] # "idle", sig[a] \in Signals \ {FINISH},
           pend' = pend \cup {sig[a]}, Live' = Live, freed' = freed
    PROVE  Job!Send(sig[a])
<1>1. Running' = Running
  BY RunningStays DEF IndInv, LifeInv, Aside
<1>2. Cardinality(Live) > 0 /\ Running # FINISH
  BY JobUsable DEF Aside
<1>3. pend' \ {FINISH} = (pend \ {FINISH}) \cup {sig[a]}
  OBVIOUS
<1> QED BY <1>1, <1>2, <1>3 DEF Job!Send, Job!Usable

\* A decrement that does not reach zero drops one of several references.
LEMMA DropShows ==
    ASSUME IndInv, IndInv', NEW a \in Agents, Aside(a), pc[a] \in {"dec", "udec"}, refcnt # 1,
           owner' = [owner EXCEPT ![ref[a]] = NoOne], pend' = pend, freed' = freed
    PROVE  Job!Drop
<1>1. Running' = Running
  BY RunningStays DEF IndInv, LifeInv, Aside
<1>2. Cardinality(Live) > 0 /\ Running # FINISH
  BY JobUsable
<1>3. refcnt = Cardinality(Live) /\ refcnt \in Nat /\ (refcnt < 2 => refcnt = 1)
  BY CountFacts DEF IndInv
<1>4. ref[a] \in Refs /\ owner[ref[a]] # NoOne /\ TypeOK
  BY SMT, AgentsAssumption DEF IndInv, LifeInv, OwnsRef
<1>5. Cardinality(Live') = Cardinality(Live) - 1
  BY <1>4, LiveMinus
<1> QED BY SMT, <1>1, <1>2, <1>3, <1>5 DEF Job!Drop, Job!Usable

\* job_incref makes one more reference to a job that is in use.
LEMMA ShareShows ==
    ASSUME IndInv, NEW a \in Agents, NEW b \in Callers, Incref(a, b)
    PROVE  Job!Share
<1>1. PICK r \in Refs : owner[r] = NoOne /\ owner' = [owner EXCEPT ![r] = b]
  BY DEF Incref
<1>2. Running' = Running /\ pend' = pend /\ freed' = freed
  BY DEF Incref, Running, word
<1>3. Cardinality(Live') = Cardinality(Live) + 1
  BY <1>1, LivePlus DEF Callers, IndInv, LifeInv
<1>4. Held(a) # {} /\ (pc[a] = "idle" \/ (pc[a] = "exec" /\ sig[a] # FINISH))
  BY DEF Incref
<1>5. Running # FINISH
  BY <1>4, FinishRunning, OtherHolder DEF IndInv
<1>6. Cardinality(Live) > 0
  <2>1. Live # {}
    BY <1>4, AgentsAssumption DEF Held, Live
  <2> QED BY SMT, <2>1, LiveFinite, FS_EmptySet
<1> QED BY <1>2, <1>3, <1>5, <1>6 DEF Job!Share, Job!Usable

\* unlock_job clears the bit of the signal and starts its handler; JS_FINISH only when one
\* reference is left.
LEMMA TakeShows ==
    ASSUME IndInv, IndInv', NEW a \in Agents, Take(a)
    PROVE  sig[a] \in Signals /\ IF sig[a] = FINISH THEN Job!BeginFinish ELSE Job!Begin(sig[a])
<1>0. LifeInv /\ TypeOK /\ MutualExclusion /\ MutualExclusion'
  BY DEF IndInv, LifeInv
<1>1. /\ pc[a] = "take" /\ pend' = pend \ {sig[a]} /\ pc' = [pc EXCEPT ![a] = "exec"]
      /\ sig' = sig /\ owner' = owner /\ freed' = freed
  BY DEF Take, Goto
<1>2. Running = NoOne
  BY <1>0, <1>1, RunningIs DEF MutualExclusion, InLock
<1>3. Running' = sig[a] /\ sig[a] \in Signals
  BY <1>0, <1>1, RunningIsNext DEF TypeOK
<1>4. sig[a] \in pend /\ Live' = Live
  BY <1>1 DEF IndInv, Concluded, Live
<1>5. CASE sig[a] = FINISH
  <2>1. Cardinality(Live) = 1
    BY <1>0, <1>1, <1>4, <1>5, FinishAlone, FS_Singleton
  <2>2. pend' \ {FINISH} = pend \ {FINISH}
    BY <1>1, <1>5
  <2> QED BY <1>1, <1>2, <1>3, <1>4, <1>5, <2>1, <2>2 DEF Job!BeginFinish
<1>6. CASE sig[a] # FINISH
  <2>1. pend' \ {FINISH} = (pend \ {FINISH}) \ {sig[a]} /\ sig[a] \in pend \ {FINISH}
    BY <1>1, <1>4, <1>6
  <2> QED BY <1>1, <1>2, <1>3, <1>4, <1>6, <2>1 DEF Job!Begin
<1> QED BY <1>3, <1>5, <1>6

\* The handler returns, and what it sends to its own job is in the mailbox.
LEMMA ReturnShows ==
    ASSUME IndInv, IndInv', NEW a \in Agents, Return(a)
    PROVE  Job!End
<1>0. TypeOK /\ MutualExclusion /\ MutualExclusion'
  BY DEF IndInv, LifeInv
<1>1. /\ pc[a] = "exec" /\ sig[a] # FINISH /\ pc' = [pc EXCEPT ![a] = "unlock"]
      /\ owner' = owner /\ freed' = freed
  BY DEF Return, Goto
<1>2. Running = sig[a] /\ sig[a] \in Signals \ {FINISH}
  BY <1>0, <1>1, RunningIs DEF TypeOK
<1>3. Running' = NoOne
  BY <1>0, <1>1, RunningIsNext DEF TypeOK, MutualExclusion, InLock
<1>4. PICK S \in SUBSET SelfSignals[sig[a]] : pend' = pend \cup S
  BY DEF Return
<1>5. S \in SUBSET (Signals \ {FINISH})
  BY <1>2, SignalsAssumption
<1>6. pend' \ {FINISH} = (pend \ {FINISH}) \cup S /\ Live' = Live
  BY <1>1, <1>4, <1>5 DEF Live
<1> QED BY <1>1, <1>2, <1>3, <1>5, <1>6 DEF Job!End

\* The handler of JS_FINISH frees the job with the last reference.
LEMMA DestroyShows ==
    ASSUME IndInv, IndInv', NEW a \in Agents, Destroy(a)
    PROVE  Job!EndFinish
<1>0. TypeOK /\ LifeInv /\ MutualExclusion /\ MutualExclusion'
  BY DEF IndInv, LifeInv
<1>1. /\ pc[a] = "exec" /\ sig[a] = FINISH /\ pc' = [pc EXCEPT ![a] = "idle"]
      /\ owner' = [owner EXCEPT ![ref[a]] = NoOne] /\ freed' = TRUE /\ pend' = pend
  BY DEF Destroy, Give, Goto, word
<1>2. Running = FINISH
  BY <1>0, <1>1, RunningIs
<1>3. Running' = NoOne
  BY <1>0, <1>1, RunningIsNext DEF TypeOK, MutualExclusion, InLock
<1>4. Live = {ref[a]}
  BY <1>0, <1>1, LastAlone
<1>5. Live' = {}
  BY <1>0, <1>1, <1>4 DEF Live, TypeOK
<1> QED BY <1>1, <1>2, <1>3, <1>5, FS_EmptySet DEF Job!EndFinish

\* What a step of an agent outside j_execute leaves to the others.
LEMMA AsideSteps ==
    ASSUME TypeOK, NEW a \in Agents, NEW l \in Labels, NEW s, pc[a] # "exec", l # "exec",
           pc' = [pc EXCEPT ![a] = l], sig' = sig \/ sig' = [sig EXCEPT ![a] = s]
    PROVE  Aside(a)
BY DEF TypeOK, Aside

\* job_signal and job_send_signals.
LEMMA SendSteps ==
    ASSUME IndInv, IndInv', NEW a \in Agents,
           \/ \E s \in Signals : JobSignal(a, s)
           \/ JobDecref(a) \/ SendCheck(a) \/ SendLock(a) \/ SendOr(a) \/ Relock(a)
    PROVE  (\E s \in Signals \ {FINISH} : Job!Send(s)) \/ UNCHANGED Job!jobVars
<1>0. TypeOK /\ FinishInv
  BY DEF IndInv, LifeInv
<1>1. owner' = owner /\ freed' = freed
  BY DEF JobSignal, JobDecref, SendCheck, SendLock, SendOr, Relock
<1>2. Live' = Live
  BY <1>1 DEF Live
<1>3. Aside(a)
  <2>1. PICK l \in Labels \ {"exec"} : pc' = [pc EXCEPT ![a] = l] /\ pc[a] # "exec"
    BY DEF JobSignal, JobDecref, SendCheck, SendLock, SendOr, Relock, Goto, Labels
  <2>2. sig' = sig \/ \E s \in Signals : sig' = [sig EXCEPT ![a] = s]
    BY DEF JobSignal, JobDecref, SendCheck, SendLock, SendOr, Relock
  <2> QED BY <1>0, <2>1, <2>2, AsideSteps
<1>4. sig[a] \in Signals
  BY <1>0 DEF TypeOK
<1>5. CASE pend' \ {FINISH} = pend \ {FINISH}
  BY <1>1, <1>2, <1>3, <1>5, Hidden
<1>6. CASE pend' \ {FINISH} # pend \ {FINISH}
  <2>1. pend' = pend \cup {sig[a]} /\ pc[a] # "idle"
    BY <1>6 DEF JobSignal, JobDecref, SendCheck, SendLock, SendOr, Relock, word
  <2>2. sig[a] # FINISH
    BY <1>6, <2>1
  <2>3. Job!Send(sig[a])
    BY <1>1, <1>2, <1>3, <1>4, <2>1, <2>2, SendShows
  <2> QED BY <1>4, <2>2, <2>3
<1> QED BY <1>5, <1>6

\* The steps of job_decref and the decrement at the end of unlock_job.
LEMMA DecrefSteps ==
    ASSUME IndInv, IndInv', NEW a \in Agents,
           \/ DecrefCheck(a) \/ DecrefSub(a) \/ DecrefReclaim(a)
           \/ UDecrefCheck(a) \/ UDecrefSub(a) \/ UDecrefReclaim(a) \/ UDecrefLast(a)
    PROVE  Job!Drop \/ UNCHANGED Job!jobVars
<1>0. TypeOK
  BY DEF IndInv, LifeInv
<1>1. freed' = freed /\ pend' \ {FINISH} = pend \ {FINISH}
  BY DEF DecrefCheck, DecrefSub, DecrefReclaim, UDecrefCheck, UDecrefSub, UDecrefReclaim,
         UDecrefLast, word
<1>2. Aside(a)
  <2>1. PICK l \in Labels \ {"exec"} : pc' = [pc EXCEPT ![a] = l] /\ pc[a] # "exec"
    BY DEF DecrefCheck, DecrefSub, DecrefReclaim, UDecrefCheck, UDecrefSub, UDecrefReclaim,
           UDecrefLast, Give, Goto, Labels
  <2>2. sig' = sig \/ sig' = [sig EXCEPT ![a] = FINISH]
    BY DEF DecrefCheck, DecrefSub, DecrefReclaim, UDecrefCheck, UDecrefSub, UDecrefReclaim,
           UDecrefLast
  <2> QED BY <1>0, <2>1, <2>2, AsideSteps
<1>3. CASE owner' = owner
  <2>1. Live' = Live
    BY <1>3 DEF Live
  <2> QED BY <1>1, <1>2, <2>1, Hidden
<1>4. CASE owner' # owner
  <2>1. /\ pc[a] \in {"dec", "udec"} /\ refcnt # 1
        /\ owner' = [owner EXCEPT ![ref[a]] = NoOne] /\ pend' = pend
    BY <1>4 DEF DecrefCheck, DecrefSub, DecrefReclaim, UDecrefCheck, UDecrefSub,
                UDecrefReclaim, UDecrefLast, Give, word
  <2> QED BY <1>1, <1>2, <2>1, DropShows
<1> QED BY <1>3, <1>4

\* unlock_job and process_one_job outside j_execute, and the queues: a reference that goes
\* into a queue or comes out of one stays a reference.
LEMMA QueueSteps ==
    ASSUME IndInv, IndInv', NEW a \in Agents,
           \/ Unlock(a) \/ Release(a) \/ Enqueue(a) \/ Push(a)
           \/ Pop(a) \/ ProcessRead(a) \/ ProcessLock(a) \/ ProcessClear(a)
    PROVE  UNCHANGED Job!jobVars
<1>0. TypeOK /\ OwnsRef
  BY DEF IndInv, LifeInv
<1>1. freed' = freed /\ pend' = pend
  BY DEF Unlock, Release, Enqueue, Push, Pop, ProcessRead, ProcessLock, ProcessClear, word
<1>2. Aside(a)
  <2>1. PICK l \in Labels \ {"exec"} : pc' = [pc EXCEPT ![a] = l] /\ pc[a] # "exec"
    BY DEF Unlock, Release, Enqueue, Push, Pop, ProcessRead, ProcessLock, ProcessClear, Give,
           Goto, Labels
  <2>2. sig' = sig \/ \E s \in Signals : sig' = [sig EXCEPT ![a] = s]
    BY SignalsAssumption DEF Unlock, Release, Enqueue, Push, Pop, ProcessRead, ProcessLock,
           ProcessClear, Todo, TypeOK, IndInv, LifeInv
  <2> QED BY <1>0, <2>1, <2>2, AsideSteps
<1>3. Live' = Live
  <2>1. CASE owner' = owner
    BY <2>1 DEF Live
  <2>2. CASE Push(a)
    <3>1. QueueOf[ReqClass(sig[a])] # NoOne
      <4>1. ReqClass(sig[a]) \in Classes
        BY <1>0, ReqClassType DEF TypeOK
      <4> QED BY SMT, <4>1, AgentsAssumption
    <3>2. owner[ref[a]] # NoOne /\ owner' = [owner EXCEPT ![ref[a]] = QueueOf[ReqClass(sig[a])]]
      BY SMT, <1>0, <2>2, AgentsAssumption DEF Push, Give, OwnsRef
    <3> QED BY <1>0, <3>1, <3>2 DEF Live, TypeOK
  <2>3. CASE Pop(a)
    <3>1. PICK r \in Held(Polls[a]) : owner' = [owner EXCEPT ![r] = a]
      BY <2>3 DEF Pop
    <3>2. Polls[a] # NoOne
      BY <2>3 DEF Pop, Callers
    <3> QED BY <1>0, <3>1, <3>2, AgentsAssumption DEF Live, Held, TypeOK
  <2> QED BY <2>1, <2>2, <2>3
        DEF Unlock, Release, Enqueue, ProcessRead, ProcessLock, ProcessClear
<1> QED BY <1>1, <1>2, <1>3, Hidden

\* Every step of the scheduler is a step of the mailbox or does not show.
LEMMA MailboxStep ==
    ASSUME IndInv, IndInv', [Next]_vars
    PROVE  [Job!Change]_(Job!jobVars)
<1>1. CASE UNCHANGED vars
  <2>1. UNCHANGED <<pend, owner, freed, pc, sig>>
    BY <1>1 DEF vars
  <2> QED BY <2>1 DEF Job!jobVars, Running, Live
<1>2. CASE Next
  <2>1. PICK a \in Agents :
          \/ \E b \in Callers : Incref(a, b)
          \/ \E s \in Signals : JobSignal(a, s)
          \/ JobDecref(a)
          \/ Scheduler(a)
    BY <1>2 DEF Next
  <2>2. CASE \E b \in Callers : Incref(a, b)
    BY <2>2, ShareShows DEF Job!Change
  <2>3. CASE \/ \E s \in Signals : JobSignal(a, s)
             \/ JobDecref(a) \/ SendCheck(a) \/ SendLock(a) \/ SendOr(a) \/ Relock(a)
    BY <2>3, SendSteps DEF Job!Change
  <2>4. CASE \/ DecrefCheck(a) \/ DecrefSub(a) \/ DecrefReclaim(a)
             \/ UDecrefCheck(a) \/ UDecrefSub(a) \/ UDecrefReclaim(a) \/ UDecrefLast(a)
    BY <2>4, DecrefSteps DEF Job!Change
  <2>5. CASE \/ Unlock(a) \/ Release(a) \/ Enqueue(a) \/ Push(a)
             \/ Pop(a) \/ ProcessRead(a) \/ ProcessLock(a) \/ ProcessClear(a)
    BY <2>5, QueueSteps
  <2>6. CASE Take(a)
    BY <2>6, TakeShows DEF Job!Change
  <2>7. CASE Return(a)
    BY <2>7, ReturnShows DEF Job!Change
  <2>8. CASE Destroy(a)
    BY <2>8, DestroyShows DEF Job!Change
  <2> QED BY <2>1, <2>2, <2>3, <2>4, <2>5, <2>6, <2>7, <2>8 DEF Scheduler
<1> QED BY <1>1, <1>2

\* The lock, queue and reference protocol of jobs.c implements the mailbox, for any number
\* of threads, references, queues and signals: each step of job_signal, job_decref,
\* unlock_job and process_one_job is one step of JobSpec or leaves it as it was.
THEOREM Refines == Spec => Mailbox
<1>1. Init => Job!Start
  BY InitMailbox
<1>2. IndInv /\ IndInv' /\ [Next]_vars => [Job!Change]_(Job!jobVars)
  BY MailboxStep
<1>3. Spec => []IndInv
  BY Inductive
<1> QED BY <1>1, <1>2, <1>3, PTL DEF Spec, Mailbox, Job!Mailbox
=============================================================================
