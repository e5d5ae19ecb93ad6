------------------------------ MODULE JobsLife ------------------------------
(***************************************************************************)
(* Proofs about the job protocol of Jobs, for any agents, references,      *)
(* queues and signal tables that satisfy its assumptions: the types, the   *)
(* reference that an agent inside the scheduler owns, the entries that     *)
(* queue bits stand for, and the life of a job: the lock, the last owner's *)
(* way to the handler of JS_FINISH, and the count of references.           *)
(***************************************************************************)
EXTENDS Jobs, FiniteSetTheorems, TLAPS

\* Zenon proves what names no other prover.
USE Zenon

\* Giving a reference away keeps the types of pc, owner and ref.
LEMMA GiveType ==
    ASSUME TypeOK, NEW a \in Agents, NEW x \in Agents \cup Queues \cup {NoOne}, Give(a, x)
    PROVE  /\ pc' \in [Agents -> Labels]
           /\ owner' \in [Refs -> Agents \cup Queues \cup {NoOne}]
           /\ ref' \in [Agents -> Refs \cup {NoOne}]
<1>1. pc' \in [Agents -> Labels]
  BY DEF Give, Goto, Labels, TypeOK
<1>2. owner' \in [Refs -> Agents \cup Queues \cup {NoOne}]
  BY DEF Give, TypeOK
<1>3. ref' \in [Agents -> Refs \cup {NoOne}]
  BY DEF Give, TypeOK
<1> QED BY <1>1, <1>2, <1>3

\* The class whose queue a signal goes to is a class.
LEMMA ReqClassType == \A s \in Signals : ReqClass(s) \in Classes
  BY SMT, SignalsAssumption DEF ReqClass, JC_MAIN, Classes

\* The initial state has the right types.
LEMMA TypeInit == Init => TypeOK
<1> SUFFICES ASSUME Init PROVE TypeOK
  OBVIOUS
<1>1. PICK a \in Callers, r \in Refs, keep \in SUBSET Refs : InitWith(a, r, keep)
  BY DEF Init
<1>2. refcnt \in Int
  <2>1. IsFiniteSet(keep \cup {r})
    BY AgentsAssumption, FS_Subset, FS_AddElement
  <2> QED BY SMT, <1>1, <2>1, FS_CardinalityType DEF InitWith
<1>3. pc \in [Agents -> Labels]
  BY <1>1 DEF InitWith, Labels
<1>4. owner \in [Refs -> Agents \cup Queues \cup {NoOne}]
  BY <1>1 DEF InitWith, Callers
<1>5. sends \in 0 .. MaxSends
  BY SMT, <1>1, AgentsAssumption DEF InitWith
<1>6. snap \in [Agents -> [pend : SUBSET Signals, queued : SUBSET Classes]]
  BY <1>1 DEF InitWith, NoSnap
<1>7. sig \in [Agents -> Signals]
  BY <1>1, SignalsAssumption DEF InitWith
<1>8. ref \in [Agents -> Refs \cup {NoOne}]
  BY <1>1 DEF InitWith
<1> QED BY <1>1, <1>2, <1>3, <1>4, <1>5, <1>6, <1>7, <1>8 DEF InitWith, TypeOK

\* Every step keeps the types.
LEMMA TypeStep ==
    ASSUME TypeOK, [Next]_vars
    PROVE  TypeOK'
<1>1. ASSUME NEW a \in Agents, NEW b \in Callers, Incref(a, b) PROVE TypeOK'
  BY SMT, <1>1 DEF Incref, Callers, TypeOK, word
<1>2. ASSUME NEW a \in Agents, NEW s \in Signals, JobSignal(a, s) PROVE TypeOK'
  <2>1. pc' \in [Agents -> Labels]
    BY <1>2 DEF JobSignal, Goto, Labels, TypeOK
  <2>2. sends' \in 0 .. MaxSends
    BY SMT, <1>2, AgentsAssumption DEF JobSignal, TypeOK
  <2> QED BY <1>2, <2>1, <2>2 DEF JobSignal, Held, TypeOK, word
<1>3. ASSUME NEW a \in Agents, JobDecref(a) PROVE TypeOK'
  BY SMT, <1>3 DEF JobDecref, Held, Goto, Labels, TypeOK, word
<1>4. ASSUME NEW a \in Agents, Scheduler(a) PROVE TypeOK'
  <2> USE DEF TypeOK, word
  <2>1. CASE SendCheck(a)
    <3>1. pc' \in [Agents -> Labels]
      BY <2>1 DEF SendCheck, Goto, Labels
    <3> QED BY <2>1, <3>1 DEF SendCheck
  <2>2. CASE SendLock(a)
    <3>1. pc' \in [Agents -> Labels]
      BY <2>2 DEF SendLock, Goto, Labels
    <3> QED BY <2>2, <3>1 DEF SendLock
  <2>3. CASE SendOr(a)
    <3>1. pc' \in [Agents -> Labels]
      BY <2>3 DEF SendOr, Goto, Labels
    <3> QED BY <2>3, <3>1 DEF SendOr
  <2>4. CASE Relock(a)
    <3>1. pc' \in [Agents -> Labels]
      BY <2>4 DEF Relock, Goto, Labels
    <3> QED BY <2>4, <3>1 DEF Relock
  <2>5. CASE DecrefCheck(a)
    <3>1. pc' \in [Agents -> Labels]
      BY <2>5 DEF DecrefCheck, Goto, Labels
    <3> QED BY <2>5, <3>1, SignalsAssumption DEF DecrefCheck
  <2>6. CASE DecrefSub(a)
    <3>1. CASE refcnt # 1
      BY SMT, <2>6, <3>1, GiveType DEF DecrefSub
    <3>2. CASE refcnt = 1
      BY SMT, <2>6, <3>2 DEF DecrefSub, Goto, Labels
    <3> QED BY <3>1, <3>2
  <2>7. CASE DecrefReclaim(a)
    <3>1. pc' \in [Agents -> Labels]
      BY <2>7 DEF DecrefReclaim, Goto, Labels
    <3> QED BY SMT, <2>7, <3>1 DEF DecrefReclaim
  <2>8. CASE Unlock(a)
    <3>1. pc' \in [Agents -> Labels]
      BY <2>8 DEF Unlock, Goto, Labels
    <3> QED BY <2>8, <3>1 DEF Unlock, Todo
  <2>9. CASE Release(a)
    <3>1. pc' \in [Agents -> Labels]
      BY <2>9 DEF Release, Goto, Labels
    <3> QED BY <2>9, <3>1, SignalsAssumption DEF Release, Forget, NoSnap
  <2>10. CASE UDecrefCheck(a)
    <3>1. pc' \in [Agents -> Labels]
      BY <2>10 DEF UDecrefCheck, Goto, Labels
    <3> QED BY <2>10, <3>1 DEF UDecrefCheck
  <2>11. CASE UDecrefSub(a)
    <3>1. CASE refcnt # 1
      BY SMT, <2>11, <3>1, GiveType DEF UDecrefSub
    <3>2. CASE refcnt = 1
      BY SMT, <2>11, <3>2 DEF UDecrefSub, Goto, Labels
    <3> QED BY <3>1, <3>2
  <2>12. CASE UDecrefReclaim(a)
    <3>1. pc' \in [Agents -> Labels]
      BY <2>12 DEF UDecrefReclaim, Goto, Labels
    <3> QED BY SMT, <2>12, <3>1 DEF UDecrefReclaim
  <2>13. CASE UDecrefLast(a)
    <3>1. pc' \in [Agents -> Labels]
      BY <2>13 DEF UDecrefLast, Goto, Labels
    <3> QED BY <2>13, <3>1, SignalsAssumption DEF UDecrefLast
  <2>14. CASE Take(a)
    <3>1. pc' \in [Agents -> Labels]
      BY <2>14 DEF Take, Goto, Labels
    <3> QED BY <2>14, <3>1 DEF Take, Forget, NoSnap
  <2>15. CASE Return(a)
    <3>1. pc' \in [Agents -> Labels]
      BY <2>15 DEF Return, Goto, Labels
    <3> QED BY <2>15, <3>1, SignalsAssumption DEF Return
  <2>16. CASE Destroy(a)
    BY <2>16, GiveType DEF Destroy
  <2>17. CASE Enqueue(a)
    <3>1. pc' \in [Agents -> Labels]
      BY <2>17 DEF Enqueue, Goto, Labels
    <3>2. queued' \in SUBSET Classes
      BY SMT, <2>17, ReqClassType DEF Enqueue
    <3>3. snap' \in [Agents -> [pend : SUBSET Signals, queued : SUBSET Classes]]
      BY <2>17 DEF Enqueue, Forget, NoSnap
    <3> QED BY <2>17, <3>1, <3>2, <3>3 DEF Enqueue
  <2>18. CASE Push(a)
    <3>1. QueueOf[ReqClass(sig[a])] \in Queues
      BY ReqClassType, AgentsAssumption
    <3> QED BY <2>18, <3>1, GiveType, SignalsAssumption DEF Push
  <2>19. CASE Pop(a)
    <3>1. pc' \in [Agents -> Labels]
      BY <2>19 DEF Pop, Goto, Labels
    <3>2. PICK r \in Refs : owner' = [owner EXCEPT ![r] = a] /\ ref' = [ref EXCEPT ![a] = r]
      BY <2>19 DEF Pop, Held
    <3>3. owner' \in [Refs -> Agents \cup Queues \cup {NoOne}] /\ ref' \in [Agents -> Refs \cup {NoOne}]
      BY <3>2
    <3> QED BY <2>19, <3>1, <3>3 DEF Pop
  <2>20. CASE ProcessRead(a)
    <3>1. pc' \in [Agents -> Labels]
      BY <2>20 DEF ProcessRead, Goto, Labels
    <3> QED BY <2>20, <3>1 DEF ProcessRead
  <2>21. CASE ProcessLock(a)
    <3>1. pc' \in [Agents -> Labels]
      BY <2>21 DEF ProcessLock, Goto, Labels
    <3>2. snap' \in [Agents -> [pend : SUBSET Signals, queued : SUBSET Classes]]
      BY SMT, <2>21 DEF ProcessLock, Forget, NoSnap
    <3>3. queued' \in SUBSET Classes /\ locked' \in BOOLEAN
      BY <2>21 DEF ProcessLock
    <3> QED BY <2>21, <3>1, <3>2, <3>3 DEF ProcessLock
  <2>22. CASE ProcessClear(a)
    <3>1. pc' \in [Agents -> Labels]
      BY <2>22 DEF ProcessClear, Goto, Labels
    <3> QED BY <2>22, <3>1 DEF ProcessClear, Forget, NoSnap
  <2> QED
    BY <1>4, <2>1, <2>2, <2>3, <2>4, <2>5, <2>6, <2>7, <2>8, <2>9, <2>10, <2>11,
       <2>12, <2>13, <2>14, <2>15, <2>16, <2>17, <2>18, <2>19, <2>20, <2>21, <2>22 DEF Scheduler
<1>5. CASE UNCHANGED vars
  BY <1>5 DEF vars, TypeOK
<1> QED BY <1>1, <1>2, <1>3, <1>4, <1>5 DEF Next

\* Type correctness of Jobs: j_flags, j_status, j_refcnt and the locals of
\* every activation keep their types in all behaviours.
THEOREM TypeCorrect == Spec => []TypeOK
  BY TypeInit, TypeStep, PTL DEF Spec

-----------------------------------------------------------------------------
(***************************************************************************)
(* Who owns which reference.                                               *)
(***************************************************************************)
\* A step inside a call changes no owner and moves one busy agent.
Inside(a) ==
    /\ pc[a] # "idle"
    /\ UNCHANGED <<owner, ref>>
    /\ \E l \in Labels : Goto(a, l)

LEMMA StepKinds ==
    ASSUME TypeOK, NEW a \in Agents, Scheduler(a)
    PROVE  \/ Inside(a)
           \/ pc[a] # "idle" /\ \E x \in Queues \cup {NoOne} : Give(a, x)
           \/ Pop(a)
<1>1. CASE SendCheck(a)
  BY <1>1 DEF SendCheck, Inside, Goto, Labels, TypeOK
<1>2. CASE SendLock(a)
  BY <1>2 DEF SendLock, Inside, Goto, Labels, TypeOK
<1>3. CASE SendOr(a)
  BY <1>3 DEF SendOr, Inside, Goto, Labels, TypeOK
<1>4. CASE Relock(a)
  BY <1>4 DEF Relock, Inside, Goto, Labels, TypeOK
<1>5. CASE DecrefCheck(a)
  BY <1>5 DEF DecrefCheck, Inside, Goto, Labels, TypeOK
<1>6. CASE DecrefSub(a)
  <2>1. CASE refcnt # 1
    BY <1>6, <2>1 DEF DecrefSub
  <2>2. CASE refcnt = 1
    BY <1>6, <2>2 DEF DecrefSub, Inside, Goto, Labels
  <2> QED BY <2>1, <2>2, <1>6 DEF DecrefSub
<1>7. CASE DecrefReclaim(a)
  BY <1>7 DEF DecrefReclaim, Inside, Goto, Labels, TypeOK
<1>8. CASE Unlock(a)
  BY <1>8 DEF Unlock, Inside, Goto, Labels, TypeOK
<1>9. CASE Release(a)
  BY <1>9 DEF Release, Inside, Goto, Labels, TypeOK
<1>10. CASE UDecrefCheck(a)
  BY <1>10 DEF UDecrefCheck, Inside, Goto, Labels, TypeOK
<1>11. CASE UDecrefSub(a)
  <2>1. CASE refcnt # 1
    BY <1>11, <2>1 DEF UDecrefSub
  <2>2. CASE refcnt = 1
    BY <1>11, <2>2 DEF UDecrefSub, Inside, Goto, Labels
  <2> QED BY <2>1, <2>2, <1>11 DEF UDecrefSub
<1>12. CASE UDecrefReclaim(a)
  BY <1>12 DEF UDecrefReclaim, Inside, Goto, Labels, TypeOK
<1>13. CASE UDecrefLast(a)
  BY <1>13 DEF UDecrefLast, Inside, Goto, Labels, TypeOK
<1>14. CASE Take(a)
  BY <1>14 DEF Take, Inside, Goto, Labels, TypeOK
<1>15. CASE Return(a)
  BY <1>15 DEF Return, Inside, Goto, Labels, TypeOK
<1>16. CASE Destroy(a)
  BY <1>16 DEF Destroy
<1>17. CASE Enqueue(a)
  BY <1>17 DEF Enqueue, Inside, Goto, Labels, TypeOK
<1>18. CASE Push(a)
  BY <1>18, ReqClassType, AgentsAssumption DEF Push, TypeOK
<1>20. CASE ProcessRead(a)
  BY <1>20 DEF ProcessRead, Inside, Goto, Labels, TypeOK
<1>21. CASE ProcessLock(a)
  BY <1>21 DEF ProcessLock, Inside, Goto, Labels, TypeOK
<1>22. CASE ProcessClear(a)
  BY <1>22 DEF ProcessClear, Inside, Goto, Labels, TypeOK
<1> QED BY <1>1, <1>2, <1>3, <1>4, <1>5, <1>6, <1>7, <1>8, <1>9, <1>10, <1>11, <1>12, <1>13, <1>14, <1>15, <1>16, <1>17, <1>18, <1>20, <1>21, <1>22 DEF Scheduler

\* An agent inside the scheduler keeps the reference that it was called with.
LEMMA OwnsRefStep ==
    ASSUME TypeOK, OwnsRef, [Next]_vars
    PROVE  OwnsRef'
<1>1. ASSUME NEW a \in Agents, NEW b \in Callers, Incref(a, b) PROVE OwnsRef'
  <2>1. PICK r \in Refs : owner[r] = NoOne /\ owner' = [owner EXCEPT ![r] = b]
    BY <1>1 DEF Incref
  <2> QED BY SMT, <1>1, <2>1, AgentsAssumption DEF Incref, OwnsRef, TypeOK
<1>2. ASSUME NEW a \in Agents, NEW s \in Signals, JobSignal(a, s) PROVE OwnsRef'
  BY <1>2 DEF JobSignal, Held, Goto, OwnsRef, TypeOK
<1>3. ASSUME NEW a \in Agents, JobDecref(a) PROVE OwnsRef'
  BY <1>3 DEF JobDecref, Held, Goto, OwnsRef, TypeOK
<1>4. ASSUME NEW a \in Agents, Scheduler(a) PROVE OwnsRef'
  <2>1. CASE Inside(a)
    BY <2>1 DEF Inside, Goto, OwnsRef, TypeOK
  <2>2. ASSUME pc[a] # "idle", NEW x \in Queues \cup {NoOne}, Give(a, x) PROVE OwnsRef'
    BY <2>2 DEF Give, Goto, OwnsRef, TypeOK
  <2>3. CASE Pop(a)
    <3>1. PICK r \in Refs : /\ owner[r] = Polls[a]
                            /\ owner' = [owner EXCEPT ![r] = a]
                            /\ ref' = [ref EXCEPT ![a] = r]
      BY <2>3 DEF Pop, Held
    <3>2. Polls[a] \notin Agents
      BY AgentsAssumption
    <3> QED BY SMT, <2>3, <3>1, <3>2 DEF Pop, Goto, OwnsRef, TypeOK
  <2> QED BY <1>4, <2>1, <2>2, <2>3, StepKinds
<1>5. CASE UNCHANGED vars
  BY <1>5 DEF vars, OwnsRef
<1> QED BY <1>1, <1>2, <1>3, <1>4, <1>5 DEF Next

\* Every queue bit keeps an entry: whoever removes an entry clears the bit
\* first, and only the agent that sets a bit pushes.
LEMMA QueuedCoveredStep ==
    ASSUME TypeOK, OwnsRef, QueuedCovered, [Next]_vars
    PROVE  QueuedCovered'
<1>1. ASSUME NEW a \in Agents, NEW b \in Callers, Incref(a, b) PROVE QueuedCovered'
  <2>1. PICK r \in Refs : owner[r] = NoOne /\ owner' = [owner EXCEPT ![r] = b]
    BY <1>1 DEF Incref
  <2>2. \A c \in Classes : QueueOf[c] # NoOne
    BY ZenonT(60), AgentsAssumption
  <2> QED BY SMT, <1>1, <2>1, <2>2 DEF Incref, QueuedCovered, Covered, TypeOK, word
<1>2. ASSUME NEW a \in Agents, NEW s \in Signals, JobSignal(a, s) PROVE QueuedCovered'
  BY <1>2 DEF JobSignal, Goto, QueuedCovered, Covered, TypeOK, word
<1>3. ASSUME NEW a \in Agents, JobDecref(a) PROVE QueuedCovered'
  BY <1>3 DEF JobDecref, Goto, QueuedCovered, Covered, TypeOK, word
<1>4. ASSUME NEW a \in Agents, Scheduler(a) PROVE QueuedCovered'
  <2> USE DEF QueuedCovered, TypeOK, word
  <2>1. CASE SendCheck(a)
    BY <2>1 DEF SendCheck, Goto, Covered
  <2>2. CASE SendLock(a)
    BY SMT, <2>2 DEF SendLock, Goto, Covered
  <2>3. CASE SendOr(a)
    BY <2>3 DEF SendOr, Goto, Covered
  <2>4. CASE Relock(a)
    BY <2>4 DEF Relock, Goto, Covered
  <2>5. CASE DecrefCheck(a)
    BY <2>5 DEF DecrefCheck, Goto, Covered
  <2>6. CASE DecrefSub(a)
    <3>1. pc[a] # "idle" /\ \A c \in Classes : QueueOf[c] # a
      BY SMT, <2>6, AgentsAssumption DEF DecrefSub
    <3> QED BY SMT, <2>6, <3>1, ReqClassType DEF DecrefSub, Give, Goto, OwnsRef, Covered
  <2>7. CASE DecrefReclaim(a)
    BY <2>7 DEF DecrefReclaim, Goto, Covered
  <2>8. CASE Unlock(a)
    BY SMT, <2>8 DEF Unlock, Goto, Covered
  <2>9. CASE Release(a)
    BY <2>9 DEF Release, Goto, Forget, Covered
  <2>10. CASE UDecrefCheck(a)
    BY <2>10 DEF UDecrefCheck, Goto, Covered
  <2>11. CASE UDecrefSub(a)
    <3>1. pc[a] # "idle" /\ \A c \in Classes : QueueOf[c] # a
      BY SMT, <2>11, AgentsAssumption DEF UDecrefSub
    <3> QED BY SMT, <2>11, <3>1, ReqClassType DEF UDecrefSub, Give, Goto, OwnsRef, Covered
  <2>12. CASE UDecrefReclaim(a)
    BY <2>12 DEF UDecrefReclaim, Goto, Covered
  <2>13. CASE UDecrefLast(a)
    BY <2>13 DEF UDecrefLast, Goto, Covered
  <2>14. CASE Take(a)
    BY <2>14 DEF Take, Goto, Forget, Covered
  <2>15. CASE Return(a)
    BY <2>15 DEF Return, Goto, Covered
  <2>16. CASE Destroy(a)
    <3>1. pc[a] # "idle" /\ \A c \in Classes : QueueOf[c] # a
      BY SMT, <2>16, AgentsAssumption DEF Destroy
    <3> QED BY SMT, <2>16, <3>1, ReqClassType DEF Destroy, Give, Goto, OwnsRef, Covered
  <2>17. CASE Enqueue(a)
    <3>1. CASE queued' = queued
      BY <2>17, <3>1 DEF Enqueue, Goto, Forget, Covered
    <3>2. CASE queued' # queued
      <4>1. queued' = queued \cup {ReqClass(sig[a])} /\ ReqClass(sig[a]) \notin queued
        BY <2>17, <3>2 DEF Enqueue
      <4>2. pc' = [pc EXCEPT ![a] = "push"]
        BY <2>17, <3>2, <4>1 DEF Enqueue, Goto
      <4> QED BY <2>17, <4>1, <4>2 DEF Enqueue, Forget, Covered
    <3> QED BY <3>1, <3>2
  <2>18. CASE Push(a)
    <3>1. pc[a] # "idle" /\ \A c \in Classes : QueueOf[c] # a
      BY SMT, <2>18, AgentsAssumption DEF Push
    <3> QED BY SMT, <2>18, <3>1, ReqClassType DEF Push, Give, Goto, OwnsRef, Covered
  <2>19. CASE Pop(a)
    <3>1. PICK r \in Refs : owner[r] = Polls[a] /\ owner' = [owner EXCEPT ![r] = a]
      BY <2>19 DEF Pop, Held
    <3> QED BY <2>19, <3>1 DEF Pop, Goto, Covered
  <2>20. CASE ProcessRead(a)
    <3>1. \A c \in Classes : Polls[a] = QueueOf[c] => c \in Mask[a]
      BY AgentsAssumption
    <3> QED BY <2>20, <3>1 DEF ProcessRead, Goto, Covered
  <2>21. CASE ProcessLock(a)
    <3>1. CASE locked
      BY <2>21, <3>1 DEF ProcessLock, Goto, Covered
    <3>2. CASE ~ locked
      BY SMT, <2>21, <3>2 DEF ProcessLock, Goto, Forget, Covered
    <3> QED BY <3>1, <3>2
  <2>22. CASE ProcessClear(a)
    BY <2>22 DEF ProcessClear, Goto, Forget, Covered
  <2> QED BY <1>4, <2>1, <2>2, <2>3, <2>4, <2>5, <2>6, <2>7, <2>8, <2>9, <2>10, <2>11,
     <2>12, <2>13, <2>14, <2>15, <2>16, <2>17, <2>18, <2>19, <2>20, <2>21, <2>22 DEF Scheduler
<1>5. CASE UNCHANGED vars
  BY <1>5 DEF vars, QueuedCovered, Covered
<1> QED BY <1>1, <1>2, <1>3, <1>4, <1>5 DEF Next

(***************************************************************************)
(* What the inductive invariant says of one agent inside the scheduler.    *)
(***************************************************************************)
\* A job that was freed is out of everybody's reach: no step is left.
LEMMA FreedStops ==
    ASSUME LifeInv, freed, Next
    PROVE  FALSE
<1>1. Live = {} /\ \A a \in Agents : pc[a] = "idle"
  BY SMT, AgentsAssumption DEF LifeInv, LockHeld, OwnsRef, Live
<1>2. \A x \in Agents \cup Queues : Held(x) = {}
  BY <1>1, AgentsAssumption DEF Held, Live
<1>3. \A a \in Agents : ~ Scheduler(a)
  <2> SUFFICES ASSUME NEW a \in Agents, Scheduler(a) PROVE FALSE
    OBVIOUS
  <2>1. ~ Pop(a)
    <3>1. a \in Callers \/ Polls[a] \in Queues
      BY AgentsAssumption DEF Callers
    <3> QED BY <1>2, <3>1 DEF Pop
  <2> QED BY <1>1, <2>1, StepKinds DEF LifeInv, Inside
<1> QED BY <1>1, <1>2, <1>3 DEF Next, Incref, JobSignal, JobDecref

\* The owner of the only reference is alone inside the scheduler.  If it does
\* not have the lock then nobody has, and if it is not on JS_FINISH's own way
\* then JS_FINISH was not sent.
LEMMA SoleOwner ==
    ASSUME LifeInv, NEW a \in Agents, pc[a] # "idle", Live = {ref[a]}
    PROVE  /\ \A b \in Agents : b # a => pc[b] = "idle"
           /\ ~ InLock(a) => ~ locked
           /\ pc[a] \notin {"unlock", "take", "enqueue", "push", "proc", "procLock"}
                  => FINISH \notin pend
<1>1. ASSUME NEW b \in Agents, b # a, pc[b] # "idle" PROVE FALSE
  <2>1. owner[ref[a]] = a /\ owner[ref[b]] = b /\ ref[b] \in Refs
    BY <1>1 DEF LifeInv, OwnsRef
  <2>2. ref[b] \in Live
    BY <1>1, <2>1, AgentsAssumption DEF Live
  <2> QED BY <1>1, <2>1, <2>2
<1>2. ~ freed
  BY DEF LifeInv, LockHeld
<1>3. ~ InLock(a) => ~ locked
  BY <1>1, <1>2 DEF LifeInv, LockHeld, InLock
<1> QED BY <1>1, <1>3 DEF LifeInv, FinishInv, FinishPending

\* While JS_FINISH is pending, an agent inside the scheduler is the sole owner.
LEMMA FinishAlone ==
    ASSUME LifeInv, FINISH \in pend, NEW a \in Agents, pc[a] # "idle"
    PROVE  Live = {ref[a]}
<1>1. ref[a] \in Live
  BY SMT, AgentsAssumption DEF LifeInv, OwnsRef, Live
<1> QED BY <1>1 DEF LifeInv, FinishInv, FinishPending

\* What j_refcnt tells the agent that reads it.
LEMMA CountFacts ==
    ASSUME LifeInv, NEW a \in Agents, pc[a] \notin {"idle", "reclaim", "ureclaim"}
    PROVE  /\ refcnt = Cardinality(Live)
           /\ IsFiniteSet(Live)
           /\ refcnt \in Nat
           /\ refcnt < 2 => Live = {ref[a]} /\ refcnt = 1
<1>1. ref[a] \in Live
  BY SMT, AgentsAssumption DEF LifeInv, OwnsRef, Live
<1>2. IsFiniteSet(Live)
  BY AgentsAssumption, FS_Subset DEF Live
<1>3. ~ \E b \in Agents : pc[b] \in {"reclaim", "ureclaim"}
  <2> SUFFICES ASSUME NEW b \in Agents, pc[b] \in {"reclaim", "ureclaim"} PROVE FALSE
    OBVIOUS
  <2>1. Live = {ref[b]}
    BY DEF LifeInv, FinishInv, LastOwner
  <2> QED BY <2>1, SoleOwner
<1>4. refcnt = Cardinality(Live)
  BY <1>1, <1>3 DEF LifeInv, RefCount, LockHeld
<1>5. Cardinality(Live) \in Nat
  BY <1>2, FS_CardinalityType
<1>6. Cardinality(Live) # 0
  BY <1>1, <1>2, FS_EmptySet
<1>7. Cardinality(Live) = 1 => Live = {ref[a]}
  BY SMT, <1>1, <1>2, FS_Singleton
<1> QED BY SMT, <1>2, <1>4, <1>5, <1>6, <1>7

\* An agent that has found out to be the last owner is, and so is the one that
\* runs the handler of JS_FINISH.
LEMMA LastAlone ==
    ASSUME LifeInv, NEW a \in Agents,
           LastOwner(a) \/ (pc[a] = "exec" /\ sig[a] = FINISH)
    PROVE  Live = {ref[a]} /\ \A b \in Agents : b # a => pc[b] = "idle"
<1>1. Live = {ref[a]} /\ pc[a] # "idle"
  BY DEF LifeInv, FinishInv, LastOwner
<1> QED BY <1>1, SoleOwner

-----------------------------------------------------------------------------
(***************************************************************************)
(* Preservation of the lock.                                               *)
(***************************************************************************)
\* Nobody takes JF_LOCKED while another agent is responsible for it.
LEMMA LockStep ==
    ASSUME LifeInv, [Next]_vars
    PROVE  MutualExclusion' /\ LockHeld'
<1>1. CASE UNCHANGED vars
  BY <1>1 DEF vars, LifeInv, MutualExclusion, LockHeld, InLock, Live
<1> SUFFICES ASSUME Next PROVE MutualExclusion' /\ LockHeld'
  BY <1>1
<1>2. ~ freed
  BY FreedStops
<1>3. TypeOK /\ MutualExclusion /\ OwnsRef
      /\ (\A a \in Agents : InLock(a) => locked)
      /\ (locked => \E a \in Agents : InLock(a))
  BY <1>2 DEF LifeInv, LockHeld
<1> DEFINE Goal == /\ MutualExclusion'
                   /\ (\A a \in Agents : InLock(a) => locked)'
                   /\ (locked /\ ~ freed => \E a \in Agents : InLock(a))'
<1>4. ASSUME NEW a \in Agents, NEW b \in Callers, Incref(a, b) PROVE Goal /\ ~ freed'
  BY <1>2, <1>3, <1>4 DEF Incref, MutualExclusion, InLock, word
<1>5. ASSUME NEW a \in Agents, NEW s \in Signals, JobSignal(a, s) PROVE Goal /\ ~ freed'
  BY <1>2, <1>3, <1>5 DEF JobSignal, Goto, MutualExclusion, InLock, word, TypeOK
<1>6. ASSUME NEW a \in Agents, JobDecref(a) PROVE Goal /\ ~ freed'
  BY <1>2, <1>3, <1>6 DEF JobDecref, Goto, MutualExclusion, InLock, word, TypeOK
<1>7. ASSUME NEW a \in Agents, Scheduler(a) PROVE Goal /\ (freed => Live = {})'
  <2> USE <1>2, <1>3 DEF MutualExclusion, InLock, word, TypeOK, Goto
  <2>1. CASE SendCheck(a)
    BY <2>1 DEF SendCheck
  <2>2. CASE SendLock(a)
    BY <2>2 DEF SendLock
  <2>3. CASE SendOr(a)
    BY <2>3 DEF SendOr
  <2>4. CASE Relock(a)
    BY <2>4 DEF Relock
  <2>5. CASE DecrefCheck(a)
    BY <2>5 DEF DecrefCheck
  <2>6. CASE DecrefSub(a)
    BY <2>6 DEF DecrefSub, Give
  <2>7. CASE DecrefReclaim(a)
    BY <2>7 DEF DecrefReclaim
  <2>8. CASE Unlock(a)
    BY <2>8 DEF Unlock
  <2>9. CASE Release(a)
    BY SMT, <2>9 DEF Release
  <2>10. CASE UDecrefCheck(a)
    BY <2>10 DEF UDecrefCheck
  <2>11. CASE UDecrefSub(a)
    BY ZenonT(60), <2>11 DEF UDecrefSub, Give
  <2>12. CASE UDecrefReclaim(a)
    BY <2>12 DEF UDecrefReclaim
  <2>13. CASE UDecrefLast(a)
    <3>1. ~ locked
      BY <2>13 DEF UDecrefLast, LifeInv, FinishInv, LastOwner
    <3> QED BY <2>13, <3>1 DEF UDecrefLast
  <2>14. CASE Take(a)
    BY <2>14 DEF Take
  <2>15. CASE Return(a)
    BY <2>15 DEF Return
  <2>16. CASE Destroy(a)
    <3>1. Live = {ref[a]} /\ \A b \in Agents : b # a => pc[b] = "idle"
      BY <2>16, LastAlone DEF Destroy
    <3>2. Live' = {}
      BY <2>16, <3>1 DEF Destroy, Give, Live
    <3> QED BY <2>16, <3>1, <3>2 DEF Destroy, Give
  <2>17. CASE Enqueue(a)
    BY SMT, <2>17 DEF Enqueue
  <2>18. CASE Push(a)
    BY <2>18 DEF Push, Give
  <2>19. CASE Pop(a)
    BY <2>19 DEF Pop
  <2>20. CASE ProcessRead(a)
    BY <2>20 DEF ProcessRead
  <2>21. CASE ProcessLock(a)
    BY <2>21 DEF ProcessLock
  <2>22. CASE ProcessClear(a)
    BY <2>22 DEF ProcessClear
  <2> QED BY <1>7, <2>1, <2>2, <2>3, <2>4, <2>5, <2>6, <2>7, <2>8, <2>9, <2>10, <2>11,
     <2>12, <2>13, <2>14, <2>15, <2>16, <2>17, <2>18, <2>19, <2>20, <2>21, <2>22 DEF Scheduler
<1>8. Goal /\ (freed => Live = {})'
  BY <1>4, <1>5, <1>6, <1>7 DEF Next
<1> QED BY <1>8 DEF LockHeld

-----------------------------------------------------------------------------
(***************************************************************************)
(* Preservation of the last owner's knowledge.                             *)
(***************************************************************************)
\* What a step of agent a inside the scheduler has to establish for a itself.
OwnFinish(a) ==
    /\ FINISH \in allowed'
    /\ LastOwner(a)' => Live = {ref[a]} /\ ~ locked' /\ FINISH \notin pend'
    /\ pc'[a] = "sendOr" => sig'[a] # FINISH
    /\ pc'[a] = "take" /\ sig'[a] = FINISH => FINISH \in pend'
    /\ pc'[a] = "exec" /\ sig'[a] = FINISH => Live = {ref[a]} /\ FINISH \notin pend'
    /\ FINISH \in pend' =>
         /\ Live = {ref[a]}
         /\ pc'[a] \in {"unlock", "take", "enqueue", "push", "proc", "procLock"}
         /\ pc'[a] \in {"take", "enqueue", "push"} => sig'[a] = FINISH

\* A step inside a call preserves the last owner's knowledge if it does so for
\* the agent that takes it: while it is inside, nobody else is a last owner.
LEMMA InsideFinish ==
    ASSUME LifeInv, NEW a \in Agents, Inside(a), OwnFinish(a),
           \A b \in Agents : b # a => sig'[b] = sig[b]
    PROVE  FinishInv'
<1>1. \A b \in Agents : b # a => ~ LastOwner(b) /\ ~ (pc[b] = "exec" /\ sig[b] = FINISH)
  <2>1. ASSUME NEW b \in Agents, b # a, LastOwner(b) PROVE FALSE
    <3>1. Live = {ref[b]} /\ pc[b] # "idle"
      BY <2>1 DEF LifeInv, FinishInv, LastOwner
    <3> QED BY <2>1, <3>1, SoleOwner DEF Inside
  <2>2. ASSUME NEW b \in Agents, b # a, pc[b] = "exec", sig[b] = FINISH PROVE FALSE
    BY <2>2, LastAlone DEF Inside, LastOwner
  <2> QED BY <2>1, <2>2
<1>2. pc \in [Agents -> Labels] /\ pc' \in [Agents -> Labels] /\ \A b \in Agents : b # a => pc'[b] = pc[b]
  BY DEF Inside, Goto, LifeInv, TypeOK
<1>6. \A b \in Agents : b # a => ~ (pc[b] = "take" /\ sig[b] = FINISH)
  <2> SUFFICES ASSUME NEW b \in Agents, b # a, pc[b] = "take", sig[b] = FINISH PROVE FALSE
    OBVIOUS
  <2>1. Live = {ref[b]}
    BY FinishAlone DEF LifeInv, FinishInv
  <2> QED BY <2>1, SoleOwner DEF Inside
<1>3. Live' = Live /\ ref' = ref /\ owner' = owner
  BY DEF Inside, Live
<1>4. \A b \in Agents :
        /\ LastOwner(b)' => Live' = {ref'[b]} /\ ~ locked' /\ FINISH \notin pend'
        /\ pc'[b] = "sendOr" => sig'[b] # FINISH
        /\ pc'[b] = "take" /\ sig'[b] = FINISH => FINISH \in pend'
        /\ pc'[b] = "exec" /\ sig'[b] = FINISH => Live' = {ref'[b]} /\ FINISH \notin pend'
  <2> SUFFICES ASSUME NEW b \in Agents
               PROVE  /\ LastOwner(b)' => Live' = {ref'[b]} /\ ~ locked' /\ FINISH \notin pend'
                      /\ pc'[b] = "sendOr" => sig'[b] # FINISH
                      /\ pc'[b] = "take" /\ sig'[b] = FINISH => FINISH \in pend'
                      /\ pc'[b] = "exec" /\ sig'[b] = FINISH => Live' = {ref'[b]} /\ FINISH \notin pend'
    OBVIOUS
  <2>1. CASE b = a
    BY <1>3, <2>1 DEF OwnFinish
  <2>2. CASE b # a
    BY <1>1, <1>2, <1>6, <2>2 DEF LastOwner, LifeInv, FinishInv
  <2> QED BY <2>1, <2>2
<1>5. FinishPending'
  <2> SUFFICES ASSUME FINISH \in pend' PROVE FinishPending'
    BY DEF FinishPending
  <2>1. Live = {ref[a]} /\ ref[a] \in Refs /\ owner[ref[a]] = a
    BY DEF OwnFinish, Inside, LifeInv, OwnsRef
  <2>2. \A b \in Agents : b # a => pc'[b] = "idle"
    BY <1>2, <2>1, SoleOwner DEF Inside
  <2> QED BY <1>3, <2>1, <2>2 DEF OwnFinish, FinishPending
<1> QED BY <1>4, <1>5 DEF FinishInv, OwnFinish

\* The calls' inner steps.
LEMMA InsideOwnFinish ==
    ASSUME LifeInv, NEW a \in Agents, Scheduler(a), Inside(a)
    PROVE  OwnFinish(a) /\ \A b \in Agents : b # a => sig'[b] = sig[b]
<1>0. /\ TypeOK /\ OwnsRef /\ FINISH \in allowed
      /\ InLock(a) => locked
      /\ LastOwner(a) => Live = {ref[a]} /\ ~ locked /\ FINISH \notin pend
      /\ pc[a] = "sendOr" => sig[a] # FINISH
      /\ pc[a] = "take" /\ sig[a] = FINISH => FINISH \in pend
      /\ pc[a] = "exec" /\ sig[a] = FINISH => Live = {ref[a]} /\ FINISH \notin pend
  BY DEF LifeInv, LockHeld, FinishInv
<1>00. FINISH \in pend =>
        /\ Live = {ref[a]}
        /\ ~ InLock(a) => ~ locked
        /\ pc[a] \in {"unlock", "take", "enqueue", "push", "proc", "procLock"}
        /\ pc[a] \in {"take", "enqueue", "push"} => sig[a] = FINISH
  BY FinishAlone, SoleOwner DEF Inside, LifeInv, FinishInv, FinishPending
<1> USE <1>0, <1>00 DEF OwnFinish, LastOwner, InLock, Goto, TypeOK, word
<1>1. CASE SendCheck(a)
  BY <1>1 DEF SendCheck
<1>2. CASE SendLock(a)
  BY <1>2 DEF SendLock
<1>3. CASE SendOr(a)
  BY <1>3 DEF SendOr
<1>4. CASE Relock(a)
  BY <1>4 DEF Relock
<1>5. CASE DecrefCheck(a)
  <2>1. refcnt < 2 => Live = {ref[a]}
    BY <1>5, CountFacts DEF DecrefCheck
  <2>2. Live = {ref[a]} => ~ locked
    BY <1>5, SoleOwner DEF DecrefCheck, Inside
  <2> QED BY SMT, <1>5, <2>1, <2>2 DEF DecrefCheck
<1>6. CASE DecrefReclaim(a)
  BY <1>6 DEF DecrefReclaim
<1>7. CASE Unlock(a)
  <2>1. FINISH \in pend => sig'[a] = FINISH /\ pc'[a] \in {"take", "enqueue"}
    <3> SUFFICES ASSUME FINISH \in pend
                 PROVE  sig'[a] = FINISH /\ pc'[a] \in {"take", "enqueue"}
      OBVIOUS
    <3>1. FINISH \in Todo
      BY DEF Todo
    <3>2. PICK s \in Todo : /\ \A t \in Todo : t <= s
                            /\ sig' = [sig EXCEPT ![a] = s]
                            /\ Goto(a, IF CanRun(a, s) THEN "take" ELSE "enqueue")
      BY <1>7, <3>1 DEF Unlock
    <3>3. s = FINISH
      BY SMT, <3>1, <3>2, SignalsAssumption DEF Todo, FINISH
    <3> QED BY <3>2, <3>3
  <2>2. pc'[a] \in {"release", "take", "enqueue"} /\ \A b \in Agents : b # a => sig'[b] = sig[b]
    BY <1>7 DEF Unlock
  <2>3. UNCHANGED <<pend, locked, allowed>>
    BY <1>7 DEF Unlock
  <2>4. pc'[a] = "take" => sig'[a] \in pend
    BY <1>7 DEF Unlock, Todo
  <2> QED BY <2>1, <2>2, <2>3, <2>4
<1>8. CASE Release(a)
  BY <1>8 DEF Release
<1>9. CASE UDecrefCheck(a)
  <2>1. refcnt < 2 => Live = {ref[a]}
    BY <1>9, CountFacts DEF UDecrefCheck
  <2>2. Live = {ref[a]} => ~ locked
    BY <1>9, SoleOwner DEF UDecrefCheck, Inside
  <2> QED BY SMT, <1>9, <2>1, <2>2 DEF UDecrefCheck
<1>10. CASE UDecrefReclaim(a)
  BY <1>10 DEF UDecrefReclaim
<1>11. CASE UDecrefLast(a)
  <2>1. Live = {ref[a]} /\ pc' = [pc EXCEPT ![a] = "unlock"] /\ UNCHANGED <<allowed, sig>>
    BY <1>11 DEF UDecrefLast
  <2>2. pc'[a] = "unlock"
    BY <2>1
  <2> QED BY <2>1, <2>2
<1>12. CASE Take(a)
  BY <1>12 DEF Take
<1>13. CASE Return(a)
  <2>1. FINISH \notin pend' /\ FINISH \in allowed'
    BY <1>13, SignalsAssumption DEF Return
  <2> QED BY <1>13, <2>1 DEF Return
<1>14. CASE Enqueue(a)
  <2>1. FINISH \in pend => ReqClass(sig[a]) \notin queued
    <3> SUFFICES ASSUME FINISH \in pend, ReqClass(sig[a]) \in queued PROVE FALSE
      OBVIOUS
    <3>1. \A b \in Agents : b # a => pc[b] = "idle"
      BY <1>14, SoleOwner DEF Enqueue
    <3>2. PICK r \in Refs : owner[r] = QueueOf[ReqClass(sig[a])]
      BY <1>14, <3>1 DEF Enqueue, LifeInv, QueuedCovered, Covered
    <3>3. QueueOf[ReqClass(sig[a])] \in Queues
      BY ReqClassType, AgentsAssumption
    <3>4. r \in Live /\ r # ref[a]
      BY SMT, <1>14, <3>2, <3>3, AgentsAssumption DEF Enqueue, Live, OwnsRef
    <3> QED BY <3>4
  <2> QED BY <1>14, <2>1 DEF Enqueue
<1>15. CASE ProcessRead(a)
  BY <1>15 DEF ProcessRead
<1>16. CASE ProcessLock(a)
  BY <1>16 DEF ProcessLock
<1>17. CASE ProcessClear(a)
  BY <1>17 DEF ProcessClear
<1>18. CASE DecrefSub(a)
  <2>1. ~ Give(a, NoOne)
    BY SMT, <1>18, AgentsAssumption DEF DecrefSub, Inside, Give, OwnsRef
  <2>2. refcnt = 1 /\ pc' = [pc EXCEPT ![a] = "reclaim"]
    BY <1>18, <2>1 DEF DecrefSub
  <2>3. Live = {ref[a]}
    BY SMT, <1>18, <2>2, CountFacts DEF DecrefSub
  <2>4. ~ locked
    BY <1>18, <2>3, SoleOwner DEF DecrefSub, Inside
  <2> QED BY <1>18, <2>2, <2>3, <2>4 DEF DecrefSub
<1>19. CASE UDecrefSub(a)
  <2>1. ~ Give(a, NoOne)
    BY SMT, <1>19, AgentsAssumption DEF UDecrefSub, Inside, Give, OwnsRef
  <2>2. refcnt = 1 /\ pc' = [pc EXCEPT ![a] = "ureclaim"]
    BY <1>19, <2>1 DEF UDecrefSub
  <2>3. Live = {ref[a]}
    BY SMT, <1>19, <2>2, CountFacts DEF UDecrefSub
  <2>4. ~ locked
    BY <1>19, <2>3, SoleOwner DEF UDecrefSub, Inside
  <2> QED BY <1>19, <2>2, <2>3, <2>4 DEF UDecrefSub
<1>20. ~ Push(a) /\ ~ Destroy(a) /\ ~ Pop(a)
  BY SMT, AgentsAssumption DEF Push, Destroy, Pop, Inside, Give, OwnsRef
<1> QED BY <1>1, <1>2, <1>3, <1>4, <1>5, <1>6, <1>7, <1>8, <1>9, <1>10, <1>11, <1>12,
           <1>13, <1>14, <1>15, <1>16, <1>17, <1>18, <1>19, <1>20 DEF Scheduler

\* An agent that holds a reference and is not inside the scheduler, or runs a
\* handler other than JS_FINISH's, excludes any last owner and a pending
\* JS_FINISH.
LEMMA OtherHolder ==
    ASSUME LifeInv, NEW a \in Agents, Held(a) # {},
           pc[a] = "idle" \/ (pc[a] = "exec" /\ sig[a] # FINISH)
    PROVE  /\ FINISH \notin pend
           /\ \A b \in Agents : ~ LastOwner(b) /\ ~ (pc[b] = "exec" /\ sig[b] = FINISH)
<1>1. PICK r \in Refs : owner[r] = a
  BY DEF Held
<1>2. r \in Live
  BY <1>1, AgentsAssumption DEF Live
<1>3. FINISH \notin pend
  BY <1>1, <1>2 DEF LifeInv, FinishInv, FinishPending
<1>4. ASSUME NEW b \in Agents, LastOwner(b) PROVE FALSE
  <2>1. Live = {ref[b]} /\ owner[ref[b]] = b
    BY <1>4 DEF LifeInv, FinishInv, LastOwner, OwnsRef
  <2> QED BY <1>1, <1>2, <1>4, <2>1 DEF LastOwner
<1>5. ASSUME NEW b \in Agents, pc[b] = "exec", sig[b] = FINISH PROVE FALSE
  <2>1. Live = {ref[b]} /\ owner[ref[b]] = b
    BY <1>5 DEF LifeInv, FinishInv, OwnsRef
  <2> QED BY <1>1, <1>2, <1>5, <2>1
<1> QED BY <1>3, <1>4, <1>5

\* The last owner's knowledge is preserved by every step.
LEMMA FinishStep ==
    ASSUME LifeInv, [Next]_vars
    PROVE  FinishInv'
<1>1. CASE UNCHANGED vars
  BY <1>1 DEF vars, LifeInv, FinishInv, FinishPending, LastOwner, Live
<1>2. ASSUME NEW a \in Agents, NEW b \in Callers, Incref(a, b) PROVE FinishInv'
  <2>1. /\ FINISH \notin pend
        /\ \A x \in Agents : ~ LastOwner(x) /\ ~ (pc[x] = "exec" /\ sig[x] = FINISH)
    <3>1. Held(a) # {} /\ (pc[a] = "idle" \/ (pc[a] = "exec" /\ sig[a] # FINISH))
      BY <1>2 DEF Incref
    <3> QED BY <3>1, OtherHolder
  <2>2. UNCHANGED <<pend, locked, queued, allowed, pc, sig>>
    BY <1>2 DEF Incref, word
  <2> QED BY <2>1, <2>2 DEF LifeInv, FinishInv, FinishPending, LastOwner
<1>3. ASSUME NEW a \in Agents, NEW s \in Signals, JobSignal(a, s) PROVE FinishInv'
  <2>1. /\ FINISH \notin pend
        /\ \A x \in Agents : ~ LastOwner(x) /\ ~ (pc[x] = "exec" /\ sig[x] = FINISH)
    <3>1. Held(a) # {} /\ (pc[a] = "idle" \/ (pc[a] = "exec" /\ sig[a] # FINISH))
      BY <1>3 DEF JobSignal
    <3> QED BY <3>1, OtherHolder
  <2>2. /\ UNCHANGED <<pend, locked, queued, allowed>>
        /\ pc' = [pc EXCEPT ![a] = "send"]
        /\ sig' = [sig EXCEPT ![a] = s]
        /\ s # FINISH
    BY <1>3 DEF JobSignal, word, Goto
  <2> QED BY <2>1, <2>2 DEF LifeInv, TypeOK, FinishInv, FinishPending, LastOwner
<1>4. ASSUME NEW a \in Agents, JobDecref(a) PROVE FinishInv'
  <2>1. /\ FINISH \notin pend
        /\ \A x \in Agents : ~ LastOwner(x) /\ ~ (pc[x] = "exec" /\ sig[x] = FINISH)
    <3>1. Held(a) # {} /\ (pc[a] = "idle" \/ (pc[a] = "exec" /\ sig[a] # FINISH))
      BY <1>4 DEF JobDecref
    <3> QED BY <3>1, OtherHolder
  <2>2. /\ UNCHANGED <<pend, locked, queued, allowed, sig>>
        /\ pc' = [pc EXCEPT ![a] = "decref"]
    BY <1>4 DEF JobDecref, word, Goto
  <2> QED BY <2>1, <2>2 DEF LifeInv, TypeOK, FinishInv, FinishPending, LastOwner
<1>5. ASSUME NEW a \in Agents, Scheduler(a) PROVE FinishInv'
  <2>1. CASE Inside(a)
    BY <1>5, <2>1, InsideOwnFinish, InsideFinish
  <2>2. ASSUME pc[a] # "idle", NEW x \in Queues \cup {NoOne}, Give(a, x) PROVE FinishInv'
    <3>1. \A b \in Agents : b # a =>
             /\ ~ LastOwner(b)
             /\ ~ (pc[b] = "exec" /\ sig[b] = FINISH)
             /\ ~ (pc[b] = "take" /\ sig[b] = FINISH)
      <4>1. ASSUME NEW b \in Agents, b # a, pc[b] # "idle", Live = {ref[b]} PROVE FALSE
        BY <2>2, <4>1, SoleOwner
      <4>2. ASSUME NEW b \in Agents, pc[b] = "take", sig[b] = FINISH PROVE Live = {ref[b]}
        BY <4>2, FinishAlone DEF LifeInv, FinishInv
      <4> QED BY <4>1, <4>2 DEF LifeInv, FinishInv, LastOwner
    <3>2. pc' = [pc EXCEPT ![a] = "idle"] /\ ref' = [ref EXCEPT ![a] = NoOne]
          /\ owner' = [owner EXCEPT ![ref[a]] = x] /\ TypeOK
      BY <2>2 DEF Give, Goto, LifeInv
    <3>3. ~ Pop(a) /\ (Push(a) \/ DecrefSub(a) \/ UDecrefSub(a) \/ Destroy(a))
      <4>1. ref'[a] # ref[a]
        BY <2>2, <3>2, AgentsAssumption DEF LifeInv, OwnsRef, TypeOK
      <4>2. ref' # ref
        BY <4>1
      <4> QED BY <1>5, <2>2, <4>2 DEF Scheduler, SendCheck, SendLock, SendOr, Relock, DecrefCheck,
                DecrefReclaim, Unlock, Release, UDecrefCheck, UDecrefReclaim, UDecrefLast,
                Take, Return, Enqueue, ProcessRead, ProcessLock, ProcessClear, Pop
    <3>4. UNCHANGED <<pend, locked, allowed>> /\ \A b \in Agents : b # a => sig'[b] = sig[b]
      BY <3>2, <3>3 DEF Push, DecrefSub, UDecrefSub, Destroy, word, TypeOK
    <3>5. \A b \in Agents :
            /\ LastOwner(b)' => Live' = {ref'[b]} /\ ~ locked' /\ FINISH \notin pend'
            /\ pc'[b] = "sendOr" => sig'[b] # FINISH
            /\ pc'[b] = "take" /\ sig'[b] = FINISH => FINISH \in pend'
            /\ pc'[b] = "exec" /\ sig'[b] = FINISH => Live' = {ref'[b]} /\ FINISH \notin pend'
      BY <3>1, <3>2, <3>4 DEF LifeInv, FinishInv, LastOwner, TypeOK
    <3>6. FinishPending'
      <4> SUFFICES ASSUME FINISH \in pend PROVE FinishPending'
        BY <3>4 DEF FinishPending
      <4>1. Live = {ref[a]} /\ pc[a] = "push" /\ \A b \in Agents : b # a => pc[b] = "idle"
        BY <2>2, <3>3, FinishAlone, SoleOwner
           DEF DecrefSub, UDecrefSub, Destroy, Push, LifeInv, FinishInv, FinishPending
      <4>2. x \in Queues
        <5>1. owner' = [owner EXCEPT ![ref[a]] = QueueOf[ReqClass(sig[a])]]
          BY <3>3, <4>1 DEF Push, Give, DecrefSub, UDecrefSub, Destroy
        <5>2. ref[a] \in Refs
          BY <2>2 DEF LifeInv, OwnsRef
        <5>3. DOMAIN owner = Refs
          BY <3>2 DEF TypeOK
        <5>4. owner'[ref[a]] = x
          <6>1. owner' = [owner EXCEPT ![ref[a]] = x]
            BY <3>2
          <6> QED BY <6>1, <5>2, <5>3
        <5>5. owner'[ref[a]] = QueueOf[ReqClass(sig[a])]
          BY <5>1, <5>2, <5>3
        <5>6. sig[a] \in Signals
          BY <3>2 DEF TypeOK
        <5> QED BY <5>4, <5>5, <5>6, ReqClassType, AgentsAssumption
      <4>3. Live' = {ref[a]} /\ owner'[ref[a]] = x /\ ref[a] \in Refs
        BY <2>2, <3>2, <4>1, <4>2, AgentsAssumption DEF Live, TypeOK, LifeInv, OwnsRef
      <4>4. x \notin Agents
        BY <4>2, AgentsAssumption
      <4> QED BY <3>2, <4>1, <4>3, <4>4 DEF FinishPending, TypeOK
    <3> QED BY <3>4, <3>5, <3>6 DEF FinishInv, LifeInv
  <2>3. CASE Pop(a)
    <3>1. PICK r \in Refs : /\ owner[r] = Polls[a]
                            /\ owner' = [owner EXCEPT ![r] = a]
                            /\ ref' = [ref EXCEPT ![a] = r]
      BY <2>3 DEF Pop, Held
    <3>2. Polls[a] \in Queues /\ Polls[a] \notin Agents /\ Polls[a] # NoOne /\ a # NoOne
      BY <2>3, AgentsAssumption DEF Pop, Callers
    <3>3. r \in Live /\ Live' = Live
      BY <3>1, <3>2 DEF Live, LifeInv, TypeOK
    <3>4. \A b \in Agents : ~ LastOwner(b) /\ ~ (pc[b] = "exec" /\ sig[b] = FINISH)
      <4>1. ASSUME NEW b \in Agents, pc[b] # "idle", Live = {ref[b]} PROVE FALSE
        BY <3>1, <3>2, <3>3, <4>1 DEF LifeInv, OwnsRef
      <4> QED BY <4>1 DEF LifeInv, FinishInv, LastOwner
    <3>5. UNCHANGED <<pend, locked, allowed, sig>> /\ pc' = [pc EXCEPT ![a] = "proc"]
      BY <2>3 DEF Pop, word, Goto
    <3>6. FinishPending'
      BY <3>1, <3>3, <3>5 DEF LifeInv, TypeOK, FinishInv, FinishPending
    <3> QED BY <3>4, <3>5, <3>6 DEF LifeInv, TypeOK, FinishInv, LastOwner
  <2> QED BY <1>5, <2>1, <2>2, <2>3, StepKinds DEF LifeInv
<1> QED BY <1>1, <1>2, <1>3, <1>4, <1>5 DEF Next

-----------------------------------------------------------------------------
(***************************************************************************)
(* Preservation of the count.                                              *)
(***************************************************************************)
\* There are finitely many references.
LEMMA LiveFinite == IsFiniteSet(Live) /\ Cardinality(Live) \in Nat
  BY AgentsAssumption, FS_Subset, FS_CardinalityType DEF Live

\* Giving up a reference makes one fewer.
LEMMA LiveMinus ==
    ASSUME TypeOK, NEW r \in Refs, owner[r] # NoOne, owner' = [owner EXCEPT ![r] = NoOne]
    PROVE  Cardinality(Live') = Cardinality(Live) - 1
<1>1. r \in Live /\ Live' = Live \ {r}
  BY DEF Live, TypeOK
<1> QED BY <1>1, LiveFinite, FS_RemoveElement

\* Making a reference makes one more.
LEMMA LivePlus ==
    ASSUME TypeOK, NEW r \in Refs, NEW b \in Agents, owner[r] = NoOne, owner' = [owner EXCEPT ![r] = b]
    PROVE  Cardinality(Live') = Cardinality(Live) + 1
<1>1. b # NoOne
  BY AgentsAssumption
<1>2. r \notin Live /\ Live' = Live \cup {r}
  BY <1>1 DEF Live, TypeOK
<1> QED BY <1>2, LiveFinite, FS_AddElement

\* j_refcnt follows the references.
LEMMA RefCountStep ==
    ASSUME LifeInv, [Next]_vars
    PROVE  RefCount'
<1>1. CASE UNCHANGED vars
  BY <1>1 DEF vars, LifeInv, RefCount, Live
<1> SUFFICES ASSUME Next PROVE RefCount'
  BY <1>1
<1> DEFINE Zero == \E b \in Agents : pc[b] \in {"reclaim", "ureclaim"}
<1>2. refcnt = (IF Zero THEN 0 ELSE Cardinality(Live)) /\ TypeOK /\ ~ freed
  BY FreedStops DEF LifeInv, RefCount
<1> HIDE DEF Zero
<1>3. RefCount' <=> (~ freed' => refcnt' = IF Zero' THEN 0 ELSE Cardinality(Live'))
  BY DEF RefCount, Zero
<1>4. ASSUME NEW a \in Agents, NEW b \in Callers, Incref(a, b) PROVE RefCount'
  <2>1. PICK r \in Refs : owner[r] = NoOne /\ owner' = [owner EXCEPT ![r] = b]
    BY <1>4 DEF Incref
  <2>2. ~ Zero
    BY <1>4, OtherHolder DEF Zero, Incref, LastOwner
  <2>3. Zero' = Zero /\ refcnt' = refcnt + 1
    BY <1>4 DEF Zero, Incref
  <2>4. Cardinality(Live') = Cardinality(Live) + 1
    BY <1>2, <2>1, LivePlus DEF Callers
  <2> QED BY <1>2, <1>3, <2>2, <2>3, <2>4
<1>5. ASSUME NEW a \in Agents, NEW s \in Signals, JobSignal(a, s) PROVE RefCount'
  <2>1. (Zero' <=> Zero) /\ Live' = Live /\ refcnt' = refcnt
    BY <1>2, <1>5 DEF Zero, JobSignal, Goto, Live, TypeOK
  <2> QED BY <1>2, <1>3, <2>1
<1>6. ASSUME NEW a \in Agents, JobDecref(a) PROVE RefCount'
  <2>1. (Zero' <=> Zero) /\ Live' = Live /\ refcnt' = refcnt
    BY <1>2, <1>6 DEF Zero, JobDecref, Goto, Live, TypeOK
  <2> QED BY <1>2, <1>3, <2>1
<1>7. ASSUME NEW a \in Agents, DecrefSub(a) \/ UDecrefSub(a) PROVE RefCount'
  <2>1. pc[a] \in {"dec", "udec"} /\ refcnt' = refcnt - 1
    BY <1>7 DEF DecrefSub, UDecrefSub
  <2>2. ~ Zero /\ refcnt = Cardinality(Live) /\ ref[a] \in Refs /\ owner[ref[a]] # NoOne
    <3>1. ASSUME NEW b \in Agents, pc[b] \in {"reclaim", "ureclaim"} PROVE FALSE
      BY <2>1, <3>1, LastAlone DEF LastOwner
    <3>2. owner[ref[a]] = a /\ ref[a] \in Refs
      BY <2>1 DEF LifeInv, OwnsRef
    <3> QED BY <1>2, <3>1, <3>2, AgentsAssumption DEF Zero
  <2>3. CASE refcnt # 1
    <3>1. owner' = [owner EXCEPT ![ref[a]] = NoOne] /\ ~ Zero'
      BY <1>2, <1>7, <2>2, <2>3 DEF DecrefSub, UDecrefSub, Give, Goto, Zero, TypeOK
    <3>2. Cardinality(Live') = Cardinality(Live) - 1
      BY <1>2, <2>2, <3>1, LiveMinus
    <3> QED BY <1>3, <2>1, <2>2, <3>1, <3>2
  <2>4. CASE refcnt = 1
    <3>1. Zero'
      BY <1>2, <1>7, <2>4 DEF DecrefSub, UDecrefSub, Goto, Zero, TypeOK
    <3> QED BY SMT, <1>3, <2>1, <2>4, <3>1
  <2> QED BY <2>3, <2>4
<1>8. ASSUME NEW a \in Agents, DecrefReclaim(a) \/ UDecrefReclaim(a) PROVE RefCount'
  <2>1. LastOwner(a) /\ refcnt' = 1 /\ UNCHANGED owner
    BY <1>8 DEF DecrefReclaim, UDecrefReclaim, LastOwner
  <2>2. Live = {ref[a]} /\ \A b \in Agents : b # a => pc[b] = "idle"
    BY <2>1, LastAlone
  <2>3. Live' = Live /\ ~ Zero'
    BY <1>2, <1>8, <2>2 DEF DecrefReclaim, UDecrefReclaim, Goto, Zero, Live, TypeOK
  <2>4. Cardinality(Live) = 1
    BY <2>2, FS_Singleton
  <2> QED BY <1>3, <2>1, <2>3, <2>4
<1>9. ASSUME NEW a \in Agents, Destroy(a) PROVE RefCount'
  BY <1>9 DEF Destroy, RefCount
<1>10. ASSUME NEW a \in Agents, Push(a) \/ Pop(a) PROVE RefCount'
  <2>1. Zero' <=> Zero
    BY <1>2, <1>10 DEF Push, Pop, Give, Goto, Zero, TypeOK
  <2>2. Live' = Live
    <3>1. CASE Push(a)
      <4>1. owner[ref[a]] = a /\ ref[a] \in Refs /\ a # NoOne
        BY <3>1, AgentsAssumption DEF Push, LifeInv, OwnsRef
      <4>2. QueueOf[ReqClass(sig[a])] # NoOne
        BY SMT, <1>2, ReqClassType, AgentsAssumption DEF TypeOK
      <4> QED BY <1>2, <3>1, <4>1, <4>2 DEF Push, Give, Live, TypeOK
    <3>2. CASE Pop(a)
      <4>1. PICK r \in Refs : owner[r] = Polls[a] /\ owner' = [owner EXCEPT ![r] = a]
        BY <3>2 DEF Pop, Held
      <4>2. Polls[a] # NoOne /\ a # NoOne
        BY <3>2, AgentsAssumption DEF Pop, Callers
      <4> QED BY <1>2, <4>1, <4>2 DEF Live, TypeOK
    <3> QED BY <1>10, <3>1, <3>2
  <2>3. refcnt' = refcnt
    BY <1>10 DEF Push, Pop
  <2> QED BY <1>2, <1>3, <2>1, <2>2, <2>3
<1>11. ASSUME NEW a \in Agents, Scheduler(a), refcnt' = refcnt, owner' = owner,
              pc[a] \notin {"reclaim", "ureclaim"}, pc'[a] \notin {"reclaim", "ureclaim"},
              \A b \in Agents : b # a => pc'[b] = pc[b]
       PROVE  RefCount'
  <2>1. (Zero' <=> Zero) /\ Live' = Live
    BY <1>11 DEF Zero, Live
  <2> QED BY <1>2, <1>3, <1>11, <2>1
<1>12. ASSUME NEW a \in Agents, Scheduler(a) PROVE RefCount'
  <2> USE <1>2, <1>11, <1>12 DEF Goto, TypeOK
  <2>1. CASE SendCheck(a)
    BY <2>1 DEF SendCheck
  <2>2. CASE SendLock(a)
    BY <2>2 DEF SendLock
  <2>3. CASE SendOr(a) \/ Relock(a)
    BY <2>3 DEF SendOr, Relock
  <2>4. CASE DecrefCheck(a) \/ UDecrefCheck(a)
    BY <2>4 DEF DecrefCheck, UDecrefCheck
  <2>5. CASE Unlock(a)
    BY <2>5 DEF Unlock
  <2>6. CASE Release(a)
    BY <2>6 DEF Release
  <2>7. CASE UDecrefLast(a) \/ Take(a) \/ Return(a)
    BY <2>7 DEF UDecrefLast, Take, Return
  <2>8. CASE Enqueue(a)
    BY <2>8 DEF Enqueue
  <2>9. CASE ProcessRead(a) \/ ProcessClear(a)
    BY <2>9 DEF ProcessRead, ProcessClear
  <2>10. CASE ProcessLock(a)
    BY <2>10 DEF ProcessLock
  <2> QED BY <1>7, <1>8, <1>9, <1>10, <1>12, <2>1, <2>2, <2>3, <2>4, <2>5, <2>6, <2>7,
             <2>8, <2>9, <2>10 DEF Scheduler
<1> QED BY <1>4, <1>5, <1>6, <1>12 DEF Next
=============================================================================
