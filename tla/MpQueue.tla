------------------------------ MODULE MpQueue ------------------------------
(***************************************************************************)
(* The concurrent queue of mp-queue.c: a list of blocks, each a ring of    *)
(* nodes that are claimed by fetch-and-add, hazard pointers that delay the *)
(* reuse of a block, and the futex semaphore of mpq_push_w and mpq_pop_w.  *)
(* One action is one access to shared memory; the loop that inspects a     *)
(* node and replaces it by compare-and-swap is one action, because it      *)
(* starts again whenever the node has changed.                             *)
(*                                                                         *)
(* MqGarbageBlocks and MqPreparedBlocks, queues of the same kind, are sets.*)
(***************************************************************************)
EXTENDS Integers, Sequences, FiniteSets, SequencesExt

CONSTANTS
    Pushers, Poppers,
    Count,          \* per pusher: the values that it pushes
    Blocks,         \* the memory for blocks
    Null,
    mqb_size,       \* nodes in a block, a power of 2
    MaxIterations,  \* the 10 of mpq_block_push
    MaxPops         \* bound, per popper: its calls of mpq_pop, without the semaphore

VARIABLES
    mq_magic,       \* "sem": used with mpq_push_w and mpq_pop_w; "plain": with mpq_push and mpq_pop
    blk,            \* per block: struct mp_queue_block
    mq_head, mq_tail,
    hptr,           \* per thread: mqb_hazard_ptr[id][0]
    value, waiting, \* mq_sem
    th,             \* per thread: its place and its local variables
    popped          \* the values returned by mpq_pop_w, in the order of their compare-and-swap

vars == <<mq_magic, blk, mq_head, mq_tail, hptr, value, waiting, th, popped>>
queue == <<mq_magic, blk, mq_head, mq_tail>>
sem == <<value, waiting>>

Threads == Pushers \cup Poppers
Slots == 0 .. mqb_size - 1
Slot(i) == i % mqb_size

\* alloc_mpq_block: the block once it is prepared; its first value, if any, is in node 0.
alloc_mpq_block(first) ==
    [magic |-> "used", head |-> 0, tail |-> IF first = Null THEN 0 ELSE 1, closed |-> FALSE, next |-> Null,
     nodes |-> [i \in Slots |-> [idx |-> i, safe |-> TRUE, val |-> IF i = 0 THEN first ELSE Null]]]
Unallocated == [alloc_mpq_block(Null) EXCEPT !.magic = "free"]

Init ==
    LET b == CHOOSE x \in Blocks : TRUE IN
    /\ mq_magic \in {"plain", "sem"}
    /\ blk = [x \in Blocks |-> IF x = b THEN alloc_mpq_block(Null) ELSE Unallocated]
    /\ mq_head = b
    /\ mq_tail = b
    /\ hptr = [t \in Threads |-> Null]
    /\ value = 0
    /\ waiting = 0
    /\ th = [t \in Threads |-> [pc |-> CASE t \in Pushers -> "tail"
                                         [] t \in Poppers /\ mq_magic = "sem" -> "sem"
                                         [] OTHER -> "head", qb |-> Null, nqb |-> Null, i |-> 0,
                                seen |-> 0, iterations |-> 0, second |-> FALSE, n |-> 1]]
    /\ popped = <<>>

At(t, pc) == th[t].pc = pc
Go(t, pc) == th' = [th EXCEPT ![t].pc = pc]
QB(t) == blk[th[t].qb]
Node(t) == QB(t).nodes[Slot(th[t].i)]
is_hazard_ptr(x, me) == \E t \in Threads \ {me} : hptr[t] = x

-----------------------------------------------------------------------------
(***************************************************************************)
(* mpq_push.  Between the read of mq_tail and the second look at it the    *)
(* block may leave the queue.                                              *)
(***************************************************************************)
push_read(t) ==
    /\ At(t, "tail")
    /\ th[t].n <= Count[t]
    /\ th' = [th EXCEPT ![t].pc = "hazard", ![t].qb = mq_tail, ![t].iterations = 0]
    /\ UNCHANGED <<queue, hptr, sem, popped>>

push_hazard(t) ==
    /\ At(t, "hazard")
    /\ hptr' = [hptr EXCEPT ![t] = th[t].qb]
    /\ Go(t, "check")
    /\ UNCHANGED <<queue, sem, popped>>

push_check(t) ==
    /\ At(t, "check")
    /\ \/ mq_tail # th[t].qb /\ Go(t, "tail")
       \/ mq_tail = th[t].qb /\ Go(t, IF QB(t).next = Null THEN "take" ELSE "help")
    /\ UNCHANGED <<queue, hptr, sem, popped>>

push_help(t) ==
    /\ At(t, "help")
    /\ mq_tail' = IF mq_tail = th[t].qb THEN QB(t).next ELSE mq_tail
    /\ Go(t, "tail")
    /\ UNCHANGED <<mq_magic, blk, mq_head, hptr, sem, popped>>

\* mpq_block_push.
push_take(t) ==
    /\ At(t, "take")
    /\ blk' = [blk EXCEPT ![th[t].qb].tail = @ + 1]
    /\ th' = [th EXCEPT ![t].pc = IF QB(t).closed THEN "alloc" ELSE "look", ![t].i = QB(t).tail]
    /\ UNCHANGED <<mq_magic, mq_head, mq_tail, hptr, sem, popped>>

push_look(t) ==
    LET d == Node(t) IN
    /\ At(t, "look")
    /\ \/ /\ d.val = Null /\ d.idx <= th[t].i /\ (d.safe \/ QB(t).head <= th[t].i)
          /\ th' = [th EXCEPT ![t].pc = "cas", ![t].seen = d]
       \/ /\ d.val # Null \/ d.idx > th[t].i \/ (~d.safe /\ QB(t).head > th[t].i)
          /\ Go(t, "full")
    /\ UNCHANGED <<queue, hptr, sem, popped>>

push_cas(t) ==
    /\ At(t, "cas")
    /\ \/ /\ Node(t) = th[t].seen
          /\ blk' = [blk EXCEPT ![th[t].qb].nodes[Slot(th[t].i)] =
                        [idx |-> th[t].i, safe |-> TRUE, val |-> <<t, th[t].n>>]]
          /\ th' = [th EXCEPT ![t].pc = "post", ![t].seen = 0]
       \/ /\ Node(t) # th[t].seen
          /\ th' = [th EXCEPT ![t].pc = "full", ![t].seen = 0]
          /\ UNCHANGED blk
    /\ UNCHANGED <<mq_magic, mq_head, mq_tail, hptr, sem, popped>>

push_full(t) ==
    /\ At(t, "full")
    /\ th' = [th EXCEPT ![t].pc = IF th[t].i - QB(t).head >= mqb_size \/ th[t].iterations >= MaxIterations
                                  THEN "close" ELSE "take",
                        ![t].iterations = @ + 1]
    /\ UNCHANGED <<queue, hptr, sem, popped>>

push_close(t) ==
    /\ At(t, "close")
    /\ blk' = [blk EXCEPT ![th[t].qb].closed = TRUE]
    /\ Go(t, "alloc")
    /\ UNCHANGED <<mq_magic, mq_head, mq_tail, hptr, sem, popped>>

\* A garbage block that nobody points to, or a prepared one, or new memory.
Reusable(t, b) ==
    \/ blk[b].magic = "garbage" /\ ~is_hazard_ptr(b, t) /\ hptr[t] # b
    \/ blk[b].magic \in {"prepared", "free"}

push_alloc(t) ==
    /\ At(t, "alloc")
    /\ \E b \in Blocks :
          /\ Reusable(t, b)
          /\ blk' = [blk EXCEPT ![b] = alloc_mpq_block(<<t, th[t].n>>)]
          /\ th' = [th EXCEPT ![t].pc = "link", ![t].nqb = b]
    /\ UNCHANGED <<mq_magic, mq_head, mq_tail, hptr, sem, popped>>

push_link(t) ==
    /\ At(t, "link")
    /\ \/ /\ QB(t).next = Null
          /\ blk' = [blk EXCEPT ![th[t].qb].next = th[t].nqb]
          /\ Go(t, "swing")
       \/ /\ QB(t).next # Null
          /\ blk' = [blk EXCEPT ![th[t].nqb].magic = "prepared"]
          /\ th' = [th EXCEPT ![t].pc = "tail", ![t].nqb = Null]
    /\ UNCHANGED <<mq_magic, mq_head, mq_tail, hptr, sem, popped>>

push_swing(t) ==
    /\ At(t, "swing")
    /\ mq_tail' = IF mq_tail = th[t].qb THEN th[t].nqb ELSE mq_tail
    /\ th' = [th EXCEPT ![t].pc = "post", ![t].nqb = Null]
    /\ UNCHANGED <<mq_magic, blk, mq_head, hptr, sem, popped>>

\* The hazard pointer is cleared; mpq_push_w posts the semaphore (mp_sem_post).
mp_sem_post(t) ==
    /\ At(t, "post")
    /\ hptr' = [hptr EXCEPT ![t] = Null]
    /\ value' = IF mq_magic = "sem" THEN value + 1 ELSE value
    /\ th' = [th EXCEPT ![t].pc = "wake", ![t].qb = Null]
    /\ UNCHANGED <<queue, waiting, popped>>

Sleeping == {t \in Poppers : At(t, "asleep")}

\* FUTEX_WAKE of one thread, if the count says that some wait.
mp_sem_wake(t) ==
    LET done == [th EXCEPT ![t].pc = "tail", ![t].n = @ + 1] IN
    /\ At(t, "wake")
    /\ \/ /\ waiting > 0
          /\ \E u \in Sleeping : th' = [done EXCEPT ![u].pc = "awake"]
       \/ /\ waiting = 0 \/ Sleeping = {}
          /\ th' = done
    /\ UNCHANGED <<queue, hptr, sem, popped>>

-----------------------------------------------------------------------------
(***************************************************************************)
(* mpq_pop_w: mp_sem_wait, and then mpq_pop with the unit it has got.      *)
(***************************************************************************)
sem_read(t) ==
    /\ At(t, "sem")
    /\ th' = [th EXCEPT ![t].pc = IF value > 0 THEN "dec" ELSE "wait", ![t].seen = value]
    /\ UNCHANGED <<queue, hptr, sem, popped>>

sem_dec(t) ==
    /\ At(t, "dec")
    /\ value' = value - 1
    /\ th' = [th EXCEPT ![t].pc = IF value > 0 THEN "head" ELSE "undo", ![t].seen = 0]
    /\ UNCHANGED <<queue, hptr, waiting, popped>>

sem_undo(t) ==
    /\ At(t, "undo")
    /\ value' = value + 1
    /\ Go(t, "sem")
    /\ UNCHANGED <<queue, hptr, waiting, popped>>

MutantWaitLate(t) ==
    /\ At(t, "wait")
    /\ Go(t, "asleep")
    /\ waiting' = waiting + 1
    /\ UNCHANGED <<queue, hptr, value, popped>>

sem_wait(t) ==
    /\ At(t, "wait")
    /\ waiting' = waiting + 1
    /\ Go(t, "futex")
    /\ UNCHANGED <<queue, hptr, value, popped>>

futex_wait(t) ==
    /\ At(t, "futex")
    /\ th' = [th EXCEPT ![t].pc = IF value = th[t].seen THEN "asleep" ELSE "awake", ![t].seen = 0]
    /\ UNCHANGED <<queue, hptr, sem, popped>>

sem_awake(t) ==
    /\ At(t, "awake")
    /\ waiting' = waiting - 1
    /\ Go(t, "sem")
    /\ UNCHANGED <<queue, hptr, value, popped>>

pop_read(t) ==
    /\ At(t, "head")
    /\ mq_magic = "plain" => th[t].n <= MaxPops[t]
    /\ th' = [th EXCEPT ![t].pc = "phazard", ![t].qb = mq_head]
    /\ UNCHANGED <<queue, hptr, sem, popped>>

pop_hazard(t) ==
    /\ At(t, "phazard")
    /\ hptr' = [hptr EXCEPT ![t] = th[t].qb]
    /\ Go(t, "pcheck")
    /\ UNCHANGED <<queue, sem, popped>>

pop_check(t) ==
    /\ At(t, "pcheck")
    /\ th' = [th EXCEPT ![t].pc = IF mq_head = th[t].qb THEN "ptake" ELSE "head", ![t].second = FALSE]
    /\ UNCHANGED <<queue, hptr, sem, popped>>

\* mpq_block_pop.
pop_take(t) ==
    /\ At(t, "ptake")
    /\ blk' = [blk EXCEPT ![th[t].qb].head = @ + 1]
    /\ th' = [th EXCEPT ![t].pc = "inspect", ![t].i = QB(t).head]
    /\ UNCHANGED <<mq_magic, mq_head, mq_tail, hptr, sem, popped>>

SetNode(t, d) == blk' = [blk EXCEPT ![th[t].qb].nodes[Slot(th[t].i)] = d]

\* The four cases of the inner loop: the node is ahead; it holds the value of this turn; it
\* holds an earlier one, and loses its safe mark; it is empty, and is moved to the next turn.
pop_inspect(t) ==
    LET d == Node(t)
        h == th[t].i IN
    /\ At(t, "inspect")
    /\ \/ /\ d.idx > h
          /\ Go(t, "ptail")
          /\ UNCHANGED <<blk, popped>>
       \/ /\ d.idx = h /\ d.val # Null
          /\ SetNode(t, [d EXCEPT !.idx = @ + mqb_size, !.val = Null])
          /\ popped' = Append(popped, d.val)
          /\ Go(t, "pdone")
       \/ /\ d.idx < h /\ d.val # Null
          /\ SetNode(t, [d EXCEPT !.safe = FALSE])
          /\ Go(t, "ptail")
          /\ UNCHANGED popped
       \/ /\ d.idx <= h /\ d.val = Null
          /\ SetNode(t, [d EXCEPT !.idx = h + mqb_size])
          /\ Go(t, "ptail")
          /\ UNCHANGED popped
    /\ UNCHANGED <<mq_magic, mq_head, mq_tail, hptr, sem>>

pop_tail(t) ==
    /\ At(t, "ptail")
    /\ Go(t, IF QB(t).tail <= th[t].i + 1 THEN "fix" ELSE "ptake")
    /\ UNCHANGED <<queue, hptr, sem, popped>>

\* mpq_fix_state; a closed tail is, as an unsigned number, beyond every head.
pop_fix(t) ==
    LET behind == ~QB(t).closed /\ QB(t).head > QB(t).tail IN
    /\ At(t, "fix")
    /\ th' = [th EXCEPT ![t].pc = IF behind THEN "fixcas" ELSE "empty",
                        ![t].seen = IF behind THEN <<QB(t).tail, QB(t).head>> ELSE 0]
    /\ UNCHANGED <<queue, hptr, sem, popped>>

pop_fixcas(t) ==
    LET unmoved == ~QB(t).closed /\ QB(t).tail = th[t].seen[1] IN
    /\ At(t, "fixcas")
    /\ blk' = IF unmoved THEN [blk EXCEPT ![th[t].qb].tail = th[t].seen[2]] ELSE blk
    /\ th' = [th EXCEPT ![t].pc = IF unmoved THEN "empty" ELSE "fix", ![t].seen = 0]
    /\ UNCHANGED <<mq_magic, mq_head, mq_tail, hptr, sem, popped>>

\* The block was empty: with no next block the queue is; else the block is tried once more.
pop_empty(t) ==
    /\ At(t, "empty")
    /\ th' = [th EXCEPT ![t].pc = CASE th[t].second -> "retire"
                                    [] ~th[t].second /\ QB(t).next = Null -> "failed"
                                    [] OTHER -> "ptake",
                        ![t].second = TRUE]
    /\ UNCHANGED <<queue, hptr, sem, popped>>

\* mq_head moves on; whoever moves it disposes of the block.
pop_retire(t) ==
    /\ At(t, "retire")
    /\ mq_head' = IF mq_head = th[t].qb THEN QB(t).next ELSE mq_head
    /\ Go(t, IF mq_head = th[t].qb THEN "dispose" ELSE "head")
    /\ UNCHANGED <<mq_magic, blk, mq_tail, hptr, sem, popped>>


pop_dispose(t) ==
    /\ At(t, "dispose")
    /\ blk' = [blk EXCEPT ![th[t].qb] = IF is_hazard_ptr(th[t].qb, t) THEN [@ EXCEPT !.magic = "garbage"] ELSE Unallocated]
    /\ Go(t, "head")
    /\ UNCHANGED <<mq_magic, mq_head, mq_tail, hptr, sem, popped>>

pop_done(t) ==
    /\ At(t, "pdone") \/ (At(t, "failed") /\ mq_magic = "plain")
    /\ hptr' = [hptr EXCEPT ![t] = Null]
    /\ th' = [th EXCEPT ![t] = [@ EXCEPT !.pc = IF mq_magic = "sem" THEN "sem" ELSE "head", !.qb = Null, !.i = 0,
                                         !.second = FALSE, !.n = IF mq_magic = "plain" THEN @ + 1 ELSE @]]
    /\ UNCHANGED <<queue, sem, popped>>

-----------------------------------------------------------------------------
mpq_push_w(t) ==
    \/ push_read(t) \/ push_hazard(t) \/ push_check(t) \/ push_help(t) \/ push_take(t)
    \/ push_look(t) \/ push_cas(t) \/ push_full(t) \/ push_close(t)
    \/ push_alloc(t) \/ push_link(t) \/ push_swing(t)
    \/ mp_sem_post(t) \/ mp_sem_wake(t)

mpq_pop_w(t) ==
    \/ sem_read(t) \/ sem_dec(t) \/ sem_undo(t) \/ sem_wait(t) \/ futex_wait(t) \/ sem_awake(t)
    \/ pop_read(t) \/ pop_hazard(t) \/ pop_check(t)
    \/ pop_take(t) \/ pop_inspect(t) \/ pop_tail(t) \/ pop_fix(t) \/ pop_fixcas(t)
    \/ pop_empty(t) \/ pop_retire(t) \/ pop_dispose(t) \/ pop_done(t)

Next == (\E t \in Pushers : mpq_push_w(t)) \/ (\E t \in Poppers : mpq_pop_w(t))

Fairness == (\A t \in Pushers : WF_vars(mpq_push_w(t))) /\ (\A t \in Poppers : WF_vars(mpq_pop_w(t)))
Spec == Init /\ [][Next]_vars /\ Fairness

-----------------------------------------------------------------------------
Values == {<<t, n>> \in Pushers \X (1 .. 9) : n <= Count[t]}

\* Where a thread works on a block that it has seen at the head or the tail of the queue.
Inside == {"help", "take", "look", "cas", "full", "close", "link", "swing",
           "ptake", "inspect", "ptail", "fix", "fixcas", "empty", "retire"}


\* Every value that is pushed is popped: neither the queue nor the semaphore loses it.
AllPopped == mq_magic = "sem" => <>(Range(popped) = Values)
=============================================================================
