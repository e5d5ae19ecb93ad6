----------------------------- MODULE MsgBuffers -----------------------------
(***************************************************************************)
(* The allocator of message buffers (net-msg-buffers.c), for one size of   *)
(* buffer: chunks in the list of their head, each with a lock in its magic *)
(* word, a tree of counts of free buffers, and a queue to which a thread   *)
(* that finds the chunk locked gives a buffer back.  Whoever unlocks the   *)
(* chunk has to empty the queue.  A chunk once made stays: nothing calls   *)
(* free_msg_buffers_chunk_internal.                                        *)
(***************************************************************************)
EXTENDS Integers, Sequences, FiniteSets, SequencesExt, FiniteSetsExt

CONSTANTS
    Threads,
    Chunks,             \* 1 .. n, in the order in which they are made
    two_power,          \* leaves of the tree of a chunk
    tot_buffers,        \* buffers of a chunk, at most two_power
    max_buffer_chunks,
    MaxHeld             \* bound: buffers that one thread holds

Nodes == 1 .. 2 * two_power - 1
Buffers == 0 .. tot_buffers - 1

VARIABLES
    magic,              \* per chunk: "none" before it is made, "used", "locked"
    free_cnt,           \* per chunk: the tree
    free_block_queue,   \* per chunk
    head,               \* the chunks linked to the head, the newest first
    head_lock,          \* the head's lock: a thread, or "free"
    allocated_buffer_chunks,
    ChunkSave,          \* per thread: the chunk it used last, or 0
    th                  \* per thread: its place, its local variables, and the buffers it holds

vars == <<magic, free_cnt, free_block_queue, head, head_lock, allocated_buffer_chunks, ChunkSave, th>>
shared == <<free_block_queue, head, head_lock, allocated_buffer_chunks, ChunkSave>>

RECURSIVE Counts(_, _)
Counts(leaves, i) == IF i >= two_power THEN IF i - two_power \in leaves THEN 1 ELSE 0
                     ELSE Counts(leaves, 2 * i) + Counts(leaves, 2 * i + 1)
\* The tree whose free buffers are these: the initial loop of alloc_new_msg_buffers_chunk.
Tree(leaves) == [i \in Nodes |-> Counts(leaves, i)]
FreeIn(f) == {x \in Buffers : f[two_power + x] = 1}

Idle(held) == [pc |-> "idle", c |-> 0, x |-> 0, ret |-> "idle", seen |-> {}, held |-> held]

Init ==
    /\ magic = [c \in Chunks |-> "none"]
    /\ free_cnt = [c \in Chunks |-> Tree({})]
    /\ free_block_queue = [c \in Chunks |-> <<>>]
    /\ head = <<>>
    /\ head_lock = "free"
    /\ allocated_buffer_chunks = 0
    /\ ChunkSave = [t \in Threads |-> 0]
    /\ th = [t \in Threads |-> Idle({})]

At(t, pc) == th[t].pc = pc
\* On to pc; nothing local outlives the call.
Go(t, pc) == th' = [th EXCEPT ![t] = IF pc = "idle" THEN Idle(@.held) ELSE [@ EXCEPT !.pc = pc]]
C(t) == th[t].c

-----------------------------------------------------------------------------
(***************************************************************************)
(* The tree of counts.                                                     *)
(***************************************************************************)
RECURSIVE AddUp(_, _, _)
AddUp(f, i, d) == IF i = 0 THEN f ELSE AddUp([f EXCEPT ![i] = @ + d], i \div 2, d)

\* The j-th free leaf below node i.
RECURSIVE Descend(_, _, _)
Descend(f, i, j) ==
    IF i >= two_power THEN i
    ELSE IF f[2 * i] <= j THEN Descend(f, 2 * i + 1, j - f[2 * i]) ELSE Descend(f, 2 * i, j)

\* The walk for a buffer next to x, as [l, r) shrinks: j is the nearest subtree to the right
\* that was passed by and has a free leaf, the root if there is none.
RECURSIVE Neighbor(_, _, _, _, _, _)
Neighbor(f, x, i, j, l, r) ==
    LET m == (l + r) \div 2
        a == 2 * i IN
    IF i >= two_power THEN i
    ELSE IF x < m THEN IF f[a] > 0 THEN Neighbor(f, x, a, IF f[a + 1] > 0 THEN a + 1 ELSE j, l, m)
                                   ELSE Neighbor(f, x, a + 1, j, m, r)
    ELSE IF f[a + 1] > 0 THEN Neighbor(f, x, a + 1, j, m, r)
    ELSE Descend(f, j, 0)

MutantNeighbor(f, x) == IF x < two_power - 1 THEN two_power + x + 1 ELSE Descend(f, 1, 0)
AllocNeighbor(f, x) ==
    IF x < two_power - 1 /\ f[two_power + x + 1] > 0 THEN two_power + x + 1
    ELSE Neighbor(f, x, 1, 1, 0, two_power)

free_std_msg_buffer(f, x) == AddUp(f, two_power + x, 1)

\* prepare_bs_inv and get_buffer_no in words of w bits: the inverse of the odd part of the
\* size of a buffer, and the number of the buffer that starts at an offset.
RECURSIVE InverseOf(_, _, _)
InverseOf(x, y, w) == IF x = 0 THEN y ELSE InverseOf((x * x) % 2^w, (y * (1 + x)) % 2^w, w)
bs_shift(size) == Max({i \in 0 .. 7 : size % 2^i = 0})
bs_inverse(size, w) == InverseOf((1 - size \div 2^bs_shift(size)) % 2^w, 1, w)
get_buffer_no(offset, size, w) == ((offset \div 2^bs_shift(size)) * bs_inverse(size, w)) % 2^w

-----------------------------------------------------------------------------
(***************************************************************************)
(* try_lock_chunk: the lock, then the queue is emptied; unlock_chunk: the  *)
(* queue is emptied, the lock released, and both again if a buffer has     *)
(* come in between.                                                        *)
(***************************************************************************)
lock(t, c, then) ==
    /\ magic' = [magic EXCEPT ![c] = "locked"]
    /\ th' = [th EXCEPT ![t].pc = then, ![t].c = c]

\* The chunk once its queue has been emptied, which the lock's holder does first.
Drained(c) == FoldLeft(free_std_msg_buffer, free_cnt[c], free_block_queue[c])
drain(c, f) ==
    /\ free_cnt' = [free_cnt EXCEPT ![c] = f]
    /\ free_block_queue' = [free_block_queue EXCEPT ![c] = <<>>]

unlock_drain(t) ==
    /\ At(t, "unlock")
    /\ drain(C(t), Drained(C(t)))
    /\ th' = [th EXCEPT ![t].pc = "release"]
    /\ UNCHANGED <<magic, head, head_lock, allocated_buffer_chunks, ChunkSave>>

unlock_release(t) ==
    /\ At(t, "release")
    /\ magic' = [magic EXCEPT ![C(t)] = "used"]
    /\ th' = [th EXCEPT ![t].pc = "recheck"]
    /\ UNCHANGED <<shared, free_cnt>>

\* Where a thread goes after unlock_chunk: on with the list, or back to its caller.
After(t) == th[t].ret

MutantNoRecheck(t) ==
    /\ At(t, "recheck")
    /\ Go(t, After(t))
    /\ UNCHANGED <<shared, magic, free_cnt>>

unlock_recheck(t) ==
    /\ At(t, "recheck")
    /\ \/ /\ free_block_queue[C(t)] # <<>> /\ magic[C(t)] = "used"
          /\ lock(t, C(t), "unlock")
       \/ /\ free_block_queue[C(t)] = <<>> \/ magic[C(t)] # "used"
          /\ Go(t, After(t))
          /\ UNCHANGED magic
    /\ UNCHANGED <<shared, free_cnt>>

-----------------------------------------------------------------------------
(***************************************************************************)
(* alloc_msg_buffer_internal.                                              *)
(***************************************************************************)
alloc_msg_buffer(t) ==
    LET hint == ChunkSave[t] IN
    /\ At(t, "idle")
    /\ Cardinality(th[t].held) < MaxHeld
    /\ th' = [th EXCEPT ![t].c = hint,
                        ![t].pc = CASE hint = 0 -> "new"
                                    [] hint # 0 /\ free_cnt[hint][1] > 0 -> "try"
                                    [] OTHER -> "head"]
    /\ UNCHANGED <<shared, magic, free_cnt>>

\* The hint is locked, unless another thread has it, or has had its last buffer meanwhile.
alloc_try(t) ==
    /\ At(t, "try")
    /\ \/ magic[C(t)] = "used" /\ lock(t, C(t), "hint")
       \/ magic[C(t)] # "used" /\ Go(t, "head") /\ UNCHANGED magic
    /\ UNCHANGED <<shared, free_cnt>>

alloc_hint(t) ==
    /\ At(t, "hint")
    /\ drain(C(t), Drained(C(t)))
    /\ th' = [th EXCEPT ![t].pc = IF Drained(C(t))[1] > 0 THEN "take" ELSE "unlock", ![t].ret = "head"]
    /\ UNCHANGED <<magic, head, head_lock, allocated_buffer_chunks, ChunkSave>>

lock_chunk_head(t) ==
    /\ At(t, "head")
    /\ head_lock = "free"
    /\ head_lock' = t
    /\ th' = [th EXCEPT ![t].pc = "scan", ![t].seen = {}]
    /\ UNCHANGED <<magic, free_cnt, free_block_queue, head, allocated_buffer_chunks, ChunkSave>>

\* The next chunk of the circular list, from the hint on.
Following(c) == LET i == CHOOSE k \in DOMAIN head : head[k] = c IN head[(i % Len(head)) + 1]

\* One turn of the loop over the chunks, under the head's lock.
alloc_scan(t) ==
    /\ At(t, "scan")
    /\ C(t) \notin th[t].seen
    /\ Go(t, IF free_cnt[C(t)][1] > 0 THEN "lock" ELSE "next")
    /\ UNCHANGED <<shared, magic, free_cnt>>

alloc_lock(t) ==
    /\ At(t, "lock")
    /\ \/ magic[C(t)] = "used" /\ lock(t, C(t), "found")
       \/ magic[C(t)] # "used" /\ Go(t, "next") /\ UNCHANGED magic
    /\ UNCHANGED <<shared, free_cnt>>

alloc_found(t) ==
    /\ At(t, "found")
    /\ drain(C(t), Drained(C(t)))
    /\ \/ /\ Drained(C(t))[1] > 0
          /\ head_lock' = "free"
          /\ th' = [th EXCEPT ![t].pc = "take", ![t].seen = {}]
       \/ /\ Drained(C(t))[1] = 0
          /\ th' = [th EXCEPT ![t].pc = "unlock", ![t].ret = "next"]
          /\ UNCHANGED head_lock
    /\ UNCHANGED <<magic, head, allocated_buffer_chunks, ChunkSave>>

alloc_next(t) ==
    /\ At(t, "next")
    /\ th' = [th EXCEPT ![t].pc = "scan", ![t].c = Following(C(t)), ![t].seen = @ \cup {C(t)}]
    /\ UNCHANGED <<shared, magic, free_cnt>>

\* The loop has come round without a chunk.
alloc_none(t) ==
    /\ At(t, "scan")
    /\ C(t) \in th[t].seen
    /\ head_lock' = "free"
    /\ th' = [th EXCEPT ![t].pc = "new"]
    /\ UNCHANGED <<magic, free_cnt, free_block_queue, head, allocated_buffer_chunks, ChunkSave>>

\* alloc_new_msg_buffers_chunk: the limit is looked at first, and the chunk counted later.
new_limit(t) ==
    /\ At(t, "new")
    /\ Go(t, IF allocated_buffer_chunks >= max_buffer_chunks THEN "idle" ELSE "make")
    /\ UNCHANGED <<shared, magic, free_cnt>>

new_chunk(t) ==
    LET c == Len(head) + 1 IN
    /\ At(t, "make")
    /\ head_lock = "free"
    /\ magic' = [magic EXCEPT ![c] = "locked"]
    /\ free_cnt' = [free_cnt EXCEPT ![c] = Tree(Buffers)]
    /\ head' = <<c>> \o head
    /\ th' = [th EXCEPT ![t].pc = "count", ![t].c = c]
    /\ UNCHANGED <<free_block_queue, head_lock, allocated_buffer_chunks, ChunkSave>>

new_count(t) ==
    /\ At(t, "count")
    /\ allocated_buffer_chunks' = allocated_buffer_chunks + 1
    /\ th' = [th EXCEPT ![t].pc = "take", ![t].seen = {}]
    /\ UNCHANGED <<magic, free_cnt, free_block_queue, head, head_lock, ChunkSave>>

\* A buffer of the locked chunk: next to one that the thread holds, or any of the first 16.
Picks(t) ==
    LET f == free_cnt[C(t)] IN
    {AllocNeighbor(f, b[2]) : b \in {b \in th[t].held : b[1] = C(t)}}
    \cup {Descend(f, 1, j) : j \in 0 .. Min({f[1], 16}) - 1}

alloc_take(t) ==
    /\ At(t, "take")
    /\ ChunkSave' = [ChunkSave EXCEPT ![t] = C(t)]
    /\ \E i \in Picks(t) :
          /\ free_cnt' = [free_cnt EXCEPT ![C(t)] = AddUp(@, i, -1)]
          /\ th' = [th EXCEPT ![t].pc = "unlock", ![t].ret = "idle", ![t].held = @ \cup {<<C(t), i - two_power>>}]
    /\ UNCHANGED <<magic, free_block_queue, head, head_lock, allocated_buffer_chunks>>

-----------------------------------------------------------------------------
(***************************************************************************)
(* free_msg_buffer, of a buffer whose last reference is gone.              *)
(***************************************************************************)
free_msg_buffer(t, b) ==
    /\ At(t, "idle")
    /\ b \in th[t].held
    /\ LET gone == [th EXCEPT ![t].held = @ \ {b}, ![t].c = b[1], ![t].x = b[2]] IN
       \/ /\ magic[b[1]] = "used"
          /\ magic' = [magic EXCEPT ![b[1]] = "locked"]
          /\ th' = [gone EXCEPT ![t].pc = "free"]
       \/ /\ magic[b[1]] # "used"
          /\ th' = [gone EXCEPT ![t].pc = "push"]
          /\ UNCHANGED magic
    /\ UNCHANGED <<shared, free_cnt>>

free_locked(t) ==
    /\ At(t, "free")
    /\ drain(C(t), free_std_msg_buffer(Drained(C(t)), th[t].x))
    /\ th' = [th EXCEPT ![t].pc = "unlock", ![t].x = 0, ![t].ret = "idle"]
    /\ UNCHANGED <<magic, head, head_lock, allocated_buffer_chunks, ChunkSave>>

free_push(t) ==
    /\ At(t, "push")
    /\ free_block_queue' = [free_block_queue EXCEPT ![C(t)] = Append(@, th[t].x)]
    /\ th' = [th EXCEPT ![t].pc = "retry", ![t].x = 0, ![t].ret = "idle"]
    /\ UNCHANGED <<magic, free_cnt, head, head_lock, allocated_buffer_chunks, ChunkSave>>

free_retry(t) ==
    /\ At(t, "retry")
    /\ \/ magic[C(t)] = "used" /\ lock(t, C(t), "unlock")
       \/ magic[C(t)] # "used" /\ Go(t, "idle") /\ UNCHANGED magic
    /\ UNCHANGED <<shared, free_cnt>>

\* A message goes to another thread, and its buffer with it.
PassOn(t, u, b) ==
    /\ At(t, "idle")
    /\ b \in th[t].held
    /\ Cardinality(th[u].held) < MaxHeld
    /\ u # t
    /\ th' = [th EXCEPT ![t].held = @ \ {b}, ![u].held = @ \cup {b}]
    /\ UNCHANGED <<shared, magic, free_cnt>>

-----------------------------------------------------------------------------
Next ==
    \E t \in Threads :
        \/ unlock_drain(t) \/ unlock_release(t) \/ unlock_recheck(t)
        \/ alloc_msg_buffer(t) \/ alloc_try(t) \/ alloc_hint(t) \/ lock_chunk_head(t) \/ alloc_scan(t)
        \/ alloc_lock(t) \/ alloc_found(t) \/ alloc_next(t) \/ alloc_none(t) \/ new_limit(t) \/ new_chunk(t) \/ new_count(t) \/ alloc_take(t)
        \/ \E b \in th[t].held : free_msg_buffer(t, b)
        \/ \E b \in th[t].held, u \in Threads : PassOn(t, u, b)
        \/ free_locked(t) \/ free_push(t) \/ free_retry(t)

Spec == Init /\ [][Next]_vars

-----------------------------------------------------------------------------
Leaving(t) == th[t].pc \in {"push", "free"}
Places(c, x) ==
    Cardinality({t \in Threads : <<c, x>> \in th[t].held})
    + Cardinality({t \in Threads : Leaving(t) /\ C(t) = c /\ th[t].x = x})
    + Cardinality({i \in DOMAIN free_block_queue[c] : free_block_queue[c][i] = x})
    + free_cnt[c][two_power + x]

\* A buffer next to a held one is the first free one above it, or else the first free one.
NeighborSound(leaves, x) ==
    LET above == {y \in leaves : y > x} IN
    AllocNeighbor(Tree(leaves), x) - two_power = Min(IF above # {} THEN above ELSE leaves)

\* get_buffer_no multiplies by an inverse where it could divide, and gets the same number.
NumberSound(no, size, w) == get_buffer_no(no * size, size, w) = no

\* Every buffer is in one place: with one thread, in the queue of its chunk, or free in a tree
\* whose counts add up.  None is lost: once nobody is at work the queues are empty, although
\* a thread that finds the chunk locked leaves its buffer to others (unlock_chunk).
BuffersSound ==
    /\ \A c \in Chunks : magic[c] # "none" =>
          /\ \A x \in Buffers : Places(c, x) = 1
          /\ free_cnt[c] = Tree(FreeIn(free_cnt[c]))
    /\ (\A t \in Threads : At(t, "idle")) => \A c \in Chunks : free_block_queue[c] = <<>> /\ magic[c] # "locked"
    /\ allocated_buffer_chunks <= max_buffer_chunks + Cardinality(Threads) - 1
=============================================================================
