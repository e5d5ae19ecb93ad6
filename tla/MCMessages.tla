----------------------------- MODULE MCMessages -----------------------------
(***************************************************************************)
(* What threads hand each other, for TLC, one kind at a time: a behaviour  *)
(* is of the component that "part" names, and the variables of the others  *)
(* stay as they started.                                                   *)
(*   queue      the queue that carries jobs from thread to thread          *)
(*   messages   raw messages that share their parts                        *)
(*   buffers    the buffers under them                                     *)
(* The parts "number" and "neighbor" are algorithms that stand alone: each *)
(* of their inputs is an initial state, in "input".                        *)
(***************************************************************************)
EXTENDS Integers, Sequences

CONSTANTS Pushers, Poppers, QueueBlocks, Null, BufferThreads

VARIABLES
    part, input,
    mq_magic, blk, mq_head, mq_tail, hptr, value, waiting, th, popped,
    parts, buf, msg, op, content, steps,
    magic, free_cnt, free_block_queue, head, head_lock, allocated_buffer_chunks, ChunkSave, bth

queueVars == <<mq_magic, blk, mq_head, mq_tail, hptr, value, waiting, th, popped>>
messagesVars == <<parts, buf, msg, op, content, steps>>
buffersVars == <<magic, free_cnt, free_block_queue, head, head_lock, allocated_buffer_chunks, ChunkSave, bth>>

-----------------------------------------------------------------------------
\* One value from each pusher; without the semaphore one popper tries once.
Count == [p \in Pushers |-> 1]
MaxPops == [p \in Poppers |-> IF p = CHOOSE x \in Poppers : TRUE THEN 1 ELSE 0]
Mq == INSTANCE MpQueue WITH Blocks <- QueueBlocks, mqb_size <- 2, MaxIterations <- 0

\* Two messages that share parts, in five calls: cloned, split, joined, extended at both ends.
Rw == INSTANCE Rwm WITH Messages <- {1, 2}, MSG_SMALL_BUFFER <- 2, MSG_STD_BUFFER <- 3, RM_PREPEND_RESERVE <- 1,
          Parts <- 1 .. 6, MaxLen <- 3, MaxPush <- 1, BlockSizes <- {2}, MaxSteps <- 5, part <- parts

\* Two threads and chunks of one buffer, more than the limit allows.
Mb == INSTANCE MsgBuffers WITH Threads <- BufferThreads, Chunks <- {1, 2}, two_power <- 2, tot_buffers <- 1, max_buffer_chunks <- 1, MaxHeld <- 1, th <- bth

\* A tree of eight leaves, six of them buffers: the free ones, and one that is held.
Mn == INSTANCE MsgBuffers WITH Threads <- BufferThreads, Chunks <- {1}, two_power <- 8, tot_buffers <- 6, max_buffer_chunks <- 1, MaxHeld <- 1, th <- bth
Neighbors == {x \in (SUBSET (0 .. 5) \ {{}}) \X (0 .. 5) : x[2] \notin x[1]}

\* The buffers of 48, 512 and 2048 bytes, with their headers, in 2^15 bytes.
Numbers == UNION {(0 .. (32767 \div n)) \X {n} : n \in {64, 528, 2064}}

-----------------------------------------------------------------------------
messagesIdle == parts = 0 /\ buf = 0 /\ msg = 0 /\ op = 0 /\ content = 0 /\ steps = 0
buffersIdle == magic = 0 /\ free_cnt = 0 /\ free_block_queue = 0 /\ head = 0 /\ head_lock = 0 /\ allocated_buffer_chunks = 0 /\ ChunkSave = 0 /\ bth = 0

MessagesInit ==
    /\ part \in {"queue", "messages", "buffers", "number", "neighbor"}
    /\ input \in CASE part = "number" -> Numbers [] part = "neighbor" -> Neighbors [] OTHER -> {0}
    /\ Mq!Init /\ (part # "queue" => mq_magic = "sem")
    /\ IF part = "messages" THEN Rw!Init ELSE messagesIdle
    /\ IF part = "buffers" THEN Mb!Init ELSE buffersIdle

MessagesNext ==
    \/ part = "queue" /\ Mq!Next /\ UNCHANGED <<part, input, messagesVars, buffersVars>>
    \/ part = "messages" /\ Rw!Next /\ UNCHANGED <<part, input, queueVars, buffersVars>>
    \/ part = "buffers" /\ Mb!Next /\ UNCHANGED <<part, input, queueVars, messagesVars>>

\* The fairness of the queue (Fairness of MpQueue), while it is the one that runs.
MessagesFairness ==
    /\ \A t \in Pushers : WF_queueVars(part = "queue" /\ Mq!mpq_push_w(t))
    /\ \A t \in Poppers : WF_queueVars(part = "queue" /\ Mq!mpq_pop_w(t))

MessagesSpec == MessagesInit /\ [][MessagesNext]_<<part, input, queueVars, messagesVars, buffersVars>> /\ MessagesFairness

-----------------------------------------------------------------------------

\* Whatever is pushed with mpq_push_w is popped by one of the threads that wait for it (MpQueue).
AllPopped == part = "queue" => Mq!AllPopped

=============================================================================
