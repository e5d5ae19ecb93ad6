----------------------------- MODULE EventQueue -----------------------------
(***************************************************************************)
(* The events of the main thread: Events[fd], the heap ev_heap of events   *)
(* to handle, ordered by priority and then by time stamp, and the epoll    *)
(* set of the kernel (net-events.c).  Other jobs of the main thread remove *)
(* an event from the heap or close its descriptor between two handlers.    *)
(***************************************************************************)
EXTENDS Integers, Sequences, FiniteSets, SequencesExt

CONSTANTS
    Fds,
    priority,       \* per descriptor: ev->priority, as epoll_sethandler gets it
    Regs,           \* the descriptors that are closed or change their flags; the others stay
    EVT_RWX,        \* the flags a descriptor may be registered with
    MaxStamp        \* bound of ev_timestamp

VARIABLES
    ev_heap,        \* the heap
    in_queue,       \* per descriptor: its index in the heap, 0 if absent
    timestamp,      \* per descriptor
    ev_timestamp,
    state,          \* per descriptor: ev->state, EVT_IN_EPOLL and the flags, and ev->epoll_state
    kernel,         \* per descriptor: the mask in the kernel's epoll set, {} if absent
    running         \* inside epoll_runqueue

vars == <<ev_heap, in_queue, timestamp, ev_timestamp, state, kernel, running>>

NoEvent == [in_epoll |-> FALSE, flags |-> {}, epoll_state |-> {}]

\* The mask that epoll_conv_flags makes of the flags: read, write, RDHUP, and always ET here
\* and ERR.
epoll_conv_flags(flags) == flags \cup {"ET", "ERR"}
Watched == [in_epoll |-> TRUE, flags |-> EVT_RWX, epoll_state |-> epoll_conv_flags(EVT_RWX)]

Init ==
    /\ ev_heap = <<>>
    /\ in_queue = [f \in Fds |-> 0]
    /\ timestamp = [f \in Fds |-> 0]
    /\ ev_timestamp = 0
    /\ state = [f \in Fds |-> IF f \in Regs THEN NoEvent ELSE Watched]
    /\ kernel = [f \in Fds |-> IF f \in Regs THEN {} ELSE epoll_conv_flags(EVT_RWX)]
    /\ running = FALSE

-----------------------------------------------------------------------------
\* A heap q is [h |-> the array, at |-> the indices]; ts are the time stamps.
greater_ev(ts, x, y) ==
    IF priority[x] # priority[y] THEN priority[x] > priority[y] ELSE ts[x] > ts[y]

Place(q, i, x) == [h |-> [q.h EXCEPT ![i] = x], at |-> [q.at EXCEPT ![x] = i]]
Cut(q) == [q EXCEPT !.h = Front(@)]

\* The lesser child of i among the first n, or 0.
Child(q, ts, n, i) ==
    CASE 2 * i > n -> 0
      [] 2 * i < n /\ greater_ev(ts, q.h[2 * i], q.h[2 * i + 1]) -> 2 * i + 1
      [] OTHER -> 2 * i

RECURSIVE SinkEvent(_, _, _, _, _)
SinkEvent(q, ts, n, i, x) ==
    LET j == Child(q, ts, n, i) IN
    IF j = 0 \/ ~greater_ev(ts, x, q.h[j]) THEN Place(q, i, x) ELSE SinkEvent(Place(q, i, q.h[j]), ts, n, j, x)

RECURSIVE RaiseEvent(_, _, _, _)
RaiseEvent(q, ts, i, x) ==
    IF i = 1 \/ ~greater_ev(ts, q.h[i \div 2], x) THEN Place(q, i, x)
    ELSE RaiseEvent(Place(q, i, q.h[i \div 2]), ts, i \div 2, x)

\* The hole at i goes down to a leaf.
RECURSIVE Hole(_, _, _)
Hole(q, ts, i) ==
    LET j == Child(q, ts, Len(q.h), i) IN
    IF j = 0 THEN [q |-> q, i |-> i] ELSE Hole(Place(q, i, q.h[j]), ts, j)

\* The head is taken by the caller; the last event of the heap fills its place.
pop_heap_head(q, ts) ==
    LET n == Len(q.h)
        p == [q EXCEPT !.at[q.h[1]] = 0]
    IN  IF n = 1 THEN Cut(p) ELSE SinkEvent(Cut(p), ts, n - 1, 1, q.h[n])

MutantFillHole(q, ts, ev) ==
    LET p == [q EXCEPT !.at[ev] = 0]
        r == Hole(p, ts, q.at[ev])
        n == Len(q.h)
    IN  IF q.at[ev] = 0 THEN q
        ELSE IF r.i < n THEN Place(Cut(r.q), r.i, r.q.h[n])
        ELSE Cut(r.q)

remove_event_from_heap(q, ts, ev) ==
    LET p == [q EXCEPT !.at[ev] = 0]
        r == Hole(p, ts, q.at[ev])
        n == Len(q.h)
    IN  IF q.at[ev] = 0 THEN q
        ELSE IF r.i < n THEN RaiseEvent(Cut(r.q), ts, r.i, r.q.h[n])
        ELSE Cut(r.q)

put_event_into_heap(q, ts, ev) ==
    IF q.at[ev] = 0
    THEN RaiseEvent([q EXCEPT !.h = Append(@, ev)], ts, Len(q.h) + 1, ev)
    ELSE LET r == Hole([q EXCEPT !.at[ev] = 0], ts, q.at[ev]) IN RaiseEvent(r.q, ts, r.i, ev)

Heap == [h |-> ev_heap, at |-> in_queue]
SetHeap(q) == ev_heap' = q.h /\ in_queue' = q.at

-----------------------------------------------------------------------------
\* epoll_remove and epoll_insert on descriptor f, with EVT_NEW when fresh.
epoll_remove(f) ==
    /\ state' = [state EXCEPT ![f].in_epoll = FALSE]
    /\ kernel' = IF state[f].in_epoll THEN [kernel EXCEPT ![f] = {}] ELSE kernel

epoll_insert(f, flags, fresh) ==
    LET st == [state[f] EXCEPT !.flags = flags] IN
    IF flags = {} THEN epoll_remove(f)
    ELSE IF st = state[f] /\ st.in_epoll /\ ~fresh THEN UNCHANGED <<state, kernel>>
    ELSE IF st.epoll_state # epoll_conv_flags(flags) \/ fresh \/ ~st.in_epoll
         THEN /\ state' = [state EXCEPT ![f] = [in_epoll |-> TRUE, flags |-> flags, epoll_state |-> epoll_conv_flags(flags)]]
              /\ kernel' = [kernel EXCEPT ![f] = epoll_conv_flags(flags)]
         ELSE state' = [state EXCEPT ![f] = st] /\ UNCHANGED kernel

-----------------------------------------------------------------------------
\* A job of the main thread registers a descriptor, changes its flags, or withdraws it
\* (fail_socket_connection: out of the heap and of epoll).
Register(f, flags, fresh) ==
    /\ ~running
    /\ f \in Regs
    /\ epoll_insert(f, flags, fresh)
    /\ UNCHANGED <<ev_heap, in_queue, timestamp, ev_timestamp, running>>

fail_socket(f) ==
    /\ SetHeap(remove_event_from_heap(Heap, timestamp, f))
    /\ epoll_insert(f, {}, FALSE)
    /\ UNCHANGED <<timestamp, ev_timestamp, running>>

\* epoll_close: the event is forgotten.
epoll_close(f) ==
    /\ ~running
    /\ SetHeap(remove_event_from_heap(Heap, timestamp, f))
    /\ state' = [state EXCEPT ![f] = NoEvent]
    /\ kernel' = [kernel EXCEPT ![f] = {}]
    /\ timestamp' = [timestamp EXCEPT ![f] = 0]
    /\ UNCHANGED <<ev_timestamp, running>>

\* The kernel reports descriptor f, epoll_fetch_events files it.
epoll_fetch_event(f) ==
    /\ ~running
    /\ kernel[f] # {}
    /\ timestamp' = [timestamp EXCEPT ![f] = ev_timestamp]
    /\ SetHeap(put_event_into_heap(Heap, timestamp', f))
    /\ UNCHANGED <<ev_timestamp, state, kernel, running>>

epoll_runqueue ==
    /\ ~running
    /\ ev_heap # <<>>
    /\ ev_timestamp + 2 <= MaxStamp
    /\ ev_timestamp' = ev_timestamp + 2
    /\ running' = TRUE
    /\ UNCHANGED <<ev_heap, in_queue, timestamp, state, kernel>>

MayRun == running /\ ev_heap # <<>> /\ timestamp[ev_heap[1]] < ev_timestamp

\* One turn of the loop; the handler returns EVA_CONTINUE, new flags, EVA_RERUN or EVA_REMOVE.
HandleContinue ==
    /\ MayRun
    /\ SetHeap(pop_heap_head(Heap, timestamp))
    /\ UNCHANGED <<timestamp, ev_timestamp, state, kernel, running>>

HandleFlags(flags) ==
    /\ MayRun
    /\ epoll_insert(ev_heap[1], flags, FALSE)
    /\ SetHeap(pop_heap_head(Heap, timestamp))
    /\ UNCHANGED <<timestamp, ev_timestamp, running>>

HandleRerun ==
    /\ MayRun
    /\ timestamp' = [timestamp EXCEPT ![ev_heap[1]] = ev_timestamp]
    /\ SetHeap(put_event_into_heap(pop_heap_head(Heap, timestamp), timestamp', ev_heap[1]))
    /\ UNCHANGED <<ev_timestamp, state, kernel, running>>

HandleRemove ==
    /\ MayRun
    /\ epoll_remove(ev_heap[1])
    /\ SetHeap(pop_heap_head(Heap, timestamp))
    /\ UNCHANGED <<timestamp, ev_timestamp, running>>

RunqueueDone ==
    /\ running
    /\ ~MayRun
    /\ running' = FALSE
    /\ UNCHANGED <<ev_heap, in_queue, timestamp, ev_timestamp, state, kernel>>

Next ==
    \/ \E f \in Fds, flags \in SUBSET EVT_RWX, fresh \in BOOLEAN : Register(f, flags, fresh)
    \/ \E f \in Regs : fail_socket(f)
    \/ \E f \in Regs : epoll_close(f)
    \/ \E f \in Fds : epoll_fetch_event(f)
    \/ epoll_runqueue
    \/ HandleContinue
    \/ \E flags \in SUBSET EVT_RWX : HandleFlags(flags)
    \/ HandleRerun
    \/ HandleRemove
    \/ RunqueueDone

Spec == Init /\ [][Next]_vars

-----------------------------------------------------------------------------
\* ev_heap stays a heap by priority and time stamp, in_queue is where each event is in it,
\* and the kernel watches exactly what ev->state says, whatever removals and insertions come
\* between two handlers.
QueueSound ==
    /\ \A i \in 2 .. Len(ev_heap) : ~greater_ev(timestamp, ev_heap[i \div 2], ev_heap[i])
    /\ \A f \in Fds : IF in_queue[f] = 0 THEN ~Contains(ev_heap, f) ELSE ev_heap[in_queue[f]] = f
    /\ \A f \in Fds : kernel[f] = IF state[f].in_epoll THEN epoll_conv_flags(state[f].flags) ELSE {}
=============================================================================
