----------------------------- MODULE Descriptor -----------------------------
(***************************************************************************)
(* The state of one descriptor, Events[fd], and what its users rely on.    *)
(* The threads that look it up meet there with the socket jobs that hold   *)
(* it one after the other.  The protocol is in EventRefs.                  *)
(***************************************************************************)
EXTENDS Integers, FiniteSets

CONSTANTS
    Getters,        \* threads that call connection_get_by_fd
    Socks,          \* socket jobs that hold the descriptor one after the other
    NoSock          \* ev->data == NULL

ASSUME DescriptorAssumption == IsFiniteSet(Getters) /\ NoSock \notin Socks

VARIABLES
    hi, lo,         \* the halves of ev->refcnt
    data,           \* ev->data
    open,           \* the socket whose descriptor it is, NoSock between two
    stage,          \* the socket is live, failed (it has given up its unit), or closed by its connection
    refs,           \* per socket: the references to the job, its destruction at 0
    getter,         \* per getter: where it is, and the socket it holds
    asserted        \* assert (!ev->refcnt) of alloc_new_socket_connection has failed

\* A getter never touches a socket job that may be destroyed: when connection_get_by_fd
\* takes its reference ev->data is a job with references left, and ev->data never outlives it.
GetterHoldsLiveJob ==
    /\ data # NoSock => refs[data] > 0
    /\ \A g \in Getters :
          /\ getter[g].pc = "incref" => data # NoSock
          /\ getter[g].s # NoSock => refs[getter[g].s] > 0
=============================================================================
