----------------------------- MODULE EventRefs -----------------------------
(***************************************************************************)
(* The 64-bit reference word of Events[fd].  The low half counts who holds *)
(* the socket job in ev->data: the socket itself until it fails, and each  *)
(* connection_get_by_fd for a moment.  A getter first adds to the high     *)
(* half, so that a low half that falls to zero beside it does not make the *)
(* whole word zero: only the addition that makes the whole word zero       *)
(* releases ev->data.  One action is one access to the word.  The          *)
(* descriptor is closed, and given to the next connection, after the       *)
(* socket job that held it is destroyed.                                   *)
(***************************************************************************)
EXTENDS Descriptor

vars == <<hi, lo, data, open, stage, refs, getter, asserted>>

At(pc) == [pc |-> pc, s |-> NoSock]

Init ==
    /\ hi = 0
    /\ lo = 0
    /\ data = NoSock
    /\ open = NoSock
    /\ stage = "closed"
    /\ refs = [s \in Socks |-> 0]
    /\ getter = [g \in Getters |-> At("idle")]
    /\ asserted = FALSE

\* alloc_new_socket_connection and epoll_sethandler: the job has a reference of ev->data and
\* one of the connection.
alloc_new_socket_connection(s) ==
    /\ ~asserted
    /\ open = NoSock
    /\ refs[s] = 0
    /\ IF hi = 0 /\ lo = 0
       THEN /\ lo' = 1
            /\ data' = s
            /\ open' = s
            /\ stage' = "live"
            /\ refs' = [refs EXCEPT ![s] = 2]
            /\ UNCHANGED asserted
       ELSE /\ asserted' = TRUE
            /\ UNCHANGED <<lo, data, open, stage, refs>>
    /\ UNCHANGED <<hi, getter>>

\* connection_event_incref (fd, -1): whoever makes the word zero takes ev->data away.
Unhold(r) ==
    /\ lo' = lo - 1
    /\ IF lo = 1 /\ hi = 0 /\ data # NoSock
       THEN data' = NoSock /\ refs' = [r EXCEPT ![data] = @ - 1]
       ELSE refs' = r /\ UNCHANGED data

\* fail_socket_connection, once for each socket.
fail_socket_connection ==
    /\ ~asserted
    /\ open # NoSock
    /\ stage = "live"
    /\ stage' = "failed"
    /\ Unhold(refs)
    /\ UNCHANGED <<hi, open, getter, asserted>>

\* The connection closes and gives back its reference to the socket.
cpu_server_close_connection ==
    /\ ~asserted
    /\ stage = "failed"
    /\ stage' = "closed"
    /\ refs' = [refs EXCEPT ![open] = @ - 1]
    /\ UNCHANGED <<hi, lo, data, open, getter, asserted>>

\* The job is destroyed, the connection after it, and the descriptor is closed.
cpu_server_free_connection ==
    /\ ~asserted
    /\ open # NoSock
    /\ stage = "closed"
    /\ refs[open] = 0
    /\ open' = NoSock
    /\ UNCHANGED <<hi, lo, data, stage, refs, getter, asserted>>

-----------------------------------------------------------------------------
\* connection_get_by_fd.
get_check(g) ==
    /\ ~asserted
    /\ getter[g].pc = "idle"
    /\ lo # 0 /\ data # NoSock
    /\ getter' = [getter EXCEPT ![g] = At("raise")]
    /\ UNCHANGED <<hi, lo, data, open, stage, refs, asserted>>

MutantNoHigh(g) ==
    /\ ~asserted
    /\ getter[g].pc = "raise"
    /\ hi' = hi
    /\ getter' = [getter EXCEPT ![g] = At(IF lo # 0 THEN "hold" ELSE "idle")]
    /\ UNCHANGED <<lo, data, open, stage, refs, asserted>>

get_raise(g) ==
    /\ ~asserted
    /\ getter[g].pc = "raise"
    /\ hi' = hi + 1
    /\ getter' = [getter EXCEPT ![g] = At(IF lo # 0 THEN "hold" ELSE "lower")]
    /\ UNCHANGED <<lo, data, open, stage, refs, asserted>>

get_lower(g) ==
    /\ ~asserted
    /\ getter[g].pc = "lower"
    /\ hi' = hi - 1
    /\ getter' = [getter EXCEPT ![g] = At(IF lo # 0 THEN "raise" ELSE "idle")]
    /\ UNCHANGED <<lo, data, open, stage, refs, asserted>>

get_hold(g) ==
    /\ ~asserted
    /\ getter[g].pc = "hold"
    /\ hi' = hi - 1
    /\ lo' = lo + 1
    /\ getter' = [getter EXCEPT ![g] = At("incref")]
    /\ UNCHANGED <<data, open, stage, refs, asserted>>

get_incref(g) ==
    /\ ~asserted
    /\ getter[g].pc = "incref"
    /\ getter' = [getter EXCEPT ![g] = [pc |-> "unhold", s |-> data]]
    /\ refs' = IF data = NoSock THEN refs ELSE [refs EXCEPT ![data] = @ + 1]
    /\ UNCHANGED <<hi, lo, data, open, stage, asserted>>

get_unhold(g) ==
    /\ ~asserted
    /\ getter[g].pc = "unhold"
    /\ Unhold(refs)
    /\ getter' = [getter EXCEPT ![g].pc = "use"]
    /\ UNCHANGED <<hi, open, stage, asserted>>

\* The flags are read, the connection is taken, and the reference to the job is given back.
get_return(g) ==
    /\ ~asserted
    /\ getter[g].pc = "use"
    /\ refs' = IF getter[g].s = NoSock THEN refs ELSE [refs EXCEPT ![getter[g].s] = @ - 1]
    /\ getter' = [getter EXCEPT ![g] = At("idle")]
    /\ UNCHANGED <<hi, lo, data, open, stage, asserted>>

Next ==
    \/ \E s \in Socks : alloc_new_socket_connection(s)
    \/ fail_socket_connection
    \/ cpu_server_close_connection
    \/ cpu_server_free_connection
    \/ \E g \in Getters :
          get_check(g) \/ get_raise(g) \/ get_lower(g) \/ get_hold(g) \/ get_incref(g) \/ get_unhold(g) \/ get_return(g)

Spec == Init /\ [][Next]_vars

-----------------------------------------------------------------------------
(***************************************************************************)
(* The inductive invariant behind GetterHoldsLiveJob (Descriptor): each    *)
(* half of the word, and the count of each job, is the number of those who *)
(* have added to it and not yet taken it back.                             *)
(***************************************************************************)
Raising == {g \in Getters : getter[g].pc \in {"hold", "lower"}}
Holding == {g \in Getters : getter[g].pc \in {"incref", "unhold"}}
UsersOf(s) == {g \in Getters : getter[g].s = s}
Bit(b) == IF b THEN 1 ELSE 0

Places == {"idle", "raise", "lower", "hold", "incref", "unhold", "use"}
GetterState == [pc : Places, s : Socks \cup {NoSock}]

\* Type invariant.
TypeOK ==
    /\ hi \in Int /\ lo \in Int
    /\ data \in Socks \cup {NoSock}
    /\ open \in Socks \cup {NoSock}
    /\ stage \in {"live", "failed", "closed"}
    /\ refs \in [Socks -> Int]
    /\ getter \in [Getters -> GetterState]
    /\ asserted \in BOOLEAN

HalvesCounted ==
    /\ hi = Cardinality(Raising)
    /\ lo = Bit(stage = "live") + Cardinality(Holding)

JobsCounted ==
    \A s \in Socks :
        refs[s] = Bit(data = s) + Bit(open = s /\ stage # "closed") + Cardinality(UsersOf(s))

\* ev->data is there while the socket lives and while a getter may still come to it
DataKept ==
    /\ stage = "live" => data # NoSock
    /\ \A g \in Getters : getter[g].pc \in {"hold", "incref", "unhold"} => data # NoSock
    /\ data # NoSock => data = open
    /\ stage # "closed" => open # NoSock

GettersHold ==
    \A g \in Getters : getter[g].s # NoSock <=> getter[g].pc \in {"unhold", "use"}

\* Everybody who reaches a job through its descriptor has added to a count, and no count
\* comes to zero before they have given it back.
RefsInv == TypeOK /\ HalvesCounted /\ JobsCounted /\ DataKept /\ GettersHold
=============================================================================
