-------------------------- MODULE ListeningProofs ---------------------------
(***************************************************************************)
(* The theorems about the limit on connections and the ports that it       *)
(* closes, from the inductive invariant LimitInv of Listening.             *)
(***************************************************************************)
EXTENDS Listening, FiniteSetTheorems, TLAPS

\* Zenon proves what names no other prover.
USE Zenon

Open == {x \in Conns : conn[x] = "open"}

-----------------------------------------------------------------------------
(***************************************************************************)
(* Counting connections.                                                   *)
(***************************************************************************)
\* The connections that are open are finitely many.
LEMMA OpenFinite == IsFiniteSet(Open)
  BY ListeningAssumption, FS_Subset DEF Open

\* A connection that is accepted is counted once.
LEMMA OpenAdded ==
    ASSUME TypeOK, NEW x \in Conns, conn[x] # "open", conn' = [conn EXCEPT ![x] = "open"]
    PROVE  Cardinality(Open') = Cardinality(Open) + 1
<1>1. Open' = Open \cup {x} /\ x \notin Open
  BY DEF Open, TypeOK
<1> QED BY <1>1, OpenFinite, FS_AddElement

\* A connection that is closed is discounted once.
LEMMA OpenRemoved ==
    ASSUME TypeOK, NEW x \in Conns, conn[x] = "open", conn' = [conn EXCEPT ![x] = "closing"]
    PROVE  Cardinality(Open') = Cardinality(Open) - 1
<1>1. Open' = Open \ {x} /\ x \in Open
  BY DEF Open, TypeOK
<1> QED BY <1>1, OpenFinite, FS_RemoveElement

-----------------------------------------------------------------------------
\* The program starts with its ports open and no connection.
LEMMA InitLimitInv == Init => LimitInv
<1> SUFFICES ASSUME Init PROVE LimitInv
  OBVIOUS
<1>1. TypeOK
  BY SMT DEF Init, TypeOK, Idle
<1>2. Open = {}
  BY DEF Init, Open
<1>3. SpecialCounted
  BY <1>2, FS_EmptySet DEF Init, SpecialCounted, Open
<1> QED BY <1>1, <1>3 DEF Init, LimitInv, PortsReopen, Idle

\* Every step keeps the types.
LEMMA TypeStep == ASSUME TypeOK, [Next]_vars PROVE TypeOK'
<1> USE ListeningAssumption DEF TypeOK
<1>1. ASSUME NEW l \in Listeners, Arrive(l) PROVE TypeOK'
  BY SMT, <1>1 DEF Arrive
<1>2. CASE Refill
  BY SMT, <1>2 DEF Refill
<1>3. ASSUME NEW l \in Listeners, epoll_insert_listener(l) PROVE TypeOK'
  BY <1>3 DEF epoll_insert_listener
<1>4. ASSUME NEW l \in Listeners, do_listening_connection_job(l) PROVE TypeOK'
  BY <1>4 DEF do_listening_connection_job, At
<1>5. CASE accept_done
  BY <1>5 DEF accept_done, Idle
<1>6. CASE accept_fails
  BY <1>6 DEF accept_fails, Idle
<1>7. CASE accept_dropped
  BY SMT, <1>7 DEF accept_dropped
<1>8. CASE alloc_new_connection
  BY SMT, <1>8 DEF alloc_new_connection, At
<1>9. CASE special_limit_check
  BY <1>9 DEF special_limit_check, At
<1>10. CASE epoll_remove_listener
  BY <1>10 DEF epoll_remove_listener, At
<1>11. ASSUME NEW x \in Conns, cpu_server_close_connection(x) PROVE TypeOK'
  BY SMT, <1>11 DEF cpu_server_close_connection
<1>12. ASSUME NEW x \in Conns, NEW l \in Listeners, signal_listener(x, l) PROVE TypeOK'
  BY <1>12 DEF signal_listener
<1>13. ASSUME NEW x \in Conns, cpu_server_free_connection(x) PROVE TypeOK'
  BY <1>13 DEF cpu_server_free_connection
<1>14. CASE UNCHANGED vars
  BY <1>14 DEF vars
<1> QED BY <1>1, <1>2, <1>3, <1>4, <1>5, <1>6, <1>7, <1>8, <1>9, <1>10, <1>11, <1>12, <1>13, <1>14
        DEF Next, Main, Cpu

\* Every addition to the count is a connection that opens, every subtraction one that closes.
LEMMA CountStep == ASSUME TypeOK, SpecialCounted, [Next]_vars PROVE SpecialCounted'
<1>1. ASSUME NEW l \in Listeners, Arrive(l) PROVE SpecialCounted'
  BY <1>1 DEF Arrive, SpecialCounted
<1>2. CASE Refill
  BY <1>2 DEF Refill, SpecialCounted
<1>3. ASSUME NEW l \in Listeners, epoll_insert_listener(l) PROVE SpecialCounted'
  BY <1>3 DEF epoll_insert_listener, SpecialCounted
<1>4. ASSUME NEW l \in Listeners, do_listening_connection_job(l) PROVE SpecialCounted'
  BY <1>4 DEF do_listening_connection_job, SpecialCounted
<1>5. CASE accept_done
  BY <1>5 DEF accept_done, SpecialCounted
<1>6. CASE accept_fails
  BY <1>6 DEF accept_fails, SpecialCounted
<1>7. CASE accept_dropped
  BY <1>7 DEF accept_dropped, SpecialCounted
<1>8. CASE alloc_new_connection
  <2>1. PICK x \in Conns \ Used : conn' = [conn EXCEPT ![x] = "open"]
    BY <1>8 DEF alloc_new_connection
  <2>2. Cardinality(Open') = Cardinality(Open) + 1
    BY <2>1, OpenAdded DEF Used
  <2> QED BY <1>8, <2>2 DEF alloc_new_connection, SpecialCounted, Open
<1>9. CASE special_limit_check
  BY <1>9 DEF special_limit_check, SpecialCounted
<1>10. CASE epoll_remove_listener
  BY <1>10 DEF epoll_remove_listener, SpecialCounted
<1>11. ASSUME NEW x \in Conns, cpu_server_close_connection(x) PROVE SpecialCounted'
  BY <1>11, OpenRemoved DEF cpu_server_close_connection, SpecialCounted, Open
<1>12. ASSUME NEW x \in Conns, NEW l \in Listeners, signal_listener(x, l) PROVE SpecialCounted'
  BY <1>12 DEF signal_listener, SpecialCounted
<1>13. ASSUME NEW x \in Conns, cpu_server_free_connection(x) PROVE SpecialCounted'
  <2>1. Open' = Open
    BY <1>13 DEF cpu_server_free_connection, Open, TypeOK
  <2> QED BY <1>13, <2>1 DEF cpu_server_free_connection, SpecialCounted, Open
<1>14. CASE UNCHANGED vars
  BY <1>14 DEF vars, SpecialCounted
<1> QED BY <1>1, <1>2, <1>3, <1>4, <1>5, <1>6, <1>7, <1>8, <1>9, <1>10, <1>11, <1>12, <1>13, <1>14
        DEF Next, Main, Cpu

\* Only a close has signals to send, and it is not freed before it has sent them.
LEMMA WakesStep ==
    ASSUME TypeOK, [Next]_vars, \A x \in Conns : wakes[x] # {} => conn[x] = "closing"
    PROVE  \A x \in Conns : wakes'[x] # {} => conn'[x] = "closing"
<1> DEFINE Closing == \A x \in Conns : wakes[x] # {} => conn[x] = "closing"
<1> USE DEF TypeOK
<1>1. ASSUME NEW l \in Listeners, Arrive(l) PROVE Closing'
  BY <1>1 DEF Arrive
<1>2. CASE Refill
  BY <1>2 DEF Refill
<1>3. ASSUME NEW l \in Listeners, epoll_insert_listener(l) PROVE Closing'
  BY <1>3 DEF epoll_insert_listener
<1>4. ASSUME NEW l \in Listeners, do_listening_connection_job(l) PROVE Closing'
  BY <1>4 DEF do_listening_connection_job
<1>5. CASE accept_done
  BY <1>5 DEF accept_done
<1>6. CASE accept_fails
  BY <1>6 DEF accept_fails
<1>7. CASE accept_dropped
  BY <1>7 DEF accept_dropped
<1>8. CASE alloc_new_connection
  BY <1>8 DEF alloc_new_connection, Used
<1>9. CASE special_limit_check
  BY <1>9 DEF special_limit_check
<1>10. CASE epoll_remove_listener
  BY <1>10 DEF epoll_remove_listener
<1>11. ASSUME NEW x \in Conns, cpu_server_close_connection(x) PROVE Closing'
  BY <1>11 DEF cpu_server_close_connection
<1>12. ASSUME NEW x \in Conns, NEW l \in Listeners, signal_listener(x, l) PROVE Closing'
  BY <1>12 DEF signal_listener
<1>13. ASSUME NEW x \in Conns, cpu_server_free_connection(x) PROVE Closing'
  BY <1>13 DEF cpu_server_free_connection
<1>14. CASE UNCHANGED vars
  BY <1>14 DEF vars
<1> QED BY <1>1, <1>2, <1>3, <1>4, <1>5, <1>6, <1>7, <1>8, <1>9, <1>10, <1>11, <1>12, <1>13, <1>14
        DEF Next, Main, Cpu

\* The reason for which a port is closed, or about to be, is lost only when the main thread
\* opens it: a close that takes the count below the limit signals every port, and a signal
\* is on its way, or pending, until epoll_insert_listener takes it.
LEMMA ReopeningStep ==
    ASSUME TypeOK, [Next]_vars, NEW p \in Listeners, Reopening(p),
           \A x \in Conns : wakes[x] # {} => conn[x] = "closing"
    PROVE  Reopening(p)' \/ (main = Idle /\ in_epoll'[p] /\ UNCHANGED main)
<1> DEFINE Goal == Reopening(p)' \/ (main = Idle /\ in_epoll'[p] /\ UNCHANGED main)
<1> USE ListeningAssumption DEF TypeOK, Reopening
<1>1. ASSUME NEW l \in Listeners, Arrive(l) PROVE Goal
  BY <1>1 DEF Arrive
<1>2. CASE Refill
  BY <1>2 DEF Refill
<1>3. ASSUME NEW l \in Listeners, epoll_insert_listener(l) PROVE Goal
  BY <1>3 DEF epoll_insert_listener
<1>4. ASSUME NEW l \in Listeners, do_listening_connection_job(l) PROVE Goal
  BY <1>4 DEF do_listening_connection_job
<1>5. CASE accept_done
  BY <1>5 DEF accept_done
<1>6. CASE accept_fails
  BY <1>6 DEF accept_fails
<1>7. CASE accept_dropped
  BY <1>7 DEF accept_dropped
<1>8. CASE alloc_new_connection
  BY SMT, <1>8 DEF alloc_new_connection
<1>9. CASE special_limit_check
  BY <1>9 DEF special_limit_check
<1>10. CASE epoll_remove_listener
  BY <1>10 DEF epoll_remove_listener
<1>11. ASSUME NEW x \in Conns, cpu_server_close_connection(x) PROVE Goal
  <2>1. wakes[x] = {}
    BY <1>11 DEF cpu_server_close_connection
  <2>2. CASE active_special_connections = max_special_connections
    <3>1. wakes'[x] = Listeners
      BY <1>11, <2>2 DEF cpu_server_close_connection
    <3> QED BY <3>1
  <2>3. CASE active_special_connections > max_special_connections
    BY SMT, <1>11, <2>3 DEF cpu_server_close_connection
  <2>4. CASE active_special_connections < max_special_connections
    <3>1. aux' = aux /\ \A y \in Conns \ {x} : wakes'[y] = wakes[y]
      BY <1>11 DEF cpu_server_close_connection
    <3> QED BY SMT, <2>1, <2>4, <3>1
  <2> QED BY SMT, <2>2, <2>3, <2>4
<1>12. ASSUME NEW x \in Conns, NEW l \in Listeners, signal_listener(x, l) PROVE Goal
  BY <1>12 DEF signal_listener
<1>13. ASSUME NEW x \in Conns, cpu_server_free_connection(x) PROVE Goal
  BY <1>13 DEF cpu_server_free_connection
<1>14. CASE UNCHANGED vars
  BY <1>14 DEF vars
<1> QED BY <1>1, <1>2, <1>3, <1>4, <1>5, <1>6, <1>7, <1>8, <1>9, <1>10, <1>11, <1>12, <1>13, <1>14
        DEF Next, Main, Cpu

\* A port is taken out of epoll by the main thread alone, which reads the count before.
LEMMA ClosedStep ==
    ASSUME TypeOK, [Next]_vars
    PROVE  /\ \A p \in Listeners : in_epoll[p] /\ ~in_epoll'[p] => main.pc = "remove" /\ main.l = p
           /\ main'.pc = "remove" =>
                 \/ UNCHANGED main
                 \/ Reopening(main.l)'
<1> DEFINE Goal ==
        /\ \A p \in Listeners : in_epoll[p] /\ ~in_epoll'[p] => main.pc = "remove" /\ main.l = p
        /\ main'.pc = "remove" => UNCHANGED main \/ Reopening(main.l)'
<1> USE DEF TypeOK
<1>1. ASSUME NEW l \in Listeners, Arrive(l) PROVE Goal
  BY <1>1 DEF Arrive
<1>2. CASE Refill
  BY <1>2 DEF Refill
<1>3. ASSUME NEW l \in Listeners, epoll_insert_listener(l) PROVE Goal
  BY <1>3 DEF epoll_insert_listener
<1>4. ASSUME NEW l \in Listeners, do_listening_connection_job(l) PROVE Goal
  BY <1>4 DEF do_listening_connection_job, At
<1>5. CASE accept_done
  BY <1>5 DEF accept_done, Idle
<1>6. CASE accept_fails
  BY <1>6 DEF accept_fails, Idle
<1>7. CASE accept_dropped
  BY <1>7 DEF accept_dropped
<1>8. CASE alloc_new_connection
  BY <1>8 DEF alloc_new_connection, At
<1>9. CASE special_limit_check
  BY <1>9 DEF special_limit_check, At, Reopening
<1>10. CASE epoll_remove_listener
  BY <1>10 DEF epoll_remove_listener, At
<1>11. ASSUME NEW x \in Conns, cpu_server_close_connection(x) PROVE Goal
  BY <1>11 DEF cpu_server_close_connection
<1>12. ASSUME NEW x \in Conns, NEW l \in Listeners, signal_listener(x, l) PROVE Goal
  BY <1>12 DEF signal_listener
<1>13. ASSUME NEW x \in Conns, cpu_server_free_connection(x) PROVE Goal
  BY <1>13 DEF cpu_server_free_connection
<1>14. CASE UNCHANGED vars
  BY <1>14 DEF vars
<1> QED BY <1>1, <1>2, <1>3, <1>4, <1>5, <1>6, <1>7, <1>8, <1>9, <1>10, <1>11, <1>12, <1>13, <1>14
        DEF Next, Main, Cpu

-----------------------------------------------------------------------------
\* The inductive invariant of the limit holds in all behaviours.
THEOREM LimitInductive == Spec => []LimitInv
<1>1. LimitInv /\ [Next]_vars => LimitInv'
  <2> SUFFICES ASSUME LimitInv, [Next]_vars PROVE LimitInv'
    OBVIOUS
  <2>0. /\ TypeOK /\ TypeOK'
        /\ \A x \in Conns : wakes[x] # {} => conn[x] = "closing"
    BY TypeStep DEF LimitInv
  <2>1. SpecialCounted' /\ \A x \in Conns : wakes'[x] # {} => conn'[x] = "closing"
    BY <2>0, CountStep, WakesStep DEF LimitInv
  <2>2. PortsReopen'
    <3> SUFFICES ASSUME NEW p \in Listeners, ~in_epoll'[p] PROVE Reopening(p)'
      BY DEF PortsReopen
    <3>1. Reopening(p)
      BY <2>0, ClosedStep DEF LimitInv, PortsReopen
    <3> QED BY <2>0, <3>1, ReopeningStep
  <2>3. main'.pc = "remove" => Reopening(main.l)'
    <3> SUFFICES ASSUME main'.pc = "remove", UNCHANGED main PROVE Reopening(main.l)'
      BY <2>0, ClosedStep
    <3>1. main.l \in Listeners /\ Reopening(main.l) /\ main # Idle
      BY SMT, <2>0 DEF LimitInv, TypeOK, Idle
    <3>2. Reopening(main.l)'
      BY <2>0, <3>1, ReopeningStep
    <3> QED BY <3>2
  <2> QED BY <2>0, <2>1, <2>2, <2>3 DEF LimitInv
<1> QED BY <1>1, InitLimitInv, PTL DEF Spec

\* For any number of ports, connections and clients and any limit: a port that the limit has
\* closed is at the limit still, or has JS_AUX pending or about to be sent by a close.
THEOREM PortsAlwaysReopen == Spec => []PortsReopen
<1>1. LimitInv => PortsReopen
  BY DEF LimitInv
<1> QED BY <1>1, LimitInductive, PTL

\* active_special_connections is the number of open connections at every moment, although
\* the main thread and the CPU threads change it without a lock.
THEOREM CountExact == Spec => []SpecialCounted
<1>1. LimitInv => SpecialCounted
  BY DEF LimitInv
<1> QED BY <1>1, LimitInductive, PTL
=============================================================================
