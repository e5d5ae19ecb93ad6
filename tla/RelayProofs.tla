---------------------------- MODULE RelayProofs -----------------------------
(***************************************************************************)
(* RelayInv is an invariant of Relay, for any clients, middle-end          *)
(* connections and descriptors.  The order: what the steps do to the       *)
(* queues and connections, then each conjunct of the invariant, then each  *)
(* action.                                                                 *)
(***************************************************************************)
EXTENDS Relay, TLAPS

\* Zenon proves what names no other prover.
USE Zenon

-----------------------------------------------------------------------------
(***************************************************************************)
(* Ids.                                                                    *)
(***************************************************************************)
\* The id that create_ext_connection makes is greater than the last one of its
\* descriptor, and is looked up under it.
LEMMA NewId ==
    ASSUME NEW f \in Fds, NEW s \in Nat, NEW id, id = ((s \div EXT_CONN_TABLE_SIZE) + 1) * EXT_CONN_TABLE_SIZE + f
    PROVE  id \in Nat /\ id > s /\ id % EXT_CONN_TABLE_SIZE = f
<1>0. EXT_CONN_TABLE_SIZE \in Nat \ {0} /\ f \in 0 .. EXT_CONN_TABLE_SIZE - 1
    BY SMT, RelayAssumption
<1>1. PICK k \in Nat : k = (s \div EXT_CONN_TABLE_SIZE) + 1
    BY SMT, <1>0
<1>2. k * EXT_CONN_TABLE_SIZE > s
    BY SMT, <1>0, <1>1
<1>3. k * EXT_CONN_TABLE_SIZE \in Nat /\ id = k * EXT_CONN_TABLE_SIZE + f
    BY SMT, <1>0, <1>1
<1>4. (k * EXT_CONN_TABLE_SIZE + f) % EXT_CONN_TABLE_SIZE = f
    BY SMT, <1>0
<1> QED
    BY SMT, <1>0, <1>2, <1>3, <1>4

-----------------------------------------------------------------------------
(***************************************************************************)
(* What steps do to the queues.                                            *)
(***************************************************************************)
\* every job, or event, of the next state is an old one or one of T
EqFrom(T) == \A i \in 1 .. Len(eq') : eq'[i] \in T \/ \E j \in 1 .. Len(eq) : eq'[i] = eq[j]
NqFrom(T) == \A i \in 1 .. Len(nq') : nq'[i] \in T \/ \E j \in 1 .. Len(nq) : nq'[i] = nq[j]

\* A queue that grows by one.
LEMMA Appended ==
    ASSUME NEW S, NEW s \in Seq(S), NEW t \in S
    PROVE  /\ Append(s, t) \in Seq(S)
           /\ Len(Append(s, t)) = Len(s) + 1 /\ Len(s) \in Nat
           /\ \A i \in 1 .. Len(s) : Append(s, t)[i] = s[i]
           /\ Append(s, t)[Len(s) + 1] = t
BY SMT

\* A queue whose first entry is taken.
LEMMA Taken ==
    ASSUME NEW S, NEW s \in Seq(S), s # <<>>
    PROVE  /\ Tail(s) \in Seq(S)
           /\ Len(s) \in Nat /\ Len(s) > 0 /\ Len(Tail(s)) = Len(s) - 1
           /\ \A i \in 1 .. Len(Tail(s)) : i + 1 \in 1 .. Len(s) /\ Tail(s)[i] = s[i + 1]
           /\ Head(s) = s[1] /\ 1 \in 1 .. Len(s) /\ Head(s) \in S
BY SMT

\* The job queue of the engine grows, shrinks or stays.
LEMMA EqSteps ==
    ASSUME eq \in Seq(Tasks)
    PROVE  /\ eq' = eq => EqFrom({})
           /\ eq # <<>> /\ eq' = Tail(eq) => EqFrom({}) /\ eq' \in Seq(Tasks)
           /\ \A t \in Tasks : eq' = Append(eq, t) => EqFrom({t}) /\ eq' \in Seq(Tasks)
<1>1. eq' = eq => EqFrom({})
    BY DEF EqFrom
<1>2. ASSUME eq # <<>>, eq' = Tail(eq)
      PROVE  EqFrom({}) /\ eq' \in Seq(Tasks)
    BY <1>2, Taken DEF EqFrom
<1>3. ASSUME NEW t \in Tasks, eq' = Append(eq, t)
      PROVE  EqFrom({t}) /\ eq' \in Seq(Tasks)
    <2>1. \A i \in 1 .. Len(eq') : i \in 1 .. Len(eq) \/ i = Len(eq) + 1
        BY SMT, <1>3, Appended
    <2> QED
        BY SMT, <1>3, <2>1, Appended DEF EqFrom
<1> QED
    BY <1>1, <1>2, <1>3

\* The same for the queue of the notification job.
LEMMA NqSteps ==
    ASSUME nq \in Seq(Events)
    PROVE  /\ nq' = nq => NqFrom({})
           /\ nq # <<>> /\ nq' = Tail(nq) => NqFrom({}) /\ nq' \in Seq(Events)
           /\ \A t \in Events : nq' = Append(nq, t) => NqFrom({t}) /\ nq' \in Seq(Events)
<1>1. nq' = nq => NqFrom({})
    BY DEF NqFrom
<1>2. ASSUME nq # <<>>, nq' = Tail(nq)
      PROVE  NqFrom({}) /\ nq' \in Seq(Events)
    BY <1>2, Taken DEF NqFrom
<1>3. ASSUME NEW t \in Events, nq' = Append(nq, t)
      PROVE  NqFrom({t}) /\ nq' \in Seq(Events)
    <2>1. \A i \in 1 .. Len(nq') : i \in 1 .. Len(nq) \/ i = Len(nq) + 1
        BY SMT, <1>3, Appended
    <2> QED
        BY SMT, <1>3, <2>1, Appended DEF NqFrom
<1> QED
    BY <1>1, <1>2, <1>3

\* The fields of a job.
LEMMA TaskFields ==
    ASSUME NEW t \in Tasks
    PROVE  /\ t.job # "notify" => t.who \in Conns
           /\ t.job = "query" => t.who \in Clients /\ t.n \in Nat /\ t.flags \in BOOLEAN
           /\ t.job \in {"RPC_PROXY_ANS", "RPC_SIMPLE_ACK"} => t.who \in Outs /\ t.id \in Nat /\ t.to \in Clients \X Nat
           /\ t.job = "RPC_CLOSE_EXT" => t.who \in Outs /\ t.id \in Nat
BY DEF Tasks, Conns

\* The fields of an event.
LEMMA EventFields ==
    ASSUME nq \in Seq(Events), NEW i \in 1 .. Len(nq)
    PROVE  /\ nq[i] \in Events /\ nq[i].who \in Conns /\ nq[i].ev \in {"ready", "close"}
           /\ nq[i] = [ev |-> nq[i].ev, who |-> nq[i].who]
<1>1. nq[i] \in Events
    BY SMT
<1> QED
    BY <1>1 DEF Events

-----------------------------------------------------------------------------
(***************************************************************************)
(* What steps do to the connections.                                       *)
(***************************************************************************)
\* No step takes a connection back, gives it another descriptor or another
\* socket.
Onward ==
    \A x \in Conns : conn[x].st # "none" =>
        /\ conn'[x].fd = conn[x].fd
        /\ conn'[x].st # "none"
        /\ conn'[x].sock => conn[x].sock
        /\ Alive(x)' => Alive(x)

\* no connection is freed
Retained == \A x \in Conns : Alive(x) => Alive(x)'

\* Connections fail or lose their socket, and no more.
Gentle ==
    \A x \in Conns :
        /\ conn'[x].fd = conn[x].fd
        /\ conn'[x].st = conn[x].st \/ (conn[x].st = "open" /\ conn'[x].st = "failed")
        /\ conn'[x].sock => conn[x].sock

SameGot == \A x \in Conns : conn'[x].got = conn[x].got

\* A gentle step keeps descriptors, references and order.
LEMMA GentleSteps ==
    ASSUME Gentle
    PROVE  Onward /\ Retained
BY DEF Gentle, Onward, Retained, Alive

\* fail_connection is gentle, whomever it is called for.
LEMMA FailSteps ==
    ASSUME conn \in [Conns -> ConnRecs], NEW cs, conn' = Fail(cs)
    PROVE  Gentle /\ SameGot /\ conn' \in [Conns -> ConnRecs]
<1>1. \A r \in ConnRecs : [r EXCEPT !.st = "failed"] \in ConnRecs
    BY DEF ConnRecs, States
<1>2. \A r \in ConnRecs : LET u == [r EXCEPT !.st = "failed"] IN u.fd = r.fd /\ u.st = "failed" /\ u.sock = r.sock /\ u.got = r.got
    BY DEF ConnRecs
<1>3. \A x \in Conns : conn'[x] = conn[x] \/ (conn[x].st = "open" /\ conn'[x] = [conn[x] EXCEPT !.st = "failed"])
    BY DEF Fail
<1>4. conn' \in [Conns -> ConnRecs]
    BY <1>1 DEF Fail
<1>5. ASSUME NEW x \in Conns
      PROVE  /\ conn'[x].fd = conn[x].fd /\ conn'[x].sock = conn[x].sock /\ conn'[x].got = conn[x].got
             /\ conn'[x].st = conn[x].st \/ (conn[x].st = "open" /\ conn'[x].st = "failed")
    <2>1. CASE conn'[x] = conn[x]
        BY <2>1
    <2>2. CASE conn[x].st = "open" /\ conn'[x] = [conn[x] EXCEPT !.st = "failed"]
        <3>1. conn[x] \in ConnRecs
            OBVIOUS
        <3> QED
            BY <1>2, <2>2, <3>1
    <2> QED
        BY <1>3, <2>1, <2>2
<1>6. Gentle /\ SameGot
    BY <1>5 DEF Gentle, SameGot
<1> QED
    BY <1>4, <1>6

\* Nothing happens to the connections.
LEMMA SameConn ==
    ASSUME conn' = conn
    PROVE  Gentle /\ SameGot
BY DEF Gentle, SameGot

-----------------------------------------------------------------------------
(***************************************************************************)
(* The conjuncts of the invariant, one by one: what keeps each.            *)
(***************************************************************************)
\* Descriptors stay with their connections.
LEMMA FdsKept ==
    ASSUME FdsHeld, Gentle
    PROVE  FdsHeld'
<1>1. ASSUME NEW x \in Conns
      PROVE  /\ conn'[x].fd = conn[x].fd /\ Alive(x)' = Alive(x)
             /\ conn'[x].sock => conn'[x].st \in {"open", "failed"}
    BY DEF FdsHeld, Gentle, Alive
<1> QED
    BY <1>1 DEF FdsHeld

\* References: what is queued anew must be alive.
LEMMA RefsKept ==
    ASSUME RefsHeld, eq \in Seq(Tasks), nq \in Seq(Events), Retained,
           NEW T, EqFrom(T), \A t \in T : t.job # "notify" => Alive(t.who)',
           NEW U, NqFrom(U), \A u \in U : Alive(u.who)'
    PROVE  RefsHeld'
<1>1. ASSUME NEW i \in 1 .. Len(eq'), NEW t, t = eq'[i], t.job # "notify"
      PROVE  Alive(t.who)'
    <2>1. CASE t \in T
        BY <1>1, <2>1
    <2>2. ASSUME NEW j \in 1 .. Len(eq), t = eq[j]
          PROVE  Alive(t.who)'
        <3>1. t \in Tasks /\ t.who \in Conns /\ Alive(t.who)
            BY SMT, <1>1, <2>2, TaskFields DEF RefsHeld
        <3> QED
            BY <3>1 DEF Retained
    <2> QED
        BY <1>1, <2>1, <2>2 DEF EqFrom
<1>2. ASSUME NEW i \in 1 .. Len(nq'), NEW u, u = nq'[i]
      PROVE  Alive(u.who)'
    <2>1. CASE u \in U
        BY <2>1
    <2>2. ASSUME NEW j \in 1 .. Len(nq), u = nq[j]
          PROVE  Alive(u.who)'
        <3>1. u.who \in Conns /\ Alive(u.who)
            BY <2>2, EventFields DEF RefsHeld
        <3> QED
            BY <3>1 DEF Retained
    <2> QED
        BY <1>2, <2>1, <2>2 DEF NqFrom
<1> QED
    BY <1>1, <1>2 DEF RefsHeld, Alive

\* The events of the notification job, when it does not run.
LEMMA EventsKept ==
    ASSUME EventsOrdered, nq \in Seq(Events), Gentle, nq' = nq, tag' = tag
    PROVE  EventsOrdered'
<1>1. \A x \in Conns : conn'[x].st = "closed" <=> conn[x].st = "closed"
    BY DEF Gentle
<1>2. \A i \in 1 .. Len(nq) : nq[i].who \in Conns
    BY EventFields
<1> QED
    BY <1>1, <1>2 DEF EventsOrdered, Told

\* The list heads, when no connection is registered or forgotten.
LEMMA HeadsKept ==
    ASSUME HeadsSound, TypeOK, Onward, Retained, out' = out, tag' = tag
    PROVE  HeadsSound'
<1>1. ASSUME NEW o \in tag
      PROVE  Alive(o)' /\ conn'[o].fd = conn[o].fd
    BY DEF HeadsSound, TypeOK, Conns, Onward, Retained, Alive
<1> QED
    BY <1>1 DEF HeadsSound, Alive

\* ext_connections are removed, and none made
ExStep == \A f \in Fds : ex'[f] = ex[f] \/ ex'[f] = NoEx

\* The table, when it only shrinks.
LEMMA TableKept ==
    ASSUME TableSound, TypeOK, Onward, slot' = slot, ExStep
    PROVE  TableSound'
<1> SUFFICES ASSUME NEW f \in Fds, ex'[f] # NoEx
             PROVE  /\ ex'[f].id = slot'[f] /\ ex'[f].id % EXT_CONN_TABLE_SIZE = f
                    /\ conn'[ex'[f].in].st # "none" /\ conn'[ex'[f].in].fd = f
    BY DEF TableSound, Has
<1>1. ex'[f] = ex[f] /\ Has(f)
    BY DEF ExStep, Has
<1>2. ex[f].in \in Conns
    BY <1>1 DEF TypeOK, ExRecs, Has, Conns
<1> QED
    BY SMT, <1>1, <1>2 DEF TableSound, Onward

\* An id keeps its owner, when the table only shrinks.
LEMMA OwnerKept ==
    ASSUME TableSound, TypeOK, Onward, slot' = slot, ExStep, NEW id, NEW c, Owner(id, c)
    PROVE  Owner(id, c)'
<1> DEFINE f == id % EXT_CONN_TABLE_SIZE
<1>1. f \in Fds /\ Issued(id) /\ Issued(id)'
    BY DEF Owner, Issued
<1>2. ASSUME ex'[f] # NoEx, slot'[f] = id
      PROVE  ex'[f].in = c \/ ~conn'[ex'[f].in].sock
    <2>1. ex'[f] = ex[f] /\ Has(f)
        BY <1>1, <1>2 DEF ExStep, Has
    <2>2. ex[f].in \in Conns
        BY <1>1, <2>1 DEF TypeOK, ExRecs, Has, Conns
    <2>3. conn'[ex[f].in].sock => conn[ex[f].in].sock
        BY <1>1, <2>1, <2>2 DEF TableSound, Onward
    <2>4. ex[f].in = c \/ ~conn[ex[f].in].sock
        BY <1>2, <2>1 DEF Owner
    <2> QED
        BY <2>1, <2>3, <2>4
<1> QED
    BY <1>1, <1>2 DEF Owner, Has

\* Requests and answers keep their owner, when the table only shrinks.
LEMMA AnswersKept ==
    ASSUME TableSound, AnswersOwned, TypeOK, Onward, slot' = slot, ExStep,
           NEW T, EqFrom(T), \A t \in T : t.job \in {"RPC_PROXY_ANS", "RPC_SIMPLE_ACK"} => Owner(t.id, t.to[1])',
           \A o \in Outs : \A r \in remote'[o] : r \in remote[o] \/ Owner(r.id, r.q[1])'
    PROVE  AnswersOwned'
<1>1. ASSUME NEW o \in Outs, NEW r \in remote'[o]
      PROVE  Owner(r.id, r.q[1])'
    <2>1. CASE r \in remote[o]
        BY <2>1, OwnerKept DEF AnswersOwned
    <2> QED
        BY <2>1
<1>2. ASSUME NEW i \in 1 .. Len(eq'), NEW t, t = eq'[i], t.job \in {"RPC_PROXY_ANS", "RPC_SIMPLE_ACK"}
      PROVE  Owner(t.id, t.to[1])'
    <2>1. CASE t \in T
        BY <1>2, <2>1
    <2>2. ASSUME NEW j \in 1 .. Len(eq), t = eq[j]
          PROVE  Owner(t.id, t.to[1])'
        <3>1. Owner(t.id, t.to[1])
            BY <1>2, <2>2 DEF AnswersOwned
        <3> QED
            BY <3>1, OwnerKept
    <2> QED
        BY <1>2, <2>1, <2>2 DEF EqFrom
<1> QED
    BY <1>1, <1>2 DEF AnswersOwned, Owner, Issued, Has

\* An id stays with its middle-end connection, when the table only shrinks.
LEMMA SessionKept ==
    ASSUME TypeOK, Onward, slot' = slot, ExStep, NEW o \in Outs, NEW id, Session(o, id)
    PROVE  Session(o, id)'
<1> DEFINE f == id % EXT_CONN_TABLE_SIZE
<1>1. f \in Fds /\ Issued(id)'
    BY DEF Session, Issued
<1>2. conn'[o].st # "none"
    BY DEF Session, Onward, Conns
<1>3. ASSUME ex'[f] # NoEx, slot'[f] = id
      PROVE  ex'[f].out = o
    <2>1. ex'[f] = ex[f] /\ Has(f)
        BY <1>1, <1>3 DEF ExStep, Has
    <2> QED
        BY <1>3, <2>1 DEF Session
<1> QED
    BY <1>1, <1>2, <1>3 DEF Session, Has

\* what a middle-end connection is told only grows, and no id is opened
ToldStep == \A o \in Outs : told'[o].opened = told[o].opened /\ told[o].closed \subseteq told'[o].closed

\* All ids stay with their middle-end connections.
LEMMA SessionsKept ==
    ASSUME SessionsOwned, TypeOK, Onward, slot' = slot, ExStep, ToldStep,
           NEW T, EqFrom(T),
           \A t \in T : t.job = "RPC_CLOSE_EXT" => t.id \in told'[t.who].opened \cap told'[t.who].closed
    PROVE  SessionsOwned'
<1>1. ASSUME NEW o \in Outs, NEW id \in told'[o].opened
      PROVE  Session(o, id)'
    BY SessionKept DEF SessionsOwned, ToldStep
<1>2. ASSUME NEW i \in 1 .. Len(eq'), NEW t, t = eq'[i], t.job = "RPC_CLOSE_EXT"
      PROVE  t.id \in told'[t.who].opened \cap told'[t.who].closed
    <2>1. CASE t \in T
        BY <1>2, <2>1
    <2>2. ASSUME NEW j \in 1 .. Len(eq), t = eq[j]
          PROVE  t.id \in told'[t.who].opened \cap told'[t.who].closed
        <3>1. t \in Tasks
            BY SMT, <2>2 DEF TypeOK
        <3>2. t.who \in Outs /\ t.id \in told[t.who].opened \cap told[t.who].closed
            BY <1>2, <2>2, <3>1, TaskFields DEF SessionsOwned
        <3> QED
            BY <3>2 DEF ToldStep
    <2> QED
        BY <1>2, <2>1, <2>2 DEF EqFrom
<1> QED
    BY <1>1, <1>2 DEF SessionsOwned

\* A middle-end connection knows of every session that ends: an ext_connection
\* goes only where its connection is told, or is gone.
LEMMA SessionLeftKept ==
    ASSUME NoSessionLeft, SessionsOwned, TypeOK, Onward, ToldStep,
           \A f \in Fds : \/ ex'[f] = ex[f]
                         \/ \A o \in Outs : Live(o)' /\ ex[f].out = o => ex[f].id \in told'[o].closed
    PROVE  NoSessionLeft'
<1> SUFFICES ASSUME NEW o \in Outs, Live(o)', NEW id \in told'[o].opened \ told'[o].closed
             PROVE  \E f \in Fds : ex'[f].out = o /\ ex'[f].id = id
    BY DEF NoSessionLeft
<1>1. id \in told[o].opened \ told[o].closed
    BY DEF ToldStep
<1>2. Session(o, id) /\ o \in Conns
    BY <1>1 DEF SessionsOwned, Conns
<1>3. Live(o)
    BY <1>2 DEF Live, Onward, Session
<1>4. PICK f \in Fds : ex[f].out = o /\ ex[f].id = id
    BY <1>1, <1>3 DEF NoSessionLeft
<1> QED
    BY <1>4

\* A client whose query was dropped stays without ext_connection.
LEMMA DroppedKept ==
    ASSUME DroppedOut, FdsHeld, TypeOK, Onward, ExStep, dropped' = dropped,
           NEW T, EqFrom(T), \A t \in T : t.job = "query" /\ t.flags => t.who \in dropped
    PROVE  DroppedOut'
<1>1. ASSUME NEW c \in dropped
      PROVE  conn'[c].st # "none" /\ (Alive(c)' => ex'[conn'[c].fd] = NoEx)
    <2>1. c \in Conns /\ conn[c].st # "none"
        BY DEF TypeOK, Conns, DroppedOut
    <2>2. Alive(c)' => Alive(c) /\ conn'[c].fd = conn[c].fd /\ conn[c].fd \in Fds
        BY <2>1 DEF Onward, FdsHeld
    <2>3. Alive(c) => ex[conn[c].fd] = NoEx
        BY DEF DroppedOut, Has
    <2> QED
        BY <2>1, <2>2, <2>3 DEF Onward, ExStep
<1>2. ASSUME NEW i \in 1 .. Len(eq'), NEW t, t = eq'[i], t.job = "query", t.flags
      PROVE  t.who \in dropped
    BY <1>2 DEF EqFrom, DroppedOut
<1> QED
    BY <1>1, <1>2 DEF DroppedOut, Has, Alive

\* The order of queries in the next state, with its expressions named.
LEMMA OrderNext ==
    ASSUME \A c \in Clients \ dropped' : \A a, l : a = asked'[c] /\ l = Len(eq') =>
               (\A n \in forwarded'[c] : n <= a) /\ Follows(c, a, l)',
           \A c \in Clients \ dropped' : \A i \in 1 .. Len(eq') : \A t : t = eq'[i] /\ QueryOf(i, c)' =>
               t.n <= asked'[c] /\ Follows(c, t.n - 1, i - 1)'
    PROVE  InOrder'
<1>1. ASSUME NEW c \in Clients \ dropped'
      PROVE  (\A n \in forwarded'[c] : n <= asked'[c]) /\ Follows(c, asked[c], Len(eq))'
    <2>1. PICK a, l : a = asked'[c] /\ l = Len(eq')
        OBVIOUS
    <2>2. (\A n \in forwarded'[c] : n <= a) /\ Follows(c, a, l)'
        BY <2>1
    <2> QED
        BY <2>1, <2>2 DEF Follows, QueryOf
<1>2. ASSUME NEW c \in Clients \ dropped', NEW i \in 1 .. Len(eq'), QueryOf(i, c)'
      PROVE  eq'[i].n <= asked'[c] /\ Follows(c, eq[i].n - 1, i - 1)'
    <2>1. PICK t : t = eq'[i]
        OBVIOUS
    <2>2. t.n <= asked'[c] /\ Follows(c, t.n - 1, i - 1)'
        BY <1>2, <2>1
    <2> QED
        BY <2>1, <2>2 DEF Follows, QueryOf
<1> QED
    BY <1>1, <1>2, Zenon DEF InOrder

\* The queries that wait, when something else joins the queue.
LEMMA OrderAppended ==
    ASSUME InOrder, TypeOK, NEW t \in Tasks, eq' = Append(eq, t), t.job # "query" \/ t.n = Malformed,
           UNCHANGED <<asked, forwarded, dropped>>
    PROVE  InOrder'
<1>1. /\ Len(eq') = Len(eq) + 1 /\ Len(eq) \in Nat /\ eq'[Len(eq) + 1] = t
      /\ \A i \in 1 .. Len(eq) : eq'[i] = eq[i]
    BY SMT, Appended DEF TypeOK
<1>2. ASSUME NEW c, NEW n, NEW k \in 0 .. Len(eq), Follows(c, n, k)
      PROVE  Follows(c, n, k)' /\ Follows(c, n, k + 1)'
    BY SMT, <1>1, <1>2 DEF Follows, QueryOf
<1>3. ASSUME NEW c \in Clients \ dropped', NEW a, a = asked'[c], NEW l, l = Len(eq')
      PROVE  (\A n \in forwarded'[c] : n <= a) /\ Follows(c, a, l)'
    <2>1. \A n \in forwarded[c] : n <= a
        BY <1>3 DEF InOrder
    <2>2. PICK k \in 0 .. Len(eq) : k = Len(eq) /\ l = k + 1 /\ Follows(c, a, k)
        BY SMT, <1>1, <1>3 DEF InOrder
    <2> QED
        BY <1>2, <2>1, <2>2
<1>4. ASSUME NEW c \in Clients \ dropped', NEW i \in 1 .. Len(eq'), NEW u, u = eq'[i], QueryOf(i, c)'
      PROVE  u.n <= asked'[c] /\ Follows(c, u.n - 1, i - 1)'
    <2>1. i \in 1 .. Len(eq) /\ QueryOf(i, c) /\ u = eq[i]
        BY SMT, <1>1, <1>4 DEF QueryOf
    <2>2. u.n <= asked[c] /\ Follows(c, u.n - 1, i - 1)
        BY <2>1 DEF InOrder
    <2> QED
        BY SMT, <1>1, <1>2, <2>1, <2>2
<1> QED
    BY <1>3, <1>4, OrderNext

\* The queries that wait, when a client hands over the next one.
LEMMA OrderAsked ==
    ASSUME InOrder, TypeOK, NEW d \in Clients, NEW t \in Tasks, t.job = "query", t.who = d, t.n = asked[d] + 1,
           eq' = Append(eq, t), asked' = [asked EXCEPT ![d] = @ + 1], UNCHANGED <<forwarded, dropped>>
    PROVE  InOrder'
<1>1. /\ Len(eq') = Len(eq) + 1 /\ Len(eq) \in Nat /\ eq'[Len(eq) + 1] = t
      /\ \A i \in 1 .. Len(eq) : eq'[i] = eq[i]
    BY SMT, Appended DEF TypeOK
<1>2. ASSUME NEW c, NEW n, NEW k \in 0 .. Len(eq), Follows(c, n, k)
      PROVE  Follows(c, n, k)' /\ Follows(c, n, k + 1)'
    BY SMT, <1>1, <1>2 DEF Follows, QueryOf
<1>a. /\ asked'[d] = asked[d] + 1 /\ \A c \in Clients : c # d => asked'[c] = asked[c]
      /\ \A c \in Clients : asked[c] \in Nat /\ asked'[c] \in Nat /\ asked[c] <= asked'[c] /\ forwarded[c] \subseteq Nat
    BY SMT DEF TypeOK
<1>3. ASSUME NEW c \in Clients \ dropped', NEW a, a = asked'[c], NEW l, l = Len(eq')
      PROVE  (\A n \in forwarded'[c] : n <= a) /\ Follows(c, a, l)'
    <2>1. \A n \in forwarded[c] : n \in Nat /\ n <= asked[c]
        BY <1>a DEF InOrder
    <2>2. \A n \in forwarded[c] : n <= a
        BY SMT, <1>3, <1>a, <2>1
    <2>3. CASE c = d
        <3>1. l \in 1 .. l /\ QueryOf(l, c)' /\ eq'[l].n = a
            BY SMT, <1>1, <1>3, <1>a, <2>3 DEF QueryOf, Malformed
        <3> QED
            BY <2>2, <3>1 DEF Follows
    <2>4. CASE c # d
        <3>1. PICK k \in 0 .. Len(eq) : k = Len(eq) /\ l = k + 1 /\ Follows(c, a, k)
            BY SMT, <1>1, <1>3, <1>a, <2>4 DEF InOrder
        <3> QED
            BY <1>2, <2>2, <3>1
    <2> QED
        BY <2>3, <2>4
<1>4. ASSUME NEW c \in Clients \ dropped', NEW i \in 1 .. Len(eq'), NEW u, u = eq'[i], QueryOf(i, c)'
      PROVE  u.n <= asked'[c] /\ Follows(c, u.n - 1, i - 1)'
    <2>1. CASE i \in 1 .. Len(eq)
        <3>1. QueryOf(i, c) /\ u = eq[i] /\ u \in Tasks
            BY SMT, <1>1, <1>4, <2>1 DEF QueryOf, TypeOK
        <3>2. u.n <= asked[c] /\ Follows(c, u.n - 1, i - 1) /\ u.n \in Nat
            BY <2>1, <3>1, TaskFields DEF InOrder, QueryOf
        <3> QED
            BY SMT, <1>1, <1>2, <1>a, <2>1, <3>2
    <2>2. CASE i = Len(eq) + 1
        <3>1. c = d /\ u = t
            BY <1>1, <1>4, <2>2 DEF QueryOf
        <3>2. PICK k \in 0 .. Len(eq) : k = Len(eq) /\ i - 1 = k
            BY SMT, <1>1, <2>2
        <3>3. PICK a \in Nat : a = asked[c] /\ u.n = a + 1 /\ u.n - 1 = a
            BY SMT, <1>a, <3>1
        <3>4. Follows(c, a, k)
            BY <3>2, <3>3 DEF InOrder
        <3> QED
            BY SMT, <1>2, <1>a, <3>1, <3>2, <3>3, <3>4
    <2> QED
        BY SMT, <1>1, <2>1, <2>2
<1> QED
    BY <1>3, <1>4, OrderNext

\* The queries that wait, when the first job is taken: if it was a query of a
\* client not dropped, it is forwarded.
LEMMA OrderTaken ==
    ASSUME InOrder, TypeOK, eq # <<>>, eq' = Tail(eq), asked' = asked, dropped \subseteq dropped',
           \A c \in Clients \ dropped' :
               /\ QueryOf(1, c) => eq[1].n \in forwarded'[c]
               /\ forwarded[c] \subseteq forwarded'[c]
               /\ \A n \in forwarded'[c] : n \in forwarded[c] \/ (QueryOf(1, c) /\ n = eq[1].n)
    PROVE  InOrder'
<1>0. Len(eq) \in 1 .. Len(eq)
    BY SMT, Taken DEF TypeOK
<1>1. /\ Len(eq') = Len(eq) - 1 /\ Len(eq) \in Nat /\ 1 \in 1 .. Len(eq)
      /\ \A i \in 1 .. Len(eq') : i + 1 \in 1 .. Len(eq) /\ eq'[i] = eq[i + 1]
    BY Taken DEF TypeOK
<1>2. ASSUME NEW c \in Clients \ dropped', NEW n, NEW k \in 1 .. Len(eq), Follows(c, n, k)
      PROVE  Follows(c, n, k - 1)'
    <2>1. CASE n = 0 \/ n \in forwarded[c]
        BY <2>1 DEF Follows
    <2>2. ASSUME NEW j \in 1 .. k, QueryOf(j, c), eq[j].n = n
          PROVE  Follows(c, n, k - 1)'
        <3>1. CASE j = 1
            BY <2>2, <3>1 DEF Follows
        <3>2. CASE j # 1
            <4>1. j - 1 \in 1 .. Len(eq') /\ j - 1 \in 1 .. k - 1 /\ eq'[j - 1] = eq[j]
                BY SMT, <1>1, <3>2
            <4>2. QueryOf(j - 1, c)' /\ eq'[j - 1].n = n
                BY <2>2, <4>1 DEF QueryOf
            <4> QED
                BY <4>1, <4>2 DEF Follows
        <3> QED
            BY <3>1, <3>2
    <2> QED
        BY <1>2, <2>1, <2>2 DEF Follows
<1>3. ASSUME NEW c \in Clients \ dropped', NEW a, a = asked'[c], NEW l, l = Len(eq')
      PROVE  (\A n \in forwarded'[c] : n <= a) /\ Follows(c, a, l)'
    <2>1. (\A n \in forwarded[c] : n <= a) /\ (QueryOf(1, c) => eq[1].n <= a) /\ Follows(c, a, Len(eq))
        BY <1>1, <1>3 DEF InOrder
    <2>2. PICK k \in 1 .. Len(eq) : k = Len(eq)
        BY <1>0
    <2>3. l = k - 1 /\ Follows(c, a, k)
        BY <1>1, <1>3, <2>1, <2>2
    <2> QED
        BY <1>2, <2>1, <2>2, <2>3
<1>4. ASSUME NEW c \in Clients \ dropped', NEW i \in 1 .. Len(eq'), NEW u, u = eq'[i], QueryOf(i, c)'
      PROVE  u.n <= asked'[c] /\ Follows(c, u.n - 1, i - 1)'
    <2>1. PICK k \in 1 .. Len(eq) : k = i + 1 /\ u = eq[k] /\ QueryOf(k, c)
        BY SMT, <1>1, <1>4 DEF QueryOf
    <2>2. u.n <= asked[c] /\ Follows(c, u.n - 1, k - 1) /\ k - 1 = i /\ i \in 1 .. Len(eq)
        BY SMT, <1>1, <2>1 DEF InOrder
    <2> QED
        BY <1>2, <2>2
<1> QED
    BY <1>3, <1>4, OrderNext

-----------------------------------------------------------------------------
(***************************************************************************)
(* The actions that leave the notification queue, the registered           *)
(* connections and the ids alone.                                          *)
(***************************************************************************)
\* What they keep.
LEMMA CalmStep ==
    ASSUME RelayInv, Gentle, UNCHANGED <<slot, nq, out, tag>>, ExStep, ToldStep,
           NEW T, EqFrom(T),
           \A t \in T :
               /\ t.job # "notify" => t.who \in Conns /\ Alive(t.who)
               /\ t.job \in {"RPC_PROXY_ANS", "RPC_SIMPLE_ACK"} => Owner(t.id, t.to[1])
               /\ t.job = "RPC_CLOSE_EXT" => t.id \in told'[t.who].opened \cap told'[t.who].closed,
           \A o \in Outs : \A r \in remote'[o] : r \in remote[o] \/ Owner(r.id, r.q[1])
    PROVE  FdsHeld' /\ RefsHeld' /\ EventsOrdered' /\ HeadsSound' /\ TableSound' /\ AnswersOwned' /\ SessionsOwned'
<1>0. /\ TypeOK /\ eq \in Seq(Tasks) /\ nq \in Seq(Events) /\ FdsHeld /\ RefsHeld /\ EventsOrdered
      /\ HeadsSound /\ TableSound /\ AnswersOwned /\ SessionsOwned
    BY DEF RelayInv, TypeOK
<1>1. Onward /\ Retained
    BY GentleSteps
<1>2. FdsHeld'
    BY <1>0, FdsKept
<1>3. RefsHeld'
    <2>1. \A t \in T : t.job # "notify" => Alive(t.who)'
        BY <1>1 DEF Retained
    <2>2. NqFrom({})
        BY <1>0, NqSteps
    <2> QED
        BY <1>0, <1>1, <2>1, <2>2, RefsKept
<1>4. EventsOrdered'
    BY <1>0, EventsKept
<1>5. HeadsSound'
    BY <1>0, <1>1, HeadsKept
<1>6. TableSound'
    BY <1>0, <1>1, TableKept
<1>7. \A id, c : Owner(id, c) => Owner(id, c)'
    BY <1>0, <1>1, OwnerKept
<1>8. AnswersOwned'
    <2>1. \A t \in T : t.job \in {"RPC_PROXY_ANS", "RPC_SIMPLE_ACK"} => Owner(t.id, t.to[1])'
        BY <1>7
    <2>2. \A o \in Outs : \A r \in remote'[o] : r \in remote[o] \/ Owner(r.id, r.q[1])'
        BY <1>7
    <2> QED
        BY <1>0, <1>1, <2>1, <2>2, AnswersKept
<1>9. SessionsOwned'
    BY <1>0, <1>1, SessionsKept
<1> QED
    BY <1>2, <1>3, <1>4, <1>5, <1>6, <1>8, <1>9

\* What has been delivered stays delivered to its owner.
LEMMA DeliveredKept ==
    ASSUME AnswersReachOwner, SameGot, ~aborted'
    PROVE  AnswersReachOwner'
BY DEF AnswersReachOwner, SameGot, Conns

\* A step that only fails connections, or drops their sockets.
LEMMA FailingStep ==
    ASSUME RelayInv, Gentle, SameGot, conn' \in [Conns -> ConnRecs],
           UNCHANGED <<dropped, ex, slot, out, tag, eq, nq, peers, aborted>>
    PROVE  RelayInv'
<1>0. /\ TypeOK /\ FdsHeld /\ SessionsOwned /\ DroppedOut /\ InOrder /\ AnswersReachOwner /\ NoSessionLeft /\ NoGaps
      /\ eq \in Seq(Tasks)
    BY DEF RelayInv, TypeOK
<1>1. EqFrom({}) /\ ExStep /\ ToldStep /\ Onward
    BY <1>0, EqSteps, GentleSteps DEF ExStep, ToldStep, peers
<1>2. TypeOK'
    BY <1>0 DEF TypeOK, peers
<1>3. FdsHeld' /\ RefsHeld' /\ EventsOrdered' /\ HeadsSound' /\ TableSound' /\ AnswersOwned' /\ SessionsOwned'
    BY <1>1, CalmStep DEF peers
<1>4. DroppedOut'
    BY <1>0, <1>1, DroppedKept
<1>5. InOrder' /\ NoGaps'
    BY SMT, <1>0 DEF InOrder, Follows, QueryOf, NoGaps, peers
<1>6. AnswersReachOwner'
    BY <1>0, DeliveredKept DEF AnswersReachOwner
<1>7. NoSessionLeft'
    BY <1>0, <1>1, SessionLeftKept
<1> QED
    BY <1>2, <1>3, <1>4, <1>5, <1>6, <1>7 DEF RelayInv

\* SocketFails, check_conn_buffers and check_all_conn_buffers keep the invariant.
LEMMA FailingInv ==
    ASSUME RelayInv,
           \/ \E x \in Conns : SocketFails(x)
           \/ \E c \in Clients : check_conn_buffers(c)
           \/ check_all_conn_buffers
           \/ UNCHANGED vars
    PROVE  RelayInv'
<1>0. conn \in [Conns -> ConnRecs]
    BY DEF RelayInv, TypeOK
<1>1. ASSUME NEW x \in Conns, SocketFails(x)
      PROVE  RelayInv'
    <2>1. conn' = [conn EXCEPT ![x] = [conn[x] EXCEPT !.sock = FALSE]]
        BY <1>0, <1>1 DEF SocketFails
    <2>2. \A r \in ConnRecs : LET u == [r EXCEPT !.sock = FALSE] IN
              u \in ConnRecs /\ u.fd = r.fd /\ u.st = r.st /\ u.sock = FALSE /\ u.got = r.got
        BY DEF ConnRecs
    <2>3. conn' \in [Conns -> ConnRecs]
        BY <1>0, <2>1, <2>2
    <2>4. ASSUME NEW y \in Conns
          PROVE  /\ conn'[y].fd = conn[y].fd /\ conn'[y].st = conn[y].st
                 /\ conn'[y].sock => conn[y].sock
                 /\ conn'[y].got = conn[y].got
        BY <1>0, <2>1, <2>2
    <2>5. Gentle /\ SameGot
        BY <2>4 DEF Gentle, SameGot
    <2> QED
        BY <1>0, <1>1, <2>3, <2>5, FailingStep DEF SocketFails, table
<1>2. ASSUME NEW c \in Clients, check_conn_buffers(c)
      PROVE  RelayInv'
    BY <1>0, <1>2, FailSteps, FailingStep DEF check_conn_buffers, table
<1>3. ASSUME check_all_conn_buffers
      PROVE  RelayInv'
    <2>1. PICK k \in 1 .. Len(lru) : conn' = Fail({ex[lru[i]].in : i \in {j \in 1 .. k : Live(ex[lru[j]].in)}})
        BY <1>3 DEF check_all_conn_buffers
    <2>2. Gentle /\ SameGot /\ conn' \in [Conns -> ConnRecs]
        BY <1>0, <2>1, FailSteps
    <2> QED
        BY <1>3, <2>2, FailingStep DEF check_all_conn_buffers
<1>4. ASSUME UNCHANGED vars
      PROVE  RelayInv'
    BY <1>0, <1>4, SameConn, FailingStep DEF vars, table
<1> QED
    BY <1>1, <1>2, <1>3, <1>4

\* ext_rpcs_execute keeps the invariant: the job holds a reference, and the
\* query follows those handed over before it.
LEMMA AskInv ==
    ASSUME RelayInv, NEW c \in Clients, ext_rpcs_execute(c)
    PROVE  RelayInv'
<1>0. /\ TypeOK /\ FdsHeld /\ SessionsOwned /\ DroppedOut /\ InOrder /\ AnswersReachOwner /\ NoSessionLeft /\ NoGaps
      /\ eq \in Seq(Tasks) /\ asked \in [Clients -> Nat]
    BY DEF RelayInv, TypeOK
<1>1. UNCHANGED <<conn, dropped, ex, slot, out, tag, lru, nq, remote, told, forwarded, aborted>>
    BY DEF ext_rpcs_execute, table
<1>2. PICK n \in Nat : /\ eq' = Append(eq, [job |-> "query", who |-> c, n |-> n, flags |-> c \in dropped])
                       /\ \/ n = asked[c] + 1 /\ asked' = [asked EXCEPT ![c] = @ + 1]
                          \/ n = Malformed /\ asked' = asked
    BY SMT, <1>0 DEF ext_rpcs_execute, Malformed
<1>3. PICK b \in BOOLEAN : b = (c \in dropped)
    <2>1. (c \in dropped) \in BOOLEAN
        BY SMT
    <2> QED
        BY <2>1, Zenon
<1>4. PICK t : t = [job |-> "query", who |-> c, n |-> n, flags |-> b]
    OBVIOUS
<1>5. /\ t \in Tasks /\ t.job = "query" /\ t.who = c /\ t.n = n /\ (t.flags => c \in dropped)
      /\ eq' = Append(eq, t)
    BY <1>2, <1>3, <1>4 DEF Tasks
<1>6. Gentle /\ SameGot /\ Onward /\ ExStep /\ ToldStep
    BY <1>1, SameConn, GentleSteps DEF ExStep, ToldStep
<1>7. EqFrom({t}) /\ eq' \in Seq(Tasks)
    BY <1>0, <1>5, EqSteps
<1>8. c \in Conns /\ Alive(c)
    BY DEF ext_rpcs_execute, Alive, Conns
<1>9. FdsHeld' /\ RefsHeld' /\ EventsOrdered' /\ HeadsSound' /\ TableSound' /\ AnswersOwned' /\ SessionsOwned'
    <2>1. /\ \A u \in {t} :
               /\ u.job # "notify" => u.who \in Conns /\ Alive(u.who)
               /\ u.job \in {"RPC_PROXY_ANS", "RPC_SIMPLE_ACK"} => Owner(u.id, u.to[1])
               /\ u.job = "RPC_CLOSE_EXT" => u.id \in told'[u.who].opened \cap told'[u.who].closed
          /\ \A o \in Outs : \A r \in remote'[o] : r \in remote[o] \/ Owner(r.id, r.q[1])
        BY <1>1, <1>5, <1>8
    <2> QED
        BY <1>1, <1>6, <1>7, <2>1, CalmStep
<1>10. DroppedOut'
    BY <1>0, <1>1, <1>5, <1>6, <1>7, DroppedKept
<1>11. asked' \in [Clients -> Nat] /\ TypeOK'
    BY <1>0, <1>1, <1>2, <1>7 DEF TypeOK
<1>12. InOrder'
    <2>1. CASE n = asked[c] + 1 /\ asked' = [asked EXCEPT ![c] = @ + 1]
        BY <1>0, <1>1, <1>5, <2>1, OrderAsked
    <2>2. CASE n = Malformed /\ asked' = asked
        BY <1>0, <1>1, <1>5, <2>2, OrderAppended
    <2> QED
        BY <1>2, <2>1, <2>2
<1>13. NoGaps' /\ AnswersReachOwner'
    BY <1>0, <1>1 DEF NoGaps, AnswersReachOwner
<1>14. NoSessionLeft'
    BY <1>0, <1>1, <1>6, SessionLeftKept
<1> QED
    BY <1>9, <1>10, <1>11, <1>12, <1>13, <1>14 DEF RelayInv

\* A packet of a middle-end joins the queue: what all of them keep.
LEMMA PacketStep ==
    ASSUME RelayInv, NEW t \in Tasks, t.job \notin {"query", "notify"}, eq' = Append(eq, t), Alive(t.who),
           t.job \in {"RPC_PROXY_ANS", "RPC_SIMPLE_ACK"} => Owner(t.id, t.to[1]),
           t.job = "RPC_CLOSE_EXT" => t.id \in told'[t.who].opened \cap told'[t.who].closed,
           \A o \in Outs : remote'[o] \subseteq remote[o],
           ToldStep, TypeOK',
           UNCHANGED <<conn, dropped, ex, slot, out, tag, nq, asked, forwarded, aborted>>
    PROVE  RelayInv'
<1>0. /\ TypeOK /\ FdsHeld /\ SessionsOwned /\ DroppedOut /\ InOrder /\ AnswersReachOwner /\ NoSessionLeft /\ NoGaps
      /\ eq \in Seq(Tasks)
    BY DEF RelayInv, TypeOK
<1>1. Gentle /\ SameGot /\ Onward /\ ExStep
    BY SameConn, GentleSteps DEF ExStep
<1>2. EqFrom({t})
    BY <1>0, EqSteps
<1>3. FdsHeld' /\ RefsHeld' /\ EventsOrdered' /\ HeadsSound' /\ TableSound' /\ AnswersOwned' /\ SessionsOwned'
    <2>1. t.who \in Conns
        BY TaskFields
    <2>2. \A u \in {t} :
             /\ u.job # "notify" => u.who \in Conns /\ Alive(u.who)
             /\ u.job \in {"RPC_PROXY_ANS", "RPC_SIMPLE_ACK"} => Owner(u.id, u.to[1])
             /\ u.job = "RPC_CLOSE_EXT" => u.id \in told'[u.who].opened \cap told'[u.who].closed
        BY <2>1
    <2> QED
        BY <1>1, <1>2, <2>2, CalmStep
<1>4. DroppedOut'
    BY <1>0, <1>1, <1>2, DroppedKept
<1>5. InOrder'
    BY <1>0, OrderAppended
<1>6. NoGaps' /\ AnswersReachOwner'
    BY <1>0 DEF NoGaps, AnswersReachOwner
<1>7. NoSessionLeft'
    BY <1>0, <1>1, SessionLeftKept
<1> QED
    BY <1>3, <1>4, <1>5, <1>6, <1>7 DEF RelayInv

\* An answer of a middle-end keeps the invariant: it names the request's owner.
LEMMA AnswerInv ==
    ASSUME RelayInv, NEW o \in Outs, MiddleEndAnswers(o)
    PROVE  RelayInv'
<1>0. TypeOK /\ FdsHeld /\ AnswersOwned /\ eq \in Seq(Tasks) /\ remote \in [Outs -> SUBSET Requests]
    BY DEF RelayInv, TypeOK
<1>1. UNCHANGED <<conn, dropped, ex, slot, out, tag, lru, nq, told, asked, forwarded, aborted>>
    BY DEF MiddleEndAnswers, table
<1>2. PICK r \in remote[o], job \in {"RPC_PROXY_ANS", "RPC_SIMPLE_ACK"} :
          /\ remote' = [remote EXCEPT ![o] = @ \ {r}]
          /\ eq' = Append(eq, [job |-> job, who |-> o, id |-> r.id, to |-> r.q])
    BY DEF MiddleEndAnswers
<1>3. r \in Requests
    BY <1>0
<1>4. PICK t : t = [job |-> job, who |-> o, id |-> r.id, to |-> r.q]
    OBVIOUS
<1>5. t \in Tasks /\ t.job = job /\ t.who = o /\ t.id = r.id /\ t.to = r.q /\ eq' = Append(eq, t)
    BY <1>2, <1>3, <1>4 DEF Tasks, Requests
<1>6. Owner(t.id, t.to[1])
    <2>1. Owner(r.id, r.q[1])
        BY <1>0 DEF AnswersOwned
    <2> QED
        BY <1>5, <2>1
<1>7. Alive(o)
    BY <1>0 DEF MiddleEndAnswers, Live, FdsHeld, Conns, Alive
<1>8. remote' \in [Outs -> SUBSET Requests] /\ \A p \in Outs : remote'[p] \subseteq remote[p]
    BY <1>0, <1>2
<1>9. TypeOK'
    <2>1. eq' \in Seq(Tasks)
        BY <1>0, <1>5, EqSteps
    <2> QED
        BY <1>0, <1>1, <1>8, <2>1 DEF TypeOK
<1>10. ToldStep
    BY <1>1 DEF ToldStep
<1> QED
    BY <1>1, <1>5, <1>6, <1>7, <1>8, <1>9, <1>10, PacketStep

\* A middle-end closes a session, and keeps the invariant: both sides know.
LEMMA RemoteCloseInv ==
    ASSUME RelayInv, NEW o \in Outs, MiddleEndCloses(o)
    PROVE  RelayInv'
<1>0. /\ TypeOK /\ FdsHeld /\ eq \in Seq(Tasks)
      /\ told \in [Outs -> [opened : SUBSET Nat, closed : SUBSET Nat]]
    BY DEF RelayInv, TypeOK
<1>1. UNCHANGED <<conn, dropped, ex, slot, out, tag, lru, nq, remote, asked, forwarded, aborted>>
    BY DEF MiddleEndCloses, table
<1>2. PICK id \in told[o].opened \ told[o].closed :
          /\ told' = [told EXCEPT ![o].closed = @ \cup {id}]
          /\ eq' = Append(eq, [job |-> "RPC_CLOSE_EXT", who |-> o, id |-> id])
    BY DEF MiddleEndCloses
<1>3. id \in Nat
    BY <1>0
<1>4. PICK t : t = [job |-> "RPC_CLOSE_EXT", who |-> o, id |-> id]
    OBVIOUS
<1>5. t \in Tasks /\ t.job = "RPC_CLOSE_EXT" /\ t.who = o /\ t.id = id /\ eq' = Append(eq, t)
    BY <1>2, <1>3, <1>4 DEF Tasks
<1>6. /\ told' \in [Outs -> [opened : SUBSET Nat, closed : SUBSET Nat]]
      /\ ToldStep
      /\ id \in told'[o].opened \cap told'[o].closed
    BY <1>0, <1>2, <1>3 DEF ToldStep
<1>7. Alive(o)
    BY <1>0 DEF MiddleEndCloses, Live, FdsHeld, Conns, Alive
<1>8. TypeOK'
    <2>1. eq' \in Seq(Tasks)
        BY <1>0, <1>5, EqSteps
    <2> QED
        BY <1>0, <1>1, <1>6, <2>1 DEF TypeOK
<1> QED
    BY <1>1, <1>5, <1>6, <1>7, <1>8, PacketStep

-----------------------------------------------------------------------------
(***************************************************************************)
(* The packets of the middle-ends are executed.                            *)
(***************************************************************************)
\* A middle-end connection is told of closed ids, if it lives.
LEMMA NotifiedSteps ==
    ASSUME TypeOK, NEW o \in Outs \cup {NoConn}, NEW ids \in SUBSET Nat, NEW t, t = Notified(told, o, ids)
    PROVE  /\ t \in [Outs -> [opened : SUBSET Nat, closed : SUBSET Nat]]
           /\ \A q \in Outs : t[q].opened = told[q].opened /\ told[q].closed \subseteq t[q].closed
           /\ Live(o) => ids \subseteq t[o].closed
<1>0. told \in [Outs -> [opened : SUBSET Nat, closed : SUBSET Nat]]
    BY DEF TypeOK
<1>1. CASE ~Live(o)
    BY <1>0, <1>1 DEF Notified
<1>2. CASE Live(o)
    <2>1. o \in Outs
        BY <1>2 DEF Live
    <2>2. t = [told EXCEPT ![o].closed = @ \cup ids]
        BY <1>2 DEF Notified
    <2> QED
        BY SMT, <1>0, <2>1, <2>2
<1> QED
    BY <1>1, <1>2

\* The first job is taken: what executing a packet keeps.
LEMMA ExecutedStep ==
    ASSUME RelayInv, eq # <<>>, eq' = Tail(eq), eq[1].job # "query" \/ eq[1].n = Malformed,
           Gentle, TypeOK', AnswersReachOwner', ExStep, ToldStep,
           \A f \in Fds : \/ ex'[f] = ex[f]
                         \/ \A o \in Outs : Live(o)' /\ ex[f].out = o => ex[f].id \in told'[o].closed,
           UNCHANGED <<dropped, slot, out, tag, nq, remote, asked, forwarded>>
    PROVE  RelayInv'
<1>0. /\ TypeOK /\ FdsHeld /\ SessionsOwned /\ DroppedOut /\ InOrder /\ NoSessionLeft /\ NoGaps
      /\ eq \in Seq(Tasks)
    BY DEF RelayInv, TypeOK
<1>1. Onward /\ EqFrom({})
    BY <1>0, GentleSteps, EqSteps
<1>2. FdsHeld' /\ RefsHeld' /\ EventsOrdered' /\ HeadsSound' /\ TableSound' /\ AnswersOwned' /\ SessionsOwned'
    BY <1>1, CalmStep
<1>3. DroppedOut'
    BY <1>0, <1>1, DroppedKept
<1>4. InOrder'
    <2>1. \A c : ~QueryOf(1, c)
        BY DEF QueryOf
    <2> QED
        BY <1>0, <2>1, OrderTaken
<1>5. NoGaps'
    BY <1>0 DEF NoGaps
<1>6. NoSessionLeft'
    BY <1>0, <1>1, SessionLeftKept
<1> QED
    BY <1>2, <1>3, <1>4, <1>5, <1>6 DEF RelayInv

\* process_client_packet keeps the invariant: an answer reaches the client that
\* asked, if it reaches any.
LEMMA PacketInv ==
    ASSUME RelayInv, process_client_packet
    PROVE  RelayInv'
<1>0. /\ TypeOK /\ AnswersOwned /\ AnswersReachOwner /\ eq \in Seq(Tasks) /\ conn \in [Conns -> ConnRecs]
      /\ ex \in [Fds -> ExRecs]
    BY DEF RelayInv, TypeOK
<1>1. PICK p \in Tasks : p = eq[1] /\ p = Head(eq)
    BY <1>0, Taken DEF process_client_packet
<1>2. /\ p.job \in {"RPC_PROXY_ANS", "RPC_SIMPLE_ACK"} /\ eq # <<>> /\ eq' = Tail(eq) /\ Answer(p)
      /\ UNCHANGED <<dropped, ex, slot, out, tag, lru, nq, remote, asked, forwarded, aborted>>
    BY <1>1 DEF process_client_packet, Done, table
<1>3. p.who \in Outs /\ p.id \in Nat /\ p.to \in Clients \X Nat
    BY <1>2, TaskFields
<1>4. 1 \in 1 .. Len(eq) /\ eq' \in Seq(Tasks)
    BY <1>0, <1>2, Taken
<1>5. Owner(p.id, p.to[1])
    BY <1>0, <1>1, <1>2, <1>4 DEF AnswersOwned
<1>6. ExStep
    BY <1>2 DEF ExStep
<1>7. ASSUME NEW f \in Addressee(p.who, p.id), Deliver(f, p.to), told' = told
      PROVE  RelayInv'
    <2>1. /\ f = p.id % EXT_CONN_TABLE_SIZE /\ f \in Fds /\ Has(f) /\ slot[f] = p.id /\ Live(ex[f].in)
        BY <1>7 DEF Addressee, find_ext_connection_by_out_conn_id
    <2>2. PICK c \in Clients : c = ex[f].in
        BY <1>0, <2>1 DEF ExRecs, Has
    <2>3. p.to[1] = c
        BY <1>5, <2>1, <2>2 DEF Owner, Live
    <2>4. c \in Conns /\ conn[c] \in ConnRecs
        BY <1>0 DEF Conns
    <2>5. conn' = [conn EXCEPT ![c] = [conn[c] EXCEPT !.got = @ \cup {p.to}]]
        BY <1>7, <2>2, <2>4 DEF Deliver
    <2>6. PICK u : u = [conn[c] EXCEPT !.got = @ \cup {p.to}]
        OBVIOUS
    <2>7. /\ u \in ConnRecs /\ u.fd = conn[c].fd /\ u.st = conn[c].st /\ u.sock = conn[c].sock
          /\ u.got = conn[c].got \cup {p.to}
        BY <1>3, <2>4, <2>6 DEF ConnRecs
    <2>8. conn' = [conn EXCEPT ![c] = u]
        BY <2>5, <2>6
    <2>9. conn' \in [Conns -> ConnRecs] /\ conn'[c] = u /\ \A x \in Conns : x # c => conn'[x] = conn[x]
        BY <1>0, <2>4, <2>7, <2>8
    <2>10. Gentle
        BY <2>7, <2>9 DEF Gentle
    <2>11. AnswersReachOwner'
        BY SMT, <1>0, <1>2, <2>3, <2>7, <2>9 DEF AnswersReachOwner, Conns
    <2>12. TypeOK'
        BY <1>0, <1>2, <1>4, <1>7, <2>9 DEF TypeOK
    <2>13. ToldStep
        BY <1>7 DEF ToldStep
    <2> QED
        BY <1>1, <1>2, <1>6, <2>10, <2>11, <2>12, <2>13, ExecutedStep
<1>8. ASSUME told' = Notified(told, p.who, {p.id}), conn' = conn
      PROVE  RelayInv'
    <2>1. ToldStep /\ told' \in [Outs -> [opened : SUBSET Nat, closed : SUBSET Nat]]
        <3>1. {p.id} \in SUBSET Nat /\ p.who \in Outs \cup {NoConn}
            BY <1>3
        <3>2. PICK o \in Outs \cup {NoConn}, ids \in SUBSET Nat : o = p.who /\ ids = {p.id}
            BY <3>1
        <3>3. told' = Notified(told, o, ids)
            BY <1>8, <3>2
        <3> QED
            BY <1>0, <3>3, NotifiedSteps DEF ToldStep
    <2>2. TypeOK'
        BY <1>0, <1>2, <1>4, <1>8, <2>1 DEF TypeOK
    <2>3. Gentle /\ AnswersReachOwner'
        BY <1>0, <1>2, <1>8, SameConn DEF AnswersReachOwner
    <2> QED
        BY <1>1, <1>2, <1>6, <2>1, <2>2, <2>3, ExecutedStep
<1> QED
    BY <1>2, <1>7, <1>8 DEF Answer

\* RPC_CLOSE_EXT keeps the invariant: the middle-end that closes the id is the
\* one it belongs to.
LEMMA CloseExtInv ==
    ASSUME RelayInv, process_close_ext
    PROVE  RelayInv'
<1>0. /\ TypeOK /\ SessionsOwned /\ TableSound /\ AnswersReachOwner /\ eq \in Seq(Tasks) /\ conn \in [Conns -> ConnRecs]
      /\ ex \in [Fds -> ExRecs]
    BY DEF RelayInv, TypeOK
<1>1. PICK p \in Tasks : p = eq[1] /\ p = Head(eq)
    BY <1>0, Taken DEF process_close_ext, At
<1>2. PICK fs : fs = find_ext_connection_by_out_conn_id(p.id)
    OBVIOUS
<1>3. /\ p.job = "RPC_CLOSE_EXT" /\ eq # <<>> /\ eq' = Tail(eq) /\ RemoveAndFail(fs)
      /\ UNCHANGED <<dropped, slot, out, tag, nq, remote, told, asked, forwarded, aborted>>
    BY <1>1, <1>2 DEF process_close_ext, At, Done, peers
<1>4. p.who \in Outs /\ 1 \in 1 .. Len(eq) /\ eq' \in Seq(Tasks)
    BY <1>0, <1>3, Taken, TaskFields
<1>5. p.id \in told[p.who].opened \cap told[p.who].closed /\ Session(p.who, p.id)
    BY <1>0, <1>1, <1>3, <1>4 DEF SessionsOwned
<1>6. \A f \in fs : f = p.id % EXT_CONN_TABLE_SIZE /\ f \in Fds /\ Has(f) /\ slot[f] = p.id
    BY <1>2 DEF find_ext_connection_by_out_conn_id
<1>7. /\ ex' = Unlinked(fs)
      /\ conn' = Fail({ex[f].in : f \in {g \in fs : Live(ex[g].in)}})
    BY <1>3 DEF RemoveAndFail
<1>8. Gentle /\ SameGot /\ conn' \in [Conns -> ConnRecs]
    BY <1>0, <1>7, FailSteps
<1>9. ExStep /\ ex' \in [Fds -> ExRecs] /\ \A f \in Fds : f \notin fs => ex'[f] = ex[f]
    BY <1>0, <1>7 DEF Unlinked, ExStep, ExRecs
<1>10. TypeOK'
    BY <1>0, <1>3, <1>4, <1>8, <1>9 DEF TypeOK
<1>11. AnswersReachOwner' /\ ToldStep
    BY <1>0, <1>3, <1>8, DeliveredKept DEF AnswersReachOwner, ToldStep
<1>12. ASSUME NEW f \in Fds, ex'[f] # ex[f], NEW o \in Outs, ex[f].out = o
       PROVE  ex[f].id \in told'[o].closed
    <2>1. f \in fs
        BY <1>9, <1>12
    <2>2. ex[f].id = p.id /\ o = p.who
        BY <1>0, <1>5, <1>6, <1>12, <2>1 DEF TableSound, Session
    <2> QED
        BY <1>3, <1>5, <2>2
<1> QED
    BY <1>1, <1>3, <1>8, <1>9, <1>10, <1>11, <1>12, ExecutedStep

-----------------------------------------------------------------------------
(***************************************************************************)
(* The queries of the clients are executed.                                *)
(***************************************************************************)
\* What an ext_connection is made of.
LEMMA ExFields ==
    ASSUME ex \in [Fds -> ExRecs], NEW f \in Fds
    PROVE  /\ ex[f].out \in Outs \cup {NoConn} /\ ex[f].id \in Nat
           /\ Has(f) => ex[f].in \in Clients /\ ex[f].out \in Outs
           /\ ~Has(f) => ex[f].out = NoConn
<1>1. ex[f] \in ExRecs
    OBVIOUS
<1> QED
    BY SMT, <1>1 DEF ExRecs, Has, NoEx

\* The ext_connection of a descriptor goes, and its middle-end is told
\* (remove_ext_connection with send_notifications 1).
LEMMA DetachSteps ==
    ASSUME TypeOK, NEW f \in Fds, Detach(f), Gentle
    PROVE  /\ told' \in [Outs -> [opened : SUBSET Nat, closed : SUBSET Nat]]
           /\ ToldStep
           /\ \A o \in Outs : Live(o)' /\ ex[f].out = o => ex[f].id \in told'[o].closed
<1>0. ex \in [Fds -> ExRecs]
    BY DEF TypeOK
<1>1. CASE ~Has(f)
    BY <1>0, <1>1, ExFields, RelayAssumption DEF Detach, TypeOK, ToldStep
<1>2. CASE Has(f)
    <2>1. PICK p \in Outs, ids \in SUBSET Nat : p = ex[f].out /\ ids = {ex[f].id}
        BY <1>0, <1>2, ExFields
    <2>2. told' = Notified(told, p, ids)
        BY <1>2, <2>1 DEF Detach
    <2>3. /\ told' \in [Outs -> [opened : SUBSET Nat, closed : SUBSET Nat]]
          /\ ToldStep
          /\ Live(p) => ids \subseteq told'[p].closed
        BY <2>2, NotifiedSteps DEF ToldStep
    <2>4. \A o \in Outs : Live(o)' => Live(o)
        BY DEF Live, Gentle, Conns
    <2> QED
        BY <2>1, <2>3, <2>4
<1> QED
    BY <1>1, <1>2

\* The ext_connections of some descriptors go.
LEMMA UnlinkedSteps ==
    ASSUME ex \in [Fds -> ExRecs], NEW fs, ex' = Unlinked(fs)
    PROVE  /\ ExStep /\ ex' \in [Fds -> ExRecs]
           /\ \A f \in Fds : (f \notin fs => ex'[f] = ex[f]) /\ (f \in fs => ex'[f] = NoEx)
BY DEF Unlinked, ExStep, ExRecs

\* The query at the head of the queue: its client holds a descriptor, and what
\* it carries has the types it was queued with.
LEMMA QueryAtHead ==
    ASSUME RelayInv, NEW p, p = Head(eq), eq # <<>>, p.job = "query"
    PROVE  /\ p = eq[1] /\ p.who \in Clients /\ p.who \in Conns /\ Alive(p.who) /\ conn[p.who].fd \in Fds
           /\ p.n \in Nat /\ p.flags \in BOOLEAN /\ (p.flags => p.who \in dropped)
           /\ \A d : QueryOf(1, d) <=> d = p.who /\ p.n # Malformed
<1>0. eq \in Seq(Tasks) /\ FdsHeld /\ RefsHeld /\ DroppedOut
    BY DEF RelayInv, TypeOK
<1>1. p = eq[1] /\ 1 \in 1 .. Len(eq) /\ p \in Tasks
    BY <1>0, Taken
<1>2. p.who \in Clients /\ p.n \in Nat /\ p.flags \in BOOLEAN /\ p.who \in Conns
    BY <1>1, TaskFields
<1>3. Alive(p.who)
    BY <1>0, <1>1 DEF RefsHeld
<1>4. conn[p.who].fd \in Fds
    BY <1>0, <1>2, <1>3 DEF FdsHeld
<1>5. p.flags => p.who \in dropped
    BY <1>0, <1>1 DEF DroppedOut
<1>6. \A d : QueryOf(1, d) <=> d = p.who /\ p.n # Malformed
    BY <1>1 DEF QueryOf
<1> QED
    BY <1>1, <1>2, <1>3, <1>4, <1>5, <1>6

\* A query that is forwarded follows the one before it.
LEMMA ForwardedNext ==
    ASSUME InOrder, NoGaps, TypeOK, eq # <<>>, NEW c \in Clients \ dropped, NEW n \in Nat \ {0}, n = eq[1].n,
           \A d : QueryOf(1, d) <=> d = c,
           forwarded' = [forwarded EXCEPT ![c] = @ \cup {n}], eq' = Tail(eq), UNCHANGED <<asked, dropped>>
    PROVE  InOrder' /\ NoGaps' /\ forwarded' \in [Clients -> SUBSET Nat]
<1>0. forwarded \in [Clients -> SUBSET Nat] /\ 1 \in 1 .. Len(eq)
    BY Taken DEF TypeOK
<1>1. forwarded' \in [Clients -> SUBSET Nat]
    BY <1>0
<1>2. forwarded'[c] = forwarded[c] \cup {n} /\ \A d \in Clients : d # c => forwarded'[d] = forwarded[d]
    BY <1>0
<1>3. InOrder'
    <2>1. ASSUME NEW d \in Clients \ dropped'
          PROVE  /\ QueryOf(1, d) => eq[1].n \in forwarded'[d]
                 /\ forwarded[d] \subseteq forwarded'[d]
                 /\ \A m \in forwarded'[d] : m \in forwarded[d] \/ (QueryOf(1, d) /\ m = eq[1].n)
        BY <1>2
    <2> QED
        BY <2>1, OrderTaken
<1>4. n = 1 \/ n - 1 \in forwarded[c]
    <2>1. Follows(c, n - 1, 0)
        <3>1. QueryOf(1, c)
            OBVIOUS
        <3>2. Follows(c, eq[1].n - 1, 1 - 1)
            BY <1>0, <3>1 DEF InOrder
        <3> QED
            BY SMT, <3>2
    <2> QED
        BY SMT, <2>1 DEF Follows
<1>5. NoGaps'
    <2> SUFFICES ASSUME NEW d \in Clients, NEW m \in forwarded'[d], NEW k \in 1 .. m
                 PROVE  k \in forwarded'[d]
        BY DEF NoGaps
    <2>1. CASE m \in forwarded[d]
        BY <1>2, <2>1 DEF NoGaps
    <2>2. CASE d = c /\ m = n
        <3>1. k = n \/ (k \in 1 .. n - 1 /\ n - 1 \in forwarded[c])
            BY SMT, <1>4, <2>2
        <3> QED
            BY <1>2, <2>2, <3>1 DEF NoGaps
    <2> QED
        BY <1>2, <2>1, <2>2
<1> QED
    BY <1>1, <1>3, <1>5

\* The ext_connection of a client's descriptor is its own, or of a client that
\* is gone.
LEMMA OwnEx ==
    ASSUME RelayInv, NEW c \in Clients, Alive(c), Has(conn[c].fd)
    PROVE  LET e == ex[conn[c].fd] IN
           /\ e.in = c \/ ~conn[e.in].sock
           /\ Owner(e.id, c) /\ e.id \in Nat /\ e.out \in Outs
<1>0. TypeOK /\ FdsHeld /\ TableSound /\ ex \in [Fds -> ExRecs] /\ slot \in [Fds -> Nat]
    BY DEF RelayInv, TypeOK
<1>1. PICK f \in Fds : f = conn[c].fd
    BY <1>0 DEF FdsHeld, Conns
<1>2. ex[f].in \in Clients /\ ex[f].out \in Outs /\ ex[f].id \in Nat
    BY <1>0, <1>1, ExFields
<1>3. /\ ex[f].id = slot[f] /\ ex[f].id % EXT_CONN_TABLE_SIZE = f
      /\ conn[ex[f].in].st # "none" /\ conn[ex[f].in].fd = f
    BY <1>0, <1>1 DEF TableSound
<1>4. conn[ex[f].in].sock => Alive(ex[f].in)
    BY <1>0, <1>2 DEF FdsHeld, Alive, Conns
<1>5. ex[f].in = c \/ ~conn[ex[f].in].sock
    BY <1>0, <1>1, <1>2, <1>3, <1>4 DEF FdsHeld, Conns
<1>6. Owner(ex[f].id, c)
    BY SMT, <1>0, <1>3, <1>5 DEF Owner, Issued
<1> QED
    BY <1>1, <1>2, <1>5, <1>6

\* A query under an ext_connection that is there.
LEMMA AttachedInv ==
    ASSUME RelayInv, NEW c \in Clients, Alive(c), conn[c].fd \in Fds, NEW n \in Nat \ {0}, eq # <<>>, n = eq[1].n,
           \A d : QueryOf(1, d) <=> d = c, eq' = Tail(eq), forward_attached(c, n),
           UNCHANGED <<out, tag, nq, asked>>
    PROVE  RelayInv'
<1>0. /\ TypeOK /\ FdsHeld /\ SessionsOwned /\ DroppedOut /\ InOrder /\ AnswersReachOwner /\ NoSessionLeft /\ NoGaps
      /\ eq \in Seq(Tasks) /\ remote \in [Outs -> SUBSET Requests]
    BY DEF RelayInv, TypeOK
<1>1. /\ UNCHANGED <<conn, dropped, ex, slot, told, aborted>>
      /\ forwarded' = [forwarded EXCEPT ![c] = @ \cup {n}]
      /\ Has(conn[c].fd)
    BY DEF forward_attached, Attached, Sends, Has
<1>2. PICK o \in Outs, id \in Nat : o = ex[conn[c].fd].out /\ id = ex[conn[c].fd].id /\ Owner(id, c)
    BY <1>1, OwnEx
<1>3. PICK r \in Requests : r = [id |-> id, q |-> <<c, n>>]
    BY DEF Requests
<1>4. r.id = id /\ r.q[1] = c
    BY <1>3
<1>5. /\ remote' \in [Outs -> SUBSET Requests]
      /\ \A q \in Outs : \A s \in remote'[q] : s \in remote[q] \/ s = r
    BY <1>0, <1>2, <1>3 DEF forward_attached, Sends
<1>6. Gentle /\ SameGot /\ Onward /\ ExStep /\ ToldStep /\ EqFrom({}) /\ eq' \in Seq(Tasks)
    BY <1>0, <1>1, SameConn, GentleSteps, EqSteps DEF ExStep, ToldStep
<1>7. FdsHeld' /\ RefsHeld' /\ EventsOrdered' /\ HeadsSound' /\ TableSound' /\ AnswersOwned' /\ SessionsOwned'
    <2>1. \A q \in Outs : \A s \in remote'[q] : s \in remote[q] \/ Owner(s.id, s.q[1])
        BY <1>2, <1>4, <1>5
    <2> QED
        BY <1>1, <1>6, <2>1, CalmStep
<1>8. DroppedOut'
    BY <1>0, <1>1, <1>6, DroppedKept
<1>9. InOrder' /\ NoGaps' /\ forwarded' \in [Clients -> SUBSET Nat]
    <2>1. c \notin dropped
        BY <1>0, <1>1 DEF DroppedOut
    <2> QED
        BY <1>0, <1>1, <2>1, ForwardedNext
<1>10. TypeOK'
    BY <1>0, <1>1, <1>5, <1>6, <1>9 DEF TypeOK
<1>11. AnswersReachOwner'
    BY <1>0, <1>1 DEF AnswersReachOwner
<1>12. NoSessionLeft'
    BY <1>0, <1>1, <1>6, SessionLeftKept
<1> QED
    BY <1>7, <1>8, <1>9, <1>10, <1>11, <1>12 DEF RelayInv

\* A query that cannot be forwarded, and closes or drops its client.
LEMMA RefusedInv ==
    ASSUME RelayInv, NEW c \in Clients, Alive(c), conn[c].fd \in Fds, eq # <<>>,
           \A d : QueryOf(1, d) => d = c, eq' = Tail(eq),
           Gentle, SameGot, conn' \in [Conns -> ConnRecs], ex' = Unlinked({conn[c].fd}), Detach(conn[c].fd),
           dropped' = dropped \cup {c},
           UNCHANGED <<slot, out, tag, nq, remote, asked, forwarded, aborted>>
    PROVE  RelayInv'
<1>0. /\ TypeOK /\ FdsHeld /\ SessionsOwned /\ DroppedOut /\ InOrder /\ AnswersReachOwner /\ NoSessionLeft /\ NoGaps
      /\ eq \in Seq(Tasks) /\ ex \in [Fds -> ExRecs]
    BY DEF RelayInv, TypeOK
<1>1. PICK f \in Fds : f = conn[c].fd
    OBVIOUS
<1>2. ExStep /\ ex' \in [Fds -> ExRecs] /\ ex'[f] = NoEx /\ \A g \in Fds : g # f => ex'[g] = ex[g]
    <2>1. PICK fs : fs = {f} /\ ex' = Unlinked(fs)
        BY <1>1
    <2>2. /\ ExStep /\ ex' \in [Fds -> ExRecs]
          /\ \A g \in Fds : (g \notin fs => ex'[g] = ex[g]) /\ (g \in fs => ex'[g] = NoEx)
        BY <1>0, <2>1, UnlinkedSteps, Zenon
    <2>3. f \in fs /\ \A g \in Fds : g # f => g \notin fs
        BY <2>1
    <2> QED
        BY <2>2, <2>3
<1>3. /\ told' \in [Outs -> [opened : SUBSET Nat, closed : SUBSET Nat]] /\ ToldStep
      /\ \A o \in Outs : Live(o)' /\ ex[f].out = o => ex[f].id \in told'[o].closed
    BY <1>0, <1>1, DetachSteps
<1>4. Onward /\ EqFrom({}) /\ eq' \in Seq(Tasks)
    BY <1>0, GentleSteps, EqSteps
<1>5. TypeOK'
    BY <1>0, <1>2, <1>3, <1>4 DEF TypeOK
<1>6. FdsHeld' /\ RefsHeld' /\ EventsOrdered' /\ HeadsSound' /\ TableSound' /\ AnswersOwned' /\ SessionsOwned'
    BY <1>2, <1>3, <1>4, CalmStep
<1>7. DroppedOut'
    <2>1. ASSUME NEW d \in dropped'
          PROVE  conn'[d].st # "none" /\ (Alive(d)' => ex'[conn'[d].fd] = NoEx)
        <3>1. d \in Conns /\ conn[d].st # "none" /\ conn'[d].fd = conn[d].fd
            BY <1>0 DEF TypeOK, Conns, DroppedOut, Alive, Gentle
        <3>2. CASE d = c
            BY <1>1, <1>2, <1>4, <3>1, <3>2 DEF Onward
        <3>3. CASE d \in dropped
            <4>1. Alive(d)' => Alive(d) /\ conn[d].fd \in Fds /\ ex[conn[d].fd] = NoEx
                BY <1>0, <1>4, <3>1, <3>3 DEF Onward, FdsHeld, DroppedOut, Has
            <4> QED
                BY <1>2, <1>4, <3>1, <4>1 DEF Onward
        <3> QED
            BY <3>2, <3>3
    <2>2. ASSUME NEW i \in 1 .. Len(eq'), NEW t, t = eq'[i], t.job = "query", t.flags
          PROVE  t.who \in dropped'
        BY <1>0, <1>4, <2>2 DEF EqFrom, DroppedOut
    <2> QED
        BY <2>1, <2>2 DEF DroppedOut, Has, Alive
<1>8. InOrder' /\ NoGaps'
    <2>1. InOrder'
        BY <1>0, OrderTaken
    <2> QED
        BY <1>0, <2>1 DEF NoGaps
<1>9. AnswersReachOwner'
    BY <1>0, DeliveredKept DEF AnswersReachOwner
<1>10. NoSessionLeft'
    <2>1. \A g \in Fds : \/ ex'[g] = ex[g]
                         \/ \A o \in Outs : Live(o)' /\ ex[g].out = o => ex[g].id \in told'[o].closed
        BY <1>2, <1>3
    <2> QED
        BY <1>0, <1>3, <1>4, <2>1, SessionLeftKept
<1> QED
    BY <1>5, <1>6, <1>7, <1>8, <1>9, <1>10 DEF RelayInv

\* A step that touches no task, no query and no drop keeps the order of queries.
LEMMA OrderSame ==
    ASSUME InOrder, UNCHANGED <<eq, asked, forwarded, dropped>>
    PROVE  InOrder'
<1>1. \A i, d : QueryOf(i, d)' <=> QueryOf(i, d)
    BY DEF QueryOf
<1>2. \A d, m, k : Follows(d, m, k) => Follows(d, m, k)'
    BY <1>1 DEF Follows
<1> QED
    BY <1>1, <1>2 DEF InOrder

\* forward_tcp_query makes an ext_connection for client c on descriptor f, with
\* middle-end connection o and a new id.
Created(c, n, o, f, id) ==
    /\ Alive(c) /\ conn[c].fd = f /\ c \notin dropped /\ conn' = conn /\ dropped' = dropped
    /\ eq # <<>> /\ n = eq[1].n /\ (\A d : QueryOf(1, d) <=> d = c) /\ eq' = Tail(eq)
    /\ id = ((slot[f] \div EXT_CONN_TABLE_SIZE) + 1) * EXT_CONN_TABLE_SIZE + f
    /\ slot' = [slot EXCEPT ![f] = id]
    /\ ex' = [ex EXCEPT ![f] = [in |-> c, out |-> o, id |-> id]]
    /\ aborted' = (out[conn[o].fd] # o)
    /\ Sends(c, n, o, id)
    /\ \E t : /\ t = IF Has(f) THEN Notified(told, ex[f].out, {ex[f].id}) ELSE told
              /\ told' = [t EXCEPT ![o].opened = IF Live(o) THEN @ \cup {id} ELSE @]
    /\ UNCHANGED <<out, tag, nq, asked>>

\* the table after it: a new id, in its place
Placed(c, o, f, id) ==
    /\ id \in Nat /\ id > slot[f] /\ id % EXT_CONN_TABLE_SIZE = f
    /\ ex' \in [Fds -> ExRecs] /\ slot' \in [Fds -> Nat]
    /\ slot'[f] = id /\ ex'[f] # NoEx /\ ex'[f].in = c /\ ex'[f].out = o /\ ex'[f].id = id
    /\ \A g \in Fds : g # f => ex'[g] = ex[g] /\ slot'[g] = slot[g]

\* The new id is greater than the last one of its descriptor.
LEMMA CreatedPlaced ==
    ASSUME TypeOK, NEW c \in Clients, NEW n, NEW o \in Outs, NEW f \in Fds, NEW id, Created(c, n, o, f, id)
    PROVE  Placed(c, o, f, id)
<1>0. ex \in [Fds -> ExRecs] /\ slot \in [Fds -> Nat]
    BY DEF TypeOK
<1>1. PICK s \in Nat : s = slot[f] /\ id = ((s \div EXT_CONN_TABLE_SIZE) + 1) * EXT_CONN_TABLE_SIZE + f
    BY <1>0 DEF Created
<1>2. id \in Nat /\ id > slot[f] /\ id % EXT_CONN_TABLE_SIZE = f
    BY <1>1, NewId
<1>3. PICK e : e = [in |-> c, out |-> o, id |-> id]
    OBVIOUS
<1>4. e \in ExRecs /\ e.in = c /\ e.out = o /\ e.id = id
    BY <1>2, <1>3 DEF ExRecs
<1>5. e # NoEx
    <2>1. NoEx.in = NoConn /\ NoConn \notin Clients
        BY RelayAssumption DEF NoEx
    <2> QED
        BY <1>4, <2>1
<1>6. slot' = [slot EXCEPT ![f] = id] /\ ex' = [ex EXCEPT ![f] = e]
    BY <1>3 DEF Created
<1>7. slot' \in [Fds -> Nat] /\ slot'[f] = id /\ \A g \in Fds : g # f => slot'[g] = slot[g]
    BY <1>0, <1>2, <1>6
<1>8. ex' \in [Fds -> ExRecs] /\ ex'[f] = e /\ \A g \in Fds : g # f => ex'[g] = ex[g]
    BY <1>0, <1>4, <1>6
<1> QED
    BY <1>2, <1>4, <1>5, <1>7, <1>8 DEF Placed

\* Nothing was asked or told under the new id before, and what was asked or
\* told under the others stays theirs.
LEMMA PlacedIds ==
    ASSUME TypeOK, NEW c \in Clients, NEW o \in Outs, NEW f \in Fds, NEW id, Placed(c, o, f, id), conn' = conn,
           conn[o].st # "none"
    PROVE  /\ \A d : \A i \in Nat : Owner(i, d) => Owner(i, d)'
           /\ \A i \in Nat, q \in Outs : Session(q, i) => Session(q, i)'
           /\ Owner(id, c)' /\ Session(o, id)'
<1>0. slot \in [Fds -> Nat]
    BY DEF TypeOK
<1>1. ASSUME NEW i \in Nat, Issued(i)
      PROVE  Issued(i)' /\ (i % EXT_CONN_TABLE_SIZE = f => slot'[f] # i)
    <2>1. PICK g \in Fds : g = i % EXT_CONN_TABLE_SIZE /\ i <= slot[g]
        BY <1>1 DEF Issued
    <2>2. i <= slot'[g] /\ (g = f => slot'[f] # i)
        BY SMT, <1>0, <2>1 DEF Placed
    <2> QED
        BY <2>1, <2>2 DEF Issued
<1>2. ASSUME NEW i \in Nat, NEW d, Owner(i, d)
      PROVE  Owner(i, d)'
    <2>1. PICK g \in Fds : g = i % EXT_CONN_TABLE_SIZE
        BY <1>2 DEF Owner, Issued
    <2>2. Issued(i) /\ Issued(i)' /\ (g = f => slot'[f] # i)
        BY <1>1, <1>2, <2>1 DEF Owner
    <2>3. g # f => (ex[g] # NoEx /\ slot[g] = i => ex[g].in = d \/ ~conn[ex[g].in].sock)
        BY <1>2, <2>1 DEF Owner, Has
    <2>4. ex'[g] # NoEx /\ slot'[g] = i => ex'[g].in = d \/ ~conn'[ex'[g].in].sock
        BY <2>2, <2>3 DEF Placed
    <2> QED
        BY <2>1, <2>2, <2>4 DEF Owner, Has
<1>3. ASSUME NEW i \in Nat, NEW q \in Outs, Session(q, i)
      PROVE  Session(q, i)'
    <2>1. PICK g \in Fds : g = i % EXT_CONN_TABLE_SIZE
        BY <1>3 DEF Session, Issued
    <2>2. Issued(i) /\ Issued(i)' /\ (g = f => slot'[f] # i) /\ conn'[q].st # "none"
        BY <1>1, <1>3, <2>1 DEF Session
    <2>3. g # f => (ex[g] # NoEx /\ slot[g] = i => ex[g].out = q)
        BY <1>3, <2>1 DEF Session, Has
    <2>4. ex'[g] # NoEx /\ slot'[g] = i => ex'[g].out = q
        BY <2>2, <2>3 DEF Placed
    <2> QED
        BY <2>1, <2>2, <2>4 DEF Session, Has
<1>4. Issued(id)'
    BY SMT DEF Placed, Issued
<1>5. Owner(id, c)' /\ Session(o, id)'
    BY <1>4 DEF Placed, Owner, Session
<1> QED
    BY <1>2, <1>3, <1>5

\* The middle-end connections after it: the old session is closed where it
\* lives, the new one opened.
LEMMA CreatedTold ==
    ASSUME TypeOK, NEW c \in Clients, NEW n, NEW o \in Outs, NEW f \in Fds, NEW id \in Nat, Created(c, n, o, f, id)
    PROVE  /\ told' \in [Outs -> [opened : SUBSET Nat, closed : SUBSET Nat]]
           /\ \A q \in Outs : told[q].closed \subseteq told'[q].closed
           /\ \A q \in Outs : Live(q) /\ ex[f].out = q => ex[f].id \in told'[q].closed
           /\ \A q \in Outs : \A i \in told'[q].opened : i \in told[q].opened \/ (q = o /\ i = id)
           /\ \A q \in Outs : told[q].opened \subseteq told'[q].opened
<1>0. ex \in [Fds -> ExRecs] /\ told \in [Outs -> [opened : SUBSET Nat, closed : SUBSET Nat]]
    BY DEF TypeOK
<1>1. PICK u : /\ u = IF Has(f) THEN Notified(told, ex[f].out, {ex[f].id}) ELSE told
               /\ told' = [u EXCEPT ![o].opened = IF Live(o) THEN @ \cup {id} ELSE @]
    BY DEF Created
<1>2. /\ u \in [Outs -> [opened : SUBSET Nat, closed : SUBSET Nat]]
      /\ \A q \in Outs : u[q].opened = told[q].opened /\ told[q].closed \subseteq u[q].closed
      /\ \A q \in Outs : Live(q) /\ ex[f].out = q => ex[f].id \in u[q].closed
    <2>1. CASE Has(f)
        <3>1. PICK q \in Outs, ids \in SUBSET Nat : q = ex[f].out /\ ids = {ex[f].id}
            BY <1>0, <2>1, ExFields
        <3>2. u = Notified(told, q, ids)
            BY <1>1, <2>1, <3>1
        <3>3. /\ u \in [Outs -> [opened : SUBSET Nat, closed : SUBSET Nat]]
              /\ \A p \in Outs : u[p].opened = told[p].opened /\ told[p].closed \subseteq u[p].closed
              /\ Live(q) => ids \subseteq u[q].closed
            BY <3>2, NotifiedSteps
        <3> QED
            BY <3>1, <3>3
    <2>2. CASE ~Has(f)
        BY <1>0, <1>1, <2>2, ExFields, RelayAssumption
    <2> QED
        BY <2>1, <2>2
<1>3. PICK w : w = IF Live(o) THEN u[o].opened \cup {id} ELSE u[o].opened
    OBVIOUS
<1>4. w \in SUBSET Nat /\ u[o].opened \subseteq w /\ w \subseteq u[o].opened \cup {id}
    BY <1>2, <1>3
<1>5. told' = [u EXCEPT ![o].opened = w]
    BY <1>1, <1>2, <1>3
<1>6. told' = [u EXCEPT ![o] = [u[o] EXCEPT !.opened = w]]
    BY <1>2, <1>5
<1>7. PICK v : v = [u[o] EXCEPT !.opened = w]
    OBVIOUS
<1>8. v \in [opened : SUBSET Nat, closed : SUBSET Nat] /\ v.opened = w /\ v.closed = u[o].closed
    BY <1>2, <1>4, <1>7
<1>9. /\ told' \in [Outs -> [opened : SUBSET Nat, closed : SUBSET Nat]]
      /\ told'[o] = v /\ \A q \in Outs : q # o => told'[q] = u[q]
    BY <1>2, <1>6, <1>7, <1>8
<1>10. \A q \in Outs : told'[q].closed = u[q].closed
    BY <1>8, <1>9
<1>11. \A q \in Outs : told[q].opened \subseteq told'[q].opened
    BY <1>2, <1>4, <1>8, <1>9
<1>12. \A q \in Outs : \A i \in told'[q].opened : i \in told[q].opened \/ (q = o /\ i = id)
    BY <1>2, <1>4, <1>8, <1>9
<1> QED
    BY <1>2, <1>9, <1>10, <1>11, <1>12

\* The request that goes out under the new id.
LEMMA CreatedRemote ==
    ASSUME TypeOK, NEW c \in Clients, NEW n \in Nat, NEW o \in Outs, NEW f, NEW id \in Nat, Created(c, n, o, f, id)
    PROVE  /\ remote' \in [Outs -> SUBSET Requests]
           /\ \A q \in Outs : \A s \in remote'[q] : s \in remote[q] \/ (s.id = id /\ s.q[1] = c)
<1>1. PICK r : r = [id |-> id, q |-> <<c, n>>]
    OBVIOUS
<1>2. r \in Requests /\ r.id = id /\ r.q[1] = c
    BY <1>1 DEF Requests
<1>3. remote \in [Outs -> SUBSET Requests]
    BY DEF TypeOK
<1>4. remote' = [remote EXCEPT ![o] = IF Live(o) THEN @ \cup {r} ELSE @]
    BY <1>1 DEF Created, Sends
<1>5. /\ remote' \in [Outs -> SUBSET Requests]
      /\ \A q \in Outs : \A s \in remote'[q] : s \in remote[q] \/ s = r
    BY <1>2, <1>3, <1>4
<1> QED
    BY <1>2, <1>5

\* Everything asked or told stays apart from the new id.
LEMMA CreatedOwned ==
    ASSUME TypeOK, AnswersOwned, SessionsOwned, EqFrom({}), NEW c \in Clients, NEW o \in Outs, NEW id,
           \A d : \A i \in Nat : Owner(i, d) => Owner(i, d)',
           \A i \in Nat, q \in Outs : Session(q, i) => Session(q, i)',
           Owner(id, c)', Session(o, id)',
           \A q \in Outs : \A s \in remote'[q] : s \in remote[q] \/ (s.id = id /\ s.q[1] = c),
           \A q \in Outs : told[q].closed \subseteq told'[q].closed,
           \A q \in Outs : \A i \in told'[q].opened : i \in told[q].opened \/ (q = o /\ i = id),
           \A q \in Outs : told[q].opened \subseteq told'[q].opened
    PROVE  AnswersOwned' /\ SessionsOwned'
<1>0. eq \in Seq(Tasks) /\ remote \in [Outs -> SUBSET Requests] /\ told \in [Outs -> [opened : SUBSET Nat, closed : SUBSET Nat]]
    BY DEF TypeOK
<1>1. ASSUME NEW q \in Outs, NEW s \in remote'[q]
      PROVE  Owner(s.id, s.q[1])'
    <2>1. CASE s.id = id /\ s.q[1] = c
        BY <2>1
    <2>2. CASE s \in remote[q]
        <3>1. s \in Requests
            BY <1>0, <2>2
        <3>2. s.id \in Nat /\ Owner(s.id, s.q[1])
            BY <2>2, <3>1 DEF AnswersOwned, Requests
        <3> QED
            BY <3>2
    <2> QED
        BY <2>1, <2>2
<1>2. ASSUME NEW i \in 1 .. Len(eq'), NEW t, t = eq'[i], t.job \in {"RPC_PROXY_ANS", "RPC_SIMPLE_ACK"}
      PROVE  Owner(t.id, t.to[1])'
    <2>1. PICK j \in 1 .. Len(eq) : t = eq[j]
        BY <1>2 DEF EqFrom
    <2>2. t \in Tasks
        BY SMT, <1>0, <2>1
    <2>3. t.id \in Nat /\ Owner(t.id, t.to[1])
        BY <1>2, <2>1, <2>2, TaskFields DEF AnswersOwned
    <2> QED
        BY <2>3
<1>3. AnswersOwned'
    BY <1>1, <1>2 DEF AnswersOwned, Owner, Issued, Has
<1>4. ASSUME NEW q \in Outs, NEW i \in told'[q].opened
      PROVE  Session(q, i)'
    <2>1. CASE i \in told[q].opened
        <3>1. i \in Nat
            BY <1>0, <2>1
        <3>2. Session(q, i)
            BY <2>1 DEF SessionsOwned
        <3> QED
            BY <3>1, <3>2
    <2> QED
        BY <2>1
<1>5. ASSUME NEW i \in 1 .. Len(eq'), NEW t, t = eq'[i], t.job = "RPC_CLOSE_EXT"
      PROVE  t.id \in told'[t.who].opened \cap told'[t.who].closed
    <2>1. PICK j \in 1 .. Len(eq) : t = eq[j]
        BY <1>5 DEF EqFrom
    <2>2. t \in Tasks
        BY SMT, <1>0, <2>1
    <2>3. t.who \in Outs /\ t.id \in told[t.who].opened \cap told[t.who].closed
        BY <1>5, <2>1, <2>2, TaskFields DEF SessionsOwned
    <2> QED
        BY <2>3
<1>6. SessionsOwned'
    BY <1>4, <1>5 DEF SessionsOwned
<1> QED
    BY <1>3, <1>6

\* The table, the dropped clients and the sessions after it.
LEMMA CreatedTable ==
    ASSUME TypeOK, FdsHeld, TableSound, DroppedOut, NoSessionLeft, EqFrom({}), conn' = conn, dropped' = dropped,
           NEW c \in Clients \ dropped, NEW o \in Outs, NEW f \in Fds, NEW id, Placed(c, o, f, id),
           Alive(c), conn[c].fd = f,
           \A q \in Outs : told[q].closed \subseteq told'[q].closed,
           \A q \in Outs : Live(q) /\ ex[f].out = q => ex[f].id \in told'[q].closed,
           \A q \in Outs : \A i \in told'[q].opened : i \in told[q].opened \/ (q = o /\ i = id)
    PROVE  TableSound' /\ DroppedOut' /\ NoSessionLeft'
<1>1. TableSound'
    <2> SUFFICES ASSUME NEW g \in Fds, ex'[g] # NoEx
                 PROVE  /\ ex'[g].id = slot'[g] /\ ex'[g].id % EXT_CONN_TABLE_SIZE = g
                        /\ conn[ex'[g].in].st # "none" /\ conn[ex'[g].in].fd = g
        BY DEF TableSound, Has
    <2>1. CASE g = f
        BY <2>1 DEF Placed, Alive
    <2>2. CASE g # f
        BY ZenonT(60), <2>2 DEF Placed, TableSound, Has
    <2> QED
        BY <2>1, <2>2
<1>2. ASSUME NEW d \in dropped
      PROVE  conn[d].st # "none" /\ (Alive(d) => ex'[conn[d].fd] = NoEx)
    <2>1. d \in Conns /\ c \in Conns /\ d # c /\ conn[d].st # "none"
        BY DEF TypeOK, Conns, DroppedOut
    <2>2. Alive(d) => conn[d].fd \in Fds /\ conn[d].fd # f
        BY <2>1 DEF FdsHeld
    <2>3. Alive(d) => ex[conn[d].fd] = NoEx
        BY DEF DroppedOut, Has
    <2> QED
        BY <2>1, <2>2, <2>3 DEF Placed
<1>3. ASSUME NEW i \in 1 .. Len(eq'), NEW t, t = eq'[i], t.job = "query", t.flags
      PROVE  t.who \in dropped
    BY <1>3 DEF EqFrom, DroppedOut
<1>4. DroppedOut'
    BY <1>2, <1>3 DEF DroppedOut, Has, Alive
<1>5. ASSUME NEW q \in Outs, Live(q), NEW i \in told'[q].opened \ told'[q].closed
      PROVE  \E g \in Fds : ex'[g].out = q /\ ex'[g].id = i
    <2>1. CASE q = o /\ i = id
        BY <2>1 DEF Placed
    <2>2. CASE i \in told[q].opened
        <3>1. i \notin told[q].closed
            OBVIOUS
        <3>2. PICK g \in Fds : ex[g].out = q /\ ex[g].id = i
            BY SMT, <1>5, <2>2, <3>1 DEF NoSessionLeft
        <3>3. g # f
            BY <1>5, <3>2
        <3> QED
            BY <3>2, <3>3 DEF Placed
    <2> QED
        BY <2>1, <2>2
<1>6. NoSessionLeft'
    BY ZenonT(60), <1>5 DEF NoSessionLeft, Live
<1> QED
    BY <1>1, <1>4, <1>6

\* create_ext_connection keeps the invariant: the new id is no one's yet, so
\* that everything asked or told under an older one stays apart from it.
LEMMA CreateInv ==
    ASSUME RelayInv, NEW c \in Clients, NEW n \in Nat \ {0}, NEW o \in Choosable, NEW f \in Fds, NEW id,
           Created(c, n, o, f, id)
    PROVE  RelayInv'
<1>0. /\ TypeOK /\ FdsHeld /\ RefsHeld /\ EventsOrdered /\ HeadsSound /\ TableSound /\ AnswersOwned /\ SessionsOwned
      /\ DroppedOut /\ InOrder /\ AnswersReachOwner /\ NoSessionLeft /\ NoGaps
      /\ eq \in Seq(Tasks) /\ nq \in Seq(Events)
    BY DEF RelayInv, TypeOK
<1>1. o \in tag /\ o \in Outs /\ conn[o].st # "none"
    BY <1>0 DEF Choosable, TypeOK
<1>2. Placed(c, o, f, id) /\ id \in Nat
    <2>1. Placed(c, o, f, id)
        BY <1>0, <1>1, CreatedPlaced
    <2> QED
        BY <2>1 DEF Placed
<1>3. /\ Alive(c) /\ conn[c].fd = f /\ c \notin dropped /\ UNCHANGED <<conn, dropped, out, tag, nq, asked>>
      /\ eq # <<>> /\ eq' = Tail(eq)
    BY DEF Created
<1>4. ~aborted'
    <2>1. aborted' = (out[conn[o].fd] # o)
        BY DEF Created
    <2>2. out[conn[o].fd] = o
        BY <1>0, <1>1 DEF HeadsSound
    <2> QED
        BY <2>1, <2>2
<1>5. Gentle /\ SameGot /\ Onward /\ Retained /\ EqFrom({}) /\ NqFrom({}) /\ eq' \in Seq(Tasks)
    BY <1>0, <1>3, SameConn, GentleSteps, EqSteps, NqSteps
<1>6. FdsHeld' /\ RefsHeld' /\ EventsOrdered' /\ HeadsSound'
    <2>1. FdsHeld'
        BY <1>0, <1>5, FdsKept
    <2>2. RefsHeld'
        BY <1>0, <1>5, RefsKept
    <2>3. EventsOrdered'
        BY <1>0, <1>3, <1>5, EventsKept
    <2>4. HeadsSound'
        BY <1>0, <1>3, <1>5, HeadsKept
    <2> QED
        BY <2>1, <2>2, <2>3, <2>4
<1>7. /\ told' \in [Outs -> [opened : SUBSET Nat, closed : SUBSET Nat]]
      /\ \A q \in Outs : told[q].closed \subseteq told'[q].closed
      /\ \A q \in Outs : Live(q) /\ ex[f].out = q => ex[f].id \in told'[q].closed
      /\ \A q \in Outs : \A i \in told'[q].opened : i \in told[q].opened \/ (q = o /\ i = id)
      /\ \A q \in Outs : told[q].opened \subseteq told'[q].opened
    BY <1>0, <1>1, <1>2, CreatedTold
<1>8. /\ remote' \in [Outs -> SUBSET Requests]
      /\ \A q \in Outs : \A s \in remote'[q] : s \in remote[q] \/ (s.id = id /\ s.q[1] = c)
    <2>1. n \in Nat /\ id \in Nat /\ o \in Outs /\ TypeOK
        BY <1>0, <1>1, <1>2
    <2> QED
        BY ONLY <2>1, c \in Clients, Created(c, n, o, f, id), CreatedRemote
<1>9. /\ \A d : \A i \in Nat : Owner(i, d) => Owner(i, d)'
      /\ \A i \in Nat, q \in Outs : Session(q, i) => Session(q, i)'
      /\ Owner(id, c)' /\ Session(o, id)'
    BY <1>0, <1>1, <1>2, <1>3, PlacedIds
<1>10. AnswersOwned' /\ SessionsOwned'
    BY <1>0, <1>1, <1>5, <1>7, <1>8, <1>9, CreatedOwned, SMTT(60)
<1>11. TableSound' /\ DroppedOut' /\ NoSessionLeft'
    <2>1. c \in Clients \ dropped /\ conn' = conn /\ dropped' = dropped
        BY <1>3
    <2> QED
        BY <1>0, <1>1, <1>2, <1>3, <1>5, <1>7, <2>1, CreatedTable, SMTT(60)
<1>12. InOrder' /\ NoGaps' /\ forwarded' \in [Clients -> SUBSET Nat]
    <2>1. n = eq[1].n /\ (\A d : QueryOf(1, d) <=> d = c) /\ forwarded' = [forwarded EXCEPT ![c] = @ \cup {n}]
        BY DEF Created, Sends
    <2> QED
        BY <1>0, <1>3, <2>1, ForwardedNext
<1>13. TypeOK'
    <2>1. ex' \in [Fds -> ExRecs] /\ slot' \in [Fds -> Nat]
        BY <1>2 DEF Placed
    <2> QED
        BY <1>0, <1>3, <1>5, <1>7, <1>8, <1>12, <2>1 DEF TypeOK
<1>14. AnswersReachOwner'
    BY <1>0, <1>3, <1>4 DEF AnswersReachOwner
<1> QED
    BY <1>6, <1>10, <1>11, <1>12, <1>13, <1>14 DEF RelayInv

\* do_rpcs_execute keeps the invariant.
LEMMA QueryInv ==
    ASSUME RelayInv, do_rpcs_execute
    PROVE  RelayInv'
<1>0. TypeOK /\ conn \in [Conns -> ConnRecs] /\ eq \in Seq(Tasks) /\ AnswersReachOwner
    BY DEF RelayInv, TypeOK
<1>1. PICK p : p = Head(eq)
    OBVIOUS
<1>2. /\ eq # <<>> /\ p.job = "query" /\ eq' = Tail(eq) /\ forward_mtproto_packet(p.who, p)
      /\ UNCHANGED <<out, tag, nq, asked>>
    BY <1>1 DEF do_rpcs_execute, At, Done
<1>3. PICK c \in Clients, n \in Nat : c = p.who /\ n = p.n
    BY <1>1, <1>2, QueryAtHead
<1>4. /\ p = eq[1] /\ Alive(c) /\ conn[c].fd \in Fds /\ (p.flags => c \in dropped)
      /\ \A d : QueryOf(1, d) <=> d = c /\ n # Malformed
    BY <1>1, <1>2, <1>3, QueryAtHead
<1>5. CASE n = Malformed
    <2>1. UNCHANGED <<conn, dropped, ex, slot, told, remote, forwarded, aborted>>
        BY <1>2, <1>3, <1>5 DEF forward_mtproto_packet
    <2>2. Gentle /\ ExStep /\ ToldStep /\ AnswersReachOwner'
        BY <1>0, <2>1, SameConn DEF ExStep, ToldStep, AnswersReachOwner
    <2>3. TypeOK'
        <3>1. eq' \in Seq(Tasks)
            BY <1>0, <1>2, EqSteps
        <3> QED
            BY <1>0, <1>2, <2>1, <3>1 DEF TypeOK
    <2>4. eq[1].n = Malformed
        BY <1>3, <1>4, <1>5
    <2> QED
        BY <1>2, <2>1, <2>2, <2>3, <2>4, ExecutedStep
<1>6. CASE n # Malformed
    <2>0. n \in Nat \ {0} /\ n = eq[1].n /\ (\A d : QueryOf(1, d) <=> d = c)
        BY <1>3, <1>4, <1>6 DEF Malformed
    <2>1. forward_tcp_query(c, n, query_flags(c, p))
        BY <1>2, <1>3, <1>6 DEF forward_mtproto_packet
    <2>2. CASE forward_attached(c, n)
        BY <1>2, <1>4, <2>0, <2>2, AttachedInv
    <2>3. CASE nowhere_to_forward(c)
        <3>1. /\ dropped' = dropped \cup {c} /\ ex' = Unlinked({conn[c].fd}) /\ Detach(conn[c].fd)
              /\ UNCHANGED <<conn, slot, remote, forwarded, aborted>>
            BY <2>3 DEF nowhere_to_forward
        <3>2. Gentle /\ SameGot /\ conn' \in [Conns -> ConnRecs]
            BY <1>0, <3>1, SameConn
        <3> QED
            BY <1>2, <1>4, <2>0, <3>1, <3>2, RefusedInv
    <2>4. CASE forward_refused(c, query_flags(c, p))
        <3>1. /\ conn' = Fail({c}) /\ ex' = Unlinked({conn[c].fd}) /\ Detach(conn[c].fd)
              /\ c \in dropped
              /\ UNCHANGED <<dropped, slot, remote, forwarded, aborted>>
            BY <1>4, <2>4 DEF forward_refused, query_flags
        <3>2. Gentle /\ SameGot /\ conn' \in [Conns -> ConnRecs]
            <4>1. PICK cs : conn' = Fail(cs)
                BY <3>1
            <4> QED
                BY <1>0, <4>1, FailSteps
        <3>3. dropped' = dropped \cup {c}
            BY <3>1
        <3> QED
            BY <1>2, <1>4, <2>0, <3>1, <3>2, <3>3, RefusedInv
    <2>5. CASE forward_new(c, n, query_flags(c, p))
        <3>1. PICK f \in Fds : f = conn[c].fd
            BY <1>4
        <3>2. PICK o \in Choosable :
                 /\ create_ext_connection(c, o) /\ Sends(c, n, o, ex'[f].id)
                 /\ LET t == IF Has(f) THEN Notified(told, ex[f].out, {ex[f].id}) ELSE told
                    IN told' = [t EXCEPT ![o].opened = IF Live(o) THEN @ \cup {ex'[f].id} ELSE @]
            BY <2>5, <3>1 DEF forward_new
        <3>3. PICK id : id = ((slot[f] \div EXT_CONN_TABLE_SIZE) + 1) * EXT_CONN_TABLE_SIZE + f
            OBVIOUS
        <3>4. /\ slot' = [slot EXCEPT ![f] = id]
              /\ ex' = [ex EXCEPT ![f] = [in |-> c, out |-> o, id |-> id]]
              /\ aborted' = (out[conn[o].fd] # o)
            BY <3>1, <3>2, <3>3 DEF create_ext_connection
        <3>5. ex'[f].id = id
            BY <1>0, <3>4 DEF TypeOK
        <3>6. c \notin dropped /\ conn' = conn /\ dropped' = dropped
            BY <2>5 DEF forward_new, query_flags
        <3>7. Created(c, n, o, f, id)
            BY <1>2, <1>4, <2>0, <3>1, <3>2, <3>3, <3>4, <3>5, <3>6 DEF Created
        <3> QED
            BY <2>0, <3>7, CreateInv
    <2> QED
        BY <2>1, <2>2, <2>3, <2>4, <2>5 DEF forward_tcp_query
<1> QED
    BY <1>5, <1>6

-----------------------------------------------------------------------------
(***************************************************************************)
(* The notification job.                                                   *)
(***************************************************************************)
\* The first event is taken: those left stay in order, if a ready connection
\* is registered and a closed one forgotten.
LEMMA EventTaken ==
    ASSUME EventsOrdered, nq \in Seq(Events), nq # <<>>, nq' = Tail(nq), Gentle, NEW e, e = nq[1],
           e.ev = "ready" => tag' \subseteq tag \cup {e.who},
           e.ev = "close" => tag' \subseteq tag \ {e.who}
    PROVE  EventsOrdered'
<1>1. /\ Len(nq) \in Nat /\ Len(nq') = Len(nq) - 1 /\ 1 \in 1 .. Len(nq)
      /\ \A i \in 1 .. Len(nq') : i + 1 \in 1 .. Len(nq) /\ nq'[i] = nq[i + 1]
    BY SMT, Taken
<1>2. \A x \in Conns : conn'[x].st = "closed" <=> conn[x].st = "closed"
    BY DEF Gentle
<1>3. e = [ev |-> e.ev, who |-> e.who] /\ e.ev \in {"ready", "close"}
    BY <1>1, EventFields
<1>4. \A i, j \in 1 .. Len(nq') : nq'[i] = nq'[j] => i = j
    BY SMT, <1>1 DEF EventsOrdered
<1>5. \A i, j \in 1 .. Len(nq') : nq'[i].who = nq'[j].who /\ nq'[i].ev = "ready" /\ nq'[j].ev = "close" => i < j
    BY SMT, <1>1 DEF EventsOrdered
<1>6. ASSUME NEW i \in 1 .. Len(nq'), NEW t, t = nq'[i], t.ev = "ready"
      PROVE  t.who \notin tag'
    <2>1. PICK k \in 1 .. Len(nq) : k = i + 1 /\ k # 1 /\ t = nq[k]
        BY SMT, <1>1, <1>6
    <2>2. t.who \notin tag /\ t = [ev |-> "ready", who |-> t.who]
        BY <1>6, <2>1, EventFields DEF EventsOrdered
    <2>3. t # e
        BY <1>1, <2>1 DEF EventsOrdered
    <2>4. e.ev = "ready" => t.who # e.who
        BY <1>3, <2>2, <2>3
    <2> QED
        BY <1>3, <2>2, <2>4
<1>7. ASSUME NEW i \in 1 .. Len(nq'), NEW t, t = nq'[i], t.ev = "close"
      PROVE  conn'[t.who].st = "closed"
    <2>1. PICK k \in 1 .. Len(nq) : t = nq[k]
        BY <1>1, <1>7
    <2>2. t.who \in Conns /\ conn[t.who].st = "closed"
        BY <1>7, <2>1, EventFields DEF EventsOrdered
    <2> QED
        BY <1>2, <2>2
<1>8. ASSUME NEW x \in Conns, conn'[x].st = "closed", x \in tag' \/ Told("ready", x)'
      PROVE  Told("close", x)'
    <2>1. Told("ready", x)' => \E k \in 1 .. Len(nq) : k > 1 /\ nq[k] = [ev |-> "ready", who |-> x]
        BY SMT, <1>1 DEF Told
    <2>2. x \in tag' => x \in tag \/ (e.ev = "ready" /\ x = e.who)
        BY <1>3
    <2>3. e.ev = "ready" /\ x = e.who => Told("ready", x)
        BY <1>1, <1>3 DEF Told
    <2>4. x \in tag \/ Told("ready", x)
        BY <1>8, <2>1, <2>2, <2>3 DEF Told
    <2>5. PICK k \in 1 .. Len(nq) : nq[k] = [ev |-> "close", who |-> x]
        BY <1>2, <1>8, <2>4 DEF EventsOrdered, Told
    <2>6. k # 1
        <3> SUFFICES ASSUME k = 1
                     PROVE  FALSE
            OBVIOUS
        <3>1. e.ev = "close" /\ e.who = x
            BY SMT, <2>5
        <3>2. PICK j \in 1 .. Len(nq) : j > 1 /\ nq[j] = [ev |-> "ready", who |-> x]
            BY <1>8, <2>1, <3>1
        <3>3. nq[j].who = nq[k].who /\ nq[j].ev = "ready" /\ nq[k].ev = "close"
            BY SMT, <2>5, <3>2
        <3>4. j < k
            BY <3>3 DEF EventsOrdered
        <3> QED
            BY SMT, <3>2, <3>4
    <2>7. k - 1 \in 1 .. Len(nq') /\ nq'[k - 1] = nq[k]
        BY SMT, <1>1, <2>6
    <2> QED
        BY <2>5, <2>7 DEF Told
<1> QED
    BY <1>4, <1>5, <1>6, <1>7, <1>8, Zenon DEF EventsOrdered

\* What running an event keeps.
LEMMA EventStep ==
    ASSUME RelayInv, Gentle, SameGot, TypeOK', ~aborted', HeadsSound', ExStep, ToldStep,
           nq # <<>>, nq' = Tail(nq), NEW e, e = nq[1],
           e.ev = "ready" => tag' \subseteq tag \cup {e.who},
           e.ev = "close" => tag' \subseteq tag \ {e.who},
           \A f \in Fds : \/ ex'[f] = ex[f]
                         \/ \A o \in Outs : Live(o)' /\ ex[f].out = o => ex[f].id \in told'[o].closed,
           UNCHANGED <<dropped, slot, eq, remote, asked, forwarded>>
    PROVE  RelayInv'
<1>0. /\ TypeOK /\ FdsHeld /\ RefsHeld /\ EventsOrdered /\ TableSound /\ AnswersOwned /\ SessionsOwned
      /\ DroppedOut /\ InOrder /\ AnswersReachOwner /\ NoSessionLeft /\ NoGaps
      /\ eq \in Seq(Tasks) /\ nq \in Seq(Events)
    BY DEF RelayInv, TypeOK
<1>1. Onward /\ Retained /\ EqFrom({}) /\ NqFrom({})
    BY <1>0, GentleSteps, EqSteps, NqSteps
<1>2. FdsHeld'
    BY <1>0, FdsKept
<1>3. RefsHeld'
    BY <1>0, <1>1, RefsKept
<1>4. EventsOrdered'
    BY <1>0, EventTaken
<1>5. TableSound'
    BY <1>0, <1>1, TableKept
<1>6. AnswersOwned'
    BY <1>0, <1>1, AnswersKept
<1>7. SessionsOwned'
    BY <1>0, <1>1, SessionsKept
<1>8. DroppedOut'
    BY <1>0, <1>1, DroppedKept
<1>9. InOrder' /\ NoGaps'
    <2>1. InOrder'
        BY <1>0, OrderSame
    <2> QED
        BY <1>0, <2>1 DEF NoGaps
<1>10. AnswersReachOwner'
    BY <1>0, DeliveredKept
<1>11. NoSessionLeft'
    BY <1>0, <1>1, SessionLeftKept
<1> QED
    BY <1>2, <1>3, <1>4, <1>5, <1>6, <1>7, <1>8, <1>9, <1>10, <1>11 DEF RelayInv

\* mtfront_client_ready: the list head of the descriptor is clean, so no
\* assertion fails, and the connection is registered.
LEMMA ReadyHeads ==
    ASSUME TypeOK, FdsHeld, RefsHeld, EventsOrdered, HeadsSound, NEW o \in Outs, nq # <<>>, nq[1].ev = "ready",
           nq[1].who = o, mtfront_client_ready(o)
    PROVE  HeadsSound' /\ ~aborted' /\ out' \in [Fds -> Outs \cup {NoConn}] /\ tag' = tag \cup {o}
<1>0. out \in [Fds -> Outs \cup {NoConn}] /\ tag \subseteq Outs /\ 1 \in 1 .. Len(nq) /\ o \in Conns
    BY Taken DEF TypeOK, Conns
<1>1. Alive(o) /\ o \notin tag
    BY <1>0 DEF RefsHeld, EventsOrdered
<1>2. PICK f \in Fds : f = conn[o].fd
    BY <1>0, <1>1 DEF FdsHeld
<1>3. aborted' = (o \in tag \/ out[f] # NoConn) /\ tag' = tag \cup {o} /\ out' = [out EXCEPT ![f] = o] /\ conn' = conn
    BY <1>2 DEF mtfront_client_ready
<1>4. out[f] = NoConn
    <2> SUFFICES ASSUME out[f] # NoConn
                 PROVE  FALSE
        OBVIOUS
    <2>1. out[f] \in tag /\ conn[out[f]].fd = f /\ Alive(out[f])
        BY DEF HeadsSound
    <2>2. out[f] \in Conns
        BY <1>0, <2>1 DEF Conns
    <2>3. out[f] = o
        BY <1>0, <1>1, <1>2, <2>1, <2>2 DEF FdsHeld
    <2> QED
        BY <1>1, <2>1, <2>3
<1>5. ~aborted'
    BY <1>1, <1>3, <1>4
<1>6. out' \in [Fds -> Outs \cup {NoConn}] /\ out'[f] = o /\ \A g \in Fds : g # f => out'[g] = out[g]
    BY <1>0, <1>3
<1>7. ASSUME NEW p \in tag'
      PROVE  Alive(p) /\ out'[conn[p].fd] = p
    <2>1. CASE p = o
        BY <1>1, <1>2, <1>6, <2>1
    <2>2. CASE p \in tag
        <3>1. Alive(p) /\ out[conn[p].fd] = p /\ p \in Conns /\ p # NoConn
            BY SMT, <1>0, <2>2, RelayAssumption DEF HeadsSound, Conns
        <3>2. conn[p].fd \in Fds /\ conn[p].fd # f
            BY <1>4, <3>1 DEF FdsHeld
        <3> QED
            BY <1>6, <3>1, <3>2
    <2> QED
        BY <1>3, <2>1, <2>2
<1>8. ASSUME NEW g \in Fds, out'[g] # NoConn
      PROVE  out'[g] \in tag' /\ conn[out'[g]].fd = g
    <2>1. CASE g = f
        BY <1>2, <1>3, <1>6, <2>1
    <2>2. CASE g # f
        BY <1>3, <1>6, <1>8, <2>2 DEF HeadsSound
    <2> QED
        BY <2>1, <2>2
<1>9. HeadsSound'
    BY <1>3, <1>7, <1>8 DEF HeadsSound, Alive
<1> QED
    BY <1>3, <1>5, <1>6, <1>9

\* mtfront_client_close of a registered connection: the list head is its own.
LEMMA ClosedHeads ==
    ASSUME TypeOK, FdsHeld, HeadsSound, NEW o \in tag, Gentle, NEW f, f = conn[o].fd,
           out' = [out EXCEPT ![f] = NoConn], tag' = tag \ {o}
    PROVE  HeadsSound' /\ out[f] = o /\ out' \in [Fds -> Outs \cup {NoConn}]
<1>0. out \in [Fds -> Outs \cup {NoConn}] /\ tag \subseteq Outs /\ o \in Conns
    BY DEF TypeOK, Conns
<1>1. Alive(o) /\ out[f] = o /\ f \in Fds
    BY <1>0 DEF HeadsSound, FdsHeld
<1>2. out' \in [Fds -> Outs \cup {NoConn}] /\ out'[f] = NoConn /\ \A g \in Fds : g # f => out'[g] = out[g]
    BY <1>0, <1>1
<1>3. \A x \in Conns : conn'[x].fd = conn[x].fd /\ (Alive(x) => Alive(x)')
    BY GentleSteps DEF Gentle, Retained
<1>4. ASSUME NEW p \in tag'
      PROVE  Alive(p)' /\ out'[conn'[p].fd] = p
    <2>1. p \in Conns /\ p # o /\ Alive(p) /\ out[conn[p].fd] = p
        BY <1>0 DEF HeadsSound, Conns
    <2>2. conn[p].fd \in Fds /\ conn[p].fd # f
        BY <1>0, <1>1, <2>1 DEF FdsHeld
    <2> QED
        BY <1>2, <1>3, <2>1, <2>2
<1>5. ASSUME NEW g \in Fds, NEW p, p = out'[g], p # NoConn
      PROVE  p \in tag' /\ conn'[p].fd = g
    <2>1. g # f /\ p = out[g] /\ p \in tag /\ conn[p].fd = g
        BY <1>2, <1>5 DEF HeadsSound
    <2>2. p # o /\ p \in Conns
        BY <1>0, <2>1 DEF Conns
    <2> QED
        BY <1>3, <2>1, <2>2
<1>6. HeadsSound'
    BY <1>4, <1>5, Zenon DEF HeadsSound, Alive
<1> QED
    BY <1>1, <1>2, <1>6

\* mtfront_client_ready keeps the invariant.
LEMMA ReadyOutInv ==
    ASSUME RelayInv, NEW o \in Outs, nq # <<>>, nq' = Tail(nq), nq[1].ev = "ready", nq[1].who = o,
           mtfront_client_ready(o), UNCHANGED <<eq, dropped, remote, asked, forwarded>>
    PROVE  RelayInv'
<1>0. TypeOK /\ FdsHeld /\ RefsHeld /\ EventsOrdered /\ HeadsSound /\ nq \in Seq(Events)
    BY DEF RelayInv, TypeOK
<1>1. UNCHANGED <<conn, ex, slot, told>>
    BY DEF mtfront_client_ready
<1>2. HeadsSound' /\ ~aborted' /\ out' \in [Fds -> Outs \cup {NoConn}] /\ tag' = tag \cup {o}
    BY <1>0, ReadyHeads
<1>3. Gentle /\ SameGot /\ ExStep /\ ToldStep
    BY <1>1, SameConn DEF ExStep, ToldStep
<1>4. TypeOK'
    <2>1. nq' \in Seq(Events)
        BY <1>0, NqSteps
    <2> QED
        BY <1>0, <1>1, <1>2, <2>1 DEF TypeOK
<1> QED
    BY <1>1, <1>2, <1>3, <1>4, EventStep

\* mtfront_client_close keeps the invariant: the sessions go with their
\* connection, and their clients are failed.
LEMMA CloseOutInv ==
    ASSUME RelayInv, NEW o \in Outs, nq # <<>>, nq' = Tail(nq), nq[1].ev = "close", nq[1].who = o,
           mtfront_client_close(o), UNCHANGED <<eq, dropped, remote, asked, forwarded>>
    PROVE  RelayInv'
<1>0. /\ TypeOK /\ FdsHeld /\ RefsHeld /\ EventsOrdered /\ HeadsSound /\ AnswersReachOwner /\ nq \in Seq(Events)
      /\ conn \in [Conns -> ConnRecs] /\ ex \in [Fds -> ExRecs] /\ o \in Conns /\ 1 \in 1 .. Len(nq)
    BY Taken DEF RelayInv, TypeOK, Conns
<1>1. UNCHANGED <<slot, told>> /\ tag' = tag \ {o} /\ nq' \in Seq(Events)
    BY <1>0, NqSteps DEF mtfront_client_close
<1>2. ToldStep
    BY <1>1 DEF ToldStep
<1>3. CASE o \notin tag
    <2>1. UNCHANGED <<aborted, conn, ex, out>> /\ tag' = tag
        BY <1>1, <1>3 DEF mtfront_client_close
    <2>2. Gentle /\ SameGot /\ ExStep /\ HeadsSound' /\ ~aborted'
        BY <1>0, <2>1, SameConn DEF ExStep, HeadsSound, Alive, AnswersReachOwner
    <2>3. TypeOK'
        BY <1>0, <1>1, <2>1 DEF TypeOK
    <2> QED
        BY <1>1, <1>2, <1>3, <2>1, <2>2, <2>3, EventStep
<1>4. CASE o \in tag
    <2>1. PICK f, mine : f = conn[o].fd /\ mine = {g \in Fds : Has(g) /\ ex[g].out = o}
        OBVIOUS
    <2>2. aborted' = (out[f] # o) /\ RemoveAndFail(mine) /\ out' = [out EXCEPT ![f] = NoConn]
        BY <1>4, <2>1 DEF mtfront_client_close
    <2>3. ex' = Unlinked(mine) /\ conn' = Fail({ex[g].in : g \in {h \in mine : Live(ex[h].in)}})
        BY <2>2 DEF RemoveAndFail
    <2>4. Gentle /\ SameGot /\ conn' \in [Conns -> ConnRecs]
        BY <1>0, <2>3, FailSteps
    <2>5. ExStep /\ ex' \in [Fds -> ExRecs] /\ \A g \in Fds : g \notin mine => ex'[g] = ex[g]
        BY <1>0, <2>3, UnlinkedSteps
    <2>6. HeadsSound' /\ out[f] = o /\ out' \in [Fds -> Outs \cup {NoConn}]
        BY <1>0, <1>1, <1>4, <2>1, <2>2, <2>4, ClosedHeads
    <2>7. ~aborted'
        BY <2>2, <2>6
    <2>8. TypeOK'
        BY <1>0, <1>1, <2>4, <2>5, <2>6 DEF TypeOK
    <2>9. ~Live(o)'
        <3>1. conn[o].st = "closed" /\ conn[o].sock \in BOOLEAN
            BY <1>0 DEF EventsOrdered, ConnRecs
        <3>2. ~conn[o].sock
            BY <1>0, <3>1 DEF FdsHeld
        <3> QED
            BY <1>0, <2>4, <3>2 DEF Gentle, Live
    <2>10. \A g \in Fds : \/ ex'[g] = ex[g]
                          \/ \A q \in Outs : Live(q)' /\ ex[g].out = q => ex[g].id \in told'[q].closed
        <3>1. \A g \in mine : ex[g].out = o
            BY <2>1
        <3> QED
            BY <2>5, <2>9, <3>1
    <2> QED
        BY <1>1, <1>2, <2>4, <2>5, <2>6, <2>7, <2>8, <2>10, EventStep
<1> QED
    BY <1>3, <1>4

\* mtproto_ext_rpc_ready and mtproto_ext_rpc_close keep the invariant: the
\* middle-end is told of the session that goes with its client.
LEMMA ClientEventInv ==
    ASSUME RelayInv, NEW c \in Clients, nq # <<>>, nq' = Tail(nq), nq[1].ev \in {"ready", "close"}, nq[1].who = c,
           mtproto_ext_rpc_ready(c) \/ mtproto_ext_rpc_close(c),
           UNCHANGED <<eq, dropped, remote, asked, forwarded>>
    PROVE  RelayInv'
<1>0. /\ TypeOK /\ FdsHeld /\ RefsHeld /\ HeadsSound /\ AnswersReachOwner /\ nq \in Seq(Events)
      /\ ex \in [Fds -> ExRecs] /\ c \in Conns /\ 1 \in 1 .. Len(nq)
    BY Taken DEF RelayInv, TypeOK, Conns
<1>1. UNCHANGED <<conn, slot, out, tag, aborted>> /\ nq' \in Seq(Events)
    BY <1>0, NqSteps DEF mtproto_ext_rpc_ready, mtproto_ext_rpc_close
<1>2. PICK f \in Fds : f = conn[c].fd
    BY <1>0 DEF RefsHeld, FdsHeld
<1>3. Gentle /\ SameGot /\ HeadsSound' /\ ~aborted'
    BY <1>0, <1>1, SameConn DEF HeadsSound, Alive, AnswersReachOwner
<1>4. c \notin tag /\ tag' \subseteq tag \cup {c} /\ tag' \subseteq tag \ {c}
    BY <1>0, <1>1, RelayAssumption DEF TypeOK
<1>5. CASE UNCHANGED <<ex, told>>
    <2>1. ExStep /\ ToldStep
        BY <1>5 DEF ExStep, ToldStep
    <2>2. TypeOK'
        BY <1>0, <1>1, <1>5 DEF TypeOK
    <2> QED
        BY <1>1, <1>3, <1>4, <1>5, <2>1, <2>2, EventStep
<1>6. CASE Has(f) /\ RemoveAndNotify(f)
    <2>1. Detach(f) /\ \E fs : fs = {f} /\ ex' = Unlinked(fs)
        BY <1>6 DEF RemoveAndNotify, Detach
    <2>2. PICK fs : fs = {f} /\ ex' = Unlinked(fs)
        BY <2>1
    <2>3. ExStep /\ ex' \in [Fds -> ExRecs] /\ \A g \in Fds : g \notin fs => ex'[g] = ex[g]
        BY <1>0, <2>2, UnlinkedSteps
    <2>4. /\ told' \in [Outs -> [opened : SUBSET Nat, closed : SUBSET Nat]]
          /\ ToldStep
          /\ \A o \in Outs : Live(o)' /\ ex[f].out = o => ex[f].id \in told'[o].closed
        BY <1>0, <1>3, <2>1, DetachSteps
    <2>5. TypeOK'
        BY <1>0, <1>1, <2>3, <2>4 DEF TypeOK
    <2>6. \A g \in Fds : \/ ex'[g] = ex[g]
                         \/ \A o \in Outs : Live(o)' /\ ex[g].out = o => ex[g].id \in told'[o].closed
        <3>1. \A g \in Fds : g # f => g \notin fs
            BY <2>2
        <3> QED
            BY <2>3, <2>4, <3>1
    <2> QED
        BY <1>1, <1>3, <1>4, <2>3, <2>4, <2>5, <2>6, EventStep
<1> QED
    BY <1>2, <1>5, <1>6 DEF mtproto_ext_rpc_ready, mtproto_ext_rpc_close

\* The notification job keeps the invariant.
LEMMA NotifyInv ==
    ASSUME RelayInv, notification_event_run
    PROVE  RelayInv'
<1>0. TypeOK /\ eq \in Seq(Tasks) /\ nq \in Seq(Events) /\ AnswersReachOwner
    BY DEF RelayInv, TypeOK
<1>1. UNCHANGED <<dropped, remote, asked, forwarded>> /\ eq # <<>> /\ Head(eq).job = "notify"
    BY DEF notification_event_run, At
<1>2. CASE nq # <<>> /\ run_notification_event(Head(nq)) /\ nq' = Tail(nq) /\ UNCHANGED eq
    <2>1. PICK e : e = Head(nq) /\ e = nq[1]
        BY <1>0, <1>2, Taken
    <2>2. run_notification_event(e)
        BY <1>2, <2>1
    <2>3. CASE e.ev = "ready" /\ e.who \in Outs /\ mtfront_client_ready(e.who)
        <3>1. PICK o \in Outs : o = e.who
            BY <2>3
        <3> QED
            BY <1>1, <1>2, <2>1, <2>3, <3>1, ReadyOutInv
    <2>4. CASE e.ev = "close" /\ e.who \in Outs /\ mtfront_client_close(e.who)
        <3>1. PICK o \in Outs : o = e.who
            BY <2>4
        <3> QED
            BY <1>1, <1>2, <2>1, <2>4, <3>1, CloseOutInv
    <2>5. CASE e.ev = "ready" /\ e.who \in Clients /\ mtproto_ext_rpc_ready(e.who)
        <3>1. PICK c \in Clients : c = e.who
            BY <2>5
        <3> QED
            BY <1>1, <1>2, <2>1, <2>5, <3>1, ClientEventInv
    <2>6. CASE e.ev = "close" /\ e.who \in Clients /\ mtproto_ext_rpc_close(e.who)
        <3>1. PICK c \in Clients : c = e.who
            BY <2>6
        <3> QED
            BY <1>1, <1>2, <2>1, <2>6, <3>1, ClientEventInv
    <2> QED
        BY <2>2, <2>3, <2>4, <2>5, <2>6 DEF run_notification_event
<1>3. CASE eq' = Tail(eq) /\ UNCHANGED <<conn, ex, slot, out, tag, nq, told, aborted>>
    <2>1. Gentle /\ ExStep /\ ToldStep /\ AnswersReachOwner'
        BY <1>0, <1>3, SameConn DEF ExStep, ToldStep, AnswersReachOwner
    <2>2. eq[1].job # "query" /\ eq' \in Seq(Tasks)
        BY <1>0, <1>1, <1>3, Taken
    <2>3. TypeOK'
        BY <1>0, <1>1, <1>3, <2>2 DEF TypeOK
    <2> QED
        BY <1>1, <1>3, <2>1, <2>2, <2>3, ExecutedStep
<1> QED
    BY <1>2, <1>3 DEF notification_event_run, Done, table

-----------------------------------------------------------------------------
(***************************************************************************)
(* Connections come and go.                                                *)
(***************************************************************************)
\* What the life of a connection keeps, once its descriptor, its references
\* and its events are in order.
LEMMA LifeStep ==
    ASSUME RelayInv, Onward, SameGot, conn' \in [Conns -> ConnRecs], nq' \in Seq(Events),
           FdsHeld', RefsHeld', EventsOrdered', HeadsSound',
           eq' = eq \/ eq' = Append(eq, [job |-> "notify"]),
           UNCHANGED <<dropped, ex, slot, out, tag, remote, told, asked, forwarded, aborted>>
    PROVE  RelayInv'
<1>0. /\ TypeOK /\ FdsHeld /\ TableSound /\ AnswersOwned /\ SessionsOwned
      /\ DroppedOut /\ InOrder /\ AnswersReachOwner /\ NoSessionLeft /\ NoGaps
      /\ eq \in Seq(Tasks)
    BY DEF RelayInv, TypeOK
<1>1. ExStep /\ ToldStep
    BY DEF ExStep, ToldStep
<1>2. PICK t \in Tasks : t = [job |-> "notify"] /\ t.job = "notify"
    BY SMT DEF Tasks
<1>3. EqFrom({t}) /\ eq' \in Seq(Tasks)
    <2>1. CASE eq' = eq
        BY <1>0, <2>1, EqSteps DEF EqFrom
    <2>2. CASE eq' = Append(eq, t)
        BY <1>0, <2>2, EqSteps
    <2> QED
        BY <1>2, <2>1, <2>2
<1>4. TypeOK'
    BY <1>0, <1>3 DEF TypeOK
<1>5. TableSound'
    BY <1>0, <1>1, TableKept
<1>6. AnswersOwned'
    BY <1>0, <1>1, <1>2, <1>3, AnswersKept
<1>7. SessionsOwned'
    BY <1>0, <1>1, <1>2, <1>3, SessionsKept
<1>8. DroppedOut'
    BY <1>0, <1>1, <1>2, <1>3, DroppedKept
<1>9. InOrder'
    <2>1. CASE eq' = eq
        BY <1>0, <2>1, OrderSame
    <2>2. CASE eq' = Append(eq, t)
        BY <1>0, <1>2, <2>2, OrderAppended
    <2> QED
        BY <1>2, <2>1, <2>2
<1>10. AnswersReachOwner' /\ NoGaps'
    BY <1>0, DeliveredKept DEF AnswersReachOwner, NoGaps
<1>11. NoSessionLeft'
    BY <1>0, <1>1, SessionLeftKept
<1> QED
    BY <1>4, <1>5, <1>6, <1>7, <1>8, <1>9, <1>10, <1>11 DEF RelayInv

\* What notification_event_insert_conn queues.
LEMMA EventMade ==
    ASSUME NEW x \in Conns, NEW type \in {"ready", "close"}
    PROVE  /\ \E u \in Events : u = [ev |-> type, who |-> x] /\ u.who = x
           /\ \E t \in Tasks : t = [job |-> "notify"] /\ t.job = "notify"
<1>1. PICK u : u = [ev |-> type, who |-> x]
    OBVIOUS
<1>2. u \in Events /\ u.who = x
    BY <1>1 DEF Events
<1>3. PICK t : t = [job |-> "notify"]
    OBVIOUS
<1>4. t \in Tasks /\ t.job = "notify"
    BY <1>3 DEF Tasks
<1> QED
    BY <1>1, <1>2, <1>3, <1>4

\* The references, when a connection that is alive is notified.
LEMMA LifeRefs ==
    ASSUME TypeOK, RefsHeld, Retained, NEW x \in Conns, Alive(x)', NEW type \in {"ready", "close"},
           notification_event_insert_conn(x, type)
    PROVE  /\ RefsHeld' /\ nq' \in Seq(Events) /\ (eq' = eq \/ eq' = Append(eq, [job |-> "notify"]))
           /\ Len(nq) \in Nat /\ Len(nq') = Len(nq) + 1 /\ nq'[Len(nq) + 1] = [ev |-> type, who |-> x]
           /\ \A i \in 1 .. Len(nq) : nq'[i] = nq[i]
<1>0. eq \in Seq(Tasks) /\ nq \in Seq(Events)
    BY DEF TypeOK
<1>1. PICK u \in Events : u = [ev |-> type, who |-> x] /\ u.who = x
    BY EventMade
<1>2. PICK t \in Tasks : t = [job |-> "notify"] /\ t.job = "notify"
    BY EventMade
<1>3. nq' = Append(nq, u) /\ (eq' = eq \/ eq' = Append(eq, t))
    BY <1>1, <1>2 DEF notification_event_insert_conn
<1>4. NqFrom({u}) /\ nq' \in Seq(Events)
    BY <1>0, <1>3, NqSteps
<1>5. EqFrom({t})
    <2>1. CASE eq' = eq
        BY <2>1 DEF EqFrom
    <2>2. CASE eq' = Append(eq, t)
        BY <1>0, <2>2, EqSteps
    <2> QED
        BY <1>3, <2>1, <2>2
<1>6. RefsHeld'
    BY <1>0, <1>1, <1>2, <1>4, <1>5, RefsKept
<1>7. /\ Len(nq) \in Nat /\ Len(nq') = Len(nq) + 1 /\ nq'[Len(nq) + 1] = u
      /\ \A i \in 1 .. Len(nq) : nq'[i] = nq[i]
    BY SMT, <1>0, <1>3, Appended
<1> QED
    BY <1>1, <1>2, <1>3, <1>4, <1>6, <1>7

\* What becomes of the events when one is added.
LEMMA EventAdded ==
    ASSUME EventsOrdered, nq \in Seq(Events), tag' = tag, NEW x \in Conns, NEW type \in {"ready", "close"},
           Len(nq) \in Nat, Len(nq') = Len(nq) + 1, nq'[Len(nq) + 1] = [ev |-> type, who |-> x],
           \A i \in 1 .. Len(nq) : nq'[i] = nq[i],
           ~Told(type, x), ~Told("close", x), type = "ready" => x \notin tag,
           type = "close" => conn'[x].st = "closed",
           \A y \in Conns : y # x \/ type = "ready" => (conn'[y].st = "closed" <=> conn[y].st = "closed"),
           conn[x].st # "closed"
    PROVE  EventsOrdered'
<1> DEFINE l == Len(nq) + 1
<1>0. \A i \in 1 .. Len(nq') : i = l \/ i \in 1 .. Len(nq)
    BY SMT
<1>1. ASSUME NEW i \in 1 .. Len(nq)
      PROVE  nq[i].who \in Conns /\ nq[i] # [ev |-> type, who |-> x] /\ ~(nq[i].who = x /\ nq[i].ev = "close")
    <2>1. nq[i].who \in Conns /\ nq[i] = [ev |-> nq[i].ev, who |-> nq[i].who]
        BY EventFields
    <2>2. nq[i] # [ev |-> type, who |-> x] /\ nq[i] # [ev |-> "close", who |-> x]
        BY DEF Told
    <2> QED
        BY <2>1, <2>2
<1>2. ASSUME NEW i \in 1 .. Len(nq'), NEW j \in 1 .. Len(nq'), nq'[i] = nq'[j]
      PROVE  i = j
    BY SMT, <1>0, <1>1, <1>2 DEF EventsOrdered
<1>3. ASSUME NEW i \in 1 .. Len(nq'), NEW j \in 1 .. Len(nq'), nq'[i].who = nq'[j].who, nq'[i].ev = "ready",
             nq'[j].ev = "close"
      PROVE  i < j
    <2>1. CASE i = l
        BY SMT, <1>0, <1>1, <1>3, <2>1
    <2>2. CASE i \in 1 .. Len(nq) /\ j = l
        BY SMT, <2>2
    <2>3. CASE i \in 1 .. Len(nq) /\ j \in 1 .. Len(nq)
        BY <1>3, <2>3 DEF EventsOrdered
    <2> QED
        BY <1>0, <2>1, <2>2, <2>3
<1>4. ASSUME NEW i \in 1 .. Len(nq'), NEW t, t = nq'[i], t.ev = "ready"
      PROVE  t.who \notin tag'
    <2>1. CASE i = l
        BY SMT, <1>4, <2>1
    <2>2. CASE i \in 1 .. Len(nq)
        BY <1>4, <2>2 DEF EventsOrdered
    <2> QED
        BY <1>0, <2>1, <2>2
<1>5. ASSUME NEW i \in 1 .. Len(nq'), NEW t, t = nq'[i], t.ev = "close"
      PROVE  conn'[t.who].st = "closed"
    <2>1. CASE i = l
        BY SMT, <1>5, <2>1
    <2>2. CASE i \in 1 .. Len(nq)
        <3>1. t = nq[i] /\ conn[t.who].st = "closed" /\ t.who \in Conns
            BY <1>1, <1>5, <2>2 DEF EventsOrdered
        <3> QED
            BY <3>1
    <2> QED
        BY <1>0, <2>1, <2>2
<1>6. ASSUME NEW y \in Conns, conn'[y].st = "closed", y \in tag' \/ Told("ready", y)'
      PROVE  Told("close", y)'
    <2>1. CASE type = "close" /\ y = x
        BY SMT, <2>1 DEF Told
    <2>2. CASE ~(type = "close" /\ y = x)
        <3>1. conn[y].st = "closed" /\ y # x
            BY <1>6, <2>2
        <3>2. Told("ready", y)' => Told("ready", y)
            BY SMT, <1>0, <3>1 DEF Told
        <3>3. Told("close", y)
            BY <1>6, <3>1, <3>2 DEF EventsOrdered
        <3> QED
            BY SMT, <3>3 DEF Told
    <2> QED
        BY <2>1, <2>2
<1> QED
    BY <1>2, <1>3, <1>4, <1>5, <1>6, Zenon DEF EventsOrdered

\* A connection is opened on a free descriptor: nothing of an earlier one is
\* left to be mistaken for it.
LEMMA OpenInv ==
    ASSUME RelayInv, NEW x \in Conns, Open(x)
    PROVE  RelayInv'
<1>0. /\ TypeOK /\ FdsHeld /\ RefsHeld /\ EventsOrdered /\ HeadsSound /\ nq \in Seq(Events)
      /\ conn \in [Conns -> ConnRecs] /\ conn[x] \in ConnRecs /\ conn[x].st = "none"
    BY DEF RelayInv, TypeOK, Open
<1>1. /\ UNCHANGED <<dropped, ex, slot, out, tag, remote, told, asked, forwarded, aborted>>
      /\ notification_event_insert_conn(x, "ready")
    BY DEF Open, table, peers
<1>2. PICK f \in FreeFds : conn' = [conn EXCEPT ![x] = [@ EXCEPT !.fd = f, !.st = "open", !.sock = TRUE]]
    BY DEF Open
<1>3. f \in Fds /\ \A y \in Conns : Alive(y) => conn[y].fd # f
    BY DEF FreeFds, Alive
<1>4. PICK u : u = [conn[x] EXCEPT !.fd = f, !.st = "open", !.sock = TRUE]
    OBVIOUS
<1>5. u \in ConnRecs /\ u.fd = f /\ u.st = "open" /\ u.sock = TRUE /\ u.got = conn[x].got
    BY <1>0, <1>3, <1>4 DEF ConnRecs, States
<1>6. conn' = [conn EXCEPT ![x] = u]
    BY <1>0, <1>2, <1>4
<1>7. conn' \in [Conns -> ConnRecs] /\ conn'[x] = u /\ \A y \in Conns : y # x => conn'[y] = conn[y]
    BY <1>0, <1>5, <1>6
<1>8. Onward /\ Retained /\ SameGot /\ Alive(x)' /\ ~Alive(x)
    BY <1>0, <1>5, <1>7 DEF Onward, Retained, SameGot, Alive
<1>9. FdsHeld'
    <2>1. ASSUME NEW y \in Conns
          PROVE  /\ conn'[y].sock => conn'[y].st \in {"open", "failed"}
                 /\ Alive(y)' => conn'[y].fd \in Fds
        BY <1>0, <1>3, <1>5, <1>7 DEF FdsHeld, Alive
    <2>2. ASSUME NEW y \in Conns, NEW z \in Conns, Alive(y)', Alive(z)', conn'[y].fd = conn'[z].fd
          PROVE  y = z
        <3>1. \A w \in Conns : w # x /\ Alive(w)' => Alive(w) /\ conn'[w].fd = conn[w].fd /\ conn[w].fd # f
            BY <1>3, <1>7 DEF Alive
        <3> QED
            BY SMT, <1>0, <1>5, <1>7, <2>2, <3>1 DEF FdsHeld
    <2> QED
        BY <2>1, <2>2, Zenon DEF FdsHeld
<1>10. /\ RefsHeld' /\ nq' \in Seq(Events) /\ (eq' = eq \/ eq' = Append(eq, [job |-> "notify"]))
       /\ Len(nq) \in Nat /\ Len(nq') = Len(nq) + 1 /\ nq'[Len(nq) + 1] = [ev |-> "ready", who |-> x]
       /\ \A i \in 1 .. Len(nq) : nq'[i] = nq[i]
    BY <1>0, <1>1, <1>8, LifeRefs
<1>11. ~Told("ready", x) /\ ~Told("close", x) /\ x \notin tag
    BY SMT, <1>0, <1>8 DEF RefsHeld, Told, HeadsSound
<1>12. EventsOrdered'
    <2>1. \A y \in Conns : conn'[y].st = "closed" <=> conn[y].st = "closed"
        BY <1>0, <1>5, <1>7
    <2> QED
        BY <1>0, <1>1, <1>10, <1>11, <2>1, EventAdded
<1>13. HeadsSound'
    BY <1>0, <1>1, <1>8, HeadsKept
<1> QED
    BY <1>1, <1>7, <1>8, <1>9, <1>10, <1>12, <1>13, LifeStep

\* A connection is closed, and its close event is queued after its ready event.
LEMMA CloseInv ==
    ASSUME RelayInv, NEW x \in Conns, Close(x)
    PROVE  RelayInv'
<1>0. /\ TypeOK /\ FdsHeld /\ RefsHeld /\ EventsOrdered /\ HeadsSound /\ nq \in Seq(Events)
      /\ conn \in [Conns -> ConnRecs] /\ conn[x] \in ConnRecs /\ conn[x].st \in {"open", "failed"}
    BY DEF RelayInv, TypeOK, Close
<1>1. /\ UNCHANGED <<dropped, ex, slot, out, tag, remote, told, asked, forwarded, aborted>>
      /\ notification_event_insert_conn(x, "close")
      /\ conn' = [conn EXCEPT ![x] = [@ EXCEPT !.st = "closed", !.sock = FALSE]]
    BY DEF Close, table, peers
<1>2. PICK u : u = [conn[x] EXCEPT !.st = "closed", !.sock = FALSE]
    OBVIOUS
<1>3. u \in ConnRecs /\ u.fd = conn[x].fd /\ u.st = "closed" /\ u.sock = FALSE /\ u.got = conn[x].got
    BY <1>0, <1>2 DEF ConnRecs, States
<1>4. conn' = [conn EXCEPT ![x] = u]
    BY <1>0, <1>1, <1>2
<1>5. conn' \in [Conns -> ConnRecs] /\ conn'[x] = u /\ \A y \in Conns : y # x => conn'[y] = conn[y]
    BY <1>0, <1>3, <1>4
<1>6. Onward /\ Retained /\ SameGot /\ Alive(x)' /\ Alive(x)
    BY <1>0, <1>3, <1>5 DEF Onward, Retained, SameGot, Alive
<1>7. FdsHeld'
    <2>1. ASSUME NEW y \in Conns
          PROVE  /\ conn'[y].fd = conn[y].fd /\ Alive(y)' = Alive(y)
                 /\ conn'[y].sock => conn'[y].st \in {"open", "failed"}
        BY <1>0, <1>3, <1>5 DEF FdsHeld, Alive
    <2> QED
        BY <1>0, <2>1 DEF FdsHeld
<1>8. /\ RefsHeld' /\ nq' \in Seq(Events) /\ (eq' = eq \/ eq' = Append(eq, [job |-> "notify"]))
      /\ Len(nq) \in Nat /\ Len(nq') = Len(nq) + 1 /\ nq'[Len(nq) + 1] = [ev |-> "close", who |-> x]
      /\ \A i \in 1 .. Len(nq) : nq'[i] = nq[i]
    BY <1>0, <1>1, <1>6, LifeRefs
<1>9. ~Told("close", x)
    BY SMT, <1>0 DEF EventsOrdered, Told
<1>10. EventsOrdered'
    <2>1. conn'[x].st = "closed" /\ conn[x].st # "closed"
        BY <1>0, <1>3, <1>5
    <2> QED
        BY <1>0, <1>1, <1>5, <1>8, <1>9, <2>1, EventAdded
<1>11. HeadsSound'
    BY <1>0, <1>1, <1>6, HeadsKept
<1> QED
    BY <1>1, <1>5, <1>6, <1>7, <1>8, <1>10, <1>11, LifeStep

\* cpu_server_free_connection: nothing queued names the connection, and it is
\* registered no longer, so its descriptor can be given away.
LEMMA FreeInv ==
    ASSUME RelayInv, NEW x \in Conns, cpu_server_free_connection(x)
    PROVE  RelayInv'
<1>0. /\ TypeOK /\ FdsHeld /\ RefsHeld /\ EventsOrdered /\ HeadsSound /\ nq \in Seq(Events) /\ eq \in Seq(Tasks)
      /\ conn \in [Conns -> ConnRecs] /\ conn[x] \in ConnRecs /\ conn[x].st = "closed" /\ tag \subseteq Conns
    BY DEF RelayInv, TypeOK, cpu_server_free_connection, Conns
<1>1. UNCHANGED <<dropped, ex, slot, out, tag, eq, nq, remote, told, asked, forwarded, aborted>> /\ ~Referenced(x)
    BY DEF cpu_server_free_connection, table, peers
<1>2. PICK u : u = [conn[x] EXCEPT !.st = "freed"]
    OBVIOUS
<1>3. u \in ConnRecs /\ u.fd = conn[x].fd /\ u.st = "freed" /\ u.sock = conn[x].sock /\ u.got = conn[x].got
    BY <1>0, <1>2 DEF ConnRecs, States
<1>4. conn' = [conn EXCEPT ![x] = u]
    BY <1>0, <1>2 DEF cpu_server_free_connection
<1>5. conn' \in [Conns -> ConnRecs] /\ conn'[x] = u /\ \A y \in Conns : y # x => conn'[y] = conn[y]
    BY <1>0, <1>3, <1>4
<1>6. Onward /\ SameGot /\ ~Alive(x)' /\ \A y \in Conns : y # x => (Alive(y)' <=> Alive(y)) /\ conn'[y].fd = conn[y].fd
    BY <1>0, <1>3, <1>5 DEF Onward, SameGot, Alive
<1>7. FdsHeld'
    <2>1. ~conn'[x].sock
        BY <1>0, <1>3, <1>5 DEF FdsHeld
    <2>2. ASSUME NEW y \in Conns
          PROVE  /\ conn'[y].sock => conn'[y].st \in {"open", "failed"}
                 /\ Alive(y)' => conn'[y].fd \in Fds
        BY <1>0, <1>5, <1>6, <2>1 DEF FdsHeld
    <2>3. ASSUME NEW y \in Conns, NEW z \in Conns, Alive(y)', Alive(z)', conn'[y].fd = conn'[z].fd
          PROVE  y = z
        BY <1>0, <1>6, <2>3 DEF FdsHeld
    <2> QED
        BY <2>2, <2>3, Zenon DEF FdsHeld
<1>8. \A i \in 1 .. Len(nq) : nq[i].who \in Conns /\ nq[i].who # x
    BY <1>0, <1>1, EventFields DEF Referenced
<1>9. RefsHeld'
    <2>1. ASSUME NEW i \in 1 .. Len(eq), NEW t, t = eq[i], t.job # "notify"
          PROVE  Alive(t.who)'
        <3>1. t.who \in Conns /\ t.who # x /\ Alive(t.who)
            BY SMT, <1>0, <1>1, <2>1, TaskFields DEF Referenced, RefsHeld
        <3> QED
            BY <1>6, <3>1
    <2>2. ASSUME NEW i \in 1 .. Len(nq), NEW t, t = nq[i]
          PROVE  Alive(t.who)'
        <3>1. t.who \in Conns /\ t.who # x /\ Alive(t.who)
            BY <1>0, <1>8, <2>2 DEF RefsHeld
        <3> QED
            BY <1>6, <3>1
    <2> QED
        BY <1>1, <2>1, <2>2 DEF RefsHeld, Alive
<1>10. EventsOrdered'
    <2>1. \A y \in Conns : conn'[y].st = "closed" => conn[y].st = "closed"
        BY <1>3, <1>5
    <2>2. \A i \in 1 .. Len(nq) : conn'[nq[i].who] = conn[nq[i].who]
        BY <1>5, <1>8
    <2> QED
        BY ZenonT(60), <1>0, <1>1, <2>1, <2>2 DEF EventsOrdered, Told
<1>11. x \notin tag
    <2> SUFFICES ASSUME x \in tag
                 PROVE  FALSE
        OBVIOUS
    <2>1. Told("close", x)
        BY <1>0 DEF EventsOrdered
    <2> QED
        BY SMT, <1>8, <2>1 DEF Told
<1>12. HeadsSound'
    <2>1. \A o \in tag : Alive(o)' /\ conn'[o].fd = conn[o].fd
        BY <1>0, <1>6, <1>11 DEF HeadsSound
    <2> QED
        BY <1>0, <1>1, <2>1 DEF HeadsSound, Alive
<1> QED
    BY <1>0, <1>1, <1>5, <1>6, <1>7, <1>9, <1>10, <1>12, LifeStep

-----------------------------------------------------------------------------
(***************************************************************************)
(* The theorems.                                                           *)
(***************************************************************************)
\* The relay starts with no connection, no session and nothing queued.
LEMMA InitInv ==
    ASSUME Init
    PROVE  RelayInv
<1>1. /\ \A x \in Conns : conn[x].st = "none" /\ conn[x].sock = FALSE /\ conn[x].got = {}
      /\ conn \in [Conns -> ConnRecs]
    BY DEF Init, ConnRecs, States
<1>2. /\ dropped = {} /\ tag = {} /\ ~aborted /\ eq \in Seq(Tasks) /\ nq \in Seq(Events)
      /\ 1 .. Len(eq) = {} /\ 1 .. Len(nq) = {} /\ Len(eq) = 0
    BY SMT DEF Init
<1>3. /\ ex \in [Fds -> ExRecs] /\ slot \in [Fds -> Nat] /\ out \in [Fds -> Outs \cup {NoConn}]
      /\ \A f \in Fds : ~Has(f) /\ out[f] = NoConn
    BY DEF Init, ExRecs, Has
<1>4. /\ remote \in [Outs -> SUBSET Requests]
      /\ told \in [Outs -> [opened : SUBSET Nat, closed : SUBSET Nat]]
      /\ \A o \in Outs : remote[o] = {} /\ told[o].opened = {}
    BY DEF Init
<1>5. /\ asked \in [Clients -> Nat] /\ forwarded \in [Clients -> SUBSET Nat]
      /\ \A c \in Clients : asked[c] = 0 /\ forwarded[c] = {}
    BY DEF Init
<1>6. TypeOK
    BY <1>1, <1>2, <1>3, <1>4, <1>5 DEF TypeOK
<1>7. FdsHeld /\ RefsHeld
    BY <1>1, <1>2 DEF FdsHeld, RefsHeld, Alive
<1>8. EventsOrdered /\ HeadsSound
    <2>1. EventsOrdered
        BY <1>1, <1>2 DEF EventsOrdered
    <2>2. HeadsSound
        BY <1>2, <1>3 DEF HeadsSound
    <2> QED
        BY <2>1, <2>2
<1>9. TableSound /\ AnswersOwned /\ SessionsOwned
    <2>1. TableSound
        BY <1>3 DEF TableSound
    <2>2. AnswersOwned
        BY <1>2, <1>4 DEF AnswersOwned
    <2>3. SessionsOwned
        BY <1>2, <1>4 DEF SessionsOwned
    <2> QED
        BY <2>1, <2>2, <2>3
<1>10. DroppedOut /\ InOrder
    BY <1>2, <1>5 DEF DroppedOut, InOrder, Follows
<1>11. AnswersReachOwner /\ NoSessionLeft /\ NoGaps
    BY <1>1, <1>2, <1>4, <1>5 DEF AnswersReachOwner, NoSessionLeft, NoGaps, Conns
<1> QED
    BY <1>6, <1>7, <1>8, <1>9, <1>10, <1>11 DEF RelayInv

\* Every step of the relay keeps the invariant, whatever the order of queries,
\* answers, notifications and reused descriptors.
THEOREM RelayInductive == Spec => []RelayInv
<1>1. Init => RelayInv
    BY InitInv
<1>2. RelayInv /\ [Next]_vars => RelayInv'
    <2> SUFFICES ASSUME RelayInv, [Next]_vars
                 PROVE  RelayInv'
        OBVIOUS
    <2>1. ASSUME NEW x \in Conns, Open(x) \/ SocketFails(x) \/ Close(x) \/ cpu_server_free_connection(x)
          PROVE  RelayInv'
        BY <2>1, OpenInv, FailingInv, CloseInv, FreeInv
    <2>2. ASSUME NEW c \in Clients, ext_rpcs_execute(c) \/ check_conn_buffers(c)
          PROVE  RelayInv'
        BY <2>2, AskInv, FailingInv
    <2>3. ASSUME NEW o \in Outs, MiddleEndAnswers(o) \/ MiddleEndCloses(o)
          PROVE  RelayInv'
        BY <2>3, AnswerInv, RemoteCloseInv
    <2>4. CASE notification_event_run
        BY <2>4, NotifyInv
    <2>5. CASE do_rpcs_execute
        BY <2>5, QueryInv
    <2>6. CASE process_client_packet
        BY <2>6, PacketInv
    <2>7. CASE process_close_ext
        BY <2>7, CloseExtInv
    <2>8. CASE check_all_conn_buffers \/ UNCHANGED vars
        BY <2>8, FailingInv
    <2> QED
        BY <2>1, <2>2, <2>3, <2>4, <2>5, <2>6, <2>7, <2>8 DEF Next
<1> QED
    BY <1>1, <1>2, PTL DEF Spec

\* Whatever a middle-end sends back reaches the client that asked, or nobody,
\* and no assertion of the table fails (process_client_packet,
\* mtfront_client_ready, create_ext_connection).
THEOREM AnswersComeHome == Spec => []AnswersReachOwner
<1>1. RelayInv => AnswersReachOwner
    BY DEF RelayInv
<1> QED
    BY <1>1, RelayInductive, PTL

\* A session the table has forgotten is closed on the other side as well
\* (remove_ext_connection).
THEOREM SessionsEndTogether == Spec => []NoSessionLeft
<1>1. RelayInv => NoSessionLeft
    BY DEF RelayInv
<1> QED
    BY <1>1, RelayInductive, PTL

\* The queries of a client that are forwarded leave no gap (forward_tcp_query
\* and RPC_F_DROPPED).
THEOREM QueriesLeaveNoGap == Spec => []NoGaps
<1>1. RelayInv => NoGaps
    BY DEF RelayInv
<1> QED
    BY <1>1, RelayInductive, PTL
=============================================================================
