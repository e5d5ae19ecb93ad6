------------------------------- MODULE IpStats -------------------------------
(***************************************************************************)
(* The table of client addresses that the worker processes share           *)
(* (ip-stats.c): an open-addressing hash table filled by compare-and-swap, *)
(* counters changed by atomic additions, and two lists of codes, countries *)
(* and Russian regions, that grow under a lock and are read without it.    *)
(***************************************************************************)
EXTENDS Integers, Sequences, FiniteSets, FiniteSetsExt, SequencesExt

CONSTANTS
  Workers,
  Ips,               \* client addresses
  NoIp,
  IP_HT_SIZE,        \* slots 0 .. IP_HT_SIZE - 1
  ip_ht_hash,        \* the slot an address is first looked for
  geoip_lookup,      \* the codes of an address: a country and, in RU, maybe a region
  MAX_CODES,         \* 256 countries, or MAX_REGIONS regions
  MaxOps             \* bound: calls per worker

Tables == {"country", "region"}
Slots == 0..(IP_HT_SIZE - 1)

VARIABLES
  ht,                \* the slots
  codes,             \* the lists of codes, with unique_ips and total_ips
  shared,            \* used, table_full_total and transport_total_ips
  w                  \* the workers

vars == <<ht, codes, shared, w>>

EmptySlot == [ip |-> NoIp, ready |-> FALSE, active_conns |-> 0, seen |-> FALSE]
IdleWorker == [pc |-> "idle", op |-> "none", ip |-> NoIp, slot |-> 0, scanned |-> 0,
               is_new_ip |-> FALSE, edge |-> FALSE, left |-> <<>>, entry |-> 0]

\* ip_stats_init.
Init == /\ ht = [i \in Slots |-> EmptySlot] /\ codes = [t \in Tables |-> <<>>]
        /\ shared = [used |-> 0, full |-> 0, transport |-> 0]
        /\ w = [p \in Workers |-> [at |-> IdleWorker, ops |-> 0,
                                   conns |-> [ip \in Ips |-> 0]]]

Pc(p) == w[p].at.pc
Set(p, a) == w' = [w EXCEPT ![p].at = a]
Finish(p) == w' = [w EXCEPT ![p].at = IdleWorker]
Goto(p, pc) == w' = [w EXCEPT ![p].at.pc = pc]

\* A worker calls one of the three; a connection it disconnects is its own.
Call(p, op, ip) ==
  /\ Pc(p) = "idle" /\ w[p].ops < MaxOps
  /\ op = "disconnect" => w[p].conns[ip] > 0
  /\ w' = [w EXCEPT ![p].ops = @ + 1,
                    ![p].conns[ip] = CASE op = "connect" -> @ + 1 [] op = "disconnect" -> @ - 1
                                       [] OTHER -> @,
                    ![p].at = [IdleWorker EXCEPT !.pc = "probe", !.op = op, !.ip = ip,
                                                 !.slot = ip_ht_hash[ip]]]
  /\ UNCHANGED <<ht, codes, shared>>

-----------------------------------------------------------------------------
(* ip_ht_get_or_create, and ip_ht_find for a disconnection.                *)

ThisSlot(p) == ht[w[p].at.slot]
NextSlot(a) == [a EXCEPT !.pc = "probe", !.slot = (@ + 1) % IP_HT_SIZE, !.scanned = @ + 1]

Probe(p) ==
  LET a == w[p].at IN
  /\ a.pc = "probe"
  /\ \/ /\ a.scanned < IP_HT_SIZE /\ ThisSlot(p).ip = a.ip /\ Goto(p, "wait") /\ UNCHANGED shared
     \/ /\ a.scanned < IP_HT_SIZE /\ ThisSlot(p).ip = NoIp
        /\ IF a.op = "disconnect" THEN Finish(p) ELSE Goto(p, "cas")
        /\ UNCHANGED shared
     \/ /\ a.scanned < IP_HT_SIZE /\ ThisSlot(p).ip \notin {NoIp, a.ip}
        /\ Set(p, NextSlot(a)) /\ UNCHANGED shared
     \/ /\ a.scanned = IP_HT_SIZE /\ Finish(p)
        /\ shared' = [shared EXCEPT !.full = IF a.op = "disconnect" THEN @ ELSE @ + 1]
  /\ UNCHANGED <<ht, codes>>


CompareAndSwap(p) ==
  LET a == w[p].at IN
  /\ a.pc = "cas"
  /\ \/ /\ ThisSlot(p).ip = NoIp
        /\ ht' = [ht EXCEPT ![a.slot].ip = a.ip] /\ Goto(p, "fill")
     \/ ThisSlot(p).ip = a.ip /\ Goto(p, "wait") /\ UNCHANGED ht
     \/ ThisSlot(p).ip \notin {NoIp, a.ip} /\ Set(p, NextSlot(a)) /\ UNCHANGED ht
  /\ UNCHANGED <<codes, shared>>

\* After the slot is found: transport_seen marks, the other two count.
Found(p) == CASE w[p].at.op = "transport" -> "mark" [] OTHER -> "add"

\* The winner publishes the codes of the address.
Fill(p) ==
  /\ Pc(p) = "fill"
  /\ ht' = [ht EXCEPT ![w[p].at.slot].ready = TRUE]
  /\ shared' = [shared EXCEPT !.used = @ + 1]
  /\ Set(p, [w[p].at EXCEPT !.pc = Found(p), !.is_new_ip = TRUE])
  /\ UNCHANGED codes

\* ip_ht_wait_ready, without its timeout of 2 seconds.
ip_ht_wait_ready(p) == /\ Pc(p) = "wait" /\ ThisSlot(p).ready
                       /\ Goto(p, Found(p)) /\ UNCHANGED <<ht, codes, shared>>

-----------------------------------------------------------------------------
(* ip_stats_connect and ip_stats_disconnect.                               *)

\* What is left to do with the lists of codes.
CodeLists(ip) == IF geoip_lookup[ip].region = "" THEN <<"country">> ELSE <<"country", "region">>
After(a) == IF a.left = <<>> THEN IdleWorker ELSE [a EXCEPT !.pc = "scan"]

\* The list of codes only at the first connection of the address.
MutantAdd(p) ==
  LET a == w[p].at
      old == ThisSlot(p).active_conns
  IN /\ a.pc = "add"
     /\ ht' = [ht EXCEPT ![a.slot].active_conns = old + IF a.op = "connect" THEN 1 ELSE -1]
     /\ Set(p, [a EXCEPT !.pc = "scan", !.left = CodeLists(a.ip),
                         !.edge = IF a.op = "connect" THEN a.is_new_ip ELSE old = 1])
     /\ UNCHANGED <<codes, shared>>

\* edge: the address becomes active or stops being so.  A disconnection finds a
\* positive count (IpTableSound), so the guard against an underflow is idle.
AddActive(p) ==
  LET a == w[p].at
      old == ThisSlot(p).active_conns
  IN /\ a.pc = "add"
     /\ \/ /\ a.op = "connect"
           /\ ht' = [ht EXCEPT ![a.slot].active_conns = old + 1]
           /\ Set(p, [a EXCEPT !.pc = "scan", !.left = CodeLists(a.ip), !.edge = old = 0])
        \/ /\ a.op = "disconnect"
           /\ ht' = [ht EXCEPT ![a.slot].active_conns = old - 1]
           /\ \/ old = 1 /\ Set(p, [a EXCEPT !.pc = "scan", !.left = CodeLists(a.ip), !.edge = TRUE])
              \/ old > 1 /\ Finish(p)
     /\ UNCHANGED <<codes, shared>>

Table(p) == Head(w[p].at.left)
Code(p) == geoip_lookup[w[p].at.ip][Table(p)]
EntryOf(p) == SelectInSeq(codes[Table(p)], LAMBDA e : e.code = Code(p))
At(p, i) == Set(p, [w[p].at EXCEPT !.pc = "count", !.entry = i])

\* country_find_or_create and region_find_or_create: the list as it is, without
\* the lock.
Scan(p) == /\ Pc(p) = "scan"
           /\ \/ EntryOf(p) # 0 /\ At(p, EntryOf(p))
              \/ EntryOf(p) = 0 /\ Goto(p, "create")
           /\ UNCHANGED <<ht, codes, shared>>

\* Under the lock the list is looked through again.
Create(p) ==
  /\ Pc(p) = "create"
  /\ \/ EntryOf(p) # 0 /\ At(p, EntryOf(p)) /\ UNCHANGED codes
     \/ /\ EntryOf(p) = 0 /\ Len(codes[Table(p)]) >= MAX_CODES
        /\ Set(p, After([w[p].at EXCEPT !.left = Tail(@)])) /\ UNCHANGED codes
     \/ /\ EntryOf(p) = 0 /\ Len(codes[Table(p)]) < MAX_CODES
        /\ codes' = [codes EXCEPT ![Table(p)] =
                       Append(@, [code |-> Code(p), unique_ips |-> 0, total_ips |-> 0])]
        /\ At(p, Len(codes[Table(p)]) + 1)
  /\ UNCHANGED <<ht, shared>>

\* A connection counts the address; a disconnection looks first that the count
\* is positive.
CountCode(p) ==
  LET a == w[p].at
      e == codes[Table(p)][a.entry]
      next == After([a EXCEPT !.left = Tail(@)])
  IN /\ a.pc = "count"
     /\ \/ /\ a.op = "connect"
           /\ codes' = [codes EXCEPT ![Table(p)][a.entry] =
                          [e EXCEPT !.unique_ips = @ + IF a.edge THEN 1 ELSE 0,
                                    !.total_ips = @ + IF a.is_new_ip THEN 1 ELSE 0]]
           /\ Set(p, next)
        \/ /\ a.op = "disconnect" /\ UNCHANGED codes
           /\ Set(p, IF e.unique_ips > 0 THEN [a EXCEPT !.pc = "uncount"] ELSE next)
     /\ UNCHANGED <<ht, shared>>

UncountCode(p) ==
  LET a == w[p].at IN
  /\ a.pc = "uncount"
  /\ codes' = [codes EXCEPT ![Table(p)][a.entry].unique_ips = @ - 1]
  /\ Set(p, After([a EXCEPT !.left = Tail(@)]))
  /\ UNCHANGED <<ht, shared>>

-----------------------------------------------------------------------------
(* ip_stats_transport_seen, of one transport.                              *)

Mark(p) ==
  /\ Pc(p) = "mark"
  /\ \/ ThisSlot(p).seen /\ Finish(p) /\ UNCHANGED ht
     \/ ~ThisSlot(p).seen /\ Goto(p, "total") /\ ht' = [ht EXCEPT ![w[p].at.slot].seen = TRUE]
  /\ UNCHANGED <<codes, shared>>
Total(p) == /\ Pc(p) = "total" /\ Finish(p)
            /\ shared' = [shared EXCEPT !.transport = @ + 1] /\ UNCHANGED <<ht, codes>>

Next == \E p \in Workers :
          \/ \E op \in {"connect", "disconnect", "transport"}, ip \in Ips : Call(p, op, ip)
          \/ Probe(p) \/ CompareAndSwap(p) \/ Fill(p) \/ ip_ht_wait_ready(p)
          \/ AddActive(p) \/ Scan(p) \/ Create(p) \/ CountCode(p) \/ UncountCode(p)
          \/ Mark(p) \/ Total(p)

Spec == Init /\ [][Next]_vars

-----------------------------------------------------------------------------
TypeOK == /\ \A i \in Slots : ht[i].ip \in Ips \cup {NoIp} /\ ht[i].active_conns \in Int
          /\ \A p \in Workers : w[p].at.slot \in Slots /\ w[p].at.scanned \in 0..IP_HT_SIZE
          /\ \A t \in Tables : Len(codes[t]) <= MAX_CODES

Tracked == {ht[i].ip : i \in Slots} \ {NoIp}
SlotOf(ip) == ht[CHOOSE i \in Slots : ht[i].ip = ip]
Doing(p, op, ip) == w[p].at.op = op /\ w[p].at.ip = ip
SumOf(S, f(_)) == MapThenSumSet(f, S)

\* Connections of an address that are in active_conns, while calls are going on.
Counted(p, ip) ==
  w[p].conns[ip] + CASE Doing(p, "connect", ip) /\ Pc(p) \in {"probe", "cas", "fill", "wait", "add"} -> -1
                     [] Doing(p, "disconnect", ip) /\ Pc(p) \in {"probe", "wait", "add"} -> 1
                     [] OTHER -> 0

\* What a worker still has to add to unique_ips of a code.
Owes(p, t, c) ==
  LET a == w[p].at IN
  IF a.edge /\ t \in Range(a.left) /\ geoip_lookup[a.ip][t] = c
  THEN IF a.op = "connect" THEN 1 ELSE -1 ELSE 0

=============================================================================
