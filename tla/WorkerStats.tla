----------------------------- MODULE WorkerStats -----------------------------
(***************************************************************************)
(* The statistics the worker processes publish and the master sums up      *)
(* (mtproto-proxy-stats.c), with the tables of a worker that are part of   *)
(* them: the traffic of each client address (net-tcp-rpc-ext-top-ips.c)    *)
(* and the counted ClientHello fingerprints (net-ja4.c).                   *)
(*                                                                         *)
(* A worker writes its statistics twice, into two records in shared        *)
(* memory, each between two increments of its cnt; the master copies the   *)
(* one whose cnt is even, and copies again if cnt has moved.  Neither side *)
(* takes a lock, and a worker may stop at any point for ever.              *)
(*                                                                         *)
(* One secret stands for all (their tables are independent); bytes_in and  *)
(* bytes_out, only ever compared by their sum, are one number; the plain   *)
(* counters of a record are one of them, per_secret_connections.           *)
(***************************************************************************)
EXTENDS Integers, Sequences, FiniteSets, FiniteSetsExt, SequencesExt, Functions

CONSTANTS
  Workers,                 \* 1 .. workers
  Ips, NoIp,               \* client addresses; the zero address of an empty entry
  Hashes,                  \* JA4 fingerprints
  top_ips_per_secret_runtime,
  IP_VOLUME_TABLE_SIZE, WORKER_TOP_IPS_MAX, MASTER_TOP_IPS_CAP,
  WORKER_TOP_JA4_MAX, MASTER_TOP_JA4_MAX,
  MaxOps,                  \* bound: events in all workers
  MaxUpdates               \* bound: update_local_stats in all workers

Fields == {"counters", "tops"}        \* what is copied piece by piece
Copies == {0, 1}

VARIABLES
  ip_volume,               \* per worker: the entries of the table
  ja4_table,               \* per worker: the counted fingerprints
  conns,                   \* per worker: the client connections of each address
  WStats,                  \* per worker: its two published records
  wr,                      \* per worker: where update_local_stats stands
  rd,                      \* compute_stats_sum of the master
  ops, updates,
  published                \* ghost: per worker, the records it meant to publish

vars == <<ip_volume, ja4_table, conns, WStats, wr, rd, ops, updates, published>>

NoEntry == [ip |-> NoIp, connections |-> 0, bytes |-> 0, stale |-> FALSE]
ZeroRecord == [counters |-> 0, tops |-> [ips |-> <<>>, ja4 |-> <<>>]]
Resting == [copy |-> 0, left |-> {}, at |-> "idle"]
NotReading == [at |-> "idle", w |-> 1, F |-> 1, s_cnt |-> 0, left |-> {}, W |-> ZeroRecord,
               sum |-> 0, ips |-> <<>>, ja4 |-> <<>>, took |-> <<>>]

Init ==
  /\ ip_volume = [w \in Workers |-> [i \in 1..IP_VOLUME_TABLE_SIZE |-> NoEntry]]
  /\ ja4_table = [w \in Workers |-> <<>>] /\ conns = [w \in Workers |-> [ip \in Ips |-> 0]]
  /\ WStats = [w \in Workers |-> [c \in Copies |-> [cnt |-> 0] @@ ZeroRecord]]
  /\ wr = [w \in Workers |-> Resting] /\ rd = NotReading /\ ops = 0 /\ updates = 0
  /\ published = [w \in Workers |-> {ZeroRecord}]

-----------------------------------------------------------------------------
(* net-tcp-rpc-ext-top-ips.c: the table of a worker.                       *)

Entries(t) == 1..Len(t)

\* The entry of an address: 0 if it has none.
ip_volume_lookup(t, ip) ==
  LET found == {i \in Entries(t) : t[i].ip = ip} IN IF found = {} THEN 0 ELSE Min(found)

Evictable(t) == {i \in Entries(t) : t[i].connections = 0 /\ t[i].stale}

\* The first empty entry, or the one of least traffic among those that have no
\* connection and were not seen for IP_VOLUME_STALE_SEC; 0 if there is neither.
ip_volume_acquire_slot(t) ==
  LET empty == {i \in Entries(t) : t[i].ip = NoIp}
      least == {i \in Evictable(t) : \A j \in Evictable(t) : t[i].bytes <= t[j].bytes}
  IN IF empty # {} THEN Min(empty) ELSE IF least # {} THEN Min(least) ELSE 0

\* The table with an entry for the address, if there was or could be made one.
ip_volume_get_or_create(t, ip) ==
  LET i == ip_volume_acquire_slot(t)
  IN IF ip_volume_lookup(t, ip) # 0 \/ i = 0 THEN t ELSE [t EXCEPT ![i] = [NoEntry EXCEPT !.ip = ip]]

\* The table after an event of the address, applied to its entry if it has one.
Touched(t, ip, dc, db) ==
  LET i == ip_volume_lookup(t, ip)
  IN IF i = 0 THEN t
     ELSE [t EXCEPT ![i].connections = Max({@ + dc, 0}), ![i].bytes = @ + db, ![i].stale = FALSE]

tcp_rpcs_account_connect(t, ip) ==
  IF top_ips_per_secret_runtime <= 0 THEN t ELSE Touched(ip_volume_get_or_create(t, ip), ip, 1, 0)
tcp_rpcs_account_disconnect(t, ip) ==
  IF top_ips_per_secret_runtime <= 0 THEN t ELSE Touched(t, ip, -1, 0)
tcp_rpcs_account_bytes(t, ip, bytes) ==
  IF top_ips_per_secret_runtime <= 0 THEN t ELSE Touched(ip_volume_get_or_create(t, ip), ip, 0, bytes)

Worth(t, picked) == {i \in Entries(t) \ picked : t[i].ip # NoIp /\ t[i].bytes + t[i].connections > 0}

\* The selection of the entries of most traffic, at most WORKER_TOP_IPS_MAX.
PickBest(t, picked) ==
  LET best == {i \in Worth(t, picked) : \A j \in Worth(t, picked) : t[j].bytes <= t[i].bytes}
  IN IF best = {} THEN picked ELSE picked \cup {Min(best)}
tcp_rpcs_snapshot_top_ips(t) ==
  LET pick[n \in 0..WORKER_TOP_IPS_MAX] == IF n = 0 THEN {} ELSE PickBest(t, pick[n - 1])
      rank == SetToSortSeq(pick[WORKER_TOP_IPS_MAX],
                           LAMBDA i, j : \/ t[i].bytes > t[j].bytes
                                         \/ t[i].bytes = t[j].bytes /\ i < j)
  IN IF top_ips_per_secret_runtime <= 0 THEN <<>>
     ELSE [k \in 1..Len(rank) |-> [ip |-> t[rank[k]].ip, connections |-> t[rank[k]].connections,
                                   bytes |-> t[rank[k]].bytes]]

-----------------------------------------------------------------------------
(* net-ja4.c: a table of counted fingerprints; a full one drops new ones.  *)
(* The table of a secret stands for the one of the whole worker too, which *)
(* is the same but for ja4_clear_secret.                                   *)

\* The table with "count" more of a fingerprint.
AddHash(t, hash, count, max) ==
  LET found == {i \in Entries(t) : t[i].hash = hash}
  IN IF found # {} THEN [t EXCEPT ![Min(found)].count = @ + count]
     ELSE IF Len(t) < max THEN Append(t, [hash |-> hash, count |-> count]) ELSE t

ja4_record(t, hash) == AddHash(t, hash, 1, WORKER_TOP_JA4_MAX)
ja4_snapshot(t) == SelectSeq(t, LAMBDA s : s.count # 0)
ja4_master_merge(t, slots) ==
  FoldLeft(LAMBDA m, s : AddHash(m, s.hash, s.count, MASTER_TOP_JA4_MAX), t, slots)

-----------------------------------------------------------------------------
(* The master's table of addresses.                                        *)

\* A full table gives up its entry of least traffic for one of more.
merge_one_top_ip(t, src) ==
  LET found == {i \in Entries(t) : t[i].ip = src.ip}
      less == {i \in Entries(t) : t[i].bytes < src.bytes /\ \A j \in Entries(t) : t[i].bytes <= t[j].bytes}
  IN IF found # {} THEN [t EXCEPT ![Min(found)].connections = @ + src.connections,
                                  ![Min(found)].bytes = @ + src.bytes]
     ELSE IF Len(t) < MASTER_TOP_IPS_CAP THEN Append(t, src)
     ELSE IF less # {} THEN [t EXCEPT ![Min(less)] = src] ELSE t

merge_worker_top_ips(t, slots) == FoldLeft(merge_one_top_ip, t, slots)

-----------------------------------------------------------------------------
(* What happens in a worker between two updates.                           *)

Event(w) == wr[w].at = "idle" /\ ops < MaxOps /\ ops' = ops + 1
            /\ UNCHANGED <<WStats, wr, rd, updates, published>>

Connect(w, ip) ==
  /\ Event(w) /\ conns' = [conns EXCEPT ![w][ip] = @ + 1]
  /\ ip_volume' = [ip_volume EXCEPT ![w] = tcp_rpcs_account_connect(@, ip)] /\ UNCHANGED ja4_table

Disconnect(w, ip) ==
  /\ Event(w) /\ conns[w][ip] > 0 /\ conns' = [conns EXCEPT ![w][ip] = @ - 1]
  /\ ip_volume' = [ip_volume EXCEPT ![w] = tcp_rpcs_account_disconnect(@, ip)] /\ UNCHANGED ja4_table

Relay(w, ip, bytes) ==
  /\ Event(w) /\ conns[w][ip] > 0
  /\ ip_volume' = [ip_volume EXCEPT ![w] = tcp_rpcs_account_bytes(@, ip, bytes)]
  /\ UNCHANGED <<conns, ja4_table>>

ja4_observe_with_hash(w, hash) ==
  /\ Event(w) /\ ja4_table' = [ja4_table EXCEPT ![w] = ja4_record(@, hash)]
  /\ UNCHANGED <<conns, ip_volume>>

\* The slot of the secret is taken for another one.
ja4_clear_secret(w) ==
  /\ Event(w) /\ ja4_table[w] # <<>> /\ ja4_table' = [ja4_table EXCEPT ![w] = <<>>]
  /\ UNCHANGED <<conns, ip_volume>>

\* More than IP_VOLUME_STALE_SEC pass.
Age(w) ==
  /\ Event(w) /\ ip_volume' = [ip_volume EXCEPT ![w] = [i \in Entries(@) |-> [@[i] EXCEPT !.stale = TRUE]]]
  /\ UNCHANGED <<conns, ja4_table>>

-----------------------------------------------------------------------------
(* update_local_stats of a worker: both records, one after the other.      *)

\* What the worker publishes; its own state does not change meanwhile.
Record(w) ==
  [counters |-> SumFunction(conns[w]),
   tops |-> [ips |-> tcp_rpcs_snapshot_top_ips(ip_volume[w]), ja4 |-> ja4_snapshot(ja4_table[w])]]

Writer(w, r) == /\ wr' = [wr EXCEPT ![w] = r]
                /\ UNCHANGED <<ip_volume, ja4_table, conns, rd, ops>>

update_open(w) ==
  LET first == wr[w].at = "idle" IN
  /\ \/ first /\ updates < MaxUpdates
     \/ wr[w].at = "open"
  /\ updates' = IF first THEN updates + 1 ELSE updates
  /\ published' = [published EXCEPT ![w] = @ \cup {Record(w)}]
  /\ WStats' = [WStats EXCEPT ![w][wr[w].copy].cnt = @ + 1]
  /\ Writer(w, [wr[w] EXCEPT !.left = Fields, !.at = "write"])

update_write(w, f) ==
  /\ wr[w].at = "write" /\ f \in wr[w].left /\ (f = "tops" => "counters" \notin wr[w].left)
  /\ WStats' = [WStats EXCEPT ![w][wr[w].copy][f] = Record(w)[f]]
  /\ Writer(w, [wr[w] EXCEPT !.left = @ \ {f}]) /\ UNCHANGED <<updates, published>>

update_close(w) ==
  /\ wr[w].at = "write" /\ wr[w].left = {}
  /\ WStats' = [WStats EXCEPT ![w][wr[w].copy].cnt = @ + 1]
  /\ Writer(w, IF wr[w].copy = 0 THEN [copy |-> 1, left |-> {}, at |-> "open"] ELSE Resting)
  /\ UNCHANGED <<updates, published>>

update_local_stats(w) == update_open(w) \/ (\E f \in Fields : update_write(w, f)) \/ update_close(w)

-----------------------------------------------------------------------------
(* compute_stats_sum of the master, at its cron and for every report.      *)

Reader(r) == rd' = r /\ UNCHANGED <<ip_volume, ja4_table, conns, WStats, wr, ops, updates, published>>
Even(n) == n % 2 = 0

sum_start == rd.at \in {"idle", "done"} /\ Reader([NotReading EXCEPT !.at = "probe"])

\* A record being written is left for the other one of the worker.
sum_probe ==
  LET s_cnt == WStats[rd.w][rd.F].cnt IN
  /\ rd.at = "probe"
  /\ Reader(IF Even(s_cnt) THEN [rd EXCEPT !.s_cnt = s_cnt, !.left = Fields, !.at = "copy"]
                           ELSE [rd EXCEPT !.F = 1 - @])

sum_copy(f) ==
  /\ rd.at = "copy" /\ f \in rd.left
  /\ Reader([rd EXCEPT !.W[f] = WStats[rd.w][rd.F][f], !.left = @ \ {f}])

\* add_stats and the three merges.
add_stats(r) ==
  [r EXCEPT !.sum = @ + r.W.counters, !.took = Append(@, r.W), !.F = 1,
            !.ips = merge_worker_top_ips(@, r.W.tops.ips), !.ja4 = ja4_master_merge(@, r.W.tops.ja4),
            !.w = IF r.w = Cardinality(Workers) THEN 1 ELSE r.w + 1,
            !.at = IF r.w = Cardinality(Workers) THEN "done" ELSE "probe"]

sum_verify ==
  /\ rd.at = "copy" /\ rd.left = {}
  /\ Reader(IF WStats[rd.w][rd.F].cnt = rd.s_cnt THEN add_stats(rd)
            ELSE [rd EXCEPT !.F = 1, !.at = "probe"])

compute_stats_sum == sum_start \/ sum_probe \/ (\E f \in Fields : sum_copy(f)) \/ sum_verify

Next ==
  \/ \E w \in Workers :
       \/ \E ip \in Ips : Connect(w, ip) \/ Disconnect(w, ip) \/ \E b \in 1..2 : Relay(w, ip, b)
       \/ \E h \in Hashes : ja4_observe_with_hash(w, h)
       \/ ja4_clear_secret(w) \/ Age(w) \/ update_local_stats(w)
  \/ compute_stats_sum

Spec == Init /\ [][Next]_vars

-----------------------------------------------------------------------------
TypeOK ==
  /\ \A w \in Workers : /\ wr[w].at \in {"idle", "open", "write"} /\ wr[w].left \subseteq Fields
                        /\ DOMAIN ip_volume[w] = 1..IP_VOLUME_TABLE_SIZE
                        /\ Len(ja4_table[w]) <= WORKER_TOP_JA4_MAX
  /\ rd.at \in {"idle", "probe", "copy", "done"} /\ rd.w \in Workers /\ rd.F \in Copies

\* The sum of one number over the rows of a key in a sequence of rows.
Total(rows, Is(_), Num(_)) == FoldLeft(LAMBDA n, r : IF Is(r) THEN n + Num(r) ELSE n, 0, rows)
AllIps(took) == FlattenSeq([k \in 1..Len(took) |-> took[k].tops.ips])
AllJa4(took) == FlattenSeq([k \in 1..Len(took) |-> took[k].tops.ja4])
Once(rows, Key(_)) == \A i, j \in 1..Len(rows) : Key(rows[i]) = Key(rows[j]) => i = j

=============================================================================
