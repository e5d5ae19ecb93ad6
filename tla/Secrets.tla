------------------------------ MODULE Secrets ------------------------------
(***************************************************************************)
(* The slots of the proxy's secrets, and the client connections counted    *)
(* under them: the handshake of net-tcp-rpc-ext-server.c, the reload and   *)
(* the draining of net-tcp-rpc-ext-drain.c, the sweeper and the close      *)
(* handlers of both relay modes.                                           *)
(*                                                                         *)
(* A slot is an index into the arrays ext_secret*, per_secret_*; slot s    *)
(* here is index s - 1 there, so that the connection's extra_int2 is the   *)
(* slot, and 0 is "no secret".  Slots 1 .. Pinned hold the -S secrets.     *)
(*                                                                         *)
(* Every handler is one action: without --multithread, the default, one    *)
(* thread runs them all.  A client uses one key for the whole handshake.   *)
(* Time is not modelled: a sweep may find the drain timeout of any         *)
(* draining slot elapsed, and a client that is refused because its secret  *)
(* has expired is one that does not come.                                  *)
(***************************************************************************)
EXTENDS Integers, FiniteSets, Sequences

CONSTANTS
    Conns,          \* connection structures, used again after a close
    Keys,           \* the 16-byte keys
    IPs,            \* client addresses
    Limits,         \* the values of limit, quota, rate_limit and max_ips
    PinnedEntries,  \* the -S secrets, in order
    Configs,        \* the secret lists a config file may hold
    MaxActive,      \* EXT_SECRET_MAX_ACTIVE
    MaxSlots,       \* EXT_SECRET_MAX_SLOTS
    MaxTracked,     \* SECRET_MAX_TRACKED_IPS
    MaxRetries,     \* DIRECT_MAX_RETRIES
    DrainTimeout,   \* drain_timeout_secs; 0 is never
    Workers,        \* the variable workers, in the process that serves
    Modes,          \* the values of direct_mode considered
    MaxBytes,       \* bound on the bytes counted per slot
    MaxLinks,       \* bound on direct_dc_connections_active
    MaxCount        \* bound on per_secret_connections

Pinned == Len(PinnedEntries)
Slots == 1 .. MaxSlots
Unpinned == Pinned + 1 .. MaxSlots

Entries == [key : Keys, limit : Limits, quota : Limits, rate_limit : Limits, max_ips : Limits]
NoEntry == [key |-> "zero", limit |-> 0, quota |-> 0, rate_limit |-> 0, max_ips |-> 0]

ASSUME SecretsAssumption ==
    /\ IsFiniteSet(Conns)
    /\ IsFiniteSet(IPs)
    /\ "zero" \notin Keys
    /\ Limits \subseteq Nat
    /\ PinnedEntries \in Seq(Entries)
    /\ Configs \subseteq Seq(Entries)
    /\ {MaxActive, MaxSlots, MaxTracked, MaxRetries, DrainTimeout, Workers, MaxBytes, MaxLinks, MaxCount} \subseteq Nat
    /\ Pinned <= MaxActive
    /\ MaxActive <= MaxSlots
    /\ Modes \subseteq BOOLEAN

VARIABLES
    direct_mode,    \* set at start
    remote_ip,      \* the address of the client that uses a connection
    state,          \* ext_secret_state
    entry,          \* ext_secret, ext_secret_limit, _quota, _rate_limit, _max_ips
    cnt,            \* ext_secret_cnt
    connections,    \* per_secret_connections
    bytes,          \* per_secret_bytes_received + per_secret_bytes_sent
    tracked,        \* per_secret_ips: the connections of each address, 0 is no entry
    unique_ips,     \* per_secret_unique_ip_count
    active,         \* direct_dc_connections_active
    stage,          \* how far each connection is, and its type
    key,            \* the key the client uses, once it has sent the handshake
    extra_int2,     \* the slot that the connection is counted under
    attempt,        \* extra_int of a direct client: the retry that is pending
    failed          \* connections with C_ERROR: closing is under way

slotVars == <<state, entry, cnt, bytes>>
countVars == <<connections, tracked, unique_ips>>
connVars == <<stage, key, extra_int2, attempt, failed>>
fixed == <<direct_mode, remote_ip>>
vars == <<fixed, slotVars, countVars, active, connVars>>

(***************************************************************************)
(* "new": not in use, or accepted and in_packet_num is -3.  "hello": the   *)
(* TLS ServerHello is sent and the obfuscated header awaited.  "served":   *)
(* ct_tcp_rpc_ext_server, counted.  "linked", "retry": ct_direct_client,   *)
(* counted, with and without a connection to the DC.                       *)
(***************************************************************************)
Counted == {"served", "linked", "retry"}
Stages == {"new", "hello"} \cup Counted

\* the connections that carry the number of slot s
Open(s) == {c \in Conns : stage[c] \in Counted /\ extra_int2[c] = s}
OpenFrom(s, i) == {c \in Open(s) : remote_ip[c] = i}

\* tcp_rpcs_set_ext_secret for every -S option, then tcp_rpcs_pin_ext_secrets
Init ==
    /\ direct_mode \in Modes
    /\ remote_ip \in [Conns -> IPs]
    /\ state = [s \in Slots |-> IF s <= Pinned THEN "ACTIVE" ELSE "FREE"]
    /\ entry = [s \in Slots |-> IF s <= Pinned THEN PinnedEntries[s] ELSE NoEntry]
    /\ cnt = Pinned
    /\ connections = [s \in Slots |-> 0]
    /\ bytes = [s \in Slots |-> 0]
    /\ tracked = [s \in Slots |-> [i \in IPs |-> 0]]
    /\ unique_ips = [s \in Slots |-> 0]
    /\ active = 0
    /\ stage = [c \in Conns |-> "new"]
    /\ key = [c \in Conns |-> "zero"]
    /\ extra_int2 = [c \in Conns |-> 0]
    /\ attempt = [c \in Conns |-> 0]
    /\ failed = {}

-----------------------------------------------------------------------------
(***************************************************************************)
(* The limits of a secret.                                                 *)
(***************************************************************************)
Lowest(S) == CHOOSE s \in S : \A t \in S : s <= t

\* the share of one worker
Effective(l) == LET e == IF Workers > 1 THEN l \div Workers ELSE l
                IN  IF e < 1 THEN 1 ELSE e

secret_over_limit(s) ==
    entry[s].limit > 0 /\ connections[s] >= Effective(entry[s].limit)

secret_over_quota(s, used) ==
    entry[s].quota > 0 /\ used >= Effective(entry[s].quota)

ip_over_limit(s, i) ==
    /\ entry[s].max_ips > 0
    /\ tracked[s][i] = 0
    /\ unique_ips[s] >= Effective(entry[s].max_ips)

\* the per-secret checks, with the state they are made in
Admits(s, i) ==
    /\ state[s] # "DRAINING"
    /\ ~secret_over_limit(s)
    /\ ~secret_over_quota(s, bytes[s])
    /\ ~ip_over_limit(s, i)

\* the slots whose key the handshake matches; the lowest is taken
Matching(k) == {s \in 1 .. cnt : state[s] # "FREE" /\ entry[s].key = k}

\* addresses are tracked only for a secret that limits them
Tracks(s) == entry[s].max_ips > 0 \/ entry[s].rate_limit > 0
TableFull(s) == Cardinality({i \in IPs : tracked[s][i] > 0}) >= MaxTracked

ip_track_connect(s, i) ==
    IF Tracks(s) /\ (tracked[s][i] > 0 \/ ~TableFull(s))
    THEN /\ tracked' = [tracked EXCEPT ![s][i] = @ + 1]
         /\ unique_ips' = [unique_ips EXCEPT ![s] = IF tracked[s][i] = 0 THEN @ + 1 ELSE @]
    ELSE UNCHANGED <<tracked, unique_ips>>

\* mutant: the entry of an address stays counted after its last connection
IpForgetsUnique(s, i) ==
    IF tracked[s][i] > 0
    THEN /\ tracked' = [tracked EXCEPT ![s][i] = @ - 1]
         /\ UNCHANGED unique_ips
    ELSE UNCHANGED <<tracked, unique_ips>>

\* whether or not this connection was tracked when it was counted
ip_track_disconnect(s, i) ==
    IF tracked[s][i] > 0
    THEN /\ tracked' = [tracked EXCEPT ![s][i] = @ - 1]
         /\ unique_ips' = [unique_ips EXCEPT ![s] = IF tracked[s][i] = 1 THEN @ - 1 ELSE @]
    ELSE UNCHANGED <<tracked, unique_ips>>

-----------------------------------------------------------------------------
(***************************************************************************)
(* The life of a connection.                                               *)
(***************************************************************************)
\* The connection goes before a secret is counted: it is closed, or times
\* out, or its header matches no secret.  extra_int2 is 0: rpc_close counts
\* nothing.  A handshake that is refused leaves the connection "new": it is
\* failed, or forwarded to the backend (proxy_connection), for good.
Leave(c) ==
    /\ stage[c] = "hello"
    /\ stage' = [stage EXCEPT ![c] = "new"]
    /\ key' = [key EXCEPT ![c] = "zero"]
    /\ UNCHANGED <<fixed, slotVars, countVars, active, extra_int2, attempt, failed>>

\* The ClientHello matches a slot and passes the checks; nothing is counted.
TlsHello(c, k) ==
    /\ stage[c] = "new"
    /\ Matching(k) # {}
    /\ Admits(Lowest(Matching(k)), remote_ip[c])
    /\ stage' = [stage EXCEPT ![c] = "hello"]
    /\ key' = [key EXCEPT ![c] = k]
    /\ UNCHANGED <<fixed, slotVars, countVars, active, extra_int2, attempt, failed>>

\* What direct_connect_to_dc does with the counted client: no such DC; a
\* connection under way; no address could be tried and a retry is scheduled.
DirectConnect(c) ==
    \/ /\ stage' = [stage EXCEPT ![c] = "served"]
       /\ failed' = failed \cup {c}
       /\ UNCHANGED <<active, attempt>>
    \/ /\ active < MaxLinks
       /\ stage' = [stage EXCEPT ![c] = "linked"]
       /\ active' = active + 1
       /\ UNCHANGED <<attempt, failed>>
    \/ /\ stage' = [stage EXCEPT ![c] = "retry"]
       /\ failed' = IF MaxRetries = 0 THEN failed \cup {c} ELSE failed
       /\ attempt' = [attempt EXCEPT ![c] = IF MaxRetries = 0 THEN 0 ELSE 1]
       /\ UNCHANGED active

\* The obfuscated header matches a slot.  The checks are made only for a
\* client without TLS; then the connection is counted.
ObfsHeader(c, k) ==
    /\ \/ stage[c] = "new"
       \/ stage[c] = "hello" /\ key[c] = k
    /\ LET s == Lowest(Matching(k))
       IN  /\ Matching(k) # {}
           /\ stage[c] = "new" => Admits(s, remote_ip[c])
           /\ connections[s] < MaxCount
           /\ extra_int2' = [extra_int2 EXCEPT ![c] = s]
           /\ connections' = [connections EXCEPT ![s] = @ + 1]
           /\ ip_track_connect(s, remote_ip[c])
    /\ key' = [key EXCEPT ![c] = k]
    /\ \/ direct_mode /\ DirectConnect(c)
       \/ /\ ~direct_mode
          /\ stage' = [stage EXCEPT ![c] = "served"]
          /\ UNCHANGED <<active, attempt, failed>>
    /\ UNCHANGED <<fixed, slotVars>>

\* direct_retry_dc_connection, at the alarm of a client without a DC
RetryAlarm(c) ==
    /\ stage[c] = "retry"
    /\ c \notin failed
    /\ \/ /\ active < MaxLinks
          /\ stage' = [stage EXCEPT ![c] = "linked"]
          /\ attempt' = [attempt EXCEPT ![c] = 0]
          /\ active' = active + 1
          /\ UNCHANGED failed
       \/ /\ attempt[c] < MaxRetries
          /\ attempt' = [attempt EXCEPT ![c] = @ + 1]
          /\ UNCHANGED <<stage, active, failed>>
       \/ /\ attempt[c] >= MaxRetries
          /\ failed' = failed \cup {c}
          /\ UNCHANGED <<stage, attempt, active>>
    /\ UNCHANGED <<fixed, slotVars, countVars, key, extra_int2>>

\* tcp_direct_close of a DC connection whose handshake was not over
DcLost(c) ==
    /\ stage[c] = "linked"
    /\ c \notin failed
    /\ attempt[c] < MaxRetries
    /\ stage' = [stage EXCEPT ![c] = "retry"]
    /\ attempt' = [attempt EXCEPT ![c] = @ + 1]
    /\ UNCHANGED <<fixed, slotVars, countVars, active, key, extra_int2, failed>>

\* Bytes of a linked client, in either direction; at the quota it is closed.
Relay(c) ==
    /\ stage[c] = "linked"
    /\ c \notin failed
    /\ LET s == extra_int2[c]
       IN  /\ bytes[s] < MaxBytes
           /\ bytes' = [bytes EXCEPT ![s] = @ + 1]
           /\ failed' = IF secret_over_quota(s, bytes[s] + 1) THEN failed \cup {c} ELSE failed
    /\ UNCHANGED <<fixed, state, entry, cnt, countVars, active, stage, key, extra_int2, attempt>>

\* The client or its DC closes, or an error: fail_connection.
Fail(c) ==
    /\ stage[c] \in Counted
    /\ c \notin failed
    /\ failed' = failed \cup {c}
    /\ UNCHANGED <<fixed, slotVars, countVars, active, stage, key, extra_int2, attempt>>

Discount(c) ==
    LET s == extra_int2[c]
    IN  /\ connections' = [connections EXCEPT ![s] = @ - 1]
        /\ ip_track_disconnect(s, remote_ip[c])

\* mutant: the close handler of the proxy mode does not look at extra_int2
RpcCloseForgets(c) ==
    /\ stage[c] = "served"
    /\ UNCHANGED <<countVars, active>>

\* mtproto_ext_rpc_close, which the engine's notification job calls
RpcClose(c) ==
    /\ stage[c] = "served"
    /\ Discount(c)
    /\ UNCHANGED active

\* tcp_direct_close of a client
DirectClose(c) ==
    /\ stage[c] \in {"linked", "retry"}
    /\ \/ /\ active > 0
          /\ active' = active - 1
          /\ Discount(c)
       \/ /\ active = 0
          /\ UNCHANGED <<countVars, active>>

Close(c) ==
    /\ c \in failed
    /\ RpcClose(c) \/ DirectClose(c)
    /\ stage' = [stage EXCEPT ![c] = "new"]
    /\ key' = [key EXCEPT ![c] = "zero"]
    /\ extra_int2' = [extra_int2 EXCEPT ![c] = 0]
    /\ attempt' = [attempt EXCEPT ![c] = 0]
    /\ failed' = failed \ {c}
    /\ UNCHANGED <<fixed, slotVars>>

-----------------------------------------------------------------------------
\* the counters, bytes and addresses of the slots S are set to zero
Reset(S) ==
    /\ connections' = [s \in Slots |-> IF s \in S THEN 0 ELSE connections[s]]
    /\ bytes' = [s \in Slots |-> IF s \in S THEN 0 ELSE bytes[s]]
    /\ tracked' = [s \in Slots |-> IF s \in S THEN [i \in IPs |-> 0] ELSE tracked[s]]
    /\ unique_ips' = [s \in Slots |-> IF s \in S THEN 0 ELSE unique_ips[s]]

(***************************************************************************)
(* tcp_rpcs_reload_ext_secrets, at SIGHUP and at start.  conf is the list  *)
(* of secrets in the config file; an entry with the key of a pinned slot   *)
(* is dropped.                                                             *)
(***************************************************************************)
PinnedKeys == {PinnedEntries[p].key : p \in 1 .. Pinned}

Highest(S) == CHOOSE s \in S : \A t \in S : t <= s

\* Pass B: the slots in use with the key of an entry; the lowest is refreshed,
\* and of several entries with its key the last one stays
Holding(k) == {s \in Unpinned : state[s] # "FREE" /\ entry[s].key = k}
Refreshing(conf, s) ==
    {i \in 1 .. Len(conf) :
        /\ conf[i].key = entry[s].key
        /\ conf[i].key \notin PinnedKeys
        /\ s = Lowest(Holding(conf[i].key))}

\* mutant: a draining slot counts as free
FreeOrDraining == {s \in Unpinned : state[s] # "ACTIVE"}

\* Pass D: the entries without a slot take the free slots, in order
Free == {s \in Unpinned : state[s] = "FREE"}
New(conf) == {i \in 1 .. Len(conf) : conf[i].key \notin PinnedKeys /\ Holding(conf[i].key) = {}}
Rank(S, x) == Cardinality({y \in S : y <= x})
Taking(conf, s) == {i \in New(conf) : Rank(New(conf), i) = Rank(Free, s)}

\* the entries that slot s is refreshed or filled from; pinned slots have none
Sources(conf, s) ==
    CASE s \in Free -> Taking(conf, s)
      [] s \in Unpinned \ Free -> Refreshing(conf, s)
      [] OTHER -> {}

HighWater(st) == Highest({Pinned} \cup {s \in Unpinned : st[s] # "FREE"})

ActiveTotal(st) == Pinned + Cardinality({s \in Unpinned : st[s] = "ACTIVE"})

\* both failures leave the slots as they are by then, and the count as it was
ReloadFails(conf, st) ==
    \/ Cardinality(New(conf)) > Cardinality(Free)
    \/ ActiveTotal(st) > MaxActive

\* Passes A and C: an active slot that the configuration does not name drains
StateAfter(named, s) ==
    CASE s \in named -> "ACTIVE"
      [] s \in Unpinned \ named /\ state[s] = "ACTIVE" -> "DRAINING"
      [] OTHER -> state[s]

Reload(conf) ==
    \E named \in {{s \in Slots : Sources(conf, s) # {}}} :
        /\ state' = [s \in Slots |-> StateAfter(named, s)]
        /\ entry' = [s \in Slots |-> IF s \in named THEN conf[Highest(Sources(conf, s))] ELSE entry[s]]
        /\ Reset(named \cap Free)
        /\ cnt' = IF ReloadFails(conf, state') THEN cnt ELSE HighWater(state')
        /\ UNCHANGED <<fixed, active, connVars>>

-----------------------------------------------------------------------------
(***************************************************************************)
(* drain_sweep_gw, once a second.  late are the draining slots whose       *)
(* timeout has elapsed.                                                    *)
(***************************************************************************)
\* mutant: the loop stops before the last slot
DrainingShort == {s \in Pinned + 1 .. cnt - 1 : state[s] = "DRAINING"}

Draining == {s \in Pinned + 1 .. cnt : state[s] = "DRAINING"}

\* mutant: a draining slot is released with its connections open
ReleasableBlind == Draining

\* tcp_rpcs_drain_release_slot_if_empty for each
Releasable == {s \in Draining : connections[s] = 0}

\* tcp_rpcs_drain_force_close_for_slot for each: fail_connection on what it holds
ForceClosed(S) == UNION {Open(s) : s \in S}

Sweep(late) ==
    \E gone \in {Releasable} :
        /\ late # {} => DrainTimeout > 0
        /\ state' = [s \in Slots |-> IF s \in gone THEN "FREE" ELSE state[s]]
        /\ entry' = [s \in Slots |-> IF s \in gone THEN NoEntry ELSE entry[s]]
        /\ Reset(gone)
        /\ cnt' = IF gone = {} THEN cnt ELSE HighWater(state')
        /\ failed' = failed \cup ForceClosed(late \ gone)
        /\ UNCHANGED <<fixed, active, stage, key, extra_int2, attempt>>

Next ==
    \/ \E c \in Conns, k \in Keys : TlsHello(c, k) \/ ObfsHeader(c, k)
    \/ \E c \in Conns : Leave(c) \/ RetryAlarm(c) \/ DcLost(c) \/ Relay(c) \/ Fail(c) \/ Close(c)
    \/ \E conf \in Configs : Reload(conf)
    \/ \E late \in SUBSET Draining : Sweep(late)

Spec == Init /\ [][Next]_vars

\* A failed connection's job runs; the sweeper runs every second, and a slot
\* that stays draining is late in the end; a handshake ends, at the latest by
\* its timeout.
Fairness ==
    /\ \A c \in Conns :
        /\ WF_vars(Close(c))
        /\ WF_vars(Leave(c) \/ \E k \in Keys : ObfsHeader(c, k))
    /\ \A s \in Unpinned :
        WF_vars(\E late \in SUBSET Draining : s \in late /\ Sweep(late))

FairSpec == Spec /\ Fairness

-----------------------------------------------------------------------------
(***************************************************************************)
(* Properties.                                                             *)
(***************************************************************************)
\* The variables hold what their C types and the handlers' bookkeeping allow.
TypeOK ==
    /\ direct_mode \in BOOLEAN
    /\ remote_ip \in [Conns -> IPs]
    /\ state \in [Slots -> {"FREE", "ACTIVE", "DRAINING"}]
    /\ entry \in [Slots -> Entries \cup {NoEntry}]
    /\ cnt \in Pinned .. MaxSlots
    /\ connections \in [Slots -> Nat]
    /\ bytes \in [Slots -> Nat]
    /\ tracked \in [Slots -> [IPs -> Nat]]
    /\ unique_ips \in [Slots -> Nat]
    /\ active \in Nat
    /\ stage \in [Conns -> Stages]
    /\ key \in [Conns -> Keys \cup {"zero"}]
    /\ extra_int2 \in [Conns -> 0 .. MaxSlots]
    /\ attempt \in [Conns -> 0 .. MaxRetries]
    /\ failed \subseteq {c \in Conns : stage[c] \in Counted}

\* A connection stays under the key that it has authenticated with: as long as
\* it carries the number of a slot, the slot is in use and holds that key,
\* through reloads, revivals, failed reloads and releases
\* (tcp_rpcs_reload_ext_secrets, tcp_rpcs_drain_release_slot_if_empty).
KeyStable ==
    \A c \in Conns : stage[c] \in Counted =>
        /\ extra_int2[c] \in 1 .. MaxSlots
        /\ state[extra_int2[c]] # "FREE"
        /\ entry[extra_int2[c]].key = key[c]

\* per_secret_connections is the number of open connections that were counted;
\* in direct mode, where tcp_direct_close may skip the decrement, it is never
\* less, which is what the release of a slot relies on.
CountCovers ==
    \A s \in Slots :
        /\ connections[s] >= Cardinality(Open(s))
        /\ ~direct_mode => connections[s] = Cardinality(Open(s))

\* The address table agrees with its counter, and in proxy mode no address is
\* charged with more connections than it has open, whatever limits a reload
\* has switched on or off since (ip_track_connect, ip_track_disconnect_impl).
IpsCovered ==
    \A s \in Slots :
        /\ unique_ips[s] = Cardinality({i \in IPs : tracked[s][i] > 0})
        /\ ~direct_mode => \A i \in IPs : tracked[s][i] <= Cardinality(OpenFrom(s, i))

\* Only direct mode links clients to a DC (tcp_rpcs_compact_parse_execute).
DirectStages ==
    \A c \in Conns : stage[c] \in {"linked", "retry"} => direct_mode

\* The inductive invariant: a slot that carries connections is neither released
\* nor taken by another key, because its counter covers them; and no counter
\* goes below zero, because every discount was counted before.
SecretsInv ==
    /\ TypeOK
    /\ KeyStable
    /\ CountCovers
    /\ IpsCovered
    /\ DirectStages

\* A draining slot does not stay so: its connections close or are closed after
\* drain_timeout_secs, and it is released, unless it is revived
\* (drain_sweep_gw, tcp_rpcs_drain_force_close_for_slot).
DrainEnds ==
    \A s \in Slots : state[s] = "DRAINING" ~> state[s] # "DRAINING"

\* The same, for the mode in which the connections go to the middle proxies.
ProxyDrainEnds ==
    \A s \in Slots : (state[s] = "DRAINING" /\ ~direct_mode) ~> state[s] # "DRAINING"

\* No more than EXT_SECRET_MAX_ACTIVE secrets are accepted at a time.
ActiveBound ==
    Cardinality({s \in 1 .. cnt : state[s] = "ACTIVE"}) <= MaxActive

=============================================================================
