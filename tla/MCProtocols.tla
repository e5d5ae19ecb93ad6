---------------------------- MODULE MCProtocols ----------------------------
(***************************************************************************)
(* The conversations of the proxy for TLC, one at a time: a behaviour is   *)
(* of the component that "part" names, and the variables of the others     *)
(* stay as they begin (those of Relay, which this module extends) or 0.    *)
(*   relay      clients, the engine and two middle-ends                    *)
(*   targets    connections to middle-ends over reloads of their list      *)
(*   rpc        the two ends of a connection to a middle-end               *)
(*   queries    queries of the engine's own RPC port                       *)
(*   client     a client, from its first byte to its packets               *)
(*   direct     a client linked to a datacenter                            *)
(*   http       requests on a connection to the statistics                 *)
(*   probe      probes of the domain that the proxy takes after            *)
(*   replay     hellos that come a second time                             *)
(* The parts "file", "frame", "lookup", "date" and "domain" are algorithms *)
(* that stand alone: each of their inputs is an initial state, in "input". *)
(***************************************************************************)
EXTENDS Relay, TLC

CONSTANTS Links

VARIABLES
    part, input,
    target, link, CurConf, reloads, stat,
    rpc_cfg, d, outq, rpc_out, wire, in, pc, pings,
    rpc_conn, in_rpc_target, job, child, answers,
    cfg, script, sent, s,
    c, e, rounds,
    setup, arrived, http,
    host, probe, replies, info, stage,
    now, timestamp, by_time, client_randoms, accepted

targetsVars == <<target, link, CurConf, reloads, stat>>
rpcVars == <<rpc_cfg, d, outq, rpc_out, wire, in, pc, pings>>
queriesVars == <<rpc_conn, in_rpc_target, job, child, answers>>
clientVars == <<cfg, script, sent, s>>
directVars == <<c, e, rounds>>
httpVars == <<setup, arrived, http>>
probeVars == <<host, probe, replies, info, stage>>
replayVars == <<now, timestamp, by_time, client_randoms, accepted>>

-----------------------------------------------------------------------------
\* Two clients, two middle-ends, two descriptors: a descriptor is used again, slots of the table collide.
Symmetry == Permutations(Clients) \cup Permutations(Outs)

\* A list, one that moves a target to another cluster and adds one, and one that ends in an error.
Proxy(dc, a) == [k |-> "proxy", dc |-> dc, addr |-> a]
Files == { <<Proxy(0, "a")>>, <<Proxy(0, "b"), Proxy(2, "b")>>, <<Proxy(2, "b"), [k |-> "bad"]>> }

T == INSTANCE Targets WITH Addrs <- {"a", "b"}, MAX_CFG_TARGETS <- 3, MAX_CFG_CLUSTERS <- 3,
         default_cfg_min_connections <- 1, default_cfg_max_connections <- 2, Unresolved <- "?",
         MAX_RECONNECT_INTERVAL <- 1, MaxReloads <- 2

\* Every file of up to four directives: names, clusters and bounds in any order.
Directives == {Proxy(0, "a"), Proxy(2, "b"), Proxy(2, "?"), [k |-> "default", dc |-> 2], [k |-> "min", n |-> 2],
               [k |-> "max", n |-> 1], [k |-> "bad"]}
AllFiles == UNION {[1 .. n -> Directives] : n \in 0 .. 4}

\* Both ends of a connection: their permissions, defaults, keys, clocks, addresses and process ids.
Process(i, p, n) == [ip |-> i, port |-> p, pid |-> n]
Setup(cp, sp, cd, sd) ==
    [c |-> [perm |-> cp, defaults |-> cd, key |-> 1, now |-> 0, addr |-> 1, pid |-> Process(0, 0, 7),
            target |-> Process(5, 80, 0), ignore_pid |-> FALSE],
     s |-> [perm |-> sp, defaults |-> sd, key |-> 1, now |-> 30, addr |-> 1, pid |-> Process(5, 80, 9),
            ignore_pid |-> FALSE, dh_rate |-> TRUE]]
Enc == {"ALLOW_ENC"}
Unenc == {"ALLOW_UNENC"}
Dh == {"ALLOW_ENC", "REQ_DH"}
Skip == {"ALLOW_SKIP_DH"}
Crc == {"USE_CRC32C"}
RpcSetups ==
    {Setup(x, y, Crc, Crc) : x \in {Enc, Unenc, Enc \cup Unenc, Dh, Dh \cup Skip}, y \in {Enc, Unenc, Dh, Dh \cup Unenc \cup Skip}}
        \cup {Setup(Dh, Dh, {}, Crc), Setup(Dh, Dh, Crc, {})}
        \cup {[Setup(Dh, Dh \cup Unenc, Crc, Crc) EXCEPT !.s.dh_rate = FALSE],
              [Setup(Enc, Enc, Crc, Crc) EXCEPT !.s.now = 31],
              [Setup(Enc, Enc, Crc, Crc) EXCEPT !.s.addr = 2],
              [Setup(Enc, Enc, Crc, Crc) EXCEPT !.s.pid.ip = 6],
              [Setup(Enc, Enc, Crc, Crc) EXCEPT !.s.pid.ip = 6, !.s.ignore_pid = TRUE]}
        \cup {[Setup(Enc \cup x, Enc \cup y, Crc, Crc) EXCEPT !.s.key = 2] : x \in {{}, Unenc}, y \in {{}, Unenc}}

H == INSTANCE RpcHandshake WITH Setups <- RpcSetups, MaxPings <- 1, cfg <- rpc_cfg, out <- rpc_out

\* Three connections, two of one process and one of its successor; well-formed and broken queries.
RpcPid == <<[ip |-> 9, port |-> 80, pid |-> 5, utime |-> 100], [ip |-> 9, port |-> 80, pid |-> 5, utime |-> 100],
            [ip |-> 9, port |-> 80, pid |-> 6, utime |-> 200]>>
Query == <<"INVOKE", "qid">>
Messages ==
    {<<"PONG">>, <<"INVOKE">>, Query, Query \o <<"STAT">>, Query \o <<"DEST_ACTOR", 1, "NOP">>,
     Query \o <<"DEST_ACTOR_FLAGS", 0, 0, "NOP">>, Query \o <<"DEST_FLAGS", 1, "NOP">>,
     Query \o <<"DEST_FLAGS", 0, "NOP", "NOP">>, Query \o <<"UNKNOWN">>}
Packets ==
    {[q |-> "q1", c |-> 1, m |-> m] : m \in Messages} \cup {[q |-> "q2", c |-> x, m |-> <<"RESULT">>] : x \in {2, 3}}

Q == INSTANCE QueryJobs WITH Conns <- {1, 2, 3}, Pid <- RpcPid, Queries <- {"q1", "q2"}, Acts <- {"ok", "fail"},
         NoConn <- 0, conn <- rpc_conn

\* Every kind of listener, and clients that follow or break each of the protocols.
Item(k, v) == [k |-> k, v |-> v]
ClientSetups ==
    {x \in [proxy_protocol : BOOLEAN, allow_only_tls : BOOLEAN, rand_pad_only : BOOLEAN, direct_mode : BOOLEAN,
            reach : BOOLEAN] : (x.direct_mode => x.reach) /\ (x.proxy_protocol => ~x.direct_mode)}
Scripts ==
    {<<Item("hello", v), Item("first", x), Item("obfs", m), Item("packet", "ok")>> :
        v \in {"ok", "seen"}, x \in {"ok", "bad", "short"}, m \in {"pad", "compact", "unknown", "refused"}}
    \cup {<<Item("obfs", m), Item("packet", "ok"), Item("packet", p)>> :
        m \in {"pad", "medium", "compact", "unknown", "refused"}, p \in {"ok", "bad"}}
    \cup {<<Item("hello", v), Item("first", "ok"), Item("obfs", "pad")>> :
        v \in {"no name", "unknown name", "no secret", "time", "refused", "cipher"}}
    \cup {<<Item("pp", v), Item("obfs", "pad"), Item("packet", "ok")>> :
        v \in {"v1 tcp", "v1 unknown", "v1 denied", "v1 bad", "v2 inet", "v2 local", "v2 version"}}
    \cup {<<Item("obfs", "pad"), Item("packet", "ok")>>,
          <<Item("pp", "v1 tcp"), Item("hello", "no name"), Item("first", "ok")>>}

C == INSTANCE Handshake WITH Setups <- ClientSetups, MaxPacketLen <- 67108860

\* Packet lengths on both sides of every limit, with the bytes that follow them.
Lengths == {4, 8, 500, 504, 508, 512, 1024, 65532, 65536, 262144, 67108860}
Frames == ({"compact", "medium", "pad"} \X Lengths \X {0, 255, 32639}) \cup ({"pad"} \X {5, 507, 65535} \X {0, 255, 32639})

\* A table of overrides with two hosts that do not parse, behind a SOCKS5 proxy with a password.
Override(dc, h) == [dc |-> dc, host |-> h]
Overrides == <<Override(203, "bad"), Override(203, "a"), Override(4, "bad"), Override(7, "b")>>

D == INSTANCE DirectDC WITH Dcs <- {-203, 4, 9}, MAX_OVERRIDES <- 2, DC_MAX_ADDRS <- 2, Hosts <- {"a", "b"},
         DIRECT_MAX_RETRIES <- 2, Socks5 <- "auth", drs_delays_enabled <- TRUE, MaxRounds <- 3, MaxSend <- 2

\* Lists of up to three overrides, and the numbers that clients ask for.
Lookups == (UNION {[1 .. n -> [dc : {2, 203}, host : {"a", "b", "bad"}]] : n \in 0 .. 3}) \X {1, 2, 4, 9, 203, 10002, 10203}

\* Requests, sound and broken in every way the parser knows, before and after one that keeps the connection.
EOL == <<"\r", "\n">>
NoData == 0 - 1
Request(m, u, k, l, b) == [method |-> m, uri |-> u, keep |-> k, length |-> l, bad |-> b]
Good ==
    {[r |-> Request(m, u, k, NoData, FALSE),
      t |-> <<m, " ", u, " ", v>> \o x \o (IF k THEN <<"connection", ":", " ", "keep-alive">> ELSE <<"host", ":", "x">>) \o x \o x] :
        m \in {"GET", "POST"}, u \in {"/stats", "/x"}, k \in BOOLEAN, v \in {"HTTP/1.0", "HTTP/1.1"}, x \in {EOL, <<"\n">>}}
WithLength ==
    {[r |-> Request(m, "/stats", TRUE, IF n = <<"0">> THEN 0 ELSE 70, FALSE),
      t |-> <<m, " ", "/stats", " ", " ", "HTTP/1.1">> \o EOL \o <<"connection", ":", "keep-alive">> \o EOL
            \o <<"content-length", ":", " ">> \o n \o <<" ">> \o EOL \o EOL] : m \in {"GET", "POST"}, n \in {<<"0">>, <<"7", "0">>}}
Line == <<"GET", " ", "/stats", " ", "HTTP/1.1">> \o EOL
Broken ==
    {[r |-> Request("GET", "/stats", FALSE, NoData, TRUE), t |-> t] : t \in {
        <<"X", " ", "/stats", " ", "HTTP/1.1">> \o EOL \o EOL,
        <<"GET", " ", "/stats", " ", "HTTP/9">> \o EOL \o EOL,
        Line \o <<"x">> \o EOL \o EOL,
        Line \o <<"content-length", ":", "x">> \o EOL \o EOL,
        Line \o <<"content-length", ":", "7", "\n", "content-length", ":", "7">> \o EOL \o EOL,
        <<"GET", " ", "/stats", " ", "HTTP/1.1", "\r", "x">> \o EOL \o EOL,
        Line \o <<"content-length", ":">> \o [i \in 1 .. 11 |-> "7"] \o EOL \o EOL,
        <<"GET", " ", "w", "w", "w", "w", "w", "w">> \o EOL,
        <<"GET", " ">> \o EOL,
        Line \o <<"x", ":">> \o [i \in 1 .. 30 |-> "x"] \o EOL \o EOL,
        <<"GET", " ", "/stats">> \o [i \in 1 .. 30 |-> " "] \o <<"HTTP/1.1">> \o EOL \o EOL}}
Old == {[r |-> Request("GET", "/stats", FALSE, NoData, FALSE), t |-> <<"GET", " ", "/stats">> \o EOL]}
Kept == [r |-> Request("GET", "/stats", TRUE, NoData, FALSE), t |-> Line \o <<"connection", ":", "keep-alive", "\n", "\n">>]
Streams(a, x, y, b) == [stream |-> x.t \o y.t, requests |-> <<x.r, y.r>>, allowed |-> a, busy |-> b]
HttpSetups ==
    LET all == Good \cup WithLength \cup Broken \cup Old IN
    {Streams(TRUE, x, Kept, FALSE) : x \in all} \cup {Streams(a, Kept, x, FALSE) : x \in all, a \in BOOLEAN}
        \cup {Streams(TRUE, Kept, x, TRUE) : x \in Good}

W == INSTANCE Http WITH Setups <- HttpSetups, MAX_HTTP_HEADER_SIZE <- 30, MAX_WORD <- 4, sent <- arrived, c <- http

\* Days around the ends of months and years, in three cycles of four years.
Days == {1461 * k + x : k \in {0, 7, 13}, x \in {0, 30, 31, 58, 59, 364, 365, 729, 730, 788, 789, 790, 1095, 1096, 1460}}

P == INSTANCE Camouflage WITH TRIES <- 3, EncryptedSizes <- {2000, 2003, 2010}, answers <- replies

\* Lists of up to two domains, plain and wildcards, and the names that clients ask for.
Domains ==
    (UNION {[1 .. n -> [name : {<<"x", "com">>, <<"a", "x", "com">>, <<"*", "x", "com">>, <<"*", "com">>},
                        backend : {"none", "host"}, port : {443}]] : n \in 0 .. 2})
        \X {<<"x", "com">>, <<"a", "x", "com">>, <<"b", "a", "x", "com">>, <<"*", "x", "com">>}

\* Two random numbers share a chain; a stamp is kept for as long as it may be accepted.
Y == INSTANCE Replay WITH Randoms <- {1, 2, 3}, Buckets <- {0, 1}, Bucket <- <<1, 0, 1>>, Timestamps <- {0, 1, 3},
         MAX_CLIENT_RANDOM_CACHE_TIME <- 2, MAX_ALLOWED_TIMESTAMP_ERROR <- 1, MAX_SKEW <- 1, MaxTime <- 4

-----------------------------------------------------------------------------
targetsIdle == target = 0 /\ link = 0 /\ CurConf = 0 /\ reloads = 0 /\ stat = 0
rpcIdle == rpc_cfg = 0 /\ d = 0 /\ outq = 0 /\ rpc_out = 0 /\ wire = 0 /\ in = 0 /\ pc = 0 /\ pings = 0
queriesIdle == rpc_conn = 0 /\ in_rpc_target = 0 /\ job = 0 /\ child = 0 /\ answers = 0
clientIdle == cfg = 0 /\ script = 0 /\ sent = 0 /\ s = 0
directIdle == c = 0 /\ e = 0 /\ rounds = 0
httpIdle == setup = 0 /\ arrived = 0 /\ http = 0
probeIdle == host = 0 /\ probe = 0 /\ replies = 0 /\ info = 0 /\ stage = 0
replayIdle == now = 0 /\ timestamp = 0 /\ by_time = 0 /\ client_randoms = 0 /\ accepted = 0

ProtocolsInit ==
    /\ part \in {"relay", "targets", "rpc", "queries", "client", "direct", "http", "probe", "replay",
                "file", "frame", "lookup", "date", "domain"}
    /\ input \in CASE part = "file" -> AllFiles [] part = "frame" -> Frames [] part = "lookup" -> Lookups
                   [] part = "date" -> Days [] part = "domain" -> Domains [] OTHER -> {0}
    /\ Init
    /\ IF part = "targets" THEN T!Init ELSE targetsIdle
    /\ IF part = "rpc" THEN H!Init ELSE rpcIdle
    /\ IF part = "queries" THEN Q!Init ELSE queriesIdle
    /\ IF part = "client" THEN C!Init ELSE clientIdle
    /\ IF part = "direct" THEN D!Init ELSE directIdle
    /\ IF part = "http" THEN W!Init ELSE httpIdle
    /\ IF part = "probe" THEN P!Init ELSE probeIdle
    /\ IF part = "replay" THEN Y!Init ELSE replayIdle

ProtocolsNext ==
    \/ /\ part = "relay" /\ Next
       /\ UNCHANGED <<part, input, targetsVars, rpcVars, queriesVars, clientVars, directVars, httpVars, probeVars, replayVars>>
    \/ /\ part = "targets" /\ T!Next
       /\ UNCHANGED <<part, input, vars, rpcVars, queriesVars, clientVars, directVars, httpVars, probeVars, replayVars>>
    \/ /\ part = "rpc" /\ H!Next
       /\ UNCHANGED <<part, input, vars, targetsVars, queriesVars, clientVars, directVars, httpVars, probeVars, replayVars>>
    \/ /\ part = "queries" /\ Q!Next
       /\ UNCHANGED <<part, input, vars, targetsVars, rpcVars, clientVars, directVars, httpVars, probeVars, replayVars>>
    \/ /\ part = "client" /\ C!Next
       /\ UNCHANGED <<part, input, vars, targetsVars, rpcVars, queriesVars, directVars, httpVars, probeVars, replayVars>>
    \/ /\ part = "direct" /\ D!Next
       /\ UNCHANGED <<part, input, vars, targetsVars, rpcVars, queriesVars, clientVars, httpVars, probeVars, replayVars>>
    \/ /\ part = "http" /\ W!Next
       /\ UNCHANGED <<part, input, vars, targetsVars, rpcVars, queriesVars, clientVars, directVars, probeVars, replayVars>>
    \/ /\ part = "probe" /\ P!Next
       /\ UNCHANGED <<part, input, vars, targetsVars, rpcVars, queriesVars, clientVars, directVars, httpVars, replayVars>>
    \/ /\ part = "replay" /\ Y!Next
       /\ UNCHANGED <<part, input, vars, targetsVars, rpcVars, queriesVars, clientVars, directVars, httpVars, probeVars>>

protocolsVars == <<part, input, vars, targetsVars, rpcVars, queriesVars, clientVars, directVars, httpVars, probeVars, replayVars>>

ProtocolsSpec == ProtocolsInit /\ [][ProtocolsNext]_protocolsVars

-----------------------------------------------------------------------------

\* The two ends of a connection to a middle-end come to agree, or fail (RpcHandshake).
HandshakeSound == part = "rpc" => H!TypeOK /\ H!HandshakeSound

\* A query of the RPC port is answered once, on a connection of the process that asked (QueryJobs).
QueriesAnswered == part = "queries" => Q!TypeOK /\ Q!QueriesAnswered

\* A client is served or handed to the backend as its bytes say, however they are cut, and lengths are read back as written (Handshake).
ClientSound ==
    (part = "client" => C!TypeOK /\ C!ClientSound) /\ (part = "frame" => C!FrameSound(input[1], input[2], input[3]))


\* Requests are answered in order and once, however their bytes are cut, and dates are read back (Http).
HttpSound ==
    (part = "http" => W!TypeOK /\ W!HttpSound) /\ (part = "date" => W!DateSound(input))

=============================================================================
