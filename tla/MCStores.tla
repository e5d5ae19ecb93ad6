------------------------------ MODULE MCStores ------------------------------
(***************************************************************************)
(* The data that the proxy keeps, for TLC, one kind at a time: a behaviour *)
(* is of the component that "part" names, and the variables of the others  *)
(* stay 0.                                                                 *)
(*   tree       the tree of connections that other threads read; "treap":  *)
(*              without them                                               *)
(*   ips        the table of addresses that the workers share              *)
(*   stats      what workers publish and the master adds up; "volumes": one*)
(*              worker and more clients                                    *)
(*   settings   command line, configuration file and reloads               *)
(*   acl        the lists of addresses                                     *)
(*   probes     the latencies of datacenters                               *)
(***************************************************************************)
EXTENDS Integers, Sequences

CONSTANTS Readers, Workers, None, NoPrefix

VARIABLES
    part,
    heap, root, keys, writer, reader, hptr, later, updates,
    ht, codes, shared, w,
    ip_volume, ja4_table, conns, WStats, wr, rd, ops, stat_updates, published,
    st, cmd, file, g, booted, loaded, reloads,
    on_disk, given, current, source, up, hups,
    clock, last_probe_start, probes, probes_pending, histograms, sockets, started

treeVars == <<heap, root, keys, writer, reader, hptr, later, updates>>
ipsVars == <<ht, codes, shared, w>>
statsVars == <<ip_volume, ja4_table, conns, WStats, wr, rd, ops, stat_updates, published>>
settingsVars == <<st, cmd, file, g, booted, loaded, reloads>>
aclVars == <<on_disk, given, current, source, up, hups>>
probesVars == <<clock, last_probe_start, probes, probes_pending, histograms, sockets, started>>

-----------------------------------------------------------------------------
\* Three updates while a reader walks a snapshot, and five without readers.
Tr == INSTANCE Tree WITH Nodes <- 1 .. 14, Keys <- {1, 2, 3}, Prios <- {1, 2}, MaxUpdates <- 3, MaxReads <- 1
Ta == INSTANCE Tree WITH Nodes <- 1 .. 14, Keys <- {1, 2, 3}, Prios <- {1, 2}, Readers <- {}, MaxUpdates <- 5, MaxReads <- 0

Moscow == [country |-> "RU", region |-> "MOW"]
Berlin == [country |-> "DE", region |-> ""]

\* Two workers count clients from three addresses in a table of two slots.
Ip == INSTANCE IpStats WITH Ips <- {"x", "y", "z"}, NoIp <- "none", IP_HT_SIZE <- 2, ip_ht_hash <- [x |-> 0, y |-> 0, z |-> 1],
          geoip_lookup <- [x |-> Moscow, y |-> Moscow, z |-> Berlin], MAX_CODES <- 1, MaxOps <- 2

\* Tables of one entry: two workers publish twice in all; one worker sees more clients.
Ws == INSTANCE WorkerStats WITH Workers <- {1, 2}, MaxOps <- 1, MaxUpdates <- 2, Ips <- {"x", "y"}, NoIp <- "none", Hashes <- {"h"}, top_ips_per_secret_runtime <- 1, IP_VOLUME_TABLE_SIZE <- 1,
          WORKER_TOP_IPS_MAX <- 1, MASTER_TOP_IPS_CAP <- 1, WORKER_TOP_JA4_MAX <- 1, MASTER_TOP_JA4_MAX <- 1, updates <- stat_updates
Wv == INSTANCE WorkerStats WITH Workers <- {1}, MaxOps <- 6, MaxUpdates <- 0, Ips <- {"x", "y"}, NoIp <- "none", Hashes <- {"h"}, top_ips_per_secret_runtime <- 1, IP_VOLUME_TABLE_SIZE <- 1,
          WORKER_TOP_IPS_MAX <- 1, MASTER_TOP_IPS_CAP <- 1, WORKER_TOP_JA4_MAX <- 1, MASTER_TOP_JA4_MAX <- 1, updates <- stat_updates

\* Values of the file, by their type.
I(n) == [t |-> "int", v |-> n]
B(b) == [t |-> "bool", v |-> b]
S(s) == [t |-> "str", v |-> s]
A(s) == [t |-> "arr", v |-> s]
T(r) == [t |-> "tab", v |-> r]
Hex(k) == [len |-> 32, hex |-> TRUE, key |-> k]
Key(k) == S(Hex(k))
Label(n) == S([len |-> n, safe |-> TRUE, text |-> "l"])
Size(n, u) == S([val |-> n, unit |-> u, rest |-> FALSE])
F(r) == [ok |-> TRUE, top |-> r]

\* A first file and one that changes its secrets and limits, one with only scalars, five that are
\* refused each for a reason of its own, and one that is not TOML.
TomlFiles == <<
  F([port |-> I(443), secret |-> A(<<T([key |-> Key("a"), limit |-> I(3), quota |-> Size(2, "K")])>>),
        drain_timeout_secs |-> I(0), mss_clamp |-> B(FALSE), workers |-> I(2), dc_probe_interval |-> I(30)]),
  F([direct |-> B(TRUE), domain |-> A(<<S("d"), T([name |-> S("e"), backend |-> S("h")])>>),
        secret |-> A(<<T([key |-> Key("b"), label |-> Label(2), rate_limit |-> I(7), max_ips |-> I(2),
                          expires |-> [t |-> "time", v |-> [epoch |-> 3600, tz |-> 60]]]),
                       T([key |-> Key("c"), expires |-> I(9), quota |-> I(5)])>>),
        socks5 |-> S("url"), stats_port |-> I(81), http_stats |-> B(TRUE), stats_allow_net |-> A(<<S("net"), S("bad")>>),
        dc_override |-> A(<<T([dc |-> I(2), host |-> S("x"), port |-> I(443)])>>),
        network |-> T([max_connections |-> I(100), backlog |-> I(64), window_clamp |-> I(9)]),
        workers |-> T([count |-> I(1)]), stats |-> T([http_enabled |-> B(TRUE)]),
        timeouts |-> T([ping_interval |-> [t |-> "fp", v |-> 3]])]),
  F([port |-> S("443"), domain |-> S("d"), proxy_tag |-> S([len |-> 40, hex |-> TRUE, key |-> "t"]), ipv6 |-> B(TRUE), user |-> S("nobody"),
        maxconn |-> I(1000), max_connections |-> I(10), bind |-> S("1.2.3.4"), ip_blocklist |-> S("blk"), ja4_log |-> B(TRUE),
        proxy_protocol |-> B(TRUE), random_padding_only |-> B(TRUE)]),
  F([domain |-> I(1), secret |-> A(<<T([key |-> Key("a")]), T([key |-> Key("c"), quota |-> Size(-1, "")])>>)]),
  F([secret |-> A(<<T([key |-> Key("a"), label |-> Label(9)])>>), drain_timeout_secs |-> I(5)]),
  F([secret |-> A(<<T([key |-> Key("a")]), T([key |-> Key("b")]), T([key |-> Key("c")])>>)]),
  F([bind |-> S("bad"), drain_timeout_secs |-> I(-1)]),
  F([dc_override |-> A(<<T([dc |-> I(6), host |-> S("x"), port |-> I(443)])>>)]),
  [ok |-> FALSE, top |-> <<>>]>>

\* Options in the order they are given; "relay" is the list of middle-ends.
O(o, v) == [o |-> o, v |-> v]
C(relay, opts) == [relay |-> relay, opts |-> opts]
Cfg == O("config", "f")
CliS(k) == O("S", [key |-> Hex(k), label |-> [len |-> 0, safe |-> TRUE, text |-> ""], limit |-> None])

\* With and without a file, an option before or after it that the file contradicts, and options that
\* are refused.
OptionLines == <<
  C("none", <<>>), C("good", <<CliS("p"), O("H", <<80, 81>>)>>), C("good", <<Cfg>>), C("none", <<Cfg>>),
  C("none", <<O("direct", ""), Cfg, O("H", <<90>>), O("c", 50), O("C", 20), O("T", 9), CliS("p")>>),
  C("good", <<Cfg, O("P", Hex("q")), O("p", 82), O("address", "5.6.7.8"), O("u", "me"), O("6", ""), O("b", 7)>>),
  C("good", <<Cfg, O("socks5", "url2"), O("direct", ""), O("ip-blocklist", "mine"), O("dc-probe-interval", -3)>>),
  C("none", <<O("direct", ""), O("no-mss-clamp", ""), O("D", "d")>>),
  C("good", <<Cfg, O("no-mss-clamp", ""), O("ja4-log", ""), O("M", 1), O("geoip-db", "db"), O("W", 3), O("R", "")>>),
  C("good", <<O("S", [key |-> Hex("p"), label |-> [len |-> 2, safe |-> FALSE, text |-> "l"], limit |-> 1])>>),
  C("good", <<O("H", <<1, 2, 3>>)>>),
  C("none", <<O("direct", ""), O("dc-override", [dc |-> 2, host |-> "x", port |-> 1]), O("stats-allow-net", "net"),
              O("http-stats", ""), O("ip-allowlist", "mine"), O("proxy-protocol", "")>>)>>

\* Command lines and files that agree or not, and two reloads.
Se == INSTANCE Settings WITH TOML_CONFIG_MAX_SECRETS <- 2, TOML_CONFIG_MAX_DOMAINS <- 2, TOML_CONFIG_MAX_DC_OVERRIDES <- 1,
          TOML_CONFIG_MAX_STATS_NETS <- 2, TOML_SECRET_LABEL_MAX <- 4, INT_HALF <- 536870912, LLONG_HALF <- 1048576, KILO <- 4,
          CommandLines <- OptionLines, ConfigFiles <- TomlFiles, Malformed <- {"bad"}, MAX_HTTP_LISTEN_PORTS <- 2,
          MAX_WORKERS <- 2, MAX_CONNECTIONS <- 65536, DEFAULT_BACKLOG <- 8192, PING_INTERVAL <- 5, MaxReloads <- 2

\* Bytes of two bits.  Lists with prefixes of every kind, comments and wrong lines.
V4(a, n) == [family |-> "v4", addr |-> a, prefix |-> n]
V6(a, n) == [family |-> "v6", addr |-> a, prefix |-> n]
Other(f) == [family |-> f, addr |-> 0, prefix |-> NoPrefix]
AclFiles == << <<V4(13, 3), Other("skip"), V6(<<1, 2, 0>>, 3)>>,
               <<V4(6, NoPrefix), V4(9, 0 - 1), V6(<<0, 3, 2>>, 5), Other("bad")>>,
               <<V6(<<3, 1, 2>>, NoPrefix), V6(<<0, 0, 0>>, 7), V4(5, 1)>>,
               <<Other("bad"), V4(3, 5)>>, <<V4(7, 0)>> >>
Ac == INSTANCE IpAcl WITH BYTE_BITS <- 2, V4_BYTES <- 2, V6_BYTES <- 3, Listings <- AclFiles, MaxReloads <- 2

\* Two datacenters, probed in rounds until the clock stops.
Pr == INSTANCE DcProbes WITH DC_PROBE_COUNT <- 2, PROBE_TIMEOUT <- 1, bucket_bounds <- <<0, 1>>, probe_interval <- 3, MaxTime <- 5

-----------------------------------------------------------------------------
treeIdle == heap = 0 /\ root = 0 /\ keys = 0 /\ writer = 0 /\ reader = 0 /\ hptr = 0 /\ later = 0 /\ updates = 0
ipsIdle == ht = 0 /\ codes = 0 /\ shared = 0 /\ w = 0
statsIdle == ip_volume = 0 /\ ja4_table = 0 /\ conns = 0 /\ WStats = 0 /\ wr = 0 /\ rd = 0 /\ ops = 0 /\ stat_updates = 0 /\ published = 0
settingsIdle == st = 0 /\ cmd = 0 /\ file = 0 /\ g = 0 /\ booted = 0 /\ loaded = 0 /\ reloads = 0
aclIdle == on_disk = 0 /\ given = 0 /\ current = 0 /\ source = 0 /\ up = 0 /\ hups = 0
probesIdle == clock = 0 /\ last_probe_start = 0 /\ probes = 0 /\ probes_pending = 0 /\ histograms = 0 /\ sockets = 0 /\ started = 0

StoresInit ==
    /\ part \in {"tree", "treap", "ips", "stats", "volumes", "settings", "acl", "probes"}
    /\ IF part = "tree" THEN Tr!Init ELSE IF part = "treap" THEN Ta!Init ELSE treeIdle
    /\ IF part = "ips" THEN Ip!Init ELSE ipsIdle
    /\ IF part = "stats" THEN Ws!Init ELSE IF part = "volumes" THEN Wv!Init ELSE statsIdle
    /\ IF part = "settings" THEN Se!Init ELSE settingsIdle
    /\ IF part = "acl" THEN Ac!Init ELSE aclIdle
    /\ IF part = "probes" THEN Pr!Init ELSE probesIdle

StoresNext ==
    \/ part = "tree" /\ Tr!Next /\ UNCHANGED <<part, ipsVars, statsVars, settingsVars, aclVars, probesVars>>
    \/ part = "treap" /\ Ta!Next /\ UNCHANGED <<part, ipsVars, statsVars, settingsVars, aclVars, probesVars>>
    \/ part = "ips" /\ Ip!Next /\ UNCHANGED <<part, treeVars, statsVars, settingsVars, aclVars, probesVars>>
    \/ part = "stats" /\ Ws!Next /\ UNCHANGED <<part, treeVars, ipsVars, settingsVars, aclVars, probesVars>>
    \/ part = "volumes" /\ Wv!Next /\ UNCHANGED <<part, treeVars, ipsVars, settingsVars, aclVars, probesVars>>
    \/ part = "settings" /\ Se!Next /\ UNCHANGED <<part, treeVars, ipsVars, statsVars, aclVars, probesVars>>
    \/ part = "acl" /\ Ac!Next /\ UNCHANGED <<part, treeVars, ipsVars, statsVars, settingsVars, probesVars>>
    \/ part = "probes" /\ Pr!Next /\ UNCHANGED <<part, treeVars, ipsVars, statsVars, settingsVars, aclVars>>

storesVars == <<part, treeVars, ipsVars, statsVars, settingsVars, aclVars, probesVars>>

StoresSpec == StoresInit /\ [][StoresNext]_storesVars

-----------------------------------------------------------------------------
\* A reader's snapshot of the tree stays whole until the reader lets it go (Tree).
TreeSound ==
    (part = "tree" => Tr!TypeOK /\ Tr!TreeSound) /\ (part = "treap" => Ta!TypeOK /\ Ta!TreeSound)




=============================================================================
