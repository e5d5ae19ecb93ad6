-------------------------------- MODULE Toml --------------------------------
(***************************************************************************)
(* The TOML file of the proxy: common/toml-config.c reads the flat options  *)
(* and the secrets, mtproto/mtbolt-config.c the [sections] of tuning.  A    *)
(* parsed file is [ok, top]: ok is the parser's verdict (the tomlc17        *)
(* library, external) and top a table, a function from the keys present to  *)
(* values [t, v] of type "int", "bool", "str", "fp", "time", "arr" (v a     *)
(* sequence of values) or "tab" (v a table).                                *)
(*                                                                          *)
(* Text is kept as what its reader tells apart.  A key is [len, hex, key]:  *)
(* its length, whether its characters are hexadecimal, the key they spell;  *)
(* a label [len, safe, text]; a byte size [val, unit, rest]: the number     *)
(* that strtoll reads (None: no digits), the suffix letter, and whether     *)
(* characters follow it; a date [epoch, tz] (tz = None without an offset).  *)
(***************************************************************************)
EXTENDS Integers, Sequences

CONSTANTS
    TOML_CONFIG_MAX_SECRETS,
    TOML_CONFIG_MAX_DOMAINS,
    TOML_CONFIG_MAX_DC_OVERRIDES,
    TOML_CONFIG_MAX_STATS_NETS,
    TOML_SECRET_LABEL_MAX,
    INT_HALF,      \* 2^31: the width of a C int
    LLONG_HALF,    \* 2^63: the width of a long long
    KILO,          \* 1024, the step between two size suffixes
    None           \* no digits, no offset

-----------------------------------------------------------------------------
(* What the two readers ask of a table.                                     *)

Unknown == [t |-> "unknown"]

toml_get(tab, key) == IF key \in DOMAIN tab THEN tab[key] ELSE Unknown

\* The conversion of a 64-bit value to int.
Int32(n) == ((n + INT_HALF) % (2 * INT_HALF)) - INT_HALF

get_optional_int(tab, key, fallback) ==
    LET d == toml_get(tab, key) IN IF d.t = "int" THEN Int32(d.v) ELSE fallback

get_optional_bool(tab, key, fallback) ==
    LET d == toml_get(tab, key)
    IN  IF d.t = "bool" THEN IF d.v THEN 1 ELSE 0 ELSE fallback

get_optional_string(tab, key, fallback) ==
    LET d == toml_get(tab, key) IN IF d.t = "str" THEN d.v ELSE fallback

-----------------------------------------------------------------------------
(* Values of a secret.                                                      *)

toml_config_parse_hex_secret(s) == s.len = 32 /\ s.hex

NoTag == [len |-> 0, hex |-> TRUE, key |-> ""]

\* The proxy tag is copied into 33 bytes: what follows 32 characters is lost.
ProxyTag(tab) ==
    LET s == get_optional_string(tab, "proxy_tag", NoTag)
    IN  [s EXCEPT !.len = IF @ > 32 THEN 32 ELSE @]

\* A signed product wraps: the build does not trap on overflow.
Long(n) == ((n + LLONG_HALF) % (2 * LLONG_HALF)) - LLONG_HALF

Unit(u) ==
    CASE u = "K" -> KILO
      [] u = "M" -> KILO * KILO
      [] u = "G" -> KILO * KILO * KILO
      [] u = "T" -> KILO * KILO * KILO * KILO
      [] OTHER   -> 1

parse_byte_size(s) ==
    IF s.val = None \/ s.rest THEN -1
    ELSE IF s.val < 0 THEN -1 ELSE Long(s.val * Unit(s.unit))

toml_ts_to_epoch(d) == IF d.tz = None THEN d.epoch ELSE d.epoch - d.tz * 60

\* An optional amount: not negative, or a size with a suffix; 0 otherwise.
Amount(tab, key, sized) ==
    LET d == toml_get(tab, key)
    IN  IF d.t = "int" THEN d.v
        ELSE IF d.t = "str" /\ sized THEN parse_byte_size(d.v) ELSE 0

Expires(tab) ==
    LET d == toml_get(tab, "expires")
    IN  CASE d.t = "time" -> toml_ts_to_epoch(d.v) [] d.t = "int" -> d.v [] OTHER -> 0

ExpiresOk(tab) == LET d == toml_get(tab, "expires") IN d.t = "int" => d.v >= 0

LabelOk(tab) ==
    LET d == toml_get(tab, "label")
    IN  d.t = "str" => d.v.len <= TOML_SECRET_LABEL_MAX /\ (d.v.len = 0 \/ d.v.safe)

SecretOk(e) ==
    /\ e.t = "tab"
    /\ toml_get(e.v, "key").t = "str"
    /\ toml_config_parse_hex_secret(toml_get(e.v, "key").v)
    /\ LabelOk(e.v)
    /\ Amount(e.v, "limit", FALSE) >= 0
    /\ Amount(e.v, "quota", TRUE) >= 0
    /\ Amount(e.v, "rate_limit", TRUE) >= 0
    /\ Amount(e.v, "max_ips", FALSE) >= 0
    /\ ExpiresOk(e.v)

\* limit and max_ips are narrowed to int after the test for a negative value.
SecretOf(e) ==
    [key        |-> toml_get(e.v, "key").v.key,
     label      |-> LET d == toml_get(e.v, "label") IN IF d.t = "str" THEN d.v.text ELSE "",
     limit      |-> Int32(Amount(e.v, "limit", FALSE)),
     quota      |-> Amount(e.v, "quota", TRUE),
     rate_limit |-> Amount(e.v, "rate_limit", TRUE),
     max_ips    |-> Int32(Amount(e.v, "max_ips", FALSE)),
     expires    |-> Expires(e.v)]

-----------------------------------------------------------------------------
(* The lists of the file.  Each is absent, or an array within its limit all *)
(* of whose elements are well formed; anything else fails the whole load.   *)

ListOk(d, max, ok(_)) ==
    d = Unknown \/ (d.t = "arr" /\ Len(d.v) <= max /\ \A i \in DOMAIN d.v : ok(d.v[i]))

ListOf(d, value(_)) ==
    IF d = Unknown THEN <<>> ELSE [i \in DOMAIN d.v |-> value(d.v[i])]

OverrideOk(e) ==
    /\ e.t = "tab"
    /\ toml_get(e.v, "dc").t = "int" /\ toml_get(e.v, "dc").v \in 1..5
    /\ toml_get(e.v, "host").t = "str" /\ toml_get(e.v, "host").v # ""
    /\ toml_get(e.v, "port").t = "int" /\ toml_get(e.v, "port").v \in 1..65535

OverrideOf(e) == [dc |-> e.v["dc"].v, host |-> e.v["host"].v, port |-> e.v["port"].v]

IsString(e) == e.t = "str"

StringOf(e) == e.v

DomainOk(e) ==
    \/ e.t = "str"
    \/ /\ e.t = "tab"
       /\ toml_get(e.v, "name").t = "str"
       /\ toml_get(e.v, "backend").t \in {"str", "unknown"}

DomainOf(e) ==
    IF e.t = "str" THEN [name |-> e.v, backend |-> ""]
    ELSE [name |-> e.v["name"].v, backend |-> get_optional_string(e.v, "backend", "")]

\* "domain" alone may also be a string; a value of another type is ignored.
DomainsOk(d) ==
    d.t = "arr" => ListOk(d, TOML_CONFIG_MAX_DOMAINS, DomainOk)

DomainsOf(d) ==
    CASE d.t = "str" -> << DomainOf(d) >>
      [] d.t = "arr" -> ListOf(d, DomainOf)
      [] OTHER       -> <<>>

-----------------------------------------------------------------------------
(* toml_config_load: the file is taken whole or not at all.                 *)

\* The global toml_cfg before a file is loaded is all zeros.
NoConfig ==
    [port |-> 0, stats_port |-> 0, external_port |-> 0, workers |-> 0, max_connections |-> 0,
     bind |-> "", ipv6 |-> 0, maxconn |-> 0, user |-> "", direct |-> 0, proxy_tag |-> NoTag,
     domains |-> <<>>, http_stats |-> 0, stats_allow_nets |-> <<>>, top_ips_per_secret |-> 0,
     ja4_log |-> 0, ip_blocklist |-> "", ip_allowlist |-> "", secrets |-> <<>>,
     dc_overrides |-> <<>>, random_padding_only |-> 0, proxy_protocol |-> 0, mss_clamp |-> 0,
     drain_timeout_secs |-> 0, dc_probe_interval |-> 0, socks5 |-> ""]

LoadOk(file) ==
    /\ file.ok
    /\ DomainsOk(toml_get(file.top, "domain"))
    /\ ListOk(toml_get(file.top, "stats_allow_net"), TOML_CONFIG_MAX_STATS_NETS, IsString)
    /\ get_optional_int(file.top, "top_ips_per_secret", 0) >= 0
    /\ get_optional_int(file.top, "drain_timeout_secs", 300) >= 0
    /\ ListOk(toml_get(file.top, "secret"), TOML_CONFIG_MAX_SECRETS, SecretOk)
    /\ ListOk(toml_get(file.top, "dc_override"), TOML_CONFIG_MAX_DC_OVERRIDES, OverrideOk)

toml_config_load(file) ==
    LET int(k, fallback) == get_optional_int(file.top, k, fallback)
        flag(k)   == get_optional_bool(file.top, k, -1)
        string(k) == get_optional_string(file.top, k, "")
    IN  [port |-> int("port", 0), stats_port |-> int("stats_port", 0),
         external_port |-> int("external_port", 0), workers |-> int("workers", -1),
         max_connections |-> int("max_connections", 0), bind |-> string("bind"),
         ipv6 |-> flag("ipv6"), maxconn |-> int("maxconn", 0), user |-> string("user"),
         direct |-> flag("direct"), proxy_tag |-> ProxyTag(file.top),
         domains |-> DomainsOf(toml_get(file.top, "domain")), http_stats |-> flag("http_stats"),
         stats_allow_nets |-> ListOf(toml_get(file.top, "stats_allow_net"), StringOf),
         top_ips_per_secret |-> int("top_ips_per_secret", 0),
         ja4_log |-> get_optional_bool(file.top, "ja4_log", 0),
         ip_blocklist |-> string("ip_blocklist"), ip_allowlist |-> string("ip_allowlist"),
         secrets |-> ListOf(toml_get(file.top, "secret"), SecretOf),
         dc_overrides |-> ListOf(toml_get(file.top, "dc_override"), OverrideOf),
         random_padding_only |-> flag("random_padding_only"),
         proxy_protocol |-> flag("proxy_protocol"), mss_clamp |-> flag("mss_clamp"),
         drain_timeout_secs |-> int("drain_timeout_secs", 300),
         dc_probe_interval |-> int("dc_probe_interval", -1), socks5 |-> string("socks5")]

\* The fields a reload replaces; a file that does not load changes nothing.
Reloadable == {"secrets", "stats_allow_nets", "ip_blocklist", "ip_allowlist",
               "drain_timeout_secs", "ja4_log"}


toml_config_reload(cfg, file) ==
    IF LoadOk(file)
    THEN [f \in DOMAIN cfg |-> IF f \in Reloadable THEN toml_config_load(file)[f] ELSE cfg[f]]
    ELSE cfg
-----------------------------------------------------------------------------
(* The [sections] of MTBolt.  Buffer sizes are in megabytes.                *)

mtbolt_config_defaults ==
    [max_connections |-> 10485760, max_connections_set |-> FALSE,
     backlog |-> 131072, backlog_set |-> FALSE, tcp_defer_accept |-> 0, window_clamp |-> 131072,
     max_allocated_bytes |-> 16384, max_connection_buffer |-> 33554432,
     handshake |-> 5, ping_interval |-> 5, http_max_wait |-> 960,
     geoip_enabled |-> 1, geoip_database |-> "", geoip_ht_size |-> 4194304,
     geoip_max_regions |-> 128, workers |-> 0, workers_set |-> FALSE,
     stats_http_enabled |-> 0, stats_http_enabled_set |-> FALSE]

Section(file, name) ==
    LET d == toml_get(file.top, name) IN IF d.t = "tab" THEN d.v ELSE <<>>

cfg_read_int(tab, key, dst) == get_optional_int(tab, key, dst)

cfg_read_bool(tab, key, dst) == get_optional_bool(tab, key, dst)

cfg_read_string(tab, key, dst) == get_optional_string(tab, key, dst)

cfg_read_llong(tab, key, dst) ==
    LET d == toml_get(tab, key) IN IF d.t = "int" THEN d.v ELSE dst

cfg_read_double(tab, key, dst) ==
    LET d == toml_get(tab, key) IN IF d.t \in {"fp", "int"} THEN d.v ELSE dst

\* A marked integer out of the range of int is as if it were absent.
Marked(tab, key) ==
    LET d == toml_get(tab, key)
    IN  d.t = "int" /\ d.v >= - INT_HALF /\ d.v < INT_HALF

cfg_read_int_marked(tab, key, dst) == IF Marked(tab, key) THEN toml_get(tab, key).v ELSE dst

mtbolt_config_load_toml(cfg, file) ==
    LET network  == Section(file, "network")
        buffers  == Section(file, "buffers")
        timeouts == Section(file, "timeouts")
        geoip    == Section(file, "geoip")
        workers  == Section(file, "workers")
        stats    == Section(file, "stats")
    IN  [max_connections |-> cfg_read_int_marked(network, "max_connections", cfg.max_connections),
         max_connections_set |-> Marked(network, "max_connections"),
         backlog |-> cfg_read_int_marked(network, "backlog", cfg.backlog),
         backlog_set |-> Marked(network, "backlog"),
         tcp_defer_accept |-> cfg_read_int(network, "tcp_defer_accept", cfg.tcp_defer_accept),
         window_clamp |-> cfg_read_int(network, "window_clamp", cfg.window_clamp),
         max_allocated_bytes |->
             cfg_read_llong(buffers, "max_allocated_bytes", cfg.max_allocated_bytes),
         max_connection_buffer |->
             cfg_read_int(buffers, "max_connection_buffer", cfg.max_connection_buffer),
         handshake |-> cfg_read_double(timeouts, "handshake", cfg.handshake),
         ping_interval |-> cfg_read_double(timeouts, "ping_interval", cfg.ping_interval),
         http_max_wait |-> cfg_read_double(timeouts, "http_max_wait", cfg.http_max_wait),
         geoip_enabled |-> cfg_read_bool(geoip, "enabled", cfg.geoip_enabled),
         geoip_database |-> cfg_read_string(geoip, "database", cfg.geoip_database),
         geoip_ht_size |-> cfg_read_int(geoip, "ht_size", cfg.geoip_ht_size),
         geoip_max_regions |-> cfg_read_int(geoip, "max_regions", cfg.geoip_max_regions),
         workers |-> cfg_read_int_marked(workers, "count", cfg.workers),
         workers_set |-> Marked(workers, "count"),
         stats_http_enabled |-> cfg_read_bool(stats, "http_enabled", cfg.stats_http_enabled),
         stats_http_enabled_set |-> toml_get(stats, "http_enabled").t = "bool"]

mtbolt_config_validate(cfg) ==
    /\ cfg.max_connections >= 1 /\ cfg.backlog >= 1 /\ cfg.tcp_defer_accept >= 0
    /\ cfg.max_allocated_bytes >= 1 /\ cfg.handshake > 0 /\ cfg.ping_interval > 0
    /\ cfg.geoip_ht_size >= 1024 /\ \E k \in 10..30 : cfg.geoip_ht_size = 2^k
    /\ cfg.geoip_max_regions \in 1..1024 /\ cfg.max_connection_buffer >= 1024
    /\ cfg.workers >= 0
=============================================================================
