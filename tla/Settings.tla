------------------------------ MODULE Settings ------------------------------
(***************************************************************************)
(* Where the settings of a running proxy come from: the command line        *)
(* (f_parse_option of mtproto-proxy.c and of engine-net.c), the TOML file    *)
(* (module Toml) applied by mtfront_pre_init under it, the MTBolt sections   *)
(* under both, and the reload of the file on SIGHUP.                         *)
(*                                                                           *)
(* g holds the global variables the options set.  An option is [o, v]: its   *)
(* letter or name and its argument.  A value in Malformed is one that the    *)
(* reader of an address, a CIDR, a URL or a file refuses.                    *)
(***************************************************************************)
EXTENDS Toml, FiniteSets

CONSTANTS
    CommandLines,            \* sequence: what the proxy may be started with
    ConfigFiles,             \* sequence: what the TOML file may hold
    Malformed,
    MAX_HTTP_LISTEN_PORTS,
    MAX_WORKERS,
    MAX_CONNECTIONS,
    DEFAULT_BACKLOG,
    PING_INTERVAL,
    MaxReloads               \* bound: SIGHUPs in a behaviour

VARIABLES
    st,        \* "off", "running", or "stopped": the process has exited
    cmd,       \* which command line
    file,      \* which of the files is on disk
    g,         \* the global variables
    booted,    \* the file as it was when the proxy started
    loaded,    \* the last file that loaded
    reloads

settingsVars == <<st, cmd, file, g, booted, loaded, reloads>>

-----------------------------------------------------------------------------
(* The command line.                                                        *)

\* The values the globals are declared with.
Globals ==
    [stop |-> FALSE,
     max_special_connections |-> MAX_CONNECTIONS, window_clamp |-> 0, http_port |-> <<>>,
     workers |-> 0, ping_interval |-> PING_INTERVAL, no_port |-> TRUE, domains |-> <<>>,
     pinned |-> <<>>, proxy_tag |-> NoTag, rand_pad_only |-> FALSE, blocklist_file |-> "",
     allowlist_file |-> "", direct_mode |-> FALSE, stats_allowlist |-> {}, overrides |-> {},
     config |-> FALSE, socks5 |-> "", proxy_protocol_enabled |-> FALSE, probe_from_cli |-> -1,
     geoip_db_cli |-> "", toml |-> NoConfig, mtbolt |-> mtbolt_config_defaults,
     backlog |-> DEFAULT_BACKLOG, maxconn |-> MAX_CONNECTIONS, maxconn_from_cli |-> FALSE,
     port |-> -1, settings_addr |-> "", ipv6 |-> FALSE, username |-> "",
     applied |-> <<>>, drain |-> 300, top_ips |-> 0, mss_clamp_on |-> FALSE, probe_iv |-> 0]

Stop(gl) == [gl EXCEPT !.stop = TRUE]

\* set_maxconn, with tcp_set_max_connections.
set_maxconn(gl, val) ==
    LET n == IF val <= 0 THEN MAX_CONNECTIONS ELSE val
    IN  [gl EXCEPT !.maxconn = n, !.maxconn_from_cli = TRUE,
                   !.max_special_connections = IF @ = 0 \/ @ > n THEN n ELSE @]

f_parse_option_net(gl, o) ==
    CASE o.o = "b" -> [gl EXCEPT !.backlog = o.v]
      [] o.o = "c" -> set_maxconn(gl, o.v)
      [] o.o = "p" -> IF o.v <= 0 THEN Stop(gl) ELSE [gl EXCEPT !.port = o.v]
      [] o.o = "6" -> [gl EXCEPT !.ipv6 = TRUE]
      [] o.o = "address" ->
            IF o.v \in Malformed THEN Stop(gl) ELSE [gl EXCEPT !.settings_addr = o.v]
      [] o.o = "u" -> IF gl.username # "" THEN Stop(gl) ELSE [gl EXCEPT !.username = o.v]

HttpPorts(gl, ports) ==
    IF /\ ports # <<>> /\ \A i \in DOMAIN ports : ports[i] \in 1..65535
       /\ Len(gl.http_port \o ports) <= MAX_HTTP_LISTEN_PORTS
    THEN [gl EXCEPT !.http_port = @ \o ports] ELSE Stop(gl)

CliSecretOk(s) ==
    /\ toml_config_parse_hex_secret(s.key)
    /\ s.label.len <= TOML_SECRET_LABEL_MAX /\ (s.label.len = 0 \/ s.label.safe)
    /\ s.limit # None => s.limit >= 1

CliSecret(s) == [key |-> s.key.key, label |-> s.label.text,
                 limit |-> IF s.limit = None THEN 0 ELSE Int32(s.limit)]

CliOverrideOk(d) == d.dc \in 1..5 /\ d.port \in 1..65535 /\ d.host \notin Malformed

LongOption(gl, o) ==
    CASE o.o = "R" -> [gl EXCEPT !.rand_pad_only = TRUE]
      [] o.o = "ip-blocklist" -> [gl EXCEPT !.blocklist_file = o.v]
      [] o.o = "ip-allowlist" -> [gl EXCEPT !.allowlist_file = o.v]
      [] o.o = "direct" -> [gl EXCEPT !.direct_mode = TRUE]
      [] o.o = "stats-allow-net" ->
            IF o.v \in Malformed THEN Stop(gl) ELSE [gl EXCEPT !.stats_allowlist = @ \cup {o.v}]
      [] o.o = "dc-override" ->
            IF CliOverrideOk(o.v) THEN [gl EXCEPT !.overrides = @ \cup {o.v}] ELSE Stop(gl)
      [] o.o = "config" -> [gl EXCEPT !.config = TRUE]
      [] o.o = "socks5" -> IF o.v \in Malformed THEN Stop(gl) ELSE [gl EXCEPT !.socks5 = o.v]
      [] o.o = "proxy-protocol" -> [gl EXCEPT !.proxy_protocol_enabled = TRUE]
      [] o.o = "dc-probe-interval" -> [gl EXCEPT !.probe_from_cli = IF o.v < 0 THEN 0 ELSE o.v]
      [] o.o = "no-mss-clamp" -> [gl EXCEPT !.toml.mss_clamp = 0]
      [] o.o = "ja4-log" -> [gl EXCEPT !.toml.ja4_log = 1]
      [] o.o = "geoip-db" -> [gl EXCEPT !.geoip_db_cli = o.v]
      [] OTHER -> f_parse_option_net(gl, o)

f_parse_option(gl, o) ==
    CASE o.o = "C" -> [gl EXCEPT !.max_special_connections = IF o.v < 0 THEN 0 ELSE o.v]
      [] o.o = "W" -> [gl EXCEPT !.window_clamp = o.v]
      [] o.o = "H" -> HttpPorts(gl, o.v)
      [] o.o = "M" -> IF o.v \in 0..MAX_WORKERS THEN [gl EXCEPT !.workers = o.v] ELSE Stop(gl)
      [] o.o = "T" -> [gl EXCEPT !.ping_interval = IF o.v <= 0 THEN PING_INTERVAL ELSE o.v]
      [] o.o = "http-stats" -> [gl EXCEPT !.no_port = FALSE]
      [] o.o = "D" -> [gl EXCEPT !.domains = Append(@, [name |-> o.v, backend |-> ""])]
      [] o.o = "S" -> IF CliSecretOk(o.v) THEN [gl EXCEPT !.pinned = Append(@, CliSecret(o.v))]
                      ELSE Stop(gl)
      [] o.o = "P" -> IF toml_config_parse_hex_secret(o.v) THEN [gl EXCEPT !.proxy_tag = o.v]
                      ELSE Stop(gl)
      [] OTHER -> LongOption(gl, o)

\* The options one after the other, up to one that stops the program.
ParseOptions(opts) ==
    LET f[i \in 0..Len(opts)] ==
            IF i = 0 THEN Globals
            ELSE IF f[i - 1].stop THEN f[i - 1] ELSE f_parse_option(f[i - 1], opts[i])
    IN  f[Len(opts)]

mtfront_parse_extra_args(gl, relay) ==
    IF relay = "none" /\ ~gl.direct_mode /\ ~gl.config THEN Stop(gl) ELSE gl

-----------------------------------------------------------------------------
(* mtfront_pre_init, in the order of its parts.                             *)

LoadToml(gl, f) ==
    IF ~gl.config THEN gl
    ELSE IF ~LoadOk(f) THEN Stop(gl)
    ELSE [gl EXCEPT !.toml = toml_config_load(f), !.mtbolt = mtbolt_config_load_toml(@, f)]

TomlPorts(gl) ==
    [gl EXCEPT
       !.http_port = IF gl.toml.port > 0 /\ @ = <<>> THEN <<gl.toml.port>> ELSE @,
       !.workers   = IF gl.toml.workers >= 0 /\ @ <= 0 THEN gl.toml.workers ELSE @,
       !.max_special_connections =
            IF gl.toml.max_connections > 0 /\ @ = 0 THEN gl.toml.max_connections ELSE @,
       !.port      = IF gl.toml.stats_port > 0 /\ @ <= 0 THEN gl.toml.stats_port ELSE @]

\* A bad stats network or override of the file is passed over in silence.
TomlModes(gl) ==
    LET c == gl.toml
    IN  [gl EXCEPT
       !.direct_mode = @ \/ c.direct = 1,
       !.proxy_tag = IF @ = NoTag /\ toml_config_parse_hex_secret(c.proxy_tag)
                     THEN c.proxy_tag ELSE @,
       !.no_port = @ /\ c.http_stats # 1,
       !.rand_pad_only = @ \/ c.random_padding_only = 1,
       !.blocklist_file = IF c.ip_blocklist # "" THEN c.ip_blocklist ELSE @,
       !.allowlist_file = IF c.ip_allowlist # "" THEN c.ip_allowlist ELSE @,
       !.stats_allowlist = @ \cup ({c.stats_allow_nets[i] : i \in DOMAIN c.stats_allow_nets}
                                   \ Malformed),
       !.domains = @ \o c.domains,
       !.overrides = @ \cup {d \in {c.dc_overrides[i] : i \in DOMAIN c.dc_overrides} :
                                d.host \notin Malformed}]

TomlRest(gl) ==
    LET c == gl.toml
        h == [gl EXCEPT
                !.settings_addr = IF @ = "" THEN c.bind ELSE @,
                !.socks5 = IF @ = "" THEN c.socks5 ELSE @,
                !.proxy_protocol_enabled = @ \/ c.proxy_protocol = 1,
                !.ipv6 = @ \/ c.ipv6 = 1,
                !.username = IF @ = "" THEN c.user ELSE @]
    IN  IF {h.settings_addr, h.socks5} \cap Malformed # {} THEN Stop(h)
        ELSE IF c.maxconn > 0 /\ ~h.maxconn_from_cli THEN set_maxconn(h, c.maxconn) ELSE h

ApplyToml(gl) ==
    IF gl.stop \/ ~gl.config THEN gl ELSE TomlRest(TomlPorts(TomlModes(gl)))

\* set_maxconn also raises maxconn_from_cli, so a maxconn of the file counts
\* as given on the command line here.
MtboltConnections(gl) ==
    LET h == set_maxconn(gl, gl.mtbolt.max_connections)
    IN  IF ~gl.mtbolt.max_connections_set \/ gl.maxconn_from_cli THEN gl
        ELSE IF h.max_special_connections = MAX_CONNECTIONS /\ gl.toml.max_connections <= 0
        THEN [h EXCEPT !.max_special_connections = gl.mtbolt.max_connections]
        ELSE h

ApplyMtbolt(gl) ==
    LET m == IF gl.geoip_db_cli # ""
             THEN [gl.mtbolt EXCEPT !.geoip_database = gl.geoip_db_cli, !.geoip_enabled = 1]
             ELSE gl.mtbolt
        h == MtboltConnections([gl EXCEPT !.mtbolt = m])
    IN  IF gl.stop \/ ~mtbolt_config_validate(m) THEN Stop(gl)
        ELSE [h EXCEPT
                !.backlog = IF m.backlog_set /\ @ = DEFAULT_BACKLOG THEN m.backlog ELSE @,
                !.workers = IF m.workers_set /\ h.toml.workers < 0 /\ @ = 0 THEN m.workers ELSE @,
                !.no_port = @ /\ m.stats_http_enabled = 0,
                !.ping_interval = IF @ = PING_INTERVAL THEN m.ping_interval ELSE @,
                !.window_clamp = IF @ = 0 THEN m.window_clamp ELSE @]

\* The mode must make sense, and the relay file, the ACL files and the GeoIP
\* database must load.
Refused(gl, relay) ==
    \/ gl.direct_mode /\ gl.proxy_tag # NoTag
    \/ gl.socks5 # "" /\ ~gl.direct_mode
    \/ ~gl.direct_mode /\ relay # "good"
    \/ {gl.blocklist_file, gl.allowlist_file} \cap Malformed # {}
    \/ gl.mtbolt.geoip_enabled = 1 /\ gl.mtbolt.geoip_database \in Malformed
    \/ gl.domains # <<>> /\ gl.pinned = <<>> /\ (gl.config => gl.toml.secrets = <<>>)

\* apply_toml_secrets hands the table of module Secrets a whole list.
apply_toml_secrets(gl) ==
    [gl EXCEPT !.applied = gl.toml.secrets, !.drain = gl.toml.drain_timeout_secs]

\* The secrets of the file, the top-IP and drain settings, the listeners'
\* flags and (mtfront_pre_loop) the probe interval.
Open(gl) ==
    LET h == IF ~gl.config THEN gl
             ELSE [(IF gl.toml.secrets # <<>> THEN apply_toml_secrets(gl) ELSE gl)
                     EXCEPT !.top_ips = gl.toml.top_ips_per_secret,
                            !.drain = gl.toml.drain_timeout_secs]
    IN  [h EXCEPT !.mss_clamp_on = gl.toml.mss_clamp # 0,
                  !.probe_iv = IF gl.probe_from_cli >= 0 THEN gl.probe_from_cli
                               ELSE IF gl.config /\ gl.toml.dc_probe_interval >= 0
                               THEN gl.toml.dc_probe_interval ELSE 0]

mtfront_pre_init(gl, f, relay) ==
    LET h == ApplyMtbolt(ApplyToml(LoadToml(gl, f)))
    IN  IF gl.stop \/ h.stop \/ Refused(h, relay) THEN Stop(h) ELSE Open(h)

-----------------------------------------------------------------------------
Line == CommandLines[cmd]

File == ConfigFiles[file]

Init ==
    /\ st = "off" /\ g = Globals /\ reloads = 0
    /\ cmd \in DOMAIN CommandLines /\ file \in DOMAIN ConfigFiles
    /\ booted = file /\ loaded = file

\* default_main: the options, the extra arguments, mtfront_pre_init.
Start ==
    /\ st = "off"
    /\ g' = mtfront_pre_init(mtfront_parse_extra_args(ParseOptions(Line.opts), Line.relay),
                             File, Line.relay)
    /\ st' = IF g'.stop THEN "stopped" ELSE "running"
    /\ booted' = file /\ loaded' = file
    /\ UNCHANGED <<cmd, file, reloads>>

Edit(f) ==
    /\ st = "running" /\ g.config /\ f # file
    /\ file' = f
    /\ UNCHANGED <<st, cmd, g, booted, loaded, reloads>>

\* The TOML part of the handler; the relay file and the ACLs are reloaded in
\* Targets and IpAcl, the children in Workers.
mtfront_sighup_handler ==
    /\ st = "running" /\ g.config /\ reloads < MaxReloads
    /\ g' = LET h == [g EXCEPT !.toml = toml_config_reload(@, File)]
            IN  IF LoadOk(File) THEN apply_toml_secrets(h) ELSE h
    /\ loaded' = IF LoadOk(File) THEN file ELSE loaded
    /\ reloads' = reloads + 1
    /\ UNCHANGED <<st, cmd, file, booted>>

Next == Start \/ (\E f \in DOMAIN ConfigFiles : Edit(f)) \/ mtfront_sighup_handler

Spec == Init /\ [][Next]_settingsVars

-----------------------------------------------------------------------------
TypeOK ==
    /\ st \in {"off", "running", "stopped"} /\ reloads \in 0..MaxReloads
    /\ DOMAIN g = DOMAIN Globals /\ g.stop \in BOOLEAN

\* What the command line asks for is what the proxy runs with, whatever the
\* file says: each of these options, once given, keeps its value through
\* mtfront_pre_init and through every reload.
CommandLineKept ==
    LET c == ParseOptions(Line.opts)
    IN  \A f \in {"http_port", "proxy_tag", "port", "settings_addr", "socks5", "username",
                  "pinned", "probe_from_cli", "window_clamp", "backlog"} :
           c[f] # Globals[f] => g[f] = c[f]

=============================================================================
