------------------------------- MODULE Config -------------------------------
(***************************************************************************)
(* The parser of the relay configuration (mtproto-config.c), over the      *)
(* directives of a file.  A directive is a record:                         *)
(*    [k |-> "proxy", dc |-> d, addr |-> a]   proxy_for d a; (d = 0: proxy) *)
(*    [k |-> "default", dc |-> d]   [k |-> "timeout", n |-> ms]            *)
(*    [k |-> "min", n |-> i]        [k |-> "max", n |-> i]                 *)
(*    [k |-> "bad"]                 anything else, or no ";" at the end    *)
(* The clusters of a configuration are slices of its target array, as in   *)
(* the code, where cluster_targets points into targets[].                  *)
(***************************************************************************)
EXTENDS Integers, Sequences, SequencesExt

CONSTANTS
    MAX_CFG_TARGETS, MAX_CFG_CLUSTERS,
    default_cfg_min_connections, default_cfg_max_connections,
    Unresolved    \* the address of a name that does not resolve, or of a port out of range

preinit_config ==
    [ok |-> TRUE, targets |-> <<>>, clusters |-> <<>>, min |-> default_cfg_min_connections,
     max |-> default_cfg_max_connections, default |-> 0]

\* The directive is in error, and parsing stops.
Syntax(MC) == [MC EXCEPT !.ok = FALSE]

ValidDc(d) == -32768 <= d /\ d < 32768

mf_cluster_lookup(MC, dc) == {i \in 1 .. Len(MC.clusters) : MC.clusters[i].id = dc}

cfg_parse_server_port(MC, addr) ==
    IF Len(MC.targets) >= MAX_CFG_TARGETS \/ addr = Unresolved THEN Syntax(MC)
    ELSE [MC EXCEPT !.targets = Append(@, [addr |-> addr, min |-> MC.min, max |-> MC.max])]

init_old_mf_cluster(MC, dc) ==
    [MC EXCEPT !.clusters = Append(@, [id |-> dc, first |-> Len(MC.targets), num |-> 1])]

\* Fails ("IMPOSSIBLE") when the new target does not follow the cluster's last.
extend_old_mf_cluster(MC, i) ==
    IF MC.clusters[i].first + MC.clusters[i].num # Len(MC.targets) THEN Syntax(MC)
    ELSE [MC EXCEPT !.clusters[i].num = @ + 1]

MutantCluster(MC, dc) ==
    IF mf_cluster_lookup(MC, dc) = {} THEN init_old_mf_cluster(MC, dc)
    ELSE extend_old_mf_cluster(MC, Len(MC.clusters))
AddToCluster(MC, dc) ==
    CASE mf_cluster_lookup(MC, dc) = {} -> init_old_mf_cluster(MC, dc)
      [] mf_cluster_lookup(MC, dc) = {Len(MC.clusters)} -> extend_old_mf_cluster(MC, Len(MC.clusters))
      [] OTHER -> Syntax(MC)

proxy_directive(MC, d) ==
    IF ~ValidDc(d.dc) \/ Len(MC.clusters) >= MAX_CFG_CLUSTERS THEN Syntax(MC)
    ELSE LET MT == cfg_parse_server_port(MC, d.addr) IN
         IF MT.ok THEN AddToCluster(MT, d.dc) ELSE MT

parse_directive(MC, d) ==
    CASE ~MC.ok -> MC
      [] d.k = "proxy" -> proxy_directive(MC, d)
      [] d.k = "default" -> IF ValidDc(d.dc) THEN [MC EXCEPT !.default = d.dc] ELSE Syntax(MC)
      [] d.k = "timeout" -> IF d.n < 10 \/ d.n > 30000 THEN Syntax(MC) ELSE MC
      [] d.k = "max" -> IF d.n < MC.min \/ d.n > 1000 THEN Syntax(MC) ELSE [MC EXCEPT !.max = d.n]
      [] d.k = "min" -> IF d.n < 1 \/ d.n > MC.max THEN Syntax(MC) ELSE [MC EXCEPT !.min = d.n]
      [] OTHER -> Syntax(MC)

parse_config(file) ==
    LET MC == FoldLeft(parse_directive, preinit_config, file) IN
    IF MC.ok /\ MC.clusters = <<>> THEN Syntax(MC) ELSE MC

\* mf_cluster_lookup with force: the data centre's own cluster, else the
\* default's, else none.
ClusterFor(MC, dc) ==
    IF mf_cluster_lookup(MC, dc) # {} THEN mf_cluster_lookup(MC, dc) ELSE mf_cluster_lookup(MC, MC.default)

ClusterTargets(MC, i) == {MC.clusters[i].first + j : j \in 0 .. MC.clusters[i].num - 1}

(* ---- property ----------------------------------------------------------- *)

\* What parse_config accepts is what choose_proxy_target may use without a
\* check: the clusters are non-empty slices of the target array that split it
\* among them, no data centre has two, each holds exactly the targets the file
\* names for it, and the number of connections of a target lies between
\* sensible bounds.
ParsedSound(file) ==
    LET MC == parse_config(file)
        proxies == SelectSeq(file, LAMBDA d : d.k = "proxy") IN
    MC.ok =>
        /\ Len(MC.clusters) > 0 /\ Len(MC.targets) = Len(proxies)
        /\ \A i, j \in 1 .. Len(MC.clusters) : i # j =>
              /\ MC.clusters[i].id # MC.clusters[j].id
              /\ ClusterTargets(MC, i) \cap ClusterTargets(MC, j) = {}
        /\ \A i \in 1 .. Len(MC.clusters) :
              ClusterTargets(MC, i) = {t \in 1 .. Len(proxies) : proxies[t].dc = MC.clusters[i].id}
        /\ \A t \in 1 .. Len(MC.targets) :
              /\ MC.targets[t].addr = proxies[t].addr
              /\ 1 <= MC.targets[t].min /\ MC.targets[t].min <= MC.targets[t].max
=============================================================================
