------------------------------ MODULE Targets ------------------------------
(***************************************************************************)
(* The targets (middle-end addresses) of the relay: net-conn-targets.c and *)
(* the reload of the configuration that names them (do_reload_config).     *)
(* A target lives in the table HTarget as long as a configuration names it *)
(* (global_refcnt) or it has connections; a reload may name it again while *)
(* it is being closed.  The target jobs and the reload run on the main     *)
(* thread, the connections on the CPU threads.                             *)
(*                                                                         *)
(* A time-out is counted in ticks.                                         *)
(***************************************************************************)
EXTENDS Config, FiniteSets, FiniteSetsExt

CONSTANTS
    Addrs,        \* addresses of targets
    Links,        \* connections, used again once freed
    Files,        \* the configuration files a reload may find
    MAX_RECONNECT_INTERVAL,
    MaxReloads    \* bound

VARIABLES
    target,       \* per address: the target in HTarget, or none
    link,         \* per connection
    CurConf,      \* the targets and clusters in use
    reloads,
    stat          \* active_targets, inactive_targets, ready_targets, ready_outbound_connections

vars == <<target, link, CurConf, reloads, stat>>

\* What the parser makes of the files.
Configs == {parse_config(file) : file \in Files}

NoTarget == [refs |-> -1]
Exists(a) == target[a] # NoTarget
NewTarget(t) ==
    [refs |-> 1, min |-> t.min, max |-> t.max, tree |-> {}, active |-> 0, outbound |-> 0,
     ready |-> 0, run |-> TRUE, armed |-> FALSE, wait |-> 0, timeout |-> 0]

FreeLink == [st |-> "free", act |-> FALSE, addr |-> Unresolved]

(* ---- reload --------------------------------------------------------------- *)

\* create_target, for one target of the new configuration.
create_target(w, t) ==
    IF w.target[t.addr] = NoTarget
    THEN [target |-> [w.target EXCEPT ![t.addr] = NewTarget(t)], stat |-> [w.stat EXCEPT !.active = @ + 1]]
    ELSE [target |-> [w.target EXCEPT ![t.addr] = [@ EXCEPT !.min = t.min, !.max = t.max, !.refs = @ + 1]],
          stat |-> IF w.target[t.addr].refs = 0 THEN [w.stat EXCEPT !.active = @ + 1, !.inactive = @ - 1] ELSE w.stat]

destroy_target(w, t) ==
    IF w.target[t.addr].refs = 1
    THEN [target |-> [w.target EXCEPT ![t.addr] = [@ EXCEPT !.refs = 0, !.run = TRUE]],
          stat |-> [w.stat EXCEPT !.active = @ - 1, !.inactive = @ + 1]]
    ELSE [w EXCEPT !.target[t.addr].refs = @ - 1]

\* A file that does not parse leaves everything as it was; otherwise the new
\* targets are made, the configurations swapped and the old one cleared.
do_reload_config ==
    /\ reloads < MaxReloads
    /\ reloads' = reloads + 1
    /\ \E MC \in Configs :
        LET made == FoldLeft(create_target, [target |-> target, stat |-> stat], MC.targets)
            cleared == FoldLeft(destroy_target, made, CurConf.targets) IN
        \/ ~MC.ok /\ UNCHANGED <<target, CurConf, stat>>
        \/ MC.ok /\ CurConf' = MC /\ target' = cleared.target /\ stat' = cleared.stat
    /\ UNCHANGED link

Init ==
    /\ link = [x \in Links |-> FreeLink]
    /\ reloads = 0
    /\ \E MC \in Configs :
        LET zero == [target |-> [a \in Addrs |-> NoTarget],
                     stat |-> [active |-> 0, inactive |-> 0, ready |-> 0, conns |-> 0]]
            made == FoldLeft(create_target, zero, MC.targets) IN
        /\ MC.ok
        /\ CurConf = MC
        /\ target = made.target
        /\ stat = made.stat

(* ---- the target job ---------------------------------------------------------- *)

Errors(T) == {x \in T.tree : link[x].st \in {"error", "closed"}}

\* The connections with C_ERROR leave the tree, with their part of the counts.
RemoveDead(T) ==
    LET bad == Errors(T) IN
    [T EXCEPT !.tree = @ \ bad, !.outbound = @ - Cardinality(bad),
              !.active = @ - Cardinality({x \in bad : link[x].act})]

\* A connection is ready once its handshake is over; one that takes too long
\* to get there is failed by check_ready itself, and counts as bad.
Good(T) == {x \in T.tree : link[x].st = "working"}
Late(T) == {x \in T.tree : link[x].st = "late"}

CountReady(T, s) ==
    LET good == Cardinality(Good(T)) IN
    [s EXCEPT !.conns = @ + good - T.ready,
              !.ready = @ + (IF T.ready = 0 /\ good > 0 THEN 1 ELSE 0) - (IF T.ready > 0 /\ good = 0 THEN 1 ELSE 0)]

\* reconnect_timeout is 1; a target without active connections waits longer each time.
compute_next_reconnect(T) ==
    LET t == IF T.timeout < 1 \/ T.active # 0 THEN 1 ELSE T.timeout IN
    [T EXCEPT !.wait = t, !.timeout = IF T.active = 0 /\ t < MAX_RECONNECT_INTERVAL THEN t + 1 ELSE t]

FreeLinks == {x \in Links : link[x].st = "free"}

\* create_new_connections: up to need_c connections; a socket that cannot be
\* made ends the loop.
create_new_connections(a, T) ==
    LET need == Min({T.min + Cardinality(Late(T)), T.max})
        room == Max({0, need - T.outbound}) IN
    \/ /\ T.wait > 0 /\ T.active = 0
       /\ target' = [target EXCEPT ![a] = T]
       /\ link' = [x \in Links |-> IF x \in Late(T) THEN [link[x] EXCEPT !.st = "error"] ELSE link[x]]
    \/ /\ T.wait = 0 \/ T.active # 0
       /\ \E new \in SUBSET FreeLinks :
           /\ Cardinality(new) <= room
           /\ target' = [target EXCEPT ![a] = compute_next_reconnect([T EXCEPT !.tree = @ \cup new, !.outbound = @ + Cardinality(new)])]
           /\ link' = [x \in Links |->
                 CASE x \in new -> [st |-> "connecting", act |-> FALSE, addr |-> a]
                   [] x \in Late(T) -> [link[x] EXCEPT !.st = "error"]
                   [] OTHER -> link[x]]

\* A target nobody names: its connections are failed (-17) until none is left.
clean_unused_target(a, T) ==
    /\ target' = [target EXCEPT ![a] = compute_next_reconnect(T)]
    /\ link' = [x \in Links |-> IF x \in T.tree THEN [link[x] EXCEPT !.st = "error"] ELSE link[x]]

free_target(a, T) ==
    /\ T.refs = 0 /\ T.tree = {}
    /\ target' = [target EXCEPT ![a] = NoTarget]
    /\ UNCHANGED link

\* JS_RUN and JS_ALARM; the timer is set again unless the target is freed.
do_conn_target_job(a) ==
    /\ Exists(a)
    /\ target[a].run \/ target[a].armed
    /\ LET T0 == RemoveDead([target[a] EXCEPT !.run = FALSE, !.armed = TRUE])
           s == CountReady(T0, stat)
           T == [T0 EXCEPT !.ready = Cardinality(Good(T0))] IN
        \/ T.refs > 0 /\ create_new_connections(a, T) /\ stat' = s
        \/ T.refs = 0 /\ T.tree # {} /\ clean_unused_target(a, T) /\ stat' = s
        \/ free_target(a, T) /\ stat' = [s EXCEPT !.inactive = @ - 1]
    /\ UNCHANGED <<CurConf, reloads>>

(* ---- the connections ------------------------------------------------------------ *)

Move(x, from, to) == link[x].st = from /\ link' = [link EXCEPT ![x].st = to]

\* The first JS_RUN after the connection is made counts it as active.
ConnectionActive(x) ==
    /\ link[x].st = "connecting" /\ ~link[x].act
    /\ link' = [link EXCEPT ![x].act = TRUE]
    /\ target' = [target EXCEPT ![link[x].addr].active = @ + 1]
    /\ UNCHANGED <<CurConf, reloads, stat>>

HandshakeDone(x) ==
    /\ link[x].act /\ Move(x, "connecting", "working")
    /\ UNCHANGED <<target, CurConf, reloads, stat>>

ConnectTimeout(x) ==
    /\ Move(x, "connecting", "late")
    /\ UNCHANGED <<target, CurConf, reloads, stat>>

fail_connection(x) ==
    /\ link[x].st \in {"connecting", "late", "working"}
    /\ link' = [link EXCEPT ![x].st = "error"]
    /\ UNCHANGED <<target, CurConf, reloads, stat>>

\* JS_ABORT: the target is signalled.
cpu_server_close_connection(x) ==
    /\ Move(x, "error", "closed")
    /\ target' = IF Exists(link[x].addr) THEN [target EXCEPT ![link[x].addr].run = TRUE] ELSE target
    /\ UNCHANGED <<CurConf, reloads, stat>>

cpu_server_free_connection(x) ==
    /\ link[x].st = "closed"
    /\ \A a \in Addrs : Exists(a) => x \notin target[a].tree
    /\ link' = [link EXCEPT ![x] = FreeLink]
    /\ UNCHANGED <<target, CurConf, reloads, stat>>

Tick(a) ==
    /\ Exists(a) /\ target[a].wait > 0
    /\ target' = [target EXCEPT ![a].wait = @ - 1]
    /\ UNCHANGED <<link, CurConf, reloads, stat>>

Next ==
    \/ do_reload_config
    \/ \E a \in Addrs : do_conn_target_job(a) \/ Tick(a)
    \/ \E x \in Links :
        \/ ConnectionActive(x)
        \/ HandshakeDone(x)
        \/ ConnectTimeout(x)
        \/ fail_connection(x)
        \/ cpu_server_close_connection(x)
        \/ cpu_server_free_connection(x)

Spec == Init /\ [][Next]_vars

(* ---- properties ------------------------------------------------------------------ *)

Named(a) == Cardinality({i \in 1 .. Len(CurConf.targets) : CurConf.targets[i].addr = a})

TypeOK ==
    /\ \A a \in Addrs : Exists(a) => target[a].refs \in Nat /\ target[a].tree \subseteq Links
    /\ \A x \in Links : link[x].st \in {"free", "connecting", "late", "working", "error", "closed"}

=============================================================================
