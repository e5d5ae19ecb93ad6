------------------------------ MODULE DcProbes ------------------------------
(***************************************************************************)
(* The health probes of mtproto/mtproto-dc-probes.c: a timer on the main     *)
(* thread opens a TCP connection to every data centre once per interval and  *)
(* polls the ones in flight, keeping a latency histogram per data centre.    *)
(*                                                                           *)
(* Time is counted in units in which PROBE_TIMEOUT_SEC and the bounds of the *)
(* buckets are small.  The kernel chooses how each connect and poll goes.    *)
(***************************************************************************)
EXTENDS Integers, Sequences, FiniteSets, FiniteSetsExt

CONSTANTS
    DC_PROBE_COUNT,
    PROBE_TIMEOUT,      \* PROBE_TIMEOUT_SEC
    bucket_bounds,      \* increasing sequence of latencies
    probe_interval,
    MaxTime             \* bound: the clock

VARIABLES
    clock,              \* get_utime_monotonic
    last_probe_start,
    probes,             \* per data centre: 0, or the time its connect began
    probes_pending,
    histograms,         \* per data centre [bucket, count, failures]
    sockets,            \* descriptors open, per data centre
    started             \* history: rounds begun

probeVars == <<clock, last_probe_start, probes, probes_pending, histograms, sockets, started>>

Dcs == 1..DC_PROBE_COUNT

Init ==
    /\ clock = 1 /\ last_probe_start = 0 /\ probes_pending = 0 /\ started = 0
    /\ probes = [i \in Dcs |-> 0]
    /\ histograms = [i \in Dcs |-> [bucket |-> [b \in DOMAIN bucket_bounds |-> 0],
                                    count |-> 0, failures |-> 0]]
    /\ sockets = [i \in Dcs |-> 0]

-----------------------------------------------------------------------------
(* One probe: its part of the state is p = [at, h, socks, pend], with pend   *)
(* the change of probes_pending.                                             *)

record_latency(h, latency) ==
    LET fits == {b \in DOMAIN bucket_bounds : latency <= bucket_bounds[b]}
    IN  [h EXCEPT !.count = @ + 1,
                  !.bucket = IF fits = {} THEN @ ELSE [@ EXCEPT ![Min(fits)] = @ + 1]]

\* The descriptor is closed and the probe is over.
Over(p) == [p EXCEPT !.at = 0, !.socks = @ - 1, !.pend = @ - 1]

Failure(p) == [p EXCEPT !.h.failures = @ + 1]

Success(p, latency) == [p EXCEPT !.h = record_latency(@, latency)]

\* No address or no socket ("none"), refused at once, connected at once, or
\* under way.
start_probe(p, how) ==
    CASE how = "none"      -> Failure(p)
      [] how = "refused"   -> Failure([p EXCEPT !.at = 0])
      [] how = "immediate" -> Success([p EXCEPT !.at = 0], 0)
      [] how = "progress"  -> [p EXCEPT !.at = clock, !.socks = @ + 1, !.pend = @ + 1]

\* A probe still in flight is closed and counted as failed first.
MutantRound(p, how) == start_probe(IF p.at # 0 THEN Failure(p) ELSE p, how)

dc_probes_start_round(p, how) ==
    start_probe(IF p.at # 0 THEN Failure(Over(p)) ELSE p, how)

\* The answer of poll counts only while the probe is not too old.  The clock
\* is read again for the latency, which may by then be later.
dc_probes_poll(p, answer) ==
    IF p.at = 0 THEN p
    ELSE IF clock - p.at > PROBE_TIMEOUT THEN Failure(Over(p))
    ELSE CASE answer = "wait"  -> p
           [] answer = "error" -> Failure(Over(p))
           [] answer = "ready" -> Success(Over(p), clock - p.at)
           [] answer = "late"  -> Success(Over(p), clock + 1 - p.at)

-----------------------------------------------------------------------------
Probe(i) == [at |-> probes[i], h |-> histograms[i], socks |-> sockets[i], pend |-> 0]

RoundDue == last_probe_start <= 0 \/ clock - last_probe_start >= probe_interval

\* The callback: a new round if the interval is over, then the poll, which
\* looks at no probe when none is pending.
dc_probes_timer(how, answer) ==
    LET begun(i)  == IF RoundDue THEN dc_probes_start_round(Probe(i), how[i]) ELSE Probe(i)
        pending   == probes_pending + MapThenSumSet(LAMBDA i : begun(i).pend, Dcs)
        polled(i) == IF pending <= 0 THEN begun(i) ELSE dc_probes_poll(begun(i), answer[i])
    IN  /\ last_probe_start' = IF RoundDue THEN clock ELSE last_probe_start
        /\ started' = IF RoundDue THEN started + 1 ELSE started
        /\ probes' = [i \in Dcs |-> polled(i).at]
        /\ histograms' = [i \in Dcs |-> polled(i).h]
        /\ sockets' = [i \in Dcs |-> polled(i).socks]
        /\ probes_pending' = probes_pending + MapThenSumSet(LAMBDA i : polled(i).pend, Dcs)
        /\ UNCHANGED clock

Tick == clock < MaxTime /\ clock' = clock + 1
        /\ UNCHANGED <<last_probe_start, probes, probes_pending, histograms, sockets, started>>

Next ==
    \/ Tick
    \/ \E how \in [Dcs -> IF RoundDue THEN {"none", "refused", "immediate", "progress"}
                             ELSE {"none"}],
          answer \in [Dcs -> {"wait", "error", "ready", "late"}] : dc_probes_timer(how, answer)

Spec == Init /\ [][Next]_probeVars

-----------------------------------------------------------------------------
TypeOK ==
    /\ clock \in 1..MaxTime /\ last_probe_start \in 0..MaxTime
    /\ probes \in [Dcs -> 0..MaxTime] /\ started \in Nat

\* Every probe of every round ends up in the statistics exactly once, as a
\* latency or as a failure, or is still in flight, and a descriptor is open
\* exactly for the ones in flight: also when a round begins before the
\* probes of the last one have ended, and when an answer and the timeout
\* come together.  The buckets never hold more latencies than were counted.
ProbesSound ==
    /\ probes_pending = Cardinality({i \in Dcs : probes[i] # 0})
    /\ \A i \in Dcs :
          LET h == histograms[i]
          IN  /\ sockets[i] = IF probes[i] # 0 THEN 1 ELSE 0
              /\ h.count + h.failures + sockets[i] = started
              /\ MapThenSumSet(LAMBDA b : h.bucket[b], DOMAIN h.bucket) <= h.count
=============================================================================
