------------------------------- MODULE Replay -------------------------------
(***************************************************************************)
(* The cache that refuses a ClientHello sent again (client_randoms of      *)
(* net-tcp-rpc-ext-server.c): a list by time and chains by hash, both of   *)
(* the same entries; old entries leave both.  A hello is its random        *)
(* number, which holds its time stamp.                                     *)
(***************************************************************************)
EXTENDS Integers, Sequences, FiniteSets, SequencesExt, FiniteSetsExt

CONSTANTS
  Randoms,           \* random numbers of hellos
  Buckets,           \* hash chains
  Bucket,            \* get_client_random_bucket of each random number
  Timestamps,        \* time stamps in random numbers
  MAX_CLIENT_RANDOM_CACHE_TIME,   \* at least the sum of the next two
  MAX_ALLOWED_TIMESTAMP_ERROR,
  MAX_SKEW,          \* the 3 seconds a time stamp may be ahead
  MaxTime            \* bound: the last moment

VARIABLES
  now,
  timestamp,         \* the time stamp in each random number
  by_time,           \* the list from first_client_random to last_client_random
  client_randoms,    \* the chains
  accepted           \* how many times each hello was answered

vars == <<now, timestamp, by_time, client_randoms, accepted>>

Init == /\ now = 0 /\ by_time = <<>> /\ client_randoms = [b \in Buckets |-> <<>>]
        /\ timestamp \in [Randoms -> Timestamps]
        /\ accepted = [r \in Randoms |-> 0]

have_client_random(r) == r \in Range(client_randoms[Bucket[r]])

\* An entry put at the end of its chain.
MutantAdd(l, c, r) == [by_time |-> Append(l, [random |-> r, time |-> now]),
                       chains |-> [c EXCEPT ![Bucket[r]] = Append(@, r)]]

\* add_client_random: the end of the list and the head of the chain.
add_client_random(l, c, r) == [by_time |-> Append(l, [random |-> r, time |-> now]),
                               chains |-> [c EXCEPT ![Bucket[r]] = <<r>> \o @]]

\* delete_old_client_randoms keeps the last entry whatever its age, and cuts the
\* chain where it finds the entry.
Kept(l) == Min({i \in DOMAIN l : i = Len(l) \/ l[i].time > now - MAX_CLIENT_RANDOM_CACHE_TIME})
CutAt(c, r) ==
  [c EXCEPT ![Bucket[r]] = SubSeq(@, 1, SelectInSeq(@, LAMBDA x : x = r) - 1)]
delete_old_client_randoms(a) ==
  LET k == Kept(a.by_time) IN
  [by_time |-> SubSeq(a.by_time, k, Len(a.by_time)),
   chains |-> FoldLeft(LAMBDA c, e : CutAt(c, e.random), a.chains, SubSeq(a.by_time, 1, k - 1))]

\* is_allowed_timestamp.
is_allowed_timestamp(t, l) ==
  /\ t <= now + MAX_SKEW
  /\ (l # <<>> /\ t > Head(l).time + MAX_SKEW) \/ t > now - MAX_ALLOWED_TIMESTAMP_ERROR

\* A ClientHello for a known name: the random number is kept before the secret
\* it was made with is looked for; a hello of the right secret and time may
\* still be refused.
ClientHello(r) ==
  /\ \/ have_client_random(r) /\ UNCHANGED <<by_time, client_randoms, accepted>>
     \/ /\ ~have_client_random(r)
        /\ LET a == delete_old_client_randoms(add_client_random(by_time, client_randoms, r)) IN
           /\ by_time' = a.by_time /\ client_randoms' = a.chains
           /\ \/ UNCHANGED accepted
              \/ /\ is_allowed_timestamp(timestamp[r], a.by_time)
                 /\ accepted' = [accepted EXCEPT ![r] = @ + 1]
  /\ UNCHANGED <<now, timestamp>>

Tick == /\ now < MaxTime /\ now' = now + 1
        /\ UNCHANGED <<timestamp, by_time, client_randoms, accepted>>

Next == Tick \/ \E r \in Randoms : ClientHello(r)

Spec == Init /\ [][Next]_vars

-----------------------------------------------------------------------------
TypeOK == /\ now \in 0..MaxTime /\ DOMAIN client_randoms = Buckets
          /\ \A i \in DOMAIN by_time : by_time[i].random \in Randoms /\ by_time[i].time \in 0..MaxTime

\* No hello is answered twice, although entries are forgotten: an entry that
\* was dropped is too old for is_allowed_timestamp, by the time of the first
\* entry that is left as well as by the clock.  The list and the chains hold the
\* same entries, and the oldest entry is the last of its chain (the assertion of
\* delete_old_client_randoms).
NoReplay ==
  /\ \A r \in Randoms : accepted[r] <= 1
  /\ \A r \in Randoms : have_client_random(r) <=> \E i \in DOMAIN by_time : by_time[i].random = r
  /\ by_time # <<>> => LET r == Head(by_time).random IN Last(client_randoms[Bucket[r]]) = r
=============================================================================
