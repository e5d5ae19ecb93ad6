--------------------------- MODULE SecretsProofs ----------------------------
(***************************************************************************)
(* SecretsInv is an invariant of Secrets, for any number of connections,   *)
(* slots, keys, addresses and configurations: first the slots that loops   *)
(* find and the first state, then the steps of a connection, the reload    *)
(* and the timer.                                                          *)
(***************************************************************************)
EXTENDS Secrets, TLAPS, FiniteSetTheorems, WellFoundedInduction

\* Zenon proves what names no other prover.
USE Zenon

-----------------------------------------------------------------------------
(***************************************************************************)
(* The lowest and the highest member of a set.                             *)
(***************************************************************************)
\* A loop that stops at the first slot that matches finds one, if there is one.
LEMMA LowestIn ==
    ASSUME NEW S \in SUBSET Nat, S # {}
    PROVE  Lowest(S) \in S
<1>1. PICK m \in S : \A y \in S : ~ (<<y, m>> \in OpToRel(<, Nat))
    BY NatLessThanWellFounded, WFMin
<1>2. \A y \in S : ~ (y < m)
    BY <1>1 DEF OpToRel
<1>3. \A y \in S : m <= y
    BY SMT, <1>2
<1> QED
    BY <1>3 DEF Lowest

\* The same for the last one of finitely many.
LEMMA HighestIn ==
    ASSUME NEW n \in Nat, NEW S \in SUBSET (0 .. n), S # {}
    PROVE  Highest(S) \in S
<1> DEFINE T == {n - x : x \in S}
<1>0. \A x \in S : x \in Nat /\ x <= n /\ n - x \in Nat
    BY SMT
<1>1. T \in SUBSET Nat /\ T # {}
    BY <1>0
<1>2. PICK m \in T : \A y \in T : ~ (<<y, m>> \in OpToRel(<, Nat))
    BY <1>1, NatLessThanWellFounded, WFMin
<1> HIDE DEF T
<1>3. \A y \in T : m <= y
    <2> TAKE y \in T
    <2>1. y \in Nat /\ m \in Nat
        BY <1>1
    <2>2. ~ (y < m)
        BY <1>2, <2>1 DEF OpToRel
    <2> QED
        BY SMT, <2>1, <2>2
<1>4. PICK x \in S : m = n - x
    BY DEF T
<1>5. \A y \in S : y <= x
    <2> TAKE y \in S
    <2>1. n - x <= n - y
        BY <1>3, <1>4 DEF T
    <2> QED
        BY SMT, <1>0, <2>1
<1> QED
    BY <1>5 DEF Highest

-----------------------------------------------------------------------------
(***************************************************************************)
(* The open connections of a slot.                                         *)
(***************************************************************************)
\* The connections that carry a slot's number are finitely many.
LEMMA OpenFinite ==
    ASSUME NEW s, NEW i
    PROVE  /\ IsFiniteSet(Open(s)) /\ Cardinality(Open(s)) \in Nat
           /\ IsFiniteSet(OpenFrom(s, i)) /\ Cardinality(OpenFrom(s, i)) \in Nat
<1>1. Open(s) \in SUBSET Conns /\ OpenFrom(s, i) \in SUBSET Conns
    BY DEF Open, OpenFrom
<1>2. IsFiniteSet(Conns)
    BY SecretsAssumption
<1>3. IsFiniteSet(Open(s)) /\ IsFiniteSet(OpenFrom(s, i))
    BY <1>1, <1>2, FS_Subset
<1> QED
    BY <1>3, FS_CardinalityType

\* The addresses in a slot's table.
Known(t, s) == {i \in IPs : t[s][i] > 0}

\* A slot's address table is finite.
LEMMA KnownFinite ==
    ASSUME NEW t, NEW s
    PROVE  IsFiniteSet(Known(t, s)) /\ Cardinality(Known(t, s)) \in Nat
<1>1. Known(t, s) \in SUBSET IPs
    BY DEF Known
<1>2. IsFiniteSet(IPs)
    BY SecretsAssumption
<1>3. IsFiniteSet(Known(t, s))
    BY <1>1, <1>2, FS_Subset
<1> QED
    BY <1>3, FS_CardinalityType

-----------------------------------------------------------------------------
(***************************************************************************)
(* Types.                                                                  *)
(***************************************************************************)
\* What the assumption says of each constant.
LEMMA Constants ==
    /\ MaxSlots \in Nat /\ MaxRetries \in Nat /\ Pinned \in Nat /\ Pinned <= MaxSlots
    /\ \A p \in 1 .. Pinned : PinnedEntries[p] \in Entries
    /\ \A conf \in Configs : Len(conf) \in Nat /\ \A i \in 1 .. Len(conf) : conf[i] \in Entries
    /\ Modes \subseteq BOOLEAN
<1>1. PinnedEntries \in Seq(Entries) /\ Configs \subseteq Seq(Entries)
    BY SecretsAssumption
<1>2. /\ MaxSlots \in Nat /\ MaxRetries \in Nat /\ MaxActive \in Nat
      /\ Pinned <= MaxActive /\ MaxActive <= MaxSlots /\ Modes \subseteq BOOLEAN
    BY SecretsAssumption
<1>3. Pinned \in Nat /\ \A p \in 1 .. Pinned : PinnedEntries[p] \in Entries
    BY SMT, <1>1 DEF Pinned
<1>4. \A conf \in Configs : Len(conf) \in Nat /\ \A i \in 1 .. Len(conf) : conf[i] \in Entries
    BY SMT, <1>1
<1> QED
    BY SMT, <1>2, <1>3, <1>4

\* The part of it that is about numbers.
LEMMA Sizes ==
    MaxSlots \in Nat /\ MaxRetries \in Nat /\ Pinned \in Nat /\ Pinned <= MaxSlots
BY Constants

\* the slot that a handshake is matched with is in use and has the key
LEMMA Matched ==
    ASSUME TypeOK, NEW k, Matching(k) # {}
    PROVE  /\ Lowest(Matching(k)) \in Slots
           /\ state[Lowest(Matching(k))] # "FREE"
           /\ entry[Lowest(Matching(k))].key = k
<1>1. Matching(k) \in SUBSET Nat
    BY SMT, Constants DEF Matching, TypeOK
<1>2. Lowest(Matching(k)) \in Matching(k)
    BY <1>1, LowestIn
<1>3. cnt \in Int /\ cnt <= MaxSlots
    BY SMT, Constants DEF TypeOK
<1> QED
    BY SMT, <1>2, <1>3, Constants DEF Matching, Slots

\* The recomputed ext_secret_cnt covers the pinned slots and no more than all.
LEMMA HighWaterType ==
    ASSUME NEW st
    PROVE  HighWater(st) \in Pinned .. MaxSlots
<1> DEFINE U == {Pinned} \cup {s \in Unpinned : st[s] # "FREE"}
<1>0. \A s \in U : s \in Int /\ Pinned <= s /\ s <= MaxSlots
    BY SMT, Constants DEF Unpinned
<1>1. U # {} /\ HighWater(st) = Highest(U)
    BY DEF HighWater
<1> HIDE DEF U
<1>2. U \in SUBSET (0 .. MaxSlots) /\ U \in SUBSET (Pinned .. MaxSlots)
    BY SMT, <1>0, Constants
<1>3. Highest(U) \in U
    BY <1>1, <1>2, HighestIn, Constants
<1> QED
    BY <1>1, <1>2, <1>3

\* the entry that a slot is refreshed or filled from
LEMMA SourceIn ==
    ASSUME NEW conf \in Configs, NEW s, Sources(conf, s) # {}
    PROVE  /\ Highest(Sources(conf, s)) \in Sources(conf, s)
           /\ Highest(Sources(conf, s)) \in 1 .. Len(conf)
           /\ conf[Highest(Sources(conf, s))] \in Entries
<1>1. Sources(conf, s) \subseteq 1 .. Len(conf)
    BY DEF Sources, Taking, New, Refreshing
<1>2. Sources(conf, s) \in SUBSET (0 .. Len(conf))
    BY SMT, <1>1, Constants
<1>3. Highest(Sources(conf, s)) \in Sources(conf, s)
    BY <1>2, HighestIn, Constants
<1> QED
    BY <1>1, <1>3, Constants

-----------------------------------------------------------------------------
\* The invariant holds after start, with the -S secrets in their slots.
LEMMA InitInv ==
    ASSUME Init
    PROVE  SecretsInv
<1>1. \A s : Open(s) = {} /\ \A i : OpenFrom(s, i) = {}
    BY DEF Init, Open, OpenFrom, Counted
<1>2. \A s \in Slots : {i \in IPs : tracked[s][i] > 0} = {}
    BY SMT DEF Init
<1>3. Cardinality({}) = 0
    BY FS_EmptySet
<1>4. TypeOK
    <2>1. direct_mode \in BOOLEAN /\ remote_ip \in [Conns -> IPs]
        BY Constants DEF Init
    <2>2. state \in [Slots -> {"FREE", "ACTIVE", "DRAINING"}]
        BY DEF Init
    <2>3. entry \in [Slots -> Entries \cup {NoEntry}]
        BY SMT, Constants DEF Init, Slots
    <2>4. cnt \in Pinned .. MaxSlots
        BY SMT, Constants DEF Init
    <2>5. /\ connections \in [Slots -> Nat] /\ bytes \in [Slots -> Nat] /\ active \in Nat
          /\ tracked \in [Slots -> [IPs -> Nat]] /\ unique_ips \in [Slots -> Nat]
        BY DEF Init
    <2>6. stage \in [Conns -> Stages] /\ key \in [Conns -> Keys \cup {"zero"}] /\ failed = {}
        BY DEF Init, Stages
    <2>7. extra_int2 \in [Conns -> 0 .. MaxSlots] /\ attempt \in [Conns -> 0 .. MaxRetries]
        BY SMT, Constants DEF Init
    <2> QED
        BY <2>1, <2>2, <2>3, <2>4, <2>5, <2>6, <2>7 DEF TypeOK
<1>5. KeyStable /\ DirectStages
    BY DEF Init, KeyStable, DirectStages, Counted
<1>6. CountCovers
    <2> SUFFICES ASSUME NEW s \in Slots
                 PROVE  connections[s] = 0 /\ Cardinality(Open(s)) = 0
        BY SMT DEF CountCovers
    <2> QED
        BY <1>1, <1>3 DEF Init
<1>7. IpsCovered
    <2> SUFFICES ASSUME NEW s \in Slots
                 PROVE  /\ unique_ips[s] = 0 /\ Cardinality({i \in IPs : tracked[s][i] > 0}) = 0
                        /\ \A i \in IPs : tracked[s][i] = 0 /\ Cardinality(OpenFrom(s, i)) = 0
        BY SMT DEF IpsCovered
    <2> QED
        BY <1>1, <1>2, <1>3 DEF Init
<1> QED
    BY <1>4, <1>5, <1>6, <1>7 DEF SecretsInv

-----------------------------------------------------------------------------
(***************************************************************************)
(* Steps that count nothing: the slots keep their keys and counters, and   *)
(* the counted connections stay where they are.                            *)
(***************************************************************************)
\* Such a step keeps the invariant.
LEMMA QuietStep ==
    ASSUME SecretsInv, TypeOK', DirectStages',
           UNCHANGED <<fixed, state, entry, countVars>>,
           \A c \in Conns :
              /\ stage'[c] \in Counted <=> stage[c] \in Counted
              /\ stage[c] \in Counted => extra_int2'[c] = extra_int2[c] /\ key'[c] = key[c]
    PROVE  SecretsInv'
<1>1. \A s : Open(s)' = Open(s) /\ \A i : OpenFrom(s, i)' = OpenFrom(s, i)
    BY DEF Open, OpenFrom, fixed
<1>2. KeyStable'
    BY DEF SecretsInv, KeyStable
<1>3. CountCovers'
    BY <1>1 DEF SecretsInv, CountCovers, fixed, countVars
<1>4. IpsCovered'
    BY <1>1 DEF SecretsInv, IpsCovered, fixed, countVars
<1> QED
    BY <1>2, <1>3, <1>4 DEF SecretsInv

\* A handshake that ends early keeps the invariant.
LEMMA LeaveInv ==
    ASSUME SecretsInv, NEW c \in Conns, Leave(c)
    PROVE  SecretsInv'
<1>1. TypeOK'
    BY DEF SecretsInv, TypeOK, Leave, fixed, slotVars, countVars, Stages, Counted
<1>2. DirectStages'
    BY DEF SecretsInv, TypeOK, DirectStages, Leave, fixed
<1>3. \A d \in Conns :
        /\ stage'[d] \in Counted <=> stage[d] \in Counted
        /\ stage[d] \in Counted => extra_int2'[d] = extra_int2[d] /\ key'[d] = key[d]
    BY DEF SecretsInv, TypeOK, Leave, Counted
<1> QED
    BY <1>1, <1>2, <1>3, QuietStep DEF Leave, slotVars

\* The ServerHello keeps it: nothing is counted yet.
LEMMA TlsHelloInv ==
    ASSUME SecretsInv, NEW c \in Conns, NEW k \in Keys, TlsHello(c, k)
    PROVE  SecretsInv'
<1>1. TypeOK'
    BY DEF SecretsInv, TypeOK, TlsHello, fixed, slotVars, countVars, Stages, Counted
<1>2. DirectStages'
    BY DEF SecretsInv, TypeOK, DirectStages, TlsHello, fixed
<1>3. \A d \in Conns :
        /\ stage'[d] \in Counted <=> stage[d] \in Counted
        /\ stage[d] \in Counted => extra_int2'[d] = extra_int2[d] /\ key'[d] = key[d]
    BY DEF SecretsInv, TypeOK, TlsHello, Counted
<1> QED
    BY <1>1, <1>2, <1>3, QuietStep DEF TlsHello, slotVars

\* A retry of direct_retry_dc_connection keeps it, whatever its outcome.
LEMMA RetryAlarmInv ==
    ASSUME SecretsInv, NEW c \in Conns, RetryAlarm(c)
    PROVE  SecretsInv'
<1>1. TypeOK'
    <2>0. attempt \in [Conns -> 0 .. MaxRetries] /\ active \in Nat
        BY DEF SecretsInv, TypeOK
    <2>1. attempt' \in [Conns -> 0 .. MaxRetries] /\ active' \in Nat
        BY SMT, <2>0, Sizes DEF RetryAlarm
    <2>2. /\ stage' \in [Conns -> Stages]
          /\ failed' \subseteq {d \in Conns : stage'[d] \in Counted}
        BY DEF SecretsInv, TypeOK, RetryAlarm, Stages, Counted
    <2> QED
        BY <2>1, <2>2 DEF SecretsInv, TypeOK, RetryAlarm, fixed, slotVars, countVars
<1>2. DirectStages'
    BY DEF SecretsInv, TypeOK, DirectStages, RetryAlarm, fixed
<1>3. \A d \in Conns :
        /\ stage'[d] \in Counted <=> stage[d] \in Counted
        /\ stage[d] \in Counted => extra_int2'[d] = extra_int2[d] /\ key'[d] = key[d]
    BY DEF SecretsInv, TypeOK, RetryAlarm, Counted
<1> QED
    BY <1>1, <1>2, <1>3, QuietStep DEF RetryAlarm, slotVars

\* The loss of a DC connection keeps it: the client stays counted.
LEMMA DcLostInv ==
    ASSUME SecretsInv, NEW c \in Conns, DcLost(c)
    PROVE  SecretsInv'
<1>1. TypeOK'
    BY SMT, Constants DEF SecretsInv, TypeOK, DcLost, fixed, slotVars, countVars, Stages, Counted
<1>2. DirectStages'
    BY DEF SecretsInv, TypeOK, DirectStages, DcLost, fixed
<1>3. \A d \in Conns :
        /\ stage'[d] \in Counted <=> stage[d] \in Counted
        /\ stage[d] \in Counted => extra_int2'[d] = extra_int2[d] /\ key'[d] = key[d]
    BY DEF SecretsInv, TypeOK, DcLost, Counted
<1> QED
    BY <1>1, <1>2, <1>3, QuietStep DEF DcLost, slotVars

\* Relaying keeps it: it changes the bytes only.
LEMMA RelayInv ==
    ASSUME SecretsInv, NEW c \in Conns, Relay(c)
    PROVE  SecretsInv'
<1>0. extra_int2[c] \in Slots
    BY DEF SecretsInv, KeyStable, Relay, Counted, Slots
<1>1. TypeOK'
    BY SMT, <1>0 DEF SecretsInv, TypeOK, Relay, fixed, countVars, Counted
<1>2. DirectStages'
    BY DEF SecretsInv, DirectStages, Relay, fixed
<1> QED
    BY <1>1, <1>2, QuietStep DEF Relay

\* fail_connection keeps it: the close handler discounts, later.
LEMMA FailInv ==
    ASSUME SecretsInv, NEW c \in Conns, Fail(c)
    PROVE  SecretsInv'
<1>1. TypeOK'
    BY DEF SecretsInv, TypeOK, Fail, fixed, slotVars, countVars
<1>2. DirectStages'
    BY DEF SecretsInv, DirectStages, Fail, fixed
<1> QED
    BY <1>1, <1>2, QuietStep DEF Fail, slotVars

-----------------------------------------------------------------------------
(***************************************************************************)
(* A connection is counted.                                                *)
(***************************************************************************)
\* The slot found has the client's key; its counter and its address table grow
\* by the connection that now carries its number.
LEMMA ObfsHeaderInv ==
    ASSUME SecretsInv, NEW c \in Conns, NEW k \in Keys, ObfsHeader(c, k)
    PROVE  SecretsInv'
<1>0. remote_ip[c] \in IPs
    BY DEF SecretsInv, TypeOK
<1>1. /\ Lowest(Matching(k)) \in Slots
      /\ state[Lowest(Matching(k))] # "FREE" /\ entry[Lowest(Matching(k))].key = k
    BY Matched DEF SecretsInv, ObfsHeader
<1>s. PICK s \in Slots : s = Lowest(Matching(k))
    BY <1>1
<1>a. PICK a \in IPs : a = remote_ip[c]
    BY <1>0
<1>2. /\ connections' = [connections EXCEPT ![s] = @ + 1]
      /\ extra_int2' = [extra_int2 EXCEPT ![c] = s]
      /\ key' = [key EXCEPT ![c] = k]
      /\ ip_track_connect(s, a)
      /\ UNCHANGED <<fixed, slotVars>>
      /\ stage[c] \notin Counted
      /\ state[s] # "FREE" /\ entry[s].key = k
    BY <1>1, <1>s, <1>a DEF ObfsHeader, Counted
<1>3. /\ stage' \in [Conns -> Stages] /\ stage'[c] \in Counted
      /\ stage'[c] \in {"linked", "retry"} => direct_mode
      /\ \A d \in Conns : d # c => stage'[d] = stage[d]
      /\ failed' \subseteq failed \cup {c}
    BY DEF ObfsHeader, DirectConnect, SecretsInv, TypeOK, Stages, Counted
<1>4. active' \in Nat /\ attempt' \in [Conns -> 0 .. MaxRetries]
    <2>1. attempt \in [Conns -> 0 .. MaxRetries] /\ active \in Nat
        BY DEF SecretsInv, TypeOK
    <2> QED
        BY SMT, <2>1, Sizes DEF ObfsHeader, DirectConnect
<1>5. direct_mode' = direct_mode /\ remote_ip' = remote_ip
    BY <1>2 DEF SecretsInv, TypeOK, fixed
<1>6. /\ tracked' \in [Slots -> [IPs -> Nat]]
      /\ unique_ips' \in [Slots -> Nat]
      /\ \A t \in Slots : \A i \in IPs :
            \/ tracked'[t][i] = tracked[t][i]
            \/ t = s /\ i = a /\ tracked'[t][i] = tracked[t][i] + 1
    <2>1. tracked \in [Slots -> [IPs -> Nat]] /\ unique_ips \in [Slots -> Nat]
        BY DEF SecretsInv, TypeOK
    <2>2. CASE UNCHANGED <<tracked, unique_ips>>
        BY <2>1, <2>2
    <2>3. CASE /\ tracked' = [tracked EXCEPT ![s][a] = @ + 1]
               /\ unique_ips' = [unique_ips EXCEPT ![s] = IF tracked[s][a] = 0 THEN @ + 1 ELSE @]
        <3>1. tracked[s] \in [IPs -> Nat] /\ unique_ips[s] \in Nat
            BY <2>1
        <3>2. tracked' = [tracked EXCEPT ![s] = [tracked[s] EXCEPT ![a] = tracked[s][a] + 1]]
            BY <2>1, <2>3
        <3>3. [tracked[s] EXCEPT ![a] = tracked[s][a] + 1] \in [IPs -> Nat]
            BY SMT, <3>1
        <3>4. tracked' \in [Slots -> [IPs -> Nat]]
            BY <2>1, <3>2, <3>3
        <3>5. unique_ips' \in [Slots -> Nat]
            BY SMT, <2>1, <2>3
        <3>6. \A t \in Slots : \A i \in IPs :
                 \/ tracked'[t][i] = tracked[t][i]
                 \/ t = s /\ i = a /\ tracked'[t][i] = tracked[t][i] + 1
            BY <2>1, <3>1, <3>2
        <3> QED
            BY <3>4, <3>5, <3>6
    <2> QED
        BY <2>2, <2>3, <1>2 DEF ip_track_connect
<1>7. TypeOK'
    <2>0. connections \in [Slots -> Nat] /\ extra_int2 \in [Conns -> 0 .. MaxSlots]
        BY DEF SecretsInv, TypeOK
    <2>1. connections' \in [Slots -> Nat] /\ extra_int2' \in [Conns -> 0 .. MaxSlots]
        BY SMT, <2>0, <1>2, Sizes DEF Slots
    <2>2. failed' \subseteq {d \in Conns : stage'[d] \in Counted}
        BY <1>3 DEF SecretsInv, TypeOK
    <2>3. key' \in [Conns -> Keys \cup {"zero"}]
        BY <1>2 DEF SecretsInv, TypeOK
    <2> QED
        BY <2>1, <2>2, <2>3, <1>2, <1>3, <1>4, <1>6 DEF SecretsInv, TypeOK, fixed, slotVars
<1>8. KeyStable'
    <2> SUFFICES ASSUME NEW d \in Conns, stage'[d] \in Counted
                 PROVE  /\ extra_int2'[d] \in 1 .. MaxSlots
                        /\ state[extra_int2'[d]] # "FREE"
                        /\ entry[extra_int2'[d]].key = key'[d]
        BY <1>2 DEF KeyStable, slotVars
    <2>1. CASE d = c
        BY <2>1, <1>2 DEF SecretsInv, TypeOK, Slots
    <2>2. CASE d # c
        BY <2>2, <1>2, <1>3 DEF SecretsInv, TypeOK, KeyStable
    <2> QED
        BY <2>1, <2>2
<1>9. DirectStages'
    BY <1>3, <1>5 DEF SecretsInv, DirectStages
<1>10. /\ Open(s)' = Open(s) \cup {c} /\ c \notin Open(s)
       /\ \A t \in Slots : t # s => Open(t)' = Open(t)
    BY <1>2, <1>3 DEF Open, SecretsInv, TypeOK
<1>11. /\ OpenFrom(s, a)' = OpenFrom(s, a) \cup {c} /\ c \notin OpenFrom(s, a)
       /\ \A t \in Slots, i \in IPs : t # s \/ i # a => OpenFrom(t, i)' = OpenFrom(t, i)
    BY SMT, <1>10, <1>5, <1>a DEF OpenFrom
<1>12. CountCovers'
    <2>1. Cardinality(Open(s)') = Cardinality(Open(s)) + 1
        BY <1>10, OpenFinite, FS_AddElement
    <2> SUFFICES ASSUME NEW t \in Slots
                 PROVE  /\ connections'[t] >= Cardinality(Open(t)')
                        /\ ~direct_mode => connections'[t] = Cardinality(Open(t)')
        BY <1>5 DEF CountCovers
    <2>2. CASE t = s
        <3>1. /\ connections[s] \in Nat /\ connections[s] >= Cardinality(Open(s))
              /\ ~direct_mode => connections[s] = Cardinality(Open(s))
            BY DEF SecretsInv, TypeOK, CountCovers
        <3>2. connections'[s] = connections[s] + 1
            BY <1>2 DEF SecretsInv, TypeOK
        <3>3. Cardinality(Open(s)) \in Nat
            BY OpenFinite
        <3> QED
            BY SMT, <2>1, <2>2, <3>1, <3>2, <3>3
    <2>3. CASE t # s
        BY <2>3, <1>2, <1>10 DEF SecretsInv, TypeOK, CountCovers
    <2> QED
        BY <2>2, <2>3
<1>13. \A t \in Slots : unique_ips'[t] = Cardinality(Known(tracked', t))
    <2> SUFFICES ASSUME NEW t \in Slots
                 PROVE  unique_ips'[t] = Cardinality(Known(tracked', t))
        OBVIOUS
    <2>0. tracked \in [Slots -> [IPs -> Nat]] /\ unique_ips \in [Slots -> Nat]
        BY DEF SecretsInv, TypeOK
    <2>1. unique_ips[t] = Cardinality(Known(tracked, t))
        BY DEF SecretsInv, IpsCovered, Known
    <2>2. CASE unique_ips'[t] = unique_ips[t] /\ Known(tracked', t) = Known(tracked, t)
        BY <2>1, <2>2
    <2>3. CASE /\ unique_ips'[t] = unique_ips[t] + 1
               /\ Known(tracked', t) = Known(tracked, t) \cup {a}
               /\ a \notin Known(tracked, t)
        BY <2>1, <2>3, KnownFinite, FS_AddElement
    <2>4. CASE t # s
        BY <2>0, <2>2, <2>4, <1>2 DEF ip_track_connect, Known
    <2>5. CASE t = s /\ tracked[s][a] = 0
        BY SMT, <2>0, <2>2, <2>3, <2>5, <1>2 DEF ip_track_connect, Known
    <2>6. CASE t = s /\ tracked[s][a] # 0
        BY SMT, <2>0, <2>2, <2>6, <1>2 DEF ip_track_connect, Known
    <2> QED
        BY <2>4, <2>5, <2>6
<1>14. ASSUME ~direct_mode, NEW t \in Slots, NEW i \in IPs
       PROVE  tracked'[t][i] <= Cardinality(OpenFrom(t, i)')
    <2>1. Cardinality(OpenFrom(s, a)') = Cardinality(OpenFrom(s, a)) + 1
        BY <1>11, OpenFinite, FS_AddElement
    <2>2. tracked[t][i] <= Cardinality(OpenFrom(t, i)) /\ tracked[t][i] \in Nat
        BY <1>14 DEF SecretsInv, IpsCovered, TypeOK
    <2>3. CASE t = s /\ i = a
        BY SMT, <2>1, <2>2, <2>3, <1>6, OpenFinite
    <2>4. CASE ~(t = s /\ i = a)
        BY <2>2, <2>4, <1>6, <1>11
    <2> QED
        BY <2>3, <2>4
<1>15. IpsCovered'
    BY <1>13, <1>14, <1>5 DEF IpsCovered, Known
<1> QED
    BY <1>7, <1>8, <1>9, <1>12, <1>15 DEF SecretsInv

-----------------------------------------------------------------------------
(***************************************************************************)
(* A connection closes.                                                    *)
(***************************************************************************)
\* What a discount does to a counter that covers an open connection, and to
\* the address table.
LEMMA Discounted ==
    ASSUME SecretsInv, NEW c \in Conns, stage[c] \in Counted, Discount(c),
           NEW s \in Slots, s = extra_int2[c], NEW a \in IPs, a = remote_ip[c]
    PROVE  /\ connections' \in [Slots -> Nat]
           /\ connections'[s] = connections[s] - 1
           /\ \A t \in Slots : t # s => connections'[t] = connections[t]
           /\ tracked' \in [Slots -> [IPs -> Nat]]
           /\ \A t \in Slots : \A i \in IPs :
                 IF t = s /\ i = a /\ tracked[t][i] > 0
                 THEN tracked'[t][i] = tracked[t][i] - 1
                 ELSE tracked'[t][i] = tracked[t][i]
           /\ unique_ips' \in [Slots -> Nat]
           /\ \A t \in Slots : unique_ips'[t] = Cardinality(Known(tracked', t))
<1>1. /\ connections \in [Slots -> Nat] /\ tracked \in [Slots -> [IPs -> Nat]]
      /\ unique_ips \in [Slots -> Nat]
    BY DEF SecretsInv, TypeOK
<1>2. connections' = [connections EXCEPT ![s] = @ - 1] /\ ip_track_disconnect(s, a)
    BY DEF Discount
<1>3. connections[s] - 1 \in Nat
    <2>1. c \in Open(s)
        BY DEF Open
    <2>2. Cardinality(Open(s)) \in Nat /\ Cardinality(Open(s)) # 0
        BY <2>1, OpenFinite, FS_EmptySet
    <2>3. connections[s] >= Cardinality(Open(s)) /\ connections[s] \in Nat
        BY <1>1 DEF SecretsInv, CountCovers
    <2> QED
        BY SMT, <2>2, <2>3
<1>4. /\ connections' \in [Slots -> Nat] /\ connections'[s] = connections[s] - 1
      /\ \A t \in Slots : t # s => connections'[t] = connections[t]
    BY <1>1, <1>2, <1>3
<1>5. \A t \in Slots : unique_ips[t] = Cardinality(Known(tracked, t))
    BY DEF SecretsInv, IpsCovered, Known
<1>6. CASE tracked[s][a] = 0
    <2>1. tracked' = tracked /\ unique_ips' = unique_ips
        BY SMT, <1>2, <1>6 DEF ip_track_disconnect
    <2> QED
        BY SMT, <2>1, <1>1, <1>4, <1>5, <1>6
<1>7. CASE tracked[s][a] # 0
    <2>1. tracked[s] \in [IPs -> Nat] /\ tracked[s][a] \in Nat /\ tracked[s][a] > 0
        BY SMT, <1>1, <1>7
    <2>2. /\ tracked' = [tracked EXCEPT ![s] = [tracked[s] EXCEPT ![a] = tracked[s][a] - 1]]
          /\ unique_ips' = [unique_ips EXCEPT ![s] = IF tracked[s][a] = 1 THEN @ - 1 ELSE @]
        BY <1>1, <1>2, <2>1 DEF ip_track_disconnect
    <2>3. [tracked[s] EXCEPT ![a] = tracked[s][a] - 1] \in [IPs -> Nat]
        BY SMT, <2>1
    <2>4. tracked' \in [Slots -> [IPs -> Nat]]
        BY <1>1, <2>2, <2>3
    <2>5. \A t \in Slots : \A i \in IPs :
            IF t = s /\ i = a THEN tracked'[t][i] = tracked[t][i] - 1
                              ELSE tracked'[t][i] = tracked[t][i]
        BY <1>1, <2>1, <2>2
    <2>6. \A t \in Slots : t # s => unique_ips'[t] = unique_ips[t] /\ Known(tracked', t) = Known(tracked, t)
        BY <1>1, <2>2, <2>5 DEF Known
    <2>7. unique_ips'[s] \in Nat /\ unique_ips'[s] = Cardinality(Known(tracked', s))
        <3>1. CASE tracked[s][a] = 1
            <4>1. Known(tracked', s) = Known(tracked, s) \ {a} /\ a \in Known(tracked, s)
                BY SMT, <3>1, <2>1, <2>5 DEF Known
            <4>2. Cardinality(Known(tracked', s)) = Cardinality(Known(tracked, s)) - 1
                BY ZenonT(60), <4>1, KnownFinite, FS_RemoveElement
            <4>3. unique_ips'[s] = unique_ips[s] - 1
                BY <1>1, <2>2, <3>1
            <4> QED
                BY SMT, <4>2, <4>3, <1>5, KnownFinite
        <3>2. CASE tracked[s][a] # 1
            <4>1. Known(tracked', s) = Known(tracked, s)
                BY SMT, <3>2, <2>1, <2>5 DEF Known
            <4>2. unique_ips'[s] = unique_ips[s]
                BY <1>1, <2>2, <3>2
            <4> QED
                BY <4>1, <4>2, <1>1, <1>5
        <3> QED
            BY <3>1, <3>2
    <2>8. unique_ips' \in [Slots -> Nat]
        BY <1>1, <2>2, <2>7
    <2>9. \A t \in Slots : unique_ips'[t] = Cardinality(Known(tracked', t))
        BY <1>5, <2>6, <2>7
    <2> QED
        BY SMT, <1>4, <2>1, <2>4, <2>5, <2>8, <2>9
<1> QED
    BY <1>6, <1>7

\* A connection that closes leaves the connections of its slot, and no other
\* slot's.
LEMMA ClosedOne ==
    ASSUME NEW c \in Conns, NEW s \in Slots, s = extra_int2[c], stage[c] \in Counted, stage'[c] \notin Counted,
           \A d \in Conns : d # c => stage'[d] = stage[d] /\ extra_int2'[d] = extra_int2[d]
    PROVE  /\ Open(s)' = Open(s) \ {c} /\ c \in Open(s)
           /\ \A t \in Slots : t # s => Open(t)' = Open(t)
BY DEF Open

\* The close handlers of both modes keep the invariant.
LEMMA CloseInv ==
    ASSUME SecretsInv, NEW c \in Conns, Close(c)
    PROVE  SecretsInv'
<1>0. stage[c] \in Counted
    BY DEF Close, SecretsInv, TypeOK
<1>s. PICK s \in Slots : s = extra_int2[c]
    BY <1>0 DEF SecretsInv, KeyStable, Slots
<1>a. PICK a \in IPs : a = remote_ip[c]
    BY DEF SecretsInv, TypeOK
<1>1. /\ stage' = [stage EXCEPT ![c] = "new"]
      /\ key' = [key EXCEPT ![c] = "zero"]
      /\ extra_int2' = [extra_int2 EXCEPT ![c] = 0]
      /\ attempt' = [attempt EXCEPT ![c] = 0]
      /\ failed' = failed \ {c}
      /\ UNCHANGED <<fixed, slotVars>>
    BY DEF Close
<1>2. direct_mode' = direct_mode /\ remote_ip' = remote_ip
    BY <1>1 DEF fixed
<1>3. stage'[c] \notin Counted /\ \A d \in Conns : d # c => stage'[d] = stage[d] /\ extra_int2'[d] = extra_int2[d] /\ key'[d] = key[d]
    BY <1>1 DEF SecretsInv, TypeOK, Counted
<1>4. /\ Open(s)' = Open(s) \ {c} /\ c \in Open(s)
      /\ \A t \in Slots : t # s => Open(t)' = Open(t)
    BY <1>0, <1>3, <1>s, ClosedOne
<1>5. /\ OpenFrom(s, a)' = OpenFrom(s, a) \ {c} /\ c \in OpenFrom(s, a)
      /\ \A t \in Slots, i \in IPs : t # s \/ i # a => OpenFrom(t, i)' = OpenFrom(t, i)
    BY <1>4, <1>2, <1>a DEF OpenFrom
<1>6. /\ Cardinality(Open(s)') = Cardinality(Open(s)) - 1
      /\ Cardinality(OpenFrom(s, a)') = Cardinality(OpenFrom(s, a)) - 1
    BY ZenonT(60), <1>4, <1>5, OpenFinite, FS_RemoveElement
<1>7. KeyStable'
    <2> SUFFICES ASSUME NEW d \in Conns, stage'[d] \in Counted
                 PROVE  /\ extra_int2'[d] \in 1 .. MaxSlots
                        /\ state[extra_int2'[d]] # "FREE"
                        /\ entry[extra_int2'[d]].key = key'[d]
        BY <1>1 DEF KeyStable, slotVars
    <2> QED
        BY <1>3 DEF SecretsInv, KeyStable
<1>8. DirectStages'
    BY <1>3, <1>2 DEF SecretsInv, DirectStages, Counted
<1>9. Discount(c) \/ (direct_mode /\ UNCHANGED countVars)
    BY DEF Close, RpcClose, DirectClose, SecretsInv, DirectStages
<1>10. active' \in Nat
    BY SMT DEF Close, RpcClose, DirectClose, SecretsInv, TypeOK
<1>11. ASSUME connections' \in [Slots -> Nat], tracked' \in [Slots -> [IPs -> Nat]], unique_ips' \in [Slots -> Nat]
       PROVE  TypeOK'
    <2>1. /\ stage' \in [Conns -> Stages] /\ key' \in [Conns -> Keys \cup {"zero"}]
          /\ extra_int2' \in [Conns -> 0 .. MaxSlots] /\ attempt' \in [Conns -> 0 .. MaxRetries]
        BY SMT, <1>1, Sizes DEF SecretsInv, TypeOK, Stages
    <2>2. failed' \subseteq {d \in Conns : stage'[d] \in Counted}
        BY <1>1, <1>3 DEF SecretsInv, TypeOK
    <2> QED
        BY <1>1, <1>10, <1>11, <2>1, <2>2 DEF SecretsInv, TypeOK, fixed, slotVars
<1>12. /\ connections[s] \in Nat /\ Cardinality(Open(s)) \in Nat
       /\ Cardinality(OpenFrom(s, a)) \in Nat /\ tracked[s][a] \in Nat
    BY OpenFinite DEF SecretsInv, TypeOK
<1>13. CASE Discount(c)
    <2>1. /\ connections' \in [Slots -> Nat]
          /\ connections'[s] = connections[s] - 1
          /\ \A t \in Slots : t # s => connections'[t] = connections[t]
          /\ tracked' \in [Slots -> [IPs -> Nat]]
          /\ \A t \in Slots : \A i \in IPs :
                IF t = s /\ i = a /\ tracked[t][i] > 0
                THEN tracked'[t][i] = tracked[t][i] - 1
                ELSE tracked'[t][i] = tracked[t][i]
          /\ unique_ips' \in [Slots -> Nat]
          /\ \A t \in Slots : unique_ips'[t] = Cardinality(Known(tracked', t))
        BY SMT, <1>0, <1>13, <1>s, <1>a, Discounted
    <2>2. TypeOK'
        BY <1>11, <2>1
    <2>3. CountCovers'
        <3> SUFFICES ASSUME NEW t \in Slots
                     PROVE  /\ connections'[t] >= Cardinality(Open(t)')
                            /\ ~direct_mode => connections'[t] = Cardinality(Open(t)')
            BY <1>2 DEF CountCovers
        <3>1. /\ connections[t] >= Cardinality(Open(t))
              /\ ~direct_mode => connections[t] = Cardinality(Open(t))
            BY DEF SecretsInv, CountCovers
        <3>2. CASE t = s
            BY SMT, <3>1, <3>2, <2>1, <1>6, <1>12
        <3>3. CASE t # s
            BY <3>1, <3>3, <2>1, <1>4
        <3> QED
            BY <3>2, <3>3
    <2>4. ASSUME ~direct_mode, NEW t \in Slots, NEW i \in IPs
          PROVE  tracked'[t][i] <= Cardinality(OpenFrom(t, i)')
        <3>1. tracked[t][i] <= Cardinality(OpenFrom(t, i))
            BY <2>4 DEF SecretsInv, IpsCovered
        <3>2. CASE t = s /\ i = a /\ tracked[s][a] > 0
            <4>1. tracked'[s][a] = tracked[s][a] - 1
                BY <2>1, <3>2
            <4> QED
                BY SMT, <4>1, <3>1, <3>2, <1>6, <1>12
        <3>3. CASE t = s /\ i = a /\ ~(tracked[s][a] > 0)
            <4>1. tracked'[s][a] = 0
                BY SMT, <2>1, <3>3, <1>12
            <4>2. Cardinality(OpenFrom(s, a)) # 0
                BY <1>5, OpenFinite, FS_EmptySet
            <4> QED
                BY SMT, <4>1, <4>2, <3>3, <1>6, <1>12
        <3>4. CASE ~(t = s /\ i = a)
            BY <2>1, <3>1, <3>4, <1>5
        <3> QED
            BY <3>2, <3>3, <3>4
    <2>5. IpsCovered'
        BY <2>1, <2>4, <1>2 DEF IpsCovered, Known
    <2> QED
        BY <2>2, <2>3, <2>5, <1>7, <1>8 DEF SecretsInv
<1>14. CASE direct_mode /\ UNCHANGED countVars
    <2>1. connections' = connections /\ tracked' = tracked /\ unique_ips' = unique_ips
        BY <1>14 DEF countVars
    <2>2. TypeOK'
        BY <1>11, <2>1 DEF SecretsInv, TypeOK
    <2>3. CountCovers'
        <3> SUFFICES ASSUME NEW t \in Slots
                     PROVE  connections[t] >= Cardinality(Open(t)')
            BY <1>2, <1>14, <2>1 DEF CountCovers
        <3>1. connections[t] >= Cardinality(Open(t))
            BY DEF SecretsInv, CountCovers
        <3>2. CASE t = s
            BY SMT, <3>1, <3>2, <1>6, <1>12
        <3>3. CASE t # s
            BY <3>1, <3>3, <1>4
        <3> QED
            BY <3>2, <3>3
    <2>4. IpsCovered'
        BY <2>1, <1>2, <1>14 DEF SecretsInv, IpsCovered
    <2> QED
        BY <2>2, <2>3, <2>4, <1>7, <1>8 DEF SecretsInv
<1> QED
    BY <1>9, <1>13, <1>14

-----------------------------------------------------------------------------
(***************************************************************************)
(* Slots are taken and released.                                           *)
(***************************************************************************)
\* What a reset of slots does to the counters.
LEMMA ResetCounters ==
    ASSUME NEW S \in SUBSET Slots, Reset(S),
           connections \in [Slots -> Nat], bytes \in [Slots -> Nat],
           tracked \in [Slots -> [IPs -> Nat]], unique_ips \in [Slots -> Nat]
    PROVE  /\ connections' \in [Slots -> Nat]
           /\ bytes' \in [Slots -> Nat]
           /\ tracked' \in [Slots -> [IPs -> Nat]]
           /\ unique_ips' \in [Slots -> Nat]
           /\ \A s \in S : connections'[s] = 0 /\ unique_ips'[s] = 0 /\ tracked'[s] = [i \in IPs |-> 0]
           /\ \A s \in Slots \ S : /\ connections'[s] = connections[s]
                                   /\ unique_ips'[s] = unique_ips[s]
                                   /\ tracked'[s] = tracked[s]
<1>1. connections' \in [Slots -> Nat] /\ bytes' \in [Slots -> Nat] /\ unique_ips' \in [Slots -> Nat]
    BY DEF Reset
<1>2. tracked' \in [Slots -> [IPs -> Nat]]
    BY DEF Reset
<1>3. \A s \in S : connections'[s] = 0 /\ unique_ips'[s] = 0 /\ tracked'[s] = [i \in IPs |-> 0]
    BY DEF Reset
<1>4. \A s \in Slots \ S : connections'[s] = connections[s] /\ unique_ips'[s] = unique_ips[s] /\ tracked'[s] = tracked[s]
    BY DEF Reset
<1> QED
    BY <1>1, <1>2, <1>3, <1>4

\* The open connections of a slot are those of the step before when no
\* connection moves.
LEMMA SameOpen ==
    ASSUME stage' = stage, extra_int2' = extra_int2, remote_ip' = remote_ip
    PROVE  \A s : Open(s)' = Open(s) /\ \A i : OpenFrom(s, i)' = OpenFrom(s, i)
BY DEF Open, OpenFrom

\* A slot that carries a connection keeps its key when only empty slots change.
LEMMA KeysKept ==
    ASSUME KeyStable, NEW S \in SUBSET Slots, \A s \in S : Open(s) = {},
           stage' = stage, key' = key, extra_int2' = extra_int2,
           \A s \in Slots \ S : state[s] # "FREE" => state'[s] # "FREE" /\ entry'[s].key = entry[s].key
    PROVE  KeyStable'
<1> SUFFICES ASSUME NEW c \in Conns, stage[c] \in Counted
             PROVE  /\ extra_int2[c] \in 1 .. MaxSlots
                    /\ state'[extra_int2[c]] # "FREE"
                    /\ entry'[extra_int2[c]].key = key[c]
    BY DEF KeyStable
<1>1. PICK s \in Slots : s = extra_int2[c] /\ state[s] # "FREE" /\ entry[s].key = key[c]
    BY DEF KeyStable, Slots
<1>2. c \in Open(s)
    BY <1>1 DEF Open
<1>3. s \in Slots \ S
    BY <1>1, <1>2
<1>4. state'[s] # "FREE" /\ entry'[s].key = key[c]
    BY <1>1, <1>3
<1> QED
    BY <1>1, <1>4 DEF Slots

\* Counters and address tables still cover the open connections when those of
\* empty slots are set to zero.
LEMMA CountsKept ==
    ASSUME CountCovers, IpsCovered, NEW S \in SUBSET Slots, \A s \in S : Open(s) = {},
           direct_mode' = direct_mode,
           \A s : Open(s)' = Open(s) /\ \A i : OpenFrom(s, i)' = OpenFrom(s, i),
           \A s \in S : connections'[s] = 0 /\ unique_ips'[s] = 0 /\ tracked'[s] = [i \in IPs |-> 0],
           \A s \in Slots \ S : /\ connections'[s] = connections[s]
                                /\ unique_ips'[s] = unique_ips[s]
                                /\ tracked'[s] = tracked[s]
    PROVE  CountCovers' /\ IpsCovered'
<1>0. Cardinality({}) = 0
    BY FS_EmptySet
<1> SUFFICES ASSUME NEW s \in Slots
             PROVE  /\ connections'[s] >= Cardinality(Open(s))
                    /\ ~direct_mode => connections'[s] = Cardinality(Open(s))
                    /\ unique_ips'[s] = Cardinality({i \in IPs : tracked'[s][i] > 0})
                    /\ ~direct_mode => \A i \in IPs : tracked'[s][i] <= Cardinality(OpenFrom(s, i))
    BY DEF CountCovers, IpsCovered
<1>1. CASE s \in S
    <2>1. connections'[s] = 0 /\ unique_ips'[s] = 0 /\ \A i \in IPs : tracked'[s][i] = 0
        BY SMT, <1>1
    <2>2. Open(s) = {} /\ \A i \in IPs : OpenFrom(s, i) = {}
        BY <1>1 DEF OpenFrom
    <2>3. Cardinality(Open(s)) = 0 /\ \A i \in IPs : Cardinality(OpenFrom(s, i)) = 0
        BY <2>2, <1>0
    <2>4. {i \in IPs : tracked'[s][i] > 0} = {}
        BY SMT, <2>1
    <2>5. Cardinality({i \in IPs : tracked'[s][i] > 0}) = 0
        BY <2>4, <1>0
    <2> QED
        BY SMT, <2>1, <2>3, <2>5
<1>2. CASE s \notin S
    <2>1. connections'[s] = connections[s] /\ unique_ips'[s] = unique_ips[s] /\ tracked'[s] = tracked[s]
        BY <1>2
    <2>2. /\ connections[s] >= Cardinality(Open(s))
          /\ ~direct_mode => connections[s] = Cardinality(Open(s))
        BY DEF CountCovers
    <2>3. /\ unique_ips[s] = Cardinality({i \in IPs : tracked[s][i] > 0})
          /\ ~direct_mode => \A i \in IPs : tracked[s][i] <= Cardinality(OpenFrom(s, i))
        BY DEF IpsCovered
    <2> QED
        BY <2>1, <2>2, <2>3
<1> QED
    BY <1>1, <1>2

\* Slots without connections may be reset; the others keep their key and stay
\* in use.
LEMMA ResetStep ==
    ASSUME SecretsInv, NEW S \in SUBSET Slots, Reset(S), \A s \in S : Open(s) = {},
           UNCHANGED <<fixed, active, stage, key, extra_int2, attempt>>,
           failed' \subseteq {c \in Conns : stage[c] \in Counted},
           state' \in [Slots -> {"FREE", "ACTIVE", "DRAINING"}],
           entry' \in [Slots -> Entries \cup {NoEntry}],
           cnt' \in Pinned .. MaxSlots,
           \A s \in Slots \ S : state[s] # "FREE" => state'[s] # "FREE" /\ entry'[s].key = entry[s].key
    PROVE  SecretsInv'
<1>0. TypeOK /\ KeyStable /\ CountCovers /\ IpsCovered /\ DirectStages
    BY DEF SecretsInv
<1>1. direct_mode' = direct_mode /\ remote_ip' = remote_ip /\ active' = active
    BY DEF fixed
<1>2. stage' = stage /\ key' = key /\ extra_int2' = extra_int2 /\ attempt' = attempt
    OBVIOUS
<1>3. \A s : Open(s)' = Open(s) /\ \A i : OpenFrom(s, i)' = OpenFrom(s, i)
    BY <1>1, <1>2, SameOpen
<1>4. /\ connections \in [Slots -> Nat] /\ bytes \in [Slots -> Nat]
      /\ tracked \in [Slots -> [IPs -> Nat]] /\ unique_ips \in [Slots -> Nat]
    BY <1>0 DEF TypeOK
<1>5. /\ connections' \in [Slots -> Nat] /\ bytes' \in [Slots -> Nat]
      /\ tracked' \in [Slots -> [IPs -> Nat]] /\ unique_ips' \in [Slots -> Nat]
    BY <1>4, ResetCounters
<1>6. /\ \A s \in S : connections'[s] = 0 /\ unique_ips'[s] = 0 /\ tracked'[s] = [i \in IPs |-> 0]
      /\ \A s \in Slots \ S : /\ connections'[s] = connections[s]
                              /\ unique_ips'[s] = unique_ips[s]
                              /\ tracked'[s] = tracked[s]
    BY <1>4, ResetCounters
<1>7. TypeOK'
    BY <1>0, <1>1, <1>2, <1>5 DEF TypeOK
<1>8. KeyStable'
    BY <1>0, <1>2, KeysKept
<1>9. CountCovers' /\ IpsCovered'
    BY <1>0, <1>1, <1>3, <1>6, CountsKept
<1>10. DirectStages'
    BY <1>0, <1>1, <1>2 DEF DirectStages
<1> QED
    BY <1>7, <1>8, <1>9, <1>10 DEF SecretsInv

\* a free slot carries no connection
LEMMA FreeEmpty ==
    ASSUME SecretsInv, NEW s \in Slots, state[s] = "FREE"
    PROVE  Open(s) = {}
BY DEF SecretsInv, KeyStable, Open

\* a slot with a counter of zero carries none either
LEMMA ZeroEmpty ==
    ASSUME SecretsInv, NEW s \in Slots, connections[s] = 0
    PROVE  Open(s) = {}
<1>1. Cardinality(Open(s)) \in Nat /\ IsFiniteSet(Open(s)) /\ connections[s] >= Cardinality(Open(s))
    BY OpenFinite DEF SecretsInv, CountCovers
<1>2. Cardinality(Open(s)) = 0
    BY SMT, <1>1
<1> QED
    BY <1>1, <1>2, FS_EmptySet

\* tcp_rpcs_reload_ext_secrets keeps it: only free slots are reset, and a slot
\* in use is refreshed from an entry with its own key.
LEMMA ReloadInv ==
    ASSUME SecretsInv, NEW conf \in Configs, Reload(conf)
    PROVE  SecretsInv'
<1>n. PICK named : /\ named = {s \in Slots : Sources(conf, s) # {}}
                   /\ state' = [s \in Slots |-> StateAfter(named, s)]
                   /\ entry' = [s \in Slots |-> IF s \in named THEN conf[Highest(Sources(conf, s))] ELSE entry[s]]
                   /\ Reset(named \cap Free)
                   /\ cnt' = IF ReloadFails(conf, state') THEN cnt ELSE HighWater(state')
                   /\ UNCHANGED <<fixed, active, connVars>>
    BY DEF Reload
<1>m. named = {s \in Slots : Sources(conf, s) # {}}
    BY <1>n
<1>1. /\ named \cap Free \in SUBSET Slots
      /\ \A s \in named \cap Free : Open(s) = {}
    BY <1>n, FreeEmpty DEF Free
<1>2. state' \in [Slots -> {"FREE", "ACTIVE", "DRAINING"}]
    BY <1>n DEF StateAfter, SecretsInv, TypeOK
<1>3. entry' \in [Slots -> Entries \cup {NoEntry}]
    <2>1. \A s \in Slots : entry'[s] \in Entries \cup {NoEntry}
        BY <1>n, SourceIn DEF SecretsInv, TypeOK
    <2> QED
        BY <1>n, <2>1
<1>4. cnt' \in Pinned .. MaxSlots
    BY <1>n, HighWaterType DEF SecretsInv, TypeOK
<1>5. ASSUME NEW s \in Slots \ (named \cap Free), state[s] # "FREE"
      PROVE  state'[s] # "FREE" /\ entry'[s].key = entry[s].key
    <2>1. CASE s \in named
        <3>1. Sources(conf, s) # {} /\ s \notin Free
            BY <1>5, <1>m, <2>1 DEF Free
        <3>2. Sources(conf, s) = Refreshing(conf, s)
            BY <3>1 DEF Sources
        <3>3. Highest(Sources(conf, s)) \in Refreshing(conf, s)
            BY <3>1, <3>2, SourceIn
        <3>4. conf[Highest(Sources(conf, s))].key = entry[s].key
            BY <3>3 DEF Refreshing
        <3> QED
            BY <3>4, <2>1, <1>n DEF StateAfter
    <2>2. CASE s \notin named
        BY <1>5, <2>2, <1>n DEF StateAfter
    <2> QED
        BY <2>1, <2>2
<1>6. failed' \subseteq {c \in Conns : stage[c] \in Counted}
    BY <1>n DEF connVars, SecretsInv, TypeOK
<1>7. UNCHANGED <<fixed, active, stage, key, extra_int2, attempt>>
    BY <1>n DEF connVars
<1> QED
    BY <1>n, <1>1, <1>2, <1>3, <1>4, <1>5, <1>6, <1>7, ResetStep

\* drain_sweep_gw keeps it: a slot is released at a counter of zero.
LEMMA SweepInv ==
    ASSUME SecretsInv, NEW late \in SUBSET Draining, Sweep(late)
    PROVE  SecretsInv'
<1>n. PICK gone : /\ gone = Releasable
                  /\ state' = [s \in Slots |-> IF s \in gone THEN "FREE" ELSE state[s]]
                  /\ entry' = [s \in Slots |-> IF s \in gone THEN NoEntry ELSE entry[s]]
                  /\ Reset(gone)
                  /\ cnt' = IF gone = {} THEN cnt ELSE HighWater(state')
                  /\ failed' = failed \cup ForceClosed(late \ gone)
                  /\ UNCHANGED <<fixed, active, stage, key, extra_int2, attempt>>
    BY DEF Sweep
<1>1. gone \in SUBSET Slots
    <2>1. cnt \in Int /\ cnt <= MaxSlots
        BY SMT, Sizes DEF SecretsInv, TypeOK
    <2>2. \A s \in gone : s \in Pinned + 1 .. cnt
        BY <1>n DEF Releasable, Draining
    <2>3. \A s \in gone : s \in Slots
        BY SMT, <2>1, <2>2, Sizes DEF Slots
    <2> QED
        BY <2>3
<1>2. \A s \in gone : Open(s) = {}
    BY <1>n, <1>1, ZeroEmpty DEF Releasable
<1>3. /\ state' \in [Slots -> {"FREE", "ACTIVE", "DRAINING"}]
      /\ entry' \in [Slots -> Entries \cup {NoEntry}]
    BY <1>n DEF SecretsInv, TypeOK
<1>4. cnt' \in Pinned .. MaxSlots
    BY <1>n, HighWaterType DEF SecretsInv, TypeOK
<1>5. \A s \in Slots \ gone : state'[s] = state[s] /\ entry'[s] = entry[s]
    BY <1>n
<1>6. failed' \subseteq {c \in Conns : stage[c] \in Counted}
    <2>1. failed \subseteq {c \in Conns : stage[c] \in Counted}
        BY DEF SecretsInv, TypeOK
    <2>2. \A s : Open(s) \subseteq {c \in Conns : stage[c] \in Counted}
        BY DEF Open
    <2>3. ForceClosed(late \ gone) \subseteq {c \in Conns : stage[c] \in Counted}
        BY <2>2 DEF ForceClosed
    <2> QED
        BY <1>n, <2>1, <2>3
<1> QED
    BY <1>n, <1>1, <1>2, <1>3, <1>4, <1>5, <1>6, ResetStep

-----------------------------------------------------------------------------
\* Every step keeps it.
LEMMA StepInv ==
    ASSUME SecretsInv, [Next]_vars
    PROVE  SecretsInv'
<1>1. CASE UNCHANGED vars
    <2>1. /\ UNCHANGED <<fixed, state, entry, countVars>>
          /\ UNCHANGED <<cnt, bytes, active, stage, key, extra_int2, attempt, failed>>
        BY <1>1 DEF vars, slotVars, connVars
    <2>2. TypeOK' /\ DirectStages'
        BY <2>1 DEF SecretsInv, TypeOK, DirectStages, fixed, countVars
    <2> QED
        BY <2>1, <2>2, QuietStep
<1>2. ASSUME NEW c \in Conns, NEW k \in Keys, TlsHello(c, k) \/ ObfsHeader(c, k)
      PROVE  SecretsInv'
    BY <1>2, TlsHelloInv, ObfsHeaderInv
<1>3. ASSUME NEW c \in Conns, Leave(c) \/ RetryAlarm(c) \/ DcLost(c) \/ Relay(c) \/ Fail(c) \/ Close(c)
      PROVE  SecretsInv'
    BY <1>3, LeaveInv, RetryAlarmInv, DcLostInv, RelayInv, FailInv, CloseInv
<1>4. ASSUME NEW conf \in Configs, Reload(conf)
      PROVE  SecretsInv'
    BY <1>4, ReloadInv
<1>5. ASSUME NEW late \in SUBSET Draining, Sweep(late)
      PROVE  SecretsInv'
    BY <1>5, SweepInv
<1> QED
    BY <1>1, <1>2, <1>3, <1>4, <1>5 DEF Next

(***************************************************************************)
(* The theorems.                                                           *)
(***************************************************************************)
\* The inductive invariant holds always: slots, counters and address tables
\* agree with the connections that carry the slots' numbers, through
\* handshakes, retries, closes, reloads that fail or not, and sweeps.
THEOREM SecretsInductive == Spec => []SecretsInv
<1>1. Init => SecretsInv
    BY InitInv
<1>2. SecretsInv /\ [Next]_vars => SecretsInv'
    BY StepInv
<1> QED
    BY <1>1, <1>2, PTL DEF Spec

\* No connection is ever counted under, or limited by, the entry of another
\* key than the one its client authenticated with, and no slot is released
\* under an open connection (tcp_rpcs_drain_release_slot_if_empty).
THEOREM SlotsKeepKeys == Spec => []KeyStable
<1>1. SecretsInv => KeyStable
    BY DEF SecretsInv
<1> QED
    BY <1>1, SecretsInductive, PTL

\* per_secret_connections never falls below the number of open connections,
\* and is exact in proxy mode (mtproto_ext_rpc_close, tcp_direct_close).
THEOREM CountersCover == Spec => []CountCovers
<1>1. SecretsInv => CountCovers
    BY DEF SecretsInv
<1> QED
    BY <1>1, SecretsInductive, PTL

\* per_secret_unique_ip_count is the number of addresses in the table, and in
\* proxy mode no address is charged for more than it has open
\* (ip_track_connect, ip_track_disconnect_impl).
THEOREM AddressesCovered == Spec => []IpsCovered
<1>1. SecretsInv => IpsCovered
    BY DEF SecretsInv
<1> QED
    BY <1>1, SecretsInductive, PTL
=============================================================================
