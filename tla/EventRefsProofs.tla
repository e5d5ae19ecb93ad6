-------------------------- MODULE EventRefsProofs ---------------------------
(***************************************************************************)
(* The theorems about the reference word of a descriptor, from the         *)
(* inductive invariant RefsInv of EventRefs.                               *)
(***************************************************************************)
EXTENDS EventRefs, FiniteSetTheorems, TLAPS

\* Zenon proves what names no other prover.
USE Zenon

-----------------------------------------------------------------------------
(***************************************************************************)
(* Counting getters.                                                       *)
(***************************************************************************)
\* Any set of getters has a size.
LEMMA GettersFinite ==
    ASSUME NEW G \in SUBSET Getters
    PROVE  IsFiniteSet(G) /\ Cardinality(G) \in Nat /\ (Cardinality(G) = 0 <=> G = {})
<1>1. IsFiniteSet(G)
  BY DescriptorAssumption, FS_Subset
<1> QED BY <1>1, FS_CardinalityType, FS_EmptySet

\* When one getter comes in or leaves, the size changes by one.
LEMMA OneMoves ==
    ASSUME NEW G \in SUBSET Getters, NEW H \in SUBSET Getters, NEW g \in Getters,
           \A h \in Getters \ {g} : h \in G <=> h \in H
    PROVE  Cardinality(H) = Cardinality(G) + Bit(g \in H) - Bit(g \in G)
<1>0. /\ IsFiniteSet(G) /\ Cardinality(G) \in Nat
      /\ IsFiniteSet(H) /\ Cardinality(H) \in Nat
  BY GettersFinite
<1>1. CASE g \in G /\ g \in H
  <2>1. G = H
    BY SMT, <1>1
  <2> QED BY SMT, <1>0, <1>1, <2>1 DEF Bit
<1>2. CASE g \notin G /\ g \notin H
  <2>1. G = H
    BY SMT, <1>2
  <2> QED BY SMT, <1>0, <1>2, <2>1 DEF Bit
<1>3. CASE g \in G /\ g \notin H
  <2>1. H = G \ {g}
    BY <1>3
  <2>2. Cardinality(H) = Cardinality(G) - 1
    BY <1>0, <1>3, <2>1, FS_RemoveElement
  <2> QED BY SMT, <1>0, <1>3, <2>2 DEF Bit
<1>4. CASE g \notin G /\ g \in H
  <2>1. H = G \cup {g}
    BY <1>4
  <2>2. Cardinality(H) = Cardinality(G) + 1
    BY <1>0, <1>4, <2>1, FS_AddElement
  <2> QED BY SMT, <1>0, <1>4, <2>2 DEF Bit
<1> QED BY <1>1, <1>2, <1>3, <1>4

\* What a getter that goes from one place to another does to the sets that the counts are of.
LEMMA GetterMoves ==
    ASSUME TypeOK, NEW g \in Getters, NEW v \in GetterState, getter' = [getter EXCEPT ![g] = v]
    PROVE  /\ Cardinality(Raising') = Cardinality(Raising)
                 + Bit(v.pc \in {"hold", "lower"}) - Bit(getter[g].pc \in {"hold", "lower"})
           /\ Cardinality(Holding') = Cardinality(Holding)
                 + Bit(v.pc \in {"incref", "unhold"}) - Bit(getter[g].pc \in {"incref", "unhold"})
           /\ \A s \in Socks :
                 Cardinality(UsersOf(s)') = Cardinality(UsersOf(s)) + Bit(v.s = s) - Bit(getter[g].s = s)
<1>0. /\ getter'[g] = v
      /\ \A h \in Getters \ {g} : getter'[h] = getter[h]
  BY DEF TypeOK
<1>1. Cardinality(Raising') = Cardinality(Raising) + Bit(g \in Raising') - Bit(g \in Raising)
  <2>1. /\ Raising \in SUBSET Getters /\ Raising' \in SUBSET Getters
        /\ \A h \in Getters \ {g} : h \in Raising <=> h \in Raising'
    BY <1>0 DEF Raising
  <2> QED BY <2>1, OneMoves
<1>2. Cardinality(Holding') = Cardinality(Holding) + Bit(g \in Holding') - Bit(g \in Holding)
  <2>1. /\ Holding \in SUBSET Getters /\ Holding' \in SUBSET Getters
        /\ \A h \in Getters \ {g} : h \in Holding <=> h \in Holding'
    BY <1>0 DEF Holding
  <2> QED BY <2>1, OneMoves
<1>3. ASSUME NEW s \in Socks
      PROVE  Cardinality(UsersOf(s)') = Cardinality(UsersOf(s)) + Bit(g \in UsersOf(s)') - Bit(g \in UsersOf(s))
  <2>1. /\ UsersOf(s) \in SUBSET Getters /\ UsersOf(s)' \in SUBSET Getters
        /\ \A h \in Getters \ {g} : h \in UsersOf(s) <=> h \in UsersOf(s)'
    BY <1>0 DEF UsersOf
  <2> QED BY <2>1, OneMoves
<1>4. /\ g \in Raising' <=> v.pc \in {"hold", "lower"}
      /\ g \in Raising <=> getter[g].pc \in {"hold", "lower"}
      /\ g \in Holding' <=> v.pc \in {"incref", "unhold"}
      /\ g \in Holding <=> getter[g].pc \in {"incref", "unhold"}
      /\ \A s : g \in UsersOf(s)' <=> v.s = s
      /\ \A s : g \in UsersOf(s) <=> getter[g].s = s
  BY <1>0 DEF Raising, Holding, UsersOf
<1> QED BY <1>1, <1>2, <1>3, <1>4 DEF Bit

\* A step that moves no getter leaves those sets alone.
LEMMA GettersStay ==
    ASSUME UNCHANGED getter
    PROVE  UNCHANGED <<Raising, Holding>> /\ \A s : UsersOf(s)' = UsersOf(s)
  BY DEF Raising, Holding, UsersOf

\* The sizes are numbers.
LEMMA Sizes ==
    /\ Cardinality(Raising) \in Nat /\ (Cardinality(Raising) = 0 <=> Raising = {})
    /\ Cardinality(Holding) \in Nat /\ (Cardinality(Holding) = 0 <=> Holding = {})
    /\ \A s : Cardinality(UsersOf(s)) \in Nat /\ (Cardinality(UsersOf(s)) = 0 <=> UsersOf(s) = {})
<1>1. Raising \in SUBSET Getters /\ Holding \in SUBSET Getters
  BY DEF Raising, Holding
<1>2. ASSUME NEW s PROVE UsersOf(s) \in SUBSET Getters
  BY DEF UsersOf
<1> QED BY <1>1, <1>2, GettersFinite

-----------------------------------------------------------------------------
(***************************************************************************)
(* The steps of the socket.                                                *)
(***************************************************************************)
\* The descriptor is not in use before its first socket.
LEMMA InitRefsInv == Init => RefsInv
<1> SUFFICES ASSUME Init PROVE RefsInv
  OBVIOUS
<1>0. \A g \in Getters : getter[g] = At("idle")
  BY DEF Init
<1>1. TypeOK /\ DataKept /\ GettersHold
  <2>1. At("idle") \in GetterState
    BY DEF At, GetterState, Places
  <2>2. getter \in [Getters -> GetterState]
    BY <2>1 DEF Init
  <2>3. TypeOK
    <3>1. refs \in [Socks -> Int]
      BY SMT DEF Init
    <3>2. hi \in Int /\ lo \in Int /\ stage \in {"live", "failed", "closed"}
      BY SMT DEF Init
    <3>3. data \in Socks \cup {NoSock} /\ open \in Socks \cup {NoSock} /\ asserted \in BOOLEAN
      BY DEF Init
    <3> QED BY <2>2, <3>1, <3>2, <3>3 DEF TypeOK
  <2>4. DataKept /\ GettersHold
    BY <1>0 DEF Init, At, DataKept, GettersHold
  <2> QED BY <2>3, <2>4
<1>2. Raising = {} /\ Holding = {} /\ \A s \in Socks : UsersOf(s) = {}
  BY SMT, <1>0, DescriptorAssumption DEF At, Raising, Holding, UsersOf
<1>3. HalvesCounted /\ JobsCounted
  BY SMT, <1>2, FS_EmptySet, DescriptorAssumption DEF Init, HalvesCounted, JobsCounted, Bit
<1> QED BY <1>1, <1>3 DEF RefsInv

\* A new socket finds the word at zero, and nobody left from the one before.
LEMMA AllocStep ==
    ASSUME RefsInv, NEW s \in Socks, alloc_new_socket_connection(s)
    PROVE  RefsInv'
<1> USE DescriptorAssumption
<1>0. TypeOK /\ HalvesCounted /\ JobsCounted /\ DataKept /\ GettersHold
  BY DEF RefsInv
<1>1. UNCHANGED <<hi, getter>> /\ open = NoSock /\ refs[s] = 0
  BY DEF alloc_new_socket_connection
<1>2. UNCHANGED <<Raising, Holding>> /\ \A t : UsersOf(t)' = UsersOf(t)
  BY <1>1, GettersStay
<1>3. data = NoSock /\ stage = "closed"
  BY <1>0, <1>1 DEF DataKept, TypeOK
<1>4. CASE hi = 0 /\ lo = 0
  <2>1. /\ lo' = 1 /\ data' = s /\ open' = s /\ stage' = "live"
        /\ refs' = [refs EXCEPT ![s] = 2] /\ UNCHANGED asserted
    BY <1>4 DEF alloc_new_socket_connection
  <2>2. TypeOK'
    BY SMT, <1>0, <1>1, <2>1 DEF TypeOK
  <2>3. HalvesCounted'
    BY SMT, <1>0, <1>1, <1>2, <1>3, <1>4, <2>1, Sizes DEF HalvesCounted, Bit
  <2>4. JobsCounted'
    <3> SUFFICES ASSUME NEW t \in Socks
                 PROVE  refs'[t] = Bit(data' = t) + Bit(open' = t /\ stage' # "closed") + Cardinality(UsersOf(t))
      BY <1>2 DEF JobsCounted
    <3>1. refs[t] = Cardinality(UsersOf(t))
      BY SMT, <1>0, <1>1, <1>3, Sizes DEF JobsCounted, Bit
    <3> QED BY SMT, <1>0, <1>1, <2>1, <3>1, Sizes DEF TypeOK, Bit
  <2>5. DataKept' /\ GettersHold'
    BY <1>0, <1>1, <2>1 DEF DataKept, GettersHold
  <2> QED BY <2>2, <2>3, <2>4, <2>5 DEF RefsInv
<1>5. CASE ~(hi = 0 /\ lo = 0)
  <2>1. UNCHANGED <<lo, data, open, stage, refs>> /\ asserted' = TRUE
    BY <1>5 DEF alloc_new_socket_connection
  <2> QED BY <1>0, <1>1, <1>2, <2>1 DEF RefsInv, TypeOK, HalvesCounted, JobsCounted, DataKept, GettersHold
<1> QED BY <1>4, <1>5

\* The socket gives up its unit: ev->data goes with it only if nobody is on the way to it.
LEMMA FailStep == ASSUME RefsInv, fail_socket_connection PROVE RefsInv'
<1> USE DescriptorAssumption
<1>0. TypeOK /\ HalvesCounted /\ JobsCounted /\ DataKept /\ GettersHold
  BY DEF RefsInv
<1>1. /\ UNCHANGED <<hi, open, getter, asserted>> /\ open # NoSock
      /\ stage = "live" /\ stage' = "failed" /\ lo' = lo - 1
  BY DEF fail_socket_connection, Unhold
<1>2. UNCHANGED <<Raising, Holding>> /\ \A t : UsersOf(t)' = UsersOf(t)
  BY <1>1, GettersStay
<1>3. HalvesCounted'
  BY SMT, <1>0, <1>1, <1>2, Sizes DEF HalvesCounted, Bit, TypeOK
<1>4. CASE lo = 1 /\ hi = 0
  <2>1. data \in Socks /\ data = open /\ data' = NoSock /\ refs' = [refs EXCEPT ![data] = @ - 1]
    BY <1>0, <1>1, <1>4 DEF fail_socket_connection, Unhold, DataKept, TypeOK
  <2>2. TypeOK'
    BY SMT, <1>0, <1>1, <2>1 DEF TypeOK
  <2>3. JobsCounted'
    BY SMT, <1>0, <1>1, <1>2, <2>1, Sizes DEF JobsCounted, Bit, TypeOK
  <2>4. Raising = {} /\ Holding = {}
    BY SMT, <1>0, <1>1, <1>4, Sizes DEF HalvesCounted, Bit
  <2>5. DataKept' /\ GettersHold'
    BY <1>0, <1>1, <2>1, <2>4 DEF DataKept, GettersHold, Raising, Holding
  <2> QED BY <1>3, <2>2, <2>3, <2>5 DEF RefsInv
<1>5. CASE ~(lo = 1 /\ hi = 0)
  <2>1. UNCHANGED <<data, refs>>
    BY <1>5 DEF fail_socket_connection, Unhold
  <2> QED BY SMT, <1>0, <1>1, <1>2, <1>3, <2>1 DEF RefsInv, TypeOK, JobsCounted, DataKept, GettersHold, Bit
<1> QED BY <1>4, <1>5

\* The connection gives back its reference to the job.
LEMMA CloseStep == ASSUME RefsInv, cpu_server_close_connection PROVE RefsInv'
<1> USE DescriptorAssumption
<1>0. TypeOK /\ HalvesCounted /\ JobsCounted /\ DataKept /\ GettersHold
  BY DEF RefsInv
<1>1. /\ UNCHANGED <<hi, lo, data, open, getter, asserted>>
      /\ stage = "failed" /\ stage' = "closed" /\ refs' = [refs EXCEPT ![open] = @ - 1]
  BY DEF cpu_server_close_connection
<1>2. UNCHANGED <<Raising, Holding>> /\ \A t : UsersOf(t)' = UsersOf(t)
  BY <1>1, GettersStay
<1>3. open \in Socks
  BY <1>0, <1>1 DEF DataKept, TypeOK
<1>4. TypeOK' /\ HalvesCounted'
  BY SMT, <1>0, <1>1, <1>2, <1>3 DEF TypeOK, HalvesCounted, Bit
<1>5. JobsCounted'
  BY SMT, <1>0, <1>1, <1>2, <1>3, Sizes DEF JobsCounted, Bit, TypeOK
<1>6. DataKept' /\ GettersHold'
  BY <1>0, <1>1 DEF DataKept, GettersHold
<1> QED BY <1>4, <1>5, <1>6 DEF RefsInv

\* A descriptor is closed after its job, so ev->data no longer has it.
LEMMA FreeStep == ASSUME RefsInv, cpu_server_free_connection PROVE RefsInv'
<1> USE DescriptorAssumption
<1>0. TypeOK /\ HalvesCounted /\ JobsCounted /\ DataKept /\ GettersHold
  BY DEF RefsInv
<1>1. /\ UNCHANGED <<hi, lo, data, stage, refs, getter, asserted>>
      /\ stage = "closed" /\ open # NoSock /\ refs[open] = 0 /\ open' = NoSock
  BY DEF cpu_server_free_connection
<1>2. UNCHANGED <<Raising, Holding>> /\ \A t : UsersOf(t)' = UsersOf(t)
  BY <1>1, GettersStay
<1>3. data = NoSock
  BY SMT, <1>0, <1>1, Sizes DEF JobsCounted, DataKept, Bit, TypeOK
<1>4. TypeOK' /\ HalvesCounted' /\ JobsCounted'
  BY <1>0, <1>1, <1>2 DEF TypeOK, HalvesCounted, JobsCounted, Bit
<1>5. DataKept' /\ GettersHold'
  BY <1>0, <1>1, <1>3 DEF DataKept, GettersHold
<1> QED BY <1>4, <1>5 DEF RefsInv

-----------------------------------------------------------------------------
(***************************************************************************)
(* The steps of a getter.                                                  *)
(***************************************************************************)
\* The places that a getter goes to without the job.
LEMMA AtType == \A place \in Places : At(place) \in GetterState /\ At(place).pc = place /\ At(place).s = NoSock
  BY DEF At, GetterState

\* A getter that has only looked at the word has done nothing to it.
LEMMA CheckStep == ASSUME RefsInv, NEW g \in Getters, get_check(g) PROVE RefsInv'
<1> USE DescriptorAssumption
<1>0. TypeOK /\ HalvesCounted /\ JobsCounted /\ DataKept /\ GettersHold
  BY DEF RefsInv
<1> DEFINE v == At("raise")
<1>1. v \in GetterState /\ v.pc = "raise" /\ v.s = NoSock
  BY AtType DEF Places
<1>2. /\ UNCHANGED <<hi, lo, data, open, stage, refs, asserted>>
      /\ getter' = [getter EXCEPT ![g] = v] /\ getter[g].pc = "idle" /\ getter[g].s = NoSock
  BY <1>0 DEF get_check, GettersHold
<1> HIDE DEF v
<1>3. /\ Cardinality(Raising') = Cardinality(Raising) /\ Cardinality(Holding') = Cardinality(Holding)
      /\ \A s \in Socks : Cardinality(UsersOf(s)') = Cardinality(UsersOf(s))
  <2>1. /\ Cardinality(Raising') = Cardinality(Raising)
              + Bit(v.pc \in {"hold", "lower"}) - Bit(getter[g].pc \in {"hold", "lower"})
        /\ Cardinality(Holding') = Cardinality(Holding)
              + Bit(v.pc \in {"incref", "unhold"}) - Bit(getter[g].pc \in {"incref", "unhold"})
        /\ \A s \in Socks :
              Cardinality(UsersOf(s)') = Cardinality(UsersOf(s)) + Bit(v.s = s) - Bit(getter[g].s = s)
    BY <1>0, <1>1, <1>2, GetterMoves
  <2> QED BY SMT, <1>1, <1>2, <2>1, Sizes DEF Bit
<1>4. TypeOK' /\ DataKept' /\ GettersHold'
  BY <1>0, <1>1, <1>2 DEF TypeOK, GetterState, DataKept, GettersHold
<1>5. HalvesCounted' /\ JobsCounted'
  BY SMT, <1>0, <1>2, <1>3 DEF HalvesCounted, JobsCounted
<1> QED BY <1>4, <1>5 DEF RefsInv

\* A getter that finds the low half not zero finds ev->data, which its addition keeps.
LEMMA RaiseStep == ASSUME RefsInv, NEW g \in Getters, get_raise(g) PROVE RefsInv'
<1> USE DescriptorAssumption
<1>0. TypeOK /\ HalvesCounted /\ JobsCounted /\ DataKept /\ GettersHold
  BY DEF RefsInv
<1> DEFINE v == At(IF lo # 0 THEN "hold" ELSE "lower")
<1>1. v \in GetterState /\ v.pc = (IF lo # 0 THEN "hold" ELSE "lower") /\ v.s = NoSock
  BY AtType DEF Places
<1>2. /\ UNCHANGED <<lo, data, open, stage, refs, asserted>> /\ hi' = hi + 1
      /\ getter' = [getter EXCEPT ![g] = v] /\ getter[g].pc = "raise" /\ getter[g].s = NoSock
  BY <1>0 DEF get_raise, GettersHold
<1> HIDE DEF v
<1>3. /\ Cardinality(Raising') = Cardinality(Raising) + 1 /\ Cardinality(Holding') = Cardinality(Holding)
      /\ \A s \in Socks : Cardinality(UsersOf(s)') = Cardinality(UsersOf(s))
  <2>1. /\ Cardinality(Raising') = Cardinality(Raising)
              + Bit(v.pc \in {"hold", "lower"}) - Bit(getter[g].pc \in {"hold", "lower"})
        /\ Cardinality(Holding') = Cardinality(Holding)
              + Bit(v.pc \in {"incref", "unhold"}) - Bit(getter[g].pc \in {"incref", "unhold"})
        /\ \A s \in Socks :
              Cardinality(UsersOf(s)') = Cardinality(UsersOf(s)) + Bit(v.s = s) - Bit(getter[g].s = s)
    BY <1>0, <1>1, <1>2, GetterMoves
  <2> QED BY SMT, <1>1, <1>2, <2>1, Sizes DEF Bit
<1>4. lo # 0 => data # NoSock
  <2>1. lo # 0 => stage = "live" \/ Holding # {}
    BY SMT, <1>0, Sizes DEF HalvesCounted, Bit
  <2> QED BY <1>0, <2>1 DEF DataKept, Holding
<1>5. TypeOK' /\ DataKept' /\ GettersHold'
  BY SMT, <1>0, <1>1, <1>2, <1>4 DEF TypeOK, GetterState, DataKept, GettersHold
<1>6. HalvesCounted' /\ JobsCounted'
  BY SMT, <1>0, <1>2, <1>3 DEF HalvesCounted, JobsCounted
<1> QED BY <1>5, <1>6 DEF RefsInv

\* A getter that came too late takes its addition back.
LEMMA LowerStep == ASSUME RefsInv, NEW g \in Getters, get_lower(g) PROVE RefsInv'
<1> USE DescriptorAssumption
<1>0. TypeOK /\ HalvesCounted /\ JobsCounted /\ DataKept /\ GettersHold
  BY DEF RefsInv
<1> DEFINE v == At(IF lo # 0 THEN "raise" ELSE "idle")
<1>1. v \in GetterState /\ v.pc = (IF lo # 0 THEN "raise" ELSE "idle") /\ v.s = NoSock
  BY AtType DEF Places
<1>2. /\ UNCHANGED <<lo, data, open, stage, refs, asserted>> /\ hi' = hi - 1
      /\ getter' = [getter EXCEPT ![g] = v] /\ getter[g].pc = "lower" /\ getter[g].s = NoSock
  BY <1>0 DEF get_lower, GettersHold
<1> HIDE DEF v
<1>3. /\ Cardinality(Raising') = Cardinality(Raising) - 1 /\ Cardinality(Holding') = Cardinality(Holding)
      /\ \A s \in Socks : Cardinality(UsersOf(s)') = Cardinality(UsersOf(s))
  <2>1. /\ Cardinality(Raising') = Cardinality(Raising)
              + Bit(v.pc \in {"hold", "lower"}) - Bit(getter[g].pc \in {"hold", "lower"})
        /\ Cardinality(Holding') = Cardinality(Holding)
              + Bit(v.pc \in {"incref", "unhold"}) - Bit(getter[g].pc \in {"incref", "unhold"})
        /\ \A s \in Socks :
              Cardinality(UsersOf(s)') = Cardinality(UsersOf(s)) + Bit(v.s = s) - Bit(getter[g].s = s)
    BY <1>0, <1>1, <1>2, GetterMoves
  <2> QED BY SMT, <1>1, <1>2, <2>1, Sizes DEF Bit
<1>4. TypeOK' /\ DataKept' /\ GettersHold'
  BY SMT, <1>0, <1>1, <1>2 DEF TypeOK, GetterState, DataKept, GettersHold
<1>5. HalvesCounted' /\ JobsCounted'
  BY SMT, <1>0, <1>2, <1>3 DEF HalvesCounted, JobsCounted
<1> QED BY <1>4, <1>5 DEF RefsInv

\* The unit moves from the high half to the low one in one addition.
LEMMA HoldStep == ASSUME RefsInv, NEW g \in Getters, get_hold(g) PROVE RefsInv'
<1> USE DescriptorAssumption
<1>0. TypeOK /\ HalvesCounted /\ JobsCounted /\ DataKept /\ GettersHold
  BY DEF RefsInv
<1> DEFINE v == At("incref")
<1>1. v \in GetterState /\ v.pc = "incref" /\ v.s = NoSock
  BY AtType DEF Places
<1>2. /\ UNCHANGED <<data, open, stage, refs, asserted>> /\ hi' = hi - 1 /\ lo' = lo + 1
      /\ getter' = [getter EXCEPT ![g] = v] /\ getter[g].pc = "hold" /\ getter[g].s = NoSock
  BY <1>0 DEF get_hold, GettersHold
<1> HIDE DEF v
<1>3. /\ Cardinality(Raising') = Cardinality(Raising) - 1 /\ Cardinality(Holding') = Cardinality(Holding) + 1
      /\ \A s \in Socks : Cardinality(UsersOf(s)') = Cardinality(UsersOf(s))
  <2>1. /\ Cardinality(Raising') = Cardinality(Raising)
              + Bit(v.pc \in {"hold", "lower"}) - Bit(getter[g].pc \in {"hold", "lower"})
        /\ Cardinality(Holding') = Cardinality(Holding)
              + Bit(v.pc \in {"incref", "unhold"}) - Bit(getter[g].pc \in {"incref", "unhold"})
        /\ \A s \in Socks :
              Cardinality(UsersOf(s)') = Cardinality(UsersOf(s)) + Bit(v.s = s) - Bit(getter[g].s = s)
    BY <1>0, <1>1, <1>2, GetterMoves
  <2> QED BY SMT, <1>1, <1>2, <2>1, Sizes DEF Bit
<1>4. TypeOK' /\ DataKept' /\ GettersHold'
  BY SMT, <1>0, <1>1, <1>2 DEF TypeOK, GetterState, DataKept, GettersHold
<1>5. HalvesCounted' /\ JobsCounted'
  BY SMT, <1>0, <1>2, <1>3, Sizes DEF HalvesCounted, JobsCounted, Bit
<1> QED BY <1>4, <1>5 DEF RefsInv

\* The reference is taken from a job that is there.
LEMMA IncrefStep == ASSUME RefsInv, NEW g \in Getters, get_incref(g) PROVE RefsInv'
<1> USE DescriptorAssumption
<1>0. TypeOK /\ HalvesCounted /\ JobsCounted /\ DataKept /\ GettersHold
  BY DEF RefsInv
<1> DEFINE v == [pc |-> "unhold", s |-> data]
<1>1. v \in GetterState /\ v.pc = "unhold" /\ v.s = data
  BY <1>0 DEF TypeOK, GetterState, Places
<1>2. /\ UNCHANGED <<hi, lo, data, open, stage, asserted>>
      /\ getter' = [getter EXCEPT ![g] = v] /\ getter[g].pc = "incref" /\ getter[g].s = NoSock
      /\ data \in Socks /\ refs' = [refs EXCEPT ![data] = @ + 1]
  BY <1>0 DEF get_incref, GettersHold, DataKept, TypeOK
<1> HIDE DEF v
<1>3. /\ Cardinality(Raising') = Cardinality(Raising) /\ Cardinality(Holding') = Cardinality(Holding)
      /\ \A s \in Socks : Cardinality(UsersOf(s)') = Cardinality(UsersOf(s)) + Bit(data = s)
  <2>1. /\ Cardinality(Raising') = Cardinality(Raising)
              + Bit(v.pc \in {"hold", "lower"}) - Bit(getter[g].pc \in {"hold", "lower"})
        /\ Cardinality(Holding') = Cardinality(Holding)
              + Bit(v.pc \in {"incref", "unhold"}) - Bit(getter[g].pc \in {"incref", "unhold"})
        /\ \A s \in Socks :
              Cardinality(UsersOf(s)') = Cardinality(UsersOf(s)) + Bit(v.s = s) - Bit(getter[g].s = s)
    BY <1>0, <1>1, <1>2, GetterMoves
  <2> QED BY SMT, <1>1, <1>2, <2>1, Sizes DEF Bit
<1>4. TypeOK' /\ DataKept' /\ GettersHold'
  BY SMT, <1>0, <1>1, <1>2 DEF TypeOK, GetterState, DataKept, GettersHold
<1>5. HalvesCounted' /\ JobsCounted'
  BY SMT, <1>0, <1>2, <1>3, Sizes DEF HalvesCounted, JobsCounted, TypeOK, Bit
<1> QED BY <1>4, <1>5 DEF RefsInv

\* The unit is given back; ev->data goes if nobody else is on the way to it, and the getter
\* has its own reference by then.
LEMMA UnholdStep == ASSUME RefsInv, NEW g \in Getters, get_unhold(g) PROVE RefsInv'
<1> USE DescriptorAssumption
<1>0. TypeOK /\ HalvesCounted /\ JobsCounted /\ DataKept /\ GettersHold
  BY DEF RefsInv
<1> DEFINE v == [getter[g] EXCEPT !.pc = "use"]
<1>1. v \in GetterState /\ v.pc = "use" /\ v.s = getter[g].s
  BY <1>0 DEF TypeOK, GetterState, Places
<1>2. /\ UNCHANGED <<hi, open, stage, asserted>> /\ lo' = lo - 1
      /\ getter' = [getter EXCEPT ![g] = v] /\ getter[g].pc = "unhold"
  BY <1>0 DEF get_unhold, Unhold
<1> HIDE DEF v
<1>3. /\ Cardinality(Raising') = Cardinality(Raising) /\ Cardinality(Holding') = Cardinality(Holding) - 1
      /\ \A s \in Socks : Cardinality(UsersOf(s)') = Cardinality(UsersOf(s))
  <2>1. /\ Cardinality(Raising') = Cardinality(Raising)
              + Bit(v.pc \in {"hold", "lower"}) - Bit(getter[g].pc \in {"hold", "lower"})
        /\ Cardinality(Holding') = Cardinality(Holding)
              + Bit(v.pc \in {"incref", "unhold"}) - Bit(getter[g].pc \in {"incref", "unhold"})
        /\ \A s \in Socks :
              Cardinality(UsersOf(s)') = Cardinality(UsersOf(s)) + Bit(v.s = s) - Bit(getter[g].s = s)
    BY <1>0, <1>1, <1>2, GetterMoves
  <2> QED BY SMT, <1>1, <1>2, <2>1, Sizes DEF Bit
<1>4. HalvesCounted' /\ GettersHold'
  BY SMT, <1>0, <1>1, <1>2, <1>3, Sizes DEF HalvesCounted, GettersHold, TypeOK, GetterState, Bit
<1>5. CASE lo = 1 /\ hi = 0
  <2>1. data \in Socks /\ data' = NoSock /\ refs' = [refs EXCEPT ![data] = @ - 1]
    BY <1>0, <1>2, <1>5 DEF get_unhold, Unhold, DataKept, TypeOK
  <2>2. TypeOK'
    BY SMT, <1>0, <1>1, <1>2, <2>1 DEF TypeOK
  <2>3. JobsCounted'
    BY SMT, <1>0, <1>2, <1>3, <2>1, Sizes DEF JobsCounted, TypeOK, Bit
  <2>4. Holding' = {} /\ Raising' = {} /\ stage # "live"
    <3>1. g \in Holding
      BY <1>2 DEF Holding
    <3>2. Cardinality(Holding) = 1 /\ stage # "live" /\ Cardinality(Raising) = 0
      BY SMT, <1>0, <1>5, <3>1, Sizes DEF HalvesCounted, Bit
    <3>3. Holding' \in SUBSET Getters /\ Raising' \in SUBSET Getters
      BY DEF Holding, Raising
    <3> QED BY SMT, <1>3, <3>2, <3>3, GettersFinite
  <2>5. DataKept'
    BY <1>0, <1>2, <2>1, <2>4 DEF DataKept, Holding, Raising
  <2> QED BY <1>4, <2>2, <2>3, <2>5 DEF RefsInv
<1>6. CASE ~(lo = 1 /\ hi = 0)
  <2>1. UNCHANGED <<data, refs>>
    BY <1>6 DEF get_unhold, Unhold
  <2>2. TypeOK' /\ DataKept'
    BY SMT, <1>0, <1>1, <1>2, <2>1 DEF TypeOK, GetterState, DataKept
  <2>3. JobsCounted'
    BY SMT, <1>0, <1>2, <1>3, <2>1 DEF JobsCounted
  <2> QED BY <1>4, <2>2, <2>3 DEF RefsInv
<1> QED BY <1>5, <1>6

\* The getter gives its reference back.
LEMMA ReturnStep == ASSUME RefsInv, NEW g \in Getters, get_return(g) PROVE RefsInv'
<1> USE DescriptorAssumption
<1>0. TypeOK /\ HalvesCounted /\ JobsCounted /\ DataKept /\ GettersHold
  BY DEF RefsInv
<1> DEFINE v == At("idle")
<1>1. v \in GetterState /\ v.pc = "idle" /\ v.s = NoSock
  BY AtType DEF Places
<1>2. /\ UNCHANGED <<hi, lo, data, open, stage, asserted>>
      /\ getter' = [getter EXCEPT ![g] = v] /\ getter[g].pc = "use"
      /\ getter[g].s \in Socks /\ refs' = [refs EXCEPT ![getter[g].s] = @ - 1]
  BY <1>0 DEF get_return, GettersHold, TypeOK, GetterState
<1> HIDE DEF v
<1>3. /\ Cardinality(Raising') = Cardinality(Raising) /\ Cardinality(Holding') = Cardinality(Holding)
      /\ \A s \in Socks : Cardinality(UsersOf(s)') = Cardinality(UsersOf(s)) - Bit(getter[g].s = s)
  <2>1. /\ Cardinality(Raising') = Cardinality(Raising)
              + Bit(v.pc \in {"hold", "lower"}) - Bit(getter[g].pc \in {"hold", "lower"})
        /\ Cardinality(Holding') = Cardinality(Holding)
              + Bit(v.pc \in {"incref", "unhold"}) - Bit(getter[g].pc \in {"incref", "unhold"})
        /\ \A s \in Socks :
              Cardinality(UsersOf(s)') = Cardinality(UsersOf(s)) + Bit(v.s = s) - Bit(getter[g].s = s)
    BY <1>0, <1>1, <1>2, GetterMoves
  <2> QED BY SMT, <1>1, <1>2, <2>1, Sizes DEF Bit
<1>4. TypeOK' /\ DataKept' /\ GettersHold'
  BY SMT, <1>0, <1>1, <1>2 DEF TypeOK, GetterState, DataKept, GettersHold
<1>5. HalvesCounted' /\ JobsCounted'
  BY SMT, <1>0, <1>2, <1>3, Sizes DEF HalvesCounted, JobsCounted, TypeOK, Bit
<1> QED BY <1>4, <1>5 DEF RefsInv

-----------------------------------------------------------------------------
\* The inductive invariant of the reference word holds in all behaviours.
THEOREM RefsInductive == Spec => []RefsInv
<1>1. RefsInv /\ [Next]_vars => RefsInv'
  <2> SUFFICES ASSUME RefsInv, [Next]_vars PROVE RefsInv'
    OBVIOUS
  <2>1. CASE UNCHANGED vars
    <3>1. UNCHANGED <<Raising, Holding>> /\ \A s : UsersOf(s)' = UsersOf(s)
      BY <2>1, GettersStay DEF vars
    <3> QED BY <2>1, <3>1 DEF vars, RefsInv, TypeOK, HalvesCounted, JobsCounted, DataKept, GettersHold
  <2>2. CASE Next
    BY <2>2, AllocStep, FailStep, CloseStep, FreeStep, CheckStep, RaiseStep, LowerStep, HoldStep,
       IncrefStep, UnholdStep, ReturnStep DEF Next
  <2> QED BY <2>1, <2>2
<1> QED BY <1>1, InitRefsInv, PTL DEF Spec

\* For any number of threads and any succession of sockets on a descriptor:
\* connection_get_by_fd takes its reference from a job that has references left, and neither
\* it nor ev->data ever refers to a job that may be destroyed.
THEOREM GettersAreSafe == Spec => []GetterHoldsLiveJob
<1>1. RefsInv => GetterHoldsLiveJob
  <2> SUFFICES ASSUME RefsInv PROVE GetterHoldsLiveJob
    OBVIOUS
  <2>0. TypeOK /\ JobsCounted /\ DataKept
    BY DEF RefsInv
  <2>1. data # NoSock => refs[data] > 0
    BY SMT, <2>0, Sizes DEF TypeOK, JobsCounted, Bit
  <2>2. ASSUME NEW g \in Getters, getter[g].s # NoSock PROVE refs[getter[g].s] > 0
    <3>1. getter[g].s \in Socks /\ UsersOf(getter[g].s) # {}
      BY <2>0, <2>2 DEF TypeOK, GetterState, UsersOf
    <3> QED BY SMT, <2>0, <3>1, Sizes DEF JobsCounted, Bit
  <2> QED BY <2>0, <2>1, <2>2 DEF DataKept, GetterHoldsLiveJob
<1> QED BY <1>1, RefsInductive, PTL
=============================================================================
