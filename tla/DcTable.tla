------------------------------- MODULE DcTable -------------------------------
(***************************************************************************)
(* The table of datacenters of direct mode (mtproto-dc-table.c): addresses *)
(* built in for production and test datacenters, and overrides.  An        *)
(* address is the name of a built-in one or the host of an override.       *)
(***************************************************************************)
EXTENDS Integers, Sequences, FiniteSetsExt, SequencesExt

CONSTANTS MAX_OVERRIDES, DC_MAX_ADDRS,
          Hosts          \* hosts that parse as an address; any other does not

\* dc_table_init.
prod_table == [i \in 1..5 |-> [dc_id |-> i, addrs |-> <<<<"prod", i>>>>]]
test_table == [i \in 1..3 |-> [dc_id |-> i, addrs |-> <<<<"test", i>>>>]]

Entries(table, id) == SelectInSeq(table, LAMBDA x : x.dc_id = id)

\* The entry a new override is added to; it is counted before its host is read.
EntryFor(table, id) ==
  IF Entries(table, id) = 0 /\ Len(table) < MAX_OVERRIDES
  THEN Append(table, [dc_id |-> id, addrs |-> <<>>]) ELSE table

\* direct_dc_override.
direct_dc_override(table, o) ==
  LET t == EntryFor(table, o.dc)
      i == Entries(t, o.dc)
  IN IF i = 0 \/ o.host \notin Hosts THEN t
     ELSE IF Len(t[i].addrs) >= DC_MAX_ADDRS THEN t
     ELSE [t EXCEPT ![i].addrs = Append(@, <<"override", o.host>>)]
override_table(overrides) == FoldLeft(direct_dc_override, <<>>, overrides)

\* The origin of a CDN datacenter.
Origin(id) == IF id > 200 /\ id < 300 THEN id - 200 ELSE id

\* direct_dc_lookup: the addresses, or no entry.
direct_dc_lookup(overrides, dc) ==
  LET abs == IF dc < 0 THEN -dc ELSE dc
      test == abs >= 10000
      id == IF test THEN abs - 10000 ELSE abs
      o == override_table(overrides)
      builtin == IF test THEN test_table ELSE prod_table
      table == IF Entries(o, id) # 0 THEN o ELSE builtin
      i == IF Entries(o, id) # 0 THEN Entries(o, id) ELSE Entries(builtin, Origin(id))
  IN IF i = 0 THEN [found |-> FALSE, addrs |-> <<>>]
     ELSE [found |-> TRUE, addrs |-> table[i].addrs]

\* What a datacenter number means: media datacenters share the addresses of
\* their positive counterparts, CDN datacenters those of their origin, and the
\* overrides of a number are all its addresses, in their order.
Overridden(overrides, dc) == SelectSeq(overrides, LAMBDA o : o.dc = dc)
LookupSound(overrides, dc) ==
  LET found == direct_dc_lookup(overrides, dc)
      plain == dc % 10000
  IN /\ direct_dc_lookup(overrides, -dc) = found
     /\ Overridden(overrides, plain) # <<>> =>
          /\ found.found /\ \A i \in DOMAIN found.addrs : found.addrs[i][1] = "override"
          /\ {found.addrs[i][2] : i \in DOMAIN found.addrs}
               \subseteq {o.host : o \in Range(Overridden(overrides, plain))} \cap Hosts
     /\ (plain \in 1..99 /\ Overridden(overrides, plain) = <<>> /\ Overridden(overrides, plain + 200) = <<>>)
          => direct_dc_lookup(overrides, dc + 200) = found
=============================================================================
