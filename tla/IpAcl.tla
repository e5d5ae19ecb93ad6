------------------------------- MODULE IpAcl --------------------------------
(***************************************************************************)
(* The IP access lists of net/net-ip-acl.c: two files of CIDR ranges, read   *)
(* at start and again on SIGHUP, and the verdict on a client's address.      *)
(*                                                                           *)
(* An IPv4 address is a number of V4_BITS bits, an IPv6 address a sequence   *)
(* of V6_BYTES bytes of BYTE_BITS bits; the widths are parameters so that    *)
(* every address can be tried.  A line of a file is [family, addr, prefix]:  *)
(* family "skip" for an empty line or a comment, "bad" for text that is no   *)
(* address, prefix NoPrefix when there is no '/'.                            *)
(***************************************************************************)
EXTENDS Integers, Sequences

CONSTANTS
    BYTE_BITS,      \* 8
    V4_BYTES,       \* 4
    V6_BYTES,       \* 16
    Listings,       \* sequence of file contents; "missing" is not among them
    NoPrefix,
    MaxReloads      \* bound: SIGHUPs in a behaviour

VARIABLES
    on_disk,    \* per list: 0 (no such file) or the index of its contents
    given,      \* per list: blocklist_file / allowlist_file is set
    current,    \* per list: the rules in force, or NoRules
    source,     \* per list: the contents the rules were read from
    up,         \* "off", "on", or "failed": the first load was fatal
    hups

aclVars == <<on_disk, given, current, source, up, hups>>

Lists == {"block", "allow"}

V4_BITS == V4_BYTES * BYTE_BITS

V6_BITS == V6_BYTES * BYTE_BITS

NoRules == << >>

-----------------------------------------------------------------------------
(* Masks.                                                                   *)

\* addr & (0xFFFFFFFF << (32 - prefix_len)), with the shifts by 0 and by the
\* full width taken apart, as a shift by the full width is undefined in C.
mask_v4(addr, prefix_len) ==
    IF prefix_len <= 0 THEN 0
    ELSE IF prefix_len >= V4_BITS THEN addr
    ELSE LET unit == 2^(V4_BITS - prefix_len) IN (addr \div unit) * unit

MaskByte(b, bits) ==
    IF bits >= BYTE_BITS THEN b
    ELSE IF bits > 0 THEN LET unit == 2^(BYTE_BITS - bits) IN (b \div unit) * unit
    ELSE 0

mask_v6(addr, prefix_len) ==
    [i \in 1..V6_BYTES |-> MaskByte(addr[i], prefix_len - (i - 1) * BYTE_BITS)]

-----------------------------------------------------------------------------
(* Reading a list.                                                          *)

Prefix(line) ==
    IF line.prefix # NoPrefix THEN line.prefix
    ELSE IF line.family = "v4" THEN V4_BITS ELSE V6_BITS

\* ip_acl_parse_cidr accepts the line.
Parses(line) ==
    /\ line.family \in {"v4", "v6"}
    /\ Prefix(line) \in 0..(IF line.family = "v4" THEN V4_BITS ELSE V6_BITS)

ip_acl_parse_cidr(line) ==
    [family |-> line.family, prefix_len |-> Prefix(line),
     addr |-> IF line.family = "v4" THEN mask_v4(line.addr, Prefix(line))
              ELSE mask_v6(line.addr, Prefix(line))]

\* Lines that do not parse are passed over.
ip_acl_load(lines) ==
    LET good == SelectSeq(lines, Parses)
    IN  [i \in DOMAIN good |-> ip_acl_parse_cidr(good[i])]


\* A file that cannot be read leaves the old list; without one it is fatal.
ip_acl_reload(l) ==
    IF given[l] /\ on_disk[l] # 0 THEN ip_acl_load(Listings[on_disk[l]]) ELSE current[l]

LoadFails(l) == given[l] /\ on_disk[l] = 0 /\ source[l] = 0

-----------------------------------------------------------------------------
(* The verdict.                                                             *)

match_v4(rule, ip) == rule.family = "v4" /\ mask_v4(ip, rule.prefix_len) = rule.addr

match_v6(rule, ip) == rule.family = "v6" /\ mask_v6(ip, rule.prefix_len) = rule.addr

acl_contains_v4(acl, ip) == \E i \in DOMAIN acl : match_v4(acl[i], ip)

acl_contains_v6(acl, ip) == \E i \in DOMAIN acl : match_v6(acl[i], ip)

\* ::ffff:a.b.c.d -- zeros, then a full byte, then the IPv4 address.  The
\* value 0 also stands for "not mapped".
MappedPrefix ==
    [i \in 1..(V6_BYTES - V4_BYTES) |->
        IF i = V6_BYTES - V4_BYTES THEN 2^BYTE_BITS - 1 ELSE 0]

v6_to_v4_mapped(ip) ==
    LET num[i \in 0..V4_BYTES] ==
            IF i = 0 THEN 0
            ELSE num[i - 1] * 2^BYTE_BITS + ip[V6_BYTES - V4_BYTES + i]
    IN  IF \A i \in DOMAIN MappedPrefix : ip[i] = MappedPrefix[i] THEN num[V4_BYTES] ELSE 0

\* An allowlist with a rule decides alone; else a blocklist does.
ip_acl_check_v4(ip) ==
    IF current["allow"] # NoRules THEN acl_contains_v4(current["allow"], ip)
    ELSE ~acl_contains_v4(current["block"], ip)

ContainsEither(acl, ip) ==
    \/ acl_contains_v6(acl, ip)
    \/ v6_to_v4_mapped(ip) # 0 /\ acl_contains_v4(acl, v6_to_v4_mapped(ip))

ip_acl_check_v6(ip) ==
    IF current["allow"] # NoRules THEN ContainsEither(current["allow"], ip)
    ELSE ~ContainsEither(current["block"], ip)

-----------------------------------------------------------------------------
Init ==
    /\ on_disk \in [Lists -> 0..Len(Listings)]
    /\ given \in [Lists -> BOOLEAN]
    /\ current = [l \in Lists |-> NoRules] /\ source = [l \in Lists |-> 0]
    /\ up = "off" /\ hups = 0

Reload ==
    /\ current' = [l \in Lists |-> ip_acl_reload(l)]
    /\ source' = [l \in Lists |-> IF given[l] /\ on_disk[l] # 0 THEN on_disk[l] ELSE source[l]]
    /\ UNCHANGED <<on_disk, given>>

\* mtfront_pre_init
Start ==
    /\ up = "off"
    /\ Reload
    /\ up' = IF \E l \in Lists : LoadFails(l) THEN "failed" ELSE "on"
    /\ UNCHANGED hups

\* mtfront_sighup_handler
Hup ==
    /\ up = "on" /\ hups < MaxReloads
    /\ Reload
    /\ hups' = hups + 1
    /\ UNCHANGED up

EditList(l, n) ==
    /\ up = "on" /\ given[l] /\ n # on_disk[l]
    /\ on_disk' = [on_disk EXCEPT ![l] = n]
    /\ UNCHANGED <<given, current, source, up, hups>>

Next == Start \/ Hup \/ \E l \in Lists, n \in 0..Len(Listings) : EditList(l, n)

Spec == Init /\ [][Next]_aclVars

-----------------------------------------------------------------------------
TypeOK ==
    /\ on_disk \in [Lists -> 0..Len(Listings)] /\ source \in [Lists -> 0..Len(Listings)]
    /\ given \in [Lists -> BOOLEAN] /\ up \in {"off", "on", "failed"} /\ hups \in 0..MaxReloads

\* Bit i (from the most significant) of a number of n bits, of a sequence of
\* bytes.
Bit4(a, i) == (a \div 2^(V4_BITS - i)) % 2

Bit6(a, i) ==
    LET j == (i - 1) \div BYTE_BITS
    IN  (a[j + 1] \div 2^(BYTE_BITS - (i - j * BYTE_BITS))) % 2

InRange4(line, a) ==
    line.family = "v4" /\ Parses(line) /\ \A i \in 1..Prefix(line) : Bit4(a, i) = Bit4(line.addr, i)

InRange6(line, a) ==
    line.family = "v6" /\ Parses(line) /\ \A i \in 1..Prefix(line) : Bit6(a, i) = Bit6(line.addr, i)

Lines(l) == IF source[l] = 0 THEN <<>> ELSE Listings[source[l]]

Admits(listed(_)) ==
    IF \E i \in DOMAIN Lines("allow") : Parses(Lines("allow")[i])
    THEN listed(Lines("allow")) ELSE ~listed(Lines("block"))

Bytes == 0..(2^BYTE_BITS - 1)

Mapped(a) ==
    [i \in 1..V6_BYTES |->
        IF i <= V6_BYTES - V4_BYTES THEN MappedPrefix[i]
        ELSE (a \div 2^((V6_BYTES - i) * BYTE_BITS)) % 2^BYTE_BITS]

=============================================================================
