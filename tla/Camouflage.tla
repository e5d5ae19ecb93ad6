----------------------------- MODULE Camouflage -----------------------------
(***************************************************************************)
(* The domains a fake-TLS listener stands for (net-tcp-rpc-ext-domain.c)   *)
(* and what it learns of the servers behind them when it starts            *)
(* (update_domain_info and init_one_domain of net-tcp-rpc-ext-server.c).   *)
(* A domain is a sequence of labels; a probe is a socket on which a        *)
(* ClientHello is written and an answer read in three parts.               *)
(***************************************************************************)
EXTENDS Integers, Sequences, FiniteSets, FiniteSetsExt, SequencesExt

CONSTANTS
  TRIES,             \* probes of a domain
  EncryptedSizes     \* sizes of the encrypted part of an answer

VARIABLES
  host,              \* how the backend is named: "address", "name", "unresolved" or "unix"
  probe,             \* the probes, by number
  answers,           \* the answers taken in, in the order they finished
  info,              \* what is known of the domain; target: an address is known
  stage              \* "start", "probing" or "done"

vars == <<host, probe, answers, info, stage>>

-----------------------------------------------------------------------------
(* Registration and lookup of domains.                                     *)

Labels(d) == Range(d)

\* A wildcard that also stands for several labels.
MutantMatch(pattern, sni) == Len(sni) >= Len(pattern) /\ IsSuffix(Tail(pattern), sni)

\* wildcard_match: exactly one label in place of the star.
wildcard_match(pattern, sni) ==
  /\ Len(sni) = Len(pattern) /\ Tail(sni) = Tail(pattern)
  /\ Head(sni) \notin {"*", ""}

\* is_wildcard_domain.
is_wildcard_domain(d) == /\ Len(d) >= 3 /\ d[1] = "*"
                         /\ \A i \in 2..Len(d) : d[i] \notin {"*", ""}

\* tcp_rpc_add_proxy_domain: a domain whose backend and port can be read, a
\* wildcard only with a backend of its own.
Registers(d) ==
  /\ d.backend # "bad" /\ d.port \in 1..65535
  /\ Head(d.name) = "*" => is_wildcard_domain(d.name) /\ d.backend # "none"
tcp_rpc_add_proxy_domain(t, d) ==
  IF ~Registers(d) THEN t
  ELSE [t EXCEPT !.domains = IF Head(d.name) = "*" THEN @ ELSE <<d>> \o @,
                 !.wildcard_domains = IF Head(d.name) = "*" THEN <<d>> \o @ ELSE @,
                 !.default_domain_info = IF t.allow_only_tls THEN @ ELSE <<d>>,
                 !.allow_only_tls = TRUE]
NoDomains == [domains |-> <<>>, wildcard_domains |-> <<>>, default_domain_info |-> <<>>,
              allow_only_tls |-> FALSE]
Registered(ds) == FoldLeft(tcp_rpc_add_proxy_domain, NoDomains, ds)

\* get_domain_info: the name itself, then the wildcards.
FirstWith(seq, P(_)) ==
  LET i == SelectInSeq(seq, P) IN IF i = 0 THEN <<>> ELSE <<seq[i]>>
get_domain_info(t, sni) ==
  LET exact == FirstWith(t.domains, LAMBDA d : d.name = sni)
  IN IF exact # <<>> THEN exact
     ELSE FirstWith(t.wildcard_domains, LAMBDA d : wildcard_match(d.name, sni))

-----------------------------------------------------------------------------
(* Probing.                                                                *)

Unknown == [target |-> FALSE, is_reversed_extension_order |-> FALSE,
            use_random_encrypted_size |-> FALSE, server_hello_encrypted_size |-> 0]
Init ==
  /\ host \in {"address", "name", "unresolved", "unix"}
  /\ probe = [i \in 1..TRIES |-> "none"] /\ answers = <<>>
  /\ info = Unknown /\ stage = "start"

Done(x) == info' = x /\ stage' = "done"

\* init_one_domain when nothing could be learnt: the addresses are kept as they
\* are and the size is any of a range, of which the ends are taken.
DefaultSizes == {2500, 2500 + 1119}
Fallback(x) ==
  \E n \in DefaultSizes : Done([x EXCEPT !.is_reversed_extension_order = FALSE,
                                        !.use_random_encrypted_size = TRUE,
                                        !.server_hello_encrypted_size = n])

\* The host is an address or is resolved, and the sockets connect at once or
\* later; the first that cannot ends it.
StartProbes ==
  /\ stage = "start"
  /\ \/ /\ host \in {"unix", "unresolved"}
        /\ Fallback(info) /\ UNCHANGED <<probe, answers>>
     \/ /\ host \in {"address", "name"}
        /\ \/ Fallback([info EXCEPT !.target = (host = "address")]) /\ UNCHANGED probe
           \/ Fallback([info EXCEPT !.target = TRUE]) /\ UNCHANGED probe
           \/ /\ stage' = "probing" /\ info' = [info EXCEPT !.target = TRUE]
              /\ probe' = [i \in 1..TRIES |-> "connecting"]
        /\ UNCHANGED answers
  /\ UNCHANGED host

Advance(i, from, to) ==
  /\ stage = "probing" /\ probe[i] = from
  /\ probe' = [probe EXCEPT ![i] = to]
  /\ UNCHANGED <<host, answers, info, stage>>

WriteRequest(i) == Advance(i, "connecting", "written")
ReadHeader(i) == Advance(i, "written", "header")
ReadLength(i) == Advance(i, "header", "length")


\* The size of an answer from the sizes of all.
LearntSize(as) ==
  LET sizes == {as[i].size : i \in DOMAIN as}
      sum == FoldLeft(LAMBDA a, x : a + x.size, 0, as)
  IN CASE Max(sizes) = Min(sizes) -> [random |-> FALSE, size |-> Min(sizes)]
       [] Max(sizes) # Min(sizes) /\ Max(sizes) - Min(sizes) <= 3 ->
            [random |-> TRUE, size |-> Max(sizes) - 1]
       [] OTHER -> [random |-> TRUE, size |-> (2 * sum + TRIES) \div (2 * TRIES)]
Learnt(as) ==
  [info EXCEPT !.is_reversed_extension_order = \A i \in DOMAIN as : as[i].reversed,
               !.use_random_encrypted_size = LearntSize(as).random,
               !.server_hello_encrypted_size = LearntSize(as).size]

\* The rest of an answer is read and passes tls_check_server_hello.
FinishProbe(i) ==
  /\ stage = "probing" /\ probe[i] = "length"
  /\ probe' = [probe EXCEPT ![i] = "finished"]
  /\ \E size \in EncryptedSizes, reversed \in BOOLEAN :
       answers' = Append(answers, [size |-> size, reversed |-> reversed])
  /\ IF Len(answers') = TRIES THEN Done(Learnt(answers')) ELSE UNCHANGED <<info, stage>>
  /\ UNCHANGED host

\* An error on any socket, an answer that is not TLS 1.3, or 5 seconds.
ProbesFail ==
  /\ stage = "probing"
  /\ Fallback(info) /\ UNCHANGED <<host, probe, answers>>

Next == \/ StartProbes \/ ProbesFail
        \/ \E i \in 1..TRIES : WriteRequest(i) \/ ReadHeader(i) \/ ReadLength(i) \/ FinishProbe(i)

Spec == Init /\ [][Next]_vars

\* get_domain_server_hello_encrypted_size: the sizes an answer may have.
NOISE == 32
MIN_SIZE == 1000
EncryptedSize(x) ==
  IF ~x.use_random_encrypted_size THEN {x.server_hello_encrypted_size}
  ELSE {IF n < MIN_SIZE THEN MIN_SIZE ELSE n :
          n \in (x.server_hello_encrypted_size - NOISE)..(x.server_hello_encrypted_size + NOISE)}

-----------------------------------------------------------------------------
TypeOK == /\ stage \in {"start", "probing", "done"} /\ Len(answers) <= TRIES
          /\ \A i \in 1..TRIES :
               probe[i] \in {"none", "connecting", "written", "header", "length", "finished"}

\* A name is served by the domain of that name that was registered last, else
\* by the last wildcard whose star stands for its first label; the first domain
\* registered is the default.
DomainSound(ds, sni) ==
  LET t == Registered(ds)
      ok == SelectSeq(ds, Registers)
      exact == SelectSeq(ok, LAMBDA d : d.name = sni /\ Head(d.name) # "*")
      wild == SelectSeq(ok, LAMBDA d : /\ Head(d.name) = "*" /\ Head(sni) # "*"
                                       /\ sni = <<sni[1]>> \o Tail(d.name))
      best == IF exact # <<>> THEN exact ELSE wild
  IN /\ get_domain_info(t, sni) = IF best = <<>> THEN <<>> ELSE <<Last(best)>>
     /\ t.default_domain_info = IF ok = <<>> THEN <<>> ELSE <<Head(ok)>>
     /\ t.allow_only_tls = (ok # <<>>)

\* Probing.  Settings are learnt only from TRIES
\* complete answers, and then the sizes an answer of the proxy may have are
\* within the noise of the sizes the server was seen to use, and one size only if
\* the server had one; an address that was found is kept when probing fails, so
\* that connections can still be passed on.
CamouflageSound ==
  stage = "done" =>
       LET sizes == {answers[i].size : i \in DOMAIN answers} IN
       /\ host = "address" => info.target
       /\ probe # [i \in 1..TRIES |-> "none"] => info.target
       /\ Len(answers) = TRIES =>
            /\ \A n \in EncryptedSize(info) : n <= Max(sizes) + NOISE /\ n >= Min(sizes) - NOISE
            /\ Max(sizes) \in EncryptedSize(info) \/ Max(sizes) - Min(sizes) > NOISE
            /\ Cardinality(sizes) = 1 <=> Cardinality(EncryptedSize(info)) = 1
       /\ Len(answers) < TRIES => /\ ~info.is_reversed_extension_order
                                  /\ info.server_hello_encrypted_size \in DefaultSizes
=============================================================================
