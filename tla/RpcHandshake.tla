---------------------------- MODULE RpcHandshake ----------------------------
(***************************************************************************)
(* The handshake of the internal RPC protocol (net-tcp-rpc-client.c and    *)
(* net-tcp-rpc-server.c over net-tcp-rpc-common.c, keys of net-crypto-*.c): *)
(* nonce packets numbered -2, handshake packets numbered -1, then data.    *)
(* One client "c" and one server "s" over one TCP connection.  A packet is *)
(* framed (numbered and check-summed) and encrypted at different moments:  *)
(* tcp_rpc_conn_send leaves both to the next run of the writer, _send_im   *)
(* frames at once, and _send_init frames and puts the packet on the socket *)
(* past the encryption.  The two sides must change keys and check sum at   *)
(* the same place of the stream.                                           *)
(***************************************************************************)
EXTENDS Integers, Sequences, SequencesExt, FiniteSets

CONSTANTS
  Setups,      \* the pairs of configurations the two processes may have
  MaxPings     \* bound on the pings the client's engine sends

VARIABLES
  cfg,         \* side -> its configuration (set once)
  d,           \* side -> struct tcp_rpc_data and the crypto of the connection
  outq,        \* side -> c->out_queue, packets not yet framed
  out,         \* side -> c->out, packets framed and not yet encrypted
  wire,        \* side -> what it has sent and the peer has not read
  in,          \* side -> c->in, packets decrypted and not yet parsed
  pc,          \* side -> "idle", or "parse" between the reader and the writer
  pings        \* pings sent so far

vars == <<cfg, d, outq, out, wire, in, pc, pings>>

Sides == {"c", "s"}
Peer(p) == IF p = "c" THEN "s" ELSE "c"

\* net-tcp-rpc-common.h RPCF_*: what rpc_check_perm may return.
RPCF == {"ALLOW_UNENC", "ALLOW_ENC", "REQ_DH", "ALLOW_SKIP_DH"}
NoKey == [write |-> "plain", read |-> "plain"]

-----------------------------------------------------------------------------
\* matches_pid: X is a special case of Y, whose zero fields match anything.
matches_pid(X, Y) == \A f \in DOMAIN Y : Y[f] = 0 \/ X[f] = Y[f]

\* select_best_key_signature: the only key there is, if the peer offers it.
select_best_key_signature(p, select, extra) ==
  IF cfg[p].key = select \/ cfg[p].key \in extra THEN cfg[p].key ELSE 0

\* aes_create_keys: each side writes under its own role and reads under the
\* other's; everything else that goes in must be equal for the keys to agree.
aes_create_keys(role, ts, addr, secret, temp) ==
  [write |-> <<role, ts, addr, secret, temp>>,
   read |-> <<Peer(role), ts, addr, secret, temp>>]

\* A packet's length in 4-byte words, with its 12 bytes of framing.
Words(b) == CASE b.t = "fill" -> 1
              [] b.t = "nonce" /\ b.schema = "AES_DH" -> 77
              [] b.t \in {"nonce", "handshake"} -> 11
              [] b.t = "hs_error" -> 8
              [] OTHER -> 6
Length(s) == FoldLeft(LAMBDA n, k : n + Words(k.body), 0, s)

\* The framing of tcp_rpc_conn_send_init, _send_im and tcp_rpc_write_packet.
Frame(p, n, b) == [num |-> n, crc |-> d[p].crc, body |-> b]

\* tcp_rpc_flush: under encryption, empty packets fill the last block.
tcp_rpc_flush(p, s) ==
  IF d[p].crypto = NoKey THEN s
  ELSE s \o [i \in 1..((-Length(s)) % 4) |-> [num |-> 0, crc |-> "none", body |-> [t |-> "fill"]]]

\* cpu_tcp_aes_crypto_encrypt_output: how many packets leave c->out whole.
Whole(p, s) == IF d[p].crypto = NoKey \/ Length(s) % 4 = 0 THEN Len(s) ELSE Len(s) - 1

-----------------------------------------------------------------------------
\* tcp_rpc_conn_send_data, from the connection's own handlers.
tcp_rpc_conn_send_data(p, b) ==
  /\ outq' = [outq EXCEPT ![p] = Append(@, b)]
  /\ UNCHANGED <<out, wire>>

\* tcp_rpc_conn_send_data_im frames the packet now.
tcp_rpc_conn_send_data_im(p, b) ==
  /\ out' = [out EXCEPT ![p] = Append(@, Frame(p, d[p].out_num, b))]
  /\ UNCHANGED <<outq, wire>>

\* tcp_rpc_conn_send_data_init frames it and passes it to the socket in clear.
tcp_rpc_conn_send_data_init(p, b) ==
  /\ wire' = [wire EXCEPT ![p] = Append(@, Frame(p, d[p].out_num, b) @@ [key |-> "plain"])]
  /\ UNCHANGED <<outq, out>>

\* fail_connection: no handler runs any more and the peer sees the end.
fail_connection(p, err) == [d[p] EXCEPT !.status = "failed", !.err = err]

Nonce(p, schema, dh) ==
  [t |-> "nonce", schema |-> schema, key |-> IF schema = "NONE" THEN 0 ELSE cfg[p].key,
   ts |-> IF schema = "NONE" THEN 0 ELSE cfg[p].now, dh |-> dh]

\* tcp_rpcc_connected and tcp_rpcc_init_crypto, tcp_rpcs_init_accepted: the
\* permissions of the connection; the client sends its nonce at once.
NewData(p) ==
  [flags |-> cfg[p].perm, in_num |-> -2, out_num |-> -2, crc |-> "crc32",
   crypto |-> NoKey, temp |-> p = "c" /\ {"ALLOW_ENC", "REQ_DH"} \subseteq cfg[p].perm,
   isdh |-> FALSE, remote |-> IF p = "c" THEN cfg["c"].target ELSE [ip |-> 0, port |-> 0, pid |-> 0],
   ready |-> FALSE, status |-> "working", err |-> "none"]

tcp_rpcc_init_crypto ==
  LET f == cfg["c"].perm IN
  IF "ALLOW_ENC" \notin f THEN Nonce("c", "NONE", FALSE)
  ELSE IF "REQ_DH" \in f THEN Nonce("c", "AES_DH", TRUE) ELSE Nonce("c", "AES", FALSE)

Init ==
  /\ cfg \in Setups
  /\ d = [p \in Sides |-> NewData(p)]
  /\ outq = [p \in Sides |-> IF p = "c" THEN <<tcp_rpcc_init_crypto>> ELSE <<>>]
  /\ out = [p \in Sides |-> <<>>] /\ wire = [p \in Sides |-> <<>>] /\ in = [p \in Sides |-> <<>>]
  /\ pc = [p \in Sides |-> "idle"] /\ pings = 0

-----------------------------------------------------------------------------
(* One run of the connection job: the reader, the parser packet by packet, *)
(* the writer.                                                             *)

\* cpu_tcp_server_reader: everything that has arrived, which may be less
\* than was sent, is decrypted with the key of this moment.
cpu_tcp_server_reader(p) ==
  /\ pc[p] = "idle" /\ d[p].status = "working"
  /\ \E n \in 0..Len(wire[Peer(p)]) :
       /\ in' = [in EXCEPT ![p] = @ \o
            [i \in 1..n |-> wire[Peer(p)][i] @@ [good |-> wire[Peer(p)][i].key = d[p].crypto.read]]]
       /\ wire' = [wire EXCEPT ![Peer(p)] = SubSeq(@, n + 1, Len(@))]
       /\ n > 0 \/ outq[p] # <<>> \/ out[p] # <<>>
  /\ pc' = [pc EXCEPT ![p] = "parse"]
  /\ UNCHANGED <<cfg, d, outq, out, pings>>

\* cpu_tcp_server_writer: frames the queue with the check sum of this moment,
\* pads, encrypts with the key of this moment.  After a failure the socket may
\* be closed before it has sent what it is given.
cpu_tcp_server_writer(p) ==
  LET s == tcp_rpc_flush(p, out[p] \o [i \in 1..Len(outq[p]) |->
                                         Frame(p, d[p].out_num + i - 1, outq[p][i])])
      n == Whole(p, s)
  IN /\ pc[p] = "parse" /\ (in[p] = <<>> \/ d[p].status = "failed")
     /\ pc' = [pc EXCEPT ![p] = "idle"]
     /\ d' = [d EXCEPT ![p].out_num = @ + Len(outq[p])]
     /\ outq' = [outq EXCEPT ![p] = <<>>]
     /\ out' = [out EXCEPT ![p] = SubSeq(s, n + 1, Len(s))]
     /\ \/ wire' = [wire EXCEPT ![p] = @ \o [i \in 1..n |-> s[i] @@ [key |-> d[p].crypto.write]]]
        \/ d[p].status = "failed" /\ UNCHANGED wire
     /\ UNCHANGED <<cfg, in, pings>>

\* The checks every packet passes first, in tcp_rpcc_ and tcp_rpcs_parse_execute.
Accepted(p, k) == k.good /\ k.crc = d[p].crc /\ k.num = d[p].in_num

Parsing(p) == pc[p] = "parse" /\ in[p] # <<>> /\ d[p].status = "working"
Consume(p) == /\ in' = [in EXCEPT ![p] = Tail(@)]
              /\ UNCHANGED <<cfg, pc, pings>>
Rejects(p, err) == /\ d' = [d EXCEPT ![p] = fail_connection(p, err)]
                   /\ UNCHANGED <<outq, out, wire>>

\* A packet that is not what its number, its check sum or its key should be
\* closes the connection; an empty packet is skipped.
BadPacket(p) ==
  /\ Parsing(p) /\ Head(in[p]).body.t # "fill" /\ ~Accepted(p, Head(in[p]))
  /\ Rejects(p, "garbled") /\ Consume(p)

SkipFill(p) ==
  /\ Parsing(p) /\ Head(in[p]).body.t = "fill"
  /\ IF Head(in[p]).good THEN UNCHANGED <<d, outq, out, wire>> ELSE Rejects(p, "garbled")
  /\ Consume(p)

Packet(p, t, n) == /\ Parsing(p) /\ Accepted(p, Head(in[p]))
                   /\ Head(in[p]).body.t = t /\ d[p].in_num = n
                   /\ Consume(p)

-----------------------------------------------------------------------------
(* The server.                                                             *)

\* tcp_rpcs_process_nonce_packet: the schema the flags leave, the errors that
\* end the connection, and what the server does not support read as no DH.
server_flags(b) ==
  LET f == d["s"].flags
      enc == b.schema # "NONE" /\ b.key # 0 /\ select_best_key_signature("s", b.key, {}) # 0
                /\ "ALLOW_ENC" \in f
  IN IF enc THEN f \ {"ALLOW_UNENC"} ELSE f \cap {"ALLOW_UNENC"}

server_nonce_error(b) ==
  LET f == server_flags(b) IN
  CASE f = {} -> "-5"
    [] "ALLOW_ENC" \in f /\ (b.ts - cfg["s"].now > 30 \/ cfg["s"].now - b.ts > 30) -> "-6"
    [] {"REQ_DH", "ALLOW_ENC"} \subseteq f /\ ~b.dh /\ "ALLOW_SKIP_DH" \notin f -> "-7"
    [] "REQ_DH" \in f /\ "ALLOW_ENC" \in f /\ b.dh /\ ~cfg["s"].dh_rate -> "-6"
    [] OTHER -> "none"

\* tcp_rpcs_init_crypto and tcp_rpcs_init_fake_crypto: the keys are set and
\* the answering nonce goes out in clear, past them.
tcp_rpcs_process_nonce_packet ==
  LET b == Head(in["s"]).body
      f == server_flags(b)
      g == IF b.dh THEN f ELSE f \ {"REQ_DH", "ALLOW_SKIP_DH"}
      dh == "REQ_DH" \in g /\ "ALLOW_ENC" \in g
      schema == IF "ALLOW_ENC" \notin g THEN "NONE" ELSE IF dh THEN "AES_DH" ELSE "AES"
  IN /\ Packet("s", "nonce", -2)
     /\ IF server_nonce_error(b) # "none" THEN Rejects("s", server_nonce_error(b))
        ELSE /\ d' = [d EXCEPT !["s"].flags = g \cup {"ENC_SENT"}, !["s"].isdh = dh,
                        !["s"].crypto = IF schema = "NONE" THEN NoKey
                          ELSE aes_create_keys("s", b.ts, cfg["s"].addr, cfg["s"].key, dh),
                        !["s"].in_num = -1, !["s"].out_num = @ + 1]
             /\ tcp_rpc_conn_send_data_init("s", Nonce("s", schema, dh))

Handshake(p, flags, remote) ==
  [t |-> "handshake", flags |-> flags, sender |-> cfg[p].pid, peer |-> remote]

\* The answer queued like any other packet would carry the new check sum.
MutantHandshakeQueued ==
  LET b == Head(in["s"]).body
      f == d["s"].flags \cup (b.flags \cap cfg["s"].defaults)
  IN /\ Packet("s", "handshake", -1)
     /\ matches_pid(cfg["s"].pid, b.peer)
     /\ tcp_rpc_conn_send_data("s", Handshake("s", f \cap {"USE_CRC32C"}, b.sender))
     /\ d' = [d EXCEPT !["s"].flags = f, !["s"].remote = b.sender,
                !["s"].crc = IF "USE_CRC32C" \in f THEN "crc32c" ELSE @,
                !["s"].ready = TRUE, !["s"].in_num = 0]

\* tcp_rpcs_process_handshake_packet and tcp_rpcs_send_handshake_packet: the
\* answer is framed with the old check sum before the new one is set.
tcp_rpcs_process_handshake_packet ==
  LET b == Head(in["s"]).body
      f == d["s"].flags \cup (b.flags \cap cfg["s"].defaults)
  IN /\ Packet("s", "handshake", -1)
     /\ \/ /\ matches_pid(cfg["s"].pid, b.peer) \/ cfg["s"].ignore_pid
           /\ tcp_rpc_conn_send_data_im("s", Handshake("s", f \cap {"USE_CRC32C"}, b.sender))
           /\ d' = [d EXCEPT !["s"].flags = f, !["s"].remote = b.sender,
                      !["s"].crc = IF "USE_CRC32C" \in f THEN "crc32c" ELSE @,
                      !["s"].ready = TRUE, !["s"].in_num = 0, !["s"].out_num = @ + 1]
        \/ /\ ~matches_pid(cfg["s"].pid, b.peer) /\ ~cfg["s"].ignore_pid
           /\ tcp_rpc_conn_send_data("s", [t |-> "hs_error"])
           /\ d' = [d EXCEPT !["s"] = fail_connection("s", "-4")]

-----------------------------------------------------------------------------
(* The client.                                                             *)

\* tcp_rpcc_process_nonce_packet and tcp_rpcc_start_crypto.
client_nonce_error(b) ==
  LET f == d["c"].flags
      enc == b.schema # "NONE"
  IN CASE ~enc /\ "ALLOW_UNENC" \notin f -> "-5"
       [] b.schema = "AES_DH" /\ ~("REQ_DH" \in f /\ d["c"].temp) -> "-7"
       [] enc /\ (b.key = 0 \/ select_best_key_signature("c", b.key, {}) = 0) -> "-3"
       [] enc /\ "ALLOW_ENC" \notin f -> "-5"
       [] enc /\ (b.ts - cfg["c"].now > 30 \/ cfg["c"].now - b.ts > 30) -> "-6"
       [] enc /\ "REQ_DH" \in f /\ "ALLOW_SKIP_DH" \notin f /\ ~b.dh -> "-7"
       [] enc /\ (Len(in["c"]) > 1 \/ out["c"] # <<>>) -> "-6"
       [] OTHER -> "none"

tcp_rpcc_process_nonce_packet ==
  LET b == Head(in["c"]).body
      enc == b.schema # "NONE"
  IN /\ Packet("c", "nonce", -2)
     /\ IF client_nonce_error(b) # "none" THEN Rejects("c", client_nonce_error(b))
        ELSE /\ d' = [d EXCEPT !["c"].flags = IF enc THEN @ ELSE {"ALLOW_UNENC"},
                        !["c"].isdh = b.dh, !["c"].temp = IF enc THEN FALSE ELSE @,
                        !["c"].crypto = IF ~enc THEN NoKey
                          ELSE aes_create_keys("c", cfg["c"].now, cfg["c"].addr, cfg["c"].key, b.dh),
                        !["c"].in_num = -1]
             /\ tcp_rpc_conn_send_data("c",
                  Handshake("c", cfg["c"].defaults \cap {"USE_CRC32C"}, d["c"].remote))

\* tcp_rpcc_process_handshake_packet.
client_handshake_error(b) ==
  CASE ~matches_pid(b.sender, d["c"].remote) /\ ~cfg["c"].ignore_pid -> "-6"
    [] ~matches_pid(cfg["c"].pid, b.peer) -> "-4"
    [] "USE_CRC32C" \in b.flags /\ "USE_CRC32C" \notin cfg["c"].defaults -> "-8"
    [] OTHER -> "none"

tcp_rpcc_process_handshake_packet ==
  LET b == Head(in["c"]).body IN
  /\ Packet("c", "handshake", -1)
  /\ \/ /\ client_handshake_error(b) = "none"
        /\ d' = [d EXCEPT !["c"].crc = IF "USE_CRC32C" \in b.flags THEN "crc32c" ELSE @,
                   !["c"].flags = @ \cup b.flags, !["c"].remote = b.sender,
                   !["c"].ready = TRUE, !["c"].in_num = 0]
        /\ UNCHANGED <<outq, out, wire>>
     \/ /\ client_handshake_error(b) # "none"
        /\ tcp_rpc_conn_send_data("c", [t |-> "hs_error"])
        /\ d' = [d EXCEPT !["c"] = fail_connection("c", client_handshake_error(b))]

-----------------------------------------------------------------------------
(* Data packets, and the ends of a connection.                             *)

\* tcp_rpcs_default_execute and tcp_rpc_default_execute: a ping is answered,
\* everything else (here a pong or a handshake error) is dropped.
DataPacket(p) ==
  /\ Parsing(p) /\ Accepted(p, Head(in[p])) /\ d[p].in_num >= 0 /\ Consume(p)
  /\ d' = [d EXCEPT ![p].in_num = @ + 1]
  /\ IF Head(in[p]).body.t = "ping"
     THEN tcp_rpc_conn_send_data(p, [t |-> "pong"])
     ELSE UNCHANGED <<outq, out, wire>>

\* tcp_rpc_send_ping by the client's engine, once tcp_rpcc_default_check_ready
\* has seen a packet number that is not negative.
tcp_rpc_send_ping ==
  /\ pings < MaxPings /\ d["c"].status = "working" /\ d["c"].in_num >= 0
  /\ outq' = [outq EXCEPT !["c"] = Append(@, [t |-> "ping"])]
  /\ pings' = pings + 1
  /\ UNCHANGED <<cfg, d, out, wire, in, pc>>

\* tcp_rpcc_default_check_ready gives up a handshake after CONNECT_TIMEOUT.
tcp_rpcc_default_check_ready ==
  /\ d["c"].status = "working" /\ d["c"].in_num < 0 /\ pc["c"] = "idle"
  /\ d' = [d EXCEPT !["c"] = fail_connection("c", "timeout")]
  /\ UNCHANGED <<cfg, outq, out, wire, in, pc, pings>>

\* The end of the stream reaches the other side after what was sent.
PeerGone(p) ==
  /\ d[p].status = "working" /\ d[Peer(p)].status = "failed"
  /\ pc = [q \in Sides |-> "idle"] /\ wire[Peer(p)] = <<>>
  /\ d' = [d EXCEPT ![p] = fail_connection(p, "closed")]
  /\ UNCHANGED <<cfg, outq, out, wire, in, pc, pings>>

\* The two parsers: what the next packet of the input is decides the step.
tcp_rpcs_parse_execute ==
  \/ tcp_rpcs_process_nonce_packet \/ tcp_rpcs_process_handshake_packet
  \/ BadPacket("s") \/ SkipFill("s") \/ DataPacket("s")
tcp_rpcc_parse_execute ==
  \/ tcp_rpcc_process_nonce_packet \/ tcp_rpcc_process_handshake_packet
  \/ BadPacket("c") \/ SkipFill("c") \/ DataPacket("c")

Next ==
  \/ tcp_rpcs_parse_execute \/ tcp_rpcc_parse_execute
  \/ tcp_rpc_send_ping \/ tcp_rpcc_default_check_ready
  \/ \E p \in Sides : cpu_tcp_server_reader(p) \/ cpu_tcp_server_writer(p) \/ PeerGone(p)

Spec == Init /\ [][Next]_vars

-----------------------------------------------------------------------------
TypeOK ==
  /\ cfg \in Setups
  /\ \A p \in Sides : /\ d[p].in_num \in -2..(2 * MaxPings + 2) /\ d[p].crc \in {"crc32", "crc32c"}
                      /\ d[p].status \in {"working", "failed"} /\ pc[p] \in {"idle", "parse"}

\* Two processes whose permissions have a mode in common.
Encrypts == \A p \in Sides : "ALLOW_ENC" \in cfg[p].perm
Compatible ==
  LET c == cfg["c"]  s == cfg["s"] IN
  /\ matches_pid(s.pid, c.target) /\ c.addr = s.addr
  /\ IF Encrypts /\ c.key = s.key
     THEN /\ c.now - s.now \in -30..30
          /\ "REQ_DH" \in s.perm => (("REQ_DH" \in c.perm /\ s.dh_rate) \/
                                      ("REQ_DH" \notin c.perm /\ "ALLOW_SKIP_DH" \in s.perm))
          /\ {"REQ_DH", "ALLOW_SKIP_DH"} \cap c.perm = {"REQ_DH"} => "REQ_DH" \in s.perm
     ELSE \A p \in Sides : "ALLOW_UNENC" \in cfg[p].perm
Quiet == /\ \A p \in Sides : pc[p] = "idle" /\ outq[p] = <<>> /\ out[p] = <<>> /\ wire[p] = <<>>

\* The handshake of tcp_rpcc_ and tcp_rpcs_process_*_packet.  Compatible peers
\* never reject a packet of each other's (only the client's timeout ends the
\* connection), and once nothing is on the way both have reported themselves
\* ready.  A client that is ready holds the server's keys, mirrored, and its
\* check sum; it talks in clear only if its own permissions allow it, and
\* without DH only if it need not have it.
HandshakeSound ==
  /\ Compatible => \A p \in Sides : d[p].err \in {"none", "timeout", "closed"}
  /\ (Compatible /\ Quiet /\ \A p \in Sides : d[p].status = "working")
       => \A p \in Sides : d[p].ready
  /\ d["c"].ready =>
       /\ d["c"].crc = d["s"].crc
       /\ d["c"].crypto.read = d["s"].crypto.write /\ d["c"].crypto.write = d["s"].crypto.read
       /\ d["c"].crypto = NoKey => "ALLOW_UNENC" \in cfg["c"].perm
       /\ (d["c"].crypto # NoKey /\ {"REQ_DH", "ALLOW_SKIP_DH"} \cap cfg["c"].perm = {"REQ_DH"})
            => d["c"].isdh
=============================================================================
