------------------------------ MODULE Handshake ------------------------------
(***************************************************************************)
(* A client's connection until its kind is known, and its packets after    *)
(* that (tcp_rpcs_compact_parse_execute of net-tcp-rpc-ext-server.c, with  *)
(* net-proxy-protocol.c, net-tls-parse.c and net-obfs2-parse.c): the PROXY *)
(* header of a load balancer, a ClientHello that is answered or passed to  *)
(* the backend the proxy hides behind, the 64-byte obfuscated2 header, and *)
(* packets.                                                                *)
(*                                                                         *)
(* What a client sends is a sequence of items; an item arrives in two      *)
(* pieces <<i, 1>> and <<i, 2>>, the first long enough to tell its kind    *)
(* and its length.  An item's v says what its checks come to.              *)
(***************************************************************************)
EXTENDS Integers, Sequences, FiniteSets, SequencesExt

CONSTANTS
  Setups,            \* configurations of the listener
  Scripts,           \* what clients send
  MaxPacketLen       \* max_packet_len of the listener

VARIABLES
  cfg,               \* the configuration: proxy_protocol, allow_only_tls, rand_pad_only,
                     \* direct_mode, reach (the backend can be connected to)
  script,            \* the items of the client
  sent,              \* pieces sent
  s                  \* the connection

vars == <<cfg, script, sent, s>>

Pieces == [n \in 1..(2 * Len(script)) |-> <<(n + 1) \div 2, 2 - (n % 2)>>]

\* tcp_rpcs_ext_init_accepted and mtproto_ext_rpc_ready.
Accepted(c) ==
  [in |-> <<>>, status |-> "open", in_packet_num |-> -3, proxy_protocol |-> c.proxy_protocol,
   tls |-> FALSE, left |-> 0, timer |-> TRUE, skip |-> "none",
   out |-> <<>>, forwarded |-> <<>>, got |-> <<>>, mode |-> "none",
   remote_ip |-> "peer", live |-> [ip \in {"peer", "real"} |-> IF ip = "peer" THEN 1 ELSE 0]]

Init == /\ cfg \in Setups /\ script \in Scripts /\ sent = 0
        /\ s = Accepted(cfg)

Kind(x) == script[x.in[1][1]].k
Verdict(x) == script[x.in[1][1]].v
Whole(x) == x.in[1][2] = 2 \/ (Len(x.in) > 1 /\ x.in[2][1] = x.in[1][1])
Rest(x) == [x EXCEPT !.in = SelectSeq(@, LAMBDA p : p[1] # x.in[1][1])]

\* A positive result of parse_execute: it is not called before more has come.
NeedMore(x) == [x EXCEPT !.skip = "more"]
fail_connection(x) == [x EXCEPT !.status = "failed"]

\* ip_stats_connect and ip_stats_disconnect.
ip_stats_move(x, ip) ==
  [x EXCEPT !.remote_ip = ip, !.live = [@ EXCEPT ![x.remote_ip] = @ - 1, ![ip] = @ + 1]]

\* tls_transport_is_strict_only.
tls_transport_is_strict_only == cfg.allow_only_tls /\ ~cfg.rand_pad_only

\* proxy_connection: the backend is given all that has come and not been used.
proxy_connection(x) ==
  IF cfg.reach THEN [x EXCEPT !.status = "proxied", !.forwarded = @ \o x.in, !.in = <<>>]
  ELSE fail_connection(x)

-----------------------------------------------------------------------------
(* Lengths of packets.  A 32-bit number is given by its halves.            *)

Frame(len, header, quickack) == [len |-> len, header |-> header, quickack |-> quickack]
BadFrame == Frame(-1, 0, FALSE)

\* A compact length that takes the first byte as it is.
MutantCompact(lo) == lo % 256

\* The length byte of compact mode, without the quick acknowledgement flag.
CompactByte(lo) == (lo % 256) % 128

\* The length of the packet that starts with these 4 bytes.
PacketLen(mode, hi, lo) ==
  IF mode # "compact"
  THEN IF hi = 65535 /\ lo > 65536 - 1000 THEN BadFrame
       ELSE Frame((hi % 32768) * 65536 + lo, 4, hi >= 32768)
  ELSE LET long == hi * 256 + lo \div 256
           quickack == (lo % 256) >= 128
       IN IF CompactByte(lo) # 127 THEN Frame(4 * CompactByte(lo), 1, quickack)
          ELSE IF long < 127 THEN BadFrame ELSE Frame(4 * long, 4, quickack)
parse_frame_length(mode, hi, lo) ==
  LET f == PacketLen(mode, hi, lo) IN
  IF \/ f.len <= 0 \/ f.len >= 2^30 \/ (mode # "pad" /\ f.len % 4 # 0)
     \/ (MaxPacketLen > 0 /\ f.len > MaxPacketLen)
  THEN BadFrame ELSE f

\* tcp_rpc_write_packet_compact: the first 4 bytes of a packet of len bytes
\* whose data starts with the bytes of next.
WriteHeader(mode, len, next) ==
  IF mode # "compact" THEN <<len \div 65536, len % 65536>>
  ELSE IF len <= 126 * 4 THEN <<next, (next % 256) * 256 + len \div 4>>
  ELSE <<len \div 1024, (len % 1024) * 64 + 127>>

\* The flag a client sets to ask for a quick acknowledgement.
WithQuickack(mode, h) == IF mode # "compact" THEN <<h[1] + 32768, h[2]>> ELSE <<h[1], h[2] + 128>>

-----------------------------------------------------------------------------
(* The handler.                                                            *)

RECURSIVE tcp_rpcs_compact_parse_execute(_)

\* parse_v1 and parse_v2 of the PROXY header: not all there yet, not a header,
\* no address (UNKNOWN, LOCAL, another family), or the client's address.
parse_v1(x) ==
  CASE ~Whole(x) -> "more"
    [] Whole(x) /\ Verdict(x) = "v1 unknown" -> "none"
    [] Whole(x) /\ Verdict(x) \in {"v1 tcp", "v1 denied"} -> "address"
    [] OTHER -> "error"
parse_v2(x) ==
  CASE Verdict(x) = "v2 version" -> "error"
    [] Verdict(x) # "v2 version" /\ ~Whole(x) -> "more"
    [] Whole(x) /\ Verdict(x) = "v2 inet" -> "address"
    [] OTHER -> "none"
proxy_protocol_parse(x) ==
  CASE Kind(x) = "pp" /\ Verdict(x) \in {"v1 tcp", "v1 denied", "v1 unknown", "v1 bad"} -> parse_v1(x)
    [] Kind(x) = "pp" /\ Verdict(x) \in {"v2 inet", "v2 local", "v2 version"} -> parse_v2(x)
    [] OTHER -> "error"

\* The PROXY header is taken off, the address it names replaces the peer's
\* and is checked against the access list.
ProxyProtocol(x) ==
  LET r == proxy_protocol_parse(x)
      y == [Rest(x) EXCEPT !.proxy_protocol = FALSE]
      z == IF r = "address" THEN ip_stats_move(y, "real") ELSE y
  IN CASE r = "error" -> fail_connection(x)
       [] r = "more" -> NeedMore(x)
       [] r \in {"none", "address"} ->
            IF Verdict(x) = "v1 denied" THEN fail_connection(z)
            ELSE IF z.in = <<>> THEN z ELSE tcp_rpcs_compact_parse_execute(z)

\* Answering the first ClientHello that comes.
MutantHello(x) ==
  IF ~Whole(x) THEN NeedMore(x)
  ELSE IF Verdict(x) # "ok" THEN proxy_connection(Rest(x))
  ELSE NeedMore([Rest(x) EXCEPT !.tls = TRUE, !.out = <<"ServerHello", "ChangeCipherSpec">>])

\* What the checks of a ClientHello come to: a name that is given and served, a
\* random number not seen before, made with a secret, at a time that is
\* allowed, under a secret that may be used, with a known cipher.
tls_parse_sni(x) == Verdict(x) # "no name"
get_sni_domain_info(x) == tls_parse_sni(x) /\ Verdict(x) # "unknown name"
have_client_random(x) == Verdict(x) = "seen"
MatchesSecret(x) == Verdict(x) # "no secret"
is_allowed_timestamp(x) == Verdict(x) # "time"
MayUseSecret(x) == Verdict(x) # "refused"
tls_parse_client_hello_ciphers(x) == Verdict(x) # "cipher"

\* The answer: ServerHello and the rest are two messages.
ServerHello(x) == [Rest(x) EXCEPT !.tls = TRUE, !.out = <<"ServerHello", "ChangeCipherSpec">>]

\* A ClientHello that comes alone and passes the checks is answered; any other
\* goes to the backend with all that came.
ClientHello(x) ==
  IF ~Whole(x) THEN NeedMore(x)
  ELSE IF /\ get_sni_domain_info(x) /\ Rest(x).in = <<>> /\ ~have_client_random(x)
          /\ MatchesSecret(x) /\ is_allowed_timestamp(x) /\ MayUseSecret(x)
          /\ tls_parse_client_hello_ciphers(x)
       THEN NeedMore(ServerHello(x)) ELSE proxy_connection(x)

\* The client's ChangeCipherSpec and its first record, which holds at least
\* the obfuscated2 header, the next item.
FirstRecord(x) ==
  CASE Kind(x) # "first" \/ Verdict(x) = "bad" -> fail_connection(x)
    [] OTHER -> IF ~Whole(x) \/ Rest(x).in = <<>> \/ ~Whole(Rest(x)) THEN NeedMore(x)
                ELSE IF Verdict(x) = "short" THEN fail_connection(Rest(x))
                ELSE tcp_rpcs_compact_parse_execute([Rest(x) EXCEPT !.left = 1])

\* obfs2_parse_header: the transport named under one of the secrets.
obfs2_parse_header(x) ==
  LET v == IF Kind(x) = "obfs" THEN Verdict(x) ELSE "unknown" IN
  IF cfg.rand_pad_only /\ v \in {"medium", "compact"} THEN "unknown" ELSE v

\* The header names a transport under some secret that may be used, or the
\* rest of the connection is skipped.
ObfuscatedHeader(x) ==
  LET v == obfs2_parse_header(x) IN
  CASE ~Whole(x) -> NeedMore(x)
    [] Whole(x) /\ v = "unknown" -> [x EXCEPT !.skip = "all"]
    [] Whole(x) /\ v \in {"medium", "compact"} /\ tls_transport_is_strict_only ->
         proxy_connection(x)
    [] Whole(x) /\ v = "refused" -> fail_connection([Rest(x) EXCEPT !.in_packet_num = 0])
    [] OTHER ->
         LET y == [Rest(x) EXCEPT !.in_packet_num = 0, !.mode = v] IN
         IF cfg.direct_mode THEN [y EXCEPT !.status = "direct"]
         ELSE tcp_rpcs_compact_parse_execute(y)

\* A packet of a length that can be, or the end.
Packet(x) ==
  CASE Verdict(x) = "bad" -> fail_connection(x)
    [] Verdict(x) # "bad" /\ ~Whole(x) -> NeedMore(x)
    [] OTHER -> tcp_rpcs_compact_parse_execute([Rest(x) EXCEPT !.got = Append(@, x.in[1][1])])

\* The timer of the handshake is removed once the kind is known.
tcp_rpcs_compact_parse_execute(y) ==
  LET x == IF y.in_packet_num # -3 THEN [y EXCEPT !.timer = FALSE] ELSE y IN
  CASE x.status # "open" \/ x.in = <<>> -> x
    [] x.status = "open" /\ x.in # <<>> /\ x.in_packet_num # -3 -> Packet(x)
    [] OTHER ->
         IF x.proxy_protocol THEN ProxyProtocol(x)
         ELSE IF x.tls /\ x.left = 0 THEN FirstRecord(x)
         ELSE IF ~x.tls /\ Kind(x) = "hello" /\ cfg.allow_only_tls THEN ClientHello(x)
         ELSE IF ~x.tls /\ tls_transport_is_strict_only THEN proxy_connection(x)
         ELSE ObfuscatedHeader(x)

\* tcp_proxy_pass_parse_execute.
tcp_proxy_pass_parse_execute(x) == [x EXCEPT !.forwarded = @ \o x.in, !.in = <<>>]

\* cpu_tcp_server_reader: skipped input is dropped, and input that is waited
\* for may or may not be enough.
Reader(x, enough) ==
  CASE x.skip = "all" -> [x EXCEPT !.in = <<>>]
    [] x.skip = "more" /\ ~enough -> x
    [] OTHER -> LET y == [x EXCEPT !.skip = "none"] IN
                CASE x.status = "open" -> tcp_rpcs_compact_parse_execute(y)
                  [] x.status = "proxied" -> tcp_proxy_pass_parse_execute(y)
                  [] OTHER -> y

\* Pieces arrive, some at once, and the reader runs.
Arrive ==
  /\ s.status \in {"open", "proxied"}
  /\ \E n \in (sent + 1)..Len(Pieces), enough \in BOOLEAN :
       /\ sent' = n
       /\ s' = Reader([s EXCEPT !.in = @ \o SubSeq(Pieces, sent + 1, n)], enough)
  /\ UNCHANGED <<cfg, script>>

\* tcp_rpcs_ext_alarm, with handle_handshake_timeout; default_domain_info is
\* set by the first domain, with allow_only_tls.
tcp_rpcs_ext_alarm ==
  /\ s.timer
  /\ LET x == [s EXCEPT !.timer = FALSE] IN
     s' = CASE s.status # "open" \/ s.in_packet_num # -3 -> [s EXCEPT !.timer = FALSE]
            [] s.status = "open" /\ s.proxy_protocol -> fail_connection(x)
            [] OTHER -> IF cfg.allow_only_tls THEN proxy_connection(x) ELSE fail_connection(x)
  /\ UNCHANGED <<cfg, script, sent>>

PeerGone == /\ s.status \in {"open", "proxied", "direct"}
            /\ s' = [s EXCEPT !.status = IF @ = "open" THEN "failed" ELSE "left"]
            /\ UNCHANGED <<cfg, script, sent>>

\* Closing: mtproto_ext_rpc_close counts the address out, the close functions
\* of proxied and direct connections do not.
Close == /\ s.status \in {"failed", "left"}
         /\ s' = [s EXCEPT !.status = "closed",
                           !.live[s.remote_ip] = IF s.status = "failed" THEN @ - 1 ELSE @]
         /\ UNCHANGED <<cfg, script, sent>>

Next == Arrive \/ tcp_rpcs_ext_alarm \/ PeerGone \/ Close

Spec == Init /\ [][Next]_vars

-----------------------------------------------------------------------------
TypeOK == /\ sent \in 0..Len(Pieces) /\ s.in_packet_num \in {-3, 0}
          /\ s.skip \in {"none", "more", "all"}
          /\ s.status \in {"open", "proxied", "direct", "failed", "left", "closed"}

Start == IF cfg.proxy_protocol THEN 3 ELSE 1
Packets == SelectSeq([i \in DOMAIN script |-> i], LAMBDA i : script[i].k = "packet")
Items(k) == {i \in DOMAIN script : script[i].k = k}

\* A packet length that is written (with or without the bit of a quick ack) is read back.
FrameSound(mode, len, next) ==
  LET h == WriteHeader(mode, len, next)
      q == WithQuickack(mode, h)
      bytes == IF mode # "compact" \/ len > 504 THEN 4 ELSE 1
  IN /\ parse_frame_length(mode, h[1], h[2]) = Frame(len, bytes, FALSE)
     /\ parse_frame_length(mode, q[1], q[2]) = Frame(len, bytes, TRUE)

\* tcp_rpcs_compact_parse_execute however the stream is cut into pieces.  A
\* connection whose kind is not known has its handshake timer running.  The
\* packets executed are the client's, in order and from the first.  Nothing is
\* executed, and no direct connection made, without a header under a secret,
\* inside TLS and padded where the listener insists.  A backend that is given
\* a connection the proxy has not answered and has not begun to skip sees the
\* client's stream from its first byte (after the PROXY header), at once or
\* after the handshake's timeout.
ClientSound ==
  /\ (s.status = "open" /\ s.in_packet_num = -3) => s.timer
  /\ s.got = SubSeq(Packets, 1, Len(s.got))
  /\ (s.got # <<>> \/ s.status = "direct") =>
       /\ s.mode \in {"compact", "medium", "pad"}
       /\ \E i \in Items("obfs") : script[i].v = s.mode
       /\ tls_transport_is_strict_only => s.tls /\ s.mode = "pad"
  /\ (s.status = "proxied" /\ s.out = <<>> /\ s.skip # "all") =>
       s.forwarded \o s.in = SubSeq(Pieces, Start, sent)
=============================================================================
