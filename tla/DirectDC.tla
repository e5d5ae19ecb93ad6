------------------------------ MODULE DirectDC ------------------------------
(***************************************************************************)
(* One client in direct mode (net-tcp-direct-dc.c): its connection is      *)
(* paired with a connection to a datacenter, made through an optional      *)
(* SOCKS5 proxy, retried when it fails before its obfuscated2 header was   *)
(* sent, relayed to and from, rate limited (net-tcp-rpc-ext-server.c), and *)
(* written in TLS records of varying size (net-tcp-drs.c).  The client's   *)
(* connection has one timer, shared by the retry, the rate limit and the   *)
(* delay between records.  The handlers of a connection run one at a time, *)
(* as on the single network thread of the default configuration.           *)
(***************************************************************************)
EXTENDS DcTable

CONSTANTS
  Overrides, Dcs,    \* --dc-override, and the datacenters clients ask for
  DIRECT_MAX_RETRIES,
  Socks5,            \* socks5_config: "off", "plain" or "auth"
  drs_delays_enabled,
  MaxRounds,         \* bound on connections made to the datacenter
  MaxSend            \* bound on the pieces of data each end sends

VARIABLES
  c,                 \* the client's connection
  e,                 \* the datacenter connections made so far, by number
  rounds             \* calls of direct_try_dc_addrs

vars == <<c, e, rounds>>

Nobody == 0

\* The client's connection when its handshake is done; the timer of the
\* handshake is left running.
NewClient(tls, dc) ==
  [status |-> "new", tls |-> tls, dc |-> dc, extra |-> Nobody, extra_int |-> 0, timer |-> TRUE,
   stopread |-> FALSE, in |-> <<>>, sent |-> 0, out |-> <<>>, record |-> 0,
   delay_pending |-> FALSE, got |-> <<>>]

\* alloc_new_connection for ct_direct_dc, connected to an address of the
\* datacenter or to the SOCKS5 proxy.
NewDC(a) ==
  [status |-> "connecting", addr |-> a, linked |-> TRUE, socks |-> "NONE", crypto |-> FALSE,
   timer |-> FALSE, stopread |-> FALSE, in |-> <<>>, sent |-> 0, queue |-> <<>>, out_p |-> <<>>,
   wire |-> <<>>]

Init == /\ c \in {NewClient(tls, dc) : tls \in BOOLEAN, dc \in Dcs}
        /\ e = <<>> /\ rounds = 0

Working(x) == x.status = "working"
fail_connection(x) == IF x.status \in {"error", "closed"} THEN x ELSE [x EXCEPT !.status = "error"]

-----------------------------------------------------------------------------
(* Connecting and retrying.                                                *)

Looked == [dc \in Dcs |-> direct_dc_lookup(Overrides, dc)]
Lookup(dc) == Looked[dc]

\* direct_try_dc_addrs: the index of the first address whose socket and
\* connection can be made, or 0.
direct_try_dc_addrs(dc) == 0..Len(Lookup(dc).addrs)

\* direct_schedule_retry: a timer for the next attempt, or the end.
direct_schedule_retry(x, attempt) ==
  IF attempt >= DIRECT_MAX_RETRIES THEN fail_connection(x)
  ELSE [x EXCEPT !.extra_int = attempt + 1, !.timer = TRUE]

\* direct_connect_to_dc and direct_retry_dc_connection after the lookup: the
\* pair is linked and the retry state cleared, or another retry is scheduled.
Pair(x, attempt) ==
  /\ rounds < MaxRounds /\ rounds' = rounds + 1
  /\ \E i \in direct_try_dc_addrs(x.dc) :
       \/ i = 0 /\ c' = direct_schedule_retry(x, attempt) /\ e' = e
       \/ /\ i # 0
          /\ c' = [x EXCEPT !.extra = Len(e) + 1, !.extra_int = 0]
          /\ e' = Append(e, NewDC(Lookup(x.dc).addrs[i]))

\* The handshake of the client is done; direct_dc_lookup may not know the DC.
direct_connect_to_dc ==
  /\ c.status = "new"
  /\ \/ Lookup(c.dc).found /\ Pair([c EXCEPT !.status = "working"], 0)
     \/ ~Lookup(c.dc).found /\ c' = [c EXCEPT !.status = "error"] /\ UNCHANGED <<e, rounds>>

\* tcp_direct_dc_send_obfs2_init: the header goes past the encryption that is
\* set here, and the client is woken to relay what it has kept.
tcp_direct_dc_send_obfs2_init(x) ==
  [x EXCEPT !.out_p = Append(@, "init"), !.crypto = TRUE]

\* What is sent to the SOCKS5 proxy, and the state that waits for its answer.
socks5_send_greeting(x) == [x EXCEPT !.queue = Append(@, "greeting"), !.socks = "GREETING_SENT"]
socks5_send_auth(x) == [x EXCEPT !.queue = Append(@, "auth"), !.socks = "AUTH_SENT"]
socks5_send_connect(x) == [x EXCEPT !.queue = Append(@, "connect"), !.socks = "CONNECT_SENT"]

\* tcp_direct_dc_connected.
tcp_direct_dc_connected(k) ==
  /\ e[k].status = "connecting"
  /\ LET x == [e[k] EXCEPT !.status = "working"] IN
     e' = [e EXCEPT ![k] = IF Socks5 = "off" THEN tcp_direct_dc_send_obfs2_init(x)
             ELSE socks5_send_greeting(x)]
  /\ UNCHANGED <<c, rounds>>

\* socks5_handle_response to one answer of the proxy; an answer that is not
\* complete is waited for.
socks5_handle_response(x, answer) ==
  CASE x.socks = "GREETING_SENT" /\ answer = "noauth" -> socks5_send_connect(x)
    [] x.socks = "GREETING_SENT" /\ answer = "auth" /\ Socks5 = "auth" -> socks5_send_auth(x)
    [] x.socks = "AUTH_SENT" /\ answer = "ok" -> socks5_send_connect(x)
    [] x.socks = "CONNECT_SENT" /\ answer = "ok" ->
         tcp_direct_dc_send_obfs2_init([x EXCEPT !.socks = "NONE"])
    [] OTHER -> fail_connection(x)

Asked(x) == x.wire # <<>> /\ x.queue = <<>>
SocksAnswers(k) ==
  /\ Working(e[k]) /\ e[k].socks # "NONE" /\ Asked(e[k])
  /\ \E a \in {"noauth", "auth", "ok", "bad"} : e' = [e EXCEPT ![k] = socks5_handle_response(e[k], a)]
  /\ UNCHANGED <<c, rounds>>

-----------------------------------------------------------------------------
(* Closing.                                                                *)

\* The peer goes, or the connection fails.
ClientGone == /\ Working(c) /\ c' = fail_connection(c) /\ UNCHANGED <<e, rounds>>
DcGone(k) == /\ e[k].status \in {"connecting", "working"}
             /\ e' = [e EXCEPT ![k] = fail_connection(@)] /\ UNCHANGED <<c, rounds>>


\* tcp_direct_close of the client: the datacenter side goes with it.
tcp_direct_close_client ==
  /\ c.status = "error"
  /\ c' = [NewClient(c.tls, c.dc) EXCEPT !.status = "closed"]
  /\ e' = IF c.extra = Nobody THEN e ELSE [e EXCEPT ![c.extra] = fail_connection(@)]
  /\ UNCHANGED rounds

\* tcp_direct_close of the datacenter side: before its header was sent it is
\* given up and another one scheduled, after that the client goes with it.
tcp_direct_close_dc(k) ==
  /\ e[k].status = "error"
  /\ e' = [e EXCEPT ![k] = [NewDC(e[k].addr) EXCEPT !.status = "closed", !.linked = FALSE]]
  /\ c' = IF ~e[k].linked THEN c
          ELSE IF ~e[k].crypto /\ c.extra_int < DIRECT_MAX_RETRIES
               THEN direct_schedule_retry([c EXCEPT !.extra = Nobody], c.extra_int)
               ELSE fail_connection(c)
  /\ UNCHANGED rounds

-----------------------------------------------------------------------------
(* Relaying.                                                               *)

\* rate_limit_after_relay: the bucket of the address may be empty now.
rate_limit_after_relay(x, empty) ==
  IF empty THEN [x EXCEPT !.stopread = TRUE, !.timer = TRUE] ELSE x

\* rate_limit_resume.
rate_limit_resume(x) == [x EXCEPT !.stopread = FALSE]

\* cpu_tcp_aes_crypto_ctr128_encrypt_output_drs: after an idle second the
\* sizes start again, and one delay follows the first record unless the
\* output is a burst.
encrypt_output_drs(x, idle, burst) ==
  LET n == Len(x.out)
      r == IF idle THEN 0 ELSE x.record
  IN IF x.tls /\ x.delay_pending THEN x
     ELSE IF x.tls /\ drs_delays_enabled /\ n > 1 /\ r = 0 /\ ~burst
          THEN [x EXCEPT !.got = Append(@, Head(x.out)), !.out = Tail(@), !.record = 1,
                         !.delay_pending = TRUE, !.timer = TRUE]
          ELSE [x EXCEPT !.got = @ \o x.out, !.out = <<>>, !.record = IF n + r = 0 THEN 0 ELSE 1]

\* tcp_direct_client_parse_execute: nothing is relayed before the header of
\* the datacenter side has been sent.
MayRelay(x) == x.extra # Nobody /\ e[x.extra].crypto

\* read_write of the client's connection: what has come is relayed unless the
\* quota is used up, then what is for the client is written.
read_write(y) ==
  /\ \E over, empty, idle, burst \in BOOLEAN :
       LET reads == y.in # <<>> /\ ~y.stopread
           relays == reads /\ MayRelay(y) /\ ~over
           x == IF relays THEN rate_limit_after_relay([y EXCEPT !.in = <<>>], empty)
                ELSE IF reads /\ ((MayRelay(y) /\ over) \/ (y.extra = Nobody /\ y.extra_int = 0))
                     THEN fail_connection(y) ELSE y
       IN /\ c' = encrypt_output_drs(x, idle, burst)
          /\ e' = IF relays THEN [e EXCEPT ![y.extra].queue = @ \o y.in] ELSE e
  /\ UNCHANGED rounds

\* The connection's job is signalled when there is something to do.
RunClient == Working(c) /\ (c.in # <<>> \/ c.out # <<>>) /\ read_write(c)

\* The alarm of the client's connection, tcp_direct_client_alarm or
\* tcp_rpcs_ext_drs_alarm: the first condition that holds is served.
client_alarm ==
  /\ c.timer
  /\ LET x == [c EXCEPT !.timer = FALSE] IN
     \/ /\ ~Working(c) /\ c' = x /\ UNCHANGED <<e, rounds>>
     \/ /\ Working(c) /\ c.stopread /\ c' = rate_limit_resume(x) /\ UNCHANGED <<e, rounds>>
     \/ /\ Working(c) /\ ~c.stopread /\ c.extra = Nobody /\ c.extra_int > 0
        /\ Pair(x, c.extra_int)
     \/ /\ Working(c) /\ ~c.stopread /\ c.extra # Nobody
        /\ \/ c.tls /\ c.delay_pending /\ read_write([x EXCEPT !.delay_pending = FALSE])
           \/ ~(c.tls /\ c.delay_pending) /\ c' = x /\ UNCHANGED <<e, rounds>>

\* A run of the datacenter side: tcp_direct_dc_parse_execute relays to the
\* client, and the writer sends the header first and then what is queued.
RunDc(k) ==
  /\ Working(e[k])
  /\ \E over, empty \in BOOLEAN :
       LET reads == e[k].in # <<>> /\ ~e[k].stopread
           relays == reads /\ ~over
           x == IF relays THEN rate_limit_after_relay([e[k] EXCEPT !.in = <<>>], empty)
                ELSE IF reads THEN fail_connection(e[k]) ELSE e[k]
       IN /\ reads \/ e[k].queue # <<>> \/ e[k].out_p # <<>>
          /\ e' = [e EXCEPT ![k] = [x EXCEPT !.wire = @ \o x.out_p \o x.queue,
                                             !.out_p = <<>>, !.queue = <<>>]]
          /\ c' = IF relays THEN [c EXCEPT !.out = @ \o e[k].in] ELSE c
  /\ UNCHANGED rounds

\* tcp_direct_dc_alarm.
dc_alarm(k) ==
  /\ e[k].timer /\ e' = [e EXCEPT ![k] = [rate_limit_resume(@) EXCEPT !.timer = FALSE]]
  /\ UNCHANGED <<c, rounds>>

\* The two ends send.
ClientSends ==
  /\ Working(c) /\ ~c.stopread /\ c.sent < MaxSend
  /\ c' = [c EXCEPT !.sent = @ + 1, !.in = Append(@, c.sent + 1)]
  /\ UNCHANGED <<e, rounds>>
DcSends(k) ==
  /\ Working(e[k]) /\ ~e[k].stopread /\ e[k].sent < MaxSend
  /\ "init" \in {e[k].wire[i] : i \in DOMAIN e[k].wire}
  /\ e' = [e EXCEPT ![k].sent = @ + 1, ![k].in = Append(@, e[k].sent + 1)]
  /\ UNCHANGED <<c, rounds>>

Next ==
  \/ direct_connect_to_dc \/ ClientGone \/ tcp_direct_close_client
  \/ RunClient \/ client_alarm \/ ClientSends
  \/ \E k \in DOMAIN e : \/ tcp_direct_dc_connected(k) \/ SocksAnswers(k) \/ DcGone(k)
                         \/ tcp_direct_close_dc(k) \/ RunDc(k) \/ dc_alarm(k) \/ DcSends(k)

Spec == Init /\ [][Next]_vars

-----------------------------------------------------------------------------
TypeOK == /\ c.status \in {"new", "working", "error", "closed"} /\ c.extra \in 0..Len(e)
          /\ c.extra_int \in 0..DIRECT_MAX_RETRIES /\ rounds \in 0..MaxRounds
          /\ \A k \in DOMAIN e : e[k].status \in {"connecting", "working", "error", "closed"}

Prefix == {<<>>, <<"greeting", "connect">>, <<"greeting", "auth", "connect">>}
InOrder(s) == \A i \in DOMAIN s : s[i] = i

=============================================================================
