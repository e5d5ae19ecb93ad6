-------------------------------- MODULE Http --------------------------------
(***************************************************************************)
(* The HTTP server of the statistics page (net-http-parse.c and            *)
(* net-http-server.c, with hts_stats_execute of mtproto-proxy-http.c): a   *)
(* parser that is fed blocks of a stream and requests that follow one      *)
(* another on a connection.                                                *)
(*                                                                         *)
(* A stream is a sequence of tokens: a word, " ", ":", "\r", "\n" or a     *)
(* digit.  A token counts for one in every size.                           *)
(***************************************************************************)
EXTENDS Integers, Sequences, FiniteSets, SequencesExt

CONSTANTS
  Setups,            \* what is sent and by whom: stream, requests, allowed, busy
  MAX_HTTP_HEADER_SIZE,
  MAX_WORD           \* 4096

VARIABLES
  setup,
  sent,              \* tokens that have come
  c                  \* the connection

vars == <<setup, sent, c>>

-----------------------------------------------------------------------------
(* The parser.                                                             *)

White == {" ", "\r", "\n"}
Digits == {"0", "7"}
DigitOf(t) == IF t = "0" THEN 0 ELSE 7

NoData == -1
Start == [state |-> "start", type |-> "none", flags |-> {}, words |-> 0, header_size |-> 0,
          data_size |-> NoData, uri |-> <<>>, http_ver |-> 0, word |-> <<>>]
HTTP_V09 == 9
HTTP_V10 == 256
HTTP_V11 == 257

Goto(d, s) == [d EXCEPT !.state = s]
Bad(d) == [d EXCEPT !.state = "skiptoeoln", !.flags = @ \cup {"ERROR"}]
Take(d) == [d EXCEPT !.header_size = @ + 1]
Used(d) == [d |-> d, n |-> 1]
Again(d) == [d |-> d, n |-> 0]

\* The end of a word: a method, a path, a version or the value of a header.
Method(d) ==
  CASE d.word \in {<<"GET">>, <<"HEAD">>, <<"POST">>, <<"OPTIONS">>} ->
         [Goto(d, "skipspc") EXCEPT !.type = Head(d.word)]
    [] OTHER -> [Bad(d) EXCEPT !.type = "error"]
Uri(d) == IF d.word = <<>> THEN Bad(d) ELSE [Goto(d, "skipspc") EXCEPT !.uri = d.word]
Version(d) ==
  CASE d.word = <<>> -> [Goto(d, "skipspctoeoln") EXCEPT !.http_ver = HTTP_V09]
    [] d.word = <<"HTTP/1.0">> -> [Goto(d, "skipspctoeoln") EXCEPT !.http_ver = HTTP_V10]
    [] d.word = <<"HTTP/1.1">> -> [Goto(d, "skipspctoeoln") EXCEPT !.http_ver = HTTP_V11]
    [] OTHER -> Bad(d)
Value(d) ==
  LET keep == "HOST" \notin d.flags /\ d.word = <<"keep-alive">> IN
  [Goto(d, "skipspctoeoln") EXCEPT
     !.flags = (@ \ {"HOST", "CONNECTION"}) \cup IF keep THEN {"KEEPALIVE"} ELSE {}]
EndWord(d) ==
  LET e == [d EXCEPT !.words = @ + 1]
      f == CASE e.words = 1 -> Method(e) [] e.words = 2 -> Uri(e)
             [] e.words = 3 -> Version(e) [] OTHER -> Value(e)
  IN [f EXCEPT !.header_size = @ + Len(d.word)]

readtospace(d, t) ==
  IF t \in White THEN Again(EndWord(d))
  ELSE IF Len(d.word) >= MAX_WORD THEN Used(Goto(d, "fatal"))
  ELSE Used([d EXCEPT !.word = Append(@, t)])

\* skipspc and skipspctoeoln: what follows the spaces.
AfterSpaces(d) ==
  CASE d.state = "skipspctoeoln" -> Goto(d, "eoln")
    [] d.state = "skipspc" /\ d.words >= 3 /\ "DATASIZE" \in d.flags ->
         IF d.data_size # NoData THEN Bad(d) ELSE [Goto(d, "readint") EXCEPT !.data_size = 0]
    [] d.state = "skipspc" /\ (d.words < 3 \/ d.flags \cap {"HOST", "CONNECTION"} # {})
         /\ ~(d.words >= 3 /\ "DATASIZE" \in d.flags) ->
         [Goto(d, "readtospace") EXCEPT !.word = <<>>]
    [] OTHER -> Goto(d, "skiptoeoln")
skipspc(d, t) ==
  CASE t = " " -> LET e == Take(d) IN
                  Used(IF e.header_size >= MAX_HTTP_HEADER_SIZE THEN Goto(e, "fatal") ELSE e)
    [] OTHER -> Again(AfterSpaces(d))

Named(d) ==
  CASE d.word = <<"host">> -> d.flags \cup {"HOST"}
    [] d.word = <<"connection">> -> d.flags \cup {"CONNECTION"}
    [] d.word = <<"content-length">> -> d.flags \cup {"DATASIZE"}
    [] OTHER -> d.flags \ {"HOST", "DATASIZE", "CONNECTION"}
readtocolon(d, t) ==
  CASE t = ":" -> Used([Goto(d, "skipspc") EXCEPT !.flags = Named(d),
                                                  !.header_size = @ + Len(d.word) + 1])
    [] t \in White -> Again([Bad(d) EXCEPT !.header_size = @ + Len(d.word)])
    [] OTHER -> Used(IF Len(d.word) >= MAX_WORD THEN Goto(d, "fatal")
                     ELSE [d EXCEPT !.word = Append(@, t)])

MAX_INT == 2147483647
readint(d, t) ==
  CASE t \in Digits /\ d.data_size < MAX_INT \div 10 ->
         Used([Take(d) EXCEPT !.data_size = @ * 10 + DigitOf(t), !.flags = @ \ {"DATASIZE"}])
    [] t \in Digits /\ d.data_size >= MAX_INT \div 10 ->
         Again([Goto(d, "skipspctoeoln") EXCEPT !.flags = @ \cup {"ERROR"}])
    [] OTHER -> Again(IF "DATASIZE" \in d.flags THEN Bad(d) ELSE Goto(d, "skipspctoeoln"))

skiptoeoln(d, t) ==
  CASE t \in {"\r", "\n"} -> Again(Goto(d, "eoln"))
    [] OTHER -> LET e == Take(d) IN
                Used(IF e.header_size >= MAX_HTTP_HEADER_SIZE THEN Goto(e, "fatal") ELSE e)

eoln(d, t) == IF t = "\r" THEN Used(Take(Goto(d, "wantlf"))) ELSE Again(Goto(d, "wantlf"))

\* A line that ends before the first word of it, taken for an empty one.
MutantWantlf(d, t) ==
  IF t # "\n" THEN Again(Bad(d)) ELSE Used(Take(Goto([d EXCEPT !.words = @ + 1], "linestart")))

wantlf(d, t) ==
  LET first == d.words + 1 < 8
      e == [d EXCEPT !.words = IF first THEN 8 ELSE @ + 1]
  IN CASE first /\ "ERROR" \in e.flags -> Again(Goto(e, "fatal"))
       [] ~(first /\ "ERROR" \in e.flags) /\ e.http_ver <= HTTP_V09 -> Again(Goto(e, "wantlastlf"))
       [] OTHER -> IF t # "\n" THEN Again(Bad(e)) ELSE Used(Take(Goto(e, "linestart")))

linestart(d, t) ==
  CASE t = "\r" -> Used(Take(Goto(d, "wantlastlf")))
    [] t = "\n" -> Again(Goto(d, "wantlastlf"))
    [] OTHER -> Again(IF "ERROR" \in d.flags THEN Goto(d, "skiptoeoln")
                      ELSE [Goto(d, "readtocolon") EXCEPT !.word = <<>>])

wantlastlf(d, t) == IF t = "\n" THEN Used(Take(Goto(d, "done"))) ELSE Again(Goto(d, "fatal"))

ParseStep(d, t) ==
  CASE d.state = "start" -> Again(Goto(Start, "readtospace"))
    [] d.state = "readtospace" -> readtospace(d, t)
    [] d.state \in {"skipspc", "skipspctoeoln"} -> skipspc(d, t)
    [] d.state = "readtocolon" -> readtocolon(d, t)
    [] d.state = "readint" -> readint(d, t)
    [] d.state = "skiptoeoln" -> skiptoeoln(d, t)
    [] d.state = "eoln" -> eoln(d, t)
    [] d.state = "wantlf" -> wantlf(d, t)
    [] d.state = "linestart" -> linestart(d, t)
    [] d.state = "wantlastlf" -> wantlastlf(d, t)
    [] d.state = "fatal" -> Again([Goto(d, "done") EXCEPT !.flags = @ \cup {"ERROR"}])

RECURSIVE http_parse_data(_, _)
http_parse_data(d, data) ==
  IF data = <<>> \/ d.state = "done" THEN d
  ELSE LET s == ParseStep(d, Head(data)) IN
       http_parse_data(s.d, IF s.n = 1 THEN Tail(data) ELSE data)

-----------------------------------------------------------------------------
(* The connection.                                                         *)

\* http_get_error_msg_text: codes that are known, any other is 500.
Known == {200, 400, 404, 411, 413, 429, 501}
write_http_error(x, code) ==
  [x EXCEPT !.out = Append(@, IF code \in Known THEN code ELSE 500)]

\* hts_stats_execute: the answer, or a negative code.
hts_stats_execute(d) ==
  CASE setup.busy -> [res |-> -429, d |-> d]
    [] ~setup.busy /\ (d.type # "GET" \/ d.data_size # NoData) ->
         [res |-> -501, d |-> [d EXCEPT !.flags = @ \ {"KEEPALIVE"}]]
    [] OTHER -> [res |-> IF setup.allowed /\ d.uri = <<"/stats">> THEN 0 ELSE -404, d |-> d]

Execute(d) ==
  CASE d.type = "POST" /\ d.data_size < 0 -> [res |-> -411, d |-> d]
    [] d.type # "POST" /\ d.data_size > 0 -> [res |-> -413, d |-> d]
    [] OTHER -> hts_stats_execute(d)

\* One request of hts_parse_execute, parsed: its answer, and the end of the
\* connection unless it is to be kept.
Answer(x, parsed) ==
  LET d == IF parsed.header_size >= MAX_HTTP_HEADER_SIZE
           THEN [parsed EXCEPT !.flags = @ \cup {"ERROR"}] ELSE parsed
      r == Execute(d)
      y == [x EXCEPT !.in = SubSeq(@, d.header_size + 1, Len(@))]
      bad == "ERROR" \in d.flags
      kept == ~bad /\ r.res # -413 /\ "KEEPALIVE" \in r.d.flags
      z == CASE bad -> write_http_error(y, 400)
             [] ~bad /\ r.res = 0 -> write_http_error(y, 200)
             [] OTHER -> write_http_error(y, -r.res)
  IN IF kept THEN z ELSE [z EXCEPT !.status = "write_close"]

\* hts_parse_execute: the input is parsed from its start every time.
RECURSIVE hts_parse_execute(_)
hts_parse_execute(x) ==
  LET d == http_parse_data(Start, x.in) IN
  IF x.status # "working" \/ x.in = <<>> \/ d.state # "done" THEN x
  ELSE hts_parse_execute(Answer(x, d))

\* tcp_rpcs_parse_execute hands a connection over at the 4 letters of a method.
Init == /\ setup \in Setups /\ sent = 0
        /\ c = [in |-> <<>>, status |-> "working", out |-> <<>>, counted |-> 1]

Arrive == /\ c.status = "working"
          /\ \E n \in (sent + 1)..Len(setup.stream) :
               /\ sent' = n
               /\ c' = hts_parse_execute([c EXCEPT !.in = @ \o SubSeq(setup.stream, sent + 1, n)])
          /\ UNCHANGED setup

\* The end of a connection, after its output is flushed or at any time.
hts_close_connection ==
  /\ c.status # "closed" /\ c' = [c EXCEPT !.status = "closed", !.counted = @ - 1]
  /\ UNCHANGED <<setup, sent>>

Next == Arrive \/ hts_close_connection

Spec == Init /\ [][Next]_vars

-----------------------------------------------------------------------------
(* Dates.                                                                  *)

DaysIn(leap) == <<31, IF leap THEN 29 ELSE 28, 31, 30, 31, 30, 31, 31, 30, 31, 30, 31>>
DaysBefore(m, leap) == FoldLeft(LAMBDA a, b : a + b, 0, SubSeq(DaysIn(leap), 1, m))

\* The day of the year, of a cycle of 4 years that ends before a leap year's
\* successor, and the month that holds it.
gen_http_date(day) ==
  LET xd == day % 1461
      y == CASE xd < 365 -> 0 [] xd >= 365 /\ xd < 730 -> 1
             [] xd >= 730 /\ xd < 1096 -> 2 [] OTHER -> 3
      year == 1970 + 4 * (day \div 1461) + y
      left == xd - <<0, 365, 730, 1096>>[y + 1]
      leap == year % 4 = 0
      mon == CHOOSE m \in 0..11 : DaysBefore(m, leap) <= left /\ left < DaysBefore(m + 1, leap)
  IN [year |-> year, mon |-> mon, day |-> left - DaysBefore(mon, leap) + 1, dow |-> (day + 4) % 7]

gen_http_time(x) ==
  (x.year - 1970) * 365 + (x.year - 1969) \div 4 + (x.day - 1)
    + (IF x.year % 4 = 0 /\ x.mon >= 2 THEN 1 ELSE 0) + DaysBefore(x.mon, FALSE)

-----------------------------------------------------------------------------
TypeOK == /\ sent \in 0..Len(setup.stream)
          /\ c.status \in {"working", "write_close", "closed"}

\* What a request comes to, from its parts.
Expected(r) ==
  CASE r.bad -> [code |-> 400, keep |-> FALSE]
    [] ~r.bad /\ r.method = "POST" /\ r.length = NoData -> [code |-> 411, keep |-> r.keep]
    [] ~r.bad /\ r.method # "POST" /\ r.length > 0 -> [code |-> 413, keep |-> FALSE]
    [] OTHER -> CASE setup.busy -> [code |-> 429, keep |-> r.keep]
                  [] ~setup.busy /\ (r.method # "GET" \/ r.length # NoData) ->
                       [code |-> 501, keep |-> FALSE]
                  [] OTHER -> [code |-> IF setup.allowed /\ r.uri = "/stats" THEN 200 ELSE 404,
                               keep |-> r.keep]
RECURSIVE Answers(_)
Answers(rs) == IF rs = <<>> THEN <<>>
               ELSE LET e == Expected(Head(rs)) IN
                    <<e.code>> \o IF e.keep THEN Answers(Tail(rs)) ELSE <<>>

\* gen_http_time reads what gen_http_date has written as the same day.
DateSound(day) == gen_http_time(gen_http_date(day)) = day

\* However the stream is cut into blocks, the requests on a connection are
\* answered in order and once each, with the code and the fate of the
\* connection that their parts call for, a wrong one with 400 and the end; all
\* that has come complete has been answered.  The connection is counted once.
HttpSound ==
  /\ IsPrefix(c.out, Answers(setup.requests))
  /\ (c.status = "working" /\ sent = Len(setup.stream)) => c.out = Answers(setup.requests)
  /\ c.status = "write_close" => c.out = Answers(setup.requests)
  /\ c.counted = IF c.status = "closed" THEN 0 ELSE 1
=============================================================================
