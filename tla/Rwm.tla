-------------------------------- MODULE Rwm --------------------------------
(***************************************************************************)
(* Raw messages, net/net-msg.c: chains of reference-counted parts over      *)
(* reference-counted buffers, shared by the messages that were cloned or    *)
(* split from one another.  A raw message belongs to one thread at a time;  *)
(* its parts may be reached from messages of other threads, so appending    *)
(* to the last part locks it first (the magic of the part): the check, the  *)
(* compare-and-exchange and the append are three steps here, between which  *)
(* the other messages move.  The other operations change only parts that no *)
(* other message reaches, or counters, and are one step.                    *)
(*                                                                          *)
(* content[m] is a history variable: the bytes that message m should hold.  *)
(* Temporary messages (RM_TMP_MAGIC) are made nowhere and are left out.     *)
(***************************************************************************)
EXTENDS Naturals, Sequences, SequencesExt, FiniteSets, FiniteSetsExt

CONSTANTS Messages, MSG_SMALL_BUFFER, MSG_STD_BUFFER, RM_PREPEND_RESERVE,
          Parts,      \* numbers of parts, and of buffers: a bound on memory
          MaxLen,     \* a bound on the bytes of one message
          MaxPush,    \* a bound on the bytes of one call
          BlockSizes, \* the ciphers' block sizes
          MaxSteps    \* a bound on the steps of a behaviour

VARIABLES part, buf, msg, op, content, steps

vars == <<part, buf, msg, op, content, steps>>

NoPart == [refcnt |-> 0, next |-> 0, buf |-> 0, offset |-> 0, data_end |-> 0,
           locked |-> FALSE]

NoBuf == [refcnt |-> 0, data |-> <<>>]

NoMsg == [magic |-> FALSE, first |-> 0, last |-> 0, total |-> 0, fo |-> 0, lo |-> 0]

\* a message between the steps of rwm_lock_last_part
Idle == [at |-> "idle", locked |-> 0]

\* the heap the sequential code works on
Heap == [part |-> part, buf |-> buf]

SetHeap(h) == part' = h.part /\ buf' = h.buf

(***************************************************************************)
(* Reading a message                                                        *)
(***************************************************************************)
RECURSIVE ChainFrom(_, _, _)
ChainFrom(h, p, last) ==
  IF p = last THEN <<p>> ELSE <<p>> \o ChainFrom(h, h.part[p].next, last)

\* the parts from raw->first to raw->last
Chain(h, r) == IF r.first = 0 THEN <<>> ELSE ChainFrom(h, r.first, r.last)

Start(h, r, p) == IF p = r.first THEN r.fo ELSE h.part[p].offset

End(h, r, p) == IF p = r.last THEN r.lo ELSE h.part[p].data_end

Data(h, p, from, to) == SubSeq(h.buf[h.part[p].buf].data, from + 1, to)

\* the parts of the message, each with the place where its bytes start and
\* end and the bytes of the message up to that end
RECURSIVE WalkFrom(_, _, _, _)
WalkFrom(h, r, p, n) ==
  LET s == [p |-> p, from |-> Start(h, r, p), to |-> End(h, r, p),
            upto |-> n + End(h, r, p) - Start(h, r, p)]
  IN  IF p = r.last THEN <<s>> ELSE <<s>> \o WalkFrom(h, r, h.part[p].next, s.upto)

Walk(h, r) == WalkFrom(h, r, r.first, 0)

\* the first part at whose end at least n bytes have passed, and the place
\* in that part where they have passed
PartOf(w, n) == CHOOSE i \in DOMAIN w : w[i].upto >= n /\ \A j \in 1..(i - 1) : w[j].upto < n

Place(w, n) == LET i == PartOf(w, n) IN w[i].to + n - w[i].upto

\* all the data lies in the last part: the short way of rwm_process_ex, rwm_split
InLast(h, r, n) == r.total - n <= r.lo - h.part[r.last].offset

\* the blocks of parts i to j of the walk from a place in i to a place in j
Between(h, w, i, from, j, to) ==
  [k \in 1..(j - i + 1) |->
     LET s == w[i + k - 1]
     IN  Data(h, s.p, IF k = 1 THEN from ELSE s.from, IF i + k - 1 = j THEN to ELSE s.to)]

\* the blocks that rwm_process_ex hands to process_block
Blocks(h, r, w, n, offset) ==
  IF InLast(h, r, offset)
  THEN LET x == r.total - offset IN <<Data(h, r.last, r.lo - x, r.lo - x + n)>>
  ELSE Between(h, w, PartOf(w, offset), Place(w, offset),
               PartOf(w, offset + n), Place(w, offset + n))

\* the vector of rwm_prepare_iovec for the first n bytes
Iovec(h, r, w, n) == Between(h, w, 1, r.fo, PartOf(w, n), Place(w, n))

(***************************************************************************)
(* Parts and buffers                                                        *)
(***************************************************************************)
Unused(f) == {i \in DOMAIN f : f[i].refcnt = 0}

HasRoom(h, n) == Cardinality(Unused(h.part)) >= n /\ Cardinality(Unused(h.buf)) >= n

\* alloc_msg_buffer gives the least size that holds the request
BufferSize(want) == IF want <= MSG_SMALL_BUFFER THEN MSG_SMALL_BUFFER ELSE MSG_STD_BUFFER

Put(d, at, s) ==
  [i \in DOMAIN d |-> IF i \in (at + 1)..(at + Len(s)) THEN s[i - at] ELSE d[i]]

\* alloc_msg_buffer and new_msg_part, with data s written at offset
NewPart(h) == Min(Unused(h.part))

new_msg_part(h, size, offset, s, next) ==
  LET b == Min(Unused(h.buf))
  IN  [part |-> [h.part EXCEPT ![NewPart(h)] =
                   [refcnt |-> 1, next |-> next, buf |-> b, offset |-> offset,
                    data_end |-> offset + Len(s), locked |-> FALSE]],
       buf |-> [h.buf EXCEPT ![b] =
                   [refcnt |-> 1, data |-> Put([i \in 1..size |-> 0], offset, s)]]]

BufDecref(h, b) ==
  IF h.buf[b].refcnt = 1 THEN [h EXCEPT !.buf[b] = NoBuf]
                         ELSE [h EXCEPT !.buf[b].refcnt = @ - 1]

RECURSIVE msg_part_decref(_, _)
msg_part_decref(h, p) ==
  IF p = 0 THEN h
  ELSE IF h.part[p].refcnt > 1 THEN [h EXCEPT !.part[p].refcnt = @ - 1]
  ELSE msg_part_decref([BufDecref(h, h.part[p].buf) EXCEPT !.part[p] = NoPart],
                       h.part[p].next)

AddRef(h, p) == [h EXCEPT !.part[p].refcnt = @ + 1]

Sole(h, ps) == \A p \in ps : h.part[p].refcnt = 1

\* copy the parts c into a new chain over the same buffers, in which the
\* first starts at fo and the last ends at lo; prev, if any, points to it
RECURSIVE CopyChain(_, _, _, _, _)
CopyChain(h, c, fo, lo, prev) ==
  IF c = <<>> THEN h
  ELSE LET q == NewPart(h)
           o == h.part[Head(c)]
           h1 == [h EXCEPT
                    !.part[q] = [o EXCEPT !.refcnt = 1, !.next = 0, !.locked = FALSE,
                                 !.offset = fo,
                                 !.data_end = IF Len(c) = 1 THEN lo ELSE o.data_end],
                    !.buf[o.buf].refcnt = @ + 1]
           h2 == IF prev = 0 THEN h1 ELSE [h1 EXCEPT !.part[prev].next = q]
           rest == Tail(c)
       IN  CopyChain(h2, rest, IF rest = <<>> THEN 0 ELSE h.part[Head(rest)].offset,
                     lo, q)

\* fork_message_chain: parts before the first shared one are kept
KeptParts(h, r) ==
  LET c == Chain(h, r)
  IN  IF r.fo # h.part[r.first].offset /\ h.part[r.first].refcnt # 1 THEN 0
      ELSE Min({Len(c) - 1} \cup {i - 1 : i \in {j \in 1..Len(c) : h.part[c[j]].refcnt # 1}})

fork_message_chain(h, r) ==
  LET c == Chain(h, r)
      k == KeptParts(h, r)
      h0 == IF h.part[r.first].refcnt = 1 THEN [h EXCEPT !.part[r.first].offset = r.fo]
                                          ELSE h
      np == c[k + 1]
      copied == CopyChain(h0, SubSeq(c, k + 1, Len(c)), Start(h0, r, np), r.lo,
                          IF k = 0 THEN 0 ELSE c[k])
      firstNew == NewPart(h0)
      lastNew == IF k = 0 THEN ChainFrom(copied, firstNew, 0) ELSE ChainFrom(copied, c[k], 0)
      keptLast == [h0 EXCEPT !.part[np].data_end = r.lo, !.part[np].next = 0]
  IN  IF k = Len(c) - 1 /\ h.part[np].refcnt = 1
      THEN [h |-> msg_part_decref(keptLast, h0.part[np].next), r |-> r]
      ELSE [h |-> msg_part_decref(copied, np),
            r |-> [r EXCEPT !.first = IF k = 0 THEN firstNew ELSE @,
                            !.last = lastNew[Len(lastNew) - 1]]]

\* rwm_lock_first_part: never locks, makes raw->first->offset = raw->first_offset
rwm_lock_first_part(h, r) ==
  LET f == h.part[r.first]
      q == NewPart(h)
      single == r.first = r.last
      h1 == [h EXCEPT
               !.part[q] = [f EXCEPT !.refcnt = 1, !.locked = FALSE, !.offset = r.fo,
                            !.data_end = IF single THEN r.lo ELSE @,
                            !.next = IF single THEN 0 ELSE @],
               !.buf[f.buf].refcnt = @ + 1]
      h2 == IF single THEN h1 ELSE AddRef(h1, f.next)
  IN  IF f.refcnt = 1 THEN [h |-> [h EXCEPT !.part[r.first].offset = r.fo], r |-> r]
      ELSE IF f.offset = r.fo THEN [h |-> h, r |-> r]
      ELSE [h |-> msg_part_decref(h2, r.first),
            r |-> [r EXCEPT !.first = q, !.last = IF single THEN q ELSE @]]

(***************************************************************************)
(* Appending.  avail is the number of buffers that can still be had.        *)
(***************************************************************************)
Link(h, p, q) == [h EXCEPT !.part[p].next = q]

\* the loop of rwm_push_data_ext: new parts until the data or memory ends
RECURSIVE PushParts(_, _, _, _)
PushParts(h, r, s, avail) ==
  IF s = <<>> \/ avail = 0 THEN [h |-> h, r |-> r]
  ELSE LET size == IF r.total + Len(s) >= MSG_STD_BUFFER THEN MSG_STD_BUFFER
                                                         ELSE MSG_SMALL_BUFFER
           n == Min({size, Len(s)})
           q == NewPart(h)
       IN  PushParts(Link(new_msg_part(h, size, 0, SubSeq(s, 1, n), 0), r.last, q),
                     [r EXCEPT !.last = q, !.total = @ + n, !.lo = n],
                     SubSeq(s, n + 1, Len(s)), avail - 1)

\* the first part of an empty message
PushFirst(h, r, s, avail) ==
  LET size == IF Len(s) >= MSG_SMALL_BUFFER - RM_PREPEND_RESERVE
              THEN MSG_STD_BUFFER ELSE MSG_SMALL_BUFFER
      prepend == IF Len(s) <= MSG_STD_BUFFER
                 THEN Min({RM_PREPEND_RESERVE, MSG_STD_BUFFER - Len(s)})
                 ELSE RM_PREPEND_RESERVE
      n == Min({size - prepend, Len(s)})
      q == NewPart(h)
  IN  IF s = <<>> \/ avail = 0 THEN [h |-> h, r |-> r]
      ELSE PushParts(new_msg_part(h, size, prepend, SubSeq(s, 1, n), 0),
                     [r EXCEPT !.first = q, !.last = q, !.total = n,
                               !.fo = prepend, !.lo = prepend + n],
                     SubSeq(s, n + 1, Len(s)), avail - 1)

\* write s after the data of the last part, which is r's to extend
Extend(h, r, s) ==
  LET b == h.part[r.last].buf
  IN  [h |-> [h EXCEPT !.buf[b].data = Put(@, r.lo, s),
                       !.part[r.last].data_end = @ + Len(s)],
       r |-> [r EXCEPT !.lo = @ + Len(s), !.total = @ + Len(s)]]

Space(h, r) ==
  LET x == h.buf[h.part[r.last].buf]
  IN  IF x.refcnt = 1 THEN Len(x.data) - r.lo ELSE 0

PushMore(h, r, s, avail) ==
  LET n == Min({Space(h, r), Len(s)})
      e == Extend(h, r, SubSeq(s, 1, n))
  IN  PushParts(e.h, e.r, SubSeq(s, n + 1, Len(s)), avail)

rwm_push_data_ext(h, r, s, avail) ==
  IF r.first = 0 THEN PushFirst(h, r, s, avail) ELSE PushMore(h, r, s, avail)

PostponeAlloc(h, r, s) ==
  IF Space(h, r) >= Len(s) THEN Extend(h, r, s)
  ELSE [h |-> Link(new_msg_part(h, BufferSize(Len(s)), 0, s, 0), r.last, NewPart(h)),
        r |-> [r EXCEPT !.last = NewPart(h), !.lo = Len(s), !.total = @ + Len(s)]]

(***************************************************************************)
(* Prepending                                                               *)
(***************************************************************************)
\* new parts in front, the data at their ends
RECURSIVE FrontParts(_, _, _, _)
FrontParts(h, r, s, size) ==
  LET n == Min({size, Len(s)})
      h1 == new_msg_part(h, size, size - n, SubSeq(s, Len(s) - n + 1, Len(s)), r.first)
      r1 == [r EXCEPT !.first = NewPart(h), !.total = @ + n, !.fo = size - n,
                      !.last = IF @ = 0 THEN NewPart(h) ELSE @,
                      !.lo = IF r.last = 0 THEN size ELSE @]
      rest == SubSeq(s, 1, Len(s) - n)
  IN  IF s = <<>> THEN [h |-> h, r |-> r]
      ELSE FrontParts(h1, r1, rest,
                      IF Len(rest) >= MSG_SMALL_BUFFER THEN MSG_STD_BUFFER
                                                       ELSE MSG_SMALL_BUFFER)

\* write s before the data of the first part
ExtendFront(h, r, s) ==
  LET b == h.part[r.first].buf
  IN  [h |-> [h EXCEPT !.buf[b].data = Put(@, r.fo - Len(s), s),
                       !.part[r.first].offset = r.fo - Len(s)],
       r |-> [r EXCEPT !.fo = @ - Len(s), !.total = @ + Len(s)]]


MayExtendFront(h, r) ==
  h.part[r.first].refcnt = 1 /\ h.buf[h.part[r.first].buf].refcnt = 1

FrontSize(n) == IF n >= MSG_SMALL_BUFFER THEN MSG_STD_BUFFER ELSE MSG_SMALL_BUFFER

rwm_push_data_front(h, r, s) ==
  IF r.first = 0 THEN FrontParts(h, r, s, FrontSize(Len(s)))
  ELSE LET l == rwm_lock_first_part(h, r)
           n == IF MayExtendFront(l.h, l.r) THEN Min({l.r.fo, Len(s)}) ELSE 0
           e == IF n = 0 THEN l
                ELSE ExtendFront(l.h, l.r, SubSeq(s, Len(s) - n + 1, Len(s)))
       IN  FrontParts(e.h, e.r, SubSeq(s, 1, Len(s) - n), FrontSize(Len(s) - n))

rwm_prepend_alloc(h, r, s) ==
  IF r.first = 0 THEN rwm_push_data_ext(h, r, s, 1)
  ELSE LET l == rwm_lock_first_part(h, r)
       IN  IF MayExtendFront(l.h, l.r) /\ l.r.fo >= Len(s) THEN ExtendFront(l.h, l.r, s)
           ELSE FrontParts(l.h, l.r, s, BufferSize(Len(s)))

(***************************************************************************)
(* Taking bytes from the front or the back, rwm_process_ex                  *)
(***************************************************************************)
rwm_clear(h, r) ==
  [h |-> msg_part_decref(h, r.first), r |-> [NoMsg EXCEPT !.magic = TRUE]]

\* RMPF_ADVANCE from offset 0 by n bytes, 0 < n <= total
Advance(h, r, n) ==
  LET w == Walk(h, r)
      j == PartOf(w, n)
      p == w[j].p
      sole == Sole(h, {w[i].p : i \in 1..j})
      h1 == IF j = 1 THEN h ELSE msg_part_decref(AddRef(h, p), r.first)
  IN  IF InLast(h, r, 0)
      THEN [h |-> msg_part_decref(AddRef(h, r.last), r.first),
            r |-> [r EXCEPT !.first = r.last, !.fo = r.lo - r.total + n, !.total = @ - n]]
      ELSE IF n = r.total THEN rwm_clear(h, r)
      ELSE [h |-> IF sole THEN [h1 EXCEPT !.part[p].offset = Place(w, n)] ELSE h1,
            r |-> [r EXCEPT !.first = p, !.fo = Place(w, n), !.total = @ - n]]

\* RMPF_TRUNCATE of the last n bytes, 0 < n <= total
Truncate(h, r, n) ==
  LET w == Walk(h, r)
      keep == r.total - n
      i == PartOf(w, keep)
      p == w[i].p
      sole == Sole(h, {w[k].p : k \in 1..i})
      cut == [h EXCEPT !.part[p].data_end = Place(w, keep), !.part[p].next = 0]
  IN  IF InLast(h, r, keep)
      THEN [h |-> h, r |-> [r EXCEPT !.total = keep, !.lo = @ - n]]
      ELSE IF keep = 0 THEN rwm_clear(h, r)
      ELSE [h |-> IF sole THEN msg_part_decref(cut, h.part[p].next) ELSE h,
            r |-> [r EXCEPT !.total = keep, !.last = p, !.lo = Place(w, keep)]]

(***************************************************************************)
(* Splitting and joining                                                    *)
(***************************************************************************)
\* r keeps the first n bytes, 0 < n; t gets the others
rwm_split(h, r, n) ==
  LET w == Walk(h, r)
      p == w[PartOf(w, n)].p
  IN  IF n >= r.total THEN [h |-> h, r |-> r, t |-> [NoMsg EXCEPT !.magic = TRUE]]
      ELSE IF InLast(h, r, n)
      THEN LET at == r.lo - (r.total - n)
           IN  [h |-> AddRef(h, r.last),
                r |-> [r EXCEPT !.lo = at, !.total = n],
                t |-> [r EXCEPT !.first = r.last, !.fo = at, !.total = @ - n]]
      ELSE [h |-> AddRef(h, p),
            r |-> [r EXCEPT !.last = p, !.lo = Place(w, n), !.total = n],
            t |-> [r EXCEPT !.first = p, !.fo = Place(w, n), !.total = @ - n]]

MustFork(h, r) ==
  LET l == h.part[r.last] IN l.next # 0 \/ r.lo # l.data_end

\* rwm_lock_last_part in one step, as rwm_union does for its tail
LockAndUnlockLast(h, r) ==
  IF MustFork(h, r) \/ h.part[r.last].locked THEN fork_message_chain(h, r)
                                             ELSE [h |-> h, r |-> r]

\* the last part of r is locked or r's own
rwm_union(h, r, t) ==
  IF r.last = 0 THEN [h |-> h, r |-> t]
  ELSE IF t.first = 0 THEN [h |-> h, r |-> r]
  ELSE LET l == LockAndUnlockLast(h, t)
           f == rwm_lock_first_part(l.h, l.r)
           h1 == AddRef(Link(f.h, r.last, f.r.first), f.r.first)
       IN  [h |-> msg_part_decref(h1, f.r.first),
            r |-> [r EXCEPT !.last = f.r.last, !.lo = f.r.lo, !.total = @ + f.r.total]]

(***************************************************************************)
(* Encrypting into another message.  The cipher, here, reverses a block.    *)
(***************************************************************************)
evp_crypt(s, bs) ==
  [i \in 1..Len(s) |-> LET b == (i - 1) \div bs IN s[b * bs + bs - ((i - 1) % bs)]]

\* x: the heap, the result r, the bytes bp of an unfinished block, the bytes
\* left to come, the room in the last buffer
Grow(x, want) ==
  IF x.avail = 0 THEN [x EXCEPT !.failed = TRUE]
  ELSE LET size == BufferSize(Min({want, MSG_STD_BUFFER}))
       IN  [x EXCEPT !.h = Link(new_msg_part(x.h, size, 0, <<>>, 0), x.r.last, NewPart(x.h)),
                     !.r = [x.r EXCEPT !.last = NewPart(x.h), !.lo = 0],
                     !.room = size, !.avail = @ - 1]

Emit(x, s) ==
  LET e == Extend(x.h, x.r, s)
  IN  [x EXCEPT !.h = e.h, !.r = e.r, !.room = @ - Len(s)]

\* one finished block, which may straddle two buffers
EmitBlock(x, s, len, bs) ==
  IF x.room >= bs THEN Emit(x, s)
  ELSE LET t == x.room
           g == Grow(Emit(x, SubSeq(s, 1, t)), x.left + len + bs)
       IN  IF g.failed THEN g ELSE Emit(g, SubSeq(s, t + 1, bs))

RECURSIVE EmitBlocks(_, _, _)
EmitBlocks(x, s, bs) ==
  LET g == IF x.room < bs THEN Grow(x, x.left + Len(s)) ELSE x
      t == g.room - (g.room % bs)
  IN  IF g.failed THEN g
      ELSE IF Len(s) <= g.room THEN Emit(g, evp_crypt(s, bs))
      ELSE EmitBlocks(Emit(g, evp_crypt(SubSeq(s, 1, t), bs)), SubSeq(s, t + 1, Len(s)), bs)

rwm_process_encrypt_decrypt(x, data, bs) ==
  LET x1 == [(IF x.room = 0 THEN Grow(x, x.left) ELSE x) EXCEPT !.left = @ - Len(data)]
      fill == bs - Len(x.bp)
      block == evp_crypt(x.bp \o SubSeq(data, 1, fill), bs)
      rest == IF x.bp = <<>> THEN data ELSE SubSeq(data, fill + 1, Len(data))
      x2 == IF x.bp = <<>> THEN x1
            ELSE EmitBlock([x1 EXCEPT !.bp = <<>>], block, Len(rest), bs)
      whole == Len(rest) - (Len(rest) % bs)
  IN  IF x.failed \/ x1.failed \/ data = <<>> THEN [x EXCEPT !.failed = @ \/ (x1.failed /\ data # <<>>)]
      ELSE IF x.bp # <<>> /\ Len(data) < fill THEN [x1 EXCEPT !.bp = @ \o data]
      ELSE IF x2.failed THEN x2
      ELSE EmitBlocks([x2 EXCEPT !.bp = SubSeq(rest, whole + 1, Len(rest))],
                      SubSeq(rest, 1, whole), bs)

\* the part that the result begins with, or its last if it may be written
ResultPart(h, r, n, avail) ==
  LET want == Min({IF r.last = 0 THEN n + RM_PREPEND_RESERVE ELSE n, MSG_STD_BUFFER})
      size == BufferSize(want)
      q == NewPart(h)
      x == [h |-> h, r |-> r, bp |-> <<>>, left |-> n, room |-> 0, avail |-> avail,
            failed |-> FALSE]
  IN  IF r.last # 0 /\ h.buf[h.part[r.last].buf].refcnt = 1
      THEN [x EXCEPT !.room = Space(h, r)]
      ELSE IF r.last # 0 THEN Grow(x, want)
      ELSE IF avail = 0 THEN [x EXCEPT !.failed = TRUE]
      ELSE [x EXCEPT !.h = new_msg_part(h, size, RM_PREPEND_RESERVE, <<>>, 0),
                     !.r = [r EXCEPT !.first = q, !.last = q, !.fo = RM_PREPEND_RESERVE,
                                     !.lo = RM_PREPEND_RESERVE],
                     !.room = size - RM_PREPEND_RESERVE, !.avail = @ - 1]

\* a failure puts the result back as it was after ResultPart
rwm_encrypt_decrypt_to(h, raw, res, n, bs, avail) ==
  LET x == ResultPart(h, res, n, avail)
      y == FoldLeft(LAMBDA z, d : rwm_process_encrypt_decrypt(z, d, bs), x,
                    Blocks(h, raw, Walk(h, raw), n, 0))
      saved == x.h.part[x.r.last]
      undone == [msg_part_decref(y.h, y.h.part[x.r.last].next) EXCEPT !.part[x.r.last] = saved]
      a == Advance(y.h, raw, n)
  IN  IF x.failed THEN [h |-> h, raw |-> raw, res |-> res]
      ELSE IF y.failed THEN [h |-> undone, raw |-> raw, res |-> x.r]
      ELSE [h |-> a.h, raw |-> a.r, res |-> y.r]

(***************************************************************************)
(* The operations on the messages                                           *)
(***************************************************************************)
\* what message m writes: bytes that no other message writes
Payload(m, n) == [i \in 1..n |-> (2 * m) + (i % 2)]

\* a message of n bytes that rwm_create made, and clones of it
Init ==
  \E n \in 1..MaxPush, cloned \in BOOLEAN :
    LET empty == [part |-> [p \in Parts |-> NoPart], buf |-> [b \in Parts |-> NoBuf]]
        x == rwm_push_data_ext(empty, [NoMsg EXCEPT !.magic = TRUE], Payload(1, n), 2)
    IN  /\ part = [x.h.part EXCEPT ![x.r.first].refcnt = IF cloned THEN 2 ELSE 1]
        /\ buf = x.h.buf
        /\ msg = [m \in Messages |-> IF m = 1 \/ (m = 2 /\ cloned) THEN x.r ELSE NoMsg]
        /\ op = [m \in Messages |-> Idle]
        /\ content = [m \in Messages |->
                        IF m = 1 \/ (m = 2 /\ cloned) THEN Payload(1, n) ELSE <<>>]
        /\ steps = 0

Free(m) == op[m].at = "idle" /\ msg[m].magic

Blank(m) == op[m].at = "idle" /\ ~msg[m].magic

Fits(m, n) == Len(content[m]) + n <= MaxLen /\ HasRoom(Heap, 3)

Set(h, m, r) == SetHeap(h) /\ msg' = [msg EXCEPT ![m] = r]

\* the bytes x.r gained at its end, of those that were offered
Gained(m, r, s) == content' = [content EXCEPT ![m] = @ \o SubSeq(s, 1, r.total - msg[m].total)]

rwm_create(m, n, avail) ==
  /\ Blank(m)
  /\ Fits(m, n)
  /\ LET x == rwm_push_data_ext(Heap, [NoMsg EXCEPT !.magic = TRUE], Payload(m, n), avail)
     IN  Set(x.h, m, x.r) /\ Gained(m, x.r, Payload(m, n))
  /\ UNCHANGED op

rwm_lock_last_part(m) ==
  /\ Free(m)
  /\ msg[m].first # 0
  /\ Fits(m, 1)
  /\ LET x == fork_message_chain(Heap, msg[m])
     IN  \/ /\ MustFork(Heap, msg[m])
            /\ Set(x.h, m, x.r)
            /\ op' = [op EXCEPT ![m].at = "ready"]
         \/ /\ ~MustFork(Heap, msg[m])
            /\ op' = [op EXCEPT ![m].at = "cas"]
            /\ UNCHANGED <<part, buf, msg>>
  /\ UNCHANGED content

\* mutant: the part is not looked at again once it is locked
MutantNoRecheck(m) ==
  /\ op[m].at = "cas"
  /\ ~part[msg[m].last].locked
  /\ part' = [part EXCEPT ![msg[m].last].locked = TRUE]
  /\ op' = [op EXCEPT ![m] = [at |-> "ready", locked |-> msg[m].last]]
  /\ UNCHANGED <<buf, msg, content>>

rwm_lock_cas(m) ==
  /\ op[m].at = "cas"
  /\ LET x == fork_message_chain(Heap, msg[m])
     IN  \/ /\ MustFork(Heap, msg[m]) \/ part[msg[m].last].locked
            /\ Set(x.h, m, x.r)
            /\ op' = [op EXCEPT ![m].at = "ready"]
         \/ /\ ~MustFork(Heap, msg[m]) /\ ~part[msg[m].last].locked
            /\ part' = [part EXCEPT ![msg[m].last].locked = TRUE]
            /\ op' = [op EXCEPT ![m] = [at |-> "ready", locked |-> msg[m].last]]
            /\ UNCHANGED <<buf, msg>>
  /\ UNCHANGED content

\* the end of an operation that appended: the part it locked is unlocked
Appended(h, m) ==
  /\ SetHeap(IF op[m].locked = 0 THEN h ELSE [h EXCEPT !.part[op[m].locked].locked = FALSE])
  /\ op' = [op EXCEPT ![m] = Idle]

\* an empty message is appended to without a lock
MayAppend(m) == op[m].at = "ready" \/ (Free(m) /\ msg[m].first = 0)

rwm_push_data(m, n, avail) ==
  /\ MayAppend(m)
  /\ Fits(m, n)
  /\ LET x == rwm_push_data_ext(Heap, msg[m], Payload(m, n), avail)
     IN  /\ Appended(x.h, m)
         /\ msg' = [msg EXCEPT ![m] = x.r]
         /\ Gained(m, x.r, Payload(m, n))

rwm_postpone_alloc(m, n) ==
  /\ MayAppend(m)
  /\ Fits(m, n)
  /\ n <= MSG_STD_BUFFER
  /\ LET x == IF msg[m].first = 0 THEN rwm_push_data_ext(Heap, msg[m], Payload(m, n), 1)
                                  ELSE PostponeAlloc(Heap, msg[m], Payload(m, n))
     IN  /\ Appended(x.h, m)
         /\ msg' = [msg EXCEPT ![m] = x.r]
         /\ Gained(m, x.r, Payload(m, n))

Prepend(m, n, prepended(_, _, _)) ==
  /\ Free(m)
  /\ Fits(m, n)
  /\ LET x == prepended(Heap, msg[m], Payload(m, n))
     IN  /\ Set(x.h, m, x.r)
         /\ content' = [content EXCEPT ![m] = Payload(m, n) \o @]
  /\ UNCHANGED op

rwm_clone(d, m) ==
  /\ Blank(d)
  /\ Free(m)
  /\ part' = IF msg[m].first = 0 THEN part ELSE AddRef(Heap, msg[m].first).part
  /\ msg' = [msg EXCEPT ![d] = msg[m]]
  /\ content' = [content EXCEPT ![d] = content[m]]
  /\ UNCHANGED <<buf, op>>

rwm_move(d, m) ==
  /\ Blank(d)
  /\ Free(m)
  /\ msg' = [msg EXCEPT ![d] = msg[m], ![m] = NoMsg]
  /\ content' = [content EXCEPT ![d] = content[m], ![m] = <<>>]
  /\ UNCHANGED <<part, buf, op>>

rwm_free(m) ==
  /\ Free(m)
  /\ Set(msg_part_decref(Heap, msg[m].first), m, NoMsg)
  /\ content' = [content EXCEPT ![m] = <<>>]
  /\ UNCHANGED op

rwm_fetch_data(m, n) ==
  /\ Free(m)
  /\ n <= msg[m].total
  /\ LET x == Advance(Heap, msg[m], n) IN Set(x.h, m, x.r)
  /\ content' = [content EXCEPT ![m] = SubSeq(@, n + 1, Len(@))]
  /\ UNCHANGED op

rwm_fetch_data_back(m, n) ==
  /\ Free(m)
  /\ n <= msg[m].total
  /\ LET x == Truncate(Heap, msg[m], n) IN Set(x.h, m, x.r)
  /\ content' = [content EXCEPT ![m] = SubSeq(@, 1, Len(@) - n)]
  /\ UNCHANGED op

rwm_split_head(d, m, n) ==
  /\ Blank(d)
  /\ Free(m)
  /\ LET x == rwm_split(Heap, msg[m], n)
     IN  /\ SetHeap(x.h)
         /\ msg' = [msg EXCEPT ![d] = x.r, ![m] = x.t]
  /\ content' = [content EXCEPT ![d] = SubSeq(content[m], 1, Min({n, Len(content[m])})),
                                ![m] = SubSeq(@, n + 1, Len(@))]
  /\ UNCHANGED op

UnionWith(m, t) ==
  /\ m # t
  /\ MayAppend(m)
  /\ Free(t)
  /\ Fits(m, Len(content[t]))
  /\ LET x == rwm_union(Heap, msg[m], msg[t])
     IN  /\ Appended(x.h, m)
         /\ msg' = [msg EXCEPT ![m] = x.r, ![t] = NoMsg]
  /\ content' = [content EXCEPT ![m] = @ \o content[t], ![t] = <<>>]

EncryptTo(m, t, k, bs, avail) ==
  /\ m # t
  /\ MayAppend(m)
  /\ Free(t)
  /\ Fits(m, k * bs)
  /\ k * bs <= msg[t].total
  /\ LET x == rwm_encrypt_decrypt_to(Heap, msg[t], msg[m], k * bs, bs, avail)
         n == msg[t].total - x.raw.total
     IN  /\ Appended(x.h, m)
         /\ msg' = [msg EXCEPT ![m] = x.res, ![t] = x.raw]
         /\ content' = [content EXCEPT
                          ![m] = @ \o evp_crypt(SubSeq(content[t], 1, n), bs),
                          ![t] = SubSeq(@, n + 1, Len(@))]

\* rwm_get_block_ptr_bytes drops empty parts from the front of a message
rwm_get_block_ptr_bytes(m) ==
  /\ Free(m)
  /\ msg[m].total > 0
  /\ LET p == msg[m].first
         q == part[p].next
         h == IF part[p].refcnt = 1 THEN Link(Heap, p, 0) ELSE AddRef(Heap, q)
     IN  /\ End(Heap, msg[m], p) = msg[m].fo
         /\ Set(msg_part_decref(h, p), m,
                [msg[m] EXCEPT !.first = q, !.fo = part[q].offset])
  /\ UNCHANGED <<op, content>>

Call ==
  \E m \in Messages :
    \/ \E n \in 0..MaxPush, avail \in 0..2 : rwm_create(m, n, avail)
    \/ rwm_lock_last_part(m)
    \/ rwm_lock_cas(m)
    \/ \E n \in 1..MaxPush, avail \in 0..2 : rwm_push_data(m, n, avail)
    \/ \E n \in 1..MaxPush : rwm_postpone_alloc(m, n)
    \/ \E n \in 1..MaxPush : Prepend(m, n, rwm_push_data_front)
    \/ \E n \in 1..MSG_STD_BUFFER : Prepend(m, n, rwm_prepend_alloc)
    \/ \E d \in Messages : rwm_clone(d, m)
    \/ \E d \in Messages : rwm_move(d, m)
    \/ rwm_free(m)
    \/ \E n \in 1..MaxLen : rwm_fetch_data(m, n)
    \/ \E n \in 1..MaxLen : rwm_fetch_data_back(m, n)
    \/ \E d \in Messages, n \in 1..MaxLen : rwm_split_head(d, m, n)
    \/ \E t \in Messages : UnionWith(m, t)
    \/ \E t \in Messages, k \in 1..MaxLen, bs \in BlockSizes, avail \in 0..2 :
         EncryptTo(m, t, k, bs, avail)
    \/ rwm_get_block_ptr_bytes(m)

Next == steps < MaxSteps /\ steps' = steps + 1 /\ Call

Spec == Init /\ [][Next]_vars

(***************************************************************************)
(* Properties                                                               *)
(***************************************************************************)
Links(p) ==
  Cardinality({m \in Messages : msg[m].first = p})
  + Cardinality({q \in Parts : part[q].refcnt > 0 /\ part[q].next = p})

\* Whatever the other messages that share its parts go through, a message
\* holds its own bytes: rwm_process_ex from every offset, by its short way or
\* its long one, and rwm_prepare_iovec read exactly them.  Every part is
\* counted once for each message and each part that leads to it, so the last
\* message to let go of it frees it and none is freed under a message.
MessagesIntact ==
  /\ \A m \in {k \in Messages : msg[k].first # 0} :
       LET r == msg[m]
           w == Walk(Heap, r)
       IN  /\ Len(content[m]) = r.total
           /\ w[Len(w)].upto = r.total
           /\ \A o \in 0..r.total : \A n \in 1..(r.total - o) :
                FlattenSeq(Blocks(Heap, r, w, n, o)) = SubSeq(content[m], o + 1, o + n)
           /\ \A n \in 1..r.total :
                FlattenSeq(Iovec(Heap, r, w, n)) = SubSeq(content[m], 1, n)
  /\ \A p \in Parts : part[p].refcnt = Links(p)
  /\ \A b \in Parts :
       buf[b].refcnt = Cardinality({p \in Parts : part[p].refcnt > 0 /\ part[p].buf = b})
=============================================================================
