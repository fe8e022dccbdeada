------------------------------- MODULE RingBuf -------------------------------
(***************************************************************************)
(* The ring buffer of k_ringbuf.c, byte by byte, under the queues.  A ring *)
(* of type DYN holds messages of any length, each behind a header of one   *)
(* to three bytes that encodes its length; header and message may both be  *)
(* split at the end of the buffer.  A ring of type FIX holds blocks of one *)
(* size.  Every call runs in a critical section of its caller.             *)
(*                                                                         *)
(* A byte has ByteMod values (256 in the code; the header formats only     *)
(* need a multiple of 4): with few values short messages already have      *)
(* headers of two and three bytes.                                         *)
(*                                                                         *)
(* An operator whose comment starts with "Mutant" is a faulty variant of   *)
(* the definition that follows it; no specification uses it.               *)
(***************************************************************************)
EXTENDS Integers, Sequences

CONSTANTS
  ByteMod,   \* number of values of a byte
  RingSize,  \* end - buf of a DYN ring
  BlkSize,   \* blk_size of a FIX ring
  BlkNum,    \* blocks of a FIX ring
  Message    \* the messages that are sent

Byte == 0 .. ByteMod - 1

ASSUME RingAssumption ==
  /\ ByteMod \in Nat /\ ByteMod >= 4 /\ ByteMod % 4 = 0
  /\ RingSize \in Nat \ {0} /\ BlkSize \in Nat \ {0} /\ BlkNum \in Nat \ {0}
  /\ Message \subseteq Seq(Byte) \ {<< >>}

VARIABLES
  type,      \* RINGBUF_TYPE_DYN or RINGBUF_TYPE_FIX
  buf,       \* the bytes, from offset 0
  head,      \* offsets of the pointers
  tail,
  ring_free, \* freesize
  data,      \* what the last ringbuf_pop returned
  queued,    \* history: the messages in the ring, first one first
  start      \* history: how far behind head each of them, with its header, starts

ringVars == <<type, buf, head, tail, ring_free, data, queued, start>>

end == IF type = "DYN" THEN RingSize ELSE BlkSize * BlkNum
-----------------------------------------------------------------------------
\* ringbuf_headlen_compress: seven bits, or a tag of two bits and the rest.
Max1 == ByteMod \div 2
Max2 == (ByteMod \div 4) * ByteMod
Max3 == Max2 * ByteMod
ringbuf_headlen_compress(len) ==
  CASE len < Max1 -> <<len>>
    [] len >= Max1 /\ len < Max2 -> <<2 * (ByteMod \div 4) + len \div ByteMod, len % ByteMod>>
    [] len >= Max2 /\ len < Max3 ->
         <<3 * (ByteMod \div 4) + len \div (ByteMod * ByteMod),
           (len \div ByteMod) % ByteMod, len % ByteMod>>

\* The number of header bytes, from the tag in the first one.
len_bytes(b) == CASE b < Max1 -> 1
                  [] b >= Max1 /\ b < 3 * (ByteMod \div 4) -> 2
                  [] b >= 3 * (ByteMod \div 4) -> 3

\* ringbuf_headlen_decompress
ringbuf_headlen_decompress(c) ==
  LET b1 == IF Len(c) > 1 THEN c[1] % (ByteMod \div 4) ELSE c[1]
  IN  CASE Len(c) = 1 -> b1
        [] Len(c) = 2 -> b1 * ByteMod + c[2]
        [] Len(c) = 3 -> (b1 * ByteMod + c[2]) * ByteMod + c[3]

ringbuf_is_full  == IF type = "DYN" THEN ring_free < 2 ELSE ring_free < BlkSize
ringbuf_is_empty == ring_free = end

\* memcpy into and out of the buffer, at an offset.
memcpy(b, at, s)  == [i \in DOMAIN b |-> IF i >= at /\ i < at + Len(s) THEN s[i - at + 1] ELSE b[i]]
bytes(b, at, len) == [i \in 1 .. len |-> b[at + i - 1]]

\* A pointer that has reached the end goes back to the start.
Wrap(p) == IF p = end THEN 0 ELSE p

\* Part of ringbuf_push: s goes in at tail, in two pieces if the end is in between.
Put(r, s) ==
  LET t     == Wrap(r.tail)
      split == end - t
  IN  IF t >= head /\ split < Len(s)
      THEN [buf  |-> memcpy(memcpy(r.buf, t, SubSeq(s, 1, split)), 0, SubSeq(s, split + 1, Len(s))),
            tail |-> Len(s) - split]
      ELSE [buf |-> memcpy(r.buf, t, s), tail |-> t + Len(s)]

\* ringbuf_push: there is a header for messages of that length, and both fit together.
ringbuf_push(s) ==
  LET ring   == [buf |-> buf, tail |-> tail]
      header == IF type = "DYN" THEN ringbuf_headlen_compress(Len(s)) ELSE << >>
      next   == IF type = "DYN" THEN Put(Put(ring, header), s)
                ELSE [buf |-> memcpy(buf, Wrap(tail), s), tail |-> Wrap(tail) + BlkSize]
  IN  /\ ~ringbuf_is_full
      /\ type = "DYN" => Len(s) < Max3
      /\ ring_free >= Len(header) + Len(s)
      /\ buf' = next.buf /\ tail' = next.tail
      /\ ring_free' = ring_free - Len(header) - Len(s)
      /\ queued' = Append(queued, s) /\ start' = Append(start, end - ring_free)
      /\ UNCHANGED <<type, head, data>>

\* Part of ringbuf_pop: len bytes from offset at, in two pieces if `split' and the end is in
\* between, and the offset behind them.
Get(at, len, split) ==
  IF split /\ end - at < len
  THEN [s |-> bytes(buf, at, end - at) \o bytes(buf, 0, len - (end - at)), head |-> len - (end - at)]
  ELSE [s |-> bytes(buf, at, len), head |-> at + len]

\* Mutant: data is not moved on, the second piece is copied over the first.
ringbuf_pop_dyn_overwrites ==
  LET h       == Wrap(head)
      header  == Get(h, len_bytes(buf[h]), TRUE)
      len     == ringbuf_headlen_decompress(header.s)
      d       == Wrap(header.head)
      message == Get(d, len, d > tail)
      split   == IF message.head < d THEN end - d ELSE 0
  IN  [s    |-> SubSeq(message.s, split + 1, len) \o SubSeq(message.s, len - split + 1, len),
       head |-> message.head, size |-> Len(header.s) + len]

\* The message at the head of a DYN ring: what is read, where the head is then, and the
\* bytes that become free.
ringbuf_pop_dyn ==
  LET h       == Wrap(head)
      header  == Get(h, len_bytes(buf[h]), TRUE)
      len     == ringbuf_headlen_decompress(header.s)
      d       == Wrap(header.head)
      message == Get(d, len, d > tail)
  IN  [s |-> message.s, head |-> message.head, size |-> Len(header.s) + len]

ringbuf_pop ==
  LET fix  == Wrap(head)
      next == IF type = "DYN" THEN ringbuf_pop_dyn
              ELSE [s |-> bytes(buf, fix, BlkSize), head |-> fix + BlkSize, size |-> BlkSize]
  IN  /\ ~ringbuf_is_empty
      /\ data' = next.s /\ head' = next.head
      /\ ring_free' = ring_free + next.size
      /\ queued' = IF queued = << >> THEN << >> ELSE Tail(queued)
      /\ start'  = [i \in 1 .. Len(queued') |-> start[i + 1] - next.size]
      /\ UNCHANGED <<type, buf, tail>>

\* Mutant: tail keeps its place.
ringbuf_reset_tail ==
  /\ head' = 0 /\ ring_free' = end
  /\ queued' = << >> /\ start' = << >>
  /\ UNCHANGED <<type, buf, tail, data>>

ringbuf_reset ==
  /\ head' = 0 /\ tail' = 0 /\ ring_free' = end
  /\ queued' = << >> /\ start' = << >>
  /\ UNCHANGED <<type, buf, data>>

\* What memcpy takes for a block when the message is shorter: the bytes behind it come along
\* (buf_queue_send only refuses messages that are longer than a block).
Blocks(m) == {s \in [1 .. BlkSize -> Byte] : SubSeq(s, 1, Len(m)) = m}

ringbuf_init ==
  /\ type \in {"DYN", "FIX"}
  /\ buf = [i \in 0 .. end - 1 |-> 0]
  /\ head = 0 /\ tail = 0 /\ ring_free = end
  /\ data = << >> /\ queued = << >> /\ start = << >>

RingNext ==
  \/ \E m \in Message :
       \/ type = "DYN" /\ ringbuf_push(m)
       \/ type = "FIX" /\ Len(m) <= BlkSize /\ \E s \in Blocks(m) : ringbuf_push(s)
  \/ ringbuf_pop
  \/ ringbuf_reset

RingSpec == ringbuf_init /\ [][RingNext]_ringVars
-----------------------------------------------------------------------------
\* Type invariant.  A pointer never leaves the buffer, so no copy has been made past its end.
RingTypeOK ==
  /\ type \in {"DYN", "FIX"}
  /\ buf \in [0 .. end - 1 -> Byte]
  /\ head \in 0 .. end /\ tail \in 0 .. end /\ ring_free \in 0 .. end
  /\ data \in Seq(Byte) /\ queued \in Seq(Seq(Byte)) /\ start \in Seq(0 .. end)

\* The bytes in use, read around the end from head on, are the queued messages with their
\* headers, one behind the other: no push has overwritten a message that was still to be
\* read, and freesize and tail agree with what is there.
Encoded(s) == IF type = "DYN" THEN ringbuf_headlen_compress(Len(s)) \o s ELSE s
ContentsOK ==
  LET used == end - ring_free
      last == Len(queued)
      behind(i) == start[i] + Len(Encoded(queued[i]))
  IN  /\ Len(start) = last /\ IF last = 0 THEN used = 0 ELSE start[1] = 0 /\ behind(last) = used
      /\ \A i \in 1 .. last - 1 : start[i + 1] = behind(i)
      /\ \A i \in 1 .. last : \A j \in DOMAIN Encoded(queued[i]) :
           buf[(head + start[i] + j - 1) % end] = Encoded(queued[i])[j]
      /\ tail % end = (head + used) % end

\* Both: no call leaves the ring in a state from which a later one reads or writes outside
\* the buffer or inside another message (head, tail and freesize of k_ringbuf_t).
RingInv == RingTypeOK /\ ContentsOK

\* ringbuf_pop returns the messages whole, in the order in which they were pushed, however
\* header and message lie across the end of the buffer.
FirstInFirstOut == [][ringbuf_pop => queued # << >> /\ data' = Head(queued)]_ringVars
=============================================================================
