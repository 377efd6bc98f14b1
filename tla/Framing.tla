------------------------------ MODULE Framing ------------------------------
(***************************************************************************)
(* The framing of GoldSrc datagrams over Reticulum links                   *)
(* (src/src/framing.rs).  A datagram is a sequence of bytes; a chunk is the *)
(* payload of one link packet, a header byte followed by at most MaxChunk  *)
(* bytes of the datagram.  Bit 0 of the header marks the final chunk of a  *)
(* datagram, the other bits are always zero.                               *)
(***************************************************************************)
EXTENDS Naturals, Sequences

CONSTANTS
  MaxChunk,      \* MAX_CHUNK: the datagram bytes one chunk carries
  MaxDatagram    \* 65_535: a longer reassembled datagram is dropped

ASSUME FramingAssumption ==
  /\ MaxChunk \in Nat \ {0}
  /\ MaxDatagram \in Nat
  /\ MaxDatagram >= MaxChunk

Final == 1
More  == 0

\* Mutant: the last, short chunk is forgotten.
ChunkCountFloor(n) == IF n < MaxChunk THEN 1 ELSE n \div MaxChunk

\* The number of chunks of a datagram of n bytes; an empty datagram still
\* takes one, so that the far side produces an empty datagram.
ChunkCount(n) == IF n = 0 THEN 1 ELSE ((n - 1) \div MaxChunk) + 1

\* Mutant: a chunk one byte too long.
ChunkEndLong(n, i) == IF i * MaxChunk + 1 < n THEN i * MaxChunk + 1 ELSE n

\* The end of chunk i of a datagram of n bytes.
ChunkEnd(n, i) == IF i * MaxChunk < n THEN i * MaxChunk ELSE n

\* Mutant: a chunk is final when it is short.
ChunkFinalWhenShort(datagram, i) ==
  LET n == Len(datagram)
  IN  << IF i * MaxChunk > n THEN Final ELSE More >>
        \o SubSeq(datagram, (i - 1) * MaxChunk + 1, ChunkEnd(n, i))

\* Chunk i of a datagram: its header byte and its part of the datagram.
Chunk(datagram, i) ==
  LET n == Len(datagram)
  IN  << IF i = ChunkCount(n) THEN Final ELSE More >>
        \o SubSeq(datagram, (i - 1) * MaxChunk + 1, ChunkEnd(n, i))

\* frame: the chunks of one datagram, in order.
frame(datagram) ==
  [i \in 1..ChunkCount(Len(datagram)) |-> Chunk(datagram, i)]

\* Mutant: a complete datagram stays in the buffer.
pushKeepsBuffer(buf, chunk) ==
  IF chunk = << >>
  THEN [buf |-> buf, out |-> << >>]
  ELSE LET complete == buf \o Tail(chunk)
       IN  [buf |-> complete,
            out |-> IF Head(chunk) = Final THEN << complete >> ELSE << >>]

\* Reassembler::push on the buffer buf: the buffer it leaves, and the
\* datagram it returns as a sequence of at most one element.
push(buf, chunk) ==
  IF chunk = << >>
  THEN [buf |-> buf, out |-> << >>]
  ELSE LET complete == buf \o Tail(chunk)
       IN  IF Head(chunk) # Final
           THEN [buf |-> complete, out |-> << >>]
           ELSE [buf |-> << >>,
                 out |-> IF Len(complete) > MaxDatagram
                         THEN << >> ELSE << complete >>]
=============================================================================
