----------------------------- MODULE MCLinkPipe -----------------------------
(***************************************************************************)
(* Constants for checking LinkPipe.  Byte i of the datagram numbered k is  *)
(* 10 * k + i, so that a byte tells its datagram and its place.            *)
(***************************************************************************)
EXTENDS LinkPipe

Datagram(k, n) == [i \in 1..n |-> 10 * k + i]

\* Lengths around the multiples of MaxChunk = 2: 0, 1, 2, 3, 4 and 5 bytes.
SampleDatagrams ==
  {<< >>, Datagram(1, 1), Datagram(2, 2), Datagram(3, 3), Datagram(4, 4), Datagram(5, 5)}
=============================================================================
