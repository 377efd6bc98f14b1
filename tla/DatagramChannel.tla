--------------------------- MODULE DatagramChannel ---------------------------
(***************************************************************************)
(* What one direction of a relay promises the two game programs: the       *)
(* service of UDP itself without reordering.  Datagrams are in transit in  *)
(* the order they were sent; any of them may be lost, before they set out  *)
(* or on the way; none is altered, repeated, or overtaken by a later one.  *)
(***************************************************************************)
EXTENDS Naturals, Sequences

CONSTANT Datagrams

VARIABLES
  sent,        \* the datagrams read from the sending program
  transit,     \* the datagrams on the way, the oldest first
  delivered    \* the datagrams written to the receiving program

vars == << sent, transit, delivered >>

Init ==
  /\ sent = << >>
  /\ transit = << >>
  /\ delivered = << >>

Send(d) ==
  /\ sent' = Append(sent, d)
  /\ transit' = Append(transit, d)
  /\ UNCHANGED delivered

Discard(d) ==
  /\ sent' = Append(sent, d)
  /\ UNCHANGED << transit, delivered >>

Lose(i) ==
  /\ transit' = SubSeq(transit, 1, i - 1) \o SubSeq(transit, i + 1, Len(transit))
  /\ UNCHANGED << sent, delivered >>

Deliver ==
  /\ transit # << >>
  /\ transit' = Tail(transit)
  /\ delivered' = Append(delivered, Head(transit))
  /\ UNCHANGED sent

Next ==
  \/ \E d \in Datagrams : Send(d) \/ Discard(d)
  \/ \E i \in 1..Len(transit) : Lose(i)
  \/ Deliver

Spec == Init /\ [][Next]_vars
=============================================================================
