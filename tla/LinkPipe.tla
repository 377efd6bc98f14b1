------------------------------ MODULE LinkPipe ------------------------------
(***************************************************************************)
(* One direction of a relay, end to end: a UDP socket is read, each        *)
(* datagram is framed and its chunks are issued to the Prns engine, the    *)
(* engine puts them on the link, the router on the far side moves them     *)
(* into the relay's bounded channel, and the relay task reassembles them   *)
(* and writes the datagrams to its own UDP socket.  Both directions of a   *)
(* link have this shape (src/src/relay.rs, start_server and start_client). *)
(* The link stays open here; ClientRelay and ServerRelay model its closing. *)
(***************************************************************************)
EXTENDS Framing

CONSTANTS
  Datagrams,     \* the datagrams the sending game program may send
  LinkMdu,       \* longest payload of one packet of this link (negotiated)
  ChannelCap,    \* capacity of the channel between router and relay task
  Lossy,         \* TRUE: the link may lose a packet
  MaxSent        \* bound: datagrams read from the sending socket

\* A socket read returns at most UDP_READ_BUF = 8192 bytes, fewer than the
\* longest datagram the reassembler lets through.
ASSUME PipeAssumption ==
  /\ \A d \in Datagrams : d \in Seq(Nat) /\ Len(d) <= MaxDatagram
  /\ LinkMdu \in Nat
  /\ ChannelCap \in Nat \ {0}
  /\ Lossy \in BOOLEAN
  /\ MaxSent \in Nat

VARIABLES
  pump,        \* the code that frames the next datagram read: the server's
               \* "from_sc", the client's relay task with the "first" packet of a
               \* source, its "send_task" after that, or none: "ended"
  sent,        \* history: the datagrams read from the sending socket, all of them
  commands,    \* SendToLink payloads issued, not yet executed by the engine
  events,      \* LinkData events the far router has not handled
  channel,     \* the mpsc channel from the far router to its relay task
  buf,         \* the relay task's Reassembler
  delivered,   \* history: the datagrams written to the receiving socket
  dropped      \* history: the number of chunks lost on the way

vars == << pump, sent, commands, events, channel, buf, delivered, dropped >>

\* Either side's direction: which one, no step changes.
Init ==
  /\ pump \in {"from_sc", "first"}
  /\ sent = << >>
  /\ commands = << >>
  /\ events = << >>
  /\ channel = << >>
  /\ buf = << >>
  /\ delivered = << >>
  /\ dropped = 0

\* A packet is framed and issued if it is not empty, and the first packet of a
\* client's source in any case.
Frames(d) == pump = "first" \/ d # << >>

\* The first packet is followed by send_task's loop, which breaks at an empty
\* packet; from_sc's loop goes on.
PumpAfter(d) ==
  IF pump = "from_sc" THEN "from_sc" ELSE IF Frames(d) THEN "send_task" ELSE "ended"

\* A datagram is read and all its chunks are issued: issue() does not await, so
\* no other step of the bridge comes between the chunks.
ReadDatagram ==
  /\ Len(sent) < MaxSent
  /\ pump # "ended"
  /\ \E d \in Datagrams :
       /\ sent' = Append(sent, d)
       /\ pump' = PumpAfter(d)
       /\ commands' = IF Frames(d) THEN commands \o frame(d) ELSE commands
  /\ UNCHANGED << events, channel, buf, delivered, dropped >>

\* The engine executes the oldest SendToLink.  A payload longer than the
\* negotiated MDU settles as WriteFailed, and nobody awaits the settlement.
SendToLink ==
  /\ commands # << >>
  /\ commands' = Tail(commands)
  /\ IF Len(Head(commands)) <= LinkMdu
     THEN /\ events' = Append(events, Head(commands))
          /\ UNCHANGED dropped
     ELSE /\ dropped' = dropped + 1
          /\ UNCHANGED events
  /\ UNCHANGED << pump, sent, channel, buf, delivered >>

\* The link loses the oldest packet; a link packet is not sent again.
LosePacket ==
  /\ Lossy
  /\ commands # << >>
  /\ commands' = Tail(commands)
  /\ dropped' = dropped + 1
  /\ UNCHANGED << pump, sent, events, channel, buf, delivered >>

\* The router's BridgeEvent::LinkData: try_send, and a full channel drops
\* the chunk.
RouteLinkData ==
  /\ events # << >>
  /\ events' = Tail(events)
  /\ IF Len(channel) < ChannelCap
     THEN /\ channel' = Append(channel, Head(events))
          /\ UNCHANGED dropped
     ELSE /\ dropped' = dropped + 1
          /\ UNCHANGED channel
  /\ UNCHANGED << pump, sent, commands, buf, delivered >>

\* Mutant: a chunk may be taken from the channel twice.
RelayChunkAgain ==
  /\ channel # << >>
  /\ channel' \in {channel, Tail(channel)}
  /\ LET r == push(buf, Head(channel))
     IN  /\ buf' = r.buf
         /\ delivered' = delivered \o r.out
  /\ UNCHANGED << pump, sent, commands, events, dropped >>

\* The relay task takes a chunk, reassembles, and sends what is complete.
RelayChunk ==
  /\ channel # << >>
  /\ channel' = Tail(channel)
  /\ LET r == push(buf, Head(channel))
     IN  /\ buf' = r.buf
         /\ delivered' = delivered \o r.out
  /\ UNCHANGED << pump, sent, commands, events, dropped >>

Next ==
  \/ ReadDatagram
  \/ SendToLink
  \/ LosePacket
  \/ RouteLinkData
  \/ RelayChunk

Spec == Init /\ [][Next]_vars
-----------------------------------------------------------------------------
\* The types of the variables; no chunk exceeds what send_to_link takes at once,
\* also where a datagram's length is a multiple of MAX_CHUNK.
TypeOK ==
  /\ pump \in {"from_sc", "first", "send_task", "ended"}
  /\ sent \in Seq(Datagrams)
  /\ dropped \in Nat
  /\ \A q \in {commands, events, channel} : \A i \in 1..Len(q) :
       Len(q[i]) \in 1..(MaxChunk + 1)

\* s is t with some elements left out: f picks the ones that stay.
IsSubsequence(s, t) ==
  \E f \in [1..Len(s) -> 1..Len(t)] :
    /\ \A i, j \in 1..Len(s) : i < j => f[i] < f[j]
    /\ \A i \in 1..Len(s) : s[i] = t[f[i]]

\* So far every datagram fits one chunk (a typical GoldSrc datagram does, says
\* MAX_CHUNK's comment).
Unfragmented == \A i \in 1..Len(sent) : Len(sent[i]) <= MaxChunk

\* What is on its way, in the order it was sent: the bodies of the chunks in
\* the channel, the events and the commands.
Bodies(q) == [i \in 1..Len(q) |-> Tail(q[i])]
Transit == Bodies(channel \o events \o commands)

Channel == INSTANCE DatagramChannel WITH transit <- Transit

\* As long as it carries datagrams of one chunk only, a direction is a lossy
\* channel in order: each of its steps is one of the channel's.
ImplementsChannel ==
  Channel!Init /\ [][Unfragmented' => Channel!Next]_(Channel!vars)

\* Datagrams of one chunk come out in the order they went in, none twice,
\* whatever is dropped on the way.
DeliveredInOrder == Unfragmented => IsSubsequence(delivered, sent)

AtRest == commands = << >> /\ events = << >> /\ channel = << >>

\* The datagrams that go on the link, by their place in sent: those with
\* content, and whatever a client's source sends first.
Carried == {k \in 1..Len(sent) : sent[k] # << >> \/ (k = 1 /\ pump # "from_sc")}

\* While no chunk was lost, the datagrams carried come out once each, whole, in
\* their order and with none left out between two of them; when nothing is on
\* its way any more all have come out, the last of each size too.  No others do.
Lossless ==
  dropped = 0 =>
    /\ \E f \in [1..Len(delivered) -> Carried] :
         /\ \A i, j \in 1..Len(delivered) : i < j => f[i] < f[j]
         /\ \A i \in 1..Len(delivered) : delivered[i] = sent[f[i]]
         /\ \A k \in Carried :
              AtRest \/ (\E i \in 1..Len(delivered) : k < f[i])
                => \E i \in 1..Len(delivered) : k = f[i]
    /\ AtRest => buf = << >>
=============================================================================
