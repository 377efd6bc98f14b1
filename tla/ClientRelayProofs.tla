------------------------- MODULE ClientRelayProofs -------------------------
(***************************************************************************)
(* Proofs about ClientRelay, for any set of sources, any number of relay   *)
(* tasks and any capacity of the channels.                                 *)
(***************************************************************************)
EXTENDS ClientRelay, SequenceLemmas

Opening == {Unspawned, "establish", "path", "retry", "identify", "register", "attach"}

\* What a relay task holds at each of its stages.
Stage(t) ==
  /\ pc[t] # Unspawned => first[t] \in Packet
  /\ open[t] => pc[t] \in {"attach", "relay"}
  /\ pc[t] = "attach" => open[t]
  /\ pc[t] \in Opening => sender[t] = "none"
  /\ pc[t] = "relay" => sender[t] # "none"
  /\ sender[t] = "running" => pc[t] = "relay" /\ open[t]
  /\ sender[t] = "ended" => ~ open[t]
  /\ receiver[t] = "running" => pc[t] = "relay"
  /\ link[t] = "up" => pc[t] \in {"identify", "register", "attach", "relay", "unlink"}
StageInv == \A t \in Tasks : Stage(t)

\* While the loop has its read guard it holds a packet for the task that the
\* map still names for the packet's source; otherwise it holds none.
LoopInv ==
  IF ReadLocked
  THEN /\ held \in [task : Tasks, packet : Packet]
       /\ udp_links[held.packet.src] = held.task
  ELSE held = NoPacket

IInv == TypeOK /\ LoopInv /\ StageInv /\ MapsNameLiveRelays
-----------------------------------------------------------------------------
LEMMA EventsPut ==
  ASSUME TypeOK, NEW e \in Event, events' = Append(events, e)
  PROVE  events' \in Seq(Event)
<1>1. events \in Seq(Event)
  BY DEF TypeOK
<1>2. QED
  BY <1>1, AppendFacts

\* What the UDP loop reads is a packet.
LEMMA InboxTaken ==
  ASSUME TypeOK, inbox # << >>, inbox' = Tail(inbox)
  PROVE  inbox' \in Seq(Packet) /\ Head(inbox) \in Packet /\ Head(inbox).src \in Srcs
<1>1. inbox \in Seq(Packet)
  BY DEF TypeOK
<1>2. inbox' \in Seq(Packet) /\ Head(inbox) \in Packet
  BY <1>1, TailFacts
<1>3. QED
  BY <1>2 DEF Packet

\* The link takes a packet only.
LEMMA CarryType ==
  ASSUME TypeOK, NEW t \in Tasks, NEW p \in Packet, Carry(t, p)
  PROVE  wire' \in [Tasks -> Seq(Packet)]
<1>1. CASE link[t] = "up"
  <2>1. wire' = [wire EXCEPT ![t] = Append(@, p)] /\ wire \in [Tasks -> Seq(Packet)]
    BY <1>1 DEF Carry, TypeOK
  <2>2. QED
    BY <2>1, PutFacts
<1>2. CASE link[t] # "up"
  BY <1>2 DEF Carry, TypeOK
<1>3. QED
  BY <1>1, <1>2

\* The types are kept by the UDP loop and by what games send.
LEMMA LoopTypes ==
  ASSUME TypeOK, LoopInv, LoopNext \/ RecvFails \/ \E s \in Srcs : GameSends(s)
  PROVE  TypeOK'
<1> USE DEF loopVars, mapVars, taskVars, pumpVars, engineVars
<1>1. CASE \E s \in Srcs : GameSends(s)
  <2>1. PICK s \in Srcs : GameSends(s)
    BY <1>1
  <2>2. PICK e \in BOOLEAN : inbox' = Append(inbox, [src |-> s, id |-> sentCount + 1, empty |-> e])
    BY <2>1 DEF GameSends
  <2>3. sentCount' \in 0..MaxPackets /\ sentCount + 1 \in 1..MaxPackets
    BY <2>1, ClientAssumption DEF GameSends, TypeOK
  <2>4. [src |-> s, id |-> sentCount + 1, empty |-> e] \in Packet
    BY <2>3 DEF Packet
  <2>5. inbox' \in Seq(Packet)
    BY <2>2, <2>4, AppendFacts DEF TypeOK
  <2>6. QED
    BY <2>1, <2>3, <2>5 DEF TypeOK, GameSends
<1>2. CASE RecvFails
  BY <1>2 DEF RecvFails, TypeOK, LoopStates
<1>3. CASE RecvKnown
  <2>1. inbox' \in Seq(Packet) /\ Head(inbox) \in Packet /\ Head(inbox).src \in Srcs
    BY <1>3, InboxTaken DEF RecvKnown
  <2>2. held' \in [task : Tasks, packet : Packet]
    BY <1>3, <2>1 DEF RecvKnown, TypeOK
  <2>3. QED
    BY <1>3, <2>1, <2>2 DEF RecvKnown, TypeOK, LoopStates
<1>4. CASE SendDone
  <2>1. held.task \in Tasks /\ held.packet \in Packet
    BY <1>4 DEF SendDone, LoopInv, ReadLocked
  <2>2. queue' = [queue EXCEPT ![held.task] = Append(@, held.packet)]
    BY <1>4 DEF SendDone
  <2>3. queue \in [Tasks -> Seq(Packet)]
    BY DEF TypeOK
  <2>4. /\ queue' \in [Tasks -> Seq(Packet)]
        /\ \A c \in Tasks \ {held.task} : queue'[c] = queue[c]
        /\ Len(queue[held.task]) \in Nat
        /\ Len(queue'[held.task]) = Len(queue[held.task]) + 1
    BY <2>1, <2>2, <2>3, PutFacts
  <2>5. \A t \in Tasks : Len(queue'[t]) <= ChannelCap
    BY <1>4, <2>4, ClientAssumption DEF SendDone, TypeOK
  <2>6. QED
    BY <1>4, <2>4, <2>5 DEF SendDone, TypeOK, LoopStates
<1>5. CASE SendFails
  BY <1>5 DEF SendFails, TypeOK, LoopStates
<1>6. CASE RecvNoTarget
  BY <1>6, InboxTaken DEF RecvNoTarget, TypeOK, LoopStates
<1>7. CASE RecvSpawn
  <2>1. inbox' \in Seq(Packet) /\ Head(inbox) \in Packet
    BY <1>7, InboxTaken DEF RecvSpawn
  <2>2. PICK t \in Tasks : /\ pc' = [pc EXCEPT ![t] = "establish"]
                           /\ first' = [first EXCEPT ![t] = Head(inbox)]
    BY <1>7 DEF RecvSpawn, MoveTo
  <2>3. pc' \in [Tasks -> TaskStates] /\ first' \in [Tasks -> Packet \cup {None}]
    BY <2>1, <2>2 DEF TypeOK, TaskStates
  <2>4. QED
    BY <1>7, <2>1, <2>3 DEF RecvSpawn, TypeOK
<1>8. QED
  BY <1>1, <1>2, <1>3, <1>4, <1>5, <1>6, <1>7 DEF LoopNext

\* The types are kept by a relay task.
LEMMA TaskTypes ==
  ASSUME TypeOK, StageInv, NEW t \in Tasks, TaskNext(t)
  PROVE  TypeOK'
<1> USE DEF loopVars, mapVars, taskVars, pumpVars, engineVars, MoveTo
<1>1. CASE Register(t)
  <2>1. first[t] \in Packet /\ first[t].src \in Srcs
    BY <1>1 DEF Register, StageInv, Stage, Packet, Unspawned
  <2>2. wire' \in [Tasks -> Seq(Packet)]
    BY <1>1, <2>1, CarryType DEF Register
  <2>3. QED
    BY <1>1, <2>1, <2>2 DEF Register, TypeOK, TaskStates
<1>2. CASE Establish(t)
  BY <1>2 DEF Establish, TypeOK, TaskStates, LinkStates
<1>3. CASE RequestPath(t)
  BY <1>3 DEF RequestPath, TypeOK, TaskStates
<1>4. CASE Reestablish(t)
  BY <1>4 DEF Reestablish, TypeOK, TaskStates, LinkStates
<1>5. CASE Identify(t)
  BY <1>5 DEF Identify, TypeOK, TaskStates
<1>6. CASE Attach(t)
  BY <1>6 DEF Attach, TypeOK, TaskStates, PumpStates
<1>7. CASE Finish(t)
  BY <1>7 DEF Finish, TypeOK, TaskStates
<1>8. CASE Unlink(t)
  BY <1>8 DEF Unlink, TypeOK, TaskStates, LinkStates
<1>9. QED
  BY <1>1, <1>2, <1>3, <1>4, <1>5, <1>6, <1>7, <1>8 DEF TaskNext

\* The types are kept by the pumps.
LEMMA PumpTypes ==
  ASSUME TypeOK, NEW t \in Tasks, SenderNext(t) \/ ReceiverNext(t)
  PROVE  TypeOK'
<1> USE DEF loopVars, mapVars, taskVars, pumpVars, engineVars
<1> DEFINE Ends == /\ queue' \in [Tasks -> Seq(Packet)]
                   /\ \A u \in Tasks : Len(queue'[u]) <= ChannelCap
                   /\ open' \in [Tasks -> BOOLEAN]
                   /\ sender' \in [Tasks -> PumpStates]
<1>1. EndSender(t) => Ends
  BY ClientAssumption DEF EndSender, TypeOK, PumpStates
<1>2. CASE PumpToLink(t)
  <2>1. CASE Head(queue[t]).empty
    BY <1>1, <1>2, <2>1 DEF PumpToLink, TypeOK
  <2>2. CASE ~ Head(queue[t]).empty
    <3>1. /\ queue[t] # << >>
          /\ queue' = [queue EXCEPT ![t] = Tail(@)]
          /\ Carry(t, Head(queue[t]))
          /\ queue \in [Tasks -> Seq(Packet)]
      BY <1>2, <2>2 DEF PumpToLink, TypeOK
    <3>2. /\ queue' \in [Tasks -> Seq(Packet)]
          /\ \A c \in Tasks \ {t} : queue'[c] = queue[c]
          /\ Len(queue'[t]) \in Nat
          /\ Len(queue[t]) = Len(queue'[t]) + 1
          /\ Head(queue[t]) \in Packet
      BY <3>1, TakeFacts
    <3>3. \A u \in Tasks : Len(queue'[u]) <= ChannelCap
      <4>1. \A u \in Tasks : Len(queue[u]) <= ChannelCap
        BY DEF TypeOK
      <4>2. QED
        BY <3>2, <4>1, ClientAssumption
    <3>4. wire' \in [Tasks -> Seq(Packet)]
      BY <3>1, <3>2, CarryType
    <3>5. QED
      BY <1>2, <2>2, <3>2, <3>3, <3>4 DEF PumpToLink, TypeOK
  <2>3. QED
    BY <2>1, <2>2
<1>3. CASE PumpToLinkEnds(t)
  BY <1>1, <1>3 DEF PumpToLinkEnds, TypeOK
<1>4. CASE PumpToUdp(t)
  <2>1. replies \in [Tasks -> Seq({"reply"})] /\ replies[t] # << >>
    BY <1>4 DEF PumpToUdp, TypeOK
  <2>2. CASE replies' = [replies EXCEPT ![t] = Tail(@)] /\ UNCHANGED receiver
    <3>1. /\ replies' \in [Tasks -> Seq({"reply"})]
          /\ \A c \in Tasks \ {t} : replies'[c] = replies[c]
          /\ Len(replies'[t]) \in Nat
          /\ Len(replies[t]) = Len(replies'[t]) + 1
      BY <2>1, <2>2, TakeFacts
    <3>2. \A u \in Tasks : Len(replies'[u]) <= ChannelCap
      <4>1. \A u \in Tasks : Len(replies[u]) <= ChannelCap
        BY DEF TypeOK
      <4>2. QED
        BY <3>1, <4>1, ClientAssumption
    <3>3. QED
      BY <1>4, <2>2, <3>1, <3>2 DEF PumpToUdp, TypeOK
  <2>3. CASE /\ replies' = [replies EXCEPT ![t] = << >>]
             /\ receiver' = [receiver EXCEPT ![t] = "ended"]
    <3>1. /\ replies' \in [Tasks -> Seq({"reply"})]
          /\ \A u \in Tasks : Len(replies'[u]) <= ChannelCap
      BY <2>1, <2>3, ClientAssumption DEF TypeOK
    <3>2. QED
      BY <1>4, <2>3, <3>1 DEF PumpToUdp, TypeOK, PumpStates
  <2>4. QED
    BY <1>4, <2>2, <2>3 DEF PumpToUdp
<1>5. CASE PumpToUdpEnds(t)
  BY <1>5 DEF PumpToUdpEnds, TypeOK, PumpStates
<1>6. QED
  BY <1>2, <1>3, <1>4, <1>5 DEF SenderNext, ReceiverNext

\* The types are kept by the router.
LEMMA RouterTypes ==
  ASSUME TypeOK, RouterNext
  PROVE  TypeOK'
<1> USE DEF loopVars, mapVars, taskVars, pumpVars, engineVars
<1>1. events # << >> /\ events' = Tail(events) /\ events \in Seq(Event)
  BY DEF RouterNext, RouteAnnounce, RouteLinkData, RouteLinkClosed, TypeOK
<1>2. events' \in Seq(Event)
  BY <1>1, TailFacts
<1>3. CASE RouteAnnounce
  BY <1>2, <1>3 DEF RouteAnnounce, TypeOK
<1>4. CASE RouteLinkData
  <2> DEFINE t == Head(events).link
  <2>1. CASE t \in link_data /\ receiver[t] = "running" /\ Len(replies[t]) < ChannelCap
    <3>1. /\ replies \in [Tasks -> Seq({"reply"})]
          /\ replies' = [replies EXCEPT ![t] = Append(@, "reply")]
          /\ t \in Tasks
      BY <1>4, <2>1 DEF RouteLinkData, TypeOK
    <3> HIDE DEF t
    <3>2. /\ replies' \in [Tasks -> Seq({"reply"})]
          /\ \A c \in Tasks \ {t} : replies'[c] = replies[c]
          /\ Len(replies[t]) \in Nat
          /\ Len(replies'[t]) = Len(replies[t]) + 1
      BY <3>1, PutFacts
    <3>3. \A u \in Tasks : Len(replies'[u]) <= ChannelCap
      BY <2>1, <3>2, ClientAssumption DEF TypeOK
    <3>4. QED
      BY <1>2, <1>4, <3>2, <3>3 DEF RouteLinkData, TypeOK
  <2>2. CASE ~ (t \in link_data /\ receiver[t] = "running" /\ Len(replies[t]) < ChannelCap)
    BY <1>2, <1>4, <2>2 DEF RouteLinkData, TypeOK
  <2>3. QED
    BY <2>1, <2>2
<1>5. CASE RouteLinkClosed
  BY <1>2, <1>5 DEF RouteLinkClosed, TypeOK
<1>6. QED
  BY <1>3, <1>4, <1>5 DEF RouterNext

\* The types are kept by the engine and the peers.
LEMMA EngineTypes ==
  ASSUME TypeOK, HearAnnounce \/ \E t \in Tasks : PeerSends(t) \/ LinkDies(t)
  PROVE  TypeOK'
<1> USE DEF loopVars, mapVars, taskVars, pumpVars, engineVars
<1>1. CASE HearAnnounce
  <2>1. [type |-> "AnnounceHeard", link |-> None] \in Event
    BY DEF Event
  <2>2. events' \in Seq(Event)
    BY <1>1, <2>1, EventsPut DEF HearAnnounce
  <2>3. QED
    BY <1>1, <2>2 DEF HearAnnounce, TypeOK
<1>2. ASSUME NEW t \in Tasks, PeerSends(t)
      PROVE  TypeOK'
  <2>1. [type |-> "LinkData", link |-> t] \in Event
    BY DEF Event
  <2>2. events' \in Seq(Event)
    BY <1>2, <2>1, EventsPut DEF PeerSends
  <2>3. answered' \in [Tasks -> 0..MaxReplies]
    BY <1>2, ClientAssumption DEF PeerSends, TypeOK
  <2>4. QED
    BY <1>2, <2>2, <2>3 DEF PeerSends, TypeOK
<1>3. ASSUME NEW t \in Tasks, LinkDies(t)
      PROVE  TypeOK'
  <2>1. [type |-> "LinkClosed", link |-> t] \in Event
    BY DEF Event
  <2>2. events' \in Seq(Event)
    BY <1>3, <2>1, EventsPut DEF LinkDies
  <2>3. QED
    BY <1>3, <2>2 DEF LinkDies, TypeOK, LinkStates
<1>4. QED
  BY <1>1, <1>2, <1>3

\* The invariant holds at the start.
LEMMA Initial == Init => IInv
<1> SUFFICES ASSUME Init PROVE IInv
  OBVIOUS
<1> USE DEF Init
<1>1. TypeOK
  BY ClientAssumption DEF TypeOK, LoopStates, TaskStates, PumpStates, LinkStates
<1>2. LoopInv
  BY DEF LoopInv, ReadLocked
<1>3. StageInv
  BY DEF StageInv, Stage, Opening, Unspawned
<1>4. MapsNameLiveRelays
  BY DEF MapsNameLiveRelays
<1>5. QED
  BY <1>1, <1>2, <1>3, <1>4 DEF IInv

\* Every step keeps the types.
LEMMA TypesKept == IInv /\ [Next]_vars => TypeOK'
<1> SUFFICES ASSUME IInv, [Next]_vars PROVE TypeOK'
  OBVIOUS
<1>1. CASE UNCHANGED vars
  BY <1>1 DEF vars, loopVars, mapVars, taskVars, pumpVars, engineVars, IInv, TypeOK
<1>2. CASE Next
  BY <1>2, LoopTypes, TaskTypes, PumpTypes, RouterTypes, EngineTypes DEF Next, IInv
<1>3. QED
  BY <1>1, <1>2

\* The task invariants when a step moves neither a task nor the maps.
LEMMA Elsewhere ==
  ASSUME IInv, UNCHANGED << udp_links, pc, first, open, sender, receiver >>,
         link_data' \subseteq link_data,
         \A t \in Tasks : link'[t] = "up" => link[t] = "up"
  PROVE  StageInv' /\ MapsNameLiveRelays'
BY DEF IInv, StageInv, Stage, MapsNameLiveRelays

\* The UDP loop keeps the rest of the invariant.
LEMMA LoopStep ==
  ASSUME IInv, LoopNext \/ RecvFails
  PROVE  (LoopInv /\ StageInv /\ MapsNameLiveRelays)'
<1> USE DEF loopVars, mapVars, taskVars, pumpVars, engineVars
<1>1. CASE ~ RecvSpawn
  <2>0. UNCHANGED << udp_links, link_data, pc, first, open, sender, receiver, link >>
    BY <1>1 DEF LoopNext, RecvFails, RecvKnown, SendDone, SendFails, RecvNoTarget
  <2>1. StageInv' /\ MapsNameLiveRelays'
    BY <2>0, Elsewhere
  <2>2. CASE RecvFails
    BY <2>1, <2>2 DEF RecvFails, IInv, LoopInv, ReadLocked
  <2>3. CASE RecvKnown
    <3>1. inbox # << >> /\ inbox' = Tail(inbox)
      BY <2>3 DEF RecvKnown
    <3>2. Head(inbox) \in Packet /\ Head(inbox).src \in Srcs
      BY <3>1, InboxTaken DEF IInv
    <3>3. udp_links[Head(inbox).src] \in Tasks
      BY <2>3, <3>2 DEF RecvKnown, IInv, TypeOK
    <3>4. QED
      BY <2>1, <2>3, <3>2, <3>3 DEF RecvKnown, LoopInv, ReadLocked
  <2>4. CASE SendDone
    BY <2>1, <2>4 DEF SendDone, LoopInv, ReadLocked
  <2>5. CASE SendFails
    BY <2>1, <2>5 DEF SendFails, IInv, LoopInv, ReadLocked
  <2>6. CASE RecvNoTarget
    BY <2>1, <2>6 DEF RecvNoTarget, IInv, LoopInv, ReadLocked
  <2>7. QED
    BY <1>1, <2>1, <2>2, <2>3, <2>4, <2>5, <2>6 DEF LoopNext
<1>2. CASE RecvSpawn
  <2>1. PICK t \in Tasks : /\ pc[t] = Unspawned
                           /\ pc' = [pc EXCEPT ![t] = "establish"]
                           /\ first' = [first EXCEPT ![t] = Head(inbox)]
    BY <1>2 DEF RecvSpawn, MoveTo
  <2>2. Head(inbox) \in Packet
    BY <1>2, InboxTaken DEF RecvSpawn, IInv
  <2>3. UNCHANGED << loop, held, udp_links, link_data, queue, open, replies, sender,
                     receiver, link >>
    BY <1>2 DEF RecvSpawn
  <2>4. LoopInv'
    BY <1>2, <2>3 DEF RecvSpawn, LoopInv, ReadLocked, IInv
  <2>5. StageInv'
    BY <2>1, <2>2, <2>3 DEF IInv, StageInv, Stage, Opening, TypeOK, Unspawned
  <2>6. MapsNameLiveRelays'
    BY <2>1, <2>3 DEF IInv, MapsNameLiveRelays, TypeOK, Unspawned
  <2>7. QED
    BY <2>4, <2>5, <2>6
<1>3. QED
  BY <1>1, <1>2

\* A relay task keeps the rest of the invariant.
LEMMA TaskStep ==
  ASSUME IInv, NEW t \in Tasks, TaskNext(t)
  PROVE  (LoopInv /\ StageInv /\ MapsNameLiveRelays)'
<1> USE DEF loopVars, mapVars, taskVars, pumpVars, engineVars, MoveTo, IInv
<1>0. /\ pc \in [Tasks -> TaskStates]
      /\ open \in [Tasks -> BOOLEAN]
      /\ sender \in [Tasks -> PumpStates]
      /\ receiver \in [Tasks -> PumpStates]
      /\ link \in [Tasks -> LinkStates]
  BY DEF TypeOK
<1>1. CASE Establish(t) \/ RequestPath(t) \/ Reestablish(t) \/ Identify(t)
  <2> USE DEF Establish, RequestPath, Reestablish, Identify
  <2>1. LoopInv'
    BY <1>1 DEF LoopInv, ReadLocked
  <2>2. \A u \in Tasks \ {t} : Stage(u)'
    BY <1>0, <1>1 DEF StageInv, Stage, Opening, Unspawned
  <2>3. Stage(t)'
    BY <1>0, <1>1 DEF StageInv, Stage, Opening, Unspawned
  <2>4. MapsNameLiveRelays'
    <3>1. /\ UNCHANGED << udp_links, link_data, first >>
          /\ pc[t] \notin {"attach", "relay", "unlink"}
          /\ \A u \in Tasks \ {t} : pc'[u] = pc[u]
      BY <1>0, <1>1
    <3>2. \A s \in Srcs : udp_links[s] \in Tasks \cup {None}
      BY DEF TypeOK
    <3>3. link_data \subseteq Tasks
      BY DEF TypeOK
    <3>4. QED
      BY <3>1, <3>2, <3>3 DEF MapsNameLiveRelays
  <2>5. QED
    BY <2>1, <2>2, <2>3, <2>4 DEF StageInv
<1>2. CASE Register(t)
  <2>1. LoopInv'
    BY <1>2 DEF Register, LoopInv, ReadLocked
  <2>2. \A u \in Tasks \ {t} : Stage(u)'
    BY <1>0, <1>2 DEF Register, StageInv, Stage, Opening, Unspawned
  <2>3. Stage(t)'
    BY <1>0, <1>2 DEF Register, StageInv, Stage, Opening, Unspawned
  <2>4. MapsNameLiveRelays'
    BY <1>2 DEF Register, MapsNameLiveRelays, TypeOK
  <2>5. QED
    BY <2>1, <2>2, <2>3, <2>4 DEF StageInv
<1>3. CASE Attach(t)
  <2>1. LoopInv'
    BY <1>3 DEF Attach, LoopInv, ReadLocked
  <2>2. \A u \in Tasks \ {t} : Stage(u)'
    BY <1>0, <1>3 DEF Attach, StageInv, Stage, Opening, Unspawned
  <2>3. Stage(t)'
    BY <1>0, <1>3 DEF Attach, StageInv, Stage, Opening, Unspawned
  <2>4. MapsNameLiveRelays'
    BY <1>3 DEF Attach, MapsNameLiveRelays, TypeOK
  <2>5. QED
    BY <2>1, <2>2, <2>3, <2>4 DEF StageInv
<1>4. CASE Finish(t)
  <2>1. LoopInv'
    BY <1>4 DEF Finish, LoopInv, ReadLocked
  <2>2. \A u \in Tasks \ {t} : Stage(u)'
    BY <1>0, <1>4 DEF Finish, StageInv, Stage, Opening, Unspawned
  <2>3. Stage(t)'
    BY <1>0, <1>4 DEF Finish, StageInv, Stage, Opening, Unspawned
  <2>4. MapsNameLiveRelays'
    BY <1>4 DEF Finish, MapsNameLiveRelays, TypeOK
  <2>5. QED
    BY <2>1, <2>2, <2>3, <2>4 DEF StageInv
<1>5. CASE Unlink(t)
  <2>1. LoopInv'
    BY <1>5 DEF Unlink, LoopInv, ReadLocked
  <2>2. \A u \in Tasks \ {t} : Stage(u)'
    BY <1>0, <1>5 DEF Unlink, StageInv, Stage, Opening, Unspawned
  <2>3. Stage(t)'
    BY <1>0, <1>5 DEF Unlink, StageInv, Stage, Opening, Unspawned
  <2>4. MapsNameLiveRelays'
    BY <1>5 DEF Unlink, MapsNameLiveRelays, TypeOK
  <2>5. QED
    BY <2>1, <2>2, <2>3, <2>4 DEF StageInv
<1>6. QED
  BY <1>1, <1>2, <1>3, <1>4, <1>5 DEF TaskNext

\* The pumps keep the rest of the invariant.
LEMMA PumpStep ==
  ASSUME IInv, NEW t \in Tasks, SenderNext(t) \/ ReceiverNext(t)
  PROVE  (LoopInv /\ StageInv /\ MapsNameLiveRelays)'
<1> USE DEF loopVars, mapVars, taskVars, pumpVars, engineVars, IInv, EndSender,
            SenderNext, ReceiverNext, PumpToLink, PumpToLinkEnds, PumpToUdp, PumpToUdpEnds
<1>1. UNCHANGED << loop, held, udp_links, link_data, pc, first, link >>
  OBVIOUS
<1>2. LoopInv' /\ MapsNameLiveRelays'
  BY <1>1 DEF LoopInv, ReadLocked, MapsNameLiveRelays
<1>3. \/ sender' = sender /\ open' = open
      \/ sender' = [sender EXCEPT ![t] = "ended"] /\ open' = [open EXCEPT ![t] = FALSE]
         /\ sender[t] = "running"
  OBVIOUS
<1>4. receiver' = receiver \/ receiver' = [receiver EXCEPT ![t] = "ended"]
  OBVIOUS
<1>5. StageInv'
  BY <1>1, <1>3, <1>4 DEF StageInv, Stage, Opening, TypeOK, Unspawned
<1>6. QED
  BY <1>2, <1>5

\* Everything else keeps the rest of the invariant.
LEMMA OtherStep ==
  ASSUME IInv,
         \/ \E s \in Srcs : GameSends(s)
         \/ RouterNext
         \/ HearAnnounce
         \/ \E t \in Tasks : PeerSends(t) \/ LinkDies(t)
         \/ UNCHANGED vars
  PROVE  (LoopInv /\ StageInv /\ MapsNameLiveRelays)'
<1> USE DEF loopVars, mapVars, taskVars, pumpVars, engineVars, vars, GameSends, RouterNext,
            RouteAnnounce, RouteLinkData, RouteLinkClosed, HearAnnounce, PeerSends, LinkDies
<1>1. UNCHANGED << loop, held, udp_links, pc, first, open, sender, receiver >>
  OBVIOUS
<1>2. link_data' \subseteq link_data
  OBVIOUS
<1>3. \A t \in Tasks : link'[t] = "up" => link[t] = "up"
  BY DEF IInv, TypeOK
<1>4. StageInv' /\ MapsNameLiveRelays'
  BY <1>1, <1>2, <1>3, Elsewhere
<1>5. LoopInv'
  BY <1>1 DEF IInv, LoopInv, ReadLocked
<1>6. QED
  BY <1>4, <1>5

\* Every step keeps the invariant.
LEMMA Inductive == IInv /\ [Next]_vars => IInv'
<1> SUFFICES ASSUME IInv, [Next]_vars PROVE IInv'
  OBVIOUS
<1>1. TypeOK'
  BY TypesKept
<1>2. (LoopInv /\ StageInv /\ MapsNameLiveRelays)'
  BY LoopStep, TaskStep, PumpStep, OtherStep DEF Next
<1>3. QED
  BY <1>1, <1>2 DEF IInv

\* The invariant holds of every behaviour of the client side.
LEMMA Invariant == Spec => []IInv
<1>1. QED
  BY Initial, Inductive, PTL DEF Spec

\* The variables of the client side have their types in every reachable state;
\* the UDP loop indexes the channels by the task it holds a sender of, so this
\* needs LoopInv.
THEOREM TypeCorrect == Spec => []TypeOK
<1>1. IInv => TypeOK
  BY DEF IInv
<1>2. QED
  BY <1>1, Invariant, PTL

\* udp_links and link_data never name a relay that has ended or one of
\* another source, although Unlink removes the entry of its source whichever
\* task it names and a late task overwrites the entry of an earlier one.
THEOREM MapsLive == Spec => []MapsNameLiveRelays
<1>1. IInv => MapsNameLiveRelays
  BY DEF IInv
<1>2. QED
  BY <1>1, Invariant, PTL

\* A relay task that has ended, by giving up on the link or by unlinking,
\* leaves no link up and no pump running.
THEOREM EndedHoldsNothing == Spec => []EndedTaskHoldsNothing
<1>1. IInv => EndedTaskHoldsNothing
  BY DEF IInv, StageInv, Stage, EndedTaskHoldsNothing, TypeOK
<1>2. QED
  BY <1>1, Invariant, PTL
-----------------------------------------------------------------------------
\* The packets of a source, in the order they were read: those on the wire of
\* its relay, those in the relay's channel, the one the loop holds, those in
\* the socket's buffer.  Identifiers grow along this line.
Older(p) == p.id <= sentCount /\ \A i \in 1..Len(inbox) : p.id < inbox[i].id

InboxOrder ==
  \A i \in 1..Len(inbox) :
    /\ inbox[i].id <= sentCount
    /\ \A j \in 1..Len(inbox) : i < j => inbox[i].id < inbox[j].id

HeldOrder(t) ==
  held.task = t =>
    /\ Older(held.packet)
    /\ held.packet.src = first[t].src
    /\ \A i \in 1..Len(queue[t]) : queue[t][i].id < held.packet.id
    /\ \A i \in 1..Len(wire[t]) : wire[t][i].id < held.packet.id

QueueOrder(t) ==
  \A i \in 1..Len(queue[t]) :
    /\ Older(queue[t][i])
    /\ queue[t][i].src = first[t].src
    /\ \A j \in 1..Len(queue[t]) : i < j => queue[t][i].id < queue[t][j].id

WireOrder(t) ==
  \A i \in 1..Len(wire[t]) :
    /\ Older(wire[t][i])
    /\ wire[t][i].src = first[t].src
    /\ \A j \in 1..Len(queue[t]) : wire[t][i].id < queue[t][j].id
    /\ \A j \in 1..Len(wire[t]) : i < j => wire[t][i].id < wire[t][j].id

\* Before a relay has registered nothing was carried, so its first packet,
\* which is older than all that are still to be read, comes first.
FirstOrder(t) ==
  /\ pc[t] # Unspawned => Older(first[t])
  /\ pc[t] \in Opening \ {"attach"} => wire[t] = << >>
  /\ ~ open[t] => queue[t] = << >>

Order(t) == HeldOrder(t) /\ QueueOrder(t) /\ WireOrder(t) /\ FirstOrder(t)
OrderInv == InboxOrder /\ \A t \in Tasks : Order(t)
-----------------------------------------------------------------------------
LEMMA PacketFields == \A p \in Packet : p.id \in Nat /\ p.src \in Srcs
BY ClientAssumption DEF Packet

\* Reading a packet, and sending one, keep what is older than the buffer.
LEMMA Reading ==
  ASSUME IInv, InboxOrder, inbox # << >>, inbox' = Tail(inbox), sentCount' = sentCount
  PROVE  /\ InboxOrder'
         /\ \A p \in Packet : Older(p) => Older(p)' /\ p.id < Head(inbox).id
         /\ Head(inbox) \in Packet
         /\ \A p \in Packet : p = Head(inbox) => Older(p)'
<1>1. /\ inbox' \in Seq(Packet)
      /\ Len(inbox') \in Nat
      /\ Len(inbox) = Len(inbox') + 1
      /\ \A i \in 1..Len(inbox') : inbox'[i] = inbox[i + 1]
      /\ Head(inbox) = inbox[1]
      /\ Head(inbox) \in Packet
  BY TailFacts DEF IInv, TypeOK
<1>2. InboxOrder'
  BY <1>1 DEF InboxOrder
<1>3. \A p \in Packet : Older(p) => Older(p)' /\ p.id < Head(inbox).id
  BY <1>1 DEF Older
<1>4. \A p \in Packet : p = Head(inbox) => Older(p)'
  BY <1>1 DEF Older, InboxOrder
<1>5. QED
  BY <1>1, <1>2, <1>3, <1>4

\* What a game sends is newer than anything sent before.
LEMMA Sending ==
  ASSUME IInv, InboxOrder, NEW s \in Srcs, GameSends(s)
  PROVE  InboxOrder' /\ \A p \in Packet : Older(p) => Older(p)'
<1>1. PICK e \in BOOLEAN : inbox' = Append(inbox, [src |-> s, id |-> sentCount + 1, empty |-> e])
  BY DEF GameSends
<1> DEFINE q == [src |-> s, id |-> sentCount + 1, empty |-> e]
<1>2. sentCount \in Nat /\ sentCount' = sentCount + 1 /\ sentCount < MaxPackets
  BY DEF GameSends, IInv, TypeOK
<1>3. q \in Packet /\ q.id = sentCount + 1
  BY <1>2, ClientAssumption DEF Packet
<1> HIDE DEF q
<1>4. inbox' = Append(inbox, q) /\ inbox \in Seq(Packet)
  BY <1>1 DEF q, IInv, TypeOK
<1>5. /\ Len(inbox) \in Nat
      /\ Len(inbox') = Len(inbox) + 1
      /\ \A i \in 1..Len(inbox) : inbox'[i] = inbox[i] /\ inbox[i] \in Packet
      /\ inbox'[Len(inbox) + 1] = q
  BY <1>3, <1>4, AppendFacts
<1>6. InboxOrder'
  BY <1>2, <1>3, <1>5, PacketFields DEF InboxOrder
<1>7. \A p \in Packet : Older(p) => Older(p)'
  BY <1>2, <1>3, <1>5, PacketFields DEF Older
<1>8. QED
  BY <1>6, <1>7

\* A step that leaves the line of a task alone, but for what is older.
LEMMA OrderSame ==
  ASSUME IInv, NEW t \in Tasks, Order(t), FirstOrder(t)',
         first'[t] = first[t], queue'[t] = queue[t], wire'[t] = wire[t],
         held' = held \/ held'.task # t,
         \A p \in Packet : Older(p) => Older(p)'
  PROVE  Order(t)'
<1>1. queue[t] \in Seq(Packet) /\ wire[t] \in Seq(Packet)
  BY DEF IInv, TypeOK
<1>2. /\ \A i \in 1..Len(queue[t]) : queue[t][i] \in Packet
      /\ \A i \in 1..Len(wire[t]) : wire[t][i] \in Packet
  BY <1>1
<1>3. held.task = t => held.packet \in Packet
  BY ClientAssumption DEF IInv, LoopInv, NoPacket
<1>4. QueueOrder(t)'
  BY <1>2 DEF QueueOrder, Order
<1>5. WireOrder(t)'
  BY <1>2 DEF WireOrder, Order
<1>6. HeldOrder(t)'
  BY <1>3 DEF HeldOrder, Order
<1>7. QED
  BY <1>4, <1>5, <1>6 DEF Order

\* The UDP loop keeps the order.
LEMMA LoopOrder ==
  ASSUME IInv, IInv', OrderInv, LoopNext \/ RecvFails \/ \E s \in Srcs : GameSends(s)
  PROVE  OrderInv'
<1> USE DEF loopVars, mapVars, taskVars, pumpVars, engineVars
<1>1. ASSUME UNCHANGED << held, pc, first, queue, open, wire >>,
             InboxOrder', \A p \in Packet : Older(p) => Older(p)'
      PROVE  OrderInv'
  <2>1. \A t \in Tasks : pc[t] # Unspawned => first[t] \in Packet
    BY DEF IInv, StageInv, Stage
  <2>2. \A t \in Tasks : FirstOrder(t)'
    BY <1>1, <2>1 DEF OrderInv, Order, FirstOrder
  <2>3. QED
    BY <1>1, <2>2, OrderSame DEF OrderInv
<1>2. CASE \E s \in Srcs : GameSends(s)
  <2>1. PICK s \in Srcs : GameSends(s)
    BY <1>2
  <2>2. InboxOrder' /\ \A p \in Packet : Older(p) => Older(p)'
    BY <2>1, Sending DEF OrderInv
  <2>3. QED
    BY <1>1, <2>1, <2>2 DEF GameSends
<1>3. CASE RecvFails \/ SendFails
  <2>1. UNCHANGED << inbox, held, sentCount, pc, first, queue, open, wire >>
    BY <1>3 DEF RecvFails, SendFails
  <2>2. InboxOrder' /\ \A p \in Packet : Older(p) => Older(p)'
    BY <2>1 DEF OrderInv, InboxOrder, Older
  <2>3. QED
    BY <1>1, <2>1, <2>2
<1>4. CASE RecvNoTarget
  <2>1. inbox # << >> /\ inbox' = Tail(inbox) /\ sentCount' = sentCount
    BY <1>4 DEF RecvNoTarget
  <2>2. InboxOrder' /\ \A p \in Packet : Older(p) => Older(p)'
    BY <2>1, Reading DEF OrderInv
  <2>3. QED
    BY <1>1, <1>4, <2>2 DEF RecvNoTarget
<1>5. CASE RecvKnown
  <2>1. /\ inbox # << >> /\ inbox' = Tail(inbox) /\ sentCount' = sentCount
        /\ held' = [task |-> udp_links[Head(inbox).src], packet |-> Head(inbox)]
        /\ udp_links[Head(inbox).src] # None
        /\ UNCHANGED << pc, first, queue, open, wire >>
    BY <1>5 DEF RecvKnown
  <2>2. /\ InboxOrder'
        /\ \A p \in Packet : Older(p) => Older(p)' /\ p.id < Head(inbox).id
        /\ Head(inbox) \in Packet
        /\ \A p \in Packet : p = Head(inbox) => Older(p)'
    BY <2>1, Reading DEF OrderInv
  <2>3. \A t \in Tasks : pc[t] # Unspawned => first[t] \in Packet
    BY DEF IInv, StageInv, Stage
  <2>4. \A t \in Tasks : FirstOrder(t)'
    BY <2>1, <2>2, <2>3 DEF OrderInv, Order, FirstOrder
  <2>5. ASSUME NEW t \in Tasks, held'.task # t
        PROVE  Order(t)'
    BY <2>1, <2>2, <2>4, <2>5, OrderSame DEF OrderInv
  <2>6. ASSUME NEW t \in Tasks, held'.task = t
        PROVE  Order(t)'
    <3>1. /\ \A i \in 1..Len(queue[t]) : queue[t][i] \in Packet
          /\ \A i \in 1..Len(wire[t]) : wire[t][i] \in Packet
      BY DEF IInv, TypeOK
    <3>2. QueueOrder(t) /\ WireOrder(t)
      BY DEF OrderInv, Order
    <3>3. QueueOrder(t)'
      BY <2>1, <2>2, <3>1, <3>2 DEF QueueOrder
    <3>4. WireOrder(t)'
      BY <2>1, <2>2, <3>1, <3>2 DEF WireOrder
    <3>5. held'.packet = Head(inbox) /\ udp_links[Head(inbox).src] = t
      BY <2>1, <2>6
    <3>6. first[t].src = Head(inbox).src
      BY <2>1, <2>2, <3>5, PacketFields DEF IInv, MapsNameLiveRelays
    <3>7. /\ \A i \in 1..Len(queue[t]) : queue[t][i].id < Head(inbox).id
          /\ \A i \in 1..Len(wire[t]) : wire[t][i].id < Head(inbox).id
      BY <2>2, <3>1, <3>2 DEF QueueOrder, WireOrder
    <3>8. Older(held.packet)'
      BY <2>2, <3>5 DEF Older
    <3>9. HeldOrder(t)'
      BY <2>1, <3>5, <3>6, <3>7, <3>8 DEF HeldOrder
    <3>10. QED
      BY <2>4, <3>3, <3>4, <3>9 DEF Order
  <2>7. QED
    BY <2>2, <2>5, <2>6 DEF OrderInv
<1>6. CASE RecvSpawn
  <2>1. PICK t \in Tasks : /\ pc[t] = Unspawned
                           /\ pc' = [pc EXCEPT ![t] = "establish"]
                           /\ first' = [first EXCEPT ![t] = Head(inbox)]
    BY <1>6 DEF RecvSpawn, MoveTo
  <2>2. /\ inbox # << >> /\ inbox' = Tail(inbox) /\ sentCount' = sentCount
        /\ UNCHANGED << held, queue, open, wire, udp_links, loop >>
    BY <1>6 DEF RecvSpawn
  <2>3. /\ InboxOrder'
        /\ \A p \in Packet : Older(p) => Older(p)' /\ p.id < Head(inbox).id
        /\ Head(inbox) \in Packet
        /\ \A p \in Packet : p = Head(inbox) => Older(p)'
    BY <2>2, Reading DEF OrderInv
  <2>4. /\ \A u \in Tasks \ {t} : first'[u] = first[u] /\ pc'[u] = pc[u]
        /\ first'[t] = Head(inbox) /\ pc'[t] = "establish"
    BY <2>1 DEF IInv, TypeOK
  <2>5. \A u \in Tasks : pc[u] # Unspawned => first[u] \in Packet
    BY DEF IInv, StageInv, Stage
  <2>6. ASSUME NEW u \in Tasks \ {t}
        PROVE  Order(u)'
    <3>1. FirstOrder(u)'
      BY <2>2, <2>3, <2>4, <2>5 DEF OrderInv, Order, FirstOrder
    <3>2. QED
      BY <2>2, <2>3, <2>4, <3>1, OrderSame DEF OrderInv
  <2>7. Order(t)'
    <3>1. wire[t] = << >> /\ queue[t] = << >> /\ ~ open[t]
      BY <2>1 DEF OrderInv, Order, FirstOrder, Opening, IInv, StageInv, Stage, Unspawned
    <3>2. held.task # t
      BY <1>6, <2>1, ClientAssumption, PacketFields
         DEF RecvSpawn, IInv, LoopInv, ReadLocked, NoPacket
    <3>3. Older(first[t])'
      BY <2>3, <2>4 DEF Older
    <3>4. FirstOrder(t)'
      BY <2>2, <3>1, <3>3 DEF FirstOrder
    <3>5. Len(wire'[t]) = 0 /\ Len(queue'[t]) = 0
      BY <2>2, <3>1
    <3>6. QED
      BY <2>2, <3>2, <3>4, <3>5 DEF Order, HeldOrder, QueueOrder, WireOrder
  <2>8. QED
    BY <2>3, <2>6, <2>7 DEF OrderInv
<1>7. CASE SendDone
  <2>1. PICK t \in Tasks, p \in Packet : held.task = t /\ held.packet = p
    BY <1>7 DEF SendDone, IInv, LoopInv, ReadLocked
  <2>2. /\ queue' = [queue EXCEPT ![t] = Append(@, p)]
        /\ queue \in [Tasks -> Seq(Packet)]
        /\ held'.task = None
        /\ open[t]
        /\ UNCHANGED << inbox, sentCount, pc, first, open, wire >>
    BY <1>7, <2>1 DEF SendDone, NoPacket, IInv, TypeOK
  <2>4. /\ \A u \in Tasks \ {t} : queue'[u] = queue[u]
        /\ Len(queue[t]) \in Nat
        /\ Len(queue'[t]) = Len(queue[t]) + 1
        /\ \A i \in 1..Len(queue[t]) : queue'[t][i] = queue[t][i]
        /\ queue'[t][Len(queue[t]) + 1] = p
    BY <2>1, <2>2, PutFacts
  <2>5. InboxOrder' /\ \A x \in Packet : Older(x) => Older(x)'
    BY <2>2 DEF OrderInv, InboxOrder, Older
  <2>6. ASSUME NEW u \in Tasks \ {t}
        PROVE  Order(u)'
    <3>1. FirstOrder(u)'
      BY <2>2, <2>4 DEF OrderInv, Order, FirstOrder, Older
    <3>2. QED
      BY <2>2, <2>4, <2>5, <3>1, ClientAssumption, OrderSame DEF OrderInv
  <2>7. Order(t)'
    <3>1. FirstOrder(t)'
      BY <2>1, <2>2 DEF OrderInv, Order, FirstOrder, Older
    <3>2. HeldOrder(t) /\ QueueOrder(t) /\ WireOrder(t)
      BY <2>1 DEF OrderInv, Order
    <3>3. HeldOrder(t)'
      BY <2>1, <2>2, ClientAssumption DEF HeldOrder
    <3>4. /\ \A i \in 1..Len(queue[t]) : queue[t][i] \in Packet
          /\ \A i \in 1..Len(wire[t]) : wire[t][i] \in Packet
      BY <2>1 DEF IInv, TypeOK
    <3>5. /\ Older(p)
          /\ p.src = first[t].src
          /\ \A i \in 1..Len(queue[t]) : queue[t][i].id < p.id
          /\ \A i \in 1..Len(wire[t]) : wire[t][i].id < p.id
      BY <2>1, <3>2 DEF HeldOrder
    <3>6. QueueOrder(t)'
      <4>1. \A i \in 1..Len(queue'[t]) :
              \/ i \in 1..Len(queue[t]) /\ queue'[t][i] = queue[t][i]
              \/ i = Len(queue[t]) + 1 /\ queue'[t][i] = p
        BY <2>4
      <4>2. ASSUME NEW i \in 1..Len(queue'[t])
            PROVE  Older(queue[t][i])' /\ queue'[t][i].src = first'[t].src
        <5>1. CASE i \in 1..Len(queue[t]) /\ queue'[t][i] = queue[t][i]
          <6>1. Older(queue[t][i]) /\ queue[t][i].src = first[t].src
            BY <3>2, <5>1 DEF QueueOrder
          <6>2. QED
            BY <2>2, <5>1, <6>1 DEF Older
        <5>2. CASE queue'[t][i] = p
          BY <2>2, <3>5, <5>2 DEF Older
        <5>3. QED
          BY <4>1, <5>1, <5>2
      <4>3. ASSUME NEW i \in 1..Len(queue'[t]), NEW j \in 1..Len(queue'[t]), i < j
            PROVE  queue'[t][i].id < queue'[t][j].id
        <5>1. i \in 1..Len(queue[t]) /\ queue'[t][i] = queue[t][i]
          BY <2>4, <4>3
        <5>2. CASE j \in 1..Len(queue[t]) /\ queue'[t][j] = queue[t][j]
          <6>1. queue[t][i].id < queue[t][j].id
            BY <3>2, <4>3, <5>1, <5>2 DEF QueueOrder
          <6>2. QED
            BY <5>1, <5>2, <6>1
        <5>3. CASE queue'[t][j] = p
          BY <3>5, <5>1, <5>3
        <5>4. QED
          BY <4>1, <5>2, <5>3
      <4>4. QED
        BY <4>2, <4>3 DEF QueueOrder
    <3>7. WireOrder(t)'
      <4>1. ASSUME NEW i \in 1..Len(wire[t]), NEW j \in 1..Len(queue'[t])
            PROVE  wire[t][i].id < queue'[t][j].id
        <5>1. CASE j \in 1..Len(queue[t])
          BY <2>4, <3>2, <5>1 DEF WireOrder
        <5>2. CASE j = Len(queue[t]) + 1
          BY <2>4, <3>5, <5>2
        <5>3. QED
          BY <2>4, <5>1, <5>2
      <4>2. \A i \in 1..Len(wire[t]) : Older(wire[t][i])'
        BY <2>2, <3>2 DEF WireOrder, Older
      <4>3. QED
        BY <2>2, <3>2, <4>1, <4>2 DEF WireOrder
    <3>8. QED
      BY <3>1, <3>3, <3>6, <3>7 DEF Order
  <2>8. QED
    BY <2>5, <2>6, <2>7 DEF OrderInv
<1>8. QED
  BY <1>2, <1>3, <1>4, <1>5, <1>6, <1>7 DEF LoopNext

\* What the engine carries is put at the end of the wire of one relay.
LEMMA CarryFacts ==
  ASSUME IInv, NEW t \in Tasks, NEW p \in Packet, Carry(t, p)
  PROVE  /\ \A u \in Tasks \ {t} : wire'[u] = wire[u]
         /\ \/ wire'[t] = wire[t]
            \/ /\ Len(wire[t]) \in Nat
               /\ Len(wire'[t]) = Len(wire[t]) + 1
               /\ \A i \in 1..Len(wire[t]) : wire'[t][i] = wire[t][i]
               /\ wire'[t][Len(wire[t]) + 1] = p
<1>1. wire \in [Tasks -> Seq(Packet)]
  BY DEF IInv, TypeOK
<1>2. CASE wire' = [wire EXCEPT ![t] = Append(@, p)]
  BY <1>1, <1>2, PutFacts
<1>3. CASE wire' = wire
  BY <1>3
<1>4. QED
  BY <1>2, <1>3 DEF Carry

\* A step that moves no packet.
LEMMA NothingRead ==
  ASSUME IInv, OrderInv, UNCHANGED << inbox, sentCount, held, first, queue, wire, open >>,
         \A t \in Tasks : pc'[t] \in Opening \ {"attach"} => pc[t] \in Opening \ {"attach"},
         \A t \in Tasks : pc[t] = Unspawned => pc'[t] = Unspawned
  PROVE  OrderInv'
<1>1. InboxOrder' /\ \A p \in Packet : Older(p) => Older(p)'
  BY DEF OrderInv, InboxOrder, Older
<1>2. ASSUME NEW t \in Tasks
      PROVE  FirstOrder(t)'
  <2>1. FirstOrder(t)
    BY DEF OrderInv, Order
  <2>2. pc'[t] # Unspawned => Older(first[t])'
    <3>1. CASE pc[t] = Unspawned
      BY <3>1
    <3>2. CASE pc[t] # Unspawned
      BY <2>1, <3>2 DEF FirstOrder, Older
    <3>3. QED
      BY <3>1, <3>2
  <2>3. QED
    BY <2>1, <2>2 DEF FirstOrder
<1>3. QED
  BY <1>1, <1>2, OrderSame DEF OrderInv

\* A relay task keeps the order.
LEMMA TaskOrder ==
  ASSUME IInv, IInv', OrderInv, NEW t \in Tasks, TaskNext(t)
  PROVE  OrderInv'
<1> USE DEF loopVars, mapVars, taskVars, pumpVars, engineVars, MoveTo
<1>0. pc \in [Tasks -> TaskStates] /\ open \in [Tasks -> BOOLEAN]
  BY DEF IInv, TypeOK
<1>1. \A p \in Packet : UNCHANGED << inbox, sentCount >> => (Older(p) => Older(p)')
  BY DEF Older
<1>2. CASE Register(t)
  <2>1. /\ pc[t] = "register" /\ held.task = None
        /\ pc' = [pc EXCEPT ![t] = "attach"]
        /\ open' = [open EXCEPT ![t] = TRUE]
        /\ Carry(t, first[t])
        /\ UNCHANGED << inbox, sentCount, held, first, queue >>
    BY <1>2 DEF Register, IInv, LoopInv, NoPacket
  <2>2. first[t] \in Packet /\ ~ open[t]
    BY <2>1 DEF IInv, StageInv, Stage, Unspawned
  <2>3. wire[t] = << >> /\ queue[t] = << >> /\ Older(first[t])
    BY <2>1, <2>2 DEF OrderInv, Order, FirstOrder, Opening, Unspawned
  <2>4. /\ \A u \in Tasks \ {t} : wire'[u] = wire[u]
        /\ \/ wire'[t] = wire[t]
           \/ /\ Len(wire[t]) \in Nat
              /\ Len(wire'[t]) = Len(wire[t]) + 1
              /\ wire'[t][Len(wire[t]) + 1] = first[t]
    BY <2>1, <2>2, CarryFacts
  <2>5. Older(first[t])'
    BY <2>1, <2>3 DEF Older
  <2>6. ASSUME NEW u \in Tasks \ {t}
        PROVE  Order(u)'
    <3>1. FirstOrder(u)'
      BY <1>0, <2>1, <2>4 DEF OrderInv, Order, FirstOrder, Older
    <3>2. QED
      BY <1>1, <2>1, <2>4, <3>1, OrderSame DEF OrderInv
  <2>7. Order(t)'
    <3>1. FirstOrder(t)'
      BY <1>0, <2>1, <2>5 DEF FirstOrder
    <3>2. HeldOrder(t)'
      BY <2>1, ClientAssumption DEF HeldOrder
    <3>3. Len(queue'[t]) = 0 /\ Len(wire[t]) = 0
      BY <2>1, <2>3
    <3>4. QueueOrder(t)'
      BY <3>3 DEF QueueOrder
    <3>5. \A i \in 1..Len(wire'[t]) : i = 1 /\ wire'[t][i] = first'[t]
      <4>1. CASE wire'[t] = wire[t]
        BY <3>3, <4>1
      <4>2. CASE Len(wire'[t]) = Len(wire[t]) + 1 /\ wire'[t][Len(wire[t]) + 1] = first[t]
        <5>1. Len(wire'[t]) = 1 /\ wire'[t][1] = first[t]
          BY <3>3, <4>2
        <5>2. QED
          BY <2>1, <5>1
      <4>3. QED
        BY <2>4, <4>1, <4>2
    <3>6. WireOrder(t)'
      BY <2>5, <3>3, <3>5 DEF WireOrder
    <3>7. QED
      BY <3>1, <3>2, <3>4, <3>6 DEF Order
  <2>8. QED
    BY <2>1, <2>6, <2>7 DEF OrderInv, InboxOrder
<1>3. CASE ~ Register(t)
  <2>1. UNCHANGED << inbox, sentCount, held, first, queue, wire, open >>
    BY <1>3 DEF TaskNext, Establish, RequestPath, Reestablish, Identify, Attach, Finish, Unlink
  <2>2. \A u \in Tasks \ {t} : pc'[u] = pc[u]
    BY <1>0, <1>3 DEF TaskNext, Establish, RequestPath, Reestablish, Identify, Attach, Finish, Unlink
  <2>3. /\ pc[t] # Unspawned
        /\ pc'[t] \in Opening \ {"attach"} => pc[t] \in Opening \ {"attach"}
    BY <1>0, <1>3 DEF TaskNext, Establish, RequestPath, Reestablish, Identify, Attach, Finish,
                      Unlink, Opening, Unspawned
  <2>4. QED
    BY <2>1, <2>2, <2>3, NothingRead
<1>4. QED
  BY <1>2, <1>3

\* The end of a send pump, which empties its channel, keeps the order.
LEMMA EndSenderOrder ==
  ASSUME IInv, OrderInv, NEW t \in Tasks, EndSender(t),
         UNCHANGED << inbox, sentCount, held, pc, first, wire >>
  PROVE  OrderInv'
<1>1. InboxOrder' /\ \A p \in Packet : Older(p) => Older(p)'
  BY DEF OrderInv, InboxOrder, Older
<1>2. /\ \A u \in Tasks \ {t} : queue'[u] = queue[u] /\ open'[u] = open[u]
      /\ Len(queue'[t]) = 0 /\ queue'[t] = << >>
  BY DEF EndSender, IInv, TypeOK
<1>3. ASSUME NEW u \in Tasks
      PROVE  FirstOrder(u)'
  BY <1>2 DEF OrderInv, Order, FirstOrder, Older
<1>4. ASSUME NEW u \in Tasks \ {t}
      PROVE  Order(u)'
  BY <1>1, <1>2, <1>3, OrderSame DEF OrderInv
<1>5. Order(t)'
  <2>1. HeldOrder(t) /\ WireOrder(t)
    BY DEF OrderInv, Order
  <2>2. HeldOrder(t)'
    BY <1>2, <2>1 DEF HeldOrder, Older
  <2>3. WireOrder(t)'
    BY <1>2, <2>1 DEF WireOrder, Older
  <2>4. QueueOrder(t)'
    BY <1>2 DEF QueueOrder
  <2>5. QED
    BY <1>3, <2>2, <2>3, <2>4 DEF Order
<1>6. QED
  BY <1>1, <1>4, <1>5 DEF OrderInv

\* The pumps keep the order.
LEMMA PumpOrder ==
  ASSUME IInv, OrderInv, NEW t \in Tasks, SenderNext(t) \/ ReceiverNext(t)
  PROVE  OrderInv'
<1> USE DEF loopVars, mapVars, taskVars, pumpVars, engineVars
<1>1. CASE ReceiverNext(t)
  <2>1. UNCHANGED << inbox, sentCount, held, pc, first, queue, wire, open >>
    BY <1>1 DEF ReceiverNext, PumpToUdp, PumpToUdpEnds
  <2>2. QED
    BY <2>1, NothingRead
<1>2. CASE PumpToLinkEnds(t) \/ (PumpToLink(t) /\ Head(queue[t]).empty)
  <2>1. EndSender(t) /\ UNCHANGED << inbox, sentCount, held, pc, first, wire >>
    BY <1>2 DEF PumpToLinkEnds, PumpToLink
  <2>2. QED
    BY <2>1, EndSenderOrder
<1>3. CASE PumpToLink(t) /\ ~ Head(queue[t]).empty
  <2>1. /\ queue \in [Tasks -> Seq(Packet)] /\ queue[t] # << >>
        /\ queue' = [queue EXCEPT ![t] = Tail(@)]
        /\ Carry(t, Head(queue[t]))
        /\ UNCHANGED << inbox, sentCount, held, pc, first, open >>
    BY <1>3 DEF PumpToLink, IInv, TypeOK
  <2>2. /\ queue' \in [Tasks -> Seq(Packet)]
        /\ \A u \in Tasks \ {t} : queue'[u] = queue[u]
        /\ Len(queue'[t]) \in Nat
        /\ Len(queue[t]) = Len(queue'[t]) + 1
        /\ \A i \in 1..Len(queue'[t]) : queue'[t][i] = queue[t][i + 1]
        /\ Head(queue[t]) = queue[t][1]
        /\ Head(queue[t]) \in Packet
    BY <2>1, TakeFacts
  <2>3. PICK h \in Packet : h = queue[t][1] /\ Carry(t, h)
    BY <2>1, <2>2
  <2>4. /\ \A u \in Tasks \ {t} : wire'[u] = wire[u]
        /\ \/ wire'[t] = wire[t]
           \/ /\ Len(wire[t]) \in Nat
              /\ Len(wire'[t]) = Len(wire[t]) + 1
              /\ \A i \in 1..Len(wire[t]) : wire'[t][i] = wire[t][i]
              /\ wire'[t][Len(wire[t]) + 1] = h
    BY <2>3, CarryFacts
  <2>5. InboxOrder' /\ \A p \in Packet : Older(p) => Older(p)'
    BY <2>1 DEF OrderInv, InboxOrder, Older
  <2>6. open[t] /\ pc[t] = "relay"
    BY <1>3 DEF PumpToLink, IInv, StageInv, Stage
  <2>7. ASSUME NEW u \in Tasks
        PROVE  FirstOrder(u)'
    BY <2>1, <2>2, <2>4, <2>6 DEF OrderInv, Order, FirstOrder, Older, Opening, Unspawned
  <2>8. ASSUME NEW u \in Tasks \ {t}
        PROVE  Order(u)'
    BY <2>1, <2>2, <2>4, <2>5, <2>7, OrderSame DEF OrderInv
  <2>9. Order(t)'
    <3>1. HeldOrder(t) /\ QueueOrder(t) /\ WireOrder(t)
      BY DEF OrderInv, Order
    <3>2. Older(h) /\ h.src = first[t].src
      BY <2>2, <2>3, <3>1 DEF QueueOrder
    <3>3. \A j \in 1..Len(queue'[t]) : h.id < queue'[t][j].id
      BY <2>2, <2>3, <3>1 DEF QueueOrder
    <3>4. \A i \in 1..Len(wire[t]) : wire[t][i].id < h.id
      BY <2>2, <2>3, <3>1 DEF WireOrder
    <3>5. \A i \in 1..Len(wire[t]) : \A j \in 1..Len(queue'[t]) :
            wire[t][i].id < queue'[t][j].id
      <4>1. \A j \in 1..Len(queue'[t]) : j + 1 \in 1..Len(queue[t])
        BY <2>2
      <4>2. QED
        BY <2>2, <3>1, <4>1 DEF WireOrder
    <3>6. QueueOrder(t)'
      BY <2>1, <2>2, <3>1 DEF QueueOrder, Older
    <3>7. HeldOrder(t)'
      <4>1. held.task = t => h.id < held.packet.id
        BY <2>2, <2>3, <3>1 DEF HeldOrder
      <4>2. held.task = t => \A i \in 1..Len(wire'[t]) : wire'[t][i].id < held.packet.id
        BY <2>4, <3>1, <4>1 DEF HeldOrder
      <4>3. held.task = t => \A i \in 1..Len(queue'[t]) : queue'[t][i].id < held.packet.id
        BY <2>2, <3>1 DEF HeldOrder
      <4>4. QED
        BY <2>1, <3>1, <4>2, <4>3 DEF HeldOrder, Older
    <3>8. WireOrder(t)'
      <4>1. CASE wire'[t] = wire[t]
        BY <2>1, <3>1, <3>5, <4>1 DEF WireOrder, Older
      <4>2. CASE wire'[t] # wire[t]
        <5>1. \A i \in 1..Len(wire'[t]) :
                \/ i \in 1..Len(wire[t]) /\ wire'[t][i] = wire[t][i]
                \/ i = Len(wire[t]) + 1 /\ wire'[t][i] = h
          BY <2>4, <4>2
        <5>2. \A i \in 1..Len(wire'[t]) : Older(wire[t][i])' /\ wire'[t][i].src = first'[t].src
          BY <2>1, <3>1, <3>2, <5>1 DEF WireOrder, Older
        <5>3. \A i \in 1..Len(wire'[t]) : \A j \in 1..Len(queue'[t]) :
                wire'[t][i].id < queue'[t][j].id
          BY <3>3, <3>5, <5>1
        <5>4. ASSUME NEW i \in 1..Len(wire'[t]), NEW j \in 1..Len(wire'[t]), i < j
              PROVE  wire'[t][i].id < wire'[t][j].id
          <6>1. Len(wire[t]) \in Nat /\ Len(wire'[t]) = Len(wire[t]) + 1
            BY <2>4, <4>2
          <6>2. i \in 1..Len(wire[t]) /\ wire'[t][i] = wire[t][i]
            BY <5>1, <5>4, <6>1
          <6>3. CASE j \in 1..Len(wire[t]) /\ wire'[t][j] = wire[t][j]
            BY <3>1, <5>4, <6>2, <6>3 DEF WireOrder
          <6>4. CASE wire'[t][j] = h
            BY <3>4, <6>2, <6>4
          <6>5. QED
            BY <5>1, <6>3, <6>4
        <5>5. QED
          BY <5>2, <5>3, <5>4 DEF WireOrder
      <4>3. QED
        BY <4>1, <4>2
    <3>9. QED
      BY <2>7, <3>6, <3>7, <3>8 DEF Order
  <2>10. QED
    BY <2>5, <2>8, <2>9 DEF OrderInv
<1>4. QED
  BY <1>1, <1>2, <1>3 DEF SenderNext

\* Everything else keeps the order.
LEMMA OtherOrder ==
  ASSUME IInv, OrderInv,
         \/ RouterNext
         \/ HearAnnounce
         \/ \E t \in Tasks : PeerSends(t) \/ LinkDies(t)
         \/ UNCHANGED vars
  PROVE  OrderInv'
<1> USE DEF loopVars, mapVars, taskVars, pumpVars, engineVars, vars, RouterNext,
            RouteAnnounce, RouteLinkData, RouteLinkClosed, HearAnnounce, PeerSends, LinkDies
<1>1. UNCHANGED << inbox, sentCount, held, first, queue, wire, open, pc >>
  OBVIOUS
<1>2. QED
  BY <1>1, NothingRead

\* Packets are in order wherever they wait.
LEMMA OrderInvariant == Spec => []OrderInv
<1>1. Init => OrderInv
  <2> SUFFICES ASSUME Init PROVE OrderInv
    OBVIOUS
  <2>1. Len(inbox) = 0 /\ \A t \in Tasks : Len(queue[t]) = 0 /\ Len(wire[t]) = 0
    BY DEF Init
  <2>2. InboxOrder
    BY <2>1 DEF InboxOrder
  <2>3. \A t \in Tasks : held.task # t
    BY ClientAssumption DEF Init, NoPacket
  <2>4. \A t \in Tasks : FirstOrder(t)
    BY DEF Init, FirstOrder
  <2>5. QED
    BY <2>1, <2>2, <2>3, <2>4 DEF OrderInv, Order, HeldOrder, QueueOrder, WireOrder
<1>2. IInv /\ IInv' /\ OrderInv /\ [Next]_vars => OrderInv'
  BY LoopOrder, TaskOrder, PumpOrder, OtherOrder DEF Next
<1>3. QED
  BY <1>1, <1>2, Invariant, PTL DEF Spec

\* A link carries the packets of one source, in the order that source sent
\* them: Register sends the packet that spawned the relay before the loop can
\* queue a later one, and the loop keeps the map locked while it waits for
\* room in the channel, so that no later packet finds another way.
THEOREM InOrder == Spec => []LinkCarriesOneSourceInOrder
<1>1. OrderInv => LinkCarriesOneSourceInOrder
  BY DEF OrderInv, Order, WireOrder, LinkCarriesOneSourceInOrder
<1>2. QED
  BY <1>1, OrderInvariant, PTL
=============================================================================
