-------------------------- MODULE ServerRelayProofs --------------------------
(***************************************************************************)
(* Proofs about ServerRelay, for any set of links and any capacity of the  *)
(* channels.  The safety invariants of the runs follow from IInv, which    *)
(* adds what the order of a link's events says about the link.             *)
(***************************************************************************)
EXTENDS ServerRelay, TLAPS

\* The engine raises events only of links that exist, LinkEstablished first
\* and once, LinkClosed last and only of a link that is lost; and while a lost
\* link has events pending, its LinkClosed is among them.
EventInv ==
  \A i \in 1..Len(events) :
    /\ link[events[i].link] # "none"
    /\ events[i].type = "LinkEstablished" =>
         /\ relay[events[i].link] = "none"
         /\ \A j \in 1..Len(events) :
              events[j].link = events[i].link /\ events[j].type = "LinkEstablished" => j = i
    /\ events[i].type = "LinkClosed" =>
         /\ link[events[i].link] = "lost"
         /\ \A j \in 1..Len(events) : events[j].link = events[i].link => j <= i
    /\ link[events[i].link] = "lost" =>
         \E j \in 1..Len(events) : /\ j >= i
                                   /\ events[j].link = events[i].link
                                   /\ events[j].type = "LinkClosed"

\* A link without a relay has nothing of one, and the router waits to send a
\* sentinel only to a relay it has removed from the map.
RelayInv ==
  /\ \A l \in Links :
       /\ relay[l] # "none" => link[l] # "none"
       /\ relay[l] = "none" => channel[l] = << >> /\ l \notin senders /\ closing # l
  /\ closing \notin senders

Safe == SendersNameLiveRelays /\ SentinelComesLast /\ OpenLinkHasRelay /\ LostLinkForgotten

IInv == TypeOK /\ EventInv /\ RelayInv /\ Safe
-----------------------------------------------------------------------------
\* What Raise and Handles do to the queue of events.
LEMMA RaiseFacts ==
  ASSUME LinkTypes, NEW type \in EventTypes, NEW l \in Links, NEW id \in 0..MaxData,
         Raise(type, l, id)
  PROVE  /\ events' \in Seq(Event)
         /\ Len(events') = Len(events) + 1
         /\ \A i \in 1..Len(events) : events'[i] = events[i]
         /\ events'[Len(events) + 1].type = type
         /\ events'[Len(events) + 1].link = l
         /\ events'[Len(events) + 1].id = id
<1> DEFINE e == [type |-> type, link |-> l, id |-> id]
<1>1. e \in Event
  BY DEF Event
<1>2. events \in Seq(Event) /\ events' = Append(events, e)
  BY DEF LinkTypes, Raise
<1>3. e.type = type /\ e.link = l /\ e.id = id
  OBVIOUS
<1> HIDE DEF e
<1>4. QED
  BY <1>1, <1>2, <1>3

\* The event a handler takes, and what remains.
LEMMA HandleFacts ==
  ASSUME LinkTypes, NEW type \in EventTypes, Handles(type)
  PROVE  /\ closing = None
         /\ events[1] = Head(events)
         /\ Head(events).type = type
         /\ Head(events).link \in Links
         /\ Head(events).id \in 0..MaxData
         /\ events' \in Seq(Event)
         /\ Len(events) = Len(events') + 1
         /\ \A i \in 1..Len(events') : events'[i] = events[i + 1]
<1>1. events \in Seq(Event) /\ events # << >> /\ events' = Tail(events)
  BY DEF LinkTypes, Handles
<1>2. Head(events) \in Event /\ events[1] = Head(events)
  BY <1>1
<1>3. Head(events).link \in Links /\ Head(events).id \in 0..MaxData
  BY <1>2 DEF Event
<1>4. /\ events' \in Seq(Event)
      /\ Len(events) = Len(events') + 1
      /\ \A i \in 1..Len(events') : events'[i] = events[i + 1]
  BY <1>1
<1>5. closing = None /\ Head(events).type = type
  BY DEF Handles, SendersLocked
<1>6. QED
  BY <1>2, <1>3, <1>4, <1>5

\* A channel with one chunk more, and one with its first chunk gone.
LEMMA PutFacts ==
  ASSUME RelayTypes, NEW l \in Links, NEW x \in Chunks, Len(channel[l]) < ChannelCap,
         channel' = [channel EXCEPT ![l] = Append(@, x)]
  PROVE  /\ channel' \in [Links -> Seq(Chunks)]
         /\ \A k \in Links : Len(channel'[k]) <= ChannelCap
         /\ \A k \in Links \ {l} : channel'[k] = channel[k]
         /\ Len(channel'[l]) = Len(channel[l]) + 1
         /\ \A i \in 1..Len(channel[l]) : channel'[l][i] = channel[l][i]
         /\ channel'[l][Len(channel[l]) + 1] = x
<1> DEFINE q == Append(channel[l], x)
<1>1. channel \in [Links -> Seq(Chunks)] /\ \A k \in Links : Len(channel[k]) <= ChannelCap
  BY DEF RelayTypes
<1>2. /\ q \in Seq(Chunks)
      /\ Len(q) = Len(channel[l]) + 1
      /\ Len(channel[l]) \in Nat
      /\ \A i \in 1..Len(channel[l]) : q[i] = channel[l][i]
      /\ q[Len(channel[l]) + 1] = x
  BY <1>1
<1>3. Len(q) <= ChannelCap
  BY <1>2, ServerAssumption
<1>4. channel' = [channel EXCEPT ![l] = q]
  OBVIOUS
<1> HIDE DEF q
<1>5. channel'[l] = q /\ \A k \in Links \ {l} : channel'[k] = channel[k]
  BY <1>1, <1>4
<1>6. channel' \in [Links -> Seq(Chunks)]
  BY <1>1, <1>2, <1>4
<1>7. QED
  BY <1>1, <1>2, <1>3, <1>5, <1>6

\* A chunk taken from a relay's channel.
LEMMA TakeFacts ==
  ASSUME RelayTypes, NEW l \in Links, channel[l] # << >>,
         channel' = [channel EXCEPT ![l] = Tail(@)]
  PROVE  /\ channel' \in [Links -> Seq(Chunks)]
         /\ \A k \in Links : Len(channel'[k]) <= ChannelCap
         /\ \A k \in Links \ {l} : channel'[k] = channel[k]
         /\ Len(channel[l]) = Len(channel'[l]) + 1
         /\ \A i \in 1..Len(channel'[l]) : channel'[l][i] = channel[l][i + 1]
         /\ Head(channel[l]) \in Chunks
<1> DEFINE q == Tail(channel[l])
<1>1. channel \in [Links -> Seq(Chunks)] /\ \A k \in Links : Len(channel[k]) <= ChannelCap
  BY DEF RelayTypes
<1>2. /\ q \in Seq(Chunks)
      /\ Len(channel[l]) = Len(q) + 1
      /\ Len(q) \in Nat
      /\ \A i \in 1..Len(q) : q[i] = channel[l][i + 1]
      /\ Head(channel[l]) \in Chunks
  BY <1>1
<1>3. Len(q) <= ChannelCap
  BY <1>1, <1>2, ServerAssumption
<1>4. channel' = [channel EXCEPT ![l] = q]
  OBVIOUS
<1> HIDE DEF q
<1>5. channel'[l] = q /\ \A k \in Links \ {l} : channel'[k] = channel[k]
  BY <1>1, <1>4
<1>6. channel' \in [Links -> Seq(Chunks)]
  BY <1>1, <1>2, <1>4
<1>7. QED
  BY <1>1, <1>2, <1>3, <1>5, <1>6
-----------------------------------------------------------------------------
\* The types of the variables are kept by every step, group by group.
LEMMA EngineTypes ==
  ASSUME TypeOK, NEW l \in Links, EngineNext(l)
  PROVE  TypeOK'
<1>1. CASE LinkEstablishes(l)
  <2>1. Raise("LinkEstablished", l, 0) /\ 0 \in 0..MaxData /\ "LinkEstablished" \in EventTypes
    BY <1>1, ServerAssumption DEF LinkEstablishes, EventTypes
  <2>2. events' \in Seq(Event)
    BY <2>1, RaiseFacts DEF TypeOK
  <2>3. LinkTypes'
    BY <1>1, <2>2 DEF LinkEstablishes, TypeOK, LinkTypes, LinkStates
  <2>4. QED
    BY <1>1, <2>3 DEF LinkEstablishes, TypeOK, RouterTypes, RelayTypes, SockTypes, DsTypes, HistTypes,
                      routerVars, relayVars, sockVars, dsVars, histVars
<1>2. CASE HandshakeFails(l)
  <2>1. Raise("LinkClosed", l, 0) /\ 0 \in 0..MaxData /\ "LinkClosed" \in EventTypes
    BY <1>2, ServerAssumption DEF HandshakeFails, EventTypes
  <2>2. events' \in Seq(Event)
    BY <2>1, RaiseFacts DEF TypeOK
  <2>3. LinkTypes'
    BY <1>2, <2>2 DEF HandshakeFails, TypeOK, LinkTypes, LinkStates
  <2>4. QED
    BY <1>2, <2>3 DEF HandshakeFails, TypeOK, RouterTypes, RelayTypes, SockTypes, DsTypes, HistTypes,
                      routerVars, relayVars, sockVars, dsVars, histVars
<1>3. CASE PeerIdentifies(l)
  <2>1. Raise("PeerIdentified", l, 0) /\ 0 \in 0..MaxData /\ "PeerIdentified" \in EventTypes
    BY <1>3, ServerAssumption DEF PeerIdentifies, EventTypes
  <2>2. events' \in Seq(Event)
    BY <2>1, RaiseFacts DEF TypeOK
  <2>3. LinkTypes'
    BY <1>3, <2>2 DEF PeerIdentifies, TypeOK, LinkTypes
  <2>4. QED
    BY <1>3, <2>3 DEF PeerIdentifies, TypeOK, RouterTypes, RelayTypes, SockTypes, DsTypes, HistTypes,
                      routerVars, relayVars, sockVars, dsVars, histVars
<1>4. CASE PeerSends(l)
  <2>1. Raise("LinkData", l, peerSent[l] + 1) /\ peerSent[l] + 1 \in 0..MaxData
        /\ "LinkData" \in EventTypes
    BY <1>4, ServerAssumption DEF PeerSends, EventTypes, TypeOK, LinkTypes
  <2>2. events' \in Seq(Event)
    BY <2>1, RaiseFacts DEF TypeOK
  <2>3. LinkTypes'
    BY <1>4, <2>1, <2>2 DEF PeerSends, TypeOK, LinkTypes
  <2>4. QED
    BY <1>4, <2>3 DEF PeerSends, TypeOK, RouterTypes, RelayTypes, SockTypes, DsTypes, HistTypes,
                      routerVars, relayVars, sockVars, dsVars, histVars
<1>5. CASE LinkDies(l)
  <2>1. Raise("LinkClosed", l, 0) /\ 0 \in 0..MaxData /\ "LinkClosed" \in EventTypes
    BY <1>5, ServerAssumption DEF LinkDies, EventTypes
  <2>2. events' \in Seq(Event)
    BY <2>1, RaiseFacts DEF TypeOK
  <2>3. LinkTypes'
    BY <1>5, <2>2 DEF LinkDies, TypeOK, LinkTypes, LinkStates
  <2>4. QED
    BY <1>5, <2>3 DEF LinkDies, TypeOK, RouterTypes, RelayTypes, SockTypes, DsTypes, HistTypes,
                      routerVars, relayVars, sockVars, dsVars, histVars
<1>6. QED
  BY <1>1, <1>2, <1>3, <1>4, <1>5 DEF EngineNext

\* The types are kept by the router.
LEMMA RouterTypesKept ==
  ASSUME TypeOK, RouterNext
  PROVE  TypeOK'
<1> DEFINE l == Head(events).link
<1>1. CASE RouteLinkEstablished
  <2>1. Handles("LinkEstablished") /\ "LinkEstablished" \in EventTypes
    BY <1>1 DEF RouteLinkEstablished, EventTypes
  <2>2. l \in Links /\ events' \in Seq(Event)
    BY <2>1, HandleFacts DEF TypeOK
  <2>3. LinkTypes' /\ RouterTypes' /\ RelayTypes'
    BY <1>1, <2>2 DEF RouteLinkEstablished, TypeOK, LinkTypes, RouterTypes, RelayTypes, RelayStates
  <2>4. QED
    BY <1>1, <2>3 DEF RouteLinkEstablished, TypeOK, SockTypes, DsTypes, HistTypes,
                      sockVars, dsVars, histVars
<1>2. CASE RoutePeerIdentified
  <2>1. Handles("PeerIdentified") /\ "PeerIdentified" \in EventTypes
    BY <1>2 DEF RoutePeerIdentified, EventTypes
  <2>2. l \in Links /\ events' \in Seq(Event)
    BY <2>1, HandleFacts DEF TypeOK
  <2>3. LinkTypes' /\ RouterTypes'
    BY <1>2, <2>2 DEF RoutePeerIdentified, TypeOK, LinkTypes, RouterTypes
  <2>4. QED
    BY <1>2, <2>3 DEF RoutePeerIdentified, TypeOK, RelayTypes, SockTypes, DsTypes, HistTypes,
                      relayVars, sockVars, dsVars, histVars
<1>3. CASE RouteLinkData
  <2>1. Handles("LinkData") /\ "LinkData" \in EventTypes
    BY <1>3 DEF RouteLinkData, EventTypes
  <2>2. l \in Links /\ Head(events).id \in Chunks /\ events' \in Seq(Event)
    BY <2>1, HandleFacts DEF TypeOK, Chunks
  <2>3. \/ channel' = channel
        \/ /\ Len(channel[l]) < ChannelCap
           /\ channel' = [channel EXCEPT ![l] = Append(@, Head(events).id)]
    BY <1>3 DEF RouteLinkData
  <2>4. /\ channel' \in [Links -> Seq(Chunks)]
        /\ \A k \in Links : Len(channel'[k]) <= ChannelCap
    <3> HIDE DEF l
    <3>1. RelayTypes
      BY DEF TypeOK
    <3>2. CASE channel' = channel
      BY <3>1, <3>2 DEF RelayTypes
    <3>3. CASE /\ Len(channel[l]) < ChannelCap
               /\ channel' = [channel EXCEPT ![l] = Append(@, Head(events).id)]
      BY <2>2, <3>1, <3>3, PutFacts
    <3>4. QED
      BY <2>3, <3>2, <3>3
  <2>5. LinkTypes' /\ RelayTypes'
    BY <1>3, <2>2, <2>4 DEF RouteLinkData, TypeOK, LinkTypes, RelayTypes
  <2>6. QED
    BY <1>3, <2>5 DEF RouteLinkData, TypeOK, RouterTypes, SockTypes, DsTypes, HistTypes,
                      routerVars, sockVars, dsVars, histVars
<1>4. CASE RouteLinkClosed
  <2>1. Handles("LinkClosed") /\ "LinkClosed" \in EventTypes
    BY <1>4 DEF RouteLinkClosed, EventTypes
  <2>2. l \in Links /\ events' \in Seq(Event)
    BY <2>1, HandleFacts DEF TypeOK
  <2>3. LinkTypes' /\ RouterTypes'
    BY <1>4, <2>1, <2>2 DEF RouteLinkClosed, TypeOK, LinkTypes, RouterTypes
  <2>4. QED
    BY <1>4, <2>3 DEF RouteLinkClosed, TypeOK, RelayTypes, SockTypes, DsTypes, HistTypes,
                      relayVars, sockVars, dsVars, histVars
<1>5. CASE SendSentinel
  <2>1. closing \in Links /\ Sentinel \in Chunks
    BY <1>5 DEF SendSentinel, TypeOK, RouterTypes, Chunks
  <2>2. \/ channel' = channel
        \/ /\ Len(channel[closing]) < ChannelCap
           /\ channel' = [channel EXCEPT ![closing] = Append(@, Sentinel)]
    BY <1>5 DEF SendSentinel
  <2>3. /\ channel' \in [Links -> Seq(Chunks)]
        /\ \A k \in Links : Len(channel'[k]) <= ChannelCap
    <3>1. RelayTypes
      BY DEF TypeOK
    <3>2. CASE channel' = channel
      BY <3>1, <3>2 DEF RelayTypes
    <3>3. CASE /\ Len(channel[closing]) < ChannelCap
               /\ channel' = [channel EXCEPT ![closing] = Append(@, Sentinel)]
      BY <2>1, <3>1, <3>3, PutFacts
    <3>4. QED
      BY <2>2, <3>2, <3>3
  <2>4. RouterTypes' /\ RelayTypes'
    BY <1>5, <2>3 DEF SendSentinel, TypeOK, RouterTypes, RelayTypes
  <2>5. QED
    BY <1>5, <2>4 DEF SendSentinel, TypeOK, LinkTypes, SockTypes, DsTypes, HistTypes,
                      linkVars, sockVars, dsVars, histVars
<1>6. QED
  BY <1>1, <1>2, <1>3, <1>4, <1>5 DEF RouterNext

\* The types are kept by a relay task.
LEMMA TaskTypes ==
  ASSUME TypeOK, NEW l \in Links, TaskNext(l)
  PROVE  TypeOK'
<1>1. CASE Start(l) \/ StartError(l) \/ Join(l)
  <2>1. RelayTypes'
    BY <1>1 DEF Start, StartError, Join, TypeOK, RelayTypes, RelayStates, PumpStates
  <2>2. QED
    BY <1>1, <2>1 DEF Start, StartError, Join, TypeOK, LinkTypes, RouterTypes, SockTypes, DsTypes,
                      HistTypes, linkVars, routerVars, sockVars, dsVars, histVars
<1>2. CASE Remove(l)
  <2>1. RelayTypes'
    <3>1. channel' = [channel EXCEPT ![l] = << >>] /\ channel \in [Links -> Seq(Chunks)]
          /\ << >> \in Seq(Chunks) /\ Len(<< >>) <= ChannelCap
      BY <1>2, ServerAssumption DEF Remove, TypeOK, RelayTypes
    <3>2. channel' \in [Links -> Seq(Chunks)] /\ \A k \in Links : Len(channel'[k]) <= ChannelCap
      BY <3>1 DEF TypeOK, RelayTypes
    <3>3. QED
      BY <1>2, <3>2 DEF Remove, TypeOK, RelayTypes, RelayStates
  <2>2. LinkTypes' /\ RouterTypes' /\ SockTypes'
    BY <1>2 DEF Remove, TypeOK, LinkTypes, LinkStates, RouterTypes, SockTypes
  <2>3. QED
    BY <1>2, <2>1, <2>2 DEF Remove, TypeOK, DsTypes, HistTypes, dsVars, histVars
<1>3. QED
  BY <1>1, <1>2 DEF TaskNext

\* The types are kept by the pumps.
LEMMA PumpTypes ==
  ASSUME TypeOK, NEW l \in Links, ToScNext(l) \/ FromScNext(l)
  PROVE  TypeOK'
<1>1. CASE ToScBreaks(l)
  <2>1. channel' = [channel EXCEPT ![l] = << >>] /\ channel \in [Links -> Seq(Chunks)]
        /\ << >> \in Seq(Chunks) /\ Len(<< >>) <= ChannelCap
    BY <1>1, ServerAssumption DEF ToScBreaks, EndToSc, TypeOK, RelayTypes
  <2>2. channel' \in [Links -> Seq(Chunks)] /\ \A k \in Links : Len(channel'[k]) <= ChannelCap
    BY <2>1 DEF TypeOK, RelayTypes
  <2>3. RelayTypes'
    BY <1>1, <2>2 DEF ToScBreaks, EndToSc, TypeOK, RelayTypes, PumpStates
  <2>4. SockTypes'
    BY <1>1 DEF ToScBreaks, TypeOK, SockTypes
  <2>5. QED
    BY <1>1, <2>3, <2>4 DEF ToScBreaks, TypeOK, LinkTypes, RouterTypes, DsTypes, HistTypes,
                            linkVars, routerVars, dsVars, histVars
<1>2. CASE ToScSends(l)
  <2>1. /\ channel' \in [Links -> Seq(Chunks)]
        /\ \A k \in Links : Len(channel'[k]) <= ChannelCap
        /\ Head(channel[l]) \in Chunks
    BY <1>2, TakeFacts DEF ToScSends, TypeOK
  <2>2. RelayTypes'
    BY <1>2, <2>1 DEF ToScSends, TypeOK, RelayTypes
  <2>3. SockTypes' /\ DsTypes'
    BY <1>2 DEF ToScSends, TypeOK, SockTypes, DsTypes
  <2>4. HistTypes'
    <3>1. toDs \in [Links -> Seq(Chunks)] /\ Append(toDs[l], Head(channel[l])) \in Seq(Chunks)
      BY <2>1 DEF TypeOK, HistTypes
    <3>2. toDs' = toDs \/ toDs' = [toDs EXCEPT ![l] = Append(toDs[l], Head(channel[l]))]
      BY <1>2 DEF ToScSends
    <3>3. QED
      BY <1>2, <3>1, <3>2 DEF ToScSends, TypeOK, HistTypes
  <2>5. QED
    BY <1>2, <2>2, <2>3, <2>4 DEF ToScSends, TypeOK, LinkTypes, RouterTypes, linkVars, routerVars
<1>3. CASE FromScSends(l)
  <2>1. SockTypes' /\ HistTypes'
    BY <1>3 DEF FromScSends, TypeOK, SockTypes, HistTypes
  <2>2. QED
    BY <1>3, <2>1 DEF FromScSends, TypeOK, LinkTypes, RouterTypes, RelayTypes, DsTypes,
                      linkVars, routerVars, relayVars, dsVars
<1>4. CASE FromScBreaks(l)
  <2>1. SockTypes' /\ RelayTypes'
    BY <1>4 DEF FromScBreaks, TypeOK, SockTypes, RelayTypes, PumpStates
  <2>2. QED
    BY <1>4, <2>1 DEF FromScBreaks, TypeOK, LinkTypes, RouterTypes, DsTypes, HistTypes,
                      linkVars, routerVars, dsVars, histVars
<1>5. QED
  BY <1>1, <1>2, <1>3, <1>4 DEF ToScNext, FromScNext

\* The types are kept by the game server.
LEMMA GameServerTypes ==
  ASSUME TypeOK, DsStops \/ DsStarts \/ \E l \in Links : DsReplies(l)
  PROVE  TypeOK'
<1>1. CASE DsStops \/ DsStarts
  <2>1. DsTypes'
    <3>1. dsStops' \in 0..MaxStops
      BY <1>1, ServerAssumption DEF DsStops, DsStarts, TypeOK, DsTypes
    <3>2. dsUp' \in BOOLEAN
      BY <1>1, Zenon DEF DsStops, DsStarts
    <3>3. dsPeers' \subseteq Links /\ dsSent' = dsSent
      BY <1>1 DEF DsStops, DsStarts, TypeOK, DsTypes
    <3>4. QED
      BY <3>1, <3>2, <3>3 DEF TypeOK, DsTypes
  <2>2. QED
    BY <1>1, <2>1 DEF DsStops, DsStarts, TypeOK, LinkTypes, RouterTypes, RelayTypes, SockTypes, HistTypes,
                      linkVars, routerVars, relayVars, sockVars, histVars
<1>2. ASSUME NEW l \in Links, DsReplies(l) PROVE TypeOK'
  <2>1. DsTypes' /\ SockTypes'
    BY <1>2, ServerAssumption DEF DsReplies, TypeOK, DsTypes, SockTypes
  <2>2. QED
    BY <1>2, <2>1 DEF DsReplies, TypeOK, LinkTypes, RouterTypes, RelayTypes, HistTypes,
                      linkVars, routerVars, relayVars, histVars
<1>3. QED
  BY <1>1, <1>2

\* The types hold at the start.
LEMMA InitTypes == Init => TypeOK
<1> SUFFICES ASSUME Init PROVE TypeOK
  OBVIOUS
<1>1. LinkTypes /\ RouterTypes
  BY ServerAssumption DEF Init, LinkTypes, LinkStates, RouterTypes
<1>2. RelayTypes
  <2>1. << >> \in Seq(Chunks) /\ Len(<< >>) <= ChannelCap
    BY ServerAssumption
  <2>2. channel = [l \in Links |-> << >>]
    BY DEF Init
  <2>3. channel \in [Links -> Seq(Chunks)] /\ \A l \in Links : Len(channel[l]) <= ChannelCap
    BY <2>1, <2>2
  <2>4. /\ open \in [Links -> BOOLEAN]
        /\ relay \in [Links -> RelayStates]
        /\ to_sc \in [Links -> PumpStates]
        /\ from_sc \in [Links -> PumpStates]
    BY DEF Init, RelayStates, PumpStates
  <2>5. QED
    BY <2>3, <2>4 DEF RelayTypes
<1>3. SockTypes /\ DsTypes /\ HistTypes
  BY ServerAssumption DEF Init, SockTypes, DsTypes, HistTypes
<1>4. QED
  BY <1>1, <1>2, <1>3 DEF TypeOK

\* start_server: every variable keeps its type, and no channel ever holds more
\* than its capacity, whatever the links, the capacity and the other bounds.
THEOREM TypeCorrect == Spec => []TypeOK
<1>1. Init => TypeOK
  BY InitTypes
<1>2. TypeOK /\ [Next]_vars => TypeOK'
  <2> SUFFICES ASSUME TypeOK, [Next]_vars PROVE TypeOK'
    OBVIOUS
  <2>1. CASE RouterNext
    BY <2>1, RouterTypesKept
  <2>2. ASSUME NEW l \in Links, TaskNext(l) PROVE TypeOK'
    BY <2>2, TaskTypes
  <2>3. ASSUME NEW l \in Links, ToScNext(l) \/ FromScNext(l) PROVE TypeOK'
    BY <2>3, PumpTypes
  <2>4. ASSUME NEW l \in Links, EngineNext(l) PROVE TypeOK'
    BY <2>4, EngineTypes
  <2>5. CASE DsStops \/ DsStarts \/ \E l \in Links : DsReplies(l)
    BY <2>5, GameServerTypes
  <2>6. CASE UNCHANGED vars
    BY <2>6 DEF vars, linkVars, routerVars, relayVars, sockVars, dsVars, histVars,
                TypeOK, LinkTypes, RouterTypes, RelayTypes, SockTypes, DsTypes, HistTypes
  <2>7. QED
    BY <2>1, <2>2, <2>3, <2>4, <2>5, <2>6 DEF Next
<1>3. QED
  BY <1>1, <1>2, PTL DEF Spec
-----------------------------------------------------------------------------
\* EventInv holds after a step that raises and handles nothing, spawns no
\* relay, and closes links at most.
LEMMA EventInvSame ==
  ASSUME EventInv, LinkTypes, events' = events,
         \A k \in Links : link'[k] = link[k] \/ (link[k] = "up" /\ link'[k] = "closed"),
         \A k \in Links : relay[k] = "none" => relay'[k] = "none"
  PROVE  EventInv'
<1> SUFFICES ASSUME NEW i \in 1..Len(events)
             PROVE  /\ link'[events[i].link] # "none"
                    /\ events[i].type = "LinkEstablished" =>
                         /\ relay'[events[i].link] = "none"
                         /\ \A j \in 1..Len(events) :
                              events[j].link = events[i].link /\ events[j].type = "LinkEstablished" => j = i
                    /\ events[i].type = "LinkClosed" =>
                         /\ link'[events[i].link] = "lost"
                         /\ \A j \in 1..Len(events) : events[j].link = events[i].link => j <= i
                    /\ link'[events[i].link] = "lost" =>
                         \E j \in 1..Len(events) : /\ j >= i
                                                   /\ events[j].link = events[i].link
                                                   /\ events[j].type = "LinkClosed"
  BY DEF EventInv
<1> DEFINE k == events[i].link
<1>1. k \in Links
  <2>1. events[i] \in Event
    BY DEF LinkTypes
  <2>2. QED
    BY <2>1 DEF Event
<1>2. /\ link'[k] # "none" <=> link[k] # "none"
      /\ link'[k] = "lost" <=> link[k] = "lost"
      /\ relay[k] = "none" => relay'[k] = "none"
  BY <1>1
<1> HIDE DEF k
<1>3. QED
  BY <1>2 DEF EventInv, k

\* The invariant looks only at these variables.
LEMMA NothingChanged ==
  ASSUME IInv, UNCHANGED << link, events, closing, senders, clients, channel, open, relay >>
  PROVE  (EventInv /\ RelayInv /\ Safe)'
<1>1. EventInv' /\ RelayInv'
  BY DEF IInv, EventInv, RelayInv
<1>2. SendersNameLiveRelays' /\ SentinelComesLast'
  BY DEF IInv, Safe, SendersNameLiveRelays, SentinelComesLast
<1>3. OpenLinkHasRelay' /\ LostLinkForgotten'
  BY DEF IInv, Safe, OpenLinkHasRelay, EstablishedPending, LostLinkForgotten, Pending
<1>4. QED
  BY <1>1, <1>2, <1>3 DEF Safe

\* What the engine's steps have in common: one event of a link that is up, was
\* just established, or is lost.
EngineRaises(l, type) ==
  \/ type = "LinkEstablished" /\ link[l] = "none" /\ link'[l] = "up"
  \/ type = "LinkClosed" /\ link[l] \in {"none", "up"} /\ link'[l] = "lost"
  \/ type \in {"PeerIdentified", "LinkData"} /\ link[l] = "up" /\ link'[l] = "up"

\* What the engine raises, and what it leaves alone.
LEMMA EngineFacts ==
  ASSUME TypeOK, NEW l \in Links, EngineNext(l)
  PROVE  /\ UNCHANGED << closing, senders, clients, channel, open, relay >>
         /\ \A k \in Links \ {l} : link'[k] = link[k]
         /\ \E type \in EventTypes, id \in 0..MaxData :
              Raise(type, l, id) /\ EngineRaises(l, type)
<1>1. UNCHANGED << closing, senders, clients, channel, open, relay >>
  BY DEF EngineNext, LinkEstablishes, HandshakeFails, PeerIdentifies, PeerSends, LinkDies,
         routerVars, relayVars
<1>2. \A k \in Links \ {l} : link'[k] = link[k]
  BY DEF EngineNext, LinkEstablishes, HandshakeFails, PeerIdentifies, PeerSends, LinkDies,
         TypeOK, LinkTypes
<1> DEFINE Goal == \E type \in EventTypes, id \in 0..MaxData :
                     Raise(type, l, id) /\ EngineRaises(l, type)
<1>3. 0 \in 0..MaxData
  BY ServerAssumption
<1>4. CASE LinkEstablishes(l)
  <2>1. Raise("LinkEstablished", l, 0) /\ EngineRaises(l, "LinkEstablished")
    BY <1>4 DEF LinkEstablishes, EngineRaises, TypeOK, LinkTypes
  <2>2. Goal
    BY <1>3, <2>1 DEF EventTypes
  <2>3. QED
    BY <1>1, <1>2, <2>2
<1>5. CASE HandshakeFails(l) \/ LinkDies(l)
  <2>1. Raise("LinkClosed", l, 0) /\ EngineRaises(l, "LinkClosed")
    BY <1>5 DEF HandshakeFails, LinkDies, EngineRaises, TypeOK, LinkTypes
  <2>2. Goal
    BY <1>3, <2>1 DEF EventTypes
  <2>3. QED
    BY <1>1, <1>2, <2>2
<1>6. CASE PeerIdentifies(l)
  <2>1. Raise("PeerIdentified", l, 0) /\ EngineRaises(l, "PeerIdentified")
    BY <1>6 DEF PeerIdentifies, EngineRaises, TypeOK, LinkTypes
  <2>2. Goal
    BY <1>3, <2>1 DEF EventTypes
  <2>3. QED
    BY <1>1, <1>2, <2>2
<1>7. CASE PeerSends(l)
  <2>1. Raise("LinkData", l, peerSent[l] + 1) /\ EngineRaises(l, "LinkData")
    BY <1>7 DEF PeerSends, EngineRaises, TypeOK, LinkTypes
  <2>2. peerSent[l] + 1 \in 0..MaxData
    BY <1>7, ServerAssumption DEF PeerSends, TypeOK, LinkTypes
  <2>3. Goal
    BY <2>1, <2>2 DEF EventTypes
  <2>4. QED
    BY <1>1, <1>2, <2>3
<1>8. QED
  BY <1>4, <1>5, <1>6, <1>7 DEF EngineNext

\* The engine raises an event.
LEMMA EngineSafe ==
  ASSUME IInv, NEW l \in Links, EngineNext(l)
  PROVE  (EventInv /\ RelayInv /\ Safe)'
<1> DEFINE n == Len(events) + 1
<1>1. /\ UNCHANGED << closing, senders, clients, channel, open, relay >>
      /\ \A k \in Links \ {l} : link'[k] = link[k]
  BY EngineFacts DEF IInv
<1>2. PICK type \in EventTypes, id \in 0..MaxData : Raise(type, l, id) /\ EngineRaises(l, type)
  BY EngineFacts DEF IInv
<1>3. /\ Len(events) \in Nat
      /\ Len(events') = n
      /\ \A i \in 1..Len(events) : events'[i] = events[i]
      /\ events'[n].type = type
      /\ events'[n].link = l
  BY <1>2, RaiseFacts DEF IInv, TypeOK, LinkTypes
<1>4. \A i \in 1..Len(events) : events[i].link \in Links
  <2>1. \A i \in 1..Len(events) : events[i] \in Event
    BY DEF IInv, TypeOK, LinkTypes
  <2>2. QED
    BY <2>1 DEF Event
<1>5. EventInv
  BY DEF IInv
<1>6. link'[l] # "none" /\ link[l] # "lost"
  BY <1>2 DEF EngineRaises
<1>7. \A i \in 1..Len(events) : events[i].link = l => link[l] # "none" /\ events[i].type # "LinkClosed"
  BY <1>5, <1>6 DEF EventInv
<1> HIDE DEF n
<1>8. ASSUME NEW i \in 1..Len(events)
      PROVE  /\ link'[events[i].link] # "none"
             /\ events[i].type = "LinkEstablished" =>
                  /\ relay[events[i].link] = "none"
                  /\ \A j \in 1..n :
                       events'[j].link = events[i].link /\ events'[j].type = "LinkEstablished" => j = i
             /\ events[i].type = "LinkClosed" =>
                  /\ link'[events[i].link] = "lost"
                  /\ \A j \in 1..n : events'[j].link = events[i].link => j <= i
             /\ link'[events[i].link] = "lost" =>
                  \E j \in 1..n : /\ j >= i
                                  /\ events'[j].link = events[i].link
                                  /\ events'[j].type = "LinkClosed"
  <2>1. \A j \in 1..n : j \in 1..Len(events) \/ j = n
    BY <1>3 DEF n
  <2>2. CASE events[i].link = l
    <3>1. link[l] # "none" /\ events[i].type # "LinkClosed" /\ type # "LinkEstablished"
      BY <1>2, <1>7, <2>2 DEF EngineRaises
    <3>2. link'[l] = "lost" => n \in 1..n /\ n >= i /\ events'[n].link = l /\ events'[n].type = "LinkClosed"
      BY <1>2, <1>3 DEF EngineRaises, n
    <3>3. events[i].type = "LinkEstablished" =>
            /\ relay[l] = "none"
            /\ \A j \in 1..n :
                 events'[j].link = l /\ events'[j].type = "LinkEstablished" => j = i
      BY <1>3, <1>5, <2>1, <2>2, <3>1 DEF EventInv
    <3>4. QED
      BY <1>6, <2>2, <3>1, <3>2, <3>3
  <2>3. CASE events[i].link # l
    <3>1. link'[events[i].link] = link[events[i].link]
      BY <1>1, <1>4, <2>3
    <3>2. \A j \in 1..n : events'[j].link = events[i].link => j \in 1..Len(events) /\ events'[j] = events[j]
      BY <1>3, <2>1, <2>3
    <3>3. \A j \in 1..Len(events) : j \in 1..n /\ events'[j] = events[j]
      BY <1>3 DEF n
    <3>4. QED
      BY <1>5, <3>1, <3>2, <3>3 DEF EventInv
  <2>4. QED
    BY <2>2, <2>3
<1>9. /\ link'[l] # "none"
      /\ type = "LinkEstablished" =>
           /\ relay[l] = "none"
           /\ \A j \in 1..n : events'[j].link = l /\ events'[j].type = "LinkEstablished" => j = n
      /\ type = "LinkClosed" => link'[l] = "lost" /\ \A j \in 1..n : j <= n
      /\ link'[l] = "lost" => \E j \in 1..n : j >= n /\ events'[j].link = l /\ events'[j].type = "LinkClosed"
  <2>1. type = "LinkEstablished" => link[l] = "none" /\ relay[l] = "none"
    BY <1>2 DEF EngineRaises, IInv, RelayInv
  <2>2. \A j \in 1..n : j \in 1..Len(events) \/ j = n
    BY <1>3 DEF n
  <2>3. type = "LinkEstablished" => \A j \in 1..n : events'[j].link = l => j = n
    BY <1>3, <1>7, <2>1, <2>2
  <2>4. n \in 1..n /\ n >= n /\ \A j \in 1..n : j <= n
    BY <1>3 DEF n
  <2>5. (type = "LinkClosed" => link'[l] = "lost") /\ (link'[l] = "lost" => type = "LinkClosed")
    BY <1>2 DEF EngineRaises
  <2>6. QED
    BY <1>3, <1>6, <2>1, <2>3, <2>4, <2>5
<1>10. EventInv'
  <2>1. \A i \in 1..n : (i \in 1..Len(events) /\ events'[i] = events[i]) \/ i = n
    BY <1>3 DEF n
  <2>2. QED
    BY <1>1, <1>3, <1>8, <1>9, <2>1 DEF EventInv
<1>11. RelayInv'
  BY <1>1, <1>6 DEF IInv, RelayInv
<1>12. SendersNameLiveRelays'
  BY <1>1, <1>2 DEF EngineRaises, IInv, RelayInv, Safe, SendersNameLiveRelays
<1>13. SentinelComesLast'
  BY <1>1 DEF IInv, Safe, SentinelComesLast
<1>14. \A i \in 1..Len(events) : i \in 1..Len(events') /\ events'[i] = events[i]
  BY <1>3 DEF n
<1>15. n \in 1..Len(events')
  BY <1>3 DEF n
<1>16. OpenLinkHasRelay'
  <2>1. ASSUME NEW k \in Links, link'[k] = "up"
        PROVE  relay[k] \in {"start", "run", "remove"} \/ EstablishedPending(k)'
    <3>1. link[k] = "up" \/ (k = l /\ type = "LinkEstablished")
      BY <1>1, <1>2, <2>1 DEF EngineRaises
    <3>2. CASE k = l /\ type = "LinkEstablished"
      BY <1>3, <1>15, <3>2 DEF EstablishedPending
    <3>3. CASE link[k] = "up"
      BY <1>14, <3>3 DEF IInv, Safe, OpenLinkHasRelay, EstablishedPending
    <3>4. QED
      BY <3>1, <3>2, <3>3
  <2>2. QED
    BY <1>1, <2>1 DEF OpenLinkHasRelay
<1>17. LostLinkForgotten'
  <2>1. ASSUME NEW k \in Links, link'[k] = "lost", ~ Pending(k)', closing # k
        PROVE  k \notin senders /\ k \notin clients
    <3>1. k # l
      BY <1>3, <1>15, <2>1 DEF Pending
    <3>2. link[k] = "lost" /\ ~ Pending(k)
      BY <1>1, <1>14, <2>1, <3>1 DEF Pending
    <3>3. QED
      BY <2>1, <3>2 DEF IInv, Safe, LostLinkForgotten
  <2>2. QED
    BY <1>1, <2>1 DEF LostLinkForgotten
<1>18. QED
  BY <1>10, <1>11, <1>12, <1>13, <1>16, <1>17 DEF Safe

\* The router takes the oldest event: what is still queued keeps its meaning
\* if the links stay as they are, and a relay is spawned only for the link of
\* a LinkEstablished.
LEMMA HandleSafe ==
  ASSUME IInv, NEW type \in EventTypes, Handles(type), link' = link,
         NEW h \in Links, h = Head(events).link,
         \A k \in Links : relay'[k] = relay[k] \/ (k = h /\ type = "LinkEstablished")
  PROVE  /\ EventInv'
         /\ \A k \in Links : Pending(k) => k = h \/ Pending(k)'
         /\ type # "LinkClosed" /\ link[h] = "lost" => Pending(h)'
         /\ \A k \in Links : EstablishedPending(k) =>
              \/ k = h /\ type = "LinkEstablished"
              \/ EstablishedPending(k)'
<1>1. /\ events[1] = Head(events)
      /\ Head(events).type = type
      /\ Len(events') \in Nat
      /\ Len(events) = Len(events') + 1
      /\ \A i \in 1..Len(events') : events'[i] = events[i + 1]
  <2>1. events' \in Seq(Event) => Len(events') \in Nat
    OBVIOUS
  <2>2. QED
    BY <2>1, HandleFacts DEF IInv, TypeOK
<1>2. EventInv
  BY DEF IInv
<1>3. events[1].link = h /\ events[1].type = type /\ 1 \in 1..Len(events)
  BY <1>1
<1>4. \A i \in 1..Len(events') : events'[i].link \in Links
  <2>1. \A i \in 1..Len(events') : events'[i] \in Event
    BY HandleFacts DEF IInv, TypeOK
  <2>2. QED
    BY <2>1 DEF Event
<1>5. \A j \in 1..Len(events) : j # 1 => j - 1 \in 1..Len(events') /\ events'[j - 1] = events[j]
  BY <1>1
<1>6. \A i \in 1..Len(events') : i + 1 \in 1..Len(events)
  BY <1>1
<1>7. EventInv'
  <2> SUFFICES ASSUME NEW i \in 1..Len(events')
               PROVE  /\ link[events'[i].link] # "none"
                      /\ events'[i].type = "LinkEstablished" =>
                           /\ relay'[events'[i].link] = "none"
                           /\ \A j \in 1..Len(events') :
                                events'[j].link = events'[i].link /\ events'[j].type = "LinkEstablished" => j = i
                      /\ events'[i].type = "LinkClosed" =>
                           /\ link[events'[i].link] = "lost"
                           /\ \A j \in 1..Len(events') : events'[j].link = events'[i].link => j <= i
                      /\ link[events'[i].link] = "lost" =>
                           \E j \in 1..Len(events') : /\ j >= i
                                                      /\ events'[j].link = events'[i].link
                                                      /\ events'[j].type = "LinkClosed"
    BY DEF EventInv
  <2>1. i + 1 \in 1..Len(events) /\ events'[i] = events[i + 1] /\ i \in Nat /\ i >= 1
    BY <1>1, <1>6
  <2>2. link[events'[i].link] # "none"
    BY <1>2, <2>1 DEF EventInv
  <2>3. ASSUME events'[i].type = "LinkEstablished"
        PROVE  /\ relay'[events'[i].link] = "none"
               /\ \A j \in 1..Len(events') :
                    events'[j].link = events'[i].link /\ events'[j].type = "LinkEstablished" => j = i
    <3>1. /\ relay[events[i + 1].link] = "none"
          /\ \A j \in 1..Len(events) :
               events[j].link = events[i + 1].link /\ events[j].type = "LinkEstablished" => j = i + 1
      BY <1>2, <2>1, <2>3 DEF EventInv
    <3>2. ~ (events[i + 1].link = h /\ type = "LinkEstablished")
      BY <1>3, <2>1, <3>1
    <3>3. relay'[events'[i].link] = "none"
      BY <1>4, <2>1, <3>1, <3>2
    <3>4. ASSUME NEW j \in 1..Len(events'), events'[j].link = events'[i].link,
                 events'[j].type = "LinkEstablished"
          PROVE  j = i
      <4>1. j + 1 \in 1..Len(events) /\ events'[j] = events[j + 1]
        BY <1>1, <1>6
      <4>2. j + 1 = i + 1
        BY <2>1, <3>1, <3>4, <4>1
      <4>3. QED
        BY <2>1, <4>2
    <3>5. QED
      BY <3>3, <3>4
  <2>4. ASSUME events'[i].type = "LinkClosed"
        PROVE  /\ link[events'[i].link] = "lost"
               /\ \A j \in 1..Len(events') : events'[j].link = events'[i].link => j <= i
    <3>1. /\ link[events[i + 1].link] = "lost"
          /\ \A j \in 1..Len(events) : events[j].link = events[i + 1].link => j <= i + 1
      BY <1>2, <2>1, <2>4 DEF EventInv
    <3>2. ASSUME NEW j \in 1..Len(events'), events'[j].link = events'[i].link
          PROVE  j <= i
      <4>1. j + 1 \in 1..Len(events) /\ events'[j] = events[j + 1]
        BY <1>1, <1>6
      <4>2. j + 1 <= i + 1
        BY <2>1, <3>1, <3>2, <4>1
      <4>3. QED
        BY <2>1, <4>2
    <3>3. QED
      BY <2>1, <3>1, <3>2
  <2>5. ASSUME link[events'[i].link] = "lost"
        PROVE  \E j \in 1..Len(events') : /\ j >= i
                                          /\ events'[j].link = events'[i].link
                                          /\ events'[j].type = "LinkClosed"
    <3>1. PICK j \in 1..Len(events) : /\ j >= i + 1
                                      /\ events[j].link = events[i + 1].link
                                      /\ events[j].type = "LinkClosed"
      BY <1>2, <2>1, <2>5 DEF EventInv
    <3>2. j # 1 /\ j - 1 >= i
      BY <2>1, <3>1
    <3>3. j - 1 \in 1..Len(events') /\ events'[j - 1] = events[j]
      BY <1>5, <3>2
    <3>4. QED
      BY <2>1, <3>1, <3>2, <3>3
  <2>6. QED
    BY <2>2, <2>3, <2>4, <2>5
<1>8. \A k \in Links : Pending(k) => k = h \/ Pending(k)'
  BY <1>3, <1>5 DEF Pending
<1>9. ASSUME type # "LinkClosed", link[h] = "lost" PROVE Pending(h)'
  <2>1. PICK j \in 1..Len(events) : events[j].link = h /\ events[j].type = "LinkClosed"
    BY <1>2, <1>3, <1>9 DEF EventInv
  <2>2. j # 1
    BY <1>3, <1>9, <2>1
  <2>3. QED
    BY <1>5, <2>1, <2>2 DEF Pending
<1>10. \A k \in Links : EstablishedPending(k) =>
         \/ k = h /\ type = "LinkEstablished"
         \/ EstablishedPending(k)'
  BY <1>3, <1>5 DEF EstablishedPending
<1>11. QED
  BY <1>7, <1>8, <1>9, <1>10

\* The router handles an event, or sends a sentinel.
LEMMA RouteLinkEstablishedSafe ==
  ASSUME IInv, RouteLinkEstablished
  PROVE  (EventInv /\ RelayInv /\ Safe)'
<1>1. PICK h \in Links : h = Head(events).link
  BY HandleFacts DEF IInv, TypeOK, RouteLinkEstablished, EventTypes
<1>2. /\ Handles("LinkEstablished") /\ "LinkEstablished" \in EventTypes
      /\ UNCHANGED << link, closing, clients, channel >>
  BY DEF RouteLinkEstablished, EventTypes
<1>3. closing = None /\ None # h
  BY <1>2, HandleFacts, ServerAssumption DEF IInv, TypeOK
<1>4. events[1].link = h /\ events[1].type = "LinkEstablished" /\ 1 \in 1..Len(events)
  <2>1. events[1] = Head(events) /\ Head(events).type = "LinkEstablished"
        /\ Len(events) = Len(events') + 1 /\ events' \in Seq(Event)
    BY <1>2, HandleFacts DEF IInv, TypeOK
  <2>2. QED
    BY <1>1, <2>1
<1>5. link[h] # "none" /\ relay[h] = "none"
  BY <1>4 DEF IInv, EventInv
<1>6. h \notin senders /\ channel[h] = << >>
  BY <1>5 DEF IInv, RelayInv
<1>7. /\ senders' = senders \cup {h}
      /\ relay'[h] = "start"
      /\ \A k \in Links \ {h} : relay'[k] = relay[k] /\ open'[k] = open[k]
  BY <1>1, <1>6 DEF RouteLinkEstablished, IInv, TypeOK, RelayTypes
<1>8. /\ EventInv'
      /\ \A k \in Links : Pending(k) => k = h \/ Pending(k)'
      /\ link[h] = "lost" => Pending(h)'
      /\ \A k \in Links : EstablishedPending(k) => k = h \/ EstablishedPending(k)'
  BY <1>1, <1>2, <1>7, HandleSafe
<1>9. RelayInv'
  BY <1>2, <1>3, <1>5, <1>7, ServerAssumption DEF IInv, RelayInv
<1>10. SendersNameLiveRelays'
  BY <1>2, <1>7 DEF IInv, Safe, SendersNameLiveRelays
<1>11. SentinelComesLast'
  BY <1>2, <1>6, <1>7 DEF IInv, Safe, SentinelComesLast
<1>12. OpenLinkHasRelay'
  BY <1>2, <1>7, <1>8 DEF IInv, Safe, OpenLinkHasRelay
<1>13. LostLinkForgotten'
  BY <1>2, <1>7, <1>8 DEF IInv, Safe, LostLinkForgotten
<1>14. QED
  BY <1>8, <1>9, <1>10, <1>11, <1>12, <1>13 DEF Safe

\* PeerIdentified is handled.
LEMMA RoutePeerIdentifiedSafe ==
  ASSUME IInv, RoutePeerIdentified
  PROVE  (EventInv /\ RelayInv /\ Safe)'
<1>1. PICK h \in Links : h = Head(events).link
  BY HandleFacts DEF IInv, TypeOK, RoutePeerIdentified, EventTypes
<1>2. /\ Handles("PeerIdentified") /\ "PeerIdentified" \in EventTypes
      /\ UNCHANGED << link, closing, senders, channel, open, relay >>
      /\ clients' = clients \cup {h}
  BY <1>1 DEF RoutePeerIdentified, EventTypes, relayVars
<1>3. /\ EventInv'
      /\ \A k \in Links : Pending(k) => k = h \/ Pending(k)'
      /\ link[h] = "lost" => Pending(h)'
      /\ \A k \in Links : EstablishedPending(k) => EstablishedPending(k)'
  BY <1>1, <1>2, HandleSafe
<1>4. RelayInv' /\ SendersNameLiveRelays' /\ SentinelComesLast'
  BY <1>2 DEF IInv, RelayInv, Safe, SendersNameLiveRelays, SentinelComesLast
<1>5. OpenLinkHasRelay'
  BY <1>2, <1>3 DEF IInv, Safe, OpenLinkHasRelay
<1>6. LostLinkForgotten'
  BY <1>2, <1>3 DEF IInv, Safe, LostLinkForgotten
<1>7. QED
  BY <1>3, <1>4, <1>5, <1>6 DEF Safe

\* LinkData is handled.
LEMMA RouteLinkDataSafe ==
  ASSUME IInv, RouteLinkData
  PROVE  (EventInv /\ RelayInv /\ Safe)'
<1>1. PICK h \in Links : h = Head(events).link
  BY HandleFacts DEF IInv, TypeOK, RouteLinkData, EventTypes
<1>2. /\ Handles("LinkData") /\ "LinkData" \in EventTypes
      /\ UNCHANGED << link, closing, senders, clients, open, relay >>
  BY DEF RouteLinkData, EventTypes, routerVars
<1>3. /\ EventInv'
      /\ \A k \in Links : Pending(k) => k = h \/ Pending(k)'
      /\ link[h] = "lost" => Pending(h)'
      /\ \A k \in Links : EstablishedPending(k) => EstablishedPending(k)'
  BY <1>1, <1>2, HandleSafe
<1>4. PICK x : x = Head(events).id
  OBVIOUS
<1>5. x \in Chunks /\ x # Sentinel
  BY <1>2, <1>4, HandleFacts, ServerAssumption DEF IInv, TypeOK, Chunks
<1>6. \/ channel' = channel
      \/ /\ h \in senders
         /\ Len(channel[h]) < ChannelCap
         /\ channel' = [channel EXCEPT ![h] = Append(@, x)]
  BY <1>1, <1>4 DEF RouteLinkData
<1>7. CASE channel' = channel
  <2>1. RelayInv' /\ SendersNameLiveRelays' /\ SentinelComesLast'
    BY <1>2, <1>7 DEF IInv, RelayInv, Safe, SendersNameLiveRelays, SentinelComesLast
  <2>2. OpenLinkHasRelay' /\ LostLinkForgotten'
    BY <1>2, <1>3 DEF IInv, Safe, OpenLinkHasRelay, LostLinkForgotten
  <2>3. QED
    BY <1>3, <2>1, <2>2 DEF Safe
<1>8. CASE /\ h \in senders
           /\ Len(channel[h]) < ChannelCap
           /\ channel' = [channel EXCEPT ![h] = Append(@, x)]
  <2>1. /\ \A k \in Links \ {h} : channel'[k] = channel[k]
        /\ Len(channel[h]) \in Nat
        /\ Len(channel'[h]) = Len(channel[h]) + 1
        /\ \A i \in 1..Len(channel[h]) : channel'[h][i] = channel[h][i]
        /\ channel'[h][Len(channel[h]) + 1] = x
    <3>1. channel[h] \in Seq(Chunks)
      BY DEF IInv, TypeOK, RelayTypes
    <3>2. Len(channel[h]) \in Nat
      BY <3>1
    <3>3. QED
      BY <1>5, <1>8, <3>2, PutFacts DEF IInv, TypeOK
  <2>2. relay[h] # "none"
    BY <1>8 DEF IInv, RelayInv
  <2>3. RelayInv'
    BY <1>2, <2>1, <2>2 DEF IInv, RelayInv
  <2>4. SendersNameLiveRelays'
    BY <1>2 DEF IInv, Safe, SendersNameLiveRelays
  <2>5. SentinelComesLast'
    <3>1. \A i \in 1..Len(channel'[h]) : channel'[h][i] # Sentinel
      <4>1. \A i \in 1..Len(channel[h]) : channel[h][i] # Sentinel
        BY <1>8 DEF IInv, Safe, SentinelComesLast
      <4>2. \A i \in 1..Len(channel'[h]) : i \in 1..Len(channel[h]) \/ i = Len(channel[h]) + 1
        BY <2>1
      <4>3. QED
        BY <1>5, <2>1, <4>1, <4>2
    <3>2. QED
      BY <1>2, <2>1, <3>1 DEF IInv, Safe, SentinelComesLast
  <2>6. OpenLinkHasRelay' /\ LostLinkForgotten'
    BY <1>2, <1>3 DEF IInv, Safe, OpenLinkHasRelay, LostLinkForgotten
  <2>7. QED
    BY <1>3, <2>3, <2>4, <2>5, <2>6 DEF Safe
<1>9. QED
  BY <1>6, <1>7, <1>8

\* LinkClosed is handled.
LEMMA RouteLinkClosedSafe ==
  ASSUME IInv, RouteLinkClosed
  PROVE  (EventInv /\ RelayInv /\ Safe)'
<1>1. PICK h \in Links : h = Head(events).link
  BY HandleFacts DEF IInv, TypeOK, RouteLinkClosed, EventTypes
<1>2. /\ Handles("LinkClosed") /\ "LinkClosed" \in EventTypes
      /\ UNCHANGED << link, channel, open, relay >>
  BY DEF RouteLinkClosed, EventTypes, relayVars
<1>3. closing = None /\ None \notin Links
  BY <1>2, HandleFacts, ServerAssumption DEF IInv, TypeOK
<1>4. \/ h \in senders /\ senders' = senders \ {h} /\ closing' = h /\ clients' = clients
      \/ h \notin senders /\ clients' = clients \ {h} /\ senders' = senders /\ closing' = closing
  BY <1>1 DEF RouteLinkClosed
<1>5. /\ EventInv'
      /\ \A k \in Links : Pending(k) => k = h \/ Pending(k)'
      /\ \A k \in Links : EstablishedPending(k) => EstablishedPending(k)'
  BY <1>1, <1>2, HandleSafe
<1>6. h \in senders => relay[h] \notin {"none", "done"}
  BY DEF IInv, RelayInv, Safe, SendersNameLiveRelays
<1>7. RelayInv'
  BY <1>2, <1>3, <1>4, <1>6 DEF IInv, RelayInv
<1>8. SendersNameLiveRelays'
  BY <1>2, <1>3, <1>4, <1>6 DEF IInv, Safe, SendersNameLiveRelays
<1>9. SentinelComesLast'
  BY <1>2, <1>3, <1>4 DEF IInv, Safe, SentinelComesLast
<1>10. OpenLinkHasRelay'
  BY <1>2, <1>5 DEF IInv, Safe, OpenLinkHasRelay
<1>11. LostLinkForgotten'
  BY <1>2, <1>3, <1>4, <1>5 DEF IInv, Safe, LostLinkForgotten
<1>12. QED
  BY <1>5, <1>7, <1>8, <1>9, <1>10, <1>11 DEF Safe

\* The sentinel is sent.
LEMMA SendSentinelSafe ==
  ASSUME IInv, SendSentinel
  PROVE  (EventInv /\ RelayInv /\ Safe)'
<1>1. PICK h \in Links : h = closing
  BY DEF SendSentinel, IInv, TypeOK, RouterTypes
<1>2. /\ UNCHANGED << link, events, senders, open, relay >>
      /\ clients' = clients \ {h}
      /\ closing' = None
      /\ None \notin Links
  BY <1>1, ServerAssumption DEF SendSentinel, linkVars
<1>3. h \notin senders /\ relay[h] # "none"
  BY <1>1 DEF IInv, RelayInv
<1>4. \A i \in 1..Len(channel[h]) : channel[h][i] # Sentinel
  BY <1>1 DEF IInv, Safe, SentinelComesLast
<1>5. /\ \A k \in Links \ {h} : channel'[k] = channel[k]
      /\ \A i \in 1..Len(channel'[h]) : channel'[h][i] = Sentinel => i = Len(channel'[h])
  <2>1. CASE channel' = channel
    BY <1>4, <2>1
  <2>2. CASE Len(channel[h]) < ChannelCap /\ channel' = [channel EXCEPT ![h] = Append(@, Sentinel)]
    <3>1. channel[h] \in Seq(Chunks) /\ Sentinel \in Chunks
      BY DEF IInv, TypeOK, RelayTypes, Chunks
    <3>2. Len(channel[h]) \in Nat
      BY <3>1
    <3>3. /\ \A k \in Links \ {h} : channel'[k] = channel[k]
          /\ Len(channel'[h]) = Len(channel[h]) + 1
          /\ \A i \in 1..Len(channel[h]) : channel'[h][i] = channel[h][i]
      BY <2>2, <3>1, PutFacts DEF IInv, TypeOK
    <3>4. \A i \in 1..Len(channel'[h]) : i \in 1..Len(channel[h]) \/ i = Len(channel'[h])
      BY <3>2, <3>3
    <3>5. QED
      BY <1>4, <3>3, <3>4
  <2>3. QED
    BY <1>1, <2>1, <2>2 DEF SendSentinel
<1>6. EventInv'
  BY <1>2, EventInvSame DEF IInv, TypeOK
<1>7. RelayInv'
  <2>1. None \notin senders
    BY <1>2 DEF IInv, TypeOK, RouterTypes
  <2>2. QED
    BY <1>2, <1>3, <1>5, <2>1 DEF IInv, RelayInv
<1>8. SendersNameLiveRelays'
  BY <1>2 DEF IInv, Safe, SendersNameLiveRelays
<1>9. SentinelComesLast'
  BY <1>2, <1>3, <1>5 DEF IInv, Safe, SentinelComesLast
<1>10. OpenLinkHasRelay'
  BY <1>2 DEF IInv, Safe, OpenLinkHasRelay, EstablishedPending
<1>11. LostLinkForgotten'
  BY <1>1, <1>2, <1>3 DEF IInv, Safe, LostLinkForgotten, Pending
<1>12. QED
  BY <1>6, <1>7, <1>8, <1>9, <1>10, <1>11 DEF Safe

\* The router keeps the invariant.
LEMMA RouterSafe ==
  ASSUME IInv, RouterNext
  PROVE  (EventInv /\ RelayInv /\ Safe)'
BY RouteLinkEstablishedSafe, RoutePeerIdentifiedSafe, RouteLinkDataSafe, RouteLinkClosedSafe,
   SendSentinelSafe DEF RouterNext


\* A relay task that goes on, without removing anything.
LEMMA TaskSafe ==
  ASSUME IInv, NEW l \in Links, Start(l) \/ StartError(l) \/ Join(l)
  PROVE  (EventInv /\ RelayInv /\ Safe)'
<1>1. UNCHANGED << link, events, closing, senders, clients, channel, open >>
  BY DEF Start, StartError, Join, linkVars, routerVars
<1>2. relay[l] \in {"start", "run"} /\ \E to \in {"run", "remove"} : relay' = [relay EXCEPT ![l] = to]
  BY DEF Start, StartError, Join
<1>3. /\ relay'[l] \in {"run", "remove"}
      /\ \A k \in Links \ {l} : relay'[k] = relay[k]
  BY <1>2 DEF IInv, TypeOK, RelayTypes
<1>4. EventInv'
  BY <1>1, <1>2, <1>3, EventInvSame DEF IInv, TypeOK
<1>5. RelayInv'
  BY <1>1, <1>2, <1>3 DEF IInv, RelayInv
<1>6. SendersNameLiveRelays'
  BY <1>1, <1>3 DEF IInv, Safe, SendersNameLiveRelays
<1>7. SentinelComesLast'
  BY <1>1 DEF IInv, Safe, SentinelComesLast
<1>8. OpenLinkHasRelay'
  BY <1>1, <1>3 DEF IInv, Safe, OpenLinkHasRelay, EstablishedPending
<1>9. LostLinkForgotten'
  BY <1>1 DEF IInv, Safe, LostLinkForgotten, Pending
<1>10. QED
  BY <1>4, <1>5, <1>6, <1>7, <1>8, <1>9 DEF Safe

\* A pump takes a chunk from the channel, or ends and the channel with it.
LEMMA PumpSafe ==
  ASSUME IInv, NEW l \in Links, ToScNext(l) \/ FromScNext(l)
  PROVE  (EventInv /\ RelayInv /\ Safe)'
<1>1. UNCHANGED << link, events, closing, senders, clients, relay >>
  BY DEF ToScNext, FromScNext, ToScBreaks, ToScSends, FromScSends, FromScBreaks,
         linkVars, routerVars, relayVars
<1>2. \/ open' = open /\ channel' = channel
      \/ /\ open' = open
         /\ channel[l] # << >>
         /\ channel' = [channel EXCEPT ![l] = Tail(@)]
      \/ /\ open' = [open EXCEPT ![l] = FALSE]
         /\ channel' = [channel EXCEPT ![l] = << >>]
  BY DEF ToScNext, FromScNext, ToScBreaks, ToScSends, FromScSends, FromScBreaks,
         EndToSc, relayVars
<1>3. \A k \in Links : channel[k] = << >> => channel'[k] = << >>
  BY <1>2 DEF IInv, TypeOK, RelayTypes
<1>4. \A k \in Links : ~ open[k] => ~ open'[k]
  BY <1>2 DEF IInv, TypeOK, RelayTypes
<1>5. EventInv'
  BY <1>1, EventInvSame DEF IInv, TypeOK
<1>6. RelayInv'
  BY <1>1, <1>3 DEF IInv, RelayInv
<1>7. SendersNameLiveRelays'
  BY <1>1, <1>4 DEF IInv, Safe, SendersNameLiveRelays
<1>8. SentinelComesLast'
  <2>1. SentinelComesLast
    BY DEF IInv, Safe
  <2>2. CASE channel' = channel
    BY <1>1, <2>1, <2>2 DEF SentinelComesLast
  <2>3. CASE channel[l] # << >> /\ channel' = [channel EXCEPT ![l] = Tail(@)]
    <3>1. /\ \A k \in Links \ {l} : channel'[k] = channel[k]
          /\ Len(channel[l]) = Len(channel'[l]) + 1
          /\ Len(channel'[l]) \in Nat
          /\ \A i \in 1..Len(channel'[l]) : channel'[l][i] = channel[l][i + 1]
      BY <2>3, TakeFacts DEF IInv, TypeOK, RelayTypes
    <3>2. ASSUME NEW i \in 1..Len(channel'[l]), channel'[l][i] = Sentinel
          PROVE  i = Len(channel'[l]) /\ l \notin senders /\ closing # l
      <4>1. i + 1 \in 1..Len(channel[l]) /\ channel[l][i + 1] = Sentinel
        BY <3>1, <3>2
      <4>2. i + 1 = Len(channel[l]) /\ l \notin senders /\ closing # l
        BY <2>1, <4>1 DEF SentinelComesLast
      <4>3. QED
        BY <3>1, <4>2
    <3>3. QED
      BY <1>1, <2>1, <3>1, <3>2 DEF SentinelComesLast
  <2>4. CASE channel' = [channel EXCEPT ![l] = << >>]
    <3>1. channel'[l] = << >> /\ \A k \in Links \ {l} : channel'[k] = channel[k]
      BY <2>4 DEF IInv, TypeOK, RelayTypes
    <3>2. QED
      BY <1>1, <2>1, <3>1 DEF SentinelComesLast
  <2>5. QED
    BY <1>2, <2>2, <2>3, <2>4
<1>9. OpenLinkHasRelay'
  BY <1>1 DEF IInv, Safe, OpenLinkHasRelay, EstablishedPending
<1>10. LostLinkForgotten'
  BY <1>1 DEF IInv, Safe, LostLinkForgotten, Pending
<1>11. QED
  BY <1>5, <1>6, <1>7, <1>8, <1>9, <1>10 DEF Safe

\* The relay removes itself from the map and closes its link.
LEMMA RemoveSafe ==
  ASSUME IInv, NEW l \in Links, Remove(l)
  PROVE  (EventInv /\ RelayInv /\ Safe)'
<1>1. /\ relay[l] = "remove"
      /\ closing = None
      /\ None # l
      /\ senders' = senders \ {l}
      /\ UNCHANGED << events, closing, clients >>
  BY ServerAssumption DEF Remove, SendersLocked
<1>2. /\ relay'[l] = "done" /\ open'[l] = FALSE /\ channel'[l] = << >>
      /\ \A k \in Links \ {l} : /\ relay'[k] = relay[k]
                                /\ open'[k] = open[k]
                                /\ channel'[k] = channel[k]
  BY DEF Remove, IInv, TypeOK, RelayTypes
<1>3. /\ link'[l] # "up"
      /\ link'[l] = "none" => link[l] = "none"
      /\ link'[l] = "lost" => link[l] = "lost"
      /\ link'[l] = link[l] \/ (link[l] = "up" /\ link'[l] = "closed")
      /\ \A k \in Links \ {l} : link'[k] = link[k]
  BY DEF Remove, IInv, TypeOK, LinkTypes
<1>4. EventInv'
  BY <1>1, <1>2, <1>3, EventInvSame DEF IInv, TypeOK
<1>5. RelayInv'
  BY <1>1, <1>2, <1>3 DEF IInv, RelayInv
<1>6. SendersNameLiveRelays'
  BY <1>1, <1>2, <1>3 DEF IInv, Safe, SendersNameLiveRelays
<1>7. SentinelComesLast'
  BY <1>1, <1>2 DEF IInv, Safe, SentinelComesLast
<1>8. OpenLinkHasRelay'
  BY <1>1, <1>2, <1>3 DEF IInv, Safe, OpenLinkHasRelay, EstablishedPending
<1>9. LostLinkForgotten'
  BY <1>1, <1>3 DEF IInv, Safe, LostLinkForgotten, Pending
<1>10. QED
  BY <1>4, <1>5, <1>6, <1>7, <1>8, <1>9 DEF Safe
-----------------------------------------------------------------------------
LEMMA Initial == Init => IInv
<1> SUFFICES ASSUME Init PROVE IInv
  OBVIOUS
<1>1. TypeOK
  BY InitTypes
<1>2. /\ link = [l \in Links |-> "none"]
      /\ events = << >>
      /\ closing = None
      /\ senders = {}
      /\ channel = [l \in Links |-> << >>]
      /\ relay = [l \in Links |-> "none"]
  BY DEF Init
<1>3. EventInv
  BY <1>2 DEF EventInv
<1>4. RelayInv
  BY <1>2, ServerAssumption DEF RelayInv
<1>5. Safe
  BY <1>2 DEF Safe, SendersNameLiveRelays, SentinelComesLast, OpenLinkHasRelay, LostLinkForgotten
<1>6. QED
  BY <1>1, <1>3, <1>4, <1>5 DEF IInv

\* Every step keeps what IInv adds to the types.
LEMMA Inductive == IInv /\ [Next]_vars => (EventInv /\ RelayInv /\ Safe)'
<1> SUFFICES ASSUME IInv, [Next]_vars PROVE (EventInv /\ RelayInv /\ Safe)'
  OBVIOUS
<1>1. CASE RouterNext
  BY <1>1, RouterSafe
<1>2. ASSUME NEW l \in Links, TaskNext(l) PROVE (EventInv /\ RelayInv /\ Safe)'
  BY <1>2, TaskSafe, RemoveSafe DEF TaskNext
<1>3. ASSUME NEW l \in Links, ToScNext(l) \/ FromScNext(l) PROVE (EventInv /\ RelayInv /\ Safe)'
  BY <1>3, PumpSafe
<1>4. ASSUME NEW l \in Links, EngineNext(l) PROVE (EventInv /\ RelayInv /\ Safe)'
  BY <1>4, EngineSafe
<1>5. CASE DsStops \/ DsStarts \/ (\E l \in Links : DsReplies(l)) \/ UNCHANGED vars
  <2>1. UNCHANGED << link, events, closing, senders, clients, channel, open, relay >>
    BY <1>5 DEF DsStops, DsStarts, DsReplies, vars, linkVars, routerVars, relayVars
  <2>2. QED
    BY <2>1, NothingChanged
<1>6. QED
  BY <1>1, <1>2, <1>3, <1>4, <1>5 DEF Next

\* The inductive invariant holds of every behaviour of the server side.
THEOREM Invariant == Spec => []IInv
<1>1. Init => IInv
  BY Initial
<1>2. TypeOK /\ (EventInv /\ RelayInv /\ Safe) /\ [Next]_vars
      => (EventInv /\ RelayInv /\ Safe)'
  BY Inductive DEF IInv
<1>3. Spec => []TypeOK
  BY TypeCorrect
<1>4. IInv => EventInv /\ RelayInv /\ Safe
  BY DEF IInv
<1>5. TypeOK /\ (EventInv /\ RelayInv /\ Safe) => IInv
  BY DEF IInv
<1>6. QED
  BY <1>1, <1>2, <1>3, <1>4, <1>5, PTL DEF Spec

\* start_server: link_senders names only relays that have not ended, and an
\* ended relay has let go of its link and its channel.
THEOREM SendersLive == Spec => []SendersNameLiveRelays
<1>1. IInv => SendersNameLiveRelays
  BY DEF IInv, Safe
<1>2. QED
  BY <1>1, Invariant, PTL

\* start_server: the empty chunk is the last one a relay's channel holds, so
\* to_sc loses nothing by ending on it.
THEOREM SentinelLast == Spec => []SentinelComesLast
<1>1. IInv => SentinelComesLast
  BY DEF IInv, Safe
<1>2. QED
  BY <1>1, Invariant, PTL

\* start_server: every link that is up has a relay once the router has seen it.
THEOREM OpenLinksServed == Spec => []OpenLinkHasRelay
<1>1. IInv => OpenLinkHasRelay
  BY DEF IInv, Safe
<1>2. QED
  BY <1>1, Invariant, PTL

\* start_server: neither map names a lost link the router is done with.
THEOREM LostLinksForgotten == Spec => []LostLinkForgotten
<1>1. IInv => LostLinkForgotten
  BY DEF IInv, Safe
<1>2. QED
  BY <1>1, Invariant, PTL
-----------------------------------------------------------------------------
\* The datagrams of a link in the order the peer sent them: those the game
\* server got, those in the relay's channel, those in the router's queue.
IsData(i, l) == events[i].type = "LinkData" /\ events[i].link = l

Older(l, x) ==
  /\ x <= peerSent[l]
  /\ \A i \in 1..Len(events) : IsData(i, l) => x < events[i].id

DataOrder ==
  \A l \in Links : \A i \in 1..Len(events) :
    IsData(i, l) =>
      /\ events[i].id <= peerSent[l]
      /\ \A j \in 1..Len(events) : i < j /\ IsData(j, l) => events[i].id < events[j].id

ChannelOrder(l) ==
  \A i \in 1..Len(channel[l]) :
    channel[l][i] # Sentinel =>
      /\ Older(l, channel[l][i])
      /\ \A j \in 1..Len(channel[l]) :
           i < j /\ channel[l][j] # Sentinel => channel[l][i] < channel[l][j]

OutOrder(l) ==
  \A i \in 1..Len(toDs[l]) :
    /\ toDs[l][i] # Sentinel
    /\ Older(l, toDs[l][i])
    /\ \A j \in 1..Len(toDs[l]) : i < j => toDs[l][i] < toDs[l][j]
    /\ \A j \in 1..Len(channel[l]) : channel[l][j] # Sentinel => toDs[l][i] < channel[l][j]

OrderInv == DataOrder /\ \A l \in Links : ChannelOrder(l) /\ OutOrder(l)

\* What holds of each link's queues, given that older datagrams stay older.
OlderKept == \A l \in Links, x \in 0..MaxData : Older(l, x) => Older(l, x)'

\* The types the order is about.
LEMMA OrderTypes ==
  ASSUME TypeOK
  PROVE  /\ events \in Seq(Event) /\ Len(events) \in Nat
         /\ peerSent \in [Links -> 0..MaxData]
         /\ channel \in [Links -> Seq(Chunks)] /\ (\A l \in Links : Len(channel[l]) \in Nat)
         /\ toDs \in [Links -> Seq(Chunks)] /\ (\A l \in Links : Len(toDs[l]) \in Nat)
         /\ \A c \in Chunks : c # Sentinel => c \in 0..MaxData
         /\ MaxData \in Nat
BY ServerAssumption DEF TypeOK, LinkTypes, RelayTypes, HistTypes, Chunks

\* A link whose channel and output stay keeps its order.
LEMMA LinkOrderSame ==
  ASSUME TypeOK, OrderInv, OlderKept, NEW l \in Links,
         channel'[l] = channel[l], toDs'[l] = toDs[l]
  PROVE  (ChannelOrder(l) /\ OutOrder(l))'
<1>1. /\ \A i \in 1..Len(channel[l]) : channel[l][i] # Sentinel => channel[l][i] \in 0..MaxData
      /\ \A i \in 1..Len(toDs[l]) : toDs[l][i] # Sentinel => toDs[l][i] \in 0..MaxData
  BY OrderTypes
<1>2. ChannelOrder(l) /\ OutOrder(l)
  BY DEF OrderInv
<1>3. ChannelOrder(l)'
  BY <1>1, <1>2 DEF ChannelOrder, OlderKept
<1>4. OutOrder(l)'
  BY <1>1, <1>2 DEF OutOrder, OlderKept
<1>5. QED
  BY <1>3, <1>4

\* An event more that is no datagram, and an event less.
LEMMA RaiseOrder ==
  ASSUME TypeOK, OrderInv, NEW type \in EventTypes \ {"LinkData"}, NEW k \in Links,
         Raise(type, k, 0), peerSent' = peerSent
  PROVE  DataOrder' /\ OlderKept
<1>1. 0 \in 0..MaxData
  BY ServerAssumption
<1>2. /\ Len(events') = Len(events) + 1
      /\ \A i \in 1..Len(events) : events'[i] = events[i]
      /\ events'[Len(events) + 1].type = type
  BY <1>1, RaiseFacts DEF TypeOK
<1>3. ASSUME NEW i \in 1..Len(events'), NEW l \in Links, IsData(i, l)'
      PROVE  i \in 1..Len(events) /\ IsData(i, l) /\ events'[i] = events[i]
  <2>1. i # Len(events) + 1
    BY <1>2, <1>3 DEF IsData
  <2>2. i \in 1..Len(events)
    BY <1>2, <2>1, OrderTypes
  <2>3. QED
    BY <1>2, <1>3, <2>2 DEF IsData
<1>4. DataOrder'
  BY <1>3 DEF DataOrder, OrderInv
<1>5. OlderKept
  BY <1>3 DEF OlderKept, Older
<1>6. QED
  BY <1>4, <1>5

\* An event is handled: the others stay in order.
LEMMA HandleOrder ==
  ASSUME TypeOK, OrderInv, NEW type \in EventTypes, Handles(type), peerSent' = peerSent
  PROVE  DataOrder' /\ OlderKept
<1>1. /\ Len(events) = Len(events') + 1
      /\ \A i \in 1..Len(events') : events'[i] = events[i + 1]
  BY HandleFacts DEF TypeOK
<1>2. Len(events') \in Nat
  BY HandleFacts DEF TypeOK
<1>3. \A i \in 1..Len(events') : /\ i + 1 \in 1..Len(events)
                                 /\ \A l \in Links : IsData(i, l)' => IsData(i + 1, l)
  BY <1>1, <1>2 DEF IsData
<1>4. ASSUME NEW l \in Links, NEW i \in 1..Len(events'), IsData(i, l)'
      PROVE  /\ events'[i].id <= peerSent'[l]
             /\ \A j \in 1..Len(events') : i < j /\ IsData(j, l)' => events'[i].id < events'[j].id
  <2>1. i + 1 \in 1..Len(events) /\ IsData(i + 1, l) /\ events'[i] = events[i + 1]
    BY <1>1, <1>3, <1>4
  <2>2. events[i + 1].id <= peerSent[l]
    BY <2>1 DEF OrderInv, DataOrder
  <2>3. ASSUME NEW j \in 1..Len(events'), i < j, IsData(j, l)'
        PROVE  events'[i].id < events'[j].id
    <3>1. j + 1 \in 1..Len(events) /\ IsData(j + 1, l) /\ events'[j] = events[j + 1] /\ i + 1 < j + 1
      BY <1>1, <1>2, <1>3, <2>3
    <3>2. QED
      BY <2>1, <3>1 DEF OrderInv, DataOrder
  <2>4. QED
    BY <2>1, <2>2, <2>3
<1>5. DataOrder'
  BY <1>4 DEF DataOrder
<1>6. OlderKept
  BY <1>1, <1>3 DEF OlderKept, Older
<1>7. QED
  BY <1>5, <1>6

\* The peer sends: the new datagram is newer than all before it.
LEMMA SendOrder ==
  ASSUME TypeOK, OrderInv, NEW k \in Links, PeerSends(k)
  PROVE  DataOrder' /\ OlderKept
<1>1. peerSent \in [Links -> 0..MaxData] /\ Len(events) \in Nat /\ MaxData \in Nat
  BY OrderTypes
<1>0. PICK x, n : x = peerSent[k] + 1 /\ n = Len(events) + 1
  OBVIOUS
<1>2. x \in 0..MaxData /\ x > peerSent[k] /\ peerSent' = [peerSent EXCEPT ![k] = x]
  BY <1>0, <1>1 DEF PeerSends
<1>3. /\ Len(events') = n
      /\ \A i \in 1..Len(events) : events'[i] = events[i]
      /\ events'[n].type = "LinkData" /\ events'[n].link = k /\ events'[n].id = x
  <2>1. Raise("LinkData", k, x) /\ "LinkData" \in EventTypes
    BY <1>0 DEF PeerSends, EventTypes
  <2>2. QED
    BY <1>0, <1>2, <2>1, RaiseFacts DEF TypeOK
<1>4. \A l \in Links : peerSent[l] <= peerSent'[l] /\ peerSent[l] \in Nat /\ peerSent'[l] \in Nat
  BY <1>1, <1>2
<1>5. peerSent'[k] = x
  BY <1>1, <1>2
<1>6. \A i \in 1..Len(events') : i \in 1..Len(events) \/ i = n
  BY <1>0, <1>1, <1>3
<1>7. \A i \in 1..Len(events) : i < n /\ \A l \in Links : IsData(i, l)' <=> IsData(i, l)
  BY <1>0, <1>1, <1>3 DEF IsData
<1>8. \A l \in Links : IsData(n, l)' => l = k
  BY <1>3 DEF IsData
<1>9. \A i \in 1..Len(events) : events[i].id \in 0..MaxData
  <2>1. events \in Seq(Event)
    BY OrderTypes
  <2>2. \A i \in 1..Len(events) : events[i] \in Event
    BY <2>1
  <2>3. QED
    BY <2>2 DEF Event
<1>10. ASSUME NEW l \in Links, NEW i \in 1..Len(events'), IsData(i, l)'
       PROVE  /\ events'[i].id <= peerSent'[l]
              /\ \A j \in 1..Len(events') : i < j /\ IsData(j, l)' => events'[i].id < events'[j].id
  <2>1. CASE i \in 1..Len(events)
    <3>1. IsData(i, l) /\ events'[i] = events[i] /\ events[i].id \in Nat
      BY <1>1, <1>3, <1>7, <1>9, <1>10, <2>1
    <3>2. events[i].id <= peerSent[l]
      BY <2>1, <3>1 DEF OrderInv, DataOrder
    <3>3. events'[i].id <= peerSent'[l]
      BY <1>4, <3>1, <3>2
    <3>4. ASSUME NEW j \in 1..Len(events'), i < j, IsData(j, l)'
          PROVE  events'[i].id < events'[j].id
      <4>1. CASE j \in 1..Len(events)
        BY <1>3, <1>7, <2>1, <3>1, <3>4, <4>1 DEF OrderInv, DataOrder
      <4>2. CASE j = n
        <5>1. l = k /\ events'[j].id = x
          BY <1>3, <1>8, <3>4, <4>2
        <5>2. QED
          BY <1>1, <1>2, <3>1, <3>2, <5>1
      <4>3. QED
        BY <1>6, <4>1, <4>2
    <3>5. QED
      BY <3>3, <3>4
  <2>2. CASE i = n
    <3>1. l = k /\ events'[i].id = x
      BY <1>3, <1>8, <1>10, <2>2
    <3>2. \A j \in 1..Len(events') : ~ (i < j)
      BY <1>0, <1>1, <1>3, <2>2
    <3>3. QED
      BY <1>2, <1>5, <3>1, <3>2
  <2>3. QED
    BY <1>6, <2>1, <2>2
<1>11. ASSUME NEW l \in Links, NEW y \in 0..MaxData, Older(l, y)
       PROVE  Older(l, y)'
  <2>1. y <= peerSent[l] /\ y <= peerSent'[l]
    BY <1>1, <1>4, <1>11 DEF Older
  <2>2. ASSUME NEW i \in 1..Len(events'), IsData(i, l)'
        PROVE  y < events'[i].id
    <3>1. CASE i \in 1..Len(events)
      BY <1>3, <1>7, <1>11, <2>2, <3>1 DEF Older
    <3>2. CASE i = n
      <4>1. l = k /\ events'[i].id = x
        BY <1>3, <1>8, <2>2, <3>2
      <4>2. QED
        BY <1>1, <1>2, <2>1, <4>1
    <3>3. QED
      BY <1>6, <3>1, <3>2
  <2>3. QED
    BY <2>1, <2>2 DEF Older
<1>12. QED
  BY <1>10, <1>11 DEF DataOrder, OlderKept

\* What becomes of the order when a channel is dropped, takes a chunk in, or
\* gives one to the game server.
LEMMA DropOrder ==
  ASSUME TypeOK, OrderInv, OlderKept, NEW l \in Links, channel'[l] = << >>, toDs'[l] = toDs[l]
  PROVE  (ChannelOrder(l) /\ OutOrder(l))'
<1>1. \A i \in 1..Len(toDs[l]) : toDs[l][i] # Sentinel => toDs[l][i] \in 0..MaxData
  BY OrderTypes
<1>2. OutOrder(l) /\ \A i \in 1..Len(channel'[l]) : FALSE
  BY DEF OrderInv
<1>3. QED
  BY <1>1, <1>2 DEF OutOrder, ChannelOrder, OlderKept

\* A chunk newer than all before it goes into a channel.
LEMMA PutOrder ==
  ASSUME TypeOK, OrderInv, OlderKept, NEW l \in Links, NEW c \in Chunks,
         Len(channel[l]) < ChannelCap, channel' = [channel EXCEPT ![l] = Append(@, c)],
         toDs' = toDs,
         c # Sentinel =>
           /\ Older(l, c)'
           /\ \A i \in 1..Len(channel[l]) : channel[l][i] # Sentinel => channel[l][i] < c
           /\ \A i \in 1..Len(toDs[l]) : toDs[l][i] < c
  PROVE  \A k \in Links : (ChannelOrder(k) /\ OutOrder(k))'
<1>1. /\ \A k \in Links \ {l} : channel'[k] = channel[k]
      /\ Len(channel'[l]) = Len(channel[l]) + 1
      /\ \A i \in 1..Len(channel[l]) : channel'[l][i] = channel[l][i]
      /\ channel'[l][Len(channel[l]) + 1] = c
  BY PutFacts DEF TypeOK
<1>2. /\ Len(channel[l]) \in Nat
      /\ \A i \in 1..Len(channel[l]) : channel[l][i] # Sentinel => channel[l][i] \in 0..MaxData
      /\ \A i \in 1..Len(toDs[l]) : toDs[l][i] # Sentinel => toDs[l][i] \in 0..MaxData
  BY OrderTypes
<1>3. PICK n : n = Len(channel[l]) + 1
  OBVIOUS
<1>4. /\ \A i \in 1..Len(channel'[l]) : i \in 1..Len(channel[l]) \/ i = n
      /\ \A i \in 1..Len(channel[l]) : i < n
      /\ \A i \in 1..Len(channel'[l]) : ~ (n < i)
      /\ channel'[l][n] = c
  BY <1>1, <1>2, <1>3
<1>5. ChannelOrder(l) /\ OutOrder(l)
  BY DEF OrderInv
<1>6. ASSUME NEW i \in 1..Len(channel'[l]), channel'[l][i] # Sentinel
      PROVE  /\ Older(l, channel[l][i])'
             /\ \A j \in 1..Len(channel'[l]) :
                  i < j /\ channel'[l][j] # Sentinel => channel'[l][i] < channel'[l][j]
  <2>1. CASE i \in 1..Len(channel[l])
    <3>1. PICK x : x = channel[l][i]
      OBVIOUS
    <3>2. channel'[l][i] = x /\ x # Sentinel /\ x \in 0..MaxData
      BY <1>1, <1>2, <1>6, <2>1, <3>1
    <3>3. Older(l, x)'
      BY <1>5, <2>1, <3>1, <3>2 DEF ChannelOrder, OlderKept
    <3>4. ASSUME NEW j \in 1..Len(channel'[l]), i < j, channel'[l][j] # Sentinel
          PROVE  x < channel'[l][j]
      <4>1. CASE j \in 1..Len(channel[l])
        BY <1>1, <1>5, <2>1, <3>1, <3>2, <3>4, <4>1 DEF ChannelOrder
      <4>2. CASE j = n
        BY <1>4, <2>1, <3>1, <3>2, <3>4, <4>2
      <4>3. QED
        BY <1>4, <4>1, <4>2
    <3>5. Older(l, channel[l][i])'
      BY <3>2, <3>3 DEF Older
    <3>6. QED
      BY <3>2, <3>4, <3>5
  <2>2. CASE i = n
    <3>1. channel'[l][i] = c /\ c # Sentinel
      BY <1>4, <1>6, <2>2
    <3>2. Older(l, channel[l][i])'
      BY <3>1 DEF Older
    <3>3. QED
      BY <1>4, <2>2, <3>2
  <2>3. QED
    BY <1>4, <2>1, <2>2
<1>7. ChannelOrder(l)'
  BY <1>6 DEF ChannelOrder
<1>8. OutOrder(l)'
  <2> SUFFICES ASSUME NEW i \in 1..Len(toDs[l])
               PROVE  /\ toDs[l][i] # Sentinel
                      /\ Older(l, toDs[l][i])'
                      /\ \A j \in 1..Len(toDs[l]) : i < j => toDs[l][i] < toDs[l][j]
                      /\ \A j \in 1..Len(channel'[l]) :
                           channel'[l][j] # Sentinel => toDs[l][i] < channel'[l][j]
    BY DEF OutOrder, Older
  <2>1. PICK x : x = toDs[l][i]
    OBVIOUS
  <2>2. /\ x # Sentinel /\ Older(l, x) /\ x \in 0..MaxData
        /\ \A j \in 1..Len(toDs[l]) : i < j => x < toDs[l][j]
        /\ \A j \in 1..Len(channel[l]) : channel[l][j] # Sentinel => x < channel[l][j]
    BY <1>2, <1>5, <2>1 DEF OutOrder
  <2>3. Older(l, x)'
    BY <2>2 DEF OlderKept
  <2>4. Older(l, toDs[l][i])'
    BY <2>1, <2>3 DEF Older
  <2>5. ASSUME NEW j \in 1..Len(channel'[l]), channel'[l][j] # Sentinel
        PROVE  x < channel'[l][j]
    <3>1. CASE j \in 1..Len(channel[l])
      BY <1>1, <2>2, <2>5, <3>1
    <3>2. CASE j = n
      BY <1>4, <2>1, <2>5, <3>2
    <3>3. QED
      BY <1>4, <3>1, <3>2
  <2>6. QED
    BY <2>1, <2>2, <2>4, <2>5
<1>9. ASSUME NEW k \in Links \ {l}
      PROVE  (ChannelOrder(k) /\ OutOrder(k))'
  <2>1. channel'[k] = channel[k] /\ toDs'[k] = toDs[k]
    BY <1>1
  <2>2. QED
    BY <2>1, LinkOrderSame
<1>10. QED
  BY <1>7, <1>8, <1>9

\* A chunk goes from a channel to the game server.
LEMMA TakeOrder ==
  ASSUME TypeOK, OrderInv, NEW l \in Links, ToScSends(l)
  PROVE  OrderInv'
<1>1. /\ channel[l] # << >> /\ Head(channel[l]) # Sentinel
      /\ channel' = [channel EXCEPT ![l] = Tail(@)]
      /\ events' = events /\ peerSent' = peerSent
      /\ toDs' = [toDs EXCEPT ![l] = Append(@, Head(channel[l]))] \/ toDs' = toDs
  BY DEF ToScSends, linkVars
<1>2. PICK h : h = Head(channel[l])
  OBVIOUS
<1>3. /\ \A k \in Links \ {l} : channel'[k] = channel[k]
      /\ Len(channel[l]) = Len(channel'[l]) + 1
      /\ \A i \in 1..Len(channel'[l]) : channel'[l][i] = channel[l][i + 1]
      /\ h \in Chunks
  BY <1>1, <1>2, TakeFacts DEF TypeOK
<1>4. /\ Len(channel[l]) \in Nat /\ Len(channel'[l]) \in Nat
      /\ h = channel[l][1] /\ 1 \in 1..Len(channel[l])
      /\ toDs \in [Links -> Seq(Chunks)] /\ Len(toDs[l]) \in Nat
  <2>1. channel[l] \in Seq(Chunks) /\ toDs \in [Links -> Seq(Chunks)] /\ Len(toDs[l]) \in Nat
    BY OrderTypes
  <2>2. QED
    BY <1>1, <1>2, <1>3, <2>1
<1>5. \A i \in 1..Len(channel'[l]) : i + 1 \in 1..Len(channel[l]) /\ 1 < i + 1
  BY <1>3, <1>4
<1>6. DataOrder' /\ OlderKept
  BY <1>1 DEF DataOrder, OrderInv, OlderKept, Older, IsData
<1>7. ChannelOrder(l) /\ OutOrder(l)
  BY DEF OrderInv
<1>8. /\ h # Sentinel /\ Older(l, h) /\ h \in 0..MaxData
      /\ \A j \in 1..Len(channel'[l]) : channel'[l][j] # Sentinel => h < channel'[l][j]
      /\ \A i \in 1..Len(toDs[l]) : toDs[l][i] < h
  BY <1>1, <1>2, <1>3, <1>4, <1>5, <1>7, OrderTypes DEF ChannelOrder, OutOrder
<1>9. \A x : Older(l, x) => Older(l, x)'
  BY <1>1 DEF Older, IsData
<1>10. ChannelOrder(l)'
  <2> SUFFICES ASSUME NEW i \in 1..Len(channel'[l]), channel'[l][i] # Sentinel
               PROVE  /\ Older(l, channel[l][i])'
                      /\ \A j \in 1..Len(channel'[l]) :
                           i < j /\ channel'[l][j] # Sentinel => channel'[l][i] < channel'[l][j]
    BY DEF ChannelOrder
  <2>1. PICK x : x = channel[l][i + 1]
    OBVIOUS
  <2>2. channel'[l][i] = x /\ x # Sentinel /\ i + 1 \in 1..Len(channel[l])
    BY <1>3, <1>5, <2>1
  <2>3. /\ Older(l, x)
        /\ \A j \in 1..Len(channel[l]) : i + 1 < j /\ channel[l][j] # Sentinel => x < channel[l][j]
    BY <1>7, <2>1, <2>2 DEF ChannelOrder
  <2>4. Older(l, channel[l][i])'
    BY <1>1, <2>2, <2>3 DEF Older, IsData
  <2>5. ASSUME NEW j \in 1..Len(channel'[l]), i < j, channel'[l][j] # Sentinel
        PROVE  x < channel'[l][j]
    <3>1. channel'[l][j] = channel[l][j + 1] /\ j + 1 \in 1..Len(channel[l]) /\ i + 1 < j + 1
      BY <1>3, <1>4, <1>5, <2>5
    <3>2. QED
      BY <2>3, <2>5, <3>1
  <2>6. QED
    BY <2>2, <2>4, <2>5
<1>11. \A i \in 1..Len(toDs[l]) :
         /\ toDs[l][i] # Sentinel /\ Older(l, toDs[l][i])
         /\ \A j \in 1..Len(toDs[l]) : i < j => toDs[l][i] < toDs[l][j]
         /\ \A j \in 1..Len(channel'[l]) : channel'[l][j] # Sentinel => toDs[l][i] < channel'[l][j]
  BY <1>3, <1>5, <1>7 DEF OutOrder
<1>12. CASE toDs' = toDs
  <2>1. OutOrder(l)'
    BY <1>1, <1>11, <1>12 DEF OutOrder, Older, IsData
  <2>2. ASSUME NEW k \in Links \ {l}
        PROVE  (ChannelOrder(k) /\ OutOrder(k))'
    BY <1>3, <1>6, <1>12, LinkOrderSame
  <2>3. QED
    BY <1>6, <1>10, <2>1, <2>2 DEF OrderInv
<1>13. CASE toDs' = [toDs EXCEPT ![l] = Append(@, Head(channel[l]))]
  <2>1. PICK n : n = Len(toDs[l]) + 1
    OBVIOUS
  <2>2. /\ \A k \in Links \ {l} : toDs'[k] = toDs[k]
        /\ toDs'[l] = Append(toDs[l], h)
    BY <1>2, <1>4, <1>13
  <2>3. /\ Len(toDs'[l]) = n /\ toDs'[l][n] = h
        /\ \A i \in 1..Len(toDs[l]) : toDs'[l][i] = toDs[l][i]
    <3>1. toDs[l] \in Seq(Chunks)
      BY <1>4
    <3>2. QED
      BY <1>3, <2>1, <2>2, <3>1
  <2>4. /\ \A i \in 1..Len(toDs'[l]) : i \in 1..Len(toDs[l]) \/ i = n
        /\ \A i \in 1..Len(toDs'[l]) : ~ (n < i)
    BY <1>4, <2>1, <2>3
  <2>5. ASSUME NEW i \in 1..Len(toDs'[l])
        PROVE  /\ toDs'[l][i] # Sentinel
               /\ Older(l, toDs[l][i])'
               /\ \A j \in 1..Len(toDs'[l]) : i < j => toDs'[l][i] < toDs'[l][j]
               /\ \A j \in 1..Len(channel'[l]) : channel'[l][j] # Sentinel => toDs'[l][i] < channel'[l][j]
    <3>1. CASE i \in 1..Len(toDs[l])
      <4>1. PICK x : x = toDs[l][i]
        OBVIOUS
      <4>2. /\ toDs'[l][i] = x /\ x # Sentinel /\ Older(l, x) /\ x < h
            /\ \A j \in 1..Len(toDs[l]) : i < j => x < toDs[l][j]
            /\ \A j \in 1..Len(channel'[l]) : channel'[l][j] # Sentinel => x < channel'[l][j]
        BY <1>8, <1>11, <2>3, <3>1, <4>1
      <4>3. Older(l, toDs[l][i])'
        BY <1>1, <4>2 DEF Older, IsData
      <4>4. \A j \in 1..Len(toDs'[l]) : i < j => x < toDs'[l][j]
        BY <2>3, <2>4, <4>2
      <4>5. QED
        BY <4>2, <4>3, <4>4
    <3>2. CASE i = n
      <4>1. toDs'[l][i] = h
        BY <2>3, <3>2
      <4>2. Older(l, toDs[l][i])'
        BY <1>1, <1>8, <4>1 DEF Older, IsData
      <4>3. QED
        BY <1>8, <2>4, <3>2, <4>1, <4>2
    <3>3. QED
      BY <2>4, <3>1, <3>2
  <2>6. OutOrder(l)'
    BY <2>5 DEF OutOrder
  <2>7. ASSUME NEW k \in Links \ {l}
        PROVE  (ChannelOrder(k) /\ OutOrder(k))'
    BY <1>3, <1>6, <2>2, LinkOrderSame
  <2>8. QED
    BY <1>6, <1>10, <2>6, <2>7 DEF OrderInv
<1>14. QED
  BY <1>1, <1>12, <1>13

\* LinkData is handled: its chunk is newer than what its channel holds.
LEMMA RouteDataOrder ==
  ASSUME TypeOK, OrderInv, RouteLinkData
  PROVE  OrderInv'
<1>1. Handles("LinkData") /\ peerSent' = peerSent /\ toDs' = toDs
  BY DEF RouteLinkData, histVars
<1>2. DataOrder' /\ OlderKept
  BY <1>1, HandleOrder DEF EventTypes
<1>3. PICK l, c : l = Head(events).link /\ c = Head(events).id
  OBVIOUS
<1>4. /\ events[1].link = l /\ events[1].id = c /\ events[1].type = "LinkData"
      /\ l \in Links /\ c \in 0..MaxData
      /\ Len(events) = Len(events') + 1
      /\ \A i \in 1..Len(events') : events'[i] = events[i + 1]
      /\ Len(events') \in Nat
  BY <1>1, <1>3, HandleFacts DEF TypeOK, EventTypes
<1>5. 1 \in 1..Len(events) /\ IsData(1, l) /\ \A i \in 1..Len(events') : i + 1 \in 1..Len(events) /\ 1 < i + 1
  BY <1>4 DEF IsData
<1>6. Older(l, c)'
  <2>1. c <= peerSent'[l]
    BY <1>1, <1>4, <1>5 DEF OrderInv, DataOrder
  <2>2. ASSUME NEW i \in 1..Len(events'), IsData(i, l)'
        PROVE  c < events'[i].id
    <3>1. IsData(i + 1, l) /\ events'[i] = events[i + 1]
      BY <1>4, <2>2 DEF IsData
    <3>2. QED
      BY <1>4, <1>5, <3>1 DEF OrderInv, DataOrder
  <2>3. QED
    BY <2>1, <2>2 DEF Older
<1>7. /\ \A i \in 1..Len(channel[l]) : channel[l][i] # Sentinel => channel[l][i] < c
      /\ \A i \in 1..Len(toDs[l]) : toDs[l][i] < c
  BY <1>4, <1>5 DEF OrderInv, ChannelOrder, OutOrder, Older
<1>8. CASE channel' = channel
  BY <1>1, <1>2, <1>8, LinkOrderSame DEF OrderInv
<1>9. CASE Len(channel[l]) < ChannelCap /\ channel' = [channel EXCEPT ![l] = Append(@, c)]
  <2>1. c \in Chunks
    BY <1>4 DEF Chunks
  <2>2. \A k \in Links : (ChannelOrder(k) /\ OutOrder(k))'
    BY <1>1, <1>2, <1>4, <1>6, <1>7, <1>9, <2>1, PutOrder
  <2>3. QED
    BY <1>2, <2>2 DEF OrderInv
<1>10. QED
  BY <1>3, <1>8, <1>9 DEF RouteLinkData

\* Every step keeps the order.
LEMMA OrderKept ==
  ASSUME TypeOK, OrderInv, [Next]_vars
  PROVE  OrderInv'
<1>1. ASSUME DataOrder', OlderKept, UNCHANGED << channel, toDs >>
      PROVE  OrderInv'
  BY <1>1, LinkOrderSame DEF OrderInv
<1>2. ASSUME UNCHANGED << events, peerSent >>
      PROVE  DataOrder' /\ OlderKept
  BY <1>2 DEF DataOrder, OrderInv, OlderKept, Older, IsData
<1>3. ASSUME NEW l \in Links, UNCHANGED << events, peerSent, toDs >>,
             channel' = [channel EXCEPT ![l] = << >>]
      PROVE  OrderInv'
  <2>1. channel'[l] = << >> /\ \A k \in Links \ {l} : channel'[k] = channel[k]
    BY <1>3, OrderTypes
  <2>2. \A k \in Links : (ChannelOrder(k) /\ OutOrder(k))'
    <3> SUFFICES ASSUME NEW k \in Links
                 PROVE  (ChannelOrder(k) /\ OutOrder(k))'
      OBVIOUS
    <3>1. CASE k = l
      BY <1>2, <1>3, <2>1, <3>1, DropOrder
    <3>2. CASE k # l
      BY <1>2, <1>3, <2>1, <3>2, LinkOrderSame
    <3>3. QED
      BY <3>1, <3>2
  <2>3. QED
    BY <1>2, <1>3, <2>2 DEF OrderInv
<1>a. CASE RouterNext
  <2>1. ASSUME NEW type \in EventTypes, Handles(type), UNCHANGED << peerSent, channel, toDs >>
        PROVE  OrderInv'
    BY <1>1, <2>1, HandleOrder
  <2>2. CASE RouteLinkEstablished
    BY <2>1, <2>2 DEF RouteLinkEstablished, EventTypes, histVars
  <2>3. CASE RoutePeerIdentified
    BY <2>1, <2>3 DEF RoutePeerIdentified, EventTypes, relayVars, histVars
  <2>4. CASE RouteLinkClosed
    BY <2>1, <2>4 DEF RouteLinkClosed, EventTypes, relayVars, histVars
  <2>5. CASE RouteLinkData
    BY <2>5, RouteDataOrder
  <2>6. CASE SendSentinel
    <3>1. UNCHANGED << events, peerSent, toDs >> /\ closing \in Links
      BY <2>6 DEF SendSentinel, linkVars, histVars, TypeOK, RouterTypes
    <3>2. CASE channel' = channel
      BY <1>1, <1>2, <3>1, <3>2
    <3>3. CASE Len(channel[closing]) < ChannelCap
               /\ channel' = [channel EXCEPT ![closing] = Append(@, Sentinel)]
      <4>1. PICK l \in Links : l = closing
        BY <3>1
      <4>2. Sentinel \in Chunks
        BY DEF Chunks
      <4>3. \A k \in Links : (ChannelOrder(k) /\ OutOrder(k))'
        BY <1>2, <3>1, <3>3, <4>1, <4>2, PutOrder
      <4>4. QED
        BY <1>2, <3>1, <4>3 DEF OrderInv
    <3>4. QED
      BY <2>6, <3>2, <3>3 DEF SendSentinel
  <2>7. QED
    BY <1>a, <2>2, <2>3, <2>4, <2>5, <2>6 DEF RouterNext
<1>b. ASSUME NEW l \in Links, TaskNext(l)
      PROVE  OrderInv'
  <2>1. CASE Start(l) \/ StartError(l) \/ Join(l)
    BY <1>1, <1>2, <2>1 DEF Start, StartError, Join, linkVars, histVars
  <2>2. CASE Remove(l)
    BY <1>3, <2>2 DEF Remove, histVars
  <2>3. QED
    BY <1>b, <2>1, <2>2 DEF TaskNext
<1>c. ASSUME NEW l \in Links, ToScNext(l)
      PROVE  OrderInv'
  <2>1. CASE ToScBreaks(l)
    BY <1>3, <2>1 DEF ToScBreaks, EndToSc, linkVars, histVars
  <2>2. QED
    BY <1>c, <2>1, TakeOrder DEF ToScNext
<1>d. ASSUME NEW l \in Links, FromScNext(l)
      PROVE  OrderInv'
  BY <1>1, <1>2, <1>d DEF FromScNext, FromScSends, FromScBreaks, linkVars, relayVars, histVars
<1>e. ASSUME NEW l \in Links, EngineNext(l)
      PROVE  OrderInv'
  <2>1. ASSUME NEW type \in EventTypes \ {"LinkData"}, Raise(type, l, 0),
               UNCHANGED << peerSent, channel, toDs >>
        PROVE  OrderInv'
    BY <1>1, <2>1, RaiseOrder
  <2>2. CASE LinkEstablishes(l)
    BY <2>1, <2>2 DEF LinkEstablishes, EventTypes, relayVars, histVars
  <2>3. CASE HandshakeFails(l)
    BY <2>1, <2>3 DEF HandshakeFails, EventTypes, relayVars, histVars
  <2>4. CASE PeerIdentifies(l)
    BY <2>1, <2>4 DEF PeerIdentifies, EventTypes, relayVars, histVars
  <2>5. CASE PeerSends(l)
    BY <1>1, <2>5, SendOrder DEF PeerSends, relayVars, histVars
  <2>6. CASE LinkDies(l)
    BY <2>1, <2>6 DEF LinkDies, EventTypes, relayVars, histVars
  <2>7. QED
    BY <1>e, <2>2, <2>3, <2>4, <2>5, <2>6 DEF EngineNext
<1>f. CASE DsStops \/ DsStarts \/ (\E l \in Links : DsReplies(l)) \/ UNCHANGED vars
  <2>1. UNCHANGED << events, peerSent, channel, toDs >>
    BY <1>f DEF DsStops, DsStarts, DsReplies, vars, linkVars, relayVars, histVars
  <2>2. QED
    BY <1>1, <1>2, <2>1
<1>g. QED
  BY <1>a, <1>b, <1>c, <1>d, <1>e, <1>f DEF Next

\* start_server: the game server gets a link's datagrams in the order the peer
\* sent them and none twice, whatever the channel drops and however often the
\* server restarts.
THEOREM InOrder == Spec => []GameServerGetsInOrder
<1>1. Init => OrderInv
  <2> SUFFICES ASSUME Init
               PROVE  OrderInv
    OBVIOUS
  <2>1. events = << >> /\ channel = [l \in Links |-> << >>] /\ toDs = [l \in Links |-> << >>]
    BY DEF Init
  <2>2. QED
    BY <2>1 DEF OrderInv, DataOrder, ChannelOrder, OutOrder
<1>2. TypeOK /\ OrderInv /\ [Next]_vars => OrderInv'
  BY OrderKept
<1>3. OrderInv => GameServerGetsInOrder
  BY DEF OrderInv, OutOrder, GameServerGetsInOrder
<1>4. QED
  BY <1>1, <1>2, <1>3, TypeCorrect, PTL DEF Spec
=============================================================================
