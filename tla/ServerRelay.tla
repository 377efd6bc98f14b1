---------------------------- MODULE ServerRelay ----------------------------
(***************************************************************************)
(* The server side of the bridge (src/src/relay.rs, start_server).  The    *)
(* router turns an accepted link into a relay: an entry in link_senders    *)
(* (link -> sender of the relay's channel) and a task that opens a UDP     *)
(* socket to the Sven Co-op server and runs two pumps, to_sc (link to UDP) *)
(* and from_sc (UDP to link), until both have ended.                       *)
(*                                                                         *)
(* All are tokio tasks of one thread: a step below runs from one await to  *)
(* the next.  The handler of LinkClosed,                                   *)
(*     if let Some(tx) = router_senders.write().await.remove(&link_id) {   *)
(*         let _ = tx.send(Vec::new()).await; }                            *)
(* keeps the write lock on link_senders while it waits for room in the     *)
(* channel; "closing" is the link it is doing that for.                    *)
(*                                                                         *)
(* A datagram stands for its chunks: LinkPipe models framing.              *)
(***************************************************************************)
EXTENDS Naturals, Sequences

CONSTANTS
  Links,        \* the links peers may establish
  None,         \* no link
  Sentinel,     \* the empty chunk that tells to_sc to end
  ChannelCap,   \* capacity of the mpsc channels (256)
  StartFails,   \* TRUE: binding or connecting a relay's socket may fail
  Talkers,      \* bound: the links that carry more than one datagram
  MaxData,      \* bound: datagrams the peer sends on one of these
  MaxReplies,   \* bound: datagrams the game server sends to one of their relays
  MaxStops      \* bound: times the game server stops

ASSUME ServerAssumption ==
  /\ None \notin Links
  /\ Sentinel \notin Nat
  /\ ChannelCap \in Nat \ {0}
  /\ StartFails \in BOOLEAN
  /\ Talkers \subseteq Links
  /\ MaxData \in Nat
  /\ MaxReplies \in Nat
  /\ MaxStops \in Nat

VARIABLES
  link,        \* the engine's state of each link
  events,      \* BridgeEvents the router has not handled
  closing,     \* the link whose sentinel the router waits to send, or None
  senders,     \* the keys of link_senders
  clients,     \* the keys of connected_clients
  channel,     \* the channel of each relay
  open,        \* whether the receiver of that channel exists
  relay,       \* where each relay task is
  to_sc,       \* the pump from the link to the game server
  from_sc,     \* the pump from the game server to the link
  sockIn,      \* datagrams waiting in each relay's socket
  sockErr,     \* an ICMP error is pending on the relay's socket
  dsUp,        \* the game server is listening on its port
  dsStops,     \* the number of times it has stopped
  dsPeers,     \* the relays the game server has heard from since it started
  peerSent,    \* the number of datagrams the peer has sent on each link
  dsSent,      \* the number of datagrams the game server has sent to each relay
  toDs,        \* history: what the game server got from each relay
  toPeer       \* history: the number of datagrams each link carried back

linkVars   == << link, events, peerSent >>
routerVars == << closing, senders, clients >>
relayVars  == << channel, open, relay, to_sc, from_sc >>
sockVars   == << sockIn, sockErr >>
dsVars     == << dsUp, dsStops, dsPeers, dsSent >>
histVars   == << toDs, toPeer >>
vars == << linkVars, routerVars, relayVars, sockVars, dsVars, histVars >>

\* "lost": closed by the peer or a timeout, which raises LinkClosed;
\* "closed": closed by close_link on this side, which raises no event.
LinkStates  == {"none", "up", "lost", "closed"}
RelayStates == {"none", "start", "run", "remove", "done"}
PumpStates  == {"none", "running", "ended"}
EventTypes  == {"LinkEstablished", "PeerIdentified", "LinkData", "LinkClosed"}

Init ==
  /\ link = [l \in Links |-> "none"]
  /\ events = << >>
  /\ closing = None
  /\ senders = {}
  /\ clients = {}
  /\ channel = [l \in Links |-> << >>]
  /\ open = [l \in Links |-> FALSE]
  /\ relay = [l \in Links |-> "none"]
  /\ to_sc = [l \in Links |-> "none"]
  /\ from_sc = [l \in Links |-> "none"]
  /\ sockIn = [l \in Links |-> 0]
  /\ sockErr = [l \in Links |-> FALSE]
  /\ dsUp \in BOOLEAN
  /\ dsStops = 0
  /\ dsPeers = {}
  /\ peerSent = [l \in Links |-> 0]
  /\ dsSent = [l \in Links |-> 0]
  /\ toDs = [l \in Links |-> << >>]
  /\ toPeer = [l \in Links |-> 0]

\* The sentinel is awaited under the write lock on link_senders.
SendersLocked == closing # None

Raise(type, l, id) == events' = Append(events, [type |-> type, link |-> l, id |-> id])
-----------------------------------------------------------------------------
\* The engine (external): the peer's link becomes active ...
LinkEstablishes(l) ==
  /\ link[l] = "none"
  /\ link' = [link EXCEPT ![l] = "up"]
  /\ Raise("LinkEstablished", l, 0)
  /\ UNCHANGED << peerSent, routerVars, relayVars, sockVars, dsVars, histVars >>

\* ... or is given up during the handshake, with a LinkClosed all the same.
HandshakeFails(l) ==
  /\ link[l] = "none"
  /\ link' = [link EXCEPT ![l] = "lost"]
  /\ Raise("LinkClosed", l, 0)
  /\ UNCHANGED << peerSent, routerVars, relayVars, sockVars, dsVars, histVars >>

\* The peer identifies itself (the bridge client does so once per link).
PeerIdentifies(l) ==
  /\ link[l] = "up"
  /\ l \notin clients
  /\ \A i \in 1..Len(events) : ~ (events[i].type = "PeerIdentified" /\ events[i].link = l)
  /\ Raise("PeerIdentified", l, 0)
  /\ UNCHANGED << link, peerSent, routerVars, relayVars, sockVars, dsVars, histVars >>

PeerSends(l) ==
  /\ link[l] = "up"
  /\ peerSent[l] < MaxData
  /\ l \in Talkers \/ peerSent[l] = 0
  /\ peerSent' = [peerSent EXCEPT ![l] = @ + 1]
  /\ Raise("LinkData", l, peerSent[l] + 1)
  /\ UNCHANGED << link, routerVars, relayVars, sockVars, dsVars, histVars >>

\* The peer closes the link, or it times out.
LinkDies(l) ==
  /\ link[l] = "up"
  /\ link' = [link EXCEPT ![l] = "lost"]
  /\ Raise("LinkClosed", l, 0)
  /\ UNCHANGED << peerSent, routerVars, relayVars, sockVars, dsVars, histVars >>
-----------------------------------------------------------------------------
\* The router handles the oldest event, unless it still waits on a sentinel.
Handles(type) ==
  /\ ~ SendersLocked
  /\ events # << >>
  /\ Head(events).type = type
  /\ events' = Tail(events)

RouteLinkEstablished ==
  /\ Handles("LinkEstablished")
  /\ LET l == Head(events).link
     IN  IF l \in senders
         THEN UNCHANGED << senders, open, relay >>
         ELSE /\ senders' = senders \cup {l}
              /\ open' = [open EXCEPT ![l] = TRUE]
              /\ relay' = [relay EXCEPT ![l] = "start"]
  /\ UNCHANGED << link, peerSent, closing, clients, channel, to_sc, from_sc,
                  sockVars, dsVars, histVars >>

RoutePeerIdentified ==
  /\ Handles("PeerIdentified")
  /\ clients' = clients \cup {Head(events).link}
  /\ UNCHANGED << link, peerSent, closing, senders, relayVars, sockVars, dsVars, histVars >>

\* Mutant: the channel has no bound.
RouteLinkDataUnbounded ==
  /\ Handles("LinkData")
  /\ LET l == Head(events).link
     IN  channel' = IF l \in senders /\ open[l]
                    THEN [channel EXCEPT ![l] = Append(@, Head(events).id)]
                    ELSE channel
  /\ UNCHANGED << link, peerSent, routerVars, open, relay, to_sc, from_sc,
                  sockVars, dsVars, histVars >>

\* try_send: an unknown link, a full channel, a receiver that is gone lose it.
RouteLinkData ==
  /\ Handles("LinkData")
  /\ LET l == Head(events).link
     IN  channel' = IF l \in senders /\ open[l] /\ Len(channel[l]) < ChannelCap
                    THEN [channel EXCEPT ![l] = Append(@, Head(events).id)]
                    ELSE channel
  /\ UNCHANGED << link, peerSent, routerVars, open, relay, to_sc, from_sc,
                  sockVars, dsVars, histVars >>

\* Mutants: the sender is looked up, not removed; a link without a sender is
\* not looked at any further; the link's relay is not told.
RouteLinkClosedKeeps ==
  /\ Handles("LinkClosed")
  /\ LET l == Head(events).link
     IN  IF l \in senders
         THEN closing' = l /\ UNCHANGED clients
         ELSE clients' = clients \ {l} /\ UNCHANGED closing
  /\ UNCHANGED << link, peerSent, senders, relayVars, sockVars, dsVars, histVars >>

RouteLinkClosedUnknown ==
  /\ Handles("LinkClosed")
  /\ LET l == Head(events).link
     IN  IF l \in senders
         THEN senders' = senders \ {l} /\ closing' = l
         ELSE UNCHANGED << senders, closing >>
  /\ UNCHANGED << link, peerSent, clients, relayVars, sockVars, dsVars, histVars >>

RouteLinkClosedUntold ==
  /\ Handles("LinkClosed")
  /\ clients' = clients \ {Head(events).link}
  /\ UNCHANGED << link, peerSent, senders, closing, relayVars, sockVars, dsVars, histVars >>

\* The link's sender is removed; the router goes on to send the sentinel.
RouteLinkClosed ==
  /\ Handles("LinkClosed")
  /\ LET l == Head(events).link
     IN  IF l \in senders
         THEN /\ senders' = senders \ {l}
              /\ closing' = l
              /\ UNCHANGED clients
         ELSE /\ clients' = clients \ {l}
              /\ UNCHANGED << senders, closing >>
  /\ UNCHANGED << link, peerSent, relayVars, sockVars, dsVars, histVars >>

\* Mutant: the router waits for the relay's end under the lock.
SendSentinelAwaitsRelay ==
  /\ closing # None
  /\ \/ /\ open[closing]
        /\ channel[closing] = << >>
        /\ channel' = [channel EXCEPT ![closing] = << Sentinel >>]
        /\ UNCHANGED << closing, clients >>
     \/ /\ relay[closing] = "done"
        /\ clients' = clients \ {closing}
        /\ closing' = None
        /\ UNCHANGED channel
  /\ UNCHANGED << linkVars, senders, open, relay, to_sc, from_sc,
                  sockVars, dsVars, histVars >>

\* tx.send(Vec::new()) gets room, or fails because the receiver is gone.
SendSentinel ==
  /\ closing # None
  /\ \/ /\ open[closing]
        /\ Len(channel[closing]) < ChannelCap
        /\ channel' = [channel EXCEPT ![closing] = Append(@, Sentinel)]
     \/ /\ ~ open[closing]
        /\ UNCHANGED channel
  /\ clients' = clients \ {closing}
  /\ closing' = None
  /\ UNCHANGED << linkVars, senders, open, relay, to_sc, from_sc,
                  sockVars, dsVars, histVars >>
-----------------------------------------------------------------------------
\* The relay task binds and connects its socket and spawns the pumps.
Start(l) ==
  /\ relay[l] = "start"
  /\ relay' = [relay EXCEPT ![l] = "run"]
  /\ to_sc' = [to_sc EXCEPT ![l] = "running"]
  /\ from_sc' = [from_sc EXCEPT ![l] = "running"]
  /\ UNCHANGED << linkVars, routerVars, channel, open, sockVars, dsVars, histVars >>

\* bind or connect fails: the task goes straight to its removal.
StartError(l) ==
  /\ StartFails
  /\ relay[l] = "start"
  /\ relay' = [relay EXCEPT ![l] = "remove"]
  /\ UNCHANGED << linkVars, routerVars, channel, open, to_sc, from_sc,
                  sockVars, dsVars, histVars >>

\* to_sc ends: its end of the channel and what is queued in it go.
EndToSc(l) ==
  /\ to_sc' = [to_sc EXCEPT ![l] = "ended"]
  /\ open' = [open EXCEPT ![l] = FALSE]
  /\ channel' = [channel EXCEPT ![l] = << >>]

\* The sentinel, or a pending socket error that send reports, ends to_sc.
\* recv() never returns None: the sender is dropped only after a sentinel.
ToScBreaks(l) ==
  /\ to_sc[l] = "running"
  /\ channel[l] # << >>
  /\ Head(channel[l]) = Sentinel \/ sockErr[l]
  /\ EndToSc(l)
  /\ sockErr' = IF Head(channel[l]) = Sentinel
                THEN sockErr ELSE [sockErr EXCEPT ![l] = FALSE]
  /\ UNCHANGED << linkVars, routerVars, relay, from_sc, sockIn, dsVars, histVars >>

\* Mutant: a datagram may be sent a second time.
ToScSendsAgain(l) ==
  /\ to_sc[l] = "running"
  /\ channel[l] # << >>
  /\ Head(channel[l]) # Sentinel
  /\ ~ sockErr[l]
  /\ dsUp
  /\ channel' \in {channel, [channel EXCEPT ![l] = Tail(@)]}
  /\ toDs' = [toDs EXCEPT ![l] = Append(@, Head(channel[l]))]
  /\ dsPeers' = dsPeers \cup {l}
  /\ UNCHANGED << linkVars, routerVars, open, relay, to_sc, from_sc, sockVars,
                  dsUp, dsStops, dsSent, toPeer >>

\* A datagram goes to the game server; when nobody listens on its port the
\* host may answer with an ICMP error, which the socket keeps.
ToScSends(l) ==
  /\ to_sc[l] = "running"
  /\ channel[l] # << >>
  /\ Head(channel[l]) # Sentinel
  /\ ~ sockErr[l]
  /\ channel' = [channel EXCEPT ![l] = Tail(@)]
  /\ \/ /\ dsUp
        /\ toDs' = [toDs EXCEPT ![l] = Append(@, Head(channel[l]))]
        /\ dsPeers' = dsPeers \cup {l}
        /\ UNCHANGED sockErr
     \/ /\ ~ dsUp
        /\ \E icmp \in BOOLEAN : sockErr' = [sockErr EXCEPT ![l] = icmp]
        /\ UNCHANGED << toDs, dsPeers >>
  /\ UNCHANGED << linkVars, routerVars, open, relay, to_sc, from_sc, sockIn,
                  dsUp, dsStops, dsSent, toPeer >>

\* from_sc frames a datagram and issues it to the engine, which loses it
\* silently unless the link is up: issue fails only once the node has stopped.
FromScSends(l) ==
  /\ from_sc[l] = "running"
  /\ ~ sockErr[l]
  /\ sockIn[l] > 0
  /\ sockIn' = [sockIn EXCEPT ![l] = @ - 1]
  /\ toPeer' = IF link[l] = "up" THEN [toPeer EXCEPT ![l] = @ + 1] ELSE toPeer
  /\ UNCHANGED << linkVars, routerVars, relayVars, sockErr, dsVars, toDs >>

\* recv reports the pending error: from_sc ends.
FromScBreaks(l) ==
  /\ from_sc[l] = "running"
  /\ sockErr[l]
  /\ from_sc' = [from_sc EXCEPT ![l] = "ended"]
  /\ sockErr' = [sockErr EXCEPT ![l] = FALSE]
  /\ UNCHANGED << linkVars, routerVars, channel, open, relay, to_sc, sockIn,
                  dsVars, histVars >>

\* join! returns when both pumps have ended.
Join(l) ==
  /\ relay[l] = "run"
  /\ to_sc[l] = "ended"
  /\ from_sc[l] = "ended"
  /\ relay' = [relay EXCEPT ![l] = "remove"]
  /\ UNCHANGED << linkVars, routerVars, channel, open, to_sc, from_sc,
                  sockVars, dsVars, histVars >>

\* Mutants: the map keeps the link; the link stays open.
RemoveKeepsSender(l) ==
  /\ relay[l] = "remove"
  /\ ~ SendersLocked
  /\ relay' = [relay EXCEPT ![l] = "done"]
  /\ open' = [open EXCEPT ![l] = FALSE]
  /\ channel' = [channel EXCEPT ![l] = << >>]
  /\ sockIn' = [sockIn EXCEPT ![l] = 0]
  /\ sockErr' = [sockErr EXCEPT ![l] = FALSE]
  /\ link' = IF link[l] = "up" THEN [link EXCEPT ![l] = "closed"] ELSE link
  /\ UNCHANGED << events, peerSent, routerVars, to_sc, from_sc, dsVars, histVars >>

RemoveKeepsLink(l) ==
  /\ relay[l] = "remove"
  /\ ~ SendersLocked
  /\ relay' = [relay EXCEPT ![l] = "done"]
  /\ senders' = senders \ {l}
  /\ open' = [open EXCEPT ![l] = FALSE]
  /\ channel' = [channel EXCEPT ![l] = << >>]
  /\ sockIn' = [sockIn EXCEPT ![l] = 0]
  /\ sockErr' = [sockErr EXCEPT ![l] = FALSE]
  /\ UNCHANGED << linkVars, closing, clients, to_sc, from_sc, dsVars, histVars >>

\* senders.remove(link_id), close_link, and the task returns, dropping its
\* socket and, when it never started, the channel's receiver.
Remove(l) ==
  /\ relay[l] = "remove"
  /\ ~ SendersLocked
  /\ relay' = [relay EXCEPT ![l] = "done"]
  /\ senders' = senders \ {l}
  /\ open' = [open EXCEPT ![l] = FALSE]
  /\ channel' = [channel EXCEPT ![l] = << >>]
  /\ sockIn' = [sockIn EXCEPT ![l] = 0]
  /\ sockErr' = [sockErr EXCEPT ![l] = FALSE]
  /\ link' = IF link[l] = "up" THEN [link EXCEPT ![l] = "closed"] ELSE link
  /\ UNCHANGED << events, peerSent, closing, clients, to_sc, from_sc, dsVars, histVars >>
-----------------------------------------------------------------------------
\* The Sven Co-op server (external) stops, starts, and answers whoever it
\* has heard from since it started.
DsStops ==
  /\ dsUp
  /\ dsStops < MaxStops
  /\ dsUp' = FALSE
  /\ dsStops' = dsStops + 1
  /\ dsPeers' = {}
  /\ UNCHANGED << linkVars, routerVars, relayVars, sockVars, dsSent, histVars >>

DsStarts ==
  /\ ~ dsUp
  /\ dsUp' = TRUE
  /\ UNCHANGED << linkVars, routerVars, relayVars, sockVars, dsStops, dsPeers, dsSent, histVars >>

DsReplies(l) ==
  /\ dsUp
  /\ l \in dsPeers
  /\ l \in Talkers
  /\ dsSent[l] < MaxReplies
  /\ dsSent' = [dsSent EXCEPT ![l] = @ + 1]
  /\ sockIn' = IF relay[l] = "run" THEN [sockIn EXCEPT ![l] = @ + 1] ELSE sockIn
  /\ UNCHANGED << linkVars, routerVars, relayVars, sockErr, dsUp, dsStops, dsPeers, histVars >>
-----------------------------------------------------------------------------
RouterNext ==
  \/ RouteLinkEstablished \/ RoutePeerIdentified \/ RouteLinkData
  \/ RouteLinkClosed \/ SendSentinel
TaskNext(l) == Start(l) \/ StartError(l) \/ Join(l) \/ Remove(l)
ToScNext(l) == ToScBreaks(l) \/ ToScSends(l)
FromScNext(l) == FromScSends(l) \/ FromScBreaks(l)
EngineNext(l) ==
  \/ LinkEstablishes(l) \/ HandshakeFails(l) \/ PeerIdentifies(l)
  \/ PeerSends(l) \/ LinkDies(l)

Next ==
  \/ RouterNext
  \/ \E l \in Links : TaskNext(l) \/ ToScNext(l) \/ FromScNext(l)
                      \/ EngineNext(l) \/ DsReplies(l)
  \/ DsStops \/ DsStarts

Spec == Init /\ [][Next]_vars

\* The runtime polls every task that can run; peers and the game server need
\* not do anything.
Fairness ==
  /\ WF_vars(RouterNext)
  /\ \A l \in Links : /\ WF_vars(TaskNext(l))
                      /\ WF_vars(ToScNext(l))
                      /\ WF_vars(FromScNext(l))
FairSpec == Spec /\ Fairness
-----------------------------------------------------------------------------
Event == [type : EventTypes, link : Links, id : 0..MaxData]

Chunks == 0..MaxData \cup {Sentinel}

LinkTypes ==
  /\ link \in [Links -> LinkStates]
  /\ events \in Seq(Event)
  /\ peerSent \in [Links -> 0..MaxData]
RouterTypes ==
  /\ closing \in Links \cup {None}
  /\ senders \subseteq Links
  /\ clients \subseteq Links
RelayTypes ==
  /\ channel \in [Links -> Seq(Chunks)]
  /\ \A l \in Links : Len(channel[l]) <= ChannelCap
  /\ open \in [Links -> BOOLEAN]
  /\ relay \in [Links -> RelayStates]
  /\ to_sc \in [Links -> PumpStates]
  /\ from_sc \in [Links -> PumpStates]
SockTypes ==
  /\ sockIn \in [Links -> Nat]
  /\ sockErr \in [Links -> BOOLEAN]
DsTypes ==
  /\ dsUp \in BOOLEAN
  /\ dsStops \in 0..MaxStops
  /\ dsPeers \subseteq Links
  /\ dsSent \in [Links -> 0..MaxReplies]
HistTypes ==
  /\ toDs \in [Links -> Seq(Chunks)]
  /\ toPeer \in [Links -> Nat]

\* The types of the variables; no channel holds more than its capacity.
TypeOK ==
  LinkTypes /\ RouterTypes /\ RelayTypes /\ SockTypes /\ DsTypes /\ HistTypes

\* The router has yet to handle an event, or the LinkEstablished, of a link.
Pending(l) == \E i \in 1..Len(events) : events[i].link = l
EstablishedPending(l) ==
  \E i \in 1..Len(events) : events[i].link = l /\ events[i].type = "LinkEstablished"

\* The game server gets a link's datagrams in the order the peer sent them,
\* none twice, through the router's channel and across a restart of the server.
GameServerGetsInOrder ==
  \A l \in Links : \A i, j \in 1..Len(toDs[l]) : i < j => toDs[l][i] < toDs[l][j]

\* The sentinel is the last thing a relay's channel ever holds, and the map
\* no longer names the link by then: to_sc discards nothing when it ends on it.
SentinelComesLast ==
  \A l \in Links : \A i \in 1..Len(channel[l]) :
    channel[l][i] = Sentinel =>
      /\ i = Len(channel[l])
      /\ l \notin senders
      /\ closing # l

\* link_senders names only links with a relay task that has not ended, and an
\* ended task holds neither the link nor the channel: whichever of the router
\* and the task removes the entry first, nothing is left behind.
SendersNameLiveRelays ==
  \A l \in Links :
    /\ l \in senders => relay[l] \in {"start", "run", "remove"}
    /\ relay[l] = "done" => link[l] # "up" /\ ~ open[l] /\ closing # l

\* A link that is up has a relay, from the moment the router has seen it.
OpenLinkHasRelay ==
  \A l \in Links :
    link[l] = "up" =>
      \/ relay[l] \in {"start", "run", "remove"}
      \/ EstablishedPending(l)

\* Once the router has handled the LinkClosed of a link, neither map names
\* it, although PeerIdentified and the relay's own removal come in any order.
LostLinkForgotten ==
  \A l \in Links :
    link[l] = "lost" /\ ~ Pending(l) /\ closing # l
      => l \notin senders /\ l \notin clients

\* The router awaits room in the channel of a relay whose socket could not be
\* had.  The relay keeps that channel's other end while it awaits the lock that
\* the router holds: neither goes on.  The code is saved from this by numbers
\* that the model does not have: a task yields after 128 operations, so a relay
\* has run, and removed itself, before the router could queue 256 chunks for it.
SentinelAwaitsFailedStart ==
  /\ closing # None
  /\ relay[closing] = "remove"
  /\ open[closing]
  /\ Len(channel[closing]) = ChannelCap

\* The router handles every event: waiting under the write lock for room for
\* a sentinel stops it for good in that one situation only.
EventsHandled == events # << >> ~> events = << >> \/ SentinelAwaitsFailedStart

\* The pump towards the game server ends once its link is lost, even when the
\* channel was full of datagrams at that moment.
ToScEndsWithLink ==
  \A l \in Links :
    link[l] = "lost" ~> to_sc[l] # "running" \/ SentinelAwaitsFailedStart

\* What relay.rs says of a relay: it pumps both ways.  So while its link is up
\* the datagrams of a game server that knows the relay are read.
BothWays ==
  \A l \in Links :
    relay[l] = "run" /\ link[l] = "up" /\ dsUp /\ l \in dsPeers
      => from_sc[l] = "running"
=============================================================================
