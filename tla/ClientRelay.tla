---------------------------- MODULE ClientRelay ----------------------------
(***************************************************************************)
(* The client side of the bridge (src/src/relay.rs, start_client).  A UDP  *)
(* loop reads the packets of the local game programs.  The first packet of *)
(* a source address spawns a task that establishes a Link, enters itself   *)
(* in udp_links (source -> sender of the task's channel) and link_data     *)
(* (link -> sender of the channel for replies), and runs a send task and a *)
(* receive task until both have ended.  A router handles the engine's      *)
(* events.  All are tokio tasks of one thread: a step below runs from one  *)
(* await to the next.                                                      *)
(*                                                                         *)
(* The read lock on udp_links is part of the state.  The loop's            *)
(*     if let Some(tx) = udp_links.read().await.get(&src).cloned() { .. }  *)
(* keeps the read guard until the end of the body, over the awaits in it.  *)
(*                                                                         *)
(* A task establishes at most one link, so the task names its link as well. *)
(* A datagram stands for its chunks: LinkPipe models framing.              *)
(***************************************************************************)
EXTENDS Naturals, Sequences, FiniteSets

CONSTANTS
  Srcs,          \* the UDP source addresses of the local game programs
  Tasks,         \* the relay tasks, in the order the UDP loop spawns them
  None,          \* no task
  ChannelCap,    \* capacity of the mpsc channels (256)
  EmptyDatagrams,\* TRUE: a game program may send an empty datagram
  SocketErrors,  \* TRUE: recv_from and send_to on the UDP socket may fail
  MaxPackets,    \* bound: packets the game programs send
  MaxReplies     \* bound: packets the peer sends on one link

ASSUME ClientAssumption ==
  /\ Tasks \subseteq Nat
  /\ None \notin Tasks
  /\ ChannelCap \in Nat \ {0}
  /\ EmptyDatagrams \in BOOLEAN
  /\ SocketErrors \in BOOLEAN
  /\ MaxPackets \in Nat
  /\ MaxReplies \in Nat

Packet == [src : Srcs, id : 1..MaxPackets, empty : BOOLEAN]

VARIABLES
  inbox,      \* packets in the receive buffer of the UDP socket
  loop,       \* where the UDP loop is
  held,       \* the packet the loop is sending, and to which task
  target,     \* whether server_target is set
  udp_links,  \* source -> the task whose channel its packets go to
  link_data,  \* the links whose replies the router forwards
  pc,         \* where each relay task is
  first,      \* the packet that spawned each task
  queue,      \* the udp_to_link channel of each task
  open,       \* whether the receiver of that channel still exists
  replies,    \* the link_to_udp channel of each task
  sender,     \* the send_task of each relay
  receiver,   \* the recv_task of each relay
  link,       \* the engine's state of each link
  events,     \* BridgeEvents the router has not handled
  answered,   \* the number of packets the peer has sent on each link
  sentCount,  \* the number of packets the game programs have sent
  wire        \* history: the packets each link carried to the peer

loopVars   == << inbox, loop, held, sentCount >>
mapVars    == << udp_links, link_data >>
taskVars   == << pc, first >>
pumpVars   == << queue, open, replies, sender, receiver >>
engineVars == << target, link, events, answered, wire >>
vars == << loopVars, mapVars, taskVars, pumpVars, engineVars >>

Unspawned == "unspawned"
LoopStates == {"recv", "sending", "removing", "dead"}
TaskStates == {Unspawned, "establish", "path", "retry", "identify", "register",
               "attach", "relay", "unlink", "done"}
PumpStates == {"none", "running", "ended"}
LinkStates == {"none", "up", "down"}

NoPacket == [task |-> None, packet |-> None]

Init ==
  /\ inbox = << >>
  /\ loop = "recv"
  /\ held = NoPacket
  /\ target \in BOOLEAN
  /\ udp_links = [s \in Srcs |-> None]
  /\ link_data = {}
  /\ pc = [t \in Tasks |-> Unspawned]
  /\ first = [t \in Tasks |-> None]
  /\ queue = [t \in Tasks |-> << >>]
  /\ open = [t \in Tasks |-> FALSE]
  /\ replies = [t \in Tasks |-> << >>]
  /\ sender = [t \in Tasks |-> "none"]
  /\ receiver = [t \in Tasks |-> "none"]
  /\ link = [t \in Tasks |-> "none"]
  /\ events = << >>
  /\ answered = [t \in Tasks |-> 0]
  /\ sentCount = 0
  /\ wire = [t \in Tasks |-> << >>]

\* The loop's read guard on udp_links is alive; nobody can write the map.
ReadLocked == loop \in {"sending", "removing"}

\* Mutant: the relay task keeps a sender of its own channel.
HasSenderKept(t) ==
  (\E s \in Srcs : udp_links[s] = t) \/ held.task = t \/ pc[t] = "relay"

\* The sending half of the udp_to_link channel of t still exists somewhere.
HasSender(t) == (\E s \in Srcs : udp_links[s] = t) \/ held.task = t

MoveTo(t, state) == pc' = [pc EXCEPT ![t] = state]

\* The engine takes a SendToLink: a link that is not up loses it silently.
Carry(t, p) ==
  wire' = IF link[t] = "up" THEN [wire EXCEPT ![t] = Append(@, p)] ELSE wire
-----------------------------------------------------------------------------
\* A local game program sends a packet to the bridge's UDP port.
GameSends(s) ==
  /\ sentCount < MaxPackets
  /\ \E e \in BOOLEAN :
       /\ e => EmptyDatagrams
       /\ inbox' = Append(inbox, [src |-> s, id |-> sentCount + 1, empty |-> e])
  /\ sentCount' = sentCount + 1
  /\ UNCHANGED << loop, held, mapVars, taskVars, pumpVars, engineVars >>

\* recv_from fails: the loop returns for good.
RecvFails ==
  /\ SocketErrors
  /\ loop = "recv"
  /\ loop' = "dead"
  /\ UNCHANGED << inbox, held, sentCount, mapVars, taskVars, pumpVars, engineVars >>

\* Mutant: the loop does not look whether the source is in the map.
RecvUnchecked ==
  /\ loop = "recv"
  /\ inbox # << >>
  /\ inbox' = Tail(inbox)
  /\ loop' = "sending"
  /\ held' = [task |-> udp_links[Head(inbox).src], packet |-> Head(inbox)]
  /\ UNCHANGED << sentCount, mapVars, taskVars, pumpVars, engineVars >>

\* A packet of a source in the map: clone its sender, keeping the read guard.
RecvKnown ==
  /\ loop = "recv"
  /\ inbox # << >>
  /\ udp_links[Head(inbox).src] # None
  /\ inbox' = Tail(inbox)
  /\ loop' = "sending"
  /\ held' = [task |-> udp_links[Head(inbox).src], packet |-> Head(inbox)]
  /\ UNCHANGED << sentCount, mapVars, taskVars, pumpVars, engineVars >>

\* tx.send waits for room in the channel; then the guard is dropped.
SendDone ==
  /\ loop = "sending"
  /\ open[held.task]
  /\ Len(queue[held.task]) < ChannelCap
  /\ queue' = [queue EXCEPT ![held.task] = Append(@, held.packet)]
  /\ loop' = "recv"
  /\ held' = NoPacket
  /\ UNCHANGED << inbox, sentCount, mapVars, taskVars, engineVars,
                  open, replies, sender, receiver >>

\* tx.send fails, the receiver is gone: the body asks for the write lock
\* while the guard of the same statement still holds the read lock.  The
\* lock is never granted, so no step leaves "removing".
SendFails ==
  /\ loop = "sending"
  /\ ~ open[held.task]
  /\ loop' = "removing"
  /\ UNCHANGED << inbox, held, sentCount, mapVars, taskVars, pumpVars, engineVars >>

\* No server is known yet: the packet is dropped.
RecvNoTarget ==
  /\ loop = "recv"
  /\ inbox # << >>
  /\ udp_links[Head(inbox).src] = None
  /\ ~ target
  /\ inbox' = Tail(inbox)
  /\ UNCHANGED << loop, held, sentCount, mapVars, taskVars, pumpVars, engineVars >>

\* The packet spawns a relay task, whether or not an earlier packet of this
\* source has one that is still establishing its link.
RecvSpawn ==
  /\ loop = "recv"
  /\ inbox # << >>
  /\ udp_links[Head(inbox).src] = None
  /\ target
  /\ \E t \in Tasks :
       /\ pc[t] = Unspawned
       /\ \A u \in Tasks : pc[u] = Unspawned => t <= u
       /\ MoveTo(t, "establish")
       /\ first' = [first EXCEPT ![t] = Head(inbox)]
  /\ inbox' = Tail(inbox)
  /\ UNCHANGED << loop, held, sentCount, mapVars, pumpVars, engineVars >>
-----------------------------------------------------------------------------
\* establish_link settles: the link is up, or a path must be requested.
Establish(t) ==
  /\ pc[t] = "establish"
  /\ \/ link' = [link EXCEPT ![t] = "up"] /\ MoveTo(t, "identify")
     \/ MoveTo(t, "path") /\ UNCHANGED link
  /\ UNCHANGED << loopVars, mapVars, first, pumpVars, target, events, answered, wire >>

\* request_path settles; without a path the task gives up.
RequestPath(t) ==
  /\ pc[t] = "path"
  /\ MoveTo(t, "retry") \/ MoveTo(t, "done")
  /\ UNCHANGED << loopVars, mapVars, first, pumpVars, engineVars >>

\* The second establish_link settles; there is no third.
Reestablish(t) ==
  /\ pc[t] = "retry"
  /\ \/ link' = [link EXCEPT ![t] = "up"] /\ MoveTo(t, "identify")
     \/ MoveTo(t, "done") /\ UNCHANGED link
  /\ UNCHANGED << loopVars, mapVars, first, pumpVars, target, events, answered, wire >>

\* identify settles; the task goes on whether it succeeded or not.
Identify(t) ==
  /\ pc[t] = "identify"
  /\ MoveTo(t, "register")
  /\ UNCHANGED << loopVars, mapVars, first, pumpVars, engineVars >>

\* Mutant: the first packet is put back to be read again through the map.
RegisterRequeues(t) ==
  /\ pc[t] = "register"
  /\ ~ ReadLocked
  /\ udp_links' = [udp_links EXCEPT ![first[t].src] = t]
  /\ open' = [open EXCEPT ![t] = TRUE]
  /\ inbox' = Append(inbox, first[t])
  /\ MoveTo(t, "attach")
  /\ UNCHANGED << loop, held, sentCount, link_data, first, queue, replies, sender,
                  receiver, engineVars >>

\* links.insert(src, tx), then the first packet goes out before any other.
Register(t) ==
  /\ pc[t] = "register"
  /\ ~ ReadLocked
  /\ udp_links' = [udp_links EXCEPT ![first[t].src] = t]
  /\ open' = [open EXCEPT ![t] = TRUE]
  /\ Carry(t, first[t])
  /\ MoveTo(t, "attach")
  /\ UNCHANGED << loopVars, link_data, first, queue, replies, sender, receiver,
                  target, link, events, answered >>

\* link_data.insert(link_id, tx), and both pump tasks are spawned.
Attach(t) ==
  /\ pc[t] = "attach"
  /\ link_data' = link_data \cup {t}
  /\ sender' = [sender EXCEPT ![t] = "running"]
  /\ receiver' = [receiver EXCEPT ![t] = "running"]
  /\ MoveTo(t, "relay")
  /\ UNCHANGED << loopVars, udp_links, first, queue, open, replies, engineVars >>

\* send_task ends: its end of the channel and what is queued in it go.
EndSender(t) ==
  /\ sender' = [sender EXCEPT ![t] = "ended"]
  /\ open' = [open EXCEPT ![t] = FALSE]
  /\ queue' = [queue EXCEPT ![t] = << >>]

\* send_task takes a packet; an empty one is taken for the end of the stream.
PumpToLink(t) ==
  /\ sender[t] = "running"
  /\ queue[t] # << >>
  /\ IF Head(queue[t]).empty
     THEN EndSender(t) /\ UNCHANGED wire
     ELSE /\ queue' = [queue EXCEPT ![t] = Tail(@)]
          /\ Carry(t, Head(queue[t]))
          /\ UNCHANGED << sender, open >>
  /\ UNCHANGED << loopVars, mapVars, taskVars, replies, receiver,
                  target, link, events, answered >>

\* recv() returns None: the channel is drained and every sender is gone.
PumpToLinkEnds(t) ==
  /\ sender[t] = "running"
  /\ queue[t] = << >>
  /\ ~ HasSender(t)
  /\ EndSender(t)
  /\ UNCHANGED << loopVars, mapVars, taskVars, replies, receiver, engineVars >>

\* recv_task writes a reply to the game program; an error ends the task.
PumpToUdp(t) ==
  /\ receiver[t] = "running"
  /\ replies[t] # << >>
  /\ \/ /\ replies' = [replies EXCEPT ![t] = Tail(@)]
        /\ UNCHANGED receiver
     \/ /\ SocketErrors
        /\ replies' = [replies EXCEPT ![t] = << >>]
        /\ receiver' = [receiver EXCEPT ![t] = "ended"]
  /\ UNCHANGED << loopVars, mapVars, taskVars, queue, open, sender, engineVars >>

\* Mutant: the end of recv_task takes send_task with it.
PumpToUdpEndsBoth(t) ==
  /\ receiver[t] = "running"
  /\ replies[t] = << >>
  /\ t \notin link_data
  /\ receiver' = [receiver EXCEPT ![t] = "ended"]
  /\ EndSender(t)
  /\ UNCHANGED << loopVars, mapVars, taskVars, replies, engineVars >>

\* recv() returns None: the router dropped the sender of this link.
PumpToUdpEnds(t) ==
  /\ receiver[t] = "running"
  /\ replies[t] = << >>
  /\ t \notin link_data
  /\ receiver' = [receiver EXCEPT ![t] = "ended"]
  /\ UNCHANGED << loopVars, mapVars, taskVars, queue, open, replies, sender, engineVars >>

\* join! returns when both pumps have ended: link_data.remove(link_id).
Finish(t) ==
  /\ pc[t] = "relay"
  /\ sender[t] = "ended"
  /\ receiver[t] = "ended"
  /\ link_data' = link_data \ {t}
  /\ MoveTo(t, "unlink")
  /\ UNCHANGED << loopVars, udp_links, first, pumpVars, engineVars >>

\* Mutants: the entry of the source stays; the link is not closed.
UnlinkKeepsEntry(t) ==
  /\ pc[t] = "unlink"
  /\ ~ ReadLocked
  /\ link' = [link EXCEPT ![t] = "down"]
  /\ MoveTo(t, "done")
  /\ UNCHANGED << loopVars, mapVars, first, pumpVars, target, events, answered, wire >>

UnlinkKeepsLink(t) ==
  /\ pc[t] = "unlink"
  /\ ~ ReadLocked
  /\ udp_links' = [udp_links EXCEPT ![first[t].src] = None]
  /\ MoveTo(t, "done")
  /\ UNCHANGED << loopVars, link_data, first, pumpVars, engineVars >>

\* links.remove(src), whichever task the entry names, and close_link, which
\* raises no LinkClosed event on this side.
Unlink(t) ==
  /\ pc[t] = "unlink"
  /\ ~ ReadLocked
  /\ udp_links' = [udp_links EXCEPT ![first[t].src] = None]
  /\ link' = [link EXCEPT ![t] = "down"]
  /\ MoveTo(t, "done")
  /\ UNCHANGED << loopVars, link_data, first, pumpVars, target, events, answered, wire >>
-----------------------------------------------------------------------------
\* The engine (external): an announce is heard, a packet of the peer arrives,
\* the peer closes the link or it times out.
HearAnnounce ==
  /\ ~ target
  /\ \A i \in 1..Len(events) : events[i].type # "AnnounceHeard"
  /\ events' = Append(events, [type |-> "AnnounceHeard", link |-> None])
  /\ UNCHANGED << loopVars, mapVars, taskVars, pumpVars, target, link, answered, wire >>

PeerSends(t) ==
  /\ link[t] = "up"
  /\ answered[t] < MaxReplies
  /\ answered' = [answered EXCEPT ![t] = @ + 1]
  /\ events' = Append(events, [type |-> "LinkData", link |-> t])
  /\ UNCHANGED << loopVars, mapVars, taskVars, pumpVars, target, link, wire >>

LinkDies(t) ==
  /\ link[t] = "up"
  /\ link' = [link EXCEPT ![t] = "down"]
  /\ events' = Append(events, [type |-> "LinkClosed", link |-> t])
  /\ UNCHANGED << loopVars, mapVars, taskVars, pumpVars, target, answered, wire >>

\* The router's three handlers that change state.
RouteAnnounce ==
  /\ events # << >>
  /\ Head(events).type = "AnnounceHeard"
  /\ target' = TRUE
  /\ events' = Tail(events)
  /\ UNCHANGED << loopVars, mapVars, taskVars, pumpVars, link, answered, wire >>

\* LinkData: try_send to the link's channel.  An unknown link, a full channel
\* and a receiver that is gone all lose the packet.
RouteLinkData ==
  /\ events # << >>
  /\ Head(events).type = "LinkData"
  /\ LET t == Head(events).link
     IN  replies' = IF /\ t \in link_data
                       /\ receiver[t] = "running"
                       /\ Len(replies[t]) < ChannelCap
                    THEN [replies EXCEPT ![t] = Append(@, "reply")] ELSE replies
  /\ events' = Tail(events)
  /\ UNCHANGED << loopVars, mapVars, taskVars, queue, open, sender, receiver,
                  target, link, answered, wire >>

\* LinkClosed: forget the link's replies.  udp_links keeps its entry.
RouteLinkClosed ==
  /\ events # << >>
  /\ Head(events).type = "LinkClosed"
  /\ link_data' = link_data \ {Head(events).link}
  /\ events' = Tail(events)
  /\ UNCHANGED << loopVars, udp_links, taskVars, pumpVars, target, link, answered, wire >>
-----------------------------------------------------------------------------
LoopNext == RecvKnown \/ SendDone \/ SendFails \/ RecvNoTarget \/ RecvSpawn
RouterNext == RouteAnnounce \/ RouteLinkData \/ RouteLinkClosed
TaskNext(t) ==
  \/ Establish(t) \/ RequestPath(t) \/ Reestablish(t) \/ Identify(t)
  \/ Register(t) \/ Attach(t) \/ Finish(t) \/ Unlink(t)
SenderNext(t) == PumpToLink(t) \/ PumpToLinkEnds(t)
ReceiverNext(t) == PumpToUdp(t) \/ PumpToUdpEnds(t)

Next ==
  \/ \E s \in Srcs : GameSends(s)
  \/ LoopNext \/ RecvFails
  \/ RouterNext \/ HearAnnounce
  \/ \E t \in Tasks : TaskNext(t) \/ SenderNext(t) \/ ReceiverNext(t)
                      \/ PeerSends(t) \/ LinkDies(t)

Spec == Init /\ [][Next]_vars

\* The runtime polls every task that can run, and the engine settles every
\* establish_link, request_path and identify, by a timeout if need be.
Fairness ==
  /\ WF_vars(LoopNext)
  /\ WF_vars(RouterNext)
  /\ \A t \in Tasks : /\ WF_vars(TaskNext(t))
                      /\ WF_vars(SenderNext(t))
                      /\ WF_vars(ReceiverNext(t))
FairSpec == Spec /\ Fairness
-----------------------------------------------------------------------------
Event == [type : {"AnnounceHeard", "LinkData", "LinkClosed"}, link : Tasks \cup {None}]

\* The types of the variables.
TypeOK ==
  /\ inbox \in Seq(Packet)
  /\ loop \in LoopStates
  /\ held \in [task : Tasks, packet : Packet] \cup {NoPacket}
  /\ target \in BOOLEAN
  /\ udp_links \in [Srcs -> Tasks \cup {None}]
  /\ link_data \subseteq Tasks
  /\ pc \in [Tasks -> TaskStates]
  /\ first \in [Tasks -> Packet \cup {None}]
  /\ queue \in [Tasks -> Seq(Packet)]
  /\ \A t \in Tasks : Len(queue[t]) <= ChannelCap /\ Len(replies[t]) <= ChannelCap
  /\ open \in [Tasks -> BOOLEAN]
  /\ replies \in [Tasks -> Seq({"reply"})]
  /\ sender \in [Tasks -> PumpStates]
  /\ receiver \in [Tasks -> PumpStates]
  /\ link \in [Tasks -> LinkStates]
  /\ events \in Seq(Event)
  /\ answered \in [Tasks -> 0..MaxReplies]
  /\ sentCount \in 0..MaxPackets
  /\ wire \in [Tasks -> Seq(Packet)]

\* A link carries the packets of one source only, in the order that source
\* sent them: the packet that spawned the relay overtakes no queued packet
\* and is overtaken by none, however registration interleaves with the loop.
LinkCarriesOneSourceInOrder ==
  \A t \in Tasks :
    /\ \A i \in 1..Len(wire[t]) : wire[t][i].src = first[t].src
    /\ \A i, j \in 1..Len(wire[t]) : i < j => wire[t][i].id < wire[t][j].id

\* The two maps never name a relay that has ended or one of another source:
\* the unconditional removals of Unlink and the insertions of late tasks
\* leave no entry behind that nobody will ever remove.
MapsNameLiveRelays ==
  /\ \A s \in Srcs : udp_links[s] # None =>
       /\ first[udp_links[s]].src = s
       /\ pc[udp_links[s]] \in {"attach", "relay", "unlink"}
  /\ \A t \in link_data : pc[t] = "relay"

\* A task that has ended holds no link open and no pump running.
EndedTaskHoldsNothing ==
  \A t \in Tasks : pc[t] = "done" =>
    /\ link[t] # "up"
    /\ ~ open[t]
    /\ sender[t] # "running"
    /\ receiver[t] # "running"

\* Every packet that reaches the socket is eventually read and handed on:
\* waiting for room in one relay's channel delays the loop but never stops it.
Waiting(s) ==
  \/ \E i \in 1..Len(inbox) : inbox[i].src = s
  \/ held # NoPacket /\ held.packet.src = s
PacketsHandedOn == \A s \in Srcs : Waiting(s) ~> ~ Waiting(s)

\* A relay whose entry in udp_links was replaced and whose link has died is
\* torn down: nothing keeps its channels open any more.
ReplacedRelayEnds ==
  \A t \in Tasks :
    (/\ pc[t] = "relay" /\ link[t] = "down" /\ receiver[t] = "ended"
     /\ \A s \in Srcs : udp_links[s] # t) ~> pc[t] = "done"

\* What the README says of a closed link: the next packet of its source opens
\* a fresh one.  So no packet goes to a relay whose link is down, once the
\* router has seen the LinkClosed and the relay has reacted to it.
ClosedLinkIsReplaced ==
  [][ held'.task # held.task /\ held'.task # None =>
        ~ (/\ link[held'.task] = "down"
           /\ receiver[held'.task] = "ended"
           /\ \A i \in 1..Len(events) : events[i].link # held'.task) ]_vars
=============================================================================
