---------------------------- MODULE ClientControl ----------------------------
(***************************************************************************)
(* The controller's client role (src/controller/src/controller.rs) over    *)
(* the sessions it starts (BridgeSession) and what their nodes discover    *)
(* (Discovery).  One operation at a time holds the controller's mutex; the *)
(* threads of all sessions, also of those that were dropped, run beside it. *)
(*                                                                         *)
(* The steps of the callers of BridgeSession become the operations of the  *)
(* panel: start, stop, restart, connect_and_launch, and the handler that   *)
(* is dropped at an await.  What the settings keep of it is Controller's,  *)
(* what a node does with game traffic is ClientRelay's.                    *)
(***************************************************************************)
EXTENDS BridgeSession, Discovery

CONSTANTS
  Servers,      \* destinations of bridge servers
  Others,       \* other destinations that announce themselves
  Names,        \* names a server may be given
  Discover,     \* the arguments without --server-hash
  MaxHeard,     \* bound: announces waiting for a router (unbounded in the code)
  MaxRenames    \* bound: restarts of servers under another name

Dests == Servers \cup Others

ASSUME ControlAssumption ==
  /\ {Discover, None} \cap Dests = {}
  /\ Discover # None
  /\ MaxHeard \in Nat \ {0}
  /\ MaxRenames \in Nat

VARIABLES
  current,      \* client_session, or None
  op,           \* where the operation that holds the mutex is
  subj,         \* the session it awaits, or None
  next,         \* the target it is to start a session with, or None
  launch,       \* whether it is connect_and_launch
  last,         \* the target in last_client_args, or None: never started
  asked,        \* the target each session with a runtime was started with, or None
  target,       \* server_target of each session, or None
  heard,        \* the announces each session's router has yet to take
  discovered,   \* the list of servers of each session
  dialed,       \* history: the destinations each running node has dialed
  names,        \* the name each server runs with
  renames       \* the number of times one was changed

control   == << current, op, subj, next, launch, last, asked >>
discovery == << target, heard, discovered, dialed >>
peers     == << names, renames >>
allVars   == << vars, control, discovery, peers >>

ControlInit ==
  /\ Init
  /\ current = None
  /\ op = "idle"
  /\ subj = None
  /\ next = None
  /\ launch = FALSE
  /\ last = None
  /\ asked = [s \in Sessions |-> None]
  /\ target = [s \in Sessions |-> None]
  /\ heard = [s \in Sessions |-> << >>]
  /\ discovered = [s \in Sessions |-> << >>]
  /\ dialed = [s \in Sessions |-> {}]
  /\ names \in [Servers -> Names]
  /\ renames = 0

\* The bound on sessions: an operation that starts one needs a fresh one.
Fresh == {s \in Sessions : caller[s] = "new"}

OperationEnds == op' = "idle" /\ subj' = None /\ next' = None /\ launch' = FALSE

\* A list goes with the session and with the runtime that share it.
Kept(lists) ==
  [s \in Sessions |->
     IF caller'[s] \in {"stopped", "dropped"} /\ thread'[s] \in {"dropped", "exited"}
     THEN << >> ELSE lists[s]]
-----------------------------------------------------------------------------
\* start_client: refused while there is a session.
StartClient(dest) ==
  /\ op = "idle"
  /\ current = None
  /\ Fresh # {}
  /\ op' = "start"
  /\ next' = dest
  /\ UNCHANGED << vars, current, subj, launch, last, asked, discovery, peers >>

\* stop_client takes the session out of the controller and awaits its end,
\* then the operation goes on; without a session it goes on at once.
StopThen(dest, launches) ==
  /\ op = "idle"
  /\ next' = dest
  /\ launch' = launches
  /\ current' = None
  /\ \/ /\ current # None
        /\ Stop(current)
        /\ op' = "stopping"
        /\ subj' = current
     \/ /\ current = None
        /\ op' = "start"
        /\ UNCHANGED << vars, subj >>
  /\ UNCHANGED << last, asked, discovery, peers >>

StopClient == current # None /\ StopThen(None, FALSE)

RestartClient == last # None /\ Fresh # {} /\ StopThen(last, FALSE)

\* connect_and_launch: a restart with the clicked destination.
ConnectAndLaunch(dest) == last # None /\ Fresh # {} /\ StopThen(dest, TRUE)

\* Mutant: the start does not await the end of what was stopped.
StopForgotten ==
  /\ op = "stopping"
  /\ IF next = None THEN OperationEnds
     ELSE op' = "start" /\ subj' = None /\ UNCHANGED << next, launch >>
  /\ UNCHANGED << vars, current, last, asked, discovery, peers >>

\* stop() has returned.
ClientStopped ==
  /\ op = "stopping"
  /\ StopReturns(subj)
  /\ IF next = None THEN OperationEnds
     ELSE op' = "start" /\ subj' = None /\ UNCHANGED << next, launch >>
  /\ discovered' = Kept(discovered)
  /\ UNCHANGED << current, last, asked, target, heard, dialed, peers >>

\* BridgeSession::start_client is called: the identity cannot be loaded or the
\* thread not be spawned, or its init message is awaited.
ClientStarts ==
  /\ op = "start"
  /\ LET s == CHOOSE s \in Fresh : TRUE
     IN  \/ /\ SpawnFails(s)
            /\ OperationEnds
            /\ UNCHANGED << asked, target >>
         \/ /\ StartSession(s)
            /\ op' = "starting"
            /\ subj' = s
            /\ asked' = [asked EXCEPT ![s] = next]
            /\ target' = [target EXCEPT ![s] = IF next = Discover THEN None ELSE next]
            /\ UNCHANGED << next, launch >>
  /\ UNCHANGED << current, last, heard, discovered, dialed, peers >>

\* The session is stored, with its arguments, or the start fails.
\* connect_and_launch goes on to see whether the port is taken.
ClientStarted ==
  /\ op = "starting"
  /\ StartReturns(subj)
  /\ IF init[subj] = "ok"
     THEN current' = subj /\ last' = next
     ELSE UNCHANGED << current, last >>
  /\ IF init[subj] = "ok" /\ launch
     THEN op' = "probing" /\ UNCHANGED << subj, next, launch >>
     ELSE OperationEnds
  /\ UNCHANGED << asked, discovery, peers >>

\* wait_for_udp_bind: something has the port and the game is launched, or the
\* time is up.
ProbeEnds ==
  /\ op = "probing"
  /\ OperationEnds
  /\ UNCHANGED << vars, current, last, asked, discovery, peers >>

\* The handler is dropped at its await: what it started or stopped goes with
\* it, but a session that was stored stays.
Cancelled ==
  /\ \/ op \in {"stopping", "starting"} /\ Drop(subj)
     \/ op = "probing" /\ Cancels /\ UNCHANGED vars
  /\ OperationEnds
  /\ discovered' = Kept(discovered)
  /\ UNCHANGED << current, last, asked, target, heard, dialed, peers >>
-----------------------------------------------------------------------------
\* A step of a session's thread; with the runtime its tasks go, and with them
\* the queue of events and the target.
ThreadSteps(s) ==
  /\ ThreadNext(s)
  /\ IF thread'[s] \in {"dropped", "exited"}
     THEN /\ target' = [target EXCEPT ![s] = None]
          /\ heard' = [heard EXCEPT ![s] = << >>]
          /\ asked' = [asked EXCEPT ![s] = None]
          /\ dialed' = [dialed EXCEPT ![s] = {}]
     ELSE UNCHANGED << target, heard, asked, dialed >>
  /\ discovered' = Kept(discovered)
  /\ UNCHANGED << current, op, subj, next, launch, last, peers >>

\* The names that other nodes find in the announces of the servers.
NameHeard == [name \in Names |-> announce_app_data_to_name(server_announce_name_bytes(name))]

\* What a destination announces; only servers announce a name.
Announced(dest) ==
  [from |-> dest,
   name |-> IF dest \in Servers THEN NameHeard[names[dest]]
            ELSE announce_app_data_to_name(NoData)]

\* The announcer's tick, announce_now or an announce of some other program is
\* heard by this session's node; funnel_event queues it.
Hears(s, dest) ==
  /\ thread[s] = "running"
  /\ Len(heard[s]) < MaxHeard
  /\ heard' = [heard EXCEPT ![s] = Append(@, Announced(dest))]
  /\ UNCHANGED << vars, control, target, discovered, dialed, peers >>

\* Mutant: the last server heard is the target.
RoutesToLatest(s) ==
  /\ thread[s] = "running"
  /\ heard[s] # << >>
  /\ LET event == Head(heard[s])
     IN  /\ discovered' = [discovered EXCEPT ![s] = remember_server(@, event.from, event.name)]
         /\ target' = [target EXCEPT ![s] = event.from]
  /\ heard' = [heard EXCEPT ![s] = Tail(@)]
  /\ UNCHANGED << vars, control, dialed, peers >>

\* The router: the list is brought up to date, and the first destination heard
\* of is the target if none was asked for.
RoutesAnnounce(s) ==
  /\ thread[s] = "running"
  /\ heard[s] # << >>
  /\ LET event == Head(heard[s])
     IN  /\ discovered' = [discovered EXCEPT ![s] = remember_server(@, event.from, event.name)]
         /\ target' = [target EXCEPT ![s] = IF @ = None THEN event.from ELSE @]
  /\ heard' = [heard EXCEPT ![s] = Tail(@)]
  /\ UNCHANGED << vars, control, dialed, peers >>

\* The first packet of a source: a relay task dials the target.
Dials(s) ==
  /\ thread[s] = "running"
  /\ target[s] # None
  /\ dialed' = [dialed EXCEPT ![s] = @ \cup {target[s]}]
  /\ UNCHANGED << vars, control, target, heard, discovered, peers >>

\* A server is started again under another name.
Renamed(server, name) ==
  /\ renames < MaxRenames
  /\ name # names[server]
  /\ names' = [names EXCEPT ![server] = name]
  /\ renames' = renames + 1
  /\ UNCHANGED << vars, control, discovery >>
-----------------------------------------------------------------------------
Operations ==
  \/ \E dest \in Servers \cup {Discover} : StartClient(dest)
  \/ \E dest \in Dests : ConnectAndLaunch(dest)
  \/ StopClient \/ RestartClient
  \/ ClientStopped \/ ClientStarts \/ ClientStarted \/ ProbeEnds \/ Cancelled

NodeSteps(s) ==
  ThreadSteps(s) \/ (\E dest \in Dests : Hears(s, dest)) \/ RoutesAnnounce(s) \/ Dials(s)

ControlNext ==
  \/ Operations
  \/ \E s \in Sessions : NodeSteps(s)
  \/ \E server \in Servers, name \in Names : Renamed(server, name)

ControlSpec == ControlInit /\ [][ControlNext]_allVars

\* The threads go on, the operation goes on when what it awaits is there (the
\* probe when its time is up), the router takes its events, and of a server's
\* endless announces some come through, although each may be lost.
OperationGoesOn == ClientStopped \/ ClientStarts \/ ClientStarted \/ ProbeEnds

ControlFairness ==
  /\ WF_allVars(OperationGoesOn)
  /\ \A s \in Sessions :
       /\ WF_vars(ThreadGoesOn(s))
       /\ WF_allVars(RoutesAnnounce(s))
       /\ \A server \in Servers : SF_allVars(Hears(s, server))
FairControlSpec == ControlSpec /\ ControlFairness
-----------------------------------------------------------------------------
\* A name that an announce may show, or none.
Shown == {NameHeard[name] : name \in Names} \cup {<< >>}
Event == [from : Dests, name : Shown]
Entry == [hash : Dests, name : Shown]

\* The types of the variables, those of the sessions included.
ControlTypeOK ==
  /\ TypeOK
  /\ current \in Sessions \cup {None}
  /\ op \in {"idle", "start", "starting", "stopping", "probing"}
  /\ subj \in Sessions \cup {None}
  /\ next \in Dests \cup {Discover, None}
  /\ launch \in BOOLEAN
  /\ last \in Dests \cup {Discover, None}
  /\ asked \in [Sessions -> Dests \cup {Discover, None}]
  /\ target \in [Sessions -> Dests \cup {None}]
  /\ heard \in [Sessions -> Seq(Event)]
  /\ discovered \in [Sessions -> Seq(Entry)]
  /\ dialed \in [Sessions -> SUBSET Dests]
  /\ names \in [Servers -> Names]
  /\ renames \in 0..MaxRenames

\* No node runs that nobody can stop: unless it has been told to end, its
\* session is the controller's or that of the operation under way (spawn_bridge_node:
\* the drop of a session, of a start or of a stop reaches the thread).
NodesAreHeld ==
  \A s \in Sessions :
    thread[s] = "running" /\ ~ stop[s] => s \in {current, subj}

\* A start that the controller waits for finds the port taken by nothing but a
\* session whose start or stop was cancelled: what restart_client and
\* connect_and_launch have just stopped is never in their way.
RestartMeetsOnlyCancelled ==
  [][ \A s \in inUse' \ inUse :
        caller[s] = "starting" => \E t \in Sessions : port = t /\ caller[t] = "dropped" ]_allVars

\* A session dials one server as long as it lives, the one it was asked for if
\* it was: neither later announces nor other sessions redirect it.
SessionDialsOneServer ==
  \A s \in Sessions : \A x, y \in dialed[s] :
    x = y /\ asked[s] \in {Discover, x}

\* The list has the destination.
Lists(list, dest) == \E i \in 1..Len(list) : list[i].hash = dest

\* The browser's list names no destination twice, and the target that a session
\* settled on by itself is one of those it shows (the router enters an announce
\* into the list before it looks at server_target).
DiscoveryIsListed ==
  \A s \in Sessions :
    /\ \A i, j \in 1..Len(discovered[s]) :
         discovered[s][i].hash = discovered[s][j].hash => i = j
    /\ asked[s] = Discover /\ target[s] # None => Lists(discovered[s], target[s])

\* Every operation ends, so the mutex is given back: stop() and start() return
\* however the thread ends.
OperationsEnd == op # "idle" ~> op = "idle"

\* The list shows the server once; a name that fits in an announce is shown as
\* it was configured, a longer one by a beginning of it or not at all.
Shows(list, server) ==
  \E i \in 1..Len(list) :
    /\ \A j \in 1..Len(list) : list[j].hash = server <=> j = i
    /\ IF Bytes(names[server]) <= MaxBytes
       THEN list[i].name = Configured(names[server])
       ELSE \E k \in 0..Len(names[server]) : list[i].name = SubSeq(names[server], 1, k)

\* A node that keeps running shows in the end every server that keeps
\* announcing itself, by the name it has now, and has somewhere to dial.
ServersAreFound ==
  \A s \in Sessions : \A server \in Servers :
    <>[](thread[s] = "running")
      => <>[](Shows(discovered[s], server) /\ target[s] # None)
=============================================================================
