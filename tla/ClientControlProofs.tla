------------------------- MODULE ClientControlProofs -------------------------
(***************************************************************************)
(* Proofs about ClientControl, for any sessions, servers and names: every  *)
(* behaviour of it is one of BridgeSession, whose theorems therefore hold  *)
(* of it; the operations keep hold of every session that nobody has told   *)
(* to end (Held); and a session's target is settled once (Dialing).        *)
(***************************************************************************)
EXTENDS ClientControl, BridgeSessionProofs

\* Where an operation is tells what its session's caller does: at most one
\* session is anybody's, the stored one or the one that is awaited.
Held ==
  /\ op \in {"idle", "start", "starting", "stopping", "probing"}
  /\ current \in Sessions \cup {None}
  /\ op = "starting" => subj \in Sessions /\ caller[subj] = "starting"
  /\ op = "stopping" => subj \in Sessions /\ caller[subj] = "stopping"
  /\ op \in {"start", "starting", "stopping"} => current = None
  /\ op = "start" \/ (op = "stopping" /\ next # None) => Fresh # {}
  /\ current # None => caller[current] = "running"
  /\ \A s \in Sessions :
       /\ caller[s] = "running" => s = current
       /\ caller[s] = "starting" => op = "starting" /\ s = subj
       /\ caller[s] = "stopping" => op = "stopping" /\ s = subj
       /\ caller[s] = "dropped" => stop[s]

\* A step of an operation is a step of one session's caller, or none.
LEMMA OperationMaps ==
  ASSUME Held, Operations
  PROVE  [Next]_vars
<1>1. ASSUME NEW s \in Sessions, CallerNext(s) PROVE Next
  BY <1>1 DEF Next
<1>2. ASSUME NEW dest, NEW launches, StopThen(dest, launches) PROVE [Next]_vars
  <2>1. CASE current # None /\ Stop(current)
    BY <2>1, <1>1 DEF Held, CallerNext
  <2>2. CASE UNCHANGED vars
    BY <2>2
  <2>3. QED
    BY <1>2, <2>1, <2>2 DEF StopThen
<1>3. CASE \E dest \in Servers \cup {Discover} : StartClient(dest)
  BY <1>3 DEF StartClient
<1>4. CASE \E dest \in Dests : ConnectAndLaunch(dest)
  BY <1>4, <1>2 DEF ConnectAndLaunch
<1>5. CASE StopClient \/ RestartClient
  BY <1>5, <1>2 DEF StopClient, RestartClient
<1>6. CASE ClientStopped
  BY <1>6, <1>1 DEF ClientStopped, Held, CallerNext
<1>7. CASE ClientStarts
  <2> DEFINE t == CHOOSE s \in Fresh : TRUE
  <2>1. t \in Sessions
    BY <1>7 DEF ClientStarts, Held, Fresh
  <2>2. StartSession(t) \/ SpawnFails(t)
    BY <1>7 DEF ClientStarts
  <2>3. QED
    BY <2>1, <2>2, <1>1 DEF CallerNext
<1>8. CASE ClientStarted
  BY <1>8, <1>1 DEF ClientStarted, Held, CallerNext
<1>9. CASE ProbeEnds
  BY <1>9 DEF ProbeEnds
<1>10. CASE Cancelled
  BY <1>10, <1>1 DEF Cancelled, Held, CallerNext
<1>11. QED
  BY <1>3, <1>4, <1>5, <1>6, <1>7, <1>8, <1>9, <1>10 DEF Operations

\* So is every step: what the nodes hear, and what servers are called, is no
\* step of a session.
LEMMA StepMaps ==
  ASSUME Held, [ControlNext]_allVars
  PROVE  [Next]_vars
<1>1. CASE Operations
  BY <1>1, OperationMaps
<1>2. ASSUME NEW s \in Sessions, NodeSteps(s) PROVE [Next]_vars
  BY <1>2 DEF NodeSteps, ThreadSteps, Hears, RoutesAnnounce, Dials, Next
<1>3. ASSUME NEW server, NEW name, Renamed(server, name) PROVE [Next]_vars
  BY <1>3 DEF Renamed
<1>4. CASE UNCHANGED allVars
  BY <1>4 DEF allVars
<1>5. QED
  BY <1>1, <1>2, <1>3, <1>4 DEF ControlNext

\* Held holds initially.
LEMMA InitHeld == ControlInit => Held
BY DEF ControlInit, Init, Held

\* Held is kept by every step of an operation.
LEMMA OperationKeepsHeld ==
  ASSUME Held, IInv, Operations
  PROVE  Held'
<1> USE SessionAssumption, ControlAssumption
<1> USE DEF Held, Fresh, OperationEnds, control, discovery, peers
<1>1. CASE \E dest \in Servers \cup {Discover} : StartClient(dest)
  BY <1>1 DEF StartClient, vars
<1>2. ASSUME NEW dest, NEW launches, StopThen(dest, launches),
             dest # None => Fresh # {}, current = None => Fresh # {}
      PROVE  Held'
  <2>1. CASE current # None
    BY <1>2, <2>1 DEF StopThen, Stop, IInv, TypeOK
  <2>2. CASE current = None
    BY <1>2, <2>2 DEF StopThen, vars
  <2>3. QED
    BY <2>1, <2>2
<1>3. CASE \E dest \in Dests : ConnectAndLaunch(dest)
  BY <1>3, <1>2 DEF ConnectAndLaunch
<1>4. CASE StopClient \/ RestartClient
  BY <1>4, <1>2 DEF StopClient, RestartClient
<1>5. CASE ClientStopped
  BY <1>5 DEF ClientStopped, StopReturns, IInv, TypeOK
<1>6. CASE ClientStarts
  <2> DEFINE t == CHOOSE s \in Fresh : TRUE
  <2>1. t \in Sessions /\ caller[t] = "new"
    BY <1>6 DEF ClientStarts
  <2>2. CASE SpawnFails(t) /\ OperationEnds
    BY <1>6, <2>1, <2>2 DEF ClientStarts, SpawnFails, IInv, TypeOK
  <2>3. CASE StartSession(t) /\ op' = "starting" /\ subj' = t
    BY <1>6, <2>1, <2>3 DEF ClientStarts, StartSession, IInv, TypeOK
  <2>4. QED
    BY <1>6, <2>2, <2>3 DEF ClientStarts
<1>7. CASE ClientStarted
  BY <1>7 DEF ClientStarted, StartReturns, IInv, TypeOK
<1>8. CASE ProbeEnds
  BY <1>8 DEF ProbeEnds, vars
<1>9. CASE Cancelled
  BY <1>9 DEF Cancelled, Drop, vars, IInv, TypeOK
<1>10. QED
  BY <1>1, <1>3, <1>4, <1>5, <1>6, <1>7, <1>8, <1>9 DEF Operations

\* The other steps leave the callers and the operation alone.
LEMMA StepKeepsHeld ==
  ASSUME Held, IInv, [ControlNext]_allVars
  PROVE  Held'
<1>1. CASE Operations
  BY <1>1, OperationKeepsHeld
<1>2. CASE UNCHANGED << caller, stop, current, op, subj, next >>
  BY <1>2 DEF Held, Fresh
<1>3. ASSUME NEW s \in Sessions, NodeSteps(s)
      PROVE  UNCHANGED << caller, stop, current, op, subj, next >>
  BY <1>3 DEF NodeSteps, ThreadSteps, Hears, RoutesAnnounce, Dials, ThreadNext, RuntimeFails,
              Build, BuildFails, StopSeen, NodeEnds, DropRuntime, SignalDone, vars, control
<1>4. ASSUME NEW server, NEW name, Renamed(server, name)
      PROVE  UNCHANGED << caller, stop, current, op, subj, next >>
  BY <1>4 DEF Renamed, vars, control
<1>5. QED
  BY <1>1, <1>2, <1>3, <1>4 DEF ControlNext, allVars, vars, control

\* A session's step keeps the invariant of BridgeSession.
LEMMA SessionStepKeepsIInv ==
  ASSUME IInv, [Next]_vars
  PROVE  IInv'
<1>1. CASE Next
  BY <1>1, CallerStep, ThreadStep DEF Next
<1>2. CASE UNCHANGED vars
  BY <1>2 DEF vars, IInv, TypeOK
<1>3. QED
  BY <1>1, <1>2

\* Both invariants hold together.
LEMMA ControlInductive == ControlSpec => [](Held /\ IInv)
<1>1. ControlInit => Held /\ IInv
  BY InitHeld, InitIInv DEF ControlInit
<1>2. Held /\ IInv /\ [ControlNext]_allVars => Held' /\ IInv'
  BY StepKeepsHeld, StepMaps, SessionStepKeepsIInv
<1>3. QED
  BY <1>1, <1>2, PTL DEF ControlSpec

\* The controller's operations use sessions as BridgeSession lets its callers:
\* every behaviour of the client role is one of its sessions.
THEOREM ControlImplementsSessions == ControlSpec => Spec
<1>1. ControlInit => Init
  BY DEF ControlInit
<1>2. Held /\ [ControlNext]_allVars => [Next]_vars
  BY StepMaps
<1>3. QED
  BY <1>1, <1>2, ControlInductive, PTL DEF ControlSpec, Spec

\* What stop() promises, of the sessions of the controller.
THEOREM ControlStopReleases == ControlSpec => []StopReleasesPort
BY ControlImplementsSessions, StopReleases, PTL

\* What a failed start leaves, of the sessions of the controller.
THEOREM ControlFailedStartHolds == ControlSpec => []FailedStartHoldsNothing
BY ControlImplementsSessions, FailedStartHolds, PTL

\* A running node that has not been told to end belongs to the controller or
\* to the operation under way: nobody loses hold of one.
THEOREM NodesHeld == ControlSpec => []NodesAreHeld
<1>1. Held /\ IInv => NodesAreHeld
  <2> SUFFICES ASSUME Held, IInv, NEW s \in Sessions, thread[s] = "running", ~ stop[s]
               PROVE  s \in {current, subj}
    BY DEF NodesAreHeld
  <2>1. caller[s] \in {"starting", "running", "stopping"}
    BY DEF Held, IInv, TypeOK, CallerStates
  <2>2. QED
    BY <2>1 DEF Held
<1>2. QED
  BY <1>1, ControlInductive, PTL

\* A start that finds the port taken finds a session there whose start or stop
\* was cancelled: the one that the operation has stopped is gone, and there is
\* no other.
THEOREM RestartFindsOnlyCancelled == ControlSpec => RestartMeetsOnlyCancelled
<1> DEFINE A == \A s \in inUse' \ inUse :
                  caller[s] = "starting" => \E t \in Sessions : port = t /\ caller[t] = "dropped"
<1>1. Held /\ IInv /\ [ControlNext]_allVars => [A]_allVars
  <2> SUFFICES ASSUME Held, IInv, [ControlNext]_allVars,
                      NEW s \in inUse' \ inUse, caller[s] = "starting"
               PROVE  \E t \in Sessions : port = t /\ caller[t] = "dropped"
    OBVIOUS
  <2>1. PICK u \in Sessions : BuildFails(u) /\ inUse' # inUse
    BY StepMaps DEF Next, CallerNext, ThreadNext, StartSession, SpawnFails, StartReturns, Stop,
                    StopReturns, Drop, RuntimeFails, Build, BuildFails, StopSeen, NodeEnds,
                    DropRuntime, SignalDone, vars
  <2>2. /\ u = s
        /\ \E t \in Sessions \ {u} :
             port = t /\ caller[t] \in {"starting", "running", "stopping", "dropped"}
    BY <2>1, TakenByUnstopped
  <2>3. PICK t \in Sessions \ {s} :
          port = t /\ caller[t] \in {"starting", "running", "stopping", "dropped"}
    BY <2>2
  <2>4. op = "starting" /\ subj = s /\ current = None
    BY <2>2 DEF Held
  <2>5. caller[t] = "dropped"
    BY <2>3, <2>4, SessionAssumption DEF Held
  <2>6. QED
    BY <2>3, <2>5
<1>2. QED
  BY <1>1, ControlInductive, PTL DEF ControlSpec, RestartMeetsOnlyCancelled
-----------------------------------------------------------------------------
\* A list of servers stays one when an announce is entered.
LEMMA RememberType ==
  ASSUME NEW list \in Seq(Entry), NEW event \in Event
  PROVE  remember_server(list, event.from, event.name) \in Seq(Entry)
<1>1. [hash |-> event.from, name |-> event.name] \in Entry
  BY DEF Event, Entry
<1>2. CASE \E i \in 1..Len(list) : list[i].hash = event.from
  BY <1>1, <1>2 DEF remember_server
<1>3. CASE ~ \E i \in 1..Len(list) : list[i].hash = event.from
  BY <1>1, <1>3 DEF remember_server
<1>4. QED
  BY <1>2, <1>3

\* Every announce is of the type the router expects.
LEMMA AnnouncedType ==
  ASSUME names \in [Servers -> Names], NEW dest \in Dests
  PROVE  Announced(dest) \in Event
BY DEF Announced, Event, Shown, NameHeard, announce_app_data_to_name, NoData

\* Operations keep the types.
LEMMA OperationTypes ==
  ASSUME ControlTypeOK, Held, TypeOK', Operations
  PROVE  ControlTypeOK'
<1> USE DEF ControlTypeOK, OperationEnds, control, discovery, peers, Dests
<1>0. ASSUME NEW lists \in [Sessions -> Seq(Entry)] PROVE Kept(lists) \in [Sessions -> Seq(Entry)]
  BY <1>0 DEF Kept
<1>1. CASE \E dest \in Servers \cup {Discover} : StartClient(dest)
  BY <1>1 DEF StartClient
<1>2. ASSUME NEW dest \in Dests \cup {Discover, None}, NEW launches \in BOOLEAN,
             StopThen(dest, launches)
      PROVE  ControlTypeOK'
  BY <1>2 DEF StopThen
<1>3. CASE \E dest \in Dests : ConnectAndLaunch(dest)
  BY <1>3, <1>2 DEF ConnectAndLaunch
<1>4. CASE StopClient \/ RestartClient
  BY <1>4, <1>2 DEF StopClient, RestartClient
<1>5. CASE ClientStopped
  BY <1>5, <1>0 DEF ClientStopped
<1>6. CASE ClientStarts
  <2> DEFINE t == CHOOSE s \in Fresh : TRUE
  <2>1. t \in Sessions
    BY <1>6 DEF ClientStarts, Held, Fresh
  <2>2. next \in Dests \cup {Discover, None}
        /\ (IF next = Discover THEN None ELSE next) \in Dests \cup {None}
    OBVIOUS
  <2>3. QED
    BY <1>6, <2>1, <2>2 DEF ClientStarts
<1>7. CASE ClientStarted
  BY <1>7 DEF ClientStarted, Held
<1>8. CASE ProbeEnds
  BY <1>8 DEF ProbeEnds
<1>9. CASE Cancelled
  BY <1>9, <1>0 DEF Cancelled
<1>10. QED
  BY <1>1, <1>3, <1>4, <1>5, <1>6, <1>7, <1>8, <1>9 DEF Operations

\* So do the steps of nodes and servers.
LEMMA OtherTypes ==
  ASSUME ControlTypeOK, TypeOK',
         \/ \E s \in Sessions : NodeSteps(s)
         \/ \E server \in Servers, name \in Names : Renamed(server, name)
         \/ UNCHANGED allVars
  PROVE  ControlTypeOK'
<1> USE DEF ControlTypeOK, allVars, control, discovery, peers
<1>1. ASSUME NEW s \in Sessions, ThreadSteps(s) PROVE ControlTypeOK'
  <2>1. /\ asked' \in [Sessions -> Dests \cup {Discover, None}]
        /\ target' \in [Sessions -> Dests \cup {None}]
        /\ dialed' \in [Sessions -> SUBSET Dests]
    BY <1>1 DEF ThreadSteps
  <2>2. << >> \in Seq(Event) /\ << >> \in Seq(Entry)
    OBVIOUS
  <2>3. heard' \in [Sessions -> Seq(Event)]
    BY <1>1, <2>2 DEF ThreadSteps
  <2>4. discovered' \in [Sessions -> Seq(Entry)]
    BY <1>1, <2>2 DEF ThreadSteps, Kept
  <2>5. QED
    BY <1>1, <2>1, <2>3, <2>4 DEF ThreadSteps
<1>2. ASSUME NEW s \in Sessions, NEW dest \in Dests, Hears(s, dest) PROVE ControlTypeOK'
  BY <1>2, AnnouncedType DEF Hears
<1>3. ASSUME NEW s \in Sessions, RoutesAnnounce(s) PROVE ControlTypeOK'
  <2> DEFINE event == Head(heard[s])
  <2>1. event \in Event /\ Tail(heard[s]) \in Seq(Event)
    BY <1>3 DEF RoutesAnnounce
  <2>2. event.from \in Dests
    BY <2>1 DEF Event
  <2>3. remember_server(discovered[s], event.from, event.name) \in Seq(Entry)
    BY <2>1, RememberType
  <2>4. QED
    BY <1>3, <2>1, <2>2, <2>3 DEF RoutesAnnounce
<1>4. ASSUME NEW s \in Sessions, Dials(s) PROVE ControlTypeOK'
  BY <1>4 DEF Dials
<1>5. ASSUME NEW server \in Servers, NEW name \in Names, Renamed(server, name)
      PROVE  ControlTypeOK'
  BY <1>5, ControlAssumption DEF Renamed
<1>6. QED
  BY <1>1, <1>2, <1>3, <1>4, <1>5 DEF NodeSteps

\* What a session was asked for, has settled on and has dialed: the target only
\* changes from none to the first, and only a session with a runtime has one.
Dialing ==
  /\ op = "start" => next # None
  /\ \A s \in Sessions :
       /\ thread[s] \in {"none", "dropped", "exited"} => dialed[s] = {}
       /\ asked[s] = None => thread[s] \in {"none", "dropped", "exited"}
       /\ asked[s] \in Dests => target[s] = asked[s]
       /\ dialed[s] # {} => target[s] # None /\ dialed[s] = {target[s]}

\* Operations keep Dialing: only a session without a thread is asked anything.
LEMMA OperationDialing ==
  ASSUME ControlTypeOK, Held, IInv, Dialing, Operations
  PROVE  Dialing'
<1> USE ControlAssumption, SessionAssumption
<1> USE DEF Dialing, ControlTypeOK, OperationEnds, control, discovery, peers
<1>1. CASE \E dest \in Servers \cup {Discover} : StartClient(dest)
  BY <1>1 DEF StartClient, vars, Dests
<1>2. ASSUME NEW dest, NEW launches, StopThen(dest, launches), dest # None \/ current # None
      PROVE  Dialing'
  BY <1>2 DEF StopThen, Stop, vars
<1>3. CASE \E dest \in Dests : ConnectAndLaunch(dest)
  BY <1>3, <1>2 DEF ConnectAndLaunch
<1>4. CASE StopClient \/ RestartClient
  BY <1>4, <1>2 DEF StopClient, RestartClient
<1>5. CASE ClientStopped
  BY <1>5 DEF ClientStopped, StopReturns
<1>6. CASE ClientStarts
  <2> DEFINE t == CHOOSE s \in Fresh : TRUE
  <2>1. t \in Sessions /\ caller[t] = "new"
    BY <1>6 DEF ClientStarts, Held, Fresh
  <2>2. thread[t] = "none" /\ dialed[t] = {}
    BY <2>1 DEF IInv
  <2>3. CASE SpawnFails(t) /\ OperationEnds /\ UNCHANGED << asked, target >>
    BY <1>6, <2>3 DEF ClientStarts, SpawnFails
  <2>4. CASE /\ StartSession(t)
             /\ op' = "starting"
             /\ asked' = [asked EXCEPT ![t] = next]
             /\ target' = [target EXCEPT ![t] = IF next = Discover THEN None ELSE next]
    BY <1>6, <2>1, <2>2, <2>4 DEF ClientStarts, StartSession, TypeOK
  <2>5. QED
    BY <1>6, <2>3, <2>4 DEF ClientStarts
<1>7. CASE ClientStarted
  BY <1>7 DEF ClientStarted, StartReturns
<1>8. CASE ProbeEnds
  BY <1>8 DEF ProbeEnds, vars
<1>9. CASE Cancelled
  BY <1>9 DEF Cancelled, Drop, vars
<1>10. QED
  BY <1>1, <1>3, <1>4, <1>5, <1>6, <1>7, <1>8, <1>9 DEF Operations

\* So do the other steps: the router sets a target only where there is none.
LEMMA OtherDialing ==
  ASSUME ControlTypeOK, Dialing,
         \/ \E s \in Sessions : NodeSteps(s)
         \/ \E server \in Servers, name \in Names : Renamed(server, name)
         \/ UNCHANGED allVars
  PROVE  Dialing'
<1> USE ControlAssumption
<1> USE DEF Dialing, ControlTypeOK, TypeOK, allVars, vars, control, discovery, peers
<1>1. ASSUME NEW s \in Sessions, ThreadSteps(s) PROVE Dialing'
  <2>1. \A u \in Sessions \ {s} : thread'[u] = thread[u]
    BY <1>1 DEF ThreadSteps, ThreadNext, RuntimeFails, Build, BuildFails, StopSeen, NodeEnds,
                DropRuntime, SignalDone
  <2>2. thread[s] # "none" /\ thread'[s] # "none"
    BY <1>1 DEF ThreadSteps, ThreadNext, RuntimeFails, Build, BuildFails, StopSeen, NodeEnds,
                DropRuntime, SignalDone
  <2>3. thread[s] \in {"dropped", "exited"} => thread'[s] \in {"dropped", "exited"}
    BY <1>1 DEF ThreadSteps, ThreadNext, RuntimeFails, Build, BuildFails, StopSeen, NodeEnds,
                DropRuntime, SignalDone
  <2>4. QED
    BY <1>1, <2>1, <2>2, <2>3 DEF ThreadSteps
<1>2. ASSUME NEW s \in Sessions, NEW dest \in Dests, Hears(s, dest) PROVE Dialing'
  BY <1>2 DEF Hears
<1>3. ASSUME NEW s \in Sessions, RoutesAnnounce(s) PROVE Dialing'
  BY <1>3 DEF RoutesAnnounce
<1>4. ASSUME NEW s \in Sessions, Dials(s) PROVE Dialing'
  BY <1>4 DEF Dials
<1>5. ASSUME NEW server, NEW name, Renamed(server, name) PROVE Dialing'
  BY <1>5 DEF Renamed
<1>6. QED
  BY <1>1, <1>2, <1>3, <1>4, <1>5 DEF NodeSteps

\* The types and Dialing hold together.
LEMMA DialingInductive == ControlSpec => [](ControlTypeOK /\ Dialing)
<1>1. ControlInit => ControlTypeOK /\ Dialing
  <2> SUFFICES ASSUME ControlInit PROVE ControlTypeOK /\ Dialing
    OBVIOUS
  <2>1. TypeOK
    BY InitIInv DEF ControlInit, IInv
  <2>2. << >> \in Seq(Event) /\ << >> \in Seq(Entry)
    OBVIOUS
  <2>3. heard \in [Sessions -> Seq(Event)] /\ discovered \in [Sessions -> Seq(Entry)]
    BY <2>2 DEF ControlInit
  <2>4. ControlTypeOK
    <3>1. asked \in [Sessions -> Dests \cup {Discover, None}] /\ target \in [Sessions -> Dests \cup {None}]
      BY DEF ControlInit
    <3>2. dialed \in [Sessions -> SUBSET Dests]
      BY DEF ControlInit
    <3>3. renames \in 0..MaxRenames
      BY ControlAssumption DEF ControlInit
    <3>4. QED
      BY <2>1, <2>3, <3>1, <3>2, <3>3 DEF ControlInit, ControlTypeOK
  <2>5. Dialing
    BY ControlAssumption DEF ControlInit, Init, Dialing
  <2>6. QED
    BY <2>4, <2>5
<1>2. /\ ControlTypeOK /\ Dialing /\ Held /\ IInv
      /\ IInv'
      /\ [ControlNext]_allVars
      => ControlTypeOK' /\ Dialing'
  BY OperationTypes, OtherTypes, OperationDialing, OtherDialing DEF ControlNext, IInv
<1>3. QED
  BY <1>1, <1>2, ControlInductive, PTL DEF ControlSpec

\* The variables keep their types, those of the sessions included.
THEOREM ControlTypeCorrect == ControlSpec => []ControlTypeOK
BY DialingInductive, PTL

\* A session dials one destination as long as its node lives, and the one it
\* was asked for if it was.
THEOREM DialsOneServer == ControlSpec => []SessionDialsOneServer
<1>1. ControlTypeOK /\ Dialing => SessionDialsOneServer
  BY ControlAssumption DEF ControlTypeOK, Dialing, SessionDialsOneServer
<1>2. QED
  BY <1>1, DialingInductive, PTL
-----------------------------------------------------------------------------
\* No two entries of the list are of one destination.
Single(list) == \A i, j \in 1..Len(list) : list[i].hash = list[j].hash => i = j

\* What remember_server makes of a list of any length: an entry of the
\* destination, with this name, and every other entry as it was.
LEMMA RememberFacts ==
  ASSUME NEW list \in Seq(Entry), NEW event \in Event
  PROVE  LET new == remember_server(list, event.from, event.name)
         IN  /\ \A dest \in Dests : Lists(new, dest) <=> Lists(list, dest) \/ dest = event.from
             /\ \A i \in 1..Len(new) : new[i].hash = event.from => new[i].name = event.name
             /\ \A i \in 1..Len(list) : list[i].hash # event.from => new[i] = list[i]
             /\ Single(list) => Single(new)
<1> DEFINE entry == [hash |-> event.from, name |-> event.name]
           new   == remember_server(list, event.from, event.name)
<1>1. /\ entry \in Entry /\ entry.hash = event.from /\ entry.name = event.name
      /\ event.from \in Dests
  BY DEF Event, Entry
<1>2. CASE \E i \in 1..Len(list) : list[i].hash = event.from
  <2>1. new = [i \in 1..Len(list) |-> IF list[i].hash = event.from THEN entry ELSE list[i]]
    BY <1>2 DEF remember_server
  <2>2. /\ Len(new) = Len(list)
        /\ \A i \in 1..Len(list) : new[i] = IF list[i].hash = event.from THEN entry ELSE list[i]
    BY <2>1
  <2>3. \A i \in 1..Len(list) : new[i].hash = list[i].hash
    BY <1>1, <2>2
  <2>4. QED
    BY <1>1, <1>2, <2>2, <2>3 DEF Lists, Single
<1>3. CASE ~ \E i \in 1..Len(list) : list[i].hash = event.from
  <2>1. new = Append(list, entry)
    BY <1>3 DEF remember_server
  <2>2. /\ Len(list) \in Nat /\ Len(new) = Len(list) + 1
        /\ new[Len(list) + 1] = entry
        /\ \A i \in 1..Len(list) : new[i] = list[i]
    BY <1>1, <2>1
  <2>3. \A i \in 1..Len(new) : i \in 1..Len(list) \/ i = Len(list) + 1
    BY <2>2
  <2>4. 1..Len(list) \subseteq 1..Len(new) /\ Len(list) + 1 \in 1..Len(new)
    BY <2>2
  <2>5. QED
    BY <1>1, <1>3, <2>2, <2>3, <2>4 DEF Lists, Single
<1>4. QED
  BY <1>2, <1>3

\* DiscoveryIsListed, and a session without a runtime has no target.
Dead(s) == thread[s] \in {"none", "dropped", "exited"}
Listed ==
  /\ DiscoveryIsListed
  /\ \A s \in Sessions : Dead(s) => target[s] = None

\* What a step that lists nothing new may do to each session.
LEMMA ListedLocally ==
  ASSUME Listed,
         \A s \in Sessions :
           /\ Dead(s)' => target'[s] = None
           /\ \/ /\ discovered'[s] = discovered[s]
                 /\ asked'[s] = asked[s] /\ target'[s] = target[s]
              \/ /\ discovered'[s] \in {discovered[s], << >>}
                 /\ asked'[s] = Discover => target'[s] = None
  PROVE  Listed'
<1> SUFFICES ASSUME NEW s \in Sessions
             PROVE  /\ \A i, j \in 1..Len(discovered'[s]) :
                         discovered'[s][i].hash = discovered'[s][j].hash => i = j
                    /\ asked'[s] = Discover /\ target'[s] # None => Lists(discovered'[s], target'[s])
                    /\ Dead(s)' => target'[s] = None
  BY DEF Listed, DiscoveryIsListed, Lists, Dead
<1>1. CASE discovered'[s] = << >> /\ (asked'[s] = Discover => target'[s] = None)
  <2>1. Len(<< >>) = 0
    OBVIOUS
  <2>2. QED
    BY <1>1, <2>1
<1>2. CASE discovered'[s] = discovered[s]
  BY <1>2 DEF Listed, DiscoveryIsListed
<1>3. QED
  BY <1>1, <1>2

\* A list that goes was that of a session without a target.
LEMMA KeptListed ==
  ASSUME ControlTypeOK, Listed, discovered' = Kept(discovered), asked' = asked, target' = target,
         \A s \in Sessions : Dead(s)' => target'[s] = None
  PROVE  Listed'
<1>1. \A s \in Sessions :
        \/ discovered'[s] = discovered[s]
        \/ discovered'[s] = << >> /\ Dead(s)'
  BY DEF Kept, Dead
<1>2. QED
  BY <1>1, ListedLocally

\* Operations keep it: only a session without a thread is given a target.
LEMMA OperationListed ==
  ASSUME ControlTypeOK, Held, IInv, Listed, Operations
  PROVE  Listed'
<1> USE ControlAssumption, SessionAssumption
<1> USE DEF ControlTypeOK, OperationEnds, control, discovery, peers
<1>0. ASSUME UNCHANGED << thread, target, asked, discovered >> PROVE Listed'
  BY <1>0 DEF Listed, DiscoveryIsListed, Lists, Dead
<1>1. CASE \E dest \in Servers \cup {Discover} : StartClient(dest)
  BY <1>1, <1>0 DEF StartClient, vars
<1>2. ASSUME NEW dest, NEW launches, StopThen(dest, launches) PROVE Listed'
  BY <1>2, <1>0 DEF StopThen, Stop, vars
<1>3. CASE \E dest \in Dests : ConnectAndLaunch(dest)
  BY <1>3, <1>2 DEF ConnectAndLaunch
<1>4. CASE StopClient \/ RestartClient
  BY <1>4, <1>2 DEF StopClient, RestartClient
<1>5. CASE ClientStopped
  <2>1. UNCHANGED << thread, target, asked >> /\ discovered' = Kept(discovered)
    BY <1>5 DEF ClientStopped, StopReturns
  <2>2. QED
    BY <2>1, KeptListed DEF Listed, Dead
<1>6. CASE ClientStarts
  <2>1. PICK t \in Sessions : t = (CHOOSE s \in Fresh : TRUE) /\ caller[t] = "new"
    BY <1>6 DEF ClientStarts, Held, Fresh
  <2>2. thread[t] = "none"
    BY <2>1 DEF IInv
  <2>3. CASE SpawnFails(t) /\ OperationEnds /\ UNCHANGED << asked, target >>
    BY <1>6, <2>3, <1>0 DEF ClientStarts, SpawnFails
  <2>4. CASE /\ StartSession(t)
             /\ op' = "starting"
             /\ asked' = [asked EXCEPT ![t] = next]
             /\ target' = [target EXCEPT ![t] = IF next = Discover THEN None ELSE next]
    <3>1. discovered' = discovered
      BY <1>6 DEF ClientStarts
    <3>2. /\ asked'[t] = next /\ target'[t] = IF next = Discover THEN None ELSE next
          /\ thread'[t] = "building"
      BY <2>1, <2>4 DEF StartSession, TypeOK
    <3>3. \A s \in Sessions \ {t} :
            asked'[s] = asked[s] /\ target'[s] = target[s] /\ thread'[s] = thread[s]
      BY <2>4 DEF StartSession, TypeOK
    <3>4. Dead(t)' = FALSE
      BY <3>2 DEF Dead
    <3>5. \A s \in Sessions \ {t} : Dead(s)' => target'[s] = None
      BY <3>3 DEF Listed, Dead
    <3>6. QED
      BY <2>1, <3>1, <3>2, <3>3, <3>4, <3>5, ListedLocally
  <2>5. QED
    BY <1>6, <2>1, <2>3, <2>4 DEF ClientStarts
<1>7. CASE ClientStarted
  BY <1>7, <1>0 DEF ClientStarted, StartReturns
<1>8. CASE ProbeEnds
  BY <1>8, <1>0 DEF ProbeEnds, vars
<1>9. CASE Cancelled
  <2>1. UNCHANGED << thread, target, asked >> /\ discovered' = Kept(discovered)
    BY <1>9 DEF Cancelled, Drop, vars
  <2>2. QED
    BY <2>1, KeptListed DEF Listed, Dead
<1>10. QED
  BY <1>1, <1>3, <1>4, <1>5, <1>6, <1>7, <1>8, <1>9 DEF Operations

\* So do the other steps: the router lists whom it makes the target, and the
\* target goes with the runtime.
LEMMA OtherListed ==
  ASSUME ControlTypeOK, Listed,
         \/ \E s \in Sessions : NodeSteps(s)
         \/ \E server \in Servers, name \in Names : Renamed(server, name)
         \/ UNCHANGED allVars
  PROVE  Listed'
<1> USE ControlAssumption
<1> USE DEF ControlTypeOK, allVars, vars, control, discovery, peers
<1>0. ASSUME UNCHANGED << thread, target, asked, discovered >> PROVE Listed'
  BY <1>0 DEF Listed, DiscoveryIsListed, Lists, Dead
<1>1. ASSUME NEW s \in Sessions, ThreadSteps(s) PROVE Listed'
  <2>1. /\ thread' \in [Sessions -> ThreadStates]
        /\ \A u \in Sessions \ {s} : thread'[u] = thread[u]
        /\ thread'[s] # "none"
    BY <1>1 DEF ThreadSteps, ThreadNext, RuntimeFails, Build, BuildFails, StopSeen, NodeEnds,
                DropRuntime, SignalDone, TypeOK, ThreadStates
  <2>2. CASE thread'[s] \in {"dropped", "exited"}
    <3>1. /\ target' = [target EXCEPT ![s] = None]
          /\ asked' = [asked EXCEPT ![s] = None]
          /\ discovered' = Kept(discovered)
      BY <1>1, <2>2 DEF ThreadSteps
    <3>2. /\ target'[s] = None
          /\ \A u \in Sessions \ {s} : target'[u] = target[u] /\ asked'[u] = asked[u]
      BY <3>1
    <3>3. \A u \in Sessions : Dead(u)' => target'[u] = None
      BY <2>1, <3>2 DEF Listed, Dead
    <3>4. \A u \in Sessions :
            \/ discovered'[u] = discovered[u]
            \/ discovered'[u] = << >> /\ Dead(u)'
      BY <3>1 DEF Kept, Dead
    <3>5. QED
      BY <3>2, <3>3, <3>4, ListedLocally
  <2>3. CASE thread'[s] \notin {"dropped", "exited"}
    <3>1. UNCHANGED << target, asked >> /\ discovered' = Kept(discovered)
      BY <1>1, <2>3 DEF ThreadSteps
    <3>2. \A u \in Sessions : Dead(u)' => target'[u] = None
      BY <2>1, <2>3, <3>1 DEF Listed, Dead
    <3>3. QED
      BY <3>1, <3>2, KeptListed
  <2>4. QED
    BY <2>2, <2>3
<1>2. ASSUME NEW s \in Sessions, NEW dest \in Dests, Hears(s, dest) PROVE Listed'
  BY <1>2, <1>0 DEF Hears
<1>3. ASSUME NEW s \in Sessions, RoutesAnnounce(s) PROVE Listed'
  <2> DEFINE event == Head(heard[s])
             list  == discovered[s]
             new   == remember_server(list, event.from, event.name)
  <2>1. event \in Event /\ list \in Seq(Entry)
    BY <1>3 DEF RoutesAnnounce
  <2>2. event.from \in Dests
    BY <2>1 DEF Event
  <2>3. /\ \A dest \in Dests : Lists(new, dest) <=> Lists(list, dest) \/ dest = event.from
        /\ Single(list) => Single(new)
    BY <2>1, RememberFacts
  <2>4. Single(list)
    BY DEF Listed, DiscoveryIsListed, Single
  <2>5. /\ thread[s] = "running" /\ UNCHANGED << thread, asked >>
        /\ discovered' = [discovered EXCEPT ![s] = new]
        /\ target' = [target EXCEPT ![s] = IF @ = None THEN event.from ELSE @]
    BY <1>3 DEF RoutesAnnounce
  <2>6. asked[s] = Discover => Lists(new, target'[s])
    <3>1. CASE target[s] = None
      BY <2>2, <2>3, <2>5, <3>1
    <3>2. CASE target[s] # None
      BY <2>3, <2>5, <3>2 DEF Listed, DiscoveryIsListed
    <3>3. QED
      BY <3>1, <3>2
  <2>7. discovered'[s] = new /\ \A u \in Sessions \ {s} : discovered'[u] = discovered[u] /\ target'[u] = target[u]
    BY <2>5
  <2> HIDE DEF new, list, event
  <2>8. DiscoveryIsListed'
    <3>1. \A u \in Sessions \ {s} :
            /\ \A i, j \in 1..Len(discovered'[u]) :
                 discovered'[u][i].hash = discovered'[u][j].hash => i = j
            /\ asked'[u] = Discover /\ target'[u] # None => Lists(discovered'[u], target'[u])
      BY <2>5, <2>7 DEF Listed, DiscoveryIsListed, Lists
    <3>2. /\ \A i, j \in 1..Len(discovered'[s]) :
                 discovered'[s][i].hash = discovered'[s][j].hash => i = j
          /\ asked'[s] = Discover /\ target'[s] # None => Lists(discovered'[s], target'[s])
      BY <2>3, <2>4, <2>5, <2>6, <2>7 DEF Single
    <3>3. QED
      BY <3>1, <3>2 DEF DiscoveryIsListed, Lists
  <2>9. QED
    BY <2>5, <2>7, <2>8 DEF Listed, Dead
<1>4. ASSUME NEW s \in Sessions, Dials(s) PROVE Listed'
  BY <1>4, <1>0 DEF Dials
<1>5. ASSUME NEW server, NEW name, Renamed(server, name) PROVE Listed'
  BY <1>5, <1>0 DEF Renamed
<1>6. CASE UNCHANGED allVars
  BY <1>6, <1>0
<1>7. QED
  BY <1>1, <1>2, <1>3, <1>4, <1>5, <1>6 DEF NodeSteps

\* The browser's list shows each destination once, whatever is announced and
\* however often, and the destination a session found by itself is in it.
THEOREM TargetIsListed == ControlSpec => []DiscoveryIsListed
<1>1. ControlInit => Listed
  BY SessionAssumption DEF ControlInit, Init, Listed, DiscoveryIsListed, Dead
<1>2. ControlTypeOK /\ Held /\ IInv /\ Listed /\ [ControlNext]_allVars => Listed'
  BY OperationListed, OtherListed DEF ControlNext
<1>3. Listed => DiscoveryIsListed
  BY DEF Listed
<1>4. QED
  BY <1>1, <1>2, <1>3, DialingInductive, ControlInductive, PTL DEF ControlSpec
=============================================================================
