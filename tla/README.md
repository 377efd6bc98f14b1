# Verification of the Sven Co-op over Reticulum bridge

TLA+ models of the program in `src/`, the TLC configurations that check them, and TLAPS proofs.
The bridge carries GoldSrc UDP datagrams over encrypted Reticulum links: a *bridge client* next to
the game, a *bridge server* next to the Sven Co-op dedicated server, and a controller (web panel or
desktop shell) that starts, stops and restores both and manages the dedicated server process.
The Reticulum engine (`src/vendor/`, "Prns") is a vendored dependency and is modelled only by the
events it raises and the commands it takes.

Paths below are relative to the repository; `relay.rs` is `src/src/relay.rs`, and so on.

## 1. The system

```
 GoldSrc client --UDP--> [client relay] ==link== [server relay] --UDP--> dedicated server
                              |                       |                       ^
                         BridgeSession           BridgeSession           DsManager (child process)
                              \______________ BridgeController _______________/
                                     settings.json, one mutex
                                web panel (axum)  |  desktop shell (Tauri)
```

| Component | Code | State | Operations | Interacts with |
|---|---|---|---|---|
| Framing | framing.rs | reassembly buffer | `frame`, `push` | called by both relays |
| Client relay | relay.rs 387-657 | `udp_links`, `link_data`, `server_target`, one channel pair per relay | UDP loop, relay task per first packet, two pumps, event router | engine events and commands, game clients' sockets |
| Server relay | relay.rs 178-385 | `link_senders`, `connected_clients`, one channel and socket per relay | event router, relay task per link, two pumps, announcer | engine, dedicated server's socket |
| Session lifecycle | relay.rs 157-164, 665-738 | node thread, its runtime, `stop_tx`, `done` | start, stop, drop | its caller; the OS's port table |
| Discovery | relay.rs 247-267, 502-509, 743-830, server_entry.rs | `discovered` list, `server_target` | announcer, `announce_app_data_to_name`, `remember_server`, `discovered` | router; server browser |
| Dedicated server manager | ds.rs | `live`, `cancel`, `child`, `stdin`, `task` | start, stop, status, console commands, background task | steamcmd, the server process, controller's mutex |
| SteamCMD | steamcmd.rs, ds.rs 541-615 | bootstrap, install directories and `.svends_path` on disk | find, install bootstrap (two URLs), `pull_ds` | HTTP, child process, `cancel` |
| A2S query | a2s.rs | one UDP socket per query | info, players, challenge | dedicated server |
| Controller | controller.rs | two sessions, `DsManager`, settings, last args | start/stop/restart, interfaces, resume, connect-and-launch | everything above |
| Game launcher | game.rs | none | launch | OS |
| Shells | bin/web.rs, gui/src-tauri | `Arc<Mutex<BridgeController>>` | one handler per operation | controller |
| Engine | vendor/ | links, routes, interfaces | external | relays |

What makes this code hard:

* **Tasks that share maps.** The relays are tokio tasks on one thread (a current-thread runtime per
  session): any await is a point where every other task may run. Router, relay tasks and UDP loop
  insert into and remove from the same maps, hold lock guards across awaits, and wait for room in
  bounded channels while they hold them.
* **Cancellation.** axum drops the handler of a connection that closes: `start` and `stop`
  can end at any await, with what they had done so far. The desktop shell drops nothing.
* **Threads.** Controller and dedicated server manager run on a multi-threaded runtime. An aborted
  task runs on to its next await beside the operation that aborted it.
* **Failure.** Links close at any time and lose packets, sockets report the ICMP errors of earlier
  datagrams, the dedicated server stops and comes back, channels fill.

What makes each component correct:

* Framing and the pipe: as long as no chunk is lost, what is framed comes out whole, in order and once;
  datagrams of one chunk keep that order whatever is lost.
* Relays: a link carries one source, in order; the maps name only live relays; an ended relay holds
  neither link, socket nor channel; a closed link is replaced; nobody waits for ever.
* Session: when `stop()` has returned, or a start has failed, the port is free; a dropped session
  frees it too; a restart never meets the session it has just stopped; no node runs that nobody can
  stop.
* Discovery: a server that keeps announcing itself is listed once, by its present name; a session
  dials one server only.
* Dedicated server manager: one game binary lives at a time, and `stop` and `status` know it; after
  `stop()` none lives; `stop()` returns. (Where the code falls short of that is in sections 2 and 3.)
* Controller: what ran when the process went down is restored, or its failure reported; what was
  stopped stays down; what was removed is not attached again.

## 2. Modules

Abstractions used throughout: a datagram is a number or a short sequence; the relays move datagrams
where the code moves chunks (LinkPipe is where chunks are); logging, names, hashes and wording are
left out. In the relays a step is what a task does from one await to the next; in DsManager, where
threads run in parallel, a step is one access to shared state.

**Framing** — `frame` and `Reassembler::push` as operators on byte sequences. `reset` has no caller.

**DatagramChannel** — abstract: datagrams in transit in order, any of them may be lost.

**LinkPipe** (EXTENDS Framing) — one direction of a relay, from a UDP read to a UDP write: framing,
the engine's command queue, a link that may lose packets and refuses what exceeds its MDU, the far
router's `try_send` into a bounded channel, reassembly. Both directions have this shape and differ in
what they do with an empty datagram, which `pump` tells: `from_sc` skips it (relay.rs 331, 347), the
client's relay task frames the first packet of a source whatever it is (595), and its `send_task`, which
takes the rest, ends at an empty one (616): this direction then carries nothing more. `Carried` are the
datagrams that are framed. DatagramChannel has `Discard` for those that are not.

**ClientRelay** — `start_client`. `loop`/`held` are the UDP loop and the packet it is sending;
`pc[t]` the relay task spawned for a first packet, from `establish` to `done`; `queue`, `open`,
`sender`, `receiver` the channel and pumps of relay `t`. `ReadLocked` is the read guard on
`udp_links` that `if let Some(tx) = udp_links.read().await.get(&src).cloned() { .. }` keeps until
the end of its body (edition 2021), so the `write()` in that body never succeeds: `removing` has no
way out. A relay establishes at most one link, so `t` names both.

**ServerRelay** — `start_server`. `closing` is the link for which the router awaits room for the
sentinel, under the write lock on `link_senders`: other handlers and `Remove` wait meanwhile.
`sockErr` is an ICMP error a socket keeps until the next `send` or `recv` reports it. `link` is
`lost` when the engine raised `LinkClosed` and `closed` after `close_link`, which raises nothing
on its own side.

**BridgeSession** — `spawn_bridge_node`, `stop` and drop, for sessions that all want one port.
`thread` goes building - running - unwinding - dropped (`drop(rt)`) - exited (`done_tx.send`).

**Discovery** — a name as the sequence of its characters' widths in bytes, so that the cut at
`MAX_ANNOUNCE_APP_DATA_LEN` may fall inside a character; `remember_server` on the list.

**ClientControl** (EXTENDS BridgeSession and Discovery) — the controller's client operations over real
sessions. BridgeSession lets any caller do anything with any session; here the only caller is the
operation that holds the mutex (`op`, `subj`, `next`, `launch`), on the one session in
`client_session` (`current`). `Cancelled` is the handler that axum drops: `Drop` of what the
operation awaits. The threads of all sessions, dropped ones included, run on beside the operations.
Each running node hears announces of servers and of other programs (`Hears`; any may be lost), its
router keeps `discovered` and chooses `target` (`RoutesAnnounce`), its relay tasks dial that
(`Dials`). A server may be restarted under another name (`Renamed`). `asked` and `dialed` are what a
session was started for and the destinations it has dialed.

**DsManager** — `start`, `stop` (six steps, with the awaits at which it can be dropped), `status`,
`ds_background` and the server process. Numbers in `Starts` name a start, its task and its server.
`aborted` tasks end at a state of `Awaits` (`EndsAborted`) and run on elsewhere. `"orphan"` is a
server whose bash wrapper was killed without its process group (the comment at ds.rs 486-491), the
outcome of dropping a `Child` instead of killing it by `stop`, or of `Crash`, which ends the manager
and its tasks at any step and keeps the disk: the game binary lives on (`Alive`), and the properties
count it. The code does lose such a binary, in two ways, and `LivingServerIsTracked` excepts both by name:
the manager is killed while it lives (`lost`), or an operation overtakes a task that is not at an await
(`raced`: after the race of DsStopRace a server runs that no stop has killed, and the next start's
`child` is stored over it). What is left is that the code loses no server in any other way.

**SteamCmd**, which DsManager extends — what a task does to come by an install: `FindSvends` (default
directory, `.svends_path`, Steam), then `ensure_steamcmd`, `pull_ds` and `Remember`, each reading and
leaving `boot`, `libs`, `files` and `marker`. `SteamcmdInstalls` is the process of steamcmd; it writes
as long as its task has not dropped it, beside the tasks of other starts. That steamcmd needs its
whole bootstrap and the 32-bit libraries, and reports success only when it has installed all there is
(with an executable or, `"unfit"`, without) is assumed of it. An install that is whole does not
become outdated. What sound cache and map cycle files hold is left out; their waits are kept.

**Controller** — `BridgeController` with `settings.json`. `op`, `subj`, `next` are where the operation
that holds the mutex stands: a start or stop of a session is awaited (and may be `Cancelled` there),
then the settings are changed in memory, then the file is truncated (`SaveBegins`) and written
(`Saves`). `file` is the set of settings the file parses to, empty after a torn write. `proc` is
`resuming` while `resume` works off `todo`; a `Crash` may come at any step. A session is only what it
was started with: what starting and stopping one takes is BridgeSession's, and what the server does
is DsManager's. `shell` tells which program is around the controller: the web panel resumes when it
starts (`Boot`) and cancels handlers, the desktop shell does neither (`BootDesktop`). `stopped`,
`expected`, `torn`, `removing`, `removed` and `idless` are history variables for the properties.
`expected` is all that ran when the process went down but the component a start or stop under way was
about; `torn` says that it went down between the truncation of the file and its write, which the code
does not survive. `removed` are all interfaces whose removal has returned; `idless` those whose saved
descriptor had no id, which the code does not drop.

**MC\*** modules only give constants values. The proofs are in **BridgeSessionProofs**,
**ClientControlProofs**, **ServerRelayProofs**, **ClientRelayProofs**, **LinkPipeProofs**,
**DsManagerProofs** and **ControllerProofs**, one for each component that has state, and in
**SequenceLemmas**, which three of them use.

## 3. Runs

| Run | Module | States | What it shows |
|---|---|---|---|
| Pipe | LinkPipe | 4 datagrams out of 0-3 chunks (`MaxChunk` 2), either direction, lossy link, channel of 2 | lengths around the multiples of the chunk size: as long as no chunk was dropped the output is exactly the datagrams carried, and nothing stays in the buffer; as long as datagrams are of one chunk the pipe implements DatagramChannel, lossy or not |
| ClientRelay | ClientRelay | 2 sources, 2 relays, 3 packets | order and separation of sources, maps and tasks agree, ended tasks hold nothing; with empty datagrams and socket errors |
| ClientLive | ClientRelay | 1 source, 3 overlapping relays, 3 packets | without empty datagrams the UDP loop always goes on, a replaced relay is torn down |
| ServerRelay | ServerRelay | 2 links, channels of 1, one link with more than one datagram each way | order, sentinel last, maps name live relays, open links have one, lost links are forgotten; every event is handled and `to_sc` ends with its link, but for one case (Bounds) |
| ClientControl | ClientControl | 2 sessions on 1 port, 1 server, 1 other peer, 3 names | a stopped, failed or dropped session gives the port back; a start finds the port taken only by a cancelled session; no node escapes; every operation ends; a session dials one server; a node that stays up lists the server once and by its present name |
| DsManager | DsManager | 2 starts | a living game binary is tracked, but for a crash and the race of DsStopRace; early stops prevent the server, quiet stops leave nothing of their own, `.svends_path` names an install, a pulled server is whole, stops end |
| Controller | Controller | 2 arguments, 1 endpoint, 2 crashes, both shells | what ran is restored or reported after a crash, also of resume itself, unless the crash tore the file; what was stopped stays down; no interface is saved twice; a removed one does not come back, unless it had no id |

Violation runs, each a disagreement between the code and what the repository says of it:

* **ClientStuckLoop** (relay.rs 548): an empty datagram, legal for framing.rs 32-33, is the end of
  stream for `send_task` (616); the next packet of its source fails to send and the UDP loop waits
  for a write lock under its own read guard. No source is served any more.
* **ClientDeadLink** (relay.rs 515): `LinkClosed` leaves the `udp_links` entry, whose sender keeps
  the relay alive; packets go to the closed link although src/README.md 74-75 promises a fresh one.
* **ServerOneWay** (relay.rs 348): one ECONNREFUSED while the dedicated server is away ends
  `from_sc`; when it is back, its answers are not read although the link is up (relay.rs 10-11).
* **DsStopRace** (ds.rs 500): a `stop` between the last look at the flag (463) and the store of the
  child finds nothing to kill, returns, and the server runs (ds.rs 269-270).
* **ControllerRemoved** (controller.rs 838): an endpoint added while it is attached is saved without an
  id (628-633); its removal leaves that descriptor in the file, and the next `resume` attaches it,
  although the descriptor is to be dropped "so it won't be re-attached on resume" (816-817).

Bounds. Two links or two sources are enough for what one relay can do to another (the maps and locks are
shared, nothing else); three tasks of one source are needed so that one removes a successor's entry
while a third exists. Channels of one place make *full* reachable with few packets: the code's 256
differs in how many packets that takes, and in one case in whether it happens: with one place the
channel of a relay whose bind fails can be full before that relay has run, and the router then waits for
it under the lock the relay waits for. On the session's current-thread runtime the router yields to a
new relay after tokio's 128 operations, before 256 chunks are queued; the liveness properties of
ServerRelay except this situation by name (`SentinelAwaitsFailedStart`). `MaxStops` 1 gives the server a
restart. `Talkers` are the links that carry more than one datagram each way: one of them is enough to
fill a channel, and the other still does all there is to do to the maps, the locks and the sockets. Two
sessions are what a restart takes, and one of them may be a leftover of a cancelled operation; one place
in a router's queue and one change of name are enough for an announce that is out of date when it is
handled; the three names fit in an announce of 3 bytes (the empty one stands for the default), are cut
between two characters, and are cut inside one. Two starts let an aborted task meet its successor, both
of them pulling; the process may die any number of times. A second crash is needed to interrupt the
resume that follows the first; two arguments tell a restored component from a restarted one; one
endpoint attached to either session, twice, is all that the descriptor list can mix up;
ControllerRemoved needs one argument and one crash. DsManager and Controller have no MC module: their
constants are sets of model values and numbers. The runs switch deadlock checking off: their packets,
links, sessions, renamings and starts are bounded, and when they are used up nothing remains to be done.

Fairness. Weak fairness of each task and of the router: the runtime polls every task that can run.
The engine settles each establish, path and identify request (by a timeout). Peers, game programs and
the dedicated server owe nothing; neither do steamcmd or a write to the server's console in
DsManager. In ClientControl the OS runs each thread and a resolved `stop_rx` is taken by `select!`
(a node need not end by itself), the operation goes on when what it awaits is there, and the router
takes its events. The announcer repeats its announce for ever and each may be lost: strong fairness
of `Hears` says that a node which can hear a server again and again does so in the end; other
programs need not announce anything, operators need not ask for anything.

## 4. Proofs

TLC checks small instances; the theorems hold for every value of the constants: any links, sources,
relays, sessions, starts, endpoints, datagrams, chunk size, channel capacity and number of crashes.
Every safety invariant of a passing run, every action property and the refinement that a run checks
is a theorem. The proofs use only the modules' named assumptions on constants: `FramingAssumption`
and `PipeAssumption` (a chunk holds at least one byte, a datagram is no longer than the 65535 that
`push` lets through), `ServerAssumption`, `ClientAssumption`, `SessionAssumption`,
`ControlAssumption`, `DiscoveryAssumption`, `StartsAssumption`, `NoDirectory` and
`ControllerAssumption` (the value that stands for `None` is not one of the others, bounds are
numbers). TLC evaluates them in the runs.

A property is seldom inductive. What each proof had to add to it says what the code relies on:

* **BridgeSessionProofs**: `TypeCorrect`, `StopReleases`, `FailedStartHolds`, `RestartFindsPortFree`.
  `StopReleasesPort` alone is not inductive: `IInv` adds that `done` is only set by a thread that has
  exited, that the owner of the port has a thread between binding and dropping its runtime, and what
  each message says of the thread that sent it.
* **ClientControlProofs**: `ControlImplementsSessions` shows that ClientControl implements
  BridgeSession (`ControlSpec => Spec`): each operation is a step a caller may take, or a stutter.
  With it `ControlStopReleases` and `ControlFailedStartHolds` are BridgeSession's theorems.
  `NodesHeld` and `RestartFindsOnlyCancelled` need in addition that every session whose caller is
  starting, running or stopping is the controller's or that of the operation (`Held`): a port that a
  start finds taken is, by BridgeSession's invariant, that of a session not yet told to be over, and
  `Held` leaves only a cancelled one. `DialsOneServer` rests on `Dialing` (what was dialed is the
  target, and the target never changes once set) together with `ControlTypeCorrect`.
  `TargetIsListed` states what no run checks: for lists of any length, the browser's list names no
  destination twice, and the target a session settled on by itself is in it. It rests on
  `RememberFacts` (what `remember_server` makes of any list) and on `Listed`: a session whose
  runtime is gone has no target, so a list that goes takes none with it.
* **ServerRelayProofs**: `TypeCorrect`, `SendersLive`, `SentinelLast`, `OpenLinksServed`,
  `LostLinksForgotten`, all from `Invariant` (`Spec => []IInv`), and `InOrder`. The four properties
  are not inductive because a handler acts on an event that was raised long before: that a relay found
  in `link_senders` has a lost link, or that a new link has no relay yet, is known only from the queue.
  `EventInv` therefore says what a pending event implies: LinkEstablished is pending at most once and
  only for a link without a relay, LinkClosed is the last event of its link, and a lost link with
  pending events has its LinkClosed among them. `RelayInv` says that a link without a relay has
  nothing of one, and that the link in `closing` is no longer in `senders`. `InOrder` follows one
  link's datagrams through the three places they wait in: `OutOrder`, `ChannelOrder` and `DataOrder`
  say that identifiers grow along sent, channel and event queue, and from each to the next.
* **ClientRelayProofs**: `TypeCorrect`, `MapsLive` and `EndedHoldsNothing` from one invariant, for
  even the type of what the loop does next depends on `LoopInv`: while it has its read guard, the map
  still names, for the source of the packet it holds, the relay it holds the sender of, because
  nobody else can write. `StageInv` says what a relay task holds at each stage. `InOrder` needs that
  along wire, channel, held packet and socket buffer identifiers grow (`Order`), and that a relay's
  first packet is older than anything the loop can queue for it (`FirstOrder`), which the relay sends
  in the step in which it registers.
* **LinkPipeProofs**: `Refines` is the step refinement of DatagramChannel for datagrams of one chunk: a
  read is a send, any loss (link, engine queue, channel) is a loss at the corresponding place of the
  abstract transit, the last step is a receive, and moves between queues are stutters (`PlainInv`: the
  buffer is empty and every chunk under way is final); a read of a datagram that is not framed is a
  `Discard`. `InOrder` follows. `NothingLost` is about datagrams of any length: `LosslessInv` tags the
  chunks under way with datagram and place (`Tags`) and says that what was delivered and is in the
  buffer is exactly what precedes the first of them (`Taken`), both in terms of the datagrams carried
  and not of all that were read; the lemmas on `frame` give the arithmetic of the last chunk, the one
  case in which a datagram's length is a multiple of the chunk size included.
* **DsManagerProofs**: six theorems from one `IInv`. `TaskInv` says of each task what it relies on: its
  directory holds an executable from the moment it looked (`InstallInv`, with `FilesGrow`: no step of
  any other task takes one away), it has a server exactly when it has left the spawn behind
  (`SpawnInv`), and a task that a stop found early is aborted and cannot resume from any await
  (`EarlyInv`). `QuietInv` lists what a stop that found no task under way has cleared at each of its
  steps; that the mutex is held keeps it so. `LivingTracked` needs `LeadInv`: unless a task was
  overtaken, one leads, that of the last start, whose phase admits no other, or the one a stop has just
  aborted, and the rest wait for nothing but their end; and `LiveInv`: while a game binary lives no
  other start is under way or admitted.
* **ControllerProofs**: `CrashSurvived` needs `Noted`: what runs is noted in the settings in memory
  *and* in the file, but for the one component whose change the operation under way has still to save.
  `ExpectedNoted` and `ItemsNoted` carry it through a crash and through any number of interrupted
  resumes, as long as no crash tore the file. `StopKept` is the same argument for what is down
  (`StoppedNoted`: nor does `todo` contain it), `RemovalKept` for interfaces (`RemovedGone`: from the
  moment it is detached, in `removing`, an interface is in no list in memory, and once its removal is
  saved, in `removed`, in no file and no `todo` either; with `Lists` for any list and not only those
  without duplicates), `SavedOnlyOnce` needs only that `Recorded` keeps a list without duplicates and
  `Deduped` makes one. `PhaseInv` says what can be under way in which phase of the process. The lemmas
  on `Recorded`, `Deduped` and `Retained` hold for lists of any length.
* **SequenceLemmas**: subsequences, appending and removing, and an induction over data that the
  provers can instantiate: the library's induction theorems take an operator as a parameter, but
  `Induction` here takes a *set* (every set of naturals with 0 and the successors of its elements is
  Nat, by the well-foundedness of `<`), and `FoldInto` applies it to recursive functions. That is how
  `Deduped` and `Retained` are proved about; both are recursive functions for that reason.

Only model-checked: liveness, which is out of the prover's reach like ENABLED (`PacketsHandedOn`,
`ReplacedRelayEnds`, `EventsHandled`, `ToScEndsWithLink`, `OperationsEnd`, `DroppedReleasesPort`,
`ServersAreFound`, `StopEnds`), and with it that names are cut and read as Discovery says, which only
`ServersAreFound` observes. The counterexamples of the violation runs are TLC's. The types of
BridgeSession, ClientControl, DsManager and Controller are proved and not run, and so are
`InUseOnlyByUnstopped` and `DiscoveryIsListed`.

## 5. Divergences seen but not run

* relay.rs 562: packets that arrive while the first link is still being established each spawn a
  relay, so one source may hold two links ("gets its own Link", src/README.md 74). ClientLive checks
  that such relays do not harm each other.
* relay.rs 356: after a lost link `to_sc` ends but nothing ends `from_sc`, so `join!` never returns:
  task and socket of every departed client stay until the dedicated server's port is unreachable
  ("until the link closes", relay.rs 10-11).
* relay.rs 366: `connected_clients` is cleaned by LinkClosed only, which a close from this side does
  not raise: such a client stays listed (relay.rs 123-124).
* relay.rs 370: a chunk dropped by a full channel is not noticed; the reassembler joins the rest with
  the next datagram (framing.rs 12-13). Lossless is stated up to the first loss for that reason.
* framing.rs 24: chunks are 1900 bytes and a header whatever MDU a link negotiates; src/README.md 53-55
  says "link-MDU-sized chunks (one byte of header + ≤384 bytes of payload)".
* relay.rs 331, 347 and 616: the server's pump drops an empty datagram and the client's ends on one, though
  `frame` has a chunk for it "so the reassembler still produces an empty datagram" (framing.rs 32-33).
  Lossless and `NothingLost` therefore speak of the datagrams carried.
* ds.rs 312-333: when the server exits by itself `status` reports Idle but `live.phase` stays Running,
  and `start` refuses until a `stop`.
* ds.rs 241-242 and 512-515: `set_cheats` and the background task write the console and `sv_cheats`
  in either order. ds.rs 440-445: an aborted task may still set the phase after a later start did.
* ds.rs 35-36 and 551-572: an `install_dir` is "where to install/look for the DS", but it is not looked
  at when another install is found, nor among the places searched: it is only pulled to.
* ds.rs 551: a pull that was stopped or killed may leave an executable without the rest; the next
  start finds and spawns it. `PulledServerIsWhole` speaks only of starts that pulled themselves.
* steamcmd.rs 229-232: an executable left by an unpacking that failed or was killed is taken for the
  bootstrap ever after; nor does a later start look for the 32-bit libraries again (222-223, 250-252).
* controller.rs 287-297: the file is written in place; a crash while it is being written loses all
  settings with it, the next start uses defaults (153-162), and nothing of what ran is restored or reported,
  although "the host restores its last running state on every `docker compose up`" (src/README.md
  354-355). RunningSurvivesCrash excepts that crash by name (`torn`).
* ds.rs 500: after the race of DsStopRace, and when the controller is killed, a game binary lives on that
  no `stop` kills; the comment at 486-491 says what that leads to.
* gui/src-tauri/src/lib.rs 323-356: the desktop shell calls neither `resume` nor `dedup_interfaces`:
  it comes up with the saved arguments and flags and nothing running (controller.rs 299: "Called once
  on startup").
* controller.rs 418-434: a restarted session comes up without the interfaces that were attached to
  its predecessor, although they are still saved; only the next `resume` attaches them.
* controller.rs 406-409, 439-441: a session whose node has ended by itself stays in the controller;
  the panel shows it running and a start is refused until a stop.
* controller.rs 1034-1046: "AddrInUse means the client owns it": any owner of the port will do. The
  client's own start has already failed by then if it could not bind.
* relay.rs 818-822: a name cut inside a character is not UTF-8, so its server is listed without a
  name ("`None` only for a non-UTF-8/empty payload (e.g. a very old or unrelated Reticulum peer ...)",
  server_entry.rs 19-22). ServersAreFound allows it by its second case.
* relay.rs 502-508: without `--server-hash` the target is the first destination that announces
  anything, and every announce is listed, whatever program it is of ("waiting to discover
  sven-coop.server via announce", 466). Nothing is pruned from the list.
* relay.rs 843-850: a `--tcp` listener that cannot bind is only logged; the start succeeds.
* controller.rs 418-424: a cancelled stop leaves the session gone and its flag set.
* controller.rs 580-640, 818-845: an interface's id is a hash of its kind and address. Attached a second
  time (a corrected passphrase), the before/after diff finds no new id, the saved descriptor gets none,
  and `remove_interface` no longer drops it; attached to both sessions, it has one id and the server
  session's is removed. RemovedStaysRemoved excepts the first case by name (`idless`), ControllerRemoved
  runs it.

## 6. Not modelled

The A2S query (requests one after the other on a socket of their own, which the first failure ends,
and parsing), argument parsing and the command line (config.rs, main.rs), launch scripts and
packaging, the game launcher (starts a program, keeps nothing), the front end, and the engine itself.
Of relay.rs, the path probe (469-489) changes no state of the bridge. Of ds.rs, progress texts, map
listing, and what sound cache and map cycle files hold are left out; console commands of an operator
are represented only by the lock they contend for with the background task. Of controller.rs, the
operations that only read (snapshot, queries), path tracing and `rename_interface` (which is not
saved) are left out; `announce_now` is one more reason for `Hears`. Of the shells, request parsing,
static files and the choice of the data directory.

## 7. Plan

In order of importance:

1. The controller as one: Controller treats a session as what it was started with, ClientControl the
   settings as nothing; a refinement of the client part of Controller by ClientControl would join them.
2. Each direction of a relay as a DatagramChannel: LinkPipe is shown to implement it, ServerRelay and
   ClientRelay so far only keep its order (`GameServerGetsInOrder`, `LinkCarriesOneSourceInOrder`).
3. The hazards that no property covers yet: an executable left by a pull that was stopped, the phase
   after the server has exited by itself, the bootstrap that is taken for whole.
