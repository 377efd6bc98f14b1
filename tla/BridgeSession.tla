--------------------------- MODULE BridgeSession ---------------------------
(***************************************************************************)
(* The life of a BridgeSession (src/src/relay.rs, spawn_bridge_node, stop  *)
(* and the session's drop).  A session's node runs on an OS thread with a  *)
(* runtime of its own; the thread owns the listening port from the moment  *)
(* it binds it until its runtime is dropped.  The caller awaits the        *)
(* thread's init message when it starts the session and its done message   *)
(* when it stops it.  Sessions here want the same port, as a restart does. *)
(*                                                                         *)
(* A caller's await may be cancelled: the HTTP server drops the handler of *)
(* a request whose connection is gone, and the session goes with it.       *)
(***************************************************************************)
EXTENDS Naturals

CONSTANTS
  Sessions,   \* the sessions ever started
  None,       \* nobody
  Cancels     \* TRUE: a caller may be cancelled, or drop its session

ASSUME SessionAssumption == None \notin Sessions /\ Cancels \in BOOLEAN

VARIABLES
  caller,     \* what the caller does with each session
  thread,     \* where each session's thread is
  init,       \* the init message of each thread
  stop,       \* whether stop_rx of each thread resolves (sent or dropped)
  done,       \* whether done_rx of each session resolves (sent or dropped)
  port,       \* the session whose runtime owns the listening port, or None
  inUse       \* the sessions whose bind found the port taken

vars == << caller, thread, init, stop, done, port, inUse >>

CallerStates == {"new", "starting", "running", "stopping", "stopped", "failed", "dropped"}
ThreadStates == {"none", "building", "running", "unwinding", "dropped", "exited"}

Init ==
  /\ caller = [s \in Sessions |-> "new"]
  /\ thread = [s \in Sessions |-> "none"]
  /\ init = [s \in Sessions |-> "none"]
  /\ stop = [s \in Sessions |-> FALSE]
  /\ done = [s \in Sessions |-> FALSE]
  /\ port = None
  /\ inUse = {}
-----------------------------------------------------------------------------
\* start_client / start_server: spawn the thread and await its init message.
StartSession(s) ==
  /\ caller[s] = "new"
  /\ caller' = [caller EXCEPT ![s] = "starting"]
  /\ thread' = [thread EXCEPT ![s] = "building"]
  /\ UNCHANGED << init, stop, done, port, inUse >>

\* The OS refuses the thread: the start fails and nothing is left behind.
SpawnFails(s) ==
  /\ caller[s] = "new"
  /\ caller' = [caller EXCEPT ![s] = "failed"]
  /\ UNCHANGED << thread, init, stop, done, port, inUse >>

\* Mutant: the caller may find that it failed before the init message is there.
StartReturnsEarly(s) ==
  /\ caller[s] = "starting"
  /\ \/ init[s] = "ok" /\ caller' = [caller EXCEPT ![s] = "running"]
     \/ init[s] # "ok" /\ caller' = [caller EXCEPT ![s] = "failed"]
  /\ UNCHANGED << thread, init, stop, done, port, inUse >>

\* The init message arrives, or its sender is gone.
StartReturns(s) ==
  /\ caller[s] = "starting"
  /\ \/ init[s] = "ok"  /\ caller' = [caller EXCEPT ![s] = "running"]
     \/ init[s] = "err" /\ caller' = [caller EXCEPT ![s] = "failed"]
  /\ UNCHANGED << thread, init, stop, done, port, inUse >>

\* Mutant: stop awaits done without sending the stop message.
StopWithoutMessage(s) ==
  /\ caller[s] = "running"
  /\ caller' = [caller EXCEPT ![s] = "stopping"]
  /\ UNCHANGED << thread, init, stop, done, port, inUse >>

\* stop: send the stop message and await done.
Stop(s) ==
  /\ caller[s] = "running"
  /\ caller' = [caller EXCEPT ![s] = "stopping"]
  /\ stop' = [stop EXCEPT ![s] = TRUE]
  /\ UNCHANGED << thread, init, done, port, inUse >>

StopReturns(s) ==
  /\ caller[s] = "stopping"
  /\ done[s]
  /\ caller' = [caller EXCEPT ![s] = "stopped"]
  /\ UNCHANGED << thread, init, stop, done, port, inUse >>

\* Mutant: the thread only stops for a message, not for a dropped sender.
DropKeepsNode(s) ==
  /\ Cancels
  /\ caller[s] \in {"starting", "running", "stopping"}
  /\ caller' = [caller EXCEPT ![s] = "dropped"]
  /\ UNCHANGED << thread, init, stop, done, port, inUse >>

\* The session, or the future that was to return it or to stop it, is
\* dropped: stop_tx goes with it and nobody waits for done.
Drop(s) ==
  /\ Cancels
  /\ caller[s] \in {"starting", "running", "stopping"}
  /\ caller' = [caller EXCEPT ![s] = "dropped"]
  /\ stop' = [stop EXCEPT ![s] = TRUE]
  /\ UNCHANGED << thread, init, done, port, inUse >>
-----------------------------------------------------------------------------
\* The thread cannot build its runtime: it returns before done_tx is used.
RuntimeFails(s) ==
  /\ thread[s] = "building"
  /\ thread' = [thread EXCEPT ![s] = "exited"]
  /\ init' = [init EXCEPT ![s] = "err"]
  /\ done' = [done EXCEPT ![s] = TRUE]
  /\ UNCHANGED << caller, stop, port, inUse >>

\* build binds the port and wires the node; the init message goes out, and
\* when nobody takes it the async block returns at once.
Build(s) ==
  /\ thread[s] = "building"
  /\ port = None
  /\ port' = s
  /\ IF caller[s] = "starting"
     THEN /\ init' = [init EXCEPT ![s] = "ok"]
          /\ thread' = [thread EXCEPT ![s] = "running"]
     ELSE /\ thread' = [thread EXCEPT ![s] = "unwinding"]
          /\ UNCHANGED init
  /\ UNCHANGED << caller, stop, done, inUse >>

\* build finds the port taken, or fails before it binds (identity, server
\* hash): an error goes to the caller.
BuildFails(s) ==
  /\ thread[s] = "building"
  /\ \/ port # None /\ inUse' = inUse \cup {s}
     \/ UNCHANGED inUse
  /\ init' = [init EXCEPT ![s] = "err"]
  /\ thread' = [thread EXCEPT ![s] = "unwinding"]
  /\ UNCHANGED << caller, stop, done, port >>

\* select!: the stop message (or the drop of its sender), or the node's end.
StopSeen(s) ==
  /\ thread[s] = "running"
  /\ stop[s]
  /\ thread' = [thread EXCEPT ![s] = "unwinding"]
  /\ UNCHANGED << caller, init, stop, done, port, inUse >>

NodeEnds(s) ==
  /\ thread[s] = "running"
  /\ ~ stop[s]
  /\ thread' = [thread EXCEPT ![s] = "unwinding"]
  /\ UNCHANGED << caller, init, stop, done, port, inUse >>

\* drop(rt): every task is aborted and its sockets are closed.
DropRuntime(s) ==
  /\ thread[s] = "unwinding"
  /\ thread' = [thread EXCEPT ![s] = "dropped"]
  /\ port' = IF port = s THEN None ELSE port
  /\ UNCHANGED << caller, init, stop, done, inUse >>

\* Mutant: done_tx.send at the end of the async block, as it once was.
SignalDoneEarly(s) ==
  /\ thread[s] \in {"unwinding", "dropped"}
  /\ thread' = IF thread[s] = "dropped" THEN [thread EXCEPT ![s] = "exited"] ELSE thread
  /\ done' = [done EXCEPT ![s] = TRUE]
  /\ UNCHANGED << caller, init, stop, port, inUse >>

\* done_tx.send, after the runtime is gone.
SignalDone(s) ==
  /\ thread[s] = "dropped"
  /\ thread' = [thread EXCEPT ![s] = "exited"]
  /\ done' = [done EXCEPT ![s] = TRUE]
  /\ UNCHANGED << caller, init, stop, port, inUse >>
-----------------------------------------------------------------------------
CallerNext(s) == StartSession(s) \/ SpawnFails(s) \/ StartReturns(s)
                 \/ Stop(s) \/ StopReturns(s) \/ Drop(s)
ThreadNext(s) == RuntimeFails(s) \/ Build(s) \/ BuildFails(s) \/ StopSeen(s)
                 \/ NodeEnds(s) \/ DropRuntime(s) \/ SignalDone(s)

Next == \E s \in Sessions : CallerNext(s) \/ ThreadNext(s)

Spec == Init /\ [][Next]_vars

\* What the OS does for the thread: it runs, and once the stop message is there
\* select! takes it.  The node need not end by itself.
ThreadGoesOn(s) == RuntimeFails(s) \/ Build(s) \/ BuildFails(s) \/ StopSeen(s)
                   \/ DropRuntime(s) \/ SignalDone(s)
-----------------------------------------------------------------------------
\* The types of the variables.
TypeOK ==
  /\ caller \in [Sessions -> CallerStates]
  /\ thread \in [Sessions -> ThreadStates]
  /\ init \in [Sessions -> {"none", "ok", "err"}]
  /\ stop \in [Sessions -> BOOLEAN]
  /\ done \in [Sessions -> BOOLEAN]
  /\ port \in Sessions \cup {None}
  /\ inUse \subseteq Sessions

\* What stop() promises its caller: when it has returned, the session's
\* runtime is gone and the port is not the session's any more.
StopReleasesPort ==
  \A s \in Sessions : caller[s] = "stopped" => port # s /\ thread[s] = "exited"

\* A start that failed holds nothing either and never will, so it can be
\* tried again: no thread is left that has yet to bind or that runs a node.
FailedStartHoldsNothing ==
  \A s \in Sessions :
    caller[s] = "failed" => port # s /\ thread[s] \notin {"building", "running"}

\* A bind finds the port taken only while the caller of some other session has
\* neither been told that it failed nor been told that it stopped: a restart,
\* which awaits stop() before it starts again, cannot run into itself.
InUseOnlyByUnstopped ==
  [][ \A s \in inUse' \ inUse :
        \E t \in Sessions \ {s} :
          /\ port = t
          /\ caller[t] \in {"starting", "running", "stopping", "dropped"} ]_vars

\* A session that was dropped instead of stopped gives the port back as well,
\* although nobody is told when.
DroppedReleasesPort ==
  \A s \in Sessions : caller[s] = "dropped" ~> thread[s] = "exited" /\ port # s

=============================================================================
