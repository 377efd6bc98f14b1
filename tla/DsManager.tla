----------------------------- MODULE DsManager -----------------------------
(***************************************************************************)
(* The dedicated server manager (src/controller/src/ds.rs).  start hands   *)
(* the work to a background task that finds or pulls the server, prepares  *)
(* it and spawns its process; stop raises the cancel flag, aborts that     *)
(* task without waiting for it, and kills the process it finds in "child". *)
(* How the task comes by a server to spawn is SteamCmd's part.             *)
(*                                                                         *)
(* The runtime has several worker threads: the operations, which the       *)
(* controller's mutex admits one at a time, and the tasks of this start    *)
(* and of aborted earlier ones run in parallel.  A step below is one       *)
(* access to what they share.  An aborted task ends at its next await; up  *)
(* to there it runs on.  In the states of Awaits a task is at an await.    *)
(*                                                                         *)
(* A start also names its task, and the process that task spawns.          *)
(***************************************************************************)
EXTENDS SteamCmd

VARIABLES
  op,         \* where the operation that holds the controller's mutex is
  phase,      \* live.phase
  task,       \* the task whose handle the manager keeps, or None
  child,      \* the server in "child", or None
  stdin,      \* the server whose console is in "stdin", or None
  server,     \* the server process of each start
  stopped,    \* history: the last operation accepted was a stop, and it has returned
  quiet,      \* history: no task was under way when the last stop began
  early,      \* history: the starts a stop found waiting, before the spawn
  raced,      \* history: an operation has overtaken a task that was not waiting
  lost        \* history: the starts whose server lived when the manager was killed

mgrVars  == << op, cancel, task, aborted >>
raceVars == << raced, lost >>
histVars == << stopped, quiet, early, raceVars >>
vars == << mgrVars, phase, child, stdin, bg, server, installVars, histVars >>

Phases    == {"Idle", "Pulling", "Starting", "Running", "Error"}
Ops       == {"none", "start", "take", "wait", "stdin", "live"}
Prior     == {"find", "recall", "steam", "download", "probe", "apt", "pull", "verify", "marked",
              "prepare", "mapcycle"}
Awaits    == Prior \cup {"console", "cheats"}
BgStates  == Awaits \cup {"none", "unfound", "pulling", "ensure", "extract", "unpack", "run", "polled",
                          "pulled", "mark", "marking", "found", "starting", "prepared", "spawn",
                          "spawning", "store", "announce", "idle", "error", "ended"}
\* "orphan": the wrapper, or the whole manager, was killed; the game binary was not.
ServerStates == {"none", "up", "orphan", "killed", "exited"}

Init ==
  /\ op = "none"
  /\ phase = "Idle"
  /\ cancel = FALSE
  /\ task = None
  /\ child = None
  /\ stdin = None
  /\ bg = [r \in Starts |-> "none"]
  /\ aborted = {}
  /\ server = [r \in Starts |-> "none"]
  /\ InstallInit
  /\ stopped = FALSE
  /\ quiet = FALSE
  /\ early = {}
  /\ raced = FALSE
  /\ lost = {}

Underway(r) == bg[r] \notin {"none", "ended"}

\* The game binary of a start lives, with its wrapper or without.
Alive(r) == server[r] \in {"up", "orphan"}

\* The task a handle names, unless it has ended, is aborted.
Abort(handle) ==
  aborted' = aborted \cup {r \in {handle} \ {None} : Underway(r)}

\* A console write of a task holds the lock on stdin over its awaits.
StdinFree == \A r \in Starts : bg[r] # "cheats"
-----------------------------------------------------------------------------
\* An operation comes while a task is not at one of these awaits.  (At the pull a
\* task may have output to read, and run on.)
Overtakes(awaits) ==
  /\ raced' = (raced \/ \E q \in Starts : Underway(q) /\ bg[q] \notin awaits)
  /\ UNCHANGED lost

\* Mutant: a start is not refused while a server runs.
StartAcceptedRunning ==
  /\ op = "none"
  /\ \E r \in Starts : bg[r] = "none"
  /\ phase \notin {"Pulling", "Starting"}
  /\ op' = "start"
  /\ stopped' = FALSE
  /\ UNCHANGED << cancel, task, aborted, phase, child, stdin, bg, server, installVars, quiet, early,
                  raceVars >>

\* start: refused while a start is under way or a server runs.
StartAccepted ==
  /\ op = "none"
  /\ \E r \in Starts : bg[r] = "none"
  /\ phase \notin {"Pulling", "Starting", "Running"}
  /\ op' = "start"
  /\ stopped' = FALSE
  /\ UNCHANGED << cancel, task, aborted, phase, child, stdin, bg, server, installVars, quiet, early,
                  raceVars >>

\* ... the flag is reset, a prior task's handle dropped, a task spawned.
StartSpawns(r) ==
  /\ op = "start"
  /\ bg[r] = "none"
  /\ \A q \in Starts : q < r => bg[q] # "none"
  /\ op' = "none"
  /\ cancel' = FALSE
  /\ phase' = "Pulling"
  /\ Abort(task)
  /\ task' = r
  /\ Goto(r, "find")
  /\ \E d \in Wanted : dir' = [dir EXCEPT ![r] = d]
  /\ Overtakes(Awaits \ {"pull"})
  /\ UNCHANGED << child, stdin, server, diskVars, pulled, stopped, quiet, early >>

\* What the history keeps of the moment a stop begins.
NotesStop ==
  /\ stopped' = FALSE
  /\ quiet' = \A r \in Starts : ~ Underway(r)
  /\ early' = early \cup {r \in {task} \ {None} : bg[r] \in Prior}
  /\ UNCHANGED raceVars

\* Mutant: the flag alone is to end the task.
StopBeginsFlagOnly ==
  /\ op = "none"
  /\ op' = "take"
  /\ cancel' = TRUE
  /\ task' = None
  /\ NotesStop
  /\ UNCHANGED << aborted, phase, child, stdin, bg, server, installVars >>

\* stop: raise the flag, abort the task ...
StopBegins ==
  /\ op = "none"
  /\ op' = "take"
  /\ cancel' = TRUE
  /\ Abort(task)
  /\ task' = None
  /\ NotesStop
  /\ UNCHANGED << phase, child, stdin, bg, server, installVars >>

\* ... take the child and kill its process group ...
StopTakes ==
  /\ op = "take"
  /\ op' = IF child = None THEN "stdin" ELSE "wait"
  /\ child' = None
  /\ server' = [r \in Starts |-> IF r = child /\ server[r] = "up" THEN "killed" ELSE server[r]]
  /\ Overtakes(Awaits)
  /\ UNCHANGED << cancel, task, aborted, phase, stdin, bg, installVars, stopped, quiet, early >>

\* ... reap it ...
StopReaps ==
  /\ op = "wait"
  /\ op' = "stdin"
  /\ UNCHANGED << cancel, task, aborted, phase, child, stdin, bg, server, installVars, histVars >>

\* Mutant: the console is left in place.
StopKeepsConsole ==
  /\ op = "stdin"
  /\ StdinFree
  /\ op' = "live"
  /\ UNCHANGED << cancel, task, aborted, phase, child, stdin, bg, server, installVars, histVars >>

\* ... forget its console ...
StopClosesConsole ==
  /\ op = "stdin"
  /\ StdinFree
  /\ op' = "live"
  /\ stdin' = None
  /\ UNCHANGED << cancel, task, aborted, phase, child, bg, server, installVars, histVars >>

\* ... and report Idle.
StopReturns ==
  /\ op = "live"
  /\ op' = "none"
  /\ phase' = "Idle"
  /\ stopped' = TRUE
  /\ UNCHANGED << cancel, task, aborted, child, stdin, bg, server, installVars, quiet, early, raceVars >>

\* The HTTP server drops the handler of a stop that waits.
StopCancelled ==
  /\ op = "wait" \/ (op = "stdin" /\ ~ StdinFree)
  /\ op' = "none"
  /\ UNCHANGED << cancel, task, aborted, phase, child, stdin, bg, server, installVars, histVars >>

\* status reaps a server that has exited; it leaves live as it is.
StatusReaps ==
  /\ op = "none"
  /\ child # None
  /\ server[child] = "exited"
  /\ child' = None
  /\ UNCHANGED << mgrVars, phase, stdin, bg, server, installVars, histVars >>
-----------------------------------------------------------------------------
\* A step that leaves the manager and the server alone.
OfTask(step) == step /\ UNCHANGED << mgrVars, phase, child, stdin, server, histVars >>

Proceeds(r, from, to) == OfTask(Moves(r, from, to))
Resumes(r, from, to)  == OfTask(ResumesTo(r, from, to))
Checks(r, from, to)   == OfTask(ChecksFlag(r, from, to))

\* It sets live.phase.
Sets(r, from, value, to) ==
  /\ bg[r] = from
  /\ phase' = value
  /\ Goto(r, to)
  /\ UNCHANGED << mgrVars, child, stdin, server, installVars, histVars >>

\* Without an install, and unless it is cancelled, the task pulls one.
Finds(r) ==
  \/ Checks(r, "unfound", "pulling")
  \/ Sets(r, "pulling", "Pulling", "ensure")

\* steamcmd prints a line or nothing for a while.  Output that is there already
\* is read although the task was aborted.
Pulls(r) ==
  \/ Sets(r, "pull", "Pulling", "polled")
  \/ Proceeds(r, "polled", IF cancel THEN "error" ELSE "pull")
  \/ Resumes(r, "pull", "polled")
  \/ Checks(r, "pulled", "verify")

\* What these do to the files of the game concerns nobody here: they are waits.
PrecreateSoundcache(r) == Resumes(r, "prepare", "mapcycle")
FixMapcycle(r)         == Resumes(r, "mapcycle", "spawn")

\* An install that was found is announced, one that was pulled is not; then
\* soundcache and map cycle are prepared.
Prepares(r) ==
  \/ Sets(r, "found", "Starting", "prepared")
  \/ Checks(r, "prepared", "starting")
  \/ Sets(r, "starting", "Starting", "prepare")
  \/ PrecreateSoundcache(r) \/ FixMapcycle(r)

\* The last look at the flag; what follows up to the console has no await.
Spawns(r) ==
  \/ Checks(r, "spawn", "spawning")
  \/ /\ bg[r] = "spawning"
     /\ server' = [server EXCEPT ![r] = "up"]
     /\ Goto(r, "store")
     /\ UNCHANGED << mgrVars, phase, child, stdin, installVars, histVars >>
  \/ Proceeds(r, "spawning", "error")

\* child is overwritten.  A server it held is dropped, and with it killed the
\* wrapper alone.
Stores(r) ==
  /\ bg[r] = "store"
  /\ child' = r
  /\ server' = [q \in Starts |-> IF q = child /\ server[q] = "up" THEN "orphan" ELSE server[q]]
  /\ Goto(r, "announce")
  /\ UNCHANGED << mgrVars, phase, stdin, installVars, histVars >>

\* Running is announced, the console kept and, if asked for, cheats enabled on
\* it.  An await on a free lock does not end an aborted task.
Announces(r) ==
  \/ Sets(r, "announce", "Running", "console")
  \/ /\ bg[r] = "console"
     /\ StdinFree
     /\ stdin' = r
     /\ \E next \in {"cheats", "ended"} : Goto(r, next)
     /\ UNCHANGED << mgrVars, phase, child, server, installVars, histVars >>
  \/ Proceeds(r, "cheats", "ended")

\* set_idle and set_error.
GivesUp(r) ==
  \/ Sets(r, "idle", "Idle", "ended")
  \/ Sets(r, "error", "Error", "ended")

\* The abort takes effect at an await.
EndsAborted(r) == r \in aborted /\ bg[r] \in Awaits /\ Proceeds(r, bg[r], "ended")
-----------------------------------------------------------------------------
\* The server process (external) exits or crashes by itself.
ServerExits(r) ==
  /\ server[r] = "up"
  /\ server' = [server EXCEPT ![r] = "exited"]
  /\ UNCHANGED << mgrVars, phase, child, stdin, bg, installVars, histVars >>

\* The process is killed, or its host goes down, at any moment; the disk stays.
Crash ==
  /\ op' = "none"
  /\ phase' = "Idle"
  /\ cancel' = FALSE
  /\ task' = None
  /\ aborted' = {}
  /\ child' = None
  /\ stdin' = None
  /\ bg' = [r \in Starts |-> IF Underway(r) THEN "ended" ELSE bg[r]]
  /\ server' = [r \in Starts |-> IF server[r] = "up" THEN "orphan" ELSE server[r]]
  /\ stopped' = FALSE
  /\ raced' = FALSE
  /\ lost' = lost \cup {r \in Starts : Alive(r)}
  /\ UNCHANGED << installVars, quiet, early >>
-----------------------------------------------------------------------------
StopNext == StopTakes \/ StopReaps \/ StopClosesConsole \/ StopReturns

Next ==
  \/ StartAccepted \/ (\E r \in Starts : StartSpawns(r))
  \/ StopBegins \/ StopNext \/ StopCancelled
  \/ StatusReaps \/ Crash \/ OfTask(OperatorInstallsLibs)
  \/ \E r \in Starts : \/ OfTask(InstallStep(r)) \/ Finds(r) \/ Pulls(r) \/ Prepares(r) \/ Spawns(r) \/ Stores(r)
                       \/ Announces(r) \/ GivesUp(r) \/ EndsAborted(r)
                       \/ ServerExits(r)

Spec == Init /\ [][Next]_vars

\* The runtime runs an operation that can go on and drops an aborted task;
\* neither steamcmd nor a write to the server's console need ever end.
Fairness == WF_vars(StopNext) /\ \A r \in Starts : WF_vars(EndsAborted(r))

FairSpec == Spec /\ Fairness
-----------------------------------------------------------------------------
\* The types of the variables; child and stdin name servers that were spawned.
TypeOK ==
  /\ op \in Ops
  /\ phase \in Phases
  /\ cancel \in BOOLEAN
  /\ task \in Starts \cup {None}
  /\ bg \in [Starts -> BgStates]
  /\ aborted \subseteq Starts
  /\ InstallTypes
  /\ server \in [Starts -> ServerStates]
  /\ {child, stdin} \subseteq {r \in Starts : server[r] # "none"} \cup {None}
  /\ stopped \in BOOLEAN
  /\ quiet \in BOOLEAN
  /\ early \subseteq Starts
  /\ raced \in BOOLEAN
  /\ lost \subseteq Starts

\* One game binary lives at a time, and it is that of "child", which stop kills
\* and status looks at, or still in the hands of the task that spawned it.  The
\* exceptions are named: a binary that lived when the manager was killed; and,
\* once a stop or a start has overtaken a task that was not waiting, any: that
\* task stores a server which nobody stops, and a later one is stored over it.
LivingServerIsTracked ==
  ~ raced =>
    \A r \in Starts \ lost : Alive(r) =>
      /\ child = r \/ bg[r] = "store"
      /\ \A q \in Starts \ lost : Alive(q) => q = r

\* A stop that began when no task was under way leaves nothing: no console, a
\* phase that allows the next start and no server, but for a game binary that a
\* crash or an overtaken task had already left without its wrapper.
QuietStopIsComplete ==
  stopped /\ quiet /\ op = "none" =>
    /\ child = None
    /\ stdin = None
    /\ phase = "Idle"
    /\ \A r \in Starts : server[r] # "up" /\ (Alive(r) => r \in lost \/ raced)

\* A start whose task a stop found waiting for files or steamcmd spawns no
\* server any more, although the next start lowers the flag again.
EarlyStopPreventsServer == \A r \in early : server[r] = "none"

\* Stopped, aborted and killed tasks leave a .svends_path that names nothing, or
\* a directory that has the server.
MarkerNamesInstall == marker \in Dirs => Executable(marker)

\* A start that pulled the server itself spawns a whole one, whatever earlier
\* pulls left behind in that directory.
PulledServerIsWhole ==
  \A r \in pulled : server[r] # "none" => files[dir[r]] = "whole"

\* stop returns: neither a task that is under way, nor one that waits for the
\* server to read its console, holds it up for ever.
StopEnds == op \in {"take", "wait", "stdin", "live"} ~> op = "none"

\* What ds.rs says of stop: it stops the server, if any.  So none runs, nor is
\* about to, once stop has returned and until the next start.
StoppedMeansNoServer ==
  stopped /\ op = "none" => \A r \in Starts : server[r] # "up"
=============================================================================
