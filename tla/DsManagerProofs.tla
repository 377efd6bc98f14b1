-------------------------- MODULE DsManagerProofs --------------------------
(***************************************************************************)
(* Proofs about DsManager and the SteamCmd part it extends, for any number *)
(* of starts, stops and crashes.                                           *)
(***************************************************************************)
EXTENDS DsManager, TLAPS

\* Where a task can be once steamcmd has reported success to it.
AfterPull == {"pulled", "verify", "mark", "marking", "marked", "prepared", "starting", "prepare",
              "mapcycle", "spawn", "spawning", "store", "announce", "console", "cheats",
              "idle", "error", "ended"}

\* What a task relies on when it remembers a directory and spawns the server.
InstallInv(r) ==
  /\ bg[r] # "none" => dir[r] \in Dirs
  /\ bg[r] \in {"mark", "marking"} => Executable(dir[r])
  /\ r \in pulled =>
       /\ bg[r] \in AfterPull
       /\ files[dir[r]] \in {"whole", "unfit"}
       /\ \/ bg[r] \in {"pulled", "verify", "idle", "error", "ended"} /\ server[r] = "none"
          \/ files[dir[r]] = "whole"

\* The tasks that have left the spawn behind are those whose server was spawned.
Launched == {"store", "announce", "console", "cheats"}
SpawnInv(r) ==
  /\ bg[r] \in Launched => server[r] # "none"
  /\ server[r] # "none" => bg[r] \in Launched \cup {"ended"}

\* A task that a stop found before the spawn is aborted, and without resuming
\* from an await it reaches no state from which it could spawn.
EarlyInv(r) ==
  r \in early =>
    /\ server[r] = "none"
    /\ bg[r] \in {"error", "ended"} \/ (r \in aborted /\ bg[r] \in Prior \cup {"polled"})

\* A stop that found no task under way keeps the mutex, so none is started
\* before it returns, and what it has cleared stays cleared.
Stopping == {"take", "wait", "stdin", "live"}
QuietInv ==
  /\ stopped => op = "none"
  /\ quiet /\ (stopped \/ op \in Stopping) => \A r \in Starts : ~ Underway(r)
  /\ quiet /\ (stopped \/ op \in Stopping \ {"take"}) => child = None
  /\ quiet /\ (stopped \/ op = "live") => stdin = None
  /\ quiet /\ stopped => phase = "Idle"

\* A server whose wrapper runs is in child or with its task; child names one
\* that was stored.
UpInv ==
  /\ \A r \in Starts : server[r] = "up" => child = r \/ bg[r] = "store"
  /\ \A r \in Starts : child = r => bg[r] \in {"announce", "console", "cheats", "ended"}

\* A task that has been aborted and waits does nothing more, unless it has
\* output of steamcmd to read: then it may set the phase, and spawns nothing.
\* A task that is under way beyond that leads.
Waits(q)    == q \in aborted /\ bg[q] \in Awaits \ {"pull"}
Harmless(q) == q \in aborted /\ bg[q] \in Awaits \cup {"polled", "error"}
Leads(q)    == Underway(q) /\ ~ Harmless(q)
OthersWait(q) == \A p \in Starts \ {q} : Underway(p) => Waits(p)

\* The phases in which start is refused.
Busy == {"Pulling", "Starting", "Running"}

\* Unless a task was overtaken, one leads: that of the last start, whose phase
\* admits no other; or the one a stop has just aborted.
LeadInv ==
  /\ op \in Stopping => task = None
  /\ \A q \in Starts : Underway(q) /\ q \notin aborted => q = task
  /\ ~ raced =>
       \A q \in Starts : Leads(q) =>
         /\ \/ op = "take"
            \/ op = "none" /\ q = task /\ phase \in Busy
         /\ OthersWait(q)

\* ... and while a game binary lives no other start is under way or admitted.
LiveInv ==
  ~ raced =>
    \A r \in Starts \ lost : Alive(r) =>
      /\ op \in {"none", "take"}
      /\ server[r] = "up"
      /\ \/ bg[r] = "store"
         \/ child = r /\ (bg[r] = "announce" \/ phase = "Running")
      /\ OthersWait(r)

TaskInv(r) == InstallInv(r) /\ SpawnInv(r) /\ EarlyInv(r)

IInv ==
  /\ TypeOK
  /\ \A r \in Starts : TaskInv(r)
  /\ QuietInv
  /\ UpInv
  /\ LeadInv
  /\ LiveInv
  /\ MarkerNamesInstall
-----------------------------------------------------------------------------
\* What is installed in a directory stays: an executable does not go away, and
\* steamcmd adds nothing to what is complete.
FilesGrow ==
  \A d \in Dirs : /\ Executable(d) => Executable(d)'
                  /\ files[d] \in {"whole", "unfit"} => files'[d] = files[d]

\* A task that does not move keeps what it relies on.
LEMMA TaskSame ==
  ASSUME IInv, FilesGrow, NEW q \in Starts,
         bg'[q] = bg[q], dir'[q] = dir[q], q \in pulled' => q \in pulled,
         q \in early' => q \in early, q \in aborted => q \in aborted',
         server[q] = "none" <=> server'[q] = "none"
  PROVE  TaskInv(q)'
<1>1. TaskInv(q)
  BY DEF IInv
<1>2. bg[q] # "none" => dir[q] \in Dirs
  BY <1>1 DEF TaskInv, InstallInv
<1>3. InstallInv(q)'
  BY <1>1, <1>2 DEF TaskInv, InstallInv, FilesGrow, Executable, AfterPull
<1>4. SpawnInv(q)' /\ EarlyInv(q)'
  BY <1>1 DEF TaskInv, SpawnInv, EarlyInv
<1>5. QED
  BY <1>3, <1>4 DEF TaskInv

\* Those that wait still do when another task moves.
LEMMA OthersStillWait ==
  ASSUME NEW r \in Starts, Underway(r), NEW q \in Starts, OthersWait(q),
         \A p \in Starts \ {r} : bg'[p] = bg[p], aborted' = aborted,
         Waits(r) /\ Underway(r)' => Waits(r)'
  PROVE  OthersWait(q)'
<1>1. ASSUME NEW p \in Starts \ {q}, Underway(p)'
      PROVE  Waits(p)'
  <2>1. CASE p = r
    BY <1>1, <2>1 DEF OthersWait
  <2>2. CASE p # r
    BY <1>1, <2>2 DEF OthersWait, Underway, Waits
  <2>3. QED
    BY <2>1, <2>2
<1>2. QED
  BY <1>1 DEF OthersWait

\* A task that moves: no second one leads.
LEMMA LeadKept ==
  ASSUME LeadInv, NEW r \in Starts, Underway(r),
         \A p \in Starts \ {r} : bg'[p] = bg[p], UNCHANGED << op, task, aborted, raced >>,
         Waits(r) /\ Underway(r)' => Waits(r)',
         Harmless(r) /\ Underway(r)' => Harmless(r)',
         phase' = phase \/ (~ Waits(r) /\ (phase' \in Busy \/ ~ Underway(r)'))
  PROVE  LeadInv'
<1>1. \A q \in Starts : Underway(q)' => Underway(q)
  BY DEF Underway
<1>2. op' \in Stopping => task' = None
  BY DEF LeadInv
<1>3. \A q \in Starts : Underway(q)' /\ q \notin aborted' => q = task'
  BY <1>1 DEF LeadInv
<1>4. ASSUME ~ raced', NEW q \in Starts, Leads(q)'
      PROVE  /\ \/ op' = "take"
                \/ op' = "none" /\ q = task' /\ phase' \in Busy
             /\ OthersWait(q)'
  <2>1. Leads(q)
    <3>1. CASE q = r
      BY <1>4, <3>1 DEF Leads
    <3>2. CASE q # r
      BY <1>4, <3>2 DEF Leads, Underway, Harmless
    <3>3. QED
      BY <3>1, <3>2
  <2>2. OthersWait(q) /\ (op = "take" \/ (op = "none" /\ q = task /\ phase \in Busy))
    BY <1>4, <2>1 DEF LeadInv
  <2>3. OthersWait(q)'
    BY <2>2, OthersStillWait
  <2>4. phase' = phase \/ phase' \in Busy
    <3>1. CASE q = r
      BY <1>4, <3>1 DEF Leads
    <3>2. CASE q # r
      BY <2>2, <3>2 DEF OthersWait
    <3>3. QED
      BY <3>1, <3>2
  <2>5. QED
    BY <2>2, <2>3, <2>4
<1>5. QED
  BY <1>2, <1>3, <1>4 DEF LeadInv

\* A task that moves and neither spawns nor stores.
LEMMA LiveKept ==
  ASSUME LiveInv, NEW r \in Starts, Underway(r),
         \A p \in Starts \ {r} : bg'[p] = bg[p],
         UNCHANGED << op, aborted, raced, lost, server, child >>,
         Waits(r) /\ Underway(r)' => Waits(r)',
         Alive(r) => bg[r] \in {"announce", "console", "cheats"},
         phase' = phase \/ bg[r] \notin Awaits \ {"pull"},
         bg[r] = "announce" => phase' = "Running"
  PROVE  LiveInv'
<1>1. ASSUME ~ raced', NEW q \in Starts \ lost', Alive(q)'
      PROVE  /\ op' \in {"none", "take"}
             /\ server'[q] = "up"
             /\ \/ bg'[q] = "store"
                \/ child' = q /\ (bg'[q] = "announce" \/ phase' = "Running")
             /\ OthersWait(q)'
  <2>1. /\ Alive(q) /\ op \in {"none", "take"} /\ server[q] = "up"
        /\ bg[q] = "store" \/ (child = q /\ (bg[q] = "announce" \/ phase = "Running"))
        /\ OthersWait(q)
    BY <1>1 DEF LiveInv, Alive
  <2>2. OthersWait(q)'
    BY <2>1, OthersStillWait
  <2>3. CASE q = r
    <3>1. bg[r] \in {"announce", "console", "cheats"}
      BY <2>1, <2>3
    <3>2. child = q
      BY <2>1, <2>3, <3>1
    <3>3. phase' = "Running"
      BY <2>1, <2>3, <3>1 DEF Awaits
    <3>4. QED
      BY <2>1, <2>2, <3>2, <3>3
  <2>4. CASE q # r
    <3>1. phase' = phase /\ bg'[q] = bg[q]
      BY <2>1, <2>4 DEF OthersWait, Waits
    <3>2. QED
      BY <2>1, <2>2, <3>1
  <2>5. QED
    BY <2>3, <2>4
<1>2. QED
  BY <1>1 DEF LiveInv

\* While a task is under way, nothing is asked of a quiet stop.
LEMMA QuietSame ==
  ASSUME QuietInv, NEW r \in Starts, Underway(r), UNCHANGED << op, stopped, quiet >>
  PROVE  QuietInv'
BY DEF QuietInv, Stopping
-----------------------------------------------------------------------------
\* A step of the install part.
LEMMA InstallStepKeeps ==
  ASSUME IInv, NEW r \in Starts, OfTask(InstallStep(r))
  PROVE  IInv'
<1> USE DEF OfTask, installVars, diskVars, mgrVars, histVars, raceVars, Moves, ResumesTo, Resumed, Goto, IInv
<1>1. TypeOK'
  <2>1. CASE FindSvends(r)
    <3>1. dir' = dir \/ \E d \in Dirs : dir' = [dir EXCEPT ![r] = d]
      BY <2>1 DEF FindSvends, Looks, Dirs, Wanted
    <3>2. \E to \in BgStates : bg' = [bg EXCEPT ![r] = to]
      BY <2>1 DEF FindSvends, Looks, BgStates, Awaits, Prior
    <3>3. UNCHANGED << diskVars, pulled, mgrVars, phase, child, stdin, server, histVars >>
      BY <2>1 DEF FindSvends, Looks
    <3>4. dir' \in [Starts -> Dirs \cup {None}] /\ bg' \in [Starts -> BgStates]
      BY <3>1, <3>2 DEF TypeOK, InstallTypes
    <3>5. QED
      BY <3>3, <3>4 DEF TypeOK, InstallTypes
  <2>2. CASE EnsureSteamcmd(r) \/ Download(r)
    BY <2>2 DEF EnsureSteamcmd, Download, TypeOK, InstallTypes, BgStates, Awaits, Prior
  <2>3. CASE ExtractArchive(r)
    BY <2>3 DEF ExtractArchive, TypeOK, InstallTypes, BgStates, Awaits, Prior, Extent
  <2>4. CASE EnsureLibs(r) \/ AptInstalls(r) \/ RunSteamcmd(r)
    <3>1. \E to \in BgStates : bg' = [bg EXCEPT ![r] = to]
      BY <2>4 DEF EnsureLibs, AptInstalls, RunSteamcmd, BgStates, Awaits, Prior
    <3>2. bg' \in [Starts -> BgStates]
      BY <3>1 DEF TypeOK
    <3>3. /\ libs' \in {libs, TRUE}
          /\ UNCHANGED << dir, boot, files, marker, pulled, mgrVars, phase, child, stdin, server,
                          histVars >>
      BY <2>4 DEF EnsureLibs, AptInstalls, RunSteamcmd
    <3>4. QED
      BY <3>2, <3>3 DEF TypeOK, InstallTypes
  <2>5. CASE SteamcmdExits(r)
    BY <2>5 DEF SteamcmdExits, TypeOK, InstallTypes, BgStates, Awaits, Prior
  <2>6. CASE Remember(r)
    BY <2>6 DEF Remember, TypeOK, InstallTypes, BgStates, Awaits, Prior
  <2>7. CASE SteamcmdInstalls(r)
    BY <2>7 DEF SteamcmdInstalls, TypeOK, InstallTypes, Install, Extent
  <2>8. QED
    BY <2>1, <2>2, <2>3, <2>4, <2>5, <2>6, <2>7 DEF InstallStep
<1>2. UNCHANGED << op, cancel, aborted, stopped, quiet, early, phase, child, stdin, server >>
  OBVIOUS
<1>3. Underway(r)
  BY DEF InstallStep, FindSvends, Looks, EnsureSteamcmd, Download, ExtractArchive, EnsureLibs,
         AptInstalls, RunSteamcmd, SteamcmdExits, Remember, SteamcmdInstalls, Underway
<1>4. QuietInv'
  BY <1>2, <1>3, QuietSame
<1>5. /\ \A q \in Starts \ {r} : bg'[q] = bg[q] /\ dir'[q] = dir[q]
      /\ pulled' \subseteq pulled \cup {r}
  <2>1. bg' = bg \/ \E to \in BgStates : bg' = [bg EXCEPT ![r] = to]
    BY <1>1 DEF InstallStep, FindSvends, Looks, EnsureSteamcmd, Download, ExtractArchive,
         EnsureLibs, AptInstalls, RunSteamcmd, SteamcmdExits, Remember, SteamcmdInstalls, TypeOK,
         BgStates, Awaits, Prior
  <2>2. dir' = dir \/ \E d \in Dirs : dir' = [dir EXCEPT ![r] = d]
    BY DEF InstallStep, FindSvends, Looks, EnsureSteamcmd, Download, ExtractArchive,
         EnsureLibs, AptInstalls, RunSteamcmd, SteamcmdExits, Remember, SteamcmdInstalls, Dirs, Wanted
  <2>3. pulled' \subseteq pulled \cup {r}
    BY DEF InstallStep, FindSvends, Looks, EnsureSteamcmd, Download, ExtractArchive,
         EnsureLibs, AptInstalls, RunSteamcmd, SteamcmdExits, Remember, SteamcmdInstalls
  <2>4. QED
    BY <2>1, <2>2, <2>3 DEF TypeOK, InstallTypes
<1>6. FilesGrow
  <2>1. CASE SteamcmdInstalls(r)
    BY <2>1 DEF SteamcmdInstalls, TypeOK, InstallTypes, FilesGrow, Executable
  <2>2. CASE ~ SteamcmdInstalls(r)
    <3>1. files' = files
      BY <2>2 DEF InstallStep, FindSvends, Looks, EnsureSteamcmd, Download, ExtractArchive,
         EnsureLibs, AptInstalls, RunSteamcmd, SteamcmdExits, Remember
    <3>2. QED
      BY <3>1 DEF FilesGrow, Executable
  <2>3. QED
    BY <2>1, <2>2
<1>7. \A q \in Starts \ {r} : TaskInv(q)'
  BY <1>2, <1>5, <1>6, TaskSame
<1>8. UpInv' /\ LeadInv' /\ LiveInv'
  <2>1. bg[r] \notin {"store", "announce", "console", "cheats", "ended"}
    BY DEF InstallStep, FindSvends, Looks, EnsureSteamcmd, Download, ExtractArchive, EnsureLibs,
         AptInstalls, RunSteamcmd, SteamcmdExits, Remember, SteamcmdInstalls
  <2>2. UpInv'
    BY <1>2, <1>5, <2>1 DEF UpInv
  <2>3. ~ Waits(r)
    BY DEF Waits, Awaits, Prior, InstallStep, FindSvends, Looks, EnsureSteamcmd, Download,
           ExtractArchive, EnsureLibs, AptInstalls, RunSteamcmd, SteamcmdExits, Remember,
           SteamcmdInstalls
  <2>4. Harmless(r) => bg'[r] = bg[r]
    BY <2>3 DEF Waits, Harmless, InstallStep, FindSvends, Looks, EnsureSteamcmd, Download,
           ExtractArchive, EnsureLibs, AptInstalls, RunSteamcmd, SteamcmdExits, Remember,
           SteamcmdInstalls
  <2>5. Harmless(r) => Harmless(r)'
    BY <1>2, <2>4 DEF Harmless
  <2>6. UNCHANGED << op, task, aborted, raced, lost, server, child, phase >>
    BY DEF raceVars
  <2>7. LeadInv'
    BY <1>3, <1>5, <2>3, <2>5, <2>6, LeadKept
  <2>8. ~ Alive(r)
    BY <2>1 DEF TaskInv, SpawnInv, Launched, Alive
  <2>9. LiveInv'
    BY <1>3, <1>5, <2>1, <2>3, <2>6, <2>8, LiveKept
  <2>10. QED
    BY <2>2, <2>7, <2>9
<1>9. TaskInv(r)'
  <2>1. server'[r] = "none" /\ server[r] = "none"
    <3>1. bg[r] \notin Launched \cup {"ended"}
      BY DEF InstallStep, FindSvends, Looks, EnsureSteamcmd, Download, ExtractArchive, EnsureLibs,
             AptInstalls, RunSteamcmd, SteamcmdExits, Remember, SteamcmdInstalls, Launched
    <3>2. QED
      BY <1>2, <3>1 DEF TaskInv, SpawnInv
  <2>2. r \in early => bg'[r] = bg[r]
    <3>1. r \in early => r \in aborted /\ bg[r] \in Prior \cup {"polled"}
      <4>1. bg[r] \notin {"error", "ended"}
        BY DEF InstallStep, FindSvends, Looks, EnsureSteamcmd, Download, ExtractArchive, EnsureLibs,
               AptInstalls, RunSteamcmd, SteamcmdExits, Remember, SteamcmdInstalls
      <4>2. QED
        BY <4>1 DEF TaskInv, EarlyInv
    <3>2. CASE r \in early
      BY <3>1, <3>2 DEF Prior, InstallStep, FindSvends, Looks, EnsureSteamcmd, Download,
         ExtractArchive, EnsureLibs, AptInstalls, RunSteamcmd, SteamcmdExits, Remember, SteamcmdInstalls
    <3>3. QED
      BY <3>2
  <2>3. SpawnInv(r)' /\ EarlyInv(r)'
    <3>1. bg'[r] \notin Launched
      BY <1>1 DEF InstallStep, FindSvends, Looks, EnsureSteamcmd, Download, ExtractArchive, EnsureLibs,
             AptInstalls, RunSteamcmd, SteamcmdExits, Remember, SteamcmdInstalls, Launched, TypeOK
    <3>2. QED
      BY <1>2, <2>1, <2>2, <3>1 DEF SpawnInv, EarlyInv, TaskInv
  <2>4. bg \in [Starts -> BgStates] /\ dir \in [Starts -> Dirs \cup {None}]
    BY DEF TypeOK, InstallTypes
  <2>5. bg[r] # "none" /\ dir[r] \in Dirs /\ InstallInv(r)
    BY <1>3 DEF Underway, TaskInv, InstallInv
  <2>6. CASE FindSvends(r)
    <3>1. r \notin pulled /\ r \notin pulled'
      BY <2>5, <2>6 DEF FindSvends, Looks, InstallInv, AfterPull
    <3>2. bg'[r] \notin {"mark", "marking"}
      BY <2>4, <2>6 DEF FindSvends, Looks
    <3>3. dir'[r] \in Dirs
      BY <2>4, <2>5, <2>6 DEF FindSvends, Looks, Dirs, Wanted
    <3>4. QED
      BY <2>3, <3>1, <3>2, <3>3 DEF InstallInv, TaskInv
  <2>7. CASE EnsureSteamcmd(r) \/ Download(r) \/ ExtractArchive(r) \/ EnsureLibs(r) \/ AptInstalls(r) \/ RunSteamcmd(r)
    <3>1. r \notin pulled /\ r \notin pulled'
      BY <2>5, <2>7 DEF EnsureSteamcmd, Download, ExtractArchive, EnsureLibs, AptInstalls, RunSteamcmd,
                        InstallInv, AfterPull
    <3>2. bg'[r] \notin {"mark", "marking"}
      BY <2>4, <2>7 DEF EnsureSteamcmd, Download, ExtractArchive, EnsureLibs, AptInstalls, RunSteamcmd
    <3>3. dir'[r] = dir[r]
      BY <2>7 DEF EnsureSteamcmd, Download, ExtractArchive, EnsureLibs, AptInstalls, RunSteamcmd
    <3>4. QED
      BY <2>3, <2>5, <3>1, <3>2, <3>3 DEF InstallInv, TaskInv
  <2>8. CASE SteamcmdExits(r)
    <3>1. /\ dir' = dir /\ files' = files
          /\ \/ files[dir[r]] \in {"whole", "unfit"} /\ bg'[r] = "pulled"
             \/ pulled' = pulled /\ r \notin pulled /\ bg'[r] = "error"
      BY <2>4, <2>5, <2>8 DEF SteamcmdExits, InstallInv, AfterPull
    <3>2. InstallInv(r)'
      BY <2>1, <2>5, <3>1 DEF InstallInv, AfterPull
    <3>3. QED
      BY <2>3, <3>2 DEF TaskInv
  <2>9. CASE Remember(r)
    <3>1. /\ dir' = dir /\ files' = files /\ pulled' = pulled
          /\ \/ bg[r] = "verify" /\ bg'[r] = "mark" /\ Executable(dir[r])
             \/ bg[r] = "verify" /\ bg'[r] = "error"
             \/ bg[r] \in {"mark", "marking"} /\ bg'[r] \in {"marking", "marked"}
             \/ bg[r] = "marked" /\ bg'[r] = "prepared"
      BY <2>4, <2>9 DEF Remember
    <3>2. InstallInv(r)'
      BY <2>1, <2>5, <3>1 DEF InstallInv, AfterPull, Executable
    <3>3. QED
      BY <2>3, <3>2 DEF TaskInv
  <2>10. CASE SteamcmdInstalls(r)
    <3>1. bg' = bg /\ dir' = dir /\ pulled' = pulled
      BY <2>10 DEF SteamcmdInstalls
    <3>2. QED
      BY <1>2, <1>6, <3>1, TaskSame
  <2>11. QED
    BY <2>6, <2>7, <2>8, <2>9, <2>10 DEF InstallStep
<1>10. MarkerNamesInstall'
  <2>1. \/ marker' = marker \/ marker' = Torn
        \/ bg[r] = "marking" /\ marker' = dir[r]
    BY DEF InstallStep, FindSvends, Looks, EnsureSteamcmd, Download, ExtractArchive, EnsureLibs,
           AptInstalls, RunSteamcmd, SteamcmdExits, Remember, SteamcmdInstalls
  <2>2. bg[r] = "marking" => Executable(dir[r])
    BY DEF TaskInv, InstallInv
  <2>3. marker' \in Dirs => Executable(marker')
    BY <2>1, <2>2 DEF MarkerNamesInstall, Dirs, Wanted, Torn
  <2>4. QED
    BY <1>6, <2>3 DEF MarkerNamesInstall, FilesGrow, Executable
<1>11. QED
  BY <1>1, <1>4, <1>7, <1>8, <1>9, <1>10
-----------------------------------------------------------------------------
\* A step of a task beyond the install part.
OwnStep(r) ==
  \/ Finds(r) \/ Pulls(r) \/ Prepares(r) \/ Spawns(r) \/ Stores(r)
  \/ Announces(r) \/ GivesUp(r) \/ EndsAborted(r)

\* How such a step moves its task, and what it does to the server.
Move(r, from, to) == bg[r] = from /\ bg' = [bg EXCEPT ![r] = to]

\* What a task's own steps change.
LEMMA OwnMoves ==
  ASSUME TypeOK, NEW r \in Starts, OwnStep(r)
  PROVE  /\ UNCHANGED << mgrVars, installVars, histVars >>
         /\ \/ /\ UNCHANGED server
               /\ UNCHANGED child
               /\ \/ Move(r, "unfound", "pulling") \/ Move(r, "unfound", "idle")
                  \/ Move(r, "pulling", "ensure") \/ Move(r, "pull", "polled")
                  \/ Move(r, "polled", "error") \/ Move(r, "polled", "pull")
                  \/ Move(r, "pulled", "verify") \/ Move(r, "pulled", "idle")
                  \/ Move(r, "found", "prepared") \/ Move(r, "prepared", "starting")
                  \/ Move(r, "prepared", "idle") \/ Move(r, "starting", "prepare")
                  \/ r \notin aborted /\ Move(r, "prepare", "mapcycle")
                  \/ r \notin aborted /\ Move(r, "mapcycle", "spawn")
                  \/ Move(r, "spawn", "spawning") \/ Move(r, "spawn", "idle")
                  \/ Move(r, "spawning", "error")
                  \/ Move(r, "announce", "console")
                  \/ Move(r, "console", "cheats") \/ Move(r, "console", "ended")
                  \/ Move(r, "cheats", "ended")
                  \/ Move(r, "idle", "ended") \/ Move(r, "error", "ended")
                  \/ r \in aborted /\ bg[r] \in Awaits /\ bg' = [bg EXCEPT ![r] = "ended"]
            \/ /\ server' = [server EXCEPT ![r] = "up"]
               /\ UNCHANGED child
               /\ Move(r, "spawning", "store")
            \/ /\ child' = r
               /\ server' = [q \in Starts |-> IF q = child /\ server[q] = "up" THEN "orphan" ELSE server[q]]
               /\ Move(r, "store", "announce")
<1> USE DEF OfTask, Proceeds, Resumes, Checks, Sets, Moves, ResumesTo, ChecksFlag, Goto, Move
<1>1. CASE Finds(r) \/ Pulls(r)
  BY <1>1 DEF Finds, Pulls
<1>2. CASE Prepares(r)
  BY <1>2 DEF Prepares, PrecreateSoundcache, FixMapcycle
<1>3. CASE Spawns(r) \/ Stores(r)
  BY <1>3 DEF Spawns, Stores
<1>4. CASE Announces(r) \/ GivesUp(r) \/ EndsAborted(r)
  BY <1>4 DEF Announces, GivesUp, EndsAborted
<1>5. QED
  BY <1>1, <1>2, <1>3, <1>4 DEF OwnStep

\* What it does to the phase and to the console.
LEMMA OwnSets ==
  ASSUME TypeOK, NEW r \in Starts, OwnStep(r)
  PROVE  /\ phase' \in Phases
         /\ stdin' = stdin \/ (stdin' = r /\ bg[r] = "console")
         /\ \/ phase' = phase
            \/ /\ bg[r] \notin Awaits \ {"pull"}
               /\ phase' \in Busy \/ bg[r] \in {"idle", "error"}
         /\ bg[r] = "announce" => phase' = "Running"
<1> USE DEF OfTask, Proceeds, Resumes, Checks, Sets, Moves, ResumesTo, ChecksFlag, TypeOK, Phases, Busy, Awaits, Prior
<1>1. CASE Finds(r) \/ Pulls(r)
  BY <1>1 DEF Finds, Pulls
<1>2. CASE Prepares(r)
  BY <1>2 DEF Prepares, PrecreateSoundcache, FixMapcycle
<1>3. CASE Spawns(r) \/ Stores(r)
  BY <1>3 DEF Spawns, Stores
<1>4. CASE Announces(r) \/ GivesUp(r) \/ EndsAborted(r)
  BY <1>4 DEF Announces, GivesUp, EndsAborted
<1>5. QED
  BY <1>1, <1>2, <1>3, <1>4 DEF OwnStep

\* Spawning or storing, a task leads, and no other does.
LEMMA OwnStepLive ==
  ASSUME IInv, NEW r \in Starts, OwnStep(r)
  PROVE  UpInv' /\ LeadInv' /\ LiveInv'
<1> USE DEF Move, IInv
<1>0. /\ bg \in [Starts -> BgStates] /\ server \in [Starts -> ServerStates]
      /\ None \notin Starts
      /\ SpawnInv(r)
  BY StartsAssumption DEF TypeOK, TaskInv
<1>1. /\ UNCHANGED << op, task, aborted, raced, lost >>
      /\ \A q \in Starts \ {r} : bg'[q] = bg[q]
  BY <1>0, OwnMoves DEF mgrVars, histVars, raceVars
<1>2. Underway(r)
  BY OwnMoves DEF Underway, Awaits, Prior
<1>3. UpInv'
  BY <1>0, OwnMoves DEF UpInv, Awaits, Prior
<1>4. Waits(r) => bg'[r] \in {"cheats", "ended"}
  BY <1>0, OwnMoves DEF Waits, Awaits, Prior
<1>5. Harmless(r) => bg'[r] \in {"polled", "pull", "error", "cheats", "ended"}
  BY <1>0, OwnMoves DEF Harmless, Awaits, Prior
<1>6. Waits(r) /\ Underway(r)' => Waits(r)'
  BY <1>1, <1>4 DEF Waits, Underway, Awaits
<1>7. Harmless(r) /\ Underway(r)' => Harmless(r)'
  BY <1>1, <1>5 DEF Harmless, Underway, Awaits, Prior
<1>8. bg[r] \in {"idle", "error"} => ~ Underway(r)'
  BY <1>0, OwnMoves DEF Underway, Awaits, Prior
<1>9. /\ \/ phase' = phase
         \/ bg[r] \notin Awaits \ {"pull"} /\ (phase' \in Busy \/ bg[r] \in {"idle", "error"})
      /\ bg[r] = "announce" => phase' = "Running"
  BY OwnSets
<1>10. LeadInv'
  <2>1. phase' = phase \/ (~ Waits(r) /\ (phase' \in Busy \/ ~ Underway(r)'))
    BY <1>8, <1>9 DEF Waits
  <2>2. QED
    BY <1>1, <1>2, <1>6, <1>7, <2>1, LeadKept
<1>11. CASE UNCHANGED << server, child >> /\ bg[r] # "store"
  <2>1. Alive(r) => bg[r] \in {"announce", "console", "cheats"}
    BY <1>0, <1>2, <1>11 DEF SpawnInv, Launched, Alive, Underway
  <2>2. LiveInv'
    BY <1>1, <1>2, <1>6, <1>9, <1>11, <2>1, LiveKept
  <2>3. QED
    BY <1>3, <1>10, <2>2
<1>12. ASSUME bg[r] \in {"spawning", "store"}, ~ raced
       PROVE  /\ op \in {"none", "take"} /\ OthersWait(r) /\ OthersWait(r)'
              /\ \A q \in Starts \ lost : Alive(q) => q = r
  <2>1. Leads(r) /\ ~ Waits(r)
    BY <1>2, <1>12 DEF Leads, Harmless, Waits, Awaits, Prior
  <2>2. op \in {"none", "take"} /\ OthersWait(r)
    BY <1>12, <2>1 DEF LeadInv
  <2>3. OthersWait(r)'
    BY <1>1, <1>2, <1>6, <2>2, OthersStillWait
  <2>4. \A q \in Starts \ lost : Alive(q) => q = r
    BY <1>2, <1>12, <2>1 DEF LiveInv, OthersWait
  <2>5. QED
    BY <2>2, <2>3, <2>4
<1>13. CASE server' = [server EXCEPT ![r] = "up"] /\ child' = child /\ Move(r, "spawning", "store")
  <2>1. \A q \in Starts \ {r} : server'[q] = server[q]
    BY <1>0, <1>13
  <2>2. server'[r] = "up" /\ bg'[r] = "store"
    BY <1>0, <1>13
  <2>3. ASSUME ~ raced', NEW q \in Starts \ lost', Alive(q)'
        PROVE  q = r /\ op' \in {"none", "take"} /\ OthersWait(r)'
    BY <1>1, <1>12, <1>13, <2>1, <2>3 DEF Alive
  <2>4. LiveInv'
    BY <2>2, <2>3 DEF LiveInv
  <2>5. QED
    BY <1>3, <1>10, <2>4
<1>14. CASE /\ child' = r
            /\ server' = [q \in Starts |-> IF q = child /\ server[q] = "up" THEN "orphan" ELSE server[q]]
            /\ Move(r, "store", "announce")
  <2>1. child # r
    BY <1>14 DEF UpInv
  <2>2. server'[r] = server[r] /\ bg'[r] = "announce"
    BY <1>0, <1>14, <2>1
  <2>3. \A q \in Starts : Alive(q)' => Alive(q)
    BY <1>0, <1>14 DEF Alive
  <2>4. ASSUME ~ raced', NEW q \in Starts \ lost', Alive(q)'
        PROVE  q = r /\ op' \in {"none", "take"} /\ server[r] = "up" /\ OthersWait(r)'
    <3>1. ~ raced /\ q \in Starts \ lost /\ Alive(q) /\ op' = op
      BY <1>1, <2>3, <2>4
    <3>2. q = r /\ op \in {"none", "take"} /\ OthersWait(r)'
      BY <1>12, <1>14, <3>1
    <3>3. server[r] = "up"
      BY <3>1, <3>2 DEF LiveInv
    <3>4. QED
      BY <3>1, <3>2, <3>3
  <2>5. LiveInv'
    BY <1>14, <2>2, <2>4 DEF LiveInv
  <2>6. QED
    BY <1>3, <1>10, <2>5
<1>15. QED
  BY <1>11, <1>13, <1>14, OwnMoves DEF Awaits, Prior

\* A task's own steps keep the invariant.
LEMMA OwnStepKeeps ==
  ASSUME IInv, NEW r \in Starts, OwnStep(r)
  PROVE  IInv'
<1> USE DEF Move, IInv
<1>0. /\ bg \in [Starts -> BgStates] /\ server \in [Starts -> ServerStates]
      /\ None \notin Starts
      /\ TaskInv(r)
  BY StartsAssumption DEF TypeOK
<1>1. /\ UNCHANGED << op, cancel, task, aborted, dir, boot, libs, files, marker, pulled,
                      stopped, quiet, early, raced, lost >>
      /\ \A q \in Starts \ {r} : bg'[q] = bg[q]
      /\ \A q \in Starts \ {r} : server'[q] = "none" <=> server[q] = "none"
  BY <1>0, OwnMoves DEF mgrVars, installVars, diskVars, histVars, raceVars
<1>2. FilesGrow
  BY <1>1 DEF FilesGrow, Executable
<1>3. \A q \in Starts \ {r} : TaskInv(q)'
  BY <1>1, <1>2, TaskSame
<1>4. Underway(r)
  BY OwnMoves DEF Underway, Awaits, Prior
<1>5. QuietInv'
  BY <1>1, <1>4, QuietSame
<1>6. server'[r] # "none" => server[r] # "none" \/ (bg[r] = "spawning" /\ bg'[r] = "store")
  BY <1>0, OwnMoves
<1>7. SpawnInv(r)'
  BY <1>0, OwnMoves DEF TaskInv, SpawnInv, Launched, Awaits, Prior
<1>8. EarlyInv(r)'
  BY <1>0, <1>1, <1>6, OwnMoves DEF TaskInv, EarlyInv, Prior
<1>9. InstallInv(r)'
  <2>1. dir'[r] \in Dirs /\ files'[dir'[r]] = files[dir[r]] /\ (r \in pulled' <=> r \in pulled)
    BY <1>0, <1>1, <1>4 DEF Underway, TaskInv, InstallInv
  <2>2. bg'[r] \notin {"mark", "marking"}
    BY <1>0, OwnMoves
  <2>3. bg[r] \in AfterPull => bg'[r] \in AfterPull
    BY <1>0, OwnMoves DEF AfterPull
  <2>4. bg[r] \in {"pulled", "verify", "idle", "error", "ended"} /\ server[r] = "none"
           => bg'[r] \in {"pulled", "verify", "idle", "error", "ended"} /\ server'[r] = "none"
    BY <1>0, OwnMoves
  <2>5. QED
    BY <1>0, <2>1, <2>2, <2>3, <2>4 DEF TaskInv, InstallInv
<1>10. TypeOK'
  <2>1. bg' \in [Starts -> BgStates]
    BY <1>0, OwnMoves DEF BgStates, Awaits, Prior
  <2>2. server' \in [Starts -> ServerStates]
    BY <1>0, OwnMoves DEF ServerStates
  <2>3. phase' \in Phases
    BY OwnSets
  <2>4. \A q \in Starts : server[q] # "none" => server'[q] # "none"
    BY <1>0, OwnMoves
  <2>5. child' \in {q \in Starts : server'[q] # "none"} \cup {None}
    <3>1. child' = child \/ (child' = r /\ server[r] # "none")
      BY <1>0, OwnMoves DEF TaskInv, SpawnInv, Launched
    <3>2. QED
      BY <2>4, <3>1 DEF TypeOK
  <2>6. stdin' \in {q \in Starts : server'[q] # "none"} \cup {None}
    <3>1. stdin' = stdin \/ (stdin' = r /\ server[r] # "none")
      BY <1>0, OwnSets DEF TaskInv, SpawnInv, Launched
    <3>2. QED
      BY <2>4, <3>1 DEF TypeOK
  <2>7. QED
    BY <1>1, <2>1, <2>2, <2>3, <2>5, <2>6 DEF TypeOK, InstallTypes
<1>11. UpInv' /\ LeadInv' /\ LiveInv'
  BY OwnStepLive
<1>12. MarkerNamesInstall'
  BY <1>1 DEF MarkerNamesInstall, Executable
<1>13. QED
  BY <1>3, <1>5, <1>7, <1>8, <1>9, <1>10, <1>11, <1>12 DEF TaskInv
-----------------------------------------------------------------------------
\* A start is refused while a task leads or a game binary lives.
LEMMA StartAcceptedLive ==
  ASSUME IInv, StartAccepted
  PROVE  LeadInv' /\ LiveInv'
<1>1. /\ op = "none" /\ op' = "start" /\ phase \notin Busy
      /\ UNCHANGED << task, aborted, phase, child, bg, server, raced, lost >>
  BY DEF StartAccepted, raceVars, Busy
<1>2. ~ raced => \A q \in Starts : ~ Leads(q)
  BY <1>1 DEF IInv, LeadInv
<1>3. ~ raced => \A q \in Starts \ lost : ~ Alive(q)
  <2>1. ASSUME ~ raced, NEW q \in Starts \ lost, Alive(q)
        PROVE  FALSE
    <3>1. bg[q] \in {"store", "announce"}
      BY <1>1, <2>1 DEF IInv, LiveInv, Busy
    <3>2. Leads(q)
      BY <3>1 DEF Leads, Underway, Harmless, Awaits, Prior
    <3>3. QED
      BY <1>2, <2>1, <3>2
  <2>2. QED
    BY <2>1
<1>4. \A q \in Starts : (Leads(q)' => Leads(q)) /\ (Alive(q)' => Alive(q))
  BY <1>1 DEF Leads, Underway, Harmless, Alive
<1>5. \A q \in Starts : Underway(q)' /\ q \notin aborted' => q = task'
  BY <1>1 DEF IInv, LeadInv, Underway
<1>6. LeadInv'
  BY <1>1, <1>2, <1>4, <1>5 DEF LeadInv, Stopping
<1>7. QED
  BY <1>1, <1>3, <1>4, <1>6 DEF LiveInv

\* Its task leads: the others have been aborted, and wait unless overtaken.
LEMMA StartSpawnsLive ==
  ASSUME IInv, NEW r \in Starts, StartSpawns(r)
  PROVE  LeadInv' /\ LiveInv'
<1>1. /\ op = "start" /\ op' = "none" /\ task' = r /\ phase' \in Busy
      /\ UNCHANGED << server, child, lost >>
      /\ aborted' = aborted \cup {q \in {task} \ {None} : Underway(q)}
      /\ raced' = (raced \/ \E q \in Starts : Underway(q) /\ bg[q] \notin Awaits \ {"pull"})
  BY DEF StartSpawns, Abort, Overtakes, Busy
<1>2. bg' = [bg EXCEPT ![r] = "find"] /\ bg \in [Starts -> BgStates]
  BY DEF StartSpawns, Goto, IInv, TypeOK
<1>3. \A q \in Starts \ {r} : bg'[q] = bg[q]
  BY <1>2
<1>4. \A q \in Starts : Underway(q) => q \in aborted'
  BY <1>1, StartsAssumption DEF IInv, LeadInv
<1>5. \A q \in Starts : Underway(q)' /\ q \notin aborted' => q = task'
  BY <1>1, <1>3, <1>4 DEF Underway
<1>6. ASSUME ~ raced'
      PROVE  OthersWait(r)' /\ \A q \in Starts \ {r} : ~ Leads(q)'
  <2>1. ASSUME NEW q \in Starts \ {r}, Underway(q)'
        PROVE  Waits(q)' /\ Harmless(q)'
    BY <1>1, <1>3, <1>4, <1>6, <2>1 DEF Underway, Waits, Harmless
  <2>2. QED
    BY <2>1 DEF OthersWait, Leads
<1>7. ~ raced' => \A q \in Starts \ lost' : ~ Alive(q)'
  BY <1>1 DEF IInv, LiveInv, Alive
<1>8. LeadInv'
  BY <1>1, <1>5, <1>6 DEF LeadInv, Stopping
<1>9. QED
  BY <1>7, <1>8 DEF LiveInv

\* Those that wait still do when no task moves, and none leads that did not.
LEMMA StillWait ==
  ASSUME bg' = bg, aborted \subseteq aborted', NEW q \in Starts, OthersWait(q)
  PROVE  OthersWait(q)'
BY DEF OthersWait, Waits, Underway

LEMMA StillLeads ==
  ASSUME bg' = bg, aborted \subseteq aborted', NEW q \in Starts, Leads(q)'
  PROVE  Leads(q)
BY DEF Leads, Harmless, Underway

\* A stop aborts the task; when it looks for the child and no task runs on, none
\* leads any more.
LEMMA StopLive ==
  ASSUME IInv, StopBegins \/ StopNext \/ StopCancelled \/ StatusReaps
  PROVE  UpInv' /\ LeadInv' /\ LiveInv'
<1> USE DEF IInv
<1>0. server \in [Starts -> ServerStates] /\ None \notin Starts
  BY StartsAssumption DEF TypeOK
<1>1. CASE StopBegins
  <2>1. /\ op = "none" /\ op' = "take" /\ task' = None
        /\ UNCHANGED << phase, child, bg, server, raced, lost >>
        /\ aborted' = aborted \cup {q \in {task} \ {None} : Underway(q)}
    BY <1>1 DEF StopBegins, Abort, NotesStop, raceVars
  <2>2. \A q \in Starts : Underway(q) => q \in aborted'
    BY <1>0, <2>1 DEF LeadInv
  <2>3. ASSUME NEW q \in Starts
        PROVE  (Leads(q)' => Leads(q)) /\ (OthersWait(q) => OthersWait(q)')
    BY <2>1, StillWait, StillLeads
  <2>4. LeadInv'
    <3>1. ASSUME NEW q \in Starts, ~ raced', Leads(q)'
          PROVE  op' = "take" /\ OthersWait(q)'
      BY <2>1, <2>3, <3>1 DEF LeadInv
    <3>2. \A q \in Starts : Underway(q)' /\ q \notin aborted' => q = task'
      BY <2>1, <2>2 DEF Underway
    <3>3. QED
      BY <2>1, <3>1, <3>2 DEF LeadInv
  <2>5. LiveInv'
    <3>1. ASSUME NEW q \in Starts \ lost', ~ raced', Alive(q)'
          PROVE  Alive(q) /\ OthersWait(q)'
      BY <2>1, <2>3, <3>1 DEF LiveInv, Alive
    <3>2. QED
      BY <2>1, <3>1 DEF LiveInv
  <2>6. UpInv'
    BY <2>1 DEF UpInv
  <2>7. QED
    BY <2>4, <2>5, <2>6
<1>2. CASE StopTakes
  <2>1. /\ op = "take" /\ op' \in {"wait", "stdin"} /\ child' = None
        /\ server' = [q \in Starts |-> IF q = child /\ server[q] = "up" THEN "killed" ELSE server[q]]
        /\ raced' = (raced \/ \E q \in Starts : Underway(q) /\ bg[q] \notin Awaits)
        /\ UNCHANGED << task, aborted, phase, bg, lost >>
    BY <1>2 DEF StopTakes, Overtakes
  <2>2. task = None /\ \A q \in Starts : Underway(q) => q \in aborted
    BY <1>0, <2>1 DEF LeadInv, Stopping
  <2>3. \A q \in Starts : Underway(q)' <=> Underway(q)
    BY <2>1 DEF Underway
  <2>4. ASSUME ~ raced'
        PROVE  \A q \in Starts : ~ Leads(q)'
    BY <2>1, <2>2, <2>3, <2>4 DEF Leads, Harmless, Underway
  <2>5. ASSUME ~ raced', NEW q \in Starts \ lost', Alive(q)'
        PROVE  FALSE
    <3>1. ~ raced /\ q \in Starts \ lost /\ Alive(q)
      BY <1>0, <2>1, <2>5 DEF Alive
    <3>2. bg[q] # "store"
      BY <2>1, <2>5 DEF Underway, Awaits, Prior
    <3>3. child = q /\ server[q] = "up"
      BY <3>1, <3>2 DEF LiveInv
    <3>4. QED
      BY <1>0, <2>1, <2>5, <3>3 DEF Alive
  <2>6. LeadInv'
    BY <2>1, <2>2, <2>3, <2>4 DEF LeadInv
  <2>7. LiveInv'
    BY <2>5 DEF LiveInv
  <2>8. UpInv'
    BY <1>0, <2>1 DEF UpInv
  <2>9. QED
    BY <2>6, <2>7, <2>8
<1>3. CASE StopReaps \/ StopClosesConsole \/ StopReturns \/ StopCancelled
  <2>1. /\ op \in {"wait", "stdin", "live"} /\ op' \in {"stdin", "live", "none"}
        /\ UNCHANGED << task, aborted, child, bg, server, raced, lost >>
    BY <1>3 DEF StopReaps, StopClosesConsole, StopReturns, StopCancelled, mgrVars, installVars,
                histVars, raceVars
  <2>2. ASSUME NEW q \in Starts, ~ raced'
        PROVE  ~ Leads(q)'
    BY <2>1, <2>2, StillLeads DEF LeadInv
  <2>3. ASSUME NEW q \in Starts \ lost', ~ raced'
        PROVE  ~ Alive(q)'
    BY <2>1, <2>3 DEF LiveInv, Alive
  <2>4. task' = None /\ \A q \in Starts : Underway(q)' => q \in aborted'
    BY <1>0, <2>1 DEF LeadInv, Stopping, Underway
  <2>5. LeadInv'
    BY <2>2, <2>4 DEF LeadInv
  <2>6. LiveInv'
    BY <2>3 DEF LiveInv
  <2>7. UpInv'
    BY <2>1 DEF UpInv
  <2>8. QED
    BY <2>5, <2>6, <2>7
<1>4. CASE StatusReaps
  <2>1. /\ child # None /\ server[child] = "exited" /\ child' = None
        /\ UNCHANGED << op, task, aborted, phase, bg, server, raced, lost >>
    BY <1>4 DEF StatusReaps, mgrVars, histVars, raceVars
  <2>2. ASSUME NEW q \in Starts
        PROVE  (Leads(q)' => Leads(q)) /\ (OthersWait(q) => OthersWait(q)')
    BY <2>1, StillWait, StillLeads
  <2>3. LeadInv'
    <3>1. ASSUME NEW q \in Starts, ~ raced', Leads(q)'
          PROVE  /\ \/ op' = "take"
                    \/ op' = "none" /\ q = task' /\ phase' \in Busy
                 /\ OthersWait(q)'
      BY <2>1, <2>2, <3>1 DEF LeadInv
    <3>2. op' \in Stopping => task' = None
      BY <2>1 DEF LeadInv
    <3>3. \A q \in Starts : Underway(q)' /\ q \notin aborted' => q = task'
      BY <2>1 DEF LeadInv, Underway
    <3>4. QED
      BY <3>1, <3>2, <3>3 DEF LeadInv
  <2>4. LiveInv'
    <3>1. ASSUME NEW q \in Starts \ lost', ~ raced', Alive(q)'
          PROVE  /\ op' \in {"none", "take"} /\ server'[q] = "up"
                 /\ bg'[q] = "store" /\ OthersWait(q)'
      <4>1. Alive(q) /\ q # child
        BY <2>1, <3>1 DEF Alive
      <4>2. QED
        BY <2>1, <2>2, <3>1, <4>1 DEF LiveInv
    <3>2. QED
      BY <3>1 DEF LiveInv
  <2>5. UpInv'
    BY <1>0, <2>1 DEF UpInv
  <2>6. QED
    BY <2>3, <2>4, <2>5
<1>5. QED
  BY <1>1, <1>2, <1>3, <1>4 DEF StopNext

\* The operations of the manager and what happens to its processes.
LEMMA StartKeeps ==
  ASSUME IInv, StartAccepted \/ \E r \in Starts : StartSpawns(r)
  PROVE  IInv'
<1> USE DEF IInv, installVars, diskVars, mgrVars, histVars, raceVars, Goto
<1>1. CASE StartAccepted
  <2> USE <1>1 DEF StartAccepted
  <2>1. TypeOK'
    BY DEF TypeOK, InstallTypes, Ops
  <2>2. FilesGrow
    BY DEF FilesGrow, Executable
  <2>3. \A q \in Starts : TaskInv(q)'
    BY <2>2, TaskSame
  <2>4. QuietInv'
    BY DEF QuietInv, Stopping
  <2>5. UpInv' /\ MarkerNamesInstall'
    BY DEF UpInv, MarkerNamesInstall, Executable
  <2>6. LeadInv' /\ LiveInv'
    BY StartAcceptedLive
  <2>7. QED
    BY <2>1, <2>3, <2>4, <2>5, <2>6
<1>2. ASSUME NEW r \in Starts, StartSpawns(r)
      PROVE  IInv'
  <2> USE <1>2 DEF StartSpawns
  <2>1. bg \in [Starts -> BgStates] /\ TaskInv(r) /\ dir \in [Starts -> Dirs \cup {None}]
    BY DEF TypeOK, InstallTypes
  <2>2. /\ \A q \in Starts \ {r} : bg'[q] = bg[q] /\ dir'[q] = dir[q]
        /\ bg'[r] = "find" /\ dir'[r] \in Dirs
        /\ aborted \subseteq aborted' /\ aborted' \subseteq Starts
    BY <2>1 DEF Dirs, Abort, TypeOK
  <2>3. TypeOK'
    <3>1. bg' \in [Starts -> BgStates] /\ dir' \in [Starts -> Dirs \cup {None}]
      BY <2>1 DEF BgStates, Awaits, Prior, Dirs
    <3>2. op' \in Ops /\ phase' \in Phases /\ cancel' \in BOOLEAN /\ task' \in Starts \cup {None}
      BY DEF Ops, Phases
    <3>3. UNCHANGED << child, stdin, server, diskVars, pulled, stopped, quiet, early, lost >>
      BY DEF Overtakes
    <3>4. raced' \in BOOLEAN
      BY DEF Overtakes, TypeOK
    <3>5. QED
      BY <2>2, <3>1, <3>2, <3>3, <3>4 DEF TypeOK, InstallTypes
  <2>4. FilesGrow
    BY DEF FilesGrow, Executable
  <2>5. \A q \in Starts \ {r} : TaskInv(q)'
    BY <2>2, <2>4, TaskSame
  <2>6. server[r] = "none" /\ r \notin pulled /\ r \notin early
    BY <2>1 DEF TaskInv, SpawnInv, InstallInv, EarlyInv, Launched, AfterPull, Prior
  <2>7. TaskInv(r)'
    BY <2>2, <2>6 DEF TaskInv, SpawnInv, InstallInv, EarlyInv, Launched
  <2>8. QuietInv'
    BY DEF QuietInv, Stopping
  <2>9. UpInv' /\ MarkerNamesInstall'
    <3>1. bg[r] = "none"
      OBVIOUS
    <3>2. UpInv'
      BY <2>2, <3>1 DEF UpInv
    <3>3. QED
      BY <3>2 DEF MarkerNamesInstall, Executable
  <2>10. LeadInv' /\ LiveInv'
    BY StartSpawnsLive
  <2>11. QED
    BY <2>3, <2>5, <2>7, <2>8, <2>9, <2>10
<1>3. QED
  BY <1>1, <1>2

\* stop, its cancellation and status keep the invariant.
LEMMA StopKeeps ==
  ASSUME IInv, StopBegins \/ StopNext \/ StopCancelled \/ StatusReaps
  PROVE  IInv'
<1> USE DEF IInv, installVars, diskVars, mgrVars, histVars, raceVars
<1>1. CASE StopBegins
  <2> USE <1>1 DEF StopBegins, NotesStop, Abort
  <2>1. TypeOK'
    BY StartsAssumption DEF TypeOK, InstallTypes, Ops
  <2>2. FilesGrow
    BY DEF FilesGrow, Executable
  <2>3. ASSUME NEW q \in Starts
        PROVE  TaskInv(q)'
    <3>1. CASE q \in early' => q \in early
      BY <2>2, <3>1, TaskSame
    <3>2. CASE q \in early' /\ q \notin early
      <4>1. q = task /\ bg[q] \in Prior
        BY <3>2
      <4>2. q \in aborted'
        BY <4>1, StartsAssumption DEF Underway, Prior
      <4>3. server[q] = "none"
        BY <4>1 DEF TaskInv, SpawnInv, Launched, Prior
      <4>4. EarlyInv(q)'
        BY <4>1, <4>2, <4>3 DEF EarlyInv
      <4>5. InstallInv(q)' /\ SpawnInv(q)'
        BY DEF TaskInv, InstallInv, SpawnInv, Executable
      <4>6. QED
        BY <4>4, <4>5 DEF TaskInv
    <3>3. QED
      BY <3>1, <3>2
  <2>4. QuietInv'
    BY DEF QuietInv, Stopping, Underway
  <2>5. MarkerNamesInstall'
    BY DEF MarkerNamesInstall, Executable
  <2>6. QED
    BY <2>1, <2>3, <2>4, <2>5, StopLive
<1>2. CASE StopNext \/ StopCancelled \/ StatusReaps
  <2> USE <1>2 DEF StopNext, StopTakes, StopReaps, StopClosesConsole, StopReturns, StopCancelled,
                  StatusReaps
  <2>1. /\ UNCHANGED << cancel, task, aborted, bg, installVars, quiet, early >>
        /\ child' \in {child, None} /\ stdin' \in {stdin, None}
        /\ \/ server' = server
           \/ server' = [r \in Starts |-> IF r = child /\ server[r] = "up" THEN "killed" ELSE server[r]]
    OBVIOUS
  <2>2. server' \in [Starts -> ServerStates] /\ \A q \in Starts : server[q] = "none" <=> server'[q] = "none"
    BY <2>1 DEF TypeOK, ServerStates
  <2>3. TypeOK'
    <3>1. op' \in Ops /\ phase' \in Phases /\ stopped' \in BOOLEAN
      BY DEF TypeOK, Ops, Phases
    <3>2. raced' \in BOOLEAN /\ lost' = lost
      BY DEF TypeOK, Overtakes
    <3>3. QED
      BY <2>1, <2>2, <3>1, <3>2 DEF TypeOK, InstallTypes
  <2>4. FilesGrow
    BY <2>1 DEF FilesGrow, Executable
  <2>5. \A q \in Starts : TaskInv(q)'
    BY <2>1, <2>2, <2>4, TaskSame
  <2>6. QuietInv'
    <3>1. \A q \in Starts : Underway(q)' <=> Underway(q)
      BY <2>1 DEF Underway
    <3>2. CASE StopTakes
      BY <2>1, <3>1, <3>2 DEF QuietInv, Stopping
    <3>3. CASE StopReaps \/ StopClosesConsole
      BY <2>1, <3>1, <3>3 DEF QuietInv, Stopping
    <3>4. CASE StopReturns
      BY <2>1, <3>1, <3>4 DEF QuietInv, Stopping
    <3>5. CASE StopCancelled
      BY <2>1, <3>1, <3>5 DEF QuietInv, Stopping
    <3>6. CASE StatusReaps
      BY <2>1, <3>1, <3>6 DEF QuietInv, Stopping
    <3>7. QED
      BY <3>2, <3>3, <3>4, <3>5, <3>6
  <2>7. MarkerNamesInstall'
    BY <2>1 DEF MarkerNamesInstall, Executable
  <2>8. QED
    BY <2>3, <2>5, <2>6, <2>7, StopLive
<1>3. QED
  BY <1>1, <1>2

\* A server that exits keeps the invariant.
LEMMA ServerExitKeeps ==
  ASSUME IInv, NEW r \in Starts, ServerExits(r)
  PROVE  IInv'
<1> USE DEF IInv, installVars, diskVars, mgrVars, histVars, raceVars, ServerExits
<1>1. server' \in [Starts -> ServerStates] /\ \A q \in Starts : server[q] = "none" <=> server'[q] = "none"
  BY DEF TypeOK, ServerStates
<1>2. TypeOK'
  BY <1>1 DEF TypeOK, InstallTypes
<1>3. FilesGrow
  BY DEF FilesGrow, Executable
<1>4. \A q \in Starts : TaskInv(q)'
  BY <1>1, <1>3, TaskSame
<1>5. QuietInv'
  BY DEF QuietInv, Underway
<1>6. UpInv' /\ MarkerNamesInstall'
  BY DEF UpInv, MarkerNamesInstall, Executable, TypeOK
<1>7. LeadInv'
  BY DEF LeadInv, Leads, Harmless, OthersWait, Waits, Underway
<1>8. LiveInv'
  <2>1. \A q \in Starts : Alive(q)' => Alive(q) /\ server'[q] = server[q]
    BY DEF TypeOK, Alive
  <2>2. \A q \in Starts : OthersWait(q)' <=> OthersWait(q)
    BY DEF OthersWait, Waits, Underway
  <2>3. QED
    BY <2>1, <2>2 DEF LiveInv
<1>9. QED
  BY <1>2, <1>4, <1>5, <1>6, <1>7, <1>8

\* A crash ends every task and forgets every process; what is on disk stays.
LEMMA CrashKeeps ==
  ASSUME IInv, Crash
  PROVE  IInv'
<1> USE DEF IInv, installVars, diskVars, Crash
<1>1. /\ bg' \in [Starts -> BgStates]
      /\ server' \in [Starts -> ServerStates]
  BY DEF TypeOK, BgStates, ServerStates
<1>2. TypeOK'
  BY <1>1 DEF TypeOK, InstallTypes, Ops, Phases
<1>3. ASSUME NEW q \in Starts
      PROVE  TaskInv(q)'
  <2>1. TaskInv(q)
    OBVIOUS
  <2>2. /\ bg'[q] \in {"none", "ended"} /\ (bg'[q] = "none" => bg[q] = "none")
        /\ server'[q] = "none" <=> server[q] = "none"
    BY DEF Underway
  <2>3. InstallInv(q)'
    <3>1. InstallInv(q) /\ UNCHANGED << dir, files, pulled >>
      BY <2>1 DEF TaskInv
    <3>2. CASE bg'[q] = "none"
      BY <2>2, <3>1, <3>2 DEF InstallInv, AfterPull
    <3>3. CASE bg'[q] = "ended" /\ bg[q] # "none"
      <4>1. files[dir[q]] = "whole" \/ server[q] = "none" \/ q \notin pulled
        BY <3>1 DEF InstallInv
      <4>2. QED
        BY <2>2, <3>1, <3>3, <4>1 DEF InstallInv, AfterPull
    <3>4. bg[q] = "none" => bg'[q] = "none"
      BY DEF Underway
    <3>5. QED
      BY <2>2, <3>2, <3>3, <3>4
  <2>4. SpawnInv(q)'
    BY <2>1, <2>2 DEF TaskInv, SpawnInv, Launched
  <2>5. EarlyInv(q)'
    BY <2>1, <2>2 DEF TaskInv, EarlyInv, Prior
  <2>6. QED
    BY <2>3, <2>4, <2>5 DEF TaskInv
<1>4. QuietInv'
  BY DEF QuietInv, Stopping
<1>5. UpInv' /\ MarkerNamesInstall'
  <2>1. \A q \in Starts : server'[q] # "up"
    BY DEF TypeOK
  <2>2. QED
    BY <2>1, StartsAssumption DEF UpInv, MarkerNamesInstall, Executable
<1>6. LeadInv' /\ LiveInv'
  <2>1. op' = "none" /\ \A q \in Starts : ~ Underway(q)' /\ ~ Leads(q)'
    BY DEF Underway, Leads
  <2>2. \A q \in Starts : Alive(q)' => q \in lost'
    BY DEF Alive, TypeOK
  <2>3. QED
    BY <2>1, <2>2 DEF LeadInv, LiveInv, Stopping
<1>7. QED
  BY <1>2, <1>3, <1>4, <1>5, <1>6

\* What changes nothing of this keeps the invariant.
LEMMA NothingKeeps ==
  ASSUME IInv, OfTask(OperatorInstallsLibs) \/ UNCHANGED vars
  PROVE  IInv'
<1> USE DEF IInv, OfTask, OperatorInstallsLibs, vars, installVars, diskVars, mgrVars, histVars,
            raceVars
<1>1. TypeOK'
  BY DEF TypeOK, InstallTypes
<1>2. FilesGrow
  BY DEF FilesGrow, Executable
<1>3. \A q \in Starts : TaskInv(q)'
  BY <1>2, TaskSame
<1>4. QuietInv'
  BY DEF QuietInv, Underway
<1>5. UpInv' /\ MarkerNamesInstall'
  BY DEF UpInv, MarkerNamesInstall, Executable
<1>6. LeadInv' /\ LiveInv'
  BY DEF LeadInv, LiveInv, Leads, Harmless, OthersWait, Waits, Underway, Alive
<1>7. QED
  BY <1>1, <1>3, <1>4, <1>5, <1>6
-----------------------------------------------------------------------------
LEMMA Initial == Init => IInv
<1> SUFFICES ASSUME Init PROVE IInv
  OBVIOUS
<1> USE DEF Init, InstallInit
<1>1. TypeOK
  <2>1. files \in [Dirs -> Install]
    BY DEF Install
  <2>2. QED
    BY <2>1 DEF TypeOK, InstallTypes, Ops, Phases, BgStates, ServerStates, Extent
<1>2. \A r \in Starts : TaskInv(r)
  BY DEF TaskInv, InstallInv, SpawnInv, EarlyInv, Launched
<1>3. QuietInv
  BY DEF QuietInv
<1>4. UpInv /\ MarkerNamesInstall
  BY NoDirectory, StartsAssumption DEF UpInv, MarkerNamesInstall
<1>5. LeadInv /\ LiveInv
  BY DEF LeadInv, LiveInv, Leads, Underway, Alive, Stopping
<1>6. QED
  BY <1>1, <1>2, <1>3, <1>4, <1>5 DEF IInv

\* Every step keeps the invariant.
LEMMA Inductive == IInv /\ [Next]_vars => IInv'
BY InstallStepKeeps, OwnStepKeeps, StartKeeps, StopKeeps, ServerExitKeeps, CrashKeeps,
   NothingKeeps DEF Next, OwnStep

\* The invariant holds of every behaviour of the manager.
LEMMA Invariant == Spec => []IInv
BY Initial, Inductive, PTL DEF Spec

\* The variables of the manager and of the install have their types, and child
\* and stdin name only servers that were spawned.
THEOREM TypeCorrect == Spec => []TypeOK
<1>1. IInv => TypeOK
  BY DEF IInv
<1>2. QED
  BY <1>1, Invariant, PTL

\* One game binary lives at a time and it is in "child", or still with the task
\* that spawned it, however operations and tasks interleave, but for binaries a
\* crash of the manager left, and unless a stop or a start overtook a task that
\* was not waiting.
THEOREM LivingTracked == Spec => []LivingServerIsTracked
<1>1. IInv => LivingServerIsTracked
  <2> SUFFICES ASSUME IInv, ~ raced, NEW r \in Starts \ lost, Alive(r)
               PROVE  /\ child = r \/ bg[r] = "store"
                      /\ \A q \in Starts \ lost : Alive(q) => q = r
    BY DEF LivingServerIsTracked
  <2>1. child = r \/ bg[r] = "store"
    BY DEF IInv, LiveInv
  <2>2. ASSUME NEW q \in Starts \ lost, Alive(q), q # r
        PROVE  FALSE
    <3>1. /\ child = q \/ bg[q] = "store"
          /\ OthersWait(q) /\ OthersWait(r)
      BY <2>2 DEF IInv, LiveInv
    <3>2. bg[r] # "store" /\ bg[q] # "store"
      BY <2>2, <3>1 DEF OthersWait, Waits, Underway, Awaits, Prior
    <3>3. QED
      BY <2>1, <2>2, <3>1, <3>2
  <2>3. QED
    BY <2>1, <2>2
<1>2. QED
  BY <1>1, Invariant, PTL

\* A stop that began when no task was under way has left no server, no console
\* and the phase Idle when it returns; but for a game binary without a wrapper,
\* left by a crash or by an overtaken task.
THEOREM QuietStopComplete == Spec => []QuietStopIsComplete
<1>1. IInv => QuietStopIsComplete
  <2> SUFFICES ASSUME IInv, stopped, quiet, op = "none"
               PROVE  /\ child = None /\ stdin = None /\ phase = "Idle"
                      /\ \A r \in Starts : /\ server[r] # "up"
                                           /\ Alive(r) => r \in lost \/ raced
    BY DEF QuietStopIsComplete
  <2>1. child = None /\ stdin = None /\ phase = "Idle" /\ \A r \in Starts : ~ Underway(r)
    BY DEF IInv, QuietInv
  <2>2. \A r \in Starts : server[r] # "up"
    BY <2>1, StartsAssumption DEF IInv, UpInv, Underway
  <2>3. \A r \in Starts : Alive(r) => r \in lost \/ raced
    BY <2>2 DEF IInv, LiveInv
  <2>4. QED
    BY <2>1, <2>2, <2>3
<1>2. QED
  BY <1>1, Invariant, PTL

\* A task that a stop found before the spawn never spawns: the abort holds at
\* each await it could resume from, although a later start lowers the flag.
THEOREM EarlyStopPrevents == Spec => []EarlyStopPreventsServer
<1>1. IInv => EarlyStopPreventsServer
  <2>1. early \subseteq Starts /\ (\A r \in Starts : EarlyInv(r)) => EarlyStopPreventsServer
    BY DEF EarlyStopPreventsServer, EarlyInv
  <2>2. QED
    BY <2>1 DEF IInv, TypeOK, TaskInv
<1>2. QED
  BY <1>1, Invariant, PTL

\* .svends_path names a directory with an executable, or nothing at all: it is
\* written only after the executable was looked for, and no task removes one.
THEOREM MarkerNames == Spec => []MarkerNamesInstall
<1>1. IInv => MarkerNamesInstall
  BY DEF IInv
<1>2. QED
  BY <1>1, Invariant, PTL

\* A start that pulled the server itself spawns a whole one: steamcmd reported
\* success, and the executable was looked for before the spawn.
THEOREM PulledWhole == Spec => []PulledServerIsWhole
<1>1. IInv => PulledServerIsWhole
  <2>1. pulled \subseteq Starts /\ (\A r \in Starts : InstallInv(r)) => PulledServerIsWhole
    BY DEF PulledServerIsWhole, InstallInv
  <2>2. QED
    BY <2>1 DEF IInv, TypeOK, InstallTypes, TaskInv
<1>2. QED
  BY <1>1, Invariant, PTL
=============================================================================
