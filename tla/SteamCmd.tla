------------------------------ MODULE SteamCmd ------------------------------
(***************************************************************************)
(* How the background task of a start comes by an install of the dedicated *)
(* server (src/controller/src/steamcmd.rs, and the find and pull of        *)
(* ds.rs), and what it leaves on disk for the tasks after it.              *)
(*                                                                         *)
(* Tasks of several starts may be under way at once, aborted ones up to    *)
(* their next await, and the process may be killed between any two steps:  *)
(* what is on disk then is what the next start finds.  DsManager extends   *)
(* this module with the manager and the server.                            *)
(***************************************************************************)
EXTENDS Naturals

CONSTANTS
  Starts,    \* the starts, numbered in the order they are accepted
  None       \* no start, no directory

ASSUME StartsAssumption == Starts \subseteq Nat /\ None \notin Starts

VARIABLES
  cancel,     \* the cancel flag
  aborted,    \* the starts whose task has been aborted
  bg,         \* where the task of each start is
  dir,        \* the directory each start asks for, then the one it has found
  boot,       \* steamcmd's bootstrap: not there, unpacked in part, or whole
  libs,       \* whether the host has the 32-bit libraries
  files,      \* the server in each directory: "part" has the executable
  marker,     \* what .svends_path names
  pulled      \* history: the starts whose steamcmd has reported success

diskVars == << boot, libs, files, marker >>
installVars == << dir, diskVars, pulled >>

Wanted == {"svends", "elsewhere"}     \* the default and another one to ask for
Dirs   == Wanted \cup {"steam"}       \* ... and that of the Steam client
Extent == {"none", "part", "whole"}
Install == Extent \cup {"unfit"}      \* "unfit": complete, without an executable

\* A write that was cut short leaves a marker that names no directory.
Torn == "torn"

ASSUME NoDirectory == None \notin Dirs

InstallInit ==
  /\ dir = [r \in Starts |-> None]
  /\ boot = "none"
  /\ libs \in BOOLEAN
  /\ files \in {f \in [Dirs -> Extent] : \A d \in Wanted : f[d] = "none"}
  /\ files["steam"] # "part"
  /\ marker = None
  /\ pulled = {}

\* is_executable of the server in a directory.
Executable(d) == files[d] \in {"part", "whole"}
-----------------------------------------------------------------------------
Goto(r, state) == bg' = [bg EXCEPT ![r] = state]

\* A task goes from one await to the next, or to its next access to something
\* shared, without an effect.
Moves(r, from, to) ==
  /\ bg[r] = from
  /\ Goto(r, to)
  /\ UNCHANGED installVars

\* It resumes after an await that was not ready: not if it was aborted.
Resumed(r, state) == bg[r] = state /\ r \notin aborted

ResumesTo(r, from, to) == r \notin aborted /\ Moves(r, from, to)

\* It reads the flag, and goes on if it is down.
ChecksFlag(r, from, to) == Moves(r, from, IF cancel THEN "idle" ELSE to)

\* It looks for the executable in one of the places it knows.
Looks(r, from, places, otherwise) ==
  /\ Resumed(r, from)
  /\ \/ \E d \in places :
          /\ Executable(d)
          /\ dir' = [dir EXCEPT ![r] = d]
          /\ Goto(r, "found")
     \/ /\ \A d \in places : ~ Executable(d)
        /\ Goto(r, otherwise)
        /\ UNCHANGED dir
  /\ UNCHANGED << diskVars, pulled >>

\* find_svends_inner: the default directory, the one last pulled to, Steam's.
FindSvends(r) ==
  \/ Looks(r, "find", {"svends"}, "recall")
  \/ Looks(r, "recall", {marker} \cap Dirs, "steam")
  \/ Looks(r, "steam", {"steam"}, "unfound")
-----------------------------------------------------------------------------
\* ensure_steamcmd: an executable that is there is taken as it is.
EnsureSteamcmd(r) == Moves(r, "ensure", IF boot = "none" THEN "download" ELSE "run")

\* One of the two URLs delivers, or neither.
Download(r) == \E to \in {"extract", "error"} : ResumesTo(r, "download", to)

\* The archive is unpacked in place, with no await; it may fail half way.
ExtractArchive(r) ==
  \/ /\ bg[r] = "extract"
     /\ boot' = "part"
     /\ Goto(r, "unpack")
     /\ UNCHANGED << dir, libs, files, marker, pulled >>
  \/ /\ bg[r] = "unpack"
     /\ boot' = "whole"
     /\ Goto(r, "probe")
     /\ UNCHANGED << dir, libs, files, marker, pulled >>
  \/ \E from \in {"extract", "unpack"} : Moves(r, from, "error")

\* ensure_linux_32bit_deps: steamcmd is run once to see whether the libraries
\* are there.  If not, apt-get may install them, or the start fails.
EnsureLibs(r) ==
  \/ (libs \/ boot # "whole") /\ ResumesTo(r, "probe", "run")
  \/ ~ libs /\ ResumesTo(r, "probe", "apt")
  \/ ResumesTo(r, "probe", "error")

\* run_sudo_apt_install.
AptInstalls(r) ==
  \/ /\ Resumed(r, "apt")
     /\ libs' = TRUE
     /\ Goto(r, "run")
     /\ UNCHANGED << dir, boot, files, marker, pulled >>
  \/ ResumesTo(r, "apt", "error")

\* steamcmd is spawned, or cannot be.
RunSteamcmd(r) == \E to \in {"pull", "error"} : Moves(r, "run", to)

\* Mutant: the exit status is not looked at.
SteamcmdExitsAnyhow(r) ==
  /\ Resumed(r, "pull")
  /\ pulled' = pulled \cup {r}
  /\ Goto(r, "pulled")
  /\ UNCHANGED << dir, diskVars >>

\* steamcmd exits; success means that all it has to install is there.
SteamcmdExits(r) ==
  \/ /\ Resumed(r, "pull")
     /\ files[dir[r]] \in {"whole", "unfit"}
     /\ pulled' = pulled \cup {r}
     /\ Goto(r, "pulled")
     /\ UNCHANGED << dir, diskVars >>
  \/ ResumesTo(r, "pull", "error")

\* Mutant: what steamcmd reports is not checked on disk.
RememberUnverified(r) ==
  \/ ResumesTo(r, "verify", "mark")
  \/ /\ bg[r] = "mark"
     /\ marker' = Torn
     /\ Goto(r, "marking")
     /\ UNCHANGED << dir, boot, libs, files, pulled >>
  \/ /\ bg[r] = "marking"
     /\ marker' = dir[r]
     /\ Goto(r, "marked")
     /\ UNCHANGED << dir, boot, libs, files, pulled >>
  \/ ResumesTo(r, "marked", "prepared")

\* The executable is looked for; then the directory is remembered.  A write
\* once begun goes on when its task is aborted, and may fail.
Remember(r) ==
  \/ ResumesTo(r, "verify", "mark") /\ Executable(dir[r])
  \/ ResumesTo(r, "verify", "error") /\ ~ Executable(dir[r])
  \/ /\ bg[r] = "mark"
     /\ marker' = Torn
     /\ Goto(r, "marking")
     /\ UNCHANGED << dir, boot, libs, files, pulled >>
  \/ /\ bg[r] = "marking"
     /\ marker' = dir[r]
     /\ Goto(r, "marked")
     /\ UNCHANGED << dir, boot, libs, files, pulled >>
  \/ \E from \in {"mark", "marking"} : Moves(r, from, "marked")
  \/ ResumesTo(r, "marked", "prepared")
-----------------------------------------------------------------------------
\* The steamcmd process of a task (external) installs the server: it needs its
\* whole bootstrap and the libraries, and is killed when its task drops it.
SteamcmdInstalls(r) ==
  /\ bg[r] \in {"pull", "polled"}
  /\ boot = "whole"
  /\ libs
  /\ \/ /\ files[dir[r]] = "none"
        /\ \E next \in {"part", "unfit"} : files' = [files EXCEPT ![dir[r]] = next]
     \/ /\ files[dir[r]] = "part"
        /\ files' = [files EXCEPT ![dir[r]] = "whole"]
  /\ UNCHANGED << bg, dir, boot, libs, marker, pulled >>

\* The operator follows the advice of the error message, or an apt-get whose
\* task was aborted goes on (external).
OperatorInstallsLibs ==
  /\ ~ libs
  /\ libs' = TRUE
  /\ UNCHANGED << bg, dir, boot, files, marker, pulled >>

InstallStep(r) ==
  \/ FindSvends(r) \/ EnsureSteamcmd(r) \/ Download(r) \/ ExtractArchive(r) \/ EnsureLibs(r)
  \/ AptInstalls(r) \/ RunSteamcmd(r) \/ SteamcmdExits(r) \/ Remember(r) \/ SteamcmdInstalls(r)
-----------------------------------------------------------------------------
InstallTypes ==
  /\ dir \in [Starts -> Dirs \cup {None}]
  /\ boot \in Extent
  /\ libs \in BOOLEAN
  /\ files \in [Dirs -> Install]
  /\ marker \in Dirs \cup {None, Torn}
  /\ pulled \subseteq Starts
=============================================================================
