----------------------------- MODULE Controller -----------------------------
(***************************************************************************)
(* The controller (src/controller/src/controller.rs): two bridge sessions, *)
(* the dedicated server manager, the interfaces attached to the sessions'  *)
(* nodes, and settings.json, from which resume restores all of them when   *)
(* the process starts again.                                               *)
(*                                                                         *)
(* One mutex admits one operation at a time.  The web panel                *)
(* (src/controller/src/bin/web.rs) resumes before it serves, and drops the *)
(* handler of a closed connection, which cancels its operation at an await; *)
(* the desktop shell (src/gui/src-tauri/src/lib.rs) does neither.  The     *)
(* process may crash between any two steps.  save_settings writes the file *)
(* in place, after the operation's last await.                             *)
(*                                                                         *)
(* BridgeSession models what starting and stopping a session takes, and    *)
(* DsManager the server: here a start succeeds or fails, a stop succeeds,  *)
(* and the server may end by itself.                                       *)
(***************************************************************************)
EXTENDS Naturals, Sequences

CONSTANTS
  Args,         \* arguments a component may be started with
  Ends,         \* endpoints (kind and addresses) an interface may have
  None,         \* no arguments, no component
  MaxCrashes    \* bound: crashes of the process

ASSUME ControllerAssumption == None \notin Args /\ MaxCrashes \in Nat

Roles      == {"server", "client"}
Components == Roles \cup {"ds"}

VARIABLES
  shell,      \* the shell around the controller, web or desktop
  proc,       \* where the process is
  op,         \* where the operation that holds the mutex is
  subj,       \* the component that operation is about, or None
  next,       \* the arguments it is to start subj with, or None
  running,    \* the arguments each component runs with, or None
  attached,   \* the endpoints attached to each session's node
  settings,   \* the settings in memory; last_*_args never differ from them
  file,       \* settings.json
  todo,       \* what resume has still to restore
  crashes,    \* the number of crashes
  stopped,    \* history: the components whose last operation was a stop that went through
  expected,   \* history: what a crash interrupted and resume is to restore or to report
  torn,       \* history: one of these crashes came while settings.json was being written
  removing,   \* history: the role and endpoint of an interface whose removal is to be saved
  removed,    \* history: those whose removal has returned
  idless      \* history: those whose saved descriptor had no id when they were removed

opVars      == << op, subj, next >>
crashVars   == << expected, torn >>
removalVars == << removing, removed, idless >>
histVars    == << stopped, crashVars, removalVars >>
vars == << shell, proc, opVars, running, attached, settings, file, todo, crashes, histVars >>

\* An interface's id is a hash of its endpoint, so a descriptor only tells
\* whether it has one.
Descriptor == [role : Roles, end : Ends, id : BOOLEAN]
Item       == [what : {"run"}, who : Components, with : Args]
                \cup [what : {"attach"}, who : Roles, with : Ends]

Nothing  == [c \in Components |-> None]
Defaults == [flag |-> [c \in Components |-> FALSE], args |-> Nothing, interfaces |-> << >>]

\* The file's content is the set of the settings it parses to, none or one: a
\* missing file and one a torn write left parse to none.
Unreadable == {}

\* Mutant: a descriptor is always added.
RecordedAgain(list, d) == Append(list, d)

\* The places a list has a descriptor of this role and endpoint at.
Places(list, d) == {i \in 1..Len(list) : list[i].role = d.role /\ list[i].end = d.end}

\* record_interface: a descriptor replaces the first of its role and endpoint.
Recorded(list, d) ==
  IF Places(list, d) = {}
  THEN Append(list, d)
  ELSE [list EXCEPT ![CHOOSE i \in Places(list, d) : \A j \in Places(list, d) : i <= j] = d]

\* dedup_interfaces: the same, for a whole list.
Deduped(list) ==
  LET upTo[n \in 0..Len(list)] ==
        IF n = 0 THEN << >> ELSE Recorded(upTo[n - 1], list[n])
  IN  upTo[Len(list)]

\* What remove_interface retains: all but the descriptors with this id.
Retained(list, e) ==
  LET upTo[n \in 0..Len(list)] ==
        IF n = 0 THEN << >>
        ELSE IF list[n].id /\ list[n].end = e
             THEN upTo[n - 1] ELSE Append(upTo[n - 1], list[n])
  IN  upTo[Len(list)]

\* An older version may have left a descriptor twice.
Init ==
  /\ shell \in {"web", "desktop"}
  /\ proc = "down"
  /\ op = "none"
  /\ subj = None
  /\ next = None
  /\ running = Nothing
  /\ attached = [r \in Roles |-> {}]
  /\ settings = Defaults
  /\ \/ file = Unreadable
     \/ \E r \in Roles, e \in Ends :
          LET d == [role |-> r, end |-> e, id |-> TRUE]
          IN  file = {[Defaults EXCEPT !.interfaces = << d, d >>]}
  /\ todo = << >>
  /\ crashes = 0
  /\ stopped = {}
  /\ expected = {}
  /\ torn = FALSE
  /\ removing = {}
  /\ removed = {}
  /\ idless = {}

Idle == proc = "ready" /\ op = "none"

OpEnds == op' = "none" /\ subj' = None /\ next' = None
-----------------------------------------------------------------------------
\* save_settings: the file is truncated, and written.
SaveBegins ==
  /\ op = "save"
  /\ op' = "write"
  /\ file' = Unreadable
  /\ UNCHANGED << shell, proc, subj, next, running, attached, settings, todo, crashes, histVars >>

\* Then the operation returns, or a restart goes on to its start.
Saves ==
  /\ op = "write"
  /\ file' = {settings}
  /\ IF next # None
     THEN op' = "starting" /\ UNCHANGED << subj, next >>
     ELSE OpEnds
  /\ removed' = removed \cup removing
  /\ removing' = {}
  /\ UNCHANGED << shell, proc, running, attached, settings, todo, crashes, stopped, crashVars,
                  idless >>
-----------------------------------------------------------------------------
\* A component runs with these arguments: they are noted, and to be saved.
Runs(c, args) ==
  /\ running' = [running EXCEPT ![c] = args]
  /\ settings' = [settings EXCEPT !.flag[c] = TRUE, !.args[c] = args]
  /\ op' = "save"
  /\ subj' = c
  /\ next' = None

\* An interface is attached.  Its id is found by looking what is new, so an
\* endpoint that was attached before gets none.
Attaches(r, e) ==
  /\ running[r] # None
  /\ attached' = [attached EXCEPT ![r] = @ \cup {e}]
  /\ settings' = [settings EXCEPT !.interfaces =
                    Recorded(@, [role |-> r, end |-> e, id |-> e \notin attached[r]])]
  /\ op' = "save"
  /\ UNCHANGED << subj, next, running >>

\* start_bridge_server, start_client: the session is started ...
Start(c, args) ==
  /\ Idle
  /\ running[c] = None
  /\ op' = "starting"
  /\ subj' = c
  /\ next' = args
  /\ stopped' = stopped \ {c}
  /\ UNCHANGED << shell, proc, running, attached, settings, file, todo, crashes, crashVars,
                  removalVars >>

\* ... and runs, or does not.
StartReturns ==
  /\ op = "starting"
  /\ \/ Runs(subj, next)
     \/ OpEnds /\ UNCHANGED << running, settings >>
  /\ UNCHANGED << shell, proc, attached, file, todo, crashes, histVars >>

\* stop_bridge_server, stop_client, ds_stop; with "then" the first half of a
\* restart or of connect_and_launch.  The session is taken, and with its node
\* its interfaces go.
Stop(c, then) ==
  /\ Idle
  /\ running' = [running EXCEPT ![c] = None]
  /\ attached' = [r \in Roles |-> IF r = c THEN {} ELSE attached[r]]
  /\ op' = "stopping"
  /\ subj' = c
  /\ next' = then
  /\ stopped' = stopped \ {c}
  /\ UNCHANGED << shell, proc, settings, file, todo, crashes, crashVars, removalVars >>

\* A restart starts with the last arguments, connect_and_launch with others.
Restart(r) == settings.args[r] # None /\ Stop(r, settings.args[r])
ConnectAndLaunch(args) == settings.args["client"] # None /\ Stop("client", args)

\* Mutant: the flag stays up.
StopReturnsFlagged ==
  /\ op = "stopping"
  /\ op' = "save"
  /\ stopped' = IF next = None THEN stopped \cup {subj} ELSE stopped
  /\ UNCHANGED << shell, proc, subj, next, running, attached, settings, file, todo, crashes,
                  crashVars, removalVars >>

\* ... and has ended.
StopReturns ==
  /\ op = "stopping"
  /\ settings' = [settings EXCEPT !.flag[subj] = FALSE]
  /\ op' = "save"
  /\ stopped' = IF next = None THEN stopped \cup {subj} ELSE stopped
  /\ UNCHANGED << shell, proc, subj, next, running, attached, file, todo, crashes, crashVars,
                  removalVars >>

\* The handler is dropped while it waits for a session or for the server: a
\* session that was being started or stopped is gone, nothing is saved.
Cancelled ==
  /\ shell = "web"
  /\ proc = "ready"
  /\ op \in {"starting", "stopping"}
  /\ OpEnds
  /\ UNCHANGED << shell, proc, running, attached, settings, file, todo, crashes, histVars >>
-----------------------------------------------------------------------------
\* ds_start: the manager takes the work over at once.
DsStart(args) ==
  /\ Idle
  /\ running["ds"] = None
  /\ Runs("ds", args)
  /\ stopped' = stopped \ {"ds"}
  /\ UNCHANGED << shell, proc, attached, file, todo, crashes, crashVars, removalVars >>

\* ds_changelevel, ds_set_cheats: what the running server was told is noted.
DsCommand(args) ==
  /\ Idle
  /\ running["ds"] # None
  /\ Runs("ds", args)
  /\ UNCHANGED << shell, proc, attached, file, todo, crashes, histVars >>

\* The background task fails, or the server ends by itself.
DsEnds ==
  /\ running["ds"] # None
  /\ running' = [running EXCEPT !["ds"] = None]
  /\ expected' = {x \in expected : x.who # "ds"}
  /\ UNCHANGED << shell, proc, opVars, attached, settings, file, todo, crashes, stopped, torn,
                  removalVars >>
-----------------------------------------------------------------------------
\* The endpoint has a saved descriptor without an id, which no removal finds.
WithoutId(r, e) ==
  \E i \in 1..Len(settings.interfaces) :
    settings.interfaces[i] = [role |-> r, end |-> e, id |-> FALSE]

\* add_interface_tcp, _auto, _udp, _websocket.
AddInterface(r, e) ==
  /\ Idle
  /\ Attaches(r, e)
  /\ removed' = removed \ {<< r, e >>}
  /\ idless' = idless \ {<< r, e >>}
  /\ UNCHANGED << shell, proc, file, todo, crashes, stopped, crashVars, removing >>

\* Mutant: the saved descriptors stay.
RemoveInterfaceKeepsSaved(e) ==
  /\ Idle
  /\ \E r \in Roles :
       /\ e \in attached[r]
       /\ r = "client" => e \notin attached["server"]
       /\ attached' = [attached EXCEPT ![r] = @ \ {e}]
       /\ removing' = {<< r, e >>}
       /\ idless' = IF WithoutId(r, e) THEN idless \cup {<< r, e >>} ELSE idless
  /\ op' = "save"
  /\ UNCHANGED << shell, proc, subj, next, running, settings, file, todo, crashes, stopped,
                  crashVars, removed >>

\* remove_interface: the server's node is asked first; every descriptor with
\* this id goes.
RemoveInterface(e) ==
  /\ Idle
  /\ \E r \in Roles :
       /\ e \in attached[r]
       /\ r = "client" => e \notin attached["server"]
       /\ attached' = [attached EXCEPT ![r] = @ \ {e}]
       /\ removing' = {<< r, e >>}
       /\ idless' = IF WithoutId(r, e) THEN idless \cup {<< r, e >>} ELSE idless
  /\ settings' = [settings EXCEPT !.interfaces = Retained(@, e)]
  /\ op' = "save"
  /\ UNCHANGED << shell, proc, subj, next, running, file, todo, crashes, stopped, crashVars,
                  removed >>
-----------------------------------------------------------------------------
\* What resume restores, in its order.
ToRun(s, c) ==
  IF s.flag[c] /\ s.args[c] # None
  THEN << [what |-> "run", who |-> c, with |-> s.args[c]] >> ELSE << >>
ToAttach(s) ==
  [i \in 1..Len(s.interfaces) |->
     [what |-> "attach", who |-> s.interfaces[i].role, with |-> s.interfaces[i].end]]

\* load_settings, or defaults.
Loaded(f) == IF f = Unreadable THEN Defaults ELSE CHOOSE s \in f : TRUE

\* The web panel starts; resume repairs the list of interfaces first.
Boot ==
  /\ shell = "web"
  /\ proc = "down"
  /\ proc' = "resuming"
  /\ LET s == [Loaded(file) EXCEPT !.interfaces = Deduped(@)]
     IN  /\ settings' = s
         /\ todo' = ToRun(s, "server") \o ToRun(s, "client") \o ToAttach(s) \o ToRun(s, "ds")
         /\ op' = IF s.interfaces # Loaded(file).interfaces THEN "save" ELSE "none"
  /\ UNCHANGED << shell, subj, next, running, attached, file, crashes, histVars >>

\* The desktop shell starts with what was saved, and does not resume.
BootDesktop ==
  /\ shell = "desktop"
  /\ proc = "down"
  /\ proc' = "ready"
  /\ settings' = Loaded(file)
  /\ expected' = {}
  /\ torn' = FALSE
  /\ UNCHANGED << shell, opVars, running, attached, file, todo, crashes, stopped, removalVars >>

\* Mutant: resume gives up at the first failure.
ResumeGivesUp ==
  /\ proc = "resuming"
  /\ op = "none"
  /\ todo # << >>
  /\ LET i == Head(todo)
     IN  \/ /\ todo' = Tail(todo)
            /\ \/ i.what = "run" /\ Runs(i.who, i.with) /\ UNCHANGED attached
               \/ i.what = "attach" /\ Attaches(i.who, i.with)
            /\ UNCHANGED expected
         \/ /\ expected' = expected \ {i}
            /\ todo' = << >>
            /\ UNCHANGED << opVars, running, attached, settings >>
  /\ UNCHANGED << shell, proc, file, crashes, stopped, torn, removalVars >>

\* resume restores one thing after another, each as its operation does; what
\* fails it reports (resume_errors), and goes on.
ResumeNext ==
  /\ proc = "resuming"
  /\ op = "none"
  /\ todo # << >>
  /\ todo' = Tail(todo)
  /\ LET i == Head(todo)
     IN  \/ /\ \/ i.what = "run" /\ Runs(i.who, i.with) /\ UNCHANGED attached
               \/ i.what = "attach" /\ Attaches(i.who, i.with)
            /\ UNCHANGED expected
         \/ /\ expected' = expected \ {i}
            /\ UNCHANGED << opVars, running, attached, settings >>
  /\ UNCHANGED << shell, proc, file, crashes, stopped, torn, removalVars >>

\* resume returns, and the panel serves.
ResumeEnds ==
  /\ proc = "resuming"
  /\ op = "none"
  /\ todo = << >>
  /\ proc' = "ready"
  /\ expected' = {}
  /\ torn' = FALSE
  /\ UNCHANGED << shell, opVars, running, attached, settings, file, todo, crashes, stopped,
                  removalVars >>

\* The process, or its host, goes down, and the operation under way with it.
\* To be restored is what ran, but for the component just being started or
\* stopped, and what was to be restored already.
Crash ==
  /\ proc # "down"
  /\ crashes < MaxCrashes
  /\ crashes' = crashes + 1
  /\ proc' = "down"
  /\ op' = "none"
  /\ subj' = None
  /\ next' = None
  /\ running' = Nothing
  /\ attached' = [r \in Roles |-> {}]
  /\ settings' = Defaults
  /\ todo' = << >>
  /\ expected' = expected \cup {x \in Item : x.what = "run" /\ x.who # subj
                                             /\ running[x.who] = x.with}
  /\ torn' = (torn \/ op = "write")
  /\ stopped' = stopped \ {subj}
  /\ removing' = {}
  /\ UNCHANGED << shell, file, removed, idless >>
-----------------------------------------------------------------------------
\* What the shells' handlers may ask for.
Operations ==
  \/ \E r \in Roles : Restart(r) \/ (\E a \in Args : Start(r, a))
  \/ \E c \in Components : Stop(c, None)
  \/ \E a \in Args : ConnectAndLaunch(a) \/ DsStart(a) \/ DsCommand(a)
  \/ \E e \in Ends : RemoveInterface(e) \/ (\E r \in Roles : AddInterface(r, e))

Next ==
  \/ Operations
  \/ SaveBegins \/ Saves
  \/ StartReturns \/ StopReturns \/ Cancelled
  \/ DsEnds
  \/ Boot \/ BootDesktop \/ ResumeNext \/ ResumeEnds
  \/ Crash

Spec == Init /\ [][Next]_vars
-----------------------------------------------------------------------------
Settings == [flag : [Components -> BOOLEAN], args : [Components -> Args \cup {None}],
             interfaces : Seq(Descriptor)]

\* The types of the variables; an interface needs a session.
TypeOK ==
  /\ shell \in {"web", "desktop"}
  /\ proc \in {"down", "resuming", "ready"}
  /\ op \in {"none", "starting", "stopping", "save", "write"}
  /\ subj \in Components \cup {None}
  /\ next \in Args \cup {None}
  /\ running \in [Components -> Args \cup {None}]
  /\ attached \in [Roles -> SUBSET Ends]
  /\ \A r \in Roles : running[r] = None => attached[r] = {}
  /\ settings \in Settings
  /\ \A s \in file : s \in Settings /\ file = {s}
  /\ todo \in Seq(Item)
  /\ crashes \in 0..MaxCrashes
  /\ stopped \subseteq Components
  /\ expected \subseteq Item
  /\ torn \in BOOLEAN
  /\ removing \cup removed \cup idless \subseteq Roles \X Ends

\* What a crash interrupted runs again when resume is through, with the
\* arguments it ran with, or its failure was reported; also when resume
\* itself was interrupted, or something else fails.  The exceptions are named:
\* the component a start or stop under way was about, and a crash between the
\* truncation of settings.json and its write (torn), after which nothing is
\* restored and nothing reported.
RunningSurvivesCrash ==
  proc = "resuming" /\ op = "none" /\ todo = << >> /\ ~ torn =>
    \A x \in expected : running[x.who] = x.with

\* A component whose stop has returned stays down until it is started again,
\* whatever else is saved, cancelled or restored meanwhile.
StopIsDurable == \A c \in stopped : running[c] = None

\* An endpoint is saved once per session, however often it is attached,
\* restored, or found twice in the file; the desktop shell, which does not
\* resume, keeps what it has found.
InterfacesSavedOnce ==
  shell = "web" =>
    \A i, j \in 1..Len(settings.interfaces) :
      /\ settings.interfaces[i].role = settings.interfaces[j].role
      /\ settings.interfaces[i].end = settings.interfaces[j].end
      => i = j

\* An interface whose removal has returned is neither saved nor attached any
\* more until it is added again: resume does not bring it back, whatever was
\* started, cancelled or saved before the process went down.  The exception is
\* named: an endpoint added while it was attached, whose descriptor has no id.
RemovedStaysRemoved ==
  \A pair \in removed \ idless :
    /\ pair[2] \notin attached[pair[1]]
    /\ \A i \in 1..Len(settings.interfaces) :
         << settings.interfaces[i].role, settings.interfaces[i].end >> # pair

\* What controller.rs says of remove_interface: it drops the saved descriptor,
\* so that resume does not attach the interface again.
RemovedIsNotReattached == \A pair \in removed : pair[2] \notin attached[pair[1]]
=============================================================================
