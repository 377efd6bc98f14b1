------------------------- MODULE BridgeSessionProofs -------------------------
(***************************************************************************)
(* Proofs about BridgeSession, for any set of sessions.  All of them rest  *)
(* on the inductive invariant IInv.                                        *)
(***************************************************************************)
EXTENDS BridgeSession, TLAPS

\* What each message tells of the thread that sent it, and what holding the
\* port tells of its holder: the order of spawn_bridge_node's steps.
IInv ==
  /\ TypeOK
  /\ \A s \in Sessions :
       /\ caller[s] = "new" => thread[s] = "none"
       /\ caller[s] = "failed" => thread[s] = "none" \/ init[s] = "err"
       /\ caller[s] = "stopped" => done[s]
       /\ init[s] = "err" => /\ thread[s] \in {"unwinding", "dropped", "exited"}
                             /\ port # s
       /\ done[s] => thread[s] = "exited"
       /\ port = s => thread[s] \in {"running", "unwinding"}

\* The invariant holds initially.
LEMMA InitIInv == Init => IInv
BY SessionAssumption
   DEF Init, IInv, TypeOK, CallerStates, ThreadStates

\* Every step of a caller preserves the invariant.
LEMMA CallerStep ==
  ASSUME IInv, NEW s \in Sessions, CallerNext(s)
  PROVE  IInv'
<1> USE DEF IInv, TypeOK, CallerStates, ThreadStates
<1>1. CASE StartSession(s)
  BY <1>1 DEF StartSession
<1>2. CASE SpawnFails(s)
  BY <1>2 DEF SpawnFails
<1>3. CASE StartReturns(s)
  BY <1>3 DEF StartReturns
<1>4. CASE Stop(s)
  BY <1>4 DEF Stop
<1>5. CASE StopReturns(s)
  BY <1>5 DEF StopReturns
<1>6. CASE Drop(s)
  BY <1>6 DEF Drop
<1>7. QED
  BY <1>1, <1>2, <1>3, <1>4, <1>5, <1>6 DEF CallerNext

\* Every step of a thread preserves the invariant.
LEMMA ThreadStep ==
  ASSUME IInv, NEW s \in Sessions, ThreadNext(s)
  PROVE  IInv'
<1> USE DEF IInv, TypeOK, CallerStates, ThreadStates
<1>1. CASE RuntimeFails(s)
  BY <1>1, SessionAssumption DEF RuntimeFails
<1>2. CASE Build(s)
  BY <1>2, SessionAssumption DEF Build
<1>3. CASE BuildFails(s)
  BY <1>3 DEF BuildFails
<1>4. CASE StopSeen(s)
  BY <1>4 DEF StopSeen
<1>5. CASE NodeEnds(s)
  BY <1>5 DEF NodeEnds
<1>6. CASE DropRuntime(s)
  BY <1>6, SessionAssumption DEF DropRuntime
<1>7. CASE SignalDone(s)
  BY <1>7 DEF SignalDone
<1>8. QED
  BY <1>1, <1>2, <1>3, <1>4, <1>5, <1>6, <1>7 DEF ThreadNext

\* The invariant is inductive.
LEMMA Inductive == Spec => []IInv
<1>1. Init => IInv
  BY InitIInv
<1>2. IInv /\ [Next]_vars => IInv'
  <2> SUFFICES ASSUME IInv, [Next]_vars PROVE IInv'
    OBVIOUS
  <2>1. CASE Next
    BY <2>1, CallerStep, ThreadStep DEF Next
  <2>2. CASE UNCHANGED vars
    BY <2>2 DEF vars, IInv, TypeOK
  <2>3. QED
    BY <2>1, <2>2
<1>3. QED
  BY <1>1, <1>2, PTL DEF Spec

\* The variables keep their types (relay.rs, spawn_bridge_node and stop).
THEOREM TypeCorrect == Spec => []TypeOK
<1>1. IInv => TypeOK
  BY DEF IInv
<1>2. QED
  BY <1>1, Inductive, PTL

\* When stop() has returned, the session's runtime is gone and with it its
\* hold on the port: done is only sent once the runtime has been dropped.
THEOREM StopReleases == Spec => []StopReleasesPort
<1>1. IInv => StopReleasesPort
  BY DEF IInv, StopReleasesPort
<1>2. QED
  BY <1>1, Inductive, PTL

\* A start that failed leaves no port bound and no thread that will bind it.
THEOREM FailedStartHolds == Spec => []FailedStartHoldsNothing
<1>1. IInv => FailedStartHoldsNothing
  BY DEF IInv, FailedStartHoldsNothing
<1>2. QED
  BY <1>1, Inductive, PTL

\* A step that finds the port taken finds it taken by some other session
\* whose caller has not been told that it is over.
LEMMA TakenByUnstopped ==
  ASSUME IInv, NEW s \in Sessions, BuildFails(s), inUse' # inUse
  PROVE  /\ inUse' \ inUse = {s}
         /\ \E t \in Sessions \ {s} :
              /\ port = t
              /\ caller[t] \in {"starting", "running", "stopping", "dropped"}
<1>1. /\ thread[s] = "building"
      /\ port # None
      /\ inUse' = inUse \cup {s}
  BY DEF BuildFails
<1>2. PICK t \in Sessions : port = t
  BY <1>1 DEF IInv, TypeOK
<1>3. t # s
  BY <1>1, <1>2 DEF IInv
<1>4. caller[t] \in CallerStates \ {"new", "failed", "stopped"}
  BY <1>2 DEF IInv, TypeOK
<1>5. QED
  BY <1>1, <1>2, <1>3, <1>4 DEF CallerStates

\* A restart that awaits stop() cannot find the port taken by what it stopped.
THEOREM RestartFindsPortFree == Spec => InUseOnlyByUnstopped
<1> DEFINE A == \A s \in inUse' \ inUse :
                  \E t \in Sessions \ {s} :
                    /\ port = t
                    /\ caller[t] \in {"starting", "running", "stopping", "dropped"}
<1>1. IInv /\ [Next]_vars => [A]_vars
  <2> SUFFICES ASSUME IInv, Next PROVE A
    BY DEF vars
  <2>1. PICK s \in Sessions : CallerNext(s) \/ ThreadNext(s)
    BY DEF Next
  <2>2. CASE BuildFails(s) /\ inUse' # inUse
    BY <2>2, TakenByUnstopped
  <2>3. CASE ~ (BuildFails(s) /\ inUse' # inUse)
    <3>1. inUse' = inUse
      BY <2>1, <2>3 DEF CallerNext, ThreadNext, StartSession, SpawnFails, StartReturns,
                        Stop, StopReturns, Drop, RuntimeFails, Build, BuildFails,
                        StopSeen, NodeEnds, DropRuntime, SignalDone
    <3>2. QED
      BY <3>1
  <2>4. QED
    BY <2>2, <2>3
<1>2. QED
  BY <1>1, Inductive, PTL DEF Spec, InUseOnlyByUnstopped
=============================================================================
