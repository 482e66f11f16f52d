-------------------------- MODULE Go2BridgeProofs --------------------------
(***************************************************************************)
(* Proofs about Go2Bridge, for any set of requests: its safety properties. *)
(*                                                                         *)
(* Where a thread may be follows from what was asked (ThreadInv), and a    *)
(* helper runs only while its thread registers it or waits for it          *)
(* (HelperInv).  The reservation is then held by one linear motion         *)
(* (HolderInv), whose process is the one in _active_motion_process         *)
(* (ActiveInv) and the one a STOP finds there (FoundInv).                  *)
(***************************************************************************)
EXTENDS Go2Bridge, TLAPS

\* A thread that stops the robot, after an error or on request, or has ended.
Ending == {"raise", "setCancel", "snapshot", "reap", "zero", "done"}

\* A thread that runs a helper.
Driving == {"popen", "register", "wait", "unregister", "result"}

HttpAt(k) == CASE k = "none"   -> {"idle"}
               [] k = "linear" -> {"dispatch", "clear", "reserve", "spawn"} \cup Ending
               [] k = "patrol" -> {"dispatch", "check", "refuse", "spawn"} \cup Ending
               [] k = "turn"   -> {"dispatch"} \cup Driving \cup Ending
               [] k = "stop"   -> {"dispatch"} \cup Ending

MotionAt(k) == CASE k = "linear" -> {"idle", "begin", "look", "finally"} \cup Driving \cup Ending
                 [] k = "patrol" -> {"idle", "begin", "clearPatrol", "finally"}
                                      \cup Driving \cup Ending
                 [] OTHER        -> {"idle"}

ThreadInv ==
  \A r \in Requests : /\ pc[Http(r)] \in HttpAt(kind[r])
                      /\ pc[Motion(r)] \in MotionAt(kind[r])
                      /\ pc[Motion(r)] # "idle" => pc[Http(r)] = "done"
                      /\ result[r] = "stopped" => pc[Http(r)] = "done"

\* A helper whose thread has not given it up is about to be registered or is.
HelperInv ==
  \A r \in Requests :
    helper[r] = "running" => \/ pc[Motion(r)] \in {"register", "wait"}
                             \/ kind[r] = "turn" /\ pc[Http(r)] \in {"register", "wait"}

\* The linear motion the reservation belongs to.
Holds(r) == kind[r] = "linear" /\ (pc[Http(r)] = "spawn" \/ pc[Motion(r)] \notin {"idle", "done"})

HolderInv == /\ \A r \in Requests : Holds(r) => pending
             /\ \A r, s \in Requests : Holds(r) /\ Holds(s) => r = s
             /\ pending => \E r \in Requests : Holds(r)

\* As long as the cancellation stands, a motion that was told to stop early
\* either looks at it or has done so.
EarlyInv ==
  \A r \in early : /\ cancel /\ kind[r] = "linear"
                   /\ pc[Motion(r)] \in {"begin", "look", "finally", "done"}

\* What a STOP noted when it arrived was waiting for its helper.
NotedInv ==
  \A r \in Requests :
    /\ registered[r] # {} => kind[r] = "stop"
    /\ \A m \in registered[r] :
         pc[Motion(m)] \in {"wait", "unregister", "result", "finally"} \cup Ending

\* No request has asked for what nothing excludes.
Calm == \A r \in Requests : kind[r] \notin {"patrol", "turn"}

ActiveInv ==
  Calm => \A r \in Requests : pc[Motion(r)] \in {"wait", "unregister"} => active = r

\* A STOP waits for the process it noted, or that process has ended.
FoundInv ==
  Calm => \A r \in Requests :
            /\ pc[Http(r)] \in {"zero", "raise", "done"} => registered[r] \cap Moving = {}
            /\ pc[Http(r)] = "reap" => registered[r] \cap Moving \subseteq {target[Http(r)]}

IInv == /\ TypeOK
        /\ ThreadInv /\ HelperInv /\ HolderInv /\ EarlyInv
        /\ NotedInv /\ ActiveInv /\ FoundInv

-----------------------------------------------------------------------------
(***************************************************************************)
(* Threads and types                                                       *)
(***************************************************************************)

\* The two threads of a request are its own, and different.
LEMMA ThreadFacts ==
  /\ \A r \in Requests : /\ Http(r) \in Threads /\ Http(r)[1] = r /\ Http(r)[2] = "http"
                         /\ Motion(r) \in Threads /\ Motion(r)[1] = r /\ Motion(r)[2] = "motion"
  /\ \A r, s \in Requests : /\ Http(r) # Motion(s)
                            /\ Http(r) = Http(s) => r = s
                            /\ Motion(r) = Motion(s) => r = s
BY DEF Http, Motion, Threads

PcOK == pc \in [Threads -> PCs]
RequestsOK ==
  /\ kind \in [Requests -> Actions \cup {"none"}]
  /\ result \in [Requests -> {"none", "accepted", "busy", "finished", "stopped", "error"}]
SwitchesOK == /\ state \in {"IDLE", "ACTION_RUNNING", "ACTION_DONE", "ERROR"}
              /\ cancel \in BOOLEAN /\ pending \in BOOLEAN
              /\ active \in Requests \cup {NoProcess}
HelpersOK == /\ helper \in [Requests -> {"none", "running", "stray", "ok", "failed"}]
             /\ target \in [Threads -> Requests \cup {NoProcess}]
             /\ cleanup \in [Threads -> BOOLEAN]
HistoryOK == /\ accepted \in [Requests -> SUBSET Requests]
             /\ registered \in [Requests -> SUBSET Requests]
             /\ early \subseteq Requests

\* The type invariant, part by part.
LEMMA TypeParts == TypeOK <=> PcOK /\ RequestsOK /\ SwitchesOK /\ HelpersOK /\ HistoryOK
BY DEF TypeOK, PcOK, RequestsOK, SwitchesOK, HelpersOK, HistoryOK

\* The places of the threads, without the whole of PCs.
LEMMA PcFacts ==
  /\ {"idle", "dispatch", "clear", "reserve", "check", "refuse", "spawn"} \subseteq PCs
  /\ {"begin", "look", "clearPatrol"} \subseteq PCs
  /\ {"popen", "register", "wait", "unregister", "result", "raise", "finally"} \subseteq PCs
  /\ {"setCancel", "snapshot", "reap", "zero", "done"} \subseteq PCs
BY DEF PCs

\* Every step keeps the types; the CASE in Dispatch needs to know what was
\* asked.
LEMMA TypeStep == TypeOK /\ ThreadInv /\ [Next]_vars => TypeOK'
<1> SUFFICES ASSUME TypeOK, ThreadInv, [Next]_vars PROVE TypeOK'
  OBVIOUS
<1> PcOK /\ RequestsOK /\ SwitchesOK /\ HelpersOK /\ HistoryOK
  BY TypeParts
<1> USE DEF Goto, Answer, shared, history
<1>1. ASSUME NEW r \in Requests, NEW k \in Kinds[r], Arrive(r, k)
      PROVE  TypeOK'
  <2>1. k \in Actions
    BY KindsAssumption
  <2>2. PcOK'
    BY <1>1, <2>1, ThreadFacts, PcFacts DEF PcOK, Arrive
  <2>3. RequestsOK'
    BY <1>1, <2>1, ThreadFacts DEF RequestsOK, Arrive
  <2>4. SwitchesOK'
    BY <1>1, <2>1, ThreadFacts DEF SwitchesOK, Arrive
  <2>5. HelpersOK'
    BY <1>1, <2>1, ThreadFacts DEF HelpersOK, Arrive
  <2>6. HistoryOK'
    BY <1>1, <2>1, ThreadFacts DEF HistoryOK, Arrive, Moving
  <2> QED
    BY <2>2, <2>3, <2>4, <2>5, <2>6 DEF TypeOK, PcOK, RequestsOK, SwitchesOK, HelpersOK, HistoryOK
<1>2. ASSUME NEW r \in Requests, HttpStep(r) \/ SpawnFails(r) \/ ZeroFails(r)
      PROVE  TypeOK'
  <2>1. PcOK'
    <3>1. CASE Dispatch(r)
      BY <3>1, ThreadFacts, PcFacts DEF PcOK, Dispatch, ThreadInv, HttpAt, Ending, Driving,
         RequestsOK, Actions
    <3>2. CASE Spawn(r)
      BY <3>2, ThreadFacts, PcFacts DEF PcOK, Spawn
    <3>3. CASE ClearCancel(r) \/ Reserve(r) \/ CheckPatrol(r) \/ RefusePatrol(r) \/ SpawnFails(r)
      BY <3>3, ThreadFacts, PcFacts DEF PcOK, ClearCancel, Reserve, CheckPatrol, RefusePatrol,
         SpawnFails
    <3>4. CASE ZeroDone(r) \/ ZeroFails(r)
      BY <3>4, ThreadFacts, PcFacts DEF PcOK, ZeroDone, ZeroFails
    <3> QED
      BY <1>2, <3>1, <3>2, <3>3, <3>4 DEF HttpStep
  <2>2. RequestsOK'
    BY <1>2, ThreadFacts DEF RequestsOK, HttpStep, Dispatch, ClearCancel, Reserve, CheckPatrol,
       RefusePatrol, Spawn, ZeroDone, ZeroFails, SpawnFails
  <2>3. SwitchesOK'
    BY <1>2, ThreadFacts DEF SwitchesOK, HttpStep, Dispatch, ClearCancel, Reserve, CheckPatrol,
       RefusePatrol, Spawn, ZeroDone, ZeroFails, SpawnFails
  <2>4. HelpersOK'
    BY <1>2, ThreadFacts DEF HelpersOK, HttpStep, Dispatch, ClearCancel, Reserve, CheckPatrol,
       RefusePatrol, Spawn, ZeroDone, ZeroFails, SpawnFails
  <2>5. HistoryOK'
    BY <1>2, ThreadFacts DEF HistoryOK, HttpStep, Dispatch, ClearCancel, Reserve, CheckPatrol,
       RefusePatrol, Spawn, ZeroDone, ZeroFails, SpawnFails
  <2> QED
    BY <2>1, <2>2, <2>3, <2>4, <2>5 DEF TypeOK, PcOK, RequestsOK, SwitchesOK, HelpersOK, HistoryOK
<1>3. ASSUME NEW r \in Requests, MotionStep(r)
      PROVE  TypeOK'
  <2>1. PcOK'
    BY <1>3, ThreadFacts, PcFacts DEF PcOK, MotionStep, Begin, Look, ClearPatrol,
       ExceptCancelled, Finally
  <2>2. RequestsOK'
    BY <1>3, ThreadFacts DEF RequestsOK, MotionStep, Begin, Look, ClearPatrol, ExceptCancelled,
       Finally
  <2>3. SwitchesOK'
    BY <1>3, ThreadFacts DEF SwitchesOK, MotionStep, Begin, Look, ClearPatrol, ExceptCancelled,
       Finally
  <2>4. HelpersOK'
    BY <1>3, ThreadFacts DEF HelpersOK, MotionStep, Begin, Look, ClearPatrol, ExceptCancelled,
       Finally
  <2>5. HistoryOK'
    BY <1>3, ThreadFacts DEF HistoryOK, MotionStep, Begin, Look, ClearPatrol, ExceptCancelled,
       Finally
  <2> QED
    BY <2>1, <2>2, <2>3, <2>4, <2>5 DEF TypeOK, PcOK, RequestsOK, SwitchesOK, HelpersOK, HistoryOK
<1>4. ASSUME NEW r \in Requests, NEW t \in {Http(r), Motion(r)}, HelperStep(t) \/ PopenFails(t)
      PROVE  TypeOK'
  <2>1. t \in Threads /\ t[1] \in Requests
    BY ThreadFacts
  <2>2. PcOK'
    BY <1>4, <2>1, ThreadFacts, PcFacts DEF PcOK, HelperStep, Popen, Register, PopenFails, Wait,
       Unregister, Succeed, Fail, ExceptError
  <2>3. RequestsOK'
    BY <1>4, <2>1, ThreadFacts DEF RequestsOK, HelperStep, Popen, Register, PopenFails, Wait,
       Unregister, Succeed, Fail, ExceptError
  <2>4. SwitchesOK'
    BY <1>4, <2>1, ThreadFacts DEF SwitchesOK, HelperStep, Popen, Register, PopenFails, Wait,
       Unregister, Succeed, Fail, ExceptError
  <2>5. HelpersOK'
    <3>1. CASE Popen(t) \/ Wait(t)
      BY <2>1, <3>1 DEF HelpersOK, Popen, Wait
    <3>2. CASE \/ Register(t) \/ PopenFails(t) \/ Unregister(t)
               \/ Succeed(t) \/ Fail(t) \/ ExceptError(t)
      BY <2>1, <3>2 DEF HelpersOK, Register, PopenFails, Unregister, Succeed, Fail, ExceptError
    <3> QED
      BY <1>4, <3>1, <3>2 DEF HelperStep
  <2>6. HistoryOK'
    BY <1>4, <2>1, ThreadFacts DEF HistoryOK, HelperStep, Popen, Register, PopenFails, Wait,
       Unregister, Succeed, Fail, ExceptError
  <2> QED
    BY <2>2, <2>3, <2>4, <2>5, <2>6 DEF TypeOK, PcOK, RequestsOK, SwitchesOK, HelpersOK, HistoryOK
<1>5. ASSUME NEW r \in Requests, NEW t \in {Http(r), Motion(r)}, StopStep(t)
      PROVE  TypeOK'
  <2>1. t \in Threads /\ t[1] \in Requests
    BY ThreadFacts
  <2>2. PcOK'
    BY <1>5, <2>1, ThreadFacts, PcFacts DEF PcOK, StopStep, SetCancel, Snapshot, Reap, ZeroCleanup
  <2>3. RequestsOK'
    BY <1>5, <2>1, ThreadFacts DEF RequestsOK, StopStep, SetCancel, Snapshot, Reap, ZeroCleanup
  <2>4. SwitchesOK'
    BY <1>5, <2>1, ThreadFacts DEF SwitchesOK, StopStep, SetCancel, Snapshot, Reap, ZeroCleanup
  <2>5. HelpersOK'
    <3>1. CASE Snapshot(t)
      BY <2>1, <3>1 DEF HelpersOK, SwitchesOK, Snapshot
    <3>2. CASE SetCancel(t) \/ ZeroCleanup(t)
      BY <2>1, <3>2 DEF HelpersOK, SetCancel, ZeroCleanup
    <3>3. CASE Reap(t)
      BY <2>1, <3>3 DEF HelpersOK, Reap
    <3> QED
      BY <1>5, <3>1, <3>2, <3>3 DEF StopStep
  <2>6. HistoryOK'
    BY <1>5, <2>1, ThreadFacts DEF HistoryOK, StopStep, SetCancel, Snapshot, Reap, ZeroCleanup
  <2> QED
    BY <2>2, <2>3, <2>4, <2>5, <2>6 DEF TypeOK, PcOK, RequestsOK, SwitchesOK, HelpersOK, HistoryOK
<1>6. ASSUME NEW r \in Requests, HelperEnds(r)
      PROVE  TypeOK'
  <2>1. PcOK'
    BY <1>6, ThreadFacts, PcFacts DEF PcOK, HelperEnds
  <2>2. RequestsOK'
    BY <1>6, ThreadFacts DEF RequestsOK, HelperEnds
  <2>3. SwitchesOK'
    BY <1>6, ThreadFacts DEF SwitchesOK, HelperEnds
  <2>4. HelpersOK'
    BY <1>6, ThreadFacts DEF HelpersOK, HelperEnds
  <2>5. HistoryOK'
    BY <1>6, ThreadFacts DEF HistoryOK, HelperEnds
  <2> QED
    BY <2>1, <2>2, <2>3, <2>4, <2>5 DEF TypeOK, PcOK, RequestsOK, SwitchesOK, HelpersOK, HistoryOK
<1>7. CASE UNCHANGED vars
  BY <1>7 DEF TypeOK, vars
<1> QED
  BY <1>1, <1>2, <1>3, <1>4, <1>5, <1>6, <1>7 DEF Next, RequestStep, RequestFails

\* Every thread stays where its request allows it to be.
LEMMA ThreadStep == TypeOK /\ ThreadInv /\ [Next]_vars => ThreadInv'
<1> SUFFICES ASSUME TypeOK, ThreadInv, [Next]_vars PROVE ThreadInv'
  OBVIOUS
<1> PcOK /\ RequestsOK /\ SwitchesOK /\ HelpersOK /\ HistoryOK
  BY TypeParts
<1> USE ThreadFacts DEF Goto, Answer, shared, history
<1>1. ASSUME NEW r \in Requests, NEW k \in Kinds[r], Arrive(r, k)
      PROVE  ThreadInv'
  <2>1. k \in Actions
    BY KindsAssumption
  <2> QED
    BY <1>1, <2>1 DEF ThreadInv, PcOK, RequestsOK, HttpAt, MotionAt, Ending, Driving,
       Actions, Arrive
<1>2. ASSUME NEW r \in Requests, HttpStep(r) \/ SpawnFails(r) \/ ZeroFails(r)
      PROVE  ThreadInv'
  BY <1>2 DEF ThreadInv, PcOK, RequestsOK, HttpAt, MotionAt, Ending, Driving, Actions,
     HttpStep, Dispatch, ClearCancel, Reserve, CheckPatrol, Spawn, SpawnFails, ZeroDone,
     ZeroFails, RefusePatrol
<1>3. ASSUME NEW r \in Requests, MotionStep(r)
      PROVE  ThreadInv'
  BY <1>3 DEF ThreadInv, PcOK, RequestsOK, HttpAt, MotionAt, Ending, Driving, Actions,
     MotionStep, Begin, Look, ClearPatrol, ExceptCancelled, Finally
<1>4. ASSUME NEW r \in Requests, NEW t \in {Http(r), Motion(r)}, HelperStep(t) \/ PopenFails(t)
      PROVE  ThreadInv'
  <2>1. t \in Threads /\ t[1] \in Requests
    OBVIOUS
  <2> QED
    BY <1>4, <2>1 DEF ThreadInv, PcOK, RequestsOK, HttpAt, MotionAt, Ending, Driving,
       Actions, HelperStep, Popen, PopenFails, Register, Wait, Unregister, Succeed, Fail,
       ExceptError
<1>5. ASSUME NEW r \in Requests, NEW t \in {Http(r), Motion(r)}, StopStep(t)
      PROVE  ThreadInv'
  <2>1. t \in Threads /\ t[1] \in Requests
    OBVIOUS
  <2> QED
    BY <1>5, <2>1 DEF ThreadInv, PcOK, RequestsOK, HttpAt, MotionAt, Ending, Driving,
       Actions, StopStep, SetCancel, Snapshot, Reap, ZeroCleanup
<1>6. ASSUME NEW r \in Requests, HelperEnds(r)
      PROVE  ThreadInv'
  BY <1>6 DEF ThreadInv, PcOK, RequestsOK, HttpAt, MotionAt, Ending, Driving, Actions,
     HelperEnds
<1>7. CASE UNCHANGED vars
  BY <1>7 DEF ThreadInv, vars
<1> QED
  BY <1>1, <1>2, <1>3, <1>4, <1>5, <1>6, <1>7 DEF Next, RequestStep, RequestFails

-----------------------------------------------------------------------------
(***************************************************************************)
(* The helpers and the reservation                                         *)
(***************************************************************************)

\* Popen starts a helper, and no helper is left running by a thread that goes on.
LEMMA HelperRunsStep == TypeOK /\ ThreadInv /\ HelperInv /\ [Next]_vars => HelperInv'
<1> SUFFICES ASSUME TypeOK, ThreadInv, HelperInv, [Next]_vars PROVE HelperInv'
  OBVIOUS
<1> PcOK /\ RequestsOK /\ SwitchesOK /\ HelpersOK /\ HistoryOK
  BY TypeParts
<1> USE ThreadFacts DEF Goto, Answer, shared, history
<1>1. ASSUME NEW r \in Requests, NEW k \in Kinds[r], Arrive(r, k)
      PROVE  HelperInv'
  <2>1. k \in Actions
    BY KindsAssumption
  <2> QED
    BY <1>1, <2>1 DEF HelperInv, ThreadInv, PcOK, RequestsOK, HelpersOK, HttpAt, MotionAt,
       Ending, Driving, Alive, Arrive
<1>2. ASSUME NEW r \in Requests, HttpStep(r) \/ SpawnFails(r) \/ ZeroFails(r)
      PROVE  HelperInv'
  BY <1>2 DEF HelperInv, ThreadInv, PcOK, RequestsOK, HelpersOK, HttpAt, MotionAt, Ending,
     Driving, Alive, HttpStep, Dispatch, ClearCancel, Reserve, CheckPatrol, Spawn,
     SpawnFails, ZeroDone, ZeroFails, RefusePatrol
<1>3. ASSUME NEW r \in Requests, MotionStep(r)
      PROVE  HelperInv'
  BY <1>3 DEF HelperInv, ThreadInv, PcOK, RequestsOK, HelpersOK, HttpAt, MotionAt, Ending,
     Driving, Alive, MotionStep, Begin, Look, ClearPatrol, ExceptCancelled, Finally
<1>4. ASSUME NEW r \in Requests, NEW t \in {Http(r), Motion(r)}, HelperStep(t) \/ PopenFails(t)
      PROVE  HelperInv'
  <2>1. t \in Threads /\ t[1] \in Requests
    OBVIOUS
  <2>2. CASE Popen(t)
    <3>1. CASE t = Http(r)
      <4>1. kind[r] = "turn"
        BY <2>2, <3>1 DEF Popen, ThreadInv, PcOK, RequestsOK, HttpAt, Ending, Driving, Actions
      <4> QED
        BY <2>2, <3>1, <4>1 DEF HelperInv, PcOK, HelpersOK, Popen
    <3>2. CASE t = Motion(r)
      BY <2>2, <3>2 DEF HelperInv, PcOK, HelpersOK, Popen
    <3> QED
      BY <3>1, <3>2
  <2>3. CASE PopenFails(t) \/ Succeed(t) \/ Fail(t) \/ ExceptError(t)
    BY <2>1, <2>3 DEF HelperInv, ThreadInv, PcOK, RequestsOK, HelpersOK, HttpAt, MotionAt,
       Ending, Driving, Alive, PopenFails, Succeed, Fail, ExceptError
  <2>4. CASE Register(t)
    BY <2>1, <2>4 DEF HelperInv, ThreadInv, PcOK, RequestsOK, HelpersOK, HttpAt, MotionAt,
       Ending, Driving, Alive, Register
  <2>5. CASE Wait(t)
    BY <2>1, <2>5 DEF HelperInv, ThreadInv, PcOK, RequestsOK, HelpersOK, HttpAt, MotionAt,
       Ending, Driving, Alive, Wait
  <2>6. CASE Unregister(t)
    BY <2>1, <2>6 DEF HelperInv, ThreadInv, PcOK, RequestsOK, HelpersOK, HttpAt, MotionAt,
       Ending, Driving, Alive, Unregister
  <2> QED
    BY <1>4, <2>2, <2>3, <2>4, <2>5, <2>6 DEF HelperStep
<1>5. ASSUME NEW r \in Requests, NEW t \in {Http(r), Motion(r)}, StopStep(t)
      PROVE  HelperInv'
  <2>1. t \in Threads /\ t[1] \in Requests
    OBVIOUS
  <2> QED
    BY <1>5, <2>1 DEF HelperInv, ThreadInv, PcOK, RequestsOK, HelpersOK, HttpAt, MotionAt,
       Ending, Driving, Alive, StopStep, SetCancel, Snapshot, Reap, ZeroCleanup
<1>6. ASSUME NEW r \in Requests, HelperEnds(r)
      PROVE  HelperInv'
  BY <1>6 DEF HelperInv, ThreadInv, PcOK, RequestsOK, HelpersOK, HttpAt, MotionAt, Ending,
     Driving, Alive, HelperEnds
<1>7. CASE UNCHANGED vars
  BY <1>7 DEF HelperInv, ThreadInv, Alive, vars
<1> QED
  BY <1>1, <1>2, <1>3, <1>4, <1>5, <1>6, <1>7 DEF Next, RequestStep, RequestFails

\* The reservation is taken by Reserve and given back by SpawnFails or Finally.
LEMMA HolderStep == TypeOK /\ ThreadInv /\ HolderInv /\ [Next]_vars => HolderInv'
<1> SUFFICES ASSUME TypeOK, ThreadInv, HolderInv, [Next]_vars PROVE HolderInv'
  OBVIOUS
<1> PcOK /\ RequestsOK /\ SwitchesOK /\ HelpersOK /\ HistoryOK
  BY TypeParts
<1> USE ThreadFacts DEF Goto, Answer, shared, history
<1>1. ASSUME NEW r \in Requests, NEW k \in Kinds[r], Arrive(r, k)
      PROVE  HolderInv'
  <2>1. k \in Actions
    BY KindsAssumption
  <2> QED
    BY <1>1, <2>1 DEF HolderInv, Holds, ThreadInv, PcOK, RequestsOK, SwitchesOK, HttpAt,
       MotionAt, Ending, Driving, Arrive
<1>2. ASSUME NEW r \in Requests, HttpStep(r) \/ SpawnFails(r) \/ ZeroFails(r)
      PROVE  HolderInv'
  <2>1. CASE Dispatch(r) \/ ClearCancel(r)
    BY <2>1 DEF HolderInv, Holds, ThreadInv, PcOK, RequestsOK, SwitchesOK, HttpAt, MotionAt,
       Ending, Driving, Dispatch, ClearCancel
  <2>2. CASE CheckPatrol(r) \/ RefusePatrol(r)
    BY <2>2 DEF HolderInv, Holds, ThreadInv, PcOK, RequestsOK, SwitchesOK, HttpAt, MotionAt,
       Ending, Driving, CheckPatrol, RefusePatrol
  <2>3. CASE Reserve(r)
    <3>1. CASE Busy
      BY <2>3, <3>1 DEF Reserve, HolderInv, Holds, ThreadInv, PcOK, RequestsOK, HttpAt,
         MotionAt, Ending, Driving
    <3>2. CASE ~Busy
      <4>1. ~pending
        BY <2>3, <3>2 DEF Reserve, Busy
      <4>2. /\ pending' /\ kind' = kind
            /\ pc[Http(r)] = "reserve" /\ pc' = [pc EXCEPT ![Http(r)] = "spawn"]
        BY <2>3, <3>2 DEF Reserve
      <4>3. kind[r] = "linear"
        BY <4>2 DEF ThreadInv, RequestsOK, HttpAt, Ending, Driving, Actions
      <4> QED
        BY <4>1, <4>2, <4>3 DEF HolderInv, Holds, PcOK
    <3> QED
      BY <3>1, <3>2
  <2>4. CASE Spawn(r)
    BY <2>4 DEF HolderInv, Holds, ThreadInv, PcOK, RequestsOK, SwitchesOK, HttpAt, MotionAt,
       Ending, Driving, Spawn
  <2>5. CASE ZeroDone(r) \/ ZeroFails(r)
    BY <2>5 DEF HolderInv, Holds, ThreadInv, PcOK, RequestsOK, SwitchesOK, HttpAt, MotionAt,
       Ending, Driving, ZeroDone, ZeroFails
  <2>6. CASE SpawnFails(r)
    <3>1. CASE kind[r] = "linear"
      <4>1. Holds(r) /\ ~pending'
        BY <2>6, <3>1 DEF SpawnFails, Holds
      <4>2. \A s \in Requests : ~Holds(s)'
        BY <2>6, <3>1, <4>1 DEF SpawnFails, HolderInv, Holds, PcOK, ThreadInv, HttpAt, MotionAt,
           Ending, Driving
      <4> QED
        BY <4>1, <4>2 DEF HolderInv
    <3>2. CASE kind[r] # "linear"
      <4>1. pending' = pending
        BY <2>6, <3>2, Zenon DEF SpawnFails, SwitchesOK
      <4>2. \A s \in Requests : Holds(s)' = Holds(s)
        BY <2>6, <3>2 DEF SpawnFails, Holds, PcOK
      <4> QED
        BY <4>1, <4>2 DEF HolderInv
    <3> QED
      BY <3>1, <3>2
  <2> QED
    BY <1>2, <2>1, <2>2, <2>3, <2>4, <2>5, <2>6 DEF HttpStep
<1>3. ASSUME NEW r \in Requests, MotionStep(r)
      PROVE  HolderInv'
  <2>1. CASE Begin(r)
    BY <2>1 DEF HolderInv, Holds, ThreadInv, PcOK, RequestsOK, SwitchesOK, HttpAt, MotionAt,
       Ending, Driving, Begin
  <2>2. CASE Look(r)
    BY <2>2 DEF HolderInv, Holds, ThreadInv, PcOK, RequestsOK, SwitchesOK, HttpAt, MotionAt,
       Ending, Driving, Look
  <2>3. CASE ClearPatrol(r)
    BY <2>3 DEF HolderInv, Holds, ThreadInv, PcOK, RequestsOK, SwitchesOK, HttpAt, MotionAt,
       Ending, Driving, ClearPatrol
  <2>4. CASE ExceptCancelled(r)
    BY <2>4 DEF HolderInv, Holds, ThreadInv, PcOK, RequestsOK, SwitchesOK, HttpAt, MotionAt,
       Ending, Driving, ExceptCancelled
  <2>5. CASE Finally(r)
    <3>1. CASE kind[r] = "linear"
      <4>1. Holds(r) /\ ~pending'
        BY <2>5, <3>1 DEF Finally, Holds
      <4>2. \A s \in Requests : ~Holds(s)'
        BY <2>5, <3>1, <4>1 DEF Finally, HolderInv, Holds, PcOK, ThreadInv, HttpAt, MotionAt,
           Ending, Driving
      <4> QED
        BY <4>1, <4>2 DEF HolderInv
    <3>2. CASE kind[r] # "linear"
      <4>1. pending' = pending
        BY <2>5, <3>2, Zenon DEF Finally, SwitchesOK
      <4>2. \A s \in Requests : Holds(s)' = Holds(s)
        BY <2>5, <3>2 DEF Finally, Holds, PcOK
      <4> QED
        BY <4>1, <4>2 DEF HolderInv
    <3> QED
      BY <3>1, <3>2
  <2> QED
    BY <1>3, <2>1, <2>2, <2>3, <2>4, <2>5 DEF MotionStep
<1>4. ASSUME NEW r \in Requests, NEW t \in {Http(r), Motion(r)}, HelperStep(t) \/ PopenFails(t)
      PROVE  HolderInv'
  <2>1. t \in Threads /\ t[1] \in Requests
    OBVIOUS
  <2> QED
    BY <1>4, <2>1 DEF HolderInv, Holds, ThreadInv, PcOK, RequestsOK, SwitchesOK, HttpAt,
       MotionAt, Ending, Driving, HelperStep, Popen, PopenFails, Register, Wait, Unregister,
       Succeed, Fail, ExceptError
<1>5. ASSUME NEW r \in Requests, NEW t \in {Http(r), Motion(r)}, StopStep(t)
      PROVE  HolderInv'
  <2>1. t \in Threads /\ t[1] \in Requests
    OBVIOUS
  <2> QED
    BY <1>5, <2>1 DEF HolderInv, Holds, ThreadInv, PcOK, RequestsOK, SwitchesOK, HttpAt,
       MotionAt, Ending, Driving, StopStep, SetCancel, Snapshot, Reap, ZeroCleanup
<1>6. ASSUME NEW r \in Requests, HelperEnds(r)
      PROVE  HolderInv'
  BY <1>6 DEF HolderInv, Holds, ThreadInv, PcOK, RequestsOK, SwitchesOK, HttpAt, MotionAt,
     Ending, Driving, HelperEnds
<1>7. CASE UNCHANGED vars
  BY <1>7 DEF HolderInv, Holds, ThreadInv, vars
<1> QED
  BY <1>1, <1>2, <1>3, <1>4, <1>5, <1>6, <1>7 DEF Next, RequestStep, RequestFails

\* Every assignment to the cancellation sets what it is for anew.
LEMMA EarlyStep == TypeOK /\ ThreadInv /\ EarlyInv /\ [Next]_vars => EarlyInv'
<1> SUFFICES ASSUME TypeOK, ThreadInv, EarlyInv, [Next]_vars PROVE EarlyInv'
  OBVIOUS
<1> PcOK /\ RequestsOK /\ SwitchesOK /\ HelpersOK /\ HistoryOK
  BY TypeParts
<1> USE ThreadFacts DEF Goto, Answer, shared, history
<1>1. ASSUME NEW r \in Requests, NEW k \in Kinds[r], Arrive(r, k)
      PROVE  EarlyInv'
  <2>1. k \in Actions
    BY KindsAssumption
  <2> QED
    BY <1>1, <2>1 DEF EarlyInv, ThreadInv, PcOK, RequestsOK, SwitchesOK, HistoryOK, HttpAt,
       MotionAt, Ending, Driving, Arrive
<1>2. ASSUME NEW r \in Requests, HttpStep(r) \/ SpawnFails(r) \/ ZeroFails(r)
      PROVE  EarlyInv'
  BY <1>2 DEF EarlyInv, ThreadInv, PcOK, RequestsOK, SwitchesOK, HistoryOK, HttpAt,
     MotionAt, Ending, Driving, HttpStep, Dispatch, ClearCancel, Reserve, CheckPatrol,
     Spawn, SpawnFails, ZeroDone, ZeroFails, RefusePatrol
<1>3. ASSUME NEW r \in Requests, MotionStep(r)
      PROVE  EarlyInv'
  BY <1>3 DEF EarlyInv, ThreadInv, PcOK, RequestsOK, SwitchesOK, HistoryOK, HttpAt,
     MotionAt, Ending, Driving, MotionStep, Begin, Look, ClearPatrol, ExceptCancelled,
     Finally
<1>4. ASSUME NEW r \in Requests, NEW t \in {Http(r), Motion(r)}, HelperStep(t) \/ PopenFails(t)
      PROVE  EarlyInv'
  <2>1. t \in Threads /\ t[1] \in Requests
    OBVIOUS
  <2> QED
    BY <1>4, <2>1 DEF EarlyInv, ThreadInv, PcOK, RequestsOK, SwitchesOK, HistoryOK, HttpAt,
       MotionAt, Ending, Driving, HelperStep, Popen, PopenFails, Register, Wait, Unregister,
       Succeed, Fail, ExceptError
<1>5. ASSUME NEW r \in Requests, NEW t \in {Http(r), Motion(r)}, StopStep(t)
      PROVE  EarlyInv'
  <2>1. t \in Threads /\ t[1] \in Requests
    OBVIOUS
  <2> QED
    BY <1>5, <2>1 DEF EarlyInv, ThreadInv, PcOK, RequestsOK, SwitchesOK, HistoryOK, HttpAt,
       MotionAt, Ending, Driving, StopStep, SetCancel, Snapshot, Reap, ZeroCleanup
<1>6. ASSUME NEW r \in Requests, HelperEnds(r)
      PROVE  EarlyInv'
  BY <1>6 DEF EarlyInv, ThreadInv, PcOK, RequestsOK, SwitchesOK, HistoryOK, HttpAt,
     MotionAt, Ending, Driving, HelperEnds
<1>7. CASE UNCHANGED vars
  BY <1>7 DEF EarlyInv, ThreadInv, vars
<1> QED
  BY <1>1, <1>2, <1>3, <1>4, <1>5, <1>6, <1>7 DEF Next, RequestStep, RequestFails

-----------------------------------------------------------------------------
(***************************************************************************)
(* What a STOP finds                                                       *)
(***************************************************************************)

\* What is noted does not change, and what is done is not begun again.
LEMMA NotedStep == TypeOK /\ ThreadInv /\ NotedInv /\ [Next]_vars => NotedInv'
<1> SUFFICES ASSUME TypeOK, ThreadInv, NotedInv, [Next]_vars PROVE NotedInv'
  OBVIOUS
<1> PcOK /\ RequestsOK /\ SwitchesOK /\ HelpersOK /\ HistoryOK
  BY TypeParts
<1> USE ThreadFacts DEF Goto, Answer, shared, history
<1>1. ASSUME NEW r \in Requests, NEW k \in Kinds[r], Arrive(r, k)
      PROVE  NotedInv'
  <2>1. k \in Actions
    BY KindsAssumption
  <2> QED
    BY <1>1, <2>1 DEF NotedInv, HistoryOK, Moving, ThreadInv, PcOK, RequestsOK, HttpAt,
       MotionAt, Ending, Driving, Arrive
<1>2. ASSUME NEW r \in Requests, HttpStep(r) \/ SpawnFails(r) \/ ZeroFails(r)
      PROVE  NotedInv'
  BY <1>2 DEF NotedInv, HistoryOK, Moving, ThreadInv, PcOK, RequestsOK, HttpAt, MotionAt,
     Ending, Driving, HttpStep, Dispatch, ClearCancel, Reserve, CheckPatrol, Spawn,
     SpawnFails, ZeroDone, ZeroFails, RefusePatrol
<1>3. ASSUME NEW r \in Requests, MotionStep(r)
      PROVE  NotedInv'
  BY <1>3 DEF NotedInv, HistoryOK, Moving, ThreadInv, PcOK, RequestsOK, HttpAt, MotionAt,
     Ending, Driving, MotionStep, Begin, Look, ClearPatrol, ExceptCancelled, Finally
<1>4. ASSUME NEW r \in Requests, NEW t \in {Http(r), Motion(r)}, HelperStep(t) \/ PopenFails(t)
      PROVE  NotedInv'
  <2>1. t \in Threads /\ t[1] \in Requests
    OBVIOUS
  <2> QED
    BY <1>4, <2>1 DEF NotedInv, HistoryOK, Moving, ThreadInv, PcOK, RequestsOK, HttpAt,
       MotionAt, Ending, Driving, HelperStep, Popen, PopenFails, Register, Wait, Unregister,
       Succeed, Fail, ExceptError
<1>5. ASSUME NEW r \in Requests, NEW t \in {Http(r), Motion(r)}, StopStep(t)
      PROVE  NotedInv'
  <2>1. t \in Threads /\ t[1] \in Requests
    OBVIOUS
  <2> QED
    BY <1>5, <2>1 DEF NotedInv, HistoryOK, Moving, ThreadInv, PcOK, RequestsOK, HttpAt,
       MotionAt, Ending, Driving, StopStep, SetCancel, Snapshot, Reap, ZeroCleanup
<1>6. ASSUME NEW r \in Requests, HelperEnds(r)
      PROVE  NotedInv'
  BY <1>6 DEF NotedInv, HistoryOK, Moving, ThreadInv, PcOK, RequestsOK, HttpAt, MotionAt,
     Ending, Driving, HelperEnds
<1>7. CASE UNCHANGED vars
  BY <1>7 DEF NotedInv, Moving, ThreadInv, vars
<1> QED
  BY <1>1, <1>2, <1>3, <1>4, <1>5, <1>6, <1>7 DEF Next, RequestStep, RequestFails

\* A helper that a STOP has noted is not started again.
LEMMA NotedHelpersEnd ==
  TypeOK /\ ThreadInv /\ NotedInv /\ [Next]_vars
    => \A s \in Requests : \A m \in registered[s] : m \in Moving' => m \in Moving
<1> SUFFICES ASSUME TypeOK, ThreadInv, NotedInv, [Next]_vars
             PROVE  \A s \in Requests : \A m \in registered[s] : m \in Moving' => m \in Moving
  OBVIOUS
<1> PcOK /\ RequestsOK /\ SwitchesOK /\ HelpersOK /\ HistoryOK
  BY TypeParts
<1> USE ThreadFacts DEF Goto, Answer, shared, history
<1>1. ASSUME NEW r \in Requests, NEW k \in Kinds[r], Arrive(r, k)
      PROVE  \A s \in Requests : \A m \in registered[s] : m \in Moving' => m \in Moving
  <2>1. k \in Actions
    BY KindsAssumption
  <2> QED
    BY <1>1, <2>1 DEF NotedInv, Moving, HistoryOK, HelpersOK, Alive, ThreadInv, PcOK,
       RequestsOK, HttpAt, MotionAt, Ending, Driving, Arrive
<1>2. ASSUME NEW r \in Requests, HttpStep(r) \/ SpawnFails(r) \/ ZeroFails(r)
      PROVE  \A s \in Requests : \A m \in registered[s] : m \in Moving' => m \in Moving
  BY <1>2 DEF NotedInv, Moving, HistoryOK, HelpersOK, Alive, ThreadInv, PcOK, RequestsOK,
     HttpAt, MotionAt, Ending, Driving, HttpStep, Dispatch, ClearCancel, Reserve,
     CheckPatrol, Spawn, SpawnFails, ZeroDone, ZeroFails, RefusePatrol
<1>3. ASSUME NEW r \in Requests, MotionStep(r)
      PROVE  \A s \in Requests : \A m \in registered[s] : m \in Moving' => m \in Moving
  BY <1>3 DEF NotedInv, Moving, HistoryOK, HelpersOK, Alive, ThreadInv, PcOK, RequestsOK,
     HttpAt, MotionAt, Ending, Driving, MotionStep, Begin, Look, ClearPatrol,
     ExceptCancelled, Finally
<1>4. ASSUME NEW r \in Requests, NEW t \in {Http(r), Motion(r)}, HelperStep(t) \/ PopenFails(t)
      PROVE  \A s \in Requests : \A m \in registered[s] : m \in Moving' => m \in Moving
  <2>1. t \in Threads /\ t[1] \in Requests
    OBVIOUS
  <2> QED
    BY <1>4, <2>1 DEF NotedInv, Moving, HistoryOK, HelpersOK, Alive, ThreadInv, PcOK,
       RequestsOK, HttpAt, MotionAt, Ending, Driving, HelperStep, Popen, PopenFails,
       Register, Wait, Unregister, Succeed, Fail, ExceptError
<1>5. ASSUME NEW r \in Requests, NEW t \in {Http(r), Motion(r)}, StopStep(t)
      PROVE  \A s \in Requests : \A m \in registered[s] : m \in Moving' => m \in Moving
  <2>1. t \in Threads /\ t[1] \in Requests
    OBVIOUS
  <2> QED
    BY <1>5, <2>1 DEF NotedInv, Moving, HistoryOK, HelpersOK, Alive, ThreadInv, PcOK,
       RequestsOK, HttpAt, MotionAt, Ending, Driving, StopStep, SetCancel, Snapshot, Reap,
       ZeroCleanup
<1>6. ASSUME NEW r \in Requests, HelperEnds(r)
      PROVE  \A s \in Requests : \A m \in registered[s] : m \in Moving' => m \in Moving
  BY <1>6 DEF NotedInv, Moving, HistoryOK, HelpersOK, Alive, ThreadInv, PcOK, RequestsOK,
     HttpAt, MotionAt, Ending, Driving, HelperEnds
<1>7. CASE UNCHANGED vars
  BY <1>7 DEF NotedInv, Moving, Alive, ThreadInv, vars
<1> QED
  BY <1>1, <1>2, <1>3, <1>4, <1>5, <1>6, <1>7 DEF Next, RequestStep, RequestFails

\* Linear motions exclude each other, so the one that waits is the one that
\* registered last.
LEMMA ActiveStep == TypeOK /\ ThreadInv /\ HolderInv /\ ActiveInv /\ [Next]_vars => ActiveInv'
<1> SUFFICES ASSUME TypeOK, ThreadInv, HolderInv, ActiveInv, [Next]_vars PROVE ActiveInv'
  OBVIOUS
<1> PcOK /\ RequestsOK /\ SwitchesOK /\ HelpersOK /\ HistoryOK
  BY TypeParts
<1> USE ThreadFacts DEF Goto, Answer, shared, history
<1>1. ASSUME NEW r \in Requests, NEW k \in Kinds[r], Arrive(r, k)
      PROVE  ActiveInv'
  <2>1. k \in Actions
    BY KindsAssumption
  <2> QED
    BY <1>1, <2>1 DEF ActiveInv, Calm, Actions, ThreadInv, PcOK, RequestsOK, HttpAt,
       MotionAt, Ending, Driving, Arrive
<1>2. ASSUME NEW r \in Requests, HttpStep(r) \/ SpawnFails(r) \/ ZeroFails(r)
      PROVE  ActiveInv'
  BY <1>2 DEF ActiveInv, Calm, Actions, ThreadInv, PcOK, RequestsOK, HttpAt, MotionAt,
     Ending, Driving, HttpStep, Dispatch, ClearCancel, Reserve, CheckPatrol, Spawn,
     SpawnFails, ZeroDone, ZeroFails, RefusePatrol
<1>3. ASSUME NEW r \in Requests, MotionStep(r)
      PROVE  ActiveInv'
  BY <1>3 DEF ActiveInv, Calm, Actions, ThreadInv, PcOK, RequestsOK, HttpAt, MotionAt,
     Ending, Driving, MotionStep, Begin, Look, ClearPatrol, ExceptCancelled, Finally
<1>4. ASSUME NEW r \in Requests, NEW t \in {Http(r), Motion(r)}, HelperStep(t) \/ PopenFails(t)
      PROVE  ActiveInv'
  <2>1. t \in Threads /\ t[1] \in Requests
    OBVIOUS
  <2>2. CASE Popen(t) \/ PopenFails(t) \/ Wait(t)
    BY <2>1, <2>2 DEF ActiveInv, Calm, Actions, ThreadInv, PcOK, RequestsOK, HttpAt,
       MotionAt, Ending, Driving, Popen, PopenFails, Wait
  <2>3. CASE Register(t)
    <3> SUFFICES ASSUME Calm PROVE ActiveInv'
      BY <2>3 DEF Register, ActiveInv, Calm
    <3>1. t = Motion(r) /\ kind[r] = "linear" /\ pc[Motion(r)] = "register"
      BY <2>3 DEF Register, Calm, ThreadInv, RequestsOK, HttpAt, MotionAt, Ending, Driving,
         Actions
    <3>2. \A s \in Requests : pc[Motion(s)] \in {"wait", "unregister"} => s = r
      BY <3>1 DEF Calm, HolderInv, Holds, ThreadInv, RequestsOK, MotionAt, Ending, Driving,
         Actions
    <3> QED
      BY <2>3, <3>1, <3>2 DEF Register, ActiveInv, PcOK
  <2>4. CASE Unregister(t)
    <3> SUFFICES ASSUME Calm PROVE ActiveInv'
      BY <2>4 DEF Unregister, ActiveInv, Calm
    <3>1. t = Motion(r) /\ kind[r] = "linear" /\ pc[Motion(r)] = "unregister"
      BY <2>4 DEF Unregister, Calm, ThreadInv, RequestsOK, HttpAt, MotionAt, Ending, Driving,
         Actions
    <3>2. \A s \in Requests : pc[Motion(s)] \in {"wait", "unregister"} => s = r
      BY <3>1 DEF Calm, HolderInv, Holds, ThreadInv, RequestsOK, MotionAt, Ending, Driving,
         Actions
    <3> QED
      BY <2>4, <3>1, <3>2 DEF Unregister, ActiveInv, PcOK
  <2>5. CASE Succeed(t) \/ Fail(t) \/ ExceptError(t)
    BY <2>1, <2>5 DEF ActiveInv, Calm, Actions, ThreadInv, PcOK, RequestsOK, HttpAt,
       MotionAt, Ending, Driving, Succeed, Fail, ExceptError
  <2> QED
    BY <1>4, <2>2, <2>3, <2>4, <2>5 DEF HelperStep
<1>5. ASSUME NEW r \in Requests, NEW t \in {Http(r), Motion(r)}, StopStep(t)
      PROVE  ActiveInv'
  <2>1. t \in Threads /\ t[1] \in Requests
    OBVIOUS
  <2> QED
    BY <1>5, <2>1 DEF ActiveInv, Calm, Actions, ThreadInv, PcOK, RequestsOK, HttpAt,
       MotionAt, Ending, Driving, StopStep, SetCancel, Snapshot, Reap, ZeroCleanup
<1>6. ASSUME NEW r \in Requests, HelperEnds(r)
      PROVE  ActiveInv'
  BY <1>6 DEF ActiveInv, Calm, Actions, ThreadInv, PcOK, RequestsOK, HttpAt, MotionAt,
     Ending, Driving, HelperEnds
<1>7. CASE UNCHANGED vars
  BY <1>7 DEF ActiveInv, Calm, ThreadInv, vars
<1> QED
  BY <1>1, <1>2, <1>3, <1>4, <1>5, <1>6, <1>7 DEF Next, RequestStep, RequestFails

\* Snapshot finds the process that was noted, and Reap ends it.
LEMMA FoundStep ==
  TypeOK /\ ThreadInv /\ HelperInv /\ NotedInv /\ ActiveInv /\ FoundInv
    /\ [Next]_vars => FoundInv'
<1> SUFFICES ASSUME TypeOK, ThreadInv, HelperInv, NotedInv, ActiveInv, FoundInv, [Next]_vars
             PROVE  FoundInv'
  OBVIOUS
<1> PcOK /\ RequestsOK /\ SwitchesOK /\ HelpersOK /\ HistoryOK
  BY TypeParts
<1> DEFINE Found(s) ==
             /\ pc[Http(s)] \in {"zero", "raise", "done"} => registered[s] \cap Moving = {}
             /\ pc[Http(s)] = "reap" => registered[s] \cap Moving \subseteq {target[Http(s)]}
<1> USE ThreadFacts DEF Goto, Answer, shared, history
<1>1. \A s \in Requests : \A m \in registered[s] : m \in Moving' => m \in Moving
  BY NotedHelpersEnd
<1>2. \A s \in Requests : kind[s] \notin {"none", "stop"} => registered[s] = {}
  BY DEF NotedInv
\* A step that leaves the thread of s where it is keeps what it has found.
<1>3. ASSUME NEW s \in Requests, Found(s), pc'[Http(s)] = pc[Http(s)],
             target'[Http(s)] = target[Http(s)], registered'[s] = registered[s]
      PROVE  Found(s)'
  <2> HIDE DEF Found
  <2>1. registered'[s] \cap Moving' \subseteq registered[s] \cap Moving
    BY <1>1, <1>3
  <2> QED
    BY <1>3, <2>1 DEF Found
<1>4. ASSUME NEW r \in Requests, NEW k \in Kinds[r], Arrive(r, k), Calm'
      PROVE  \A s \in Requests : Found(s)'
  <2>1. Calm
    BY <1>4 DEF Arrive, Calm, ThreadInv, RequestsOK, HttpAt, Ending, Driving, Actions
  <2>2. pc'[Http(r)] = "dispatch"
    BY <1>4 DEF Arrive, PcOK
  <2>3. ASSUME NEW s \in Requests, s # r
        PROVE  Found(s)'
    <3>1. /\ pc'[Http(s)] = pc[Http(s)] /\ target'[Http(s)] = target[Http(s)]
          /\ registered'[s] = registered[s]
      BY <1>4, <2>3 DEF Arrive, PcOK, HistoryOK
    <3> QED
      BY <1>3, <2>1, <3>1 DEF FoundInv
  <2> QED
    BY <2>2, <2>3
<1>5. ASSUME Calm, NEW r \in Requests, kind' = kind, registered' = registered,
             \A s \in Requests \ {r} : /\ pc'[Http(s)] = pc[Http(s)]
                                       /\ target'[Http(s)] = target[Http(s)],
             Found(r)'
      PROVE  \A s \in Requests : Found(s)'
  BY <1>3, <1>5 DEF FoundInv
<1> HIDE DEF Found
<1>6. ASSUME NEW r \in Requests, HttpStep(r) \/ SpawnFails(r) \/ ZeroFails(r), Calm'
      PROVE  \A s \in Requests : Found(s)'
  <2>1. /\ kind' = kind /\ registered' = registered
        /\ \A s \in Requests \ {r} : /\ pc'[Http(s)] = pc[Http(s)]
                                     /\ target'[Http(s)] = target[Http(s)]
    <3>1. CASE Dispatch(r) \/ ClearCancel(r) \/ Reserve(r) \/ CheckPatrol(r) \/ RefusePatrol(r)
      BY <3>1 DEF PcOK, Dispatch, ClearCancel, Reserve, CheckPatrol, RefusePatrol
    <3>2. CASE Spawn(r) \/ SpawnFails(r) \/ ZeroDone(r) \/ ZeroFails(r)
      BY <3>2 DEF PcOK, Spawn, SpawnFails, ZeroDone, ZeroFails
    <3> QED
      BY <1>6, <3>1, <3>2 DEF HttpStep
  <2>2. Calm
    BY <1>6, <2>1 DEF Calm
  <2>3. Found(r)'
    <3>1. CASE ZeroDone(r) \/ ZeroFails(r)
      <4>1. registered[r] \cap Moving = {}
        BY <2>2, <3>1 DEF ZeroDone, ZeroFails, FoundInv
      <4> QED
        BY <1>1, <2>1, <3>1, <4>1 DEF Found, ZeroDone, ZeroFails, PcOK
    <3>2. CASE Dispatch(r)
      BY <3>2 DEF Found, Dispatch, PcOK, ThreadInv, HttpAt, Ending, Driving, RequestsOK, Actions
    <3>3. CASE ClearCancel(r)
      BY <3>3 DEF Found, ClearCancel, PcOK
    <3>4. CASE Reserve(r) \/ CheckPatrol(r) \/ RefusePatrol(r) \/ Spawn(r) \/ SpawnFails(r)
      <4>1. kind[r] \notin {"none", "stop"}
        BY <3>4 DEF Reserve, CheckPatrol, RefusePatrol, Spawn, SpawnFails, ThreadInv, HttpAt, Ending
      <4> QED
        BY <1>2, <2>1, <4>1 DEF Found
    <3> QED
      BY <1>6, <3>1, <3>2, <3>3, <3>4 DEF HttpStep
  <2> QED
    BY <1>5, <2>1, <2>2, <2>3
<1>7. ASSUME NEW r \in Requests, MotionStep(r) \/ HelperEnds(r), Calm'
      PROVE  \A s \in Requests : Found(s)'
  <2>1. /\ kind' = kind /\ registered' = registered /\ target' = target
        /\ \A s \in Requests : pc'[Http(s)] = pc[Http(s)]
    BY <1>7 DEF PcOK, MotionStep, Begin, Look, ClearPatrol, ExceptCancelled, Finally, HelperEnds
  <2>2. Calm
    BY <1>7, <2>1 DEF Calm
  <2> QED
    BY <1>3, <2>1, <2>2 DEF FoundInv, Found
<1>8. ASSUME NEW r \in Requests, NEW t \in {Http(r), Motion(r)}, HelperStep(t) \/ PopenFails(t),
             Calm'
      PROVE  \A s \in Requests : Found(s)'
  <2>1. /\ kind' = kind /\ registered' = registered /\ target' = target
        /\ \A s \in Requests \ {r} : pc'[Http(s)] = pc[Http(s)]
    BY <1>8 DEF PcOK, HelperStep, Popen, PopenFails, Register, Wait, Unregister, Succeed, Fail,
       ExceptError
  <2>2. Calm
    BY <1>8, <2>1 DEF Calm
  <2>3. t = Motion(r) \/ ExceptError(t)
    BY <1>8, <2>2 DEF HelperStep, Popen, PopenFails, Register, Wait, Unregister, Succeed, Fail,
       Calm, ThreadInv, RequestsOK, HttpAt, Ending, Driving, Actions
  <2>4. CASE t = Motion(r)
    <3>1. pc'[Http(r)] = pc[Http(r)]
      BY <1>8, <2>4 DEF PcOK, HelperStep, Popen, PopenFails, Register, Wait, Unregister, Succeed,
         Fail, ExceptError
    <3> QED
      BY <1>3, <2>1, <2>2, <3>1 DEF FoundInv, Found
  <2>5. CASE t = Http(r) /\ ExceptError(t)
    <3>1. Found(r)'
      BY <2>5 DEF Found, ExceptError, PcOK
    <3> QED
      BY <1>5, <2>1, <2>2, <3>1
  <2> QED
    BY <2>3, <2>4, <2>5
<1>9. ASSUME NEW r \in Requests, NEW t \in {Http(r), Motion(r)}, StopStep(t), Calm'
      PROVE  \A s \in Requests : Found(s)'
  <2>1. /\ kind' = kind /\ registered' = registered
        /\ \A s \in Requests \ {r} : /\ pc'[Http(s)] = pc[Http(s)]
                                     /\ target'[Http(s)] = target[Http(s)]
    BY <1>9 DEF PcOK, HelpersOK, StopStep, SetCancel, Snapshot, Reap, ZeroCleanup
  <2>2. Calm
    BY <1>9, <2>1 DEF Calm
  <2>3. CASE t = Motion(r)
    <3>1. pc'[Http(r)] = pc[Http(r)] /\ target'[Http(r)] = target[Http(r)]
      BY <1>9, <2>3 DEF PcOK, HelpersOK, StopStep, SetCancel, Snapshot, Reap, ZeroCleanup
    <3> QED
      BY <1>3, <2>1, <2>2, <3>1 DEF FoundInv, Found
  <2>4. CASE t = Http(r)
    <3>1. Found(r)'
      <4>1. CASE SetCancel(t)
        BY <2>4, <4>1 DEF Found, SetCancel, PcOK
      <4>2. CASE Snapshot(t)
        <5>1. \A m \in registered[r] \cap Moving :
                active = m /\ Alive(active) /\ active # NoProcess
          <6> SUFFICES ASSUME NEW m \in registered[r], helper[m] = "running", m \in Requests
                       PROVE  active = m /\ Alive(active) /\ active # NoProcess
            BY DEF Moving, HistoryOK
          <6>1. pc[Motion(m)] \in {"register", "wait"}
            BY <2>2 DEF HelperInv, Calm
          <6>2. pc[Motion(m)] = "wait"
            BY <6>1 DEF NotedInv, Ending
          <6> QED
            BY <2>2, <6>2, NoProcessAssumption DEF ActiveInv, Alive
        <5>2. CASE active # NoProcess /\ Alive(active)
          <6>1. pc'[Http(r)] = "reap" /\ target'[Http(r)] = active
            BY <2>4, <4>2, <5>2 DEF Snapshot, PcOK, HelpersOK
          <6> QED
            BY <1>1, <2>1, <5>1, <6>1 DEF Found
        <5>3. CASE ~(active # NoProcess /\ Alive(active))
          <6>1. registered[r] \cap Moving = {}
            BY <5>1, <5>3
          <6>2. registered'[r] \cap Moving' = {}
            BY <1>1, <2>1, <6>1
          <6>3. pc'[Http(r)] = "zero"
            BY <2>4, <4>2, <5>3 DEF Snapshot, PcOK
          <6> QED
            BY <6>2, <6>3 DEF Found
        <5> QED
          BY <5>2, <5>3
      <4>3. CASE Reap(t)
        <5>1. registered[r] \cap Moving \subseteq {target[t]}
          BY <2>2, <2>4, <4>3 DEF Reap, FoundInv
        <5>2. target[t] \notin Moving'
          BY <4>3 DEF Reap, Moving, HelpersOK, Alive
        <5>3. registered'[r] \cap Moving' = {}
          BY <1>1, <2>1, <5>1, <5>2
        <5>4. pc'[Http(r)] = "zero"
          BY <2>4, <4>3 DEF Reap, PcOK
        <5> QED
          BY <5>3, <5>4 DEF Found
      <4>4. CASE ZeroCleanup(t)
        <5>1. registered[r] \cap Moving = {} /\ pc'[Http(r)] = "done"
          BY <2>2, <2>4, <4>4 DEF ZeroCleanup, FoundInv, PcOK
        <5> QED
          BY <1>1, <2>1, <5>1 DEF Found
      <4> QED
        BY <1>9, <4>1, <4>2, <4>3, <4>4 DEF StopStep
    <3> QED
      BY <1>5, <2>1, <2>2, <3>1
  <2> QED
    BY <2>3, <2>4
<1>10. CASE UNCHANGED vars
  BY <1>10 DEF vars, FoundInv, Calm, Moving
<1>11. ASSUME Calm', ~UNCHANGED vars
       PROVE  \A s \in Requests : Found(s)'
  BY <1>4, <1>6, <1>7, <1>8, <1>9, <1>11 DEF Next, RequestStep, RequestFails
<1> QED
  BY <1>10, <1>11 DEF FoundInv, Found

\* IInv holds at first, and is inductive.
LEMMA BridgeStarts == Init => IInv
<1> SUFFICES ASSUME Init PROVE IInv
  OBVIOUS
<1>1. TypeOK
  BY DEF Init, TypeOK, PCs
<1>2. \A r \in Requests : pc[Http(r)] = "idle" /\ pc[Motion(r)] = "idle" /\ kind[r] = "none"
  BY ThreadFacts DEF Init
<1>3. ThreadInv
  <2>1. "idle" \in HttpAt("none") /\ "idle" \in MotionAt("none")
    BY DEF HttpAt, MotionAt
  <2> QED
    BY <1>2, <2>1 DEF Init, ThreadInv
<1>4. HelperInv /\ HolderInv /\ EarlyInv
  BY <1>2 DEF Init, HelperInv, HolderInv, Holds, EarlyInv
<1>5. NotedInv /\ ActiveInv /\ FoundInv
  BY <1>2 DEF Init, NotedInv, ActiveInv, FoundInv
<1> QED
  BY <1>1, <1>3, <1>4, <1>5 DEF IInv

LEMMA BridgeStaysIn == IInv /\ [Next]_vars => IInv'
BY TypeStep, ThreadStep, HelperRunsStep, HolderStep, EarlyStep, NotedStep, ActiveStep, FoundStep
   DEF IInv

-----------------------------------------------------------------------------
(***************************************************************************)
(* Theorems                                                                *)
(***************************************************************************)

\* For any set of requests, the Bridge is never outside IInv.
THEOREM BridgeInvariant == Spec => []IInv
BY BridgeStarts, BridgeStaysIn, PTL DEF Spec

\* The variables of the Bridge keep their types.
THEOREM TypeCorrect == Spec => []TypeOK
<1>1. IInv => TypeOK
  BY DEF IInv
<1> QED
  BY <1>1, BridgeInvariant, PTL

\* What the invariant says of the properties of the Bridge.
LEMMA InvariantImplies ==
  IInv => OneLinearMotion /\ ReservationHasOwner /\ EarlyStopHolds /\ StopsRegisteredMotion
<1> SUFFICES ASSUME IInv
             PROVE  OneLinearMotion /\ ReservationHasOwner /\ EarlyStopHolds
                      /\ StopsRegisteredMotion
  OBVIOUS
<1>1. OneLinearMotion
  <2> SUFFICES ASSUME NEW m \in Moving, NEW n \in Moving,
                      kind[m] = "linear", kind[n] = "linear"
               PROVE  m = n
    BY DEF OneLinearMotion
  <2>1. Holds(m) /\ Holds(n)
    BY DEF IInv, HelperInv, Holds, Moving
  <2> QED
    BY <2>1 DEF IInv, HolderInv, Moving
<1>2. ReservationHasOwner
  BY DEF IInv, HolderInv, Holds, ReservationHasOwner
<1>3. EarlyStopHolds
  BY DEF IInv, EarlyInv, HelperInv, EarlyStopHolds, Moving
<1>4. StopsRegisteredMotion
  BY DEF IInv, ThreadInv, FoundInv, Calm, StopsRegisteredMotion
<1> QED
  BY <1>1, <1>2, <1>3, <1>4

\* _linear_motion_pending, taken under the lock by _queue_linear_motion, keeps
\* two linear motions from running helpers at a time.
THEOREM LinearMotionsExclude == Spec => []OneLinearMotion
BY InvariantImplies, BridgeInvariant, PTL

\* The reservation is never left behind by a motion that was refused, could
\* not be started, failed or was cancelled.
THEOREM ReservationIsOwned == Spec => []ReservationHasOwner
BY InvariantImplies, BridgeInvariant, PTL

\* A linear motion that _stop_sport_motion caught before its look at
\* _cancel_requested does not move, as long as nothing clears the event.
THEOREM EarlyStopsHold == Spec => []EarlyStopHolds
BY InvariantImplies, BridgeInvariant, PTL

\* After STOP is answered, no linear motion whose helper was registered when
\* it arrived runs on, unless a patrol or a turn shares the robot.
THEOREM RegisteredMotionsStop == Spec => []StopsRegisteredMotion
BY InvariantImplies, BridgeInvariant, PTL
=============================================================================
