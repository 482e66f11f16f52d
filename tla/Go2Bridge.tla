----------------------------- MODULE Go2Bridge -----------------------------
(***************************************************************************)
(* RobotExecutor of the Go2 Bridge: the threads of a ThreadingHTTPServer   *)
(* call execute_action, and each accepted linear motion or patrol runs in  *)
(* a thread of its own that starts a helper process and waits for it.      *)
(*                                                                         *)
(* The threads share state, _cancel_requested, _linear_motion_pending and  *)
(* _active_motion_process.  Only what the code does while it holds         *)
(* _motion_process_lock, and each single assignment or Event operation, is *)
(* one step.  The robot moves while a helper process runs.                 *)
(*                                                                         *)
(* Left out: mock mode, and the named actions (stand, dance, heart), which *)
(* are never registered and end by themselves within 30 s.  SIGKILL ends a *)
(* helper.                                                                 *)
(***************************************************************************)
EXTENDS Naturals

CONSTANTS Requests,  \* HTTP requests
          NoProcess, \* _active_motion_process = None
          Kinds      \* what each request may ask for

Actions == {"linear", "patrol", "turn", "stop"}

ASSUME KindsAssumption == Kinds \in [Requests -> SUBSET Actions]
ASSUME NoProcessAssumption == NoProcess \notin Requests

\* A request has an HTTP thread, and perhaps a motion thread it starts.
Threads == Requests \X {"http", "motion"}
Http(r) == <<r, "http">>
Motion(r) == <<r, "motion">>

VARIABLES
  pc,         \* where each thread is
  kind,       \* what each request asks for
  result,     \* what it was answered
  state,      \* self.state
  cancel,     \* self._cancel_requested
  pending,    \* self._linear_motion_pending
  active,     \* self._active_motion_process: the request whose helper it is
  helper,     \* the helper process of each request's motion
  target,     \* the process a thread is terminating
  cleanup,    \* the thread stops the robot after an error, not on request
  accepted,   \* history: the motions accepted before a stop request arrived
  registered, \* history: those of them whose helper was registered by then
  early       \* history: motions told to stop before they looked at _cancel_requested

shared  == <<state, cancel, pending, active, helper>>
history == <<accepted, registered, early>>
vars == <<pc, kind, result, shared, target, cleanup, history>>

Init ==
  /\ pc = [t \in Threads |-> "idle"]
  /\ kind = [r \in Requests |-> "none"]
  /\ result = [r \in Requests |-> "none"]
  /\ state = "IDLE" /\ cancel = FALSE /\ pending = FALSE /\ active = NoProcess
  /\ helper = [r \in Requests |-> "none"]
  /\ target = [t \in Threads |-> NoProcess]
  /\ cleanup = [t \in Threads |-> FALSE]
  /\ accepted = [r \in Requests |-> {}]
  /\ registered = [r \in Requests |-> {}]
  /\ early = {}

Goto(t, from, to) == pc[t] = from /\ pc' = [pc EXCEPT ![t] = to]

Answer(r, a) == result' = [result EXCEPT ![r] = a]

\* A helper that outlived the SIGTERM of its own thread is "stray".
Alive(r) == helper[r] \in {"running", "stray"}

\* The motions whose threads have not given them up.
Moving == {r \in Requests : helper[r] = "running"}

(***************************************************************************)
(* execute_action, in the HTTP thread                                      *)
(***************************************************************************)

\* A STOP notes what it should stop.
Arrive(r, k) ==
  /\ Goto(Http(r), "idle", "dispatch")
  /\ kind' = [kind EXCEPT ![r] = k]
  /\ IF k = "stop"
       THEN /\ accepted' = [accepted EXCEPT ![r] = {m \in Requests : result[m] = "accepted"}]
            /\ registered' = [registered EXCEPT ![r] = {m \in Moving : pc[Motion(m)] = "wait"}]
       ELSE UNCHANGED <<accepted, registered>>
  /\ UNCHANGED <<result, shared, target, cleanup, early>>

\* Mutant: the state is set by the motion's thread only.
DispatchSilently(r) ==
  /\ Goto(Http(r), "dispatch", CASE kind[r] = "linear" -> "clear"
                                 [] kind[r] = "patrol" -> "check"
                                 [] kind[r] = "turn"   -> "popen"
                                 [] kind[r] = "stop"   -> "setCancel")
  /\ UNCHANGED <<kind, result, shared, target, cleanup, history>>

\* The state is set before anything is checked.
Dispatch(r) ==
  /\ Goto(Http(r), "dispatch", CASE kind[r] = "linear" -> "clear"
                                 [] kind[r] = "patrol" -> "check"
                                 [] kind[r] = "turn"   -> "popen"
                                 [] kind[r] = "stop"   -> "setCancel")
  /\ state' = "ACTION_RUNNING"
  /\ UNCHANGED <<kind, result, cancel, pending, active, helper, target, cleanup, history>>

\* _queue_linear_motion clears the cancellation first ...
ClearCancel(r) ==
  /\ Goto(Http(r), "clear", "reserve")
  /\ cancel' = FALSE /\ early' = {}
  /\ UNCHANGED <<kind, result, state, pending, active, helper, target, cleanup,
                 accepted, registered>>

\* _motion_is_active, and the same test in _queue_linear_motion.
Busy == pending \/ (active # NoProcess /\ Alive(active))

\* Mutant: the reservation is not looked at.
ReserveBlindly(r) ==
  /\ Goto(Http(r), "reserve", "spawn")
  /\ pending' = TRUE
  /\ UNCHANGED <<kind, result, state, cancel, active, helper, target, cleanup, history>>

\* ... and reserves the robot if it is free.
Reserve(r) ==
  \/ /\ Goto(Http(r), "reserve", "done")
     /\ Busy
     /\ Answer(r, "busy")
     /\ UNCHANGED <<kind, shared, target, cleanup, history>>
  \/ /\ Goto(Http(r), "reserve", "spawn")
     /\ ~Busy
     /\ pending' = TRUE
     /\ UNCHANGED <<kind, result, state, cancel, active, helper, target, cleanup, history>>

\* A patrol only looks whether the robot is free ...
CheckPatrol(r) ==
  /\ Goto(Http(r), "check", IF Busy THEN "refuse" ELSE "spawn")
  /\ UNCHANGED <<kind, result, shared, target, cleanup, history>>

\* ... and sets the state once more if it was not.
RefusePatrol(r) ==
  /\ Goto(Http(r), "refuse", "done")
  /\ state' = "ACTION_RUNNING"
  /\ Answer(r, "busy")
  /\ UNCHANGED <<kind, cancel, pending, active, helper, target, cleanup, history>>

\* Thread(...).start(), and the answer "started".
Spawn(r) ==
  /\ pc[Http(r)] = "spawn"
  /\ pc' = [pc EXCEPT ![Http(r)] = "done", ![Motion(r)] = "begin"]
  /\ Answer(r, "accepted")
  /\ UNCHANGED <<kind, shared, target, cleanup, history>>

\* The thread cannot be started: the reservation is given back.
SpawnFails(r) ==
  /\ Goto(Http(r), "spawn", "raise")
  /\ pending' = (pending /\ kind[r] # "linear")
  /\ UNCHANGED <<kind, result, state, cancel, active, helper, target, cleanup, history>>

(***************************************************************************)
(* _run_linear_motion, _run_patrol_inspection, _run_tiny_motion            *)
(***************************************************************************)

Begin(r) ==
  /\ Goto(Motion(r), "begin", IF kind[r] = "linear" THEN "look" ELSE "clearPatrol")
  /\ state' = "ACTION_RUNNING"
  /\ UNCHANGED <<kind, result, cancel, pending, active, helper, target, cleanup, history>>

\* Mutant: the cancellation is looked at when the motion has ended only.
LookForgotten(r) ==
  /\ Goto(Motion(r), "look", "popen")
  /\ UNCHANGED <<kind, result, shared, target, cleanup, history>>

\* A linear motion looks at the cancellation once before it starts.
Look(r) ==
  \/ /\ Goto(Motion(r), "look", "finally")
     /\ cancel
     /\ state' = "ACTION_DONE"
     /\ UNCHANGED <<kind, result, cancel, pending, active, helper, target, cleanup, history>>
  \/ /\ Goto(Motion(r), "look", "popen")
     /\ ~cancel
     /\ UNCHANGED <<kind, result, shared, target, cleanup, history>>

\* A patrol clears it in its own thread.
ClearPatrol(r) ==
  /\ Goto(Motion(r), "clearPatrol", "popen")
  /\ cancel' = FALSE /\ early' = {}
  /\ UNCHANGED <<kind, result, state, pending, active, helper, target, cleanup,
                 accepted, registered>>

\* Popen starts the helper, which moves the robot ...
Popen(t) ==
  /\ Goto(t, "popen", "register")
  /\ helper' = [helper EXCEPT ![t[1]] = "running"]
  /\ UNCHANGED <<kind, result, state, cancel, pending, active, target, cleanup, history>>

\* ... or there is no helper.
PopenFails(t) ==
  /\ Goto(t, "popen", "raise")
  /\ UNCHANGED <<kind, result, shared, target, cleanup, history>>

\* It can be stopped from here on.
Register(t) ==
  /\ Goto(t, "register", "wait")
  /\ active' = t[1]
  /\ UNCHANGED <<kind, result, state, cancel, pending, helper, target, cleanup, history>>

\* The helper ends by itself, well or with an error; nobody looks at the exit
\* code of a stray one.
HelperEnds(r) ==
  /\ Alive(r)
  /\ \E how \in {"ok", "failed"} :
       helper' = [helper EXCEPT ![r] = IF @ = "stray" THEN "failed" ELSE how]
  /\ UNCHANGED <<pc, kind, result, state, cancel, pending, active, target, cleanup, history>>

\* communicate() returns, or its timeout ends the helper: SIGTERM, and SIGKILL
\* 3 s later, but no SIGKILL for the obstacle avoidance helper.
Wait(t) ==
  /\ Goto(t, "wait", "unregister")
  /\ \/ helper' = [helper EXCEPT ![t[1]] = IF @ = "running" THEN "failed" ELSE @]
     \/ /\ kind[t[1]] = "linear" /\ helper[t[1]] = "running"
        /\ helper' = [helper EXCEPT ![t[1]] = "stray"]
  /\ UNCHANGED <<kind, result, state, cancel, pending, active, target, cleanup, history>>

\* The finally block of the helper; its exit code is looked at next.
Unregister(t) ==
  /\ Goto(t, "unregister", IF helper[t[1]] = "ok" THEN "result" ELSE "raise")
  /\ active' = (IF active = t[1] THEN NoProcess ELSE active)
  /\ UNCHANGED <<kind, result, state, cancel, pending, helper, target, cleanup, history>>

\* Exit code 0; a patrol asks first whether it was cancelled.
DidItsWork(t) == kind[t[1]] = "patrol" => ~cancel

\* The helper did its work: in a motion thread, and in the thread of a turn.
Succeed(t) ==
  /\ Goto(t, "result", IF t[2] = "http" THEN "done" ELSE "finally")
  /\ DidItsWork(t)
  /\ state' = "ACTION_DONE"
  /\ IF t[2] = "http" THEN Answer(t[1], "finished") ELSE UNCHANGED result
  /\ UNCHANGED <<kind, cancel, pending, active, helper, target, cleanup, history>>

\* It was cancelled: an exception.
Fail(t) ==
  /\ Goto(t, "result", "raise")
  /\ ~DidItsWork(t)
  /\ UNCHANGED <<kind, result, shared, target, cleanup, history>>

\* A motion thread that was cancelled is done ...
ExceptCancelled(r) ==
  /\ Goto(Motion(r), "raise", "finally")
  /\ cancel
  /\ state' = "ACTION_DONE"
  /\ UNCHANGED <<kind, result, cancel, pending, active, helper, target, cleanup, history>>

\* ... otherwise, and in an HTTP thread, the state is ERROR and the robot is
\* stopped.
ExceptError(t) ==
  /\ Goto(t, "raise", "setCancel")
  /\ t[2] = "http" \/ ~cancel
  /\ state' = "ERROR"
  /\ cleanup' = [cleanup EXCEPT ![t] = TRUE]
  /\ UNCHANGED <<kind, result, cancel, pending, active, helper, target, history>>

\* Mutant: the reservation of a cancelled or failed motion is kept.
FinallyKeeps(r) ==
  /\ Goto(Motion(r), "finally", "done")
  /\ pending' = (pending /\ (kind[r] # "linear" \/ helper[r] # "ok"))
  /\ UNCHANGED <<kind, result, state, cancel, active, helper, target, cleanup, history>>

\* The reservation of a linear motion ends with its thread.
Finally(r) ==
  /\ Goto(Motion(r), "finally", "done")
  /\ pending' = (pending /\ kind[r] # "linear")
  /\ UNCHANGED <<kind, result, state, cancel, active, helper, target, cleanup, history>>

(***************************************************************************)
(* _stop_sport_motion, in any thread                                       *)
(***************************************************************************)

SetCancel(t) ==
  /\ Goto(t, "setCancel", "snapshot")
  /\ cancel' = TRUE
  /\ early' = {r \in Requests : kind[r] = "linear" /\ pc[Motion(r)] \in {"begin", "look"}}
  /\ UNCHANGED <<kind, result, state, pending, active, helper, target, cleanup,
                 accepted, registered>>

\* _terminate_active_motion reads the process under the lock, and signals it
\* if it runs.
Snapshot(t) ==
  LET runs == active # NoProcess /\ Alive(active)
  IN  /\ Goto(t, "snapshot", IF runs THEN "reap" ELSE "zero")
      /\ target' = [target EXCEPT ![t] = IF runs THEN active ELSE NoProcess]
      /\ UNCHANGED <<kind, result, shared, cleanup, history>>

\* Mutant: the process is signalled but not waited for.
ReapNobody(t) ==
  /\ Goto(t, "reap", "zero")
  /\ UNCHANGED <<kind, result, shared, target, cleanup, history>>

\* It has obeyed SIGTERM, or is killed after 6 s.  (If it ended well in
\* between, HelperEnds came first.)
Reap(t) ==
  /\ Goto(t, "reap", "zero")
  /\ helper' = [helper EXCEPT ![target[t]] = IF Alive(target[t]) THEN "failed" ELSE @]
  /\ target' = [target EXCEPT ![t] = NoProcess]
  /\ UNCHANGED <<kind, result, state, cancel, pending, active, cleanup, history>>

\* Mutant: the final state is not set.
ZeroDoneKeepsState(r) ==
  /\ Goto(Http(r), "zero", "done")
  /\ ~cleanup[Http(r)]
  /\ Answer(r, "stopped")
  /\ UNCHANGED <<kind, shared, target, cleanup, history>>

\* The zero velocity command of a STOP request succeeds ...
ZeroDone(r) ==
  /\ Goto(Http(r), "zero", "done")
  /\ ~cleanup[Http(r)]
  /\ state' = "ACTION_DONE"
  /\ Answer(r, "stopped")
  /\ UNCHANGED <<kind, cancel, pending, active, helper, target, cleanup, history>>

\* ... or raises ...
ZeroFails(r) ==
  /\ Goto(Http(r), "zero", "raise")
  /\ ~cleanup[Http(r)]
  /\ UNCHANGED <<kind, result, shared, target, cleanup, history>>

\* ... and after an error either is the same.
ZeroCleanup(t) ==
  /\ Goto(t, "zero", IF t[2] = "http" THEN "done" ELSE "finally")
  /\ cleanup[t]
  /\ IF t[2] = "http" THEN Answer(t[1], "error") ELSE UNCHANGED result
  /\ UNCHANGED <<kind, shared, target, cleanup, history>>

-----------------------------------------------------------------------------

HttpStep(r) == \/ Dispatch(r) \/ ClearCancel(r) \/ Reserve(r) \/ CheckPatrol(r)
               \/ RefusePatrol(r) \/ Spawn(r) \/ ZeroDone(r)

MotionStep(r) == \/ Begin(r) \/ Look(r) \/ ClearPatrol(r)
                 \/ ExceptCancelled(r) \/ Finally(r)

HelperStep(t) == \/ Popen(t) \/ Register(t) \/ Wait(t) \/ Unregister(t)
                 \/ Succeed(t) \/ Fail(t) \/ ExceptError(t)

StopStep(t) == SetCancel(t) \/ Snapshot(t) \/ Reap(t) \/ ZeroCleanup(t)

RequestStep(r) == \/ HttpStep(r) \/ MotionStep(r)
                  \/ \E t \in {Http(r), Motion(r)} : HelperStep(t) \/ StopStep(t)

RequestFails(r) == \/ SpawnFails(r) \/ ZeroFails(r)
                   \/ \E t \in {Http(r), Motion(r)} : PopenFails(t)

Next == \E r \in Requests : \/ \E k \in Kinds[r] : Arrive(r, k)
                            \/ RequestStep(r) \/ RequestFails(r)
                            \/ HelperEnds(r)

Spec == Init /\ [][Next]_vars

\* Python runs some thread as long as one can run; the waits in them have
\* timeouts.
Fairness == WF_vars(\E r \in Requests : RequestStep(r))

FairSpec == Spec /\ Fairness

-----------------------------------------------------------------------------
(***************************************************************************)
(* Properties                                                              *)
(***************************************************************************)

PCs == {"idle", "dispatch", "clear", "reserve", "check", "refuse", "spawn", "begin", "look",
        "clearPatrol", "popen", "register", "wait", "unregister", "result", "raise", "finally",
        "setCancel", "snapshot", "reap", "zero", "done"}

TypeOK ==
  /\ pc \in [Threads -> PCs]
  /\ kind \in [Requests -> Actions \cup {"none"}]
  /\ result \in [Requests -> {"none", "accepted", "busy", "finished", "stopped", "error"}]
  /\ state \in {"IDLE", "ACTION_RUNNING", "ACTION_DONE", "ERROR"}
  /\ cancel \in BOOLEAN /\ pending \in BOOLEAN
  /\ active \in Requests \cup {NoProcess}
  /\ helper \in [Requests -> {"none", "running", "stray", "ok", "failed"}]
  /\ target \in [Threads -> Requests \cup {NoProcess}]
  /\ cleanup \in [Threads -> BOOLEAN]
  /\ accepted \in [Requests -> SUBSET Requests]
  /\ registered \in [Requests -> SUBSET Requests]
  /\ early \subseteq Requests

\* What the Bridge answers: "Task cancelled and robot stopped".  A motion that
\* was accepted before the STOP arrived may start its helper after it.
CancelledMeansStopped ==
  \A r \in Requests : result[r] = "stopped" => accepted[r] \cap Moving = {}

\* Linear motions exclude each other, whatever else is asked: the reservation
\* is taken under the lock and kept until the thread ends.  (A stray helper is
\* not excluded: its thread has given up.)
OneLinearMotion ==
  \A m, n \in Moving : kind[m] = "linear" /\ kind[n] = "linear" => m = n

\* After the answer to a STOP no linear motion runs that was registered when
\* the STOP arrived: the process STOP finds is the one that moves the robot.
\* (A patrol or a turn may have taken its place in _active_motion_process.)
StopsRegisteredMotion ==
  \A r \in Requests :
    result[r] = "stopped" /\ (\A m \in Requests : kind[m] \notin {"patrol", "turn"})
      => registered[r] \cap Moving = {}

\* A linear motion that is told to stop between its acceptance and its look at
\* _cancel_requested never starts its helper, unless a later request cleared
\* the cancellation.
EarlyStopHolds == early \cap Moving = {}

\* The reservation belongs to one linear motion that still goes on.
ReservationHasOwner ==
  pending => \E r \in Requests : /\ kind[r] = "linear"
                                 /\ \/ pc[Http(r)] = "spawn"
                                    \/ pc[Motion(r)] \notin {"idle", "done"}

\* The Bridge does not report ACTION_RUNNING for ever, unless it refused a
\* request: a refused request has set that state, perhaps after the motion it
\* was refused for set the final one.
RunningEnds ==
  state = "ACTION_RUNNING" ~>
    state # "ACTION_RUNNING" \/ \E r \in Requests : result[r] = "busy"
=============================================================================
