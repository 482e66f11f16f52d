------------------------------ MODULE Go2Stack ------------------------------
(***************************************************************************)
(* The Go2 runtime adapter between `run` and the Go2 Bridge: a succession  *)
(* of runs, each with an adapter process of its own that reads requests    *)
(* from its stdin one by one and turns them into HTTP requests.            *)
(*                                                                         *)
(* The Bridge is that of Go2Bridge, step by step.  Of `run` there is what  *)
(* JobRuntime says of its requests: which one follows which, that each may *)
(* time out, that the adapter's input is closed at the end and that an     *)
(* adapter that does not exit is terminated.  (The failures of its disk    *)
(* are in JobRuntime only.)  The next run starts when the lock is free:    *)
(* its predecessor has ended, or has crashed and left its adapter behind.  *)
(*                                                                         *)
(* Any HTTP request may fail before it reaches the Bridge, or be given up  *)
(* by the adapter with its work still to be done.  The Bridge may be       *)
(* restarted, once.                                                        *)
(***************************************************************************)
EXTENDS Go2Bridge, Sequences

CONSTANTS NumRuns,   \* the runs, one after the other
          Types,     \* the types of job each may execute
          MaxFaults  \* bound on timeouts, lost requests, crashes and restarts

Runs == 1..NumRuns

ASSUME RunsAssumption == NumRuns \in Nat \ {0} /\ MaxFaults \in Nat
ASSUME RequestsAssumption == Requests \subseteq Nat
\* Any request of the Bridge may be one of an adapter.
ASSUME PostsAssumption == \A r \in Requests : {"linear", "patrol", "stop"} \subseteq Kinds[r]
ASSUME TypesAssumption ==
  Types \in [Runs -> SUBSET {"DELIVERY", "PATROL", "INSPECTION", "STOP"}]

VARIABLES
  run,        \* where each run is
  call,       \* its latest request
  outcome,    \* the terminal state it recorded
  type,       \* the type of its job
  inbox,      \* the lines in the stdin of its adapter, the one in work included
  adapter,    \* the adapter process
  job,        \* the state in current_job, "none" if that is None
  posted,     \* the HTTP request the adapter waits for
  owner,      \* history: the run each HTTP request belongs to
  lost,       \* history: runs whose adapter missed an answer of the Bridge
  overlapped, \* history: runs that met another run in the Bridge
  restarted,  \* history: the Bridge was restarted
  faults      \* how many faults there were

runtimeVars == <<run, call, outcome, type>>
adapterVars == <<inbox, adapter, job, posted>>
stackVars   == <<owner, lost, overlapped, restarted>>
svars == <<vars, runtimeVars, adapterVars, stackVars, faults>>

NoRun == 0

SInit ==
  /\ Init
  /\ run = [s \in Runs |-> "new"] /\ call = [s \in Runs |-> "start"]
  /\ outcome = [s \in Runs |-> "none"] /\ type = [s \in Runs |-> "none"]
  /\ inbox = [s \in Runs |-> <<>>] /\ adapter = [s \in Runs |-> "none"]
  /\ job = [s \in Runs |-> "none"] /\ posted = [s \in Runs |-> NoProcess]
  /\ owner = [r \in Requests |-> NoRun] /\ lost = {} /\ overlapped = {} /\ restarted = FALSE
  /\ faults = 0

Fault == faults < MaxFaults /\ faults' = faults + 1

AdapterUp(s) == adapter[s] \in {"reading", "waiting"}

(***************************************************************************)
(* The run                                                                 *)
(***************************************************************************)

\* It has the lock and an adapter that reported its capabilities, and asks
\* for the start of the job.
StartRun(s) ==
  /\ run[s] = "new"
  /\ s > 1 => run[s - 1] \in {"ended", "crashed"}
  /\ run' = [run EXCEPT ![s] = "await"]
  /\ \E t \in Types[s] : type' = [type EXCEPT ![s] = t]
  /\ inbox' = [inbox EXCEPT ![s] = <<"start">>]
  /\ adapter' = [adapter EXCEPT ![s] = "reading"]
  /\ UNCHANGED <<call, outcome, job, posted, vars, stackVars>>

\* What a run records when its request ends with a: a state, or "error".
Recorded(c, a) == CASE c = "timeoutCancel" -> "TIMED_OUT"
                    [] c = "safetyCancel"  -> "FAILED"
                    [] OTHER               -> a

\* The request of s in progress ends with a; rest are the lines that the
\* adapter still has.
Conclude(s, a, rest) ==
  \/ /\ a = "error" /\ call[s] \in {"start", "status", "cancel"}
     /\ call' = [call EXCEPT ![s] = "safetyCancel"]
     /\ inbox' = [inbox EXCEPT ![s] = Append(rest, "cancel")]
     /\ UNCHANGED <<run, outcome>>
  \/ /\ a = "RUNNING"
     /\ run' = [run EXCEPT ![s] = "loop"]
     /\ inbox' = [inbox EXCEPT ![s] = rest]
     /\ UNCHANGED <<call, outcome>>
  \/ /\ a # "RUNNING"
     /\ a = "error" => call[s] \in {"timeoutCancel", "safetyCancel"}
     /\ run' = [run EXCEPT ![s] = "close"]
     /\ outcome' = [outcome EXCEPT ![s] = Recorded(call[s], a)]
     /\ inbox' = [inbox EXCEPT ![s] = rest]
     /\ UNCHANGED call

\* The request times out, or the adapter is gone.
GiveUp(s) ==
  /\ run[s] = "await"
  /\ Conclude(s, "error", inbox[s])
  /\ UNCHANGED <<type, adapter, job, posted, vars, stackVars>>

\* The loop polls, or cancels after a signal or after the deadline.
Ask(s) ==
  /\ run[s] = "loop"
  /\ run' = [run EXCEPT ![s] = "await"]
  /\ \E c \in {"status", "cancel", "timeoutCancel"} :
       /\ call' = [call EXCEPT ![s] = c]
       /\ inbox' = [inbox EXCEPT ![s] = Append(@, IF c = "status" THEN c ELSE "cancel")]
  /\ UNCHANGED <<outcome, type, adapter, job, posted, vars, stackVars>>

\* close(): the adapter has exited, or gets SIGTERM after 2 s.
Close(s) ==
  /\ run[s] = "close"
  /\ run' = [run EXCEPT ![s] = "ended"]
  /\ adapter' = [adapter EXCEPT ![s] = IF AdapterUp(s) THEN "killed" ELSE @]
  /\ UNCHANGED <<call, outcome, type, inbox, job, posted, vars, stackVars>>

\* The run dies.
Crash(s) ==
  /\ run[s] \in {"await", "loop", "close"}
  /\ run' = [run EXCEPT ![s] = "crashed"]
  /\ UNCHANGED <<call, outcome, type, adapterVars, vars, stackVars>>

(***************************************************************************)
(* The adapter: handle and main                                            *)
(***************************************************************************)

\* respond: the run takes the answer to its latest request only.  If it died,
\* the pipe is broken: main leaves its loop.
Respond(s, a) ==
  IF run[s] = "await" /\ Len(inbox[s]) = 1
    THEN Conclude(s, a, <<>>)
    ELSE /\ inbox' = [inbox EXCEPT ![s] = IF run[s] = "crashed" THEN <<>> ELSE Tail(@)]
         /\ UNCHANGED <<run, call, outcome>>

\* A run is in the Bridge with its first request, until its threads there have
\* ended and it knows how its job ended.
InBridge(s) == \E r \in Requests :
                 /\ owner[r] = s
                 /\ \/ run[s] \in {"await", "loop"}
                    \/ \E t \in {Http(r), Motion(r)} : pc[t] \notin {"idle", "done"}

\* bridge_request of a POST: the next unused request.
Post(s, k) ==
  LET unused == {r \in Requests : kind[r] = "none"}
      r      == CHOOSE q \in unused : \A p \in unused : q <= p
      met    == {o \in Runs \ {s} : InBridge(o)}
  IN  /\ unused # {}
      /\ Arrive(r, k)
      /\ owner' = [owner EXCEPT ![r] = s]
      /\ posted' = [posted EXCEPT ![s] = r]
      /\ adapter' = [adapter EXCEPT ![s] = "waiting"]
      /\ overlapped' = overlapped \cup (IF met = {} THEN {} ELSE met \cup {s})
      /\ UNCHANGED <<job, inbox, run, call, outcome, type, lost, restarted>>

Handling(s, message) == /\ adapter[s] = "reading"
                        /\ inbox[s] # <<>> /\ Head(inbox[s]) = message

BridgeAction(t) == CASE t = "DELIVERY" -> "linear"
                     [] t = "STOP"     -> "stop"
                     [] OTHER          -> "patrol"

\* job.start
HandleStart(s) ==
  /\ Handling(s, "start")
  /\ Post(s, BridgeAction(type[s]))

\* job.cancel, for a job the adapter does not know.
RefuseCancel(s) ==
  /\ Handling(s, "cancel") /\ job[s] = "none"
  /\ Respond(s, "error")
  /\ UNCHANGED <<type, adapter, job, posted, vars, stackVars>>

HandleCancel(s) ==
  /\ Handling(s, "cancel") /\ job[s] # "none"
  /\ Post(s, "stop")

\* The Bridge cannot be reached: bridge_request raises, and the adapter answers
\* ok: false.
PostFails(s) ==
  /\ Handling(s, "start") \/ (Handling(s, "cancel") /\ job[s] # "none")
  /\ Respond(s, "error")
  /\ lost' = lost \cup {s}
  /\ UNCHANGED <<type, adapter, job, posted, vars, owner, overlapped, restarted>>

MapBridgeState(v) == CASE v = "ACTION_RUNNING" -> "RUNNING"
                       [] v = "ERROR"          -> "FAILED"
                       [] OTHER                -> "SUCCEEDED"

\* Mutant: the state of the Bridge is answered as it is.
HandleStatusRaw(s) ==
  LET j == IF job[s] = "RUNNING" THEN state ELSE job[s] IN
  /\ Handling(s, "status") /\ job[s] # "none"
  /\ Respond(s, j)
  /\ job' = [job EXCEPT ![s] = j]
  /\ UNCHANGED <<type, adapter, posted, vars, stackVars>>

\* job.status
HandleStatus(s) ==
  LET j == IF job[s] = "RUNNING" THEN MapBridgeState(state) ELSE job[s] IN
  /\ Handling(s, "status") /\ job[s] # "none"
  /\ Respond(s, j)
  /\ job' = [job EXCEPT ![s] = j]
  /\ UNCHANGED <<type, adapter, posted, vars, stackVars>>

\* The Bridge does not answer.
StatusFails(s) ==
  /\ Handling(s, "status") /\ job[s] = "RUNNING"
  /\ Respond(s, "error")
  /\ UNCHANGED <<type, adapter, job, posted, vars, stackVars>>

Waits(s) == adapter[s] = "waiting"

Answered(s) == pc[Http(posted[s])] = "done" /\ result[posted[s]] # "none"

\* The answer to the POST of a job.start.
Started(s) ==
  /\ Waits(s) /\ Answered(s) /\ inbox[s] # <<>> /\ Head(inbox[s]) = "start"
  /\ LET j == IF type[s] = "STOP" THEN "SUCCEEDED"
              ELSE IF result[posted[s]] = "accepted" THEN "RUNNING" ELSE "error"
     IN  /\ Respond(s, j)
         /\ job' = [job EXCEPT ![s] = IF j = "error" THEN @ ELSE j]
  /\ adapter' = [adapter EXCEPT ![s] = "reading"]
  /\ posted' = [posted EXCEPT ![s] = NoProcess]
  /\ UNCHANGED <<type, vars, stackVars>>

\* Mutant: the adapter does not wait for the STOP.
CancelledUnawaited(s) ==
  /\ Waits(s) /\ inbox[s] # <<>> /\ Head(inbox[s]) = "cancel"
  /\ Respond(s, "CANCELLED")
  /\ job' = [job EXCEPT ![s] = "CANCELLED"]
  /\ adapter' = [adapter EXCEPT ![s] = "reading"]
  /\ posted' = [posted EXCEPT ![s] = NoProcess]
  /\ UNCHANGED <<type, vars, stackVars>>

\* The answer to the POST of a job.cancel; /api/v1/cancel answers 200 whatever
\* execute_action said.
Cancelled(s) ==
  /\ Waits(s) /\ Answered(s) /\ inbox[s] # <<>> /\ Head(inbox[s]) = "cancel"
  /\ Respond(s, "CANCELLED")
  /\ job' = [job EXCEPT ![s] = "CANCELLED"]
  /\ adapter' = [adapter EXCEPT ![s] = "reading"]
  /\ posted' = [posted EXCEPT ![s] = NoProcess]
  /\ UNCHANGED <<type, vars, stackVars>>

\* The answer is not awaited any longer, or the connection breaks.
HttpFails(s) ==
  /\ Waits(s) /\ inbox[s] # <<>>
  /\ Respond(s, "error")
  /\ adapter' = [adapter EXCEPT ![s] = "reading"]
  /\ posted' = [posted EXCEPT ![s] = NoProcess]
  /\ lost' = lost \cup {s}
  /\ UNCHANGED <<type, job, vars, owner, overlapped, restarted>>

\* The run closed its end of the pipe, or died.
EndOfInput(s) == /\ adapter[s] = "reading" /\ inbox[s] = <<>>
                 /\ run[s] \in {"close", "ended", "crashed"}

\* Mutant: the adapter does not stop its job at the end of its input.
ShutdownForgotten(s) ==
  /\ EndOfInput(s) /\ job[s] = "RUNNING"
  /\ adapter' = [adapter EXCEPT ![s] = "exited"]
  /\ UNCHANGED <<inbox, job, posted, runtimeVars, vars, stackVars>>

\* The finally block of main: stop_active_job.
Shutdown(s) ==
  /\ EndOfInput(s) /\ job[s] = "RUNNING"
  /\ Post(s, "stop")

ShutdownDone(s) ==
  /\ Waits(s) /\ inbox[s] = <<>> /\ Answered(s)
  /\ job' = [job EXCEPT ![s] = "CANCELLED"]
  /\ adapter' = [adapter EXCEPT ![s] = "exited"]
  /\ posted' = [posted EXCEPT ![s] = NoProcess]
  /\ UNCHANGED <<inbox, runtimeVars, vars, stackVars>>

\* The Bridge cannot be reached, or does not answer.
ShutdownFails(s) ==
  /\ \/ EndOfInput(s) /\ job[s] = "RUNNING"
     \/ Waits(s) /\ inbox[s] = <<>>
  /\ adapter' = [adapter EXCEPT ![s] = "exited"]
  /\ posted' = [posted EXCEPT ![s] = NoProcess]
  /\ lost' = lost \cup {s}
  /\ UNCHANGED <<inbox, job, runtimeVars, vars, owner, overlapped, restarted>>

\* There is nothing to stop.
Exit(s) ==
  /\ EndOfInput(s) /\ job[s] # "RUNNING"
  /\ adapter' = [adapter EXCEPT ![s] = "exited"]
  /\ UNCHANGED <<inbox, job, posted, runtimeVars, vars, stackVars>>

\* SIGTERM, which the adapter does not handle: no finally block.
Kill(s) ==
  /\ AdapterUp(s)
  /\ adapter' = [adapter EXCEPT ![s] = "killed"]
  /\ UNCHANGED <<inbox, job, posted, runtimeVars, vars, stackVars>>

(***************************************************************************)
(* The Bridge                                                              *)
(***************************************************************************)

BridgeStep ==
  /\ \E r \in Requests : RequestStep(r) \/ HelperEnds(r)
  /\ UNCHANGED <<runtimeVars, adapterVars, stackVars>>

BridgeFails ==
  /\ \E r \in Requests : RequestFails(r)
  /\ UNCHANGED <<runtimeVars, adapterVars, stackVars>>

\* systemd ends the Bridge and its helpers and starts a new one.
Restart ==
  /\ restarted' = TRUE
  /\ pc' = [t \in Threads |-> IF pc[t] = "idle" THEN "idle" ELSE "done"]
  /\ state' = "IDLE" /\ cancel' = FALSE /\ pending' = FALSE /\ active' = NoProcess
  /\ helper' = [r \in Requests |-> IF Alive(r) THEN "failed" ELSE helper[r]]
  /\ target' = [t \in Threads |-> NoProcess]
  /\ cleanup' = [t \in Threads |-> FALSE]
  /\ early' = {}
  /\ UNCHANGED <<kind, result, accepted, registered, runtimeVars, adapterVars,
                 owner, lost, overlapped>>

-----------------------------------------------------------------------------

RunStep(s) == StartRun(s) \/ Ask(s) \/ Close(s) \/ (GiveUp(s) /\ ~AdapterUp(s))

RunFault(s) == (GiveUp(s) /\ AdapterUp(s)) \/ Crash(s)

AdapterStep(s) == \/ HandleStart(s) \/ RefuseCancel(s) \/ HandleCancel(s) \/ HandleStatus(s)
                  \/ Started(s) \/ Cancelled(s)
                  \/ Shutdown(s) \/ ShutdownDone(s) \/ Exit(s)

AdapterFault(s) == \/ PostFails(s) \/ StatusFails(s) \/ HttpFails(s) \/ ShutdownFails(s)
                   \/ Kill(s)

SNext == \/ /\ \E s \in Runs : RunStep(s) \/ AdapterStep(s)
            /\ UNCHANGED faults
         \/ BridgeStep /\ UNCHANGED faults
         \/ /\ \/ \E s \in Runs : RunFault(s) \/ AdapterFault(s)
               \/ BridgeFails
               \/ Restart
            /\ Fault

SSpec == SInit /\ [][SNext]_svars

-----------------------------------------------------------------------------
(***************************************************************************)
(* Properties                                                              *)
(***************************************************************************)

STypeOK ==
  /\ TypeOK
  /\ run \in [Runs -> {"new", "await", "loop", "close", "ended", "crashed"}]
  /\ call \in [Runs -> {"start", "status", "cancel", "timeoutCancel", "safetyCancel"}]
  /\ outcome \in [Runs -> {"none", "SUCCEEDED", "FAILED", "CANCELLED", "TIMED_OUT"}]
  /\ type \in [Runs -> {"none", "DELIVERY", "PATROL", "INSPECTION", "STOP"}]
  /\ inbox \in [Runs -> Seq({"start", "status", "cancel"})]
  /\ adapter \in [Runs -> {"none", "reading", "waiting", "exited", "killed"}]
  /\ job \in [Runs -> {"none", "RUNNING", "SUCCEEDED", "FAILED", "CANCELLED"}]
  /\ posted \in [Runs -> Requests \cup {NoProcess}]
  /\ owner \in [Requests -> Runs \cup {NoRun}]
  /\ lost \subseteq Runs /\ overlapped \subseteq Runs /\ restarted \in BOOLEAN

\* The motions of a run.
Motions(s) == {r \in Requests : owner[r] = s /\ kind[r] \in {"linear", "patrol"}}
Stops(s)   == {r \in Requests : owner[r] = s /\ kind[r] = "stop"}

\* A run that records SUCCEEDED has moved the robot to the end, although the
\* adapter asks the Bridge for its state and not for the job's: unless another
\* run was in the Bridge meanwhile, or the Bridge was restarted (it is IDLE
\* then, which the adapter takes for a success).
SucceededIsReal ==
  \A s \in Runs :
    outcome[s] = "SUCCEEDED" /\ type[s] # "STOP" =>
      \/ \E r \in Motions(s) : helper[r] = "ok"
      \/ s \in overlapped \/ restarted

\* The stops of a run came before the helper of its motion was registered.
Missed(s, r) == Stops(s) # {} /\ \A q \in Stops(s) : r \notin registered[q]

\* An adapter that ended by itself, with its stops done, leaves the robot
\* moving for four reasons only: it missed an answer of the Bridge (so that it
\* never knew of its job, or does not know whether it stopped), another run
\* came between, or the helper was not yet registered when its STOP arrived.
LeftMovingIsExcused ==
  \A s \in Runs : \A r \in Motions(s) \cap Moving :
    adapter[s] = "exited" => s \in lost \/ s \in overlapped \/ Missed(s, r)

\* No helper of the request moves the robot, and none will.
StandsStill(r) ==
  ~Alive(r) /\ pc[Motion(r)] \notin {"begin", "look", "clearPatrol", "popen"}

\* A run has left the robot to the next one: its adapter is gone, its requests
\* are answered, and nothing of it moves the robot any more, but for a motion
\* that its stops missed and a helper that outlived its thread's SIGTERM.
HasLeft(s) ==
  /\ ~AdapterUp(s)
  /\ \A r \in Requests : owner[r] = s =>
       pc[Http(r)] = "done" /\ (StandsStill(r) \/ helper[r] = "stray" \/ Missed(s, r))

\* When a run starts, each earlier one has left, unless it crashed, its adapter
\* was terminated or gave up a request, or it had met yet another run in the
\* Bridge.  Who has left sends nothing any more, so this is all of it that
\* the new run can meet.  (The thread of a failed motion may still clean up.)
RunsDoNotMeet ==
  [][ \A s, t \in Runs :
        s < t /\ run[t] = "new" /\ run'[t] # "new" =>
          \/ run'[s] = "crashed" \/ adapter'[s] = "killed"
          \/ s \in lost' \/ s \in overlapped'
          \/ HasLeft(s)' ]_svars
=============================================================================
