----------------------------- MODULE JobRuntime -----------------------------
(***************************************************************************)
(* One `roc_adapter_runtime.py run`: JobRuntime.run and _transition, the   *)
(* AdapterProcess it talks to over pipes, the adapter, SIGTERM, the job's  *)
(* deadline, and the failures of the disk and of the adapter.              *)
(*                                                                         *)
(* The runtime process is sequential; pc is where it is.  A request is     *)
(* written (Send), then its response awaited; a state change is written to *)
(* state.json (Write), then published to the outbox (Emit).  The adapter,  *)
(* signals and the clock act between any two of these steps.  The lock is  *)
(* the one of RuntimeLock, held here from acquisition to release.          *)
(***************************************************************************)
EXTENDS Naturals, Sequences, SequencesExt

CONSTANTS MaxResponses   \* bound on the lines waiting in the response queue

ASSUME MaxResponsesAssumption == MaxResponses \in Nat \ {0}

VARIABLES
  pc,              \* control point of run()
  call,            \* the request in progress
  callId,          \* its requestId
  writing,         \* the state _transition is recording
  lastState,       \* last_state
  startAttempted,  \* start_attempted
  safetyCancel,    \* cancel_detail of the except block
  cancelRequested, \* the Event set by the signal handler
  handlers,        \* the signal handlers are installed
  expired,         \* time.monotonic() >= deadline
  locked,          \* this process has runtime.lock
  record,          \* the state in state.json
  events,          \* the states of the events in outbox.jsonl
  pipeBroken,      \* a write to the adapter's stdin failed: its bytes are
                   \* still buffered and close() will try them again
  stdinOpen,       \* the runtime's end of the adapter's stdin
  requests,        \* lines in the adapter's stdin: a job.cancel names its reason
  responses,       \* self.responses, with the lines still in the stdout pipe
  adapter,         \* the adapter process
  job,             \* what the job does on the robot
  cancels,         \* history: what became of which job.cancel
  faults           \* history: the disk has failed this run

runtimeVars == <<pc, call, callId, writing, lastState, startAttempted, safetyCancel, locked>>
signalVars  == <<cancelRequested, handlers, expired>>
diskVars    == <<record, events, faults>>
pipeVars    == <<pipeBroken, stdinOpen, requests, responses>>
robotVars   == <<adapter, job, cancels>>
vars == <<runtimeVars, signalVars, diskVars, pipeVars, robotVars>>

Terminal == {"SUCCEEDED", "FAILED", "CANCELLED", "TIMED_OUT", "REJECTED"}
NoState  == "none"
Bogus    == "BOGUS"      \* any state that is not one of the protocol's

\* uuid4: an id that no request or response in flight has.
Ids == 0..2
InFlight == {requests[i].id : i \in DOMAIN requests}
            \cup {responses[i].id : i \in DOMAIN responses}
FreshId == CHOOSE i \in Ids : i \notin InFlight

\* The requests, by the place in run() they come from.
Calls == {"capabilities", "start", "status", "cancel", "timeoutCancel", "safetyCancel"}
CancelCalls == {"cancel", "timeoutCancel", "safetyCancel"}
MessageType(c) == IF c \in CancelCalls THEN "cancel" ELSE c

Reply(i, ok, s) == [what |-> "reply", id |-> i, ok |-> ok, state |-> s]
Garbage == [what |-> "garbage", id |-> 3, ok |-> FALSE, state |-> NoState]
Eof     == [what |-> "eof",     id |-> 3, ok |-> FALSE, state |-> NoState]

Running == pc \notin {"idle", "exited", "crashed"}

Init ==
  /\ pc = "idle" /\ call = "capabilities" /\ callId = 0 /\ writing = NoState
  /\ lastState = "RECEIVED" /\ startAttempted = FALSE /\ safetyCancel = "no"
  /\ cancelRequested = FALSE /\ handlers = FALSE /\ expired = FALSE
  /\ locked = FALSE /\ record = NoState /\ events = <<>> /\ faults = FALSE
  /\ pipeBroken = FALSE /\ stdinOpen = TRUE /\ requests = <<>> /\ responses = <<>>
  /\ adapter = "unborn" /\ job = NoState /\ cancels = {}

(***************************************************************************)
(* Steps of the runtime process share these effects.                       *)
(***************************************************************************)

\* _transition(s) is called, with last_state = l.
Record(s, l) == /\ pc' = "write" /\ writing' = s /\ lastState' = l
                /\ UNCHANGED <<call, callId, startAttempted, safetyCancel, locked>>

\* self.adapter.request is called.
Request(c) == /\ pc' = "send" /\ call' = c
              /\ UNCHANGED <<callId, writing, lastState, startAttempted, safetyCancel, locked>>

Goto(l) == /\ pc' = l
           /\ UNCHANGED <<call, callId, writing, lastState, startAttempted, safetyCancel, locked>>

(***************************************************************************)
(* run(): the way in                                                       *)
(***************************************************************************)

\* _acquire_lock returns.
AcquireLock ==
  /\ pc = "idle"
  /\ pc' = "install" /\ locked' = TRUE
  /\ UNCHANGED <<call, callId, writing, lastState, startAttempted, safetyCancel,
                 signalVars, diskVars, pipeVars, robotVars>>

\* Handlers, last_state = RECEIVED, and the first transition.
InstallHandlers ==
  /\ pc = "install"
  /\ handlers' = TRUE
  /\ Record("RECEIVED", "RECEIVED")
  /\ UNCHANGED <<cancelRequested, expired, diskVars, pipeVars, robotVars>>

\* select_adapter finds an adapter, or raises.
SelectAdapter ==
  /\ pc = "select"
  /\ Record("VALIDATED", "VALIDATED") \/ Goto("except")
  /\ UNCHANGED <<signalVars, diskVars, pipeVars, robotVars>>

(***************************************************************************)
(* _transition                                                             *)
(***************************************************************************)

\* write_json_atomic replaces state.json.
WriteState ==
  /\ pc = "write"
  /\ record' = writing
  /\ Goto("emit")
  /\ UNCHANGED <<events, faults, signalVars, pipeVars, robotVars>>

\* Where run() goes on after _transition(writing).
AfterTransition ==
  CASE writing = "RECEIVED"   -> Goto("select")
    [] writing = "VALIDATED"  -> Request("capabilities")
    [] writing = "STARTING"   -> /\ pc' = "send" /\ call' = "start"
                                 /\ startAttempted' = TRUE
                                 /\ UNCHANGED <<callId, writing, lastState, safetyCancel, locked>>
    [] writing = "RUNNING"    -> Goto("loop")
    [] writing = "CANCELLING" -> Request("cancel")
    [] OTHER                  -> Goto("close")

\* EventOutbox.emit appends the event.
EmitEvent ==
  /\ pc = "emit"
  /\ events' = Append(events, writing)
  /\ AfterTransition
  /\ UNCHANGED <<record, faults, signalVars, pipeVars, robotVars>>

\* The FAILED of the except block, as opposed to one the adapter reported.
RecordingFailure == writing = "FAILED" /\ lastState \notin Terminal

\* An OSError of either file (or an exception of the delivery to the platform
\* that _deliver does not catch).  In the except block it is swallowed.
TransitionRaises ==
  /\ pc \in {"write", "emit"}
  /\ faults' = TRUE
  /\ Goto(IF RecordingFailure THEN "close" ELSE "except")
  /\ UNCHANGED <<record, events, signalVars, pipeVars, robotVars>>

(***************************************************************************)
(* AdapterProcess.request                                                  *)
(***************************************************************************)

\* An exception leaves request(): the finally of the timeout branch records
\* TIMED_OUT and lets it go on, the except block notes it, elsewhere it
\* reaches the except block.
Raise ==
  CASE call = "timeoutCancel" -> Record("TIMED_OUT", "TIMED_OUT")
    [] call = "safetyCancel"  -> /\ pc' = "write" /\ writing' = "FAILED"
                                 /\ safetyCancel' = "failed"
                                 /\ UNCHANGED <<call, callId, lastState, startAttempted, locked>>
    [] OTHER                  -> Goto("except")

\* The history of the cancellations, each by the call it comes from.
Fates == {"asked", "honoured", "refused"} \X CancelCalls

Noted(fate, c) == cancels' = cancels \cup (IF c \in CancelCalls THEN {<<fate, c>>} ELSE {})

\* start() the process for the first request, then write the line.
Send ==
  /\ pc = "send"
  /\ adapter \in {"unborn", "up"}
  /\ adapter' = "up"
  /\ callId' = FreshId
  /\ requests' = Append(requests, [id |-> FreshId, call |-> call])
  /\ pc' = "await"
  /\ Noted("asked", call)
  /\ UNCHANGED <<call, writing, lastState, startAttempted, safetyCancel, locked,
                 pipeBroken, stdinOpen, responses, job, signalVars, diskVars>>

\* Popen raises: self.process stays None.
SpawnFails ==
  /\ pc = "send" /\ adapter = "unborn"
  /\ Raise
  /\ UNCHANGED <<signalVars, diskVars, pipeVars, robotVars>>

\* The adapter is gone: write or flush raises BrokenPipeError.
SendFails ==
  /\ pc = "send" /\ adapter \notin {"unborn", "up"}
  /\ pipeBroken' = TRUE
  /\ Noted("asked", call)
  /\ Raise
  /\ UNCHANGED <<stdinOpen, requests, responses, adapter, job, signalVars, diskVars>>

\* The remaining time is up.  It may be although a response is in the queue:
\* the clock is read before the queue.
RequestTimeout ==
  /\ pc = "await"
  /\ Raise
  /\ UNCHANGED <<signalVars, diskVars, pipeVars, robotVars>>

\* A response to a request that already timed out is skipped.
SkipOther ==
  /\ pc = "await" /\ responses # <<>>
  /\ Head(responses).what = "reply" /\ Head(responses).id # callId
  /\ responses' = Tail(responses)
  /\ UNCHANGED <<pipeBroken, stdinOpen, requests, runtimeVars, signalVars, diskVars, robotVars>>

\* Mutant: any reply is taken for the one awaited.
BelongsUnchecked(r) == r.what = "reply"

\* What request() takes as the response to its request.
Belongs(r) == r.what = "reply" /\ r.id = callId

\* Invalid JSON, end of file, ok: false.
ReceiveError ==
  /\ pc = "await" /\ responses # <<>>
  /\ \/ Head(responses).what # "reply"
     \/ Belongs(Head(responses)) /\ ~Head(responses).ok
  /\ responses' = Tail(responses)
  /\ Raise
  /\ UNCHANGED <<pipeBroken, stdinOpen, requests, signalVars, diskVars, robotVars>>

\* The state of a response, with the default the caller gives for none.
StateOr(r, default) == IF r.state = NoState THEN default ELSE r.state

\* The capabilities response: a list that has the required ones, or not.
OnCapabilities(r) ==
  IF r.state = "complete" THEN Record("STARTING", "STARTING") ELSE Goto("except")

\* Mutant: the state the adapter answers is not validated.
OnStartUnvalidated(r) == Record(StateOr(r, "RUNNING"), StateOr(r, "RUNNING"))

\* job.start: last_state is assigned before it is validated.
OnStart(r) ==
  LET s == StateOr(r, "RUNNING") IN
  IF s \in Terminal \cup {"RUNNING"}
    THEN Record(s, s)
    ELSE /\ pc' = "except" /\ lastState' = s
         /\ UNCHANGED <<call, callId, writing, startAttempted, safetyCancel, locked>>

\* job.status: a state that has not changed is not recorded.
OnStatus(r) ==
  LET s == StateOr(r, "RUNNING") IN
  CASE s \notin Terminal \cup {"RUNNING"} -> Goto("except")
    [] s = lastState                      -> Goto("loop")
    [] OTHER                              -> Record(s, s)

\* Mutant: a job that was cancelled is CANCELLED, whatever the adapter says.
OnCancelIgnoresState(r) == Record("CANCELLED", "CANCELLED")

\* A cancelled job whose state is not terminal is CANCELLED.
OnCancel(r) ==
  LET s == StateOr(r, "CANCELLED")
      t == IF s \in Terminal THEN s ELSE "CANCELLED"
  IN  Record(t, t)

OnSafetyCancel(r) ==
  /\ pc' = "write" /\ writing' = "FAILED" /\ safetyCancel' = "succeeded"
  /\ UNCHANGED <<call, callId, lastState, startAttempted, locked>>

OnReply(r) ==
  CASE call = "capabilities"  -> OnCapabilities(r)
    [] call = "start"         -> OnStart(r)
    [] call = "status"        -> OnStatus(r)
    [] call = "cancel"        -> OnCancel(r)
    [] call = "timeoutCancel" -> Record("TIMED_OUT", "TIMED_OUT")
    [] call = "safetyCancel"  -> OnSafetyCancel(r)

Receive ==
  /\ pc = "await" /\ responses # <<>>
  /\ Belongs(Head(responses)) /\ Head(responses).ok
  /\ responses' = Tail(responses)
  /\ OnReply(Head(responses))
  /\ UNCHANGED <<pipeBroken, stdinOpen, requests, signalVars, diskVars, robotVars>>

(***************************************************************************)
(* run(): the loop, the except block and the finally block                 *)
(***************************************************************************)

\* Mutant: the signal only ends the wait.
LoopCancelForgotten ==
  /\ pc = "loop" /\ cancelRequested
  /\ Request("status")
  /\ UNCHANGED <<signalVars, diskVars, pipeVars, robotVars>>

\* cancel_requested is looked at first.
LoopCancel ==
  /\ pc = "loop" /\ cancelRequested
  /\ Record("CANCELLING", lastState)
  /\ UNCHANGED <<signalVars, diskVars, pipeVars, robotVars>>

\* Mutant: the job is given up without telling the adapter.
LoopTimeoutSilent ==
  /\ pc = "loop" /\ ~cancelRequested /\ expired
  /\ Record("TIMED_OUT", "TIMED_OUT")
  /\ UNCHANGED <<signalVars, diskVars, pipeVars, robotVars>>

\* Mutant: the deadline is not looked at.
LoopTimeoutForgotten ==
  /\ pc = "loop" /\ ~cancelRequested /\ expired
  /\ Goto("poll")
  /\ UNCHANGED <<signalVars, diskVars, pipeVars, robotVars>>

LoopTimeout ==
  /\ pc = "loop" /\ ~cancelRequested /\ expired
  /\ Request("timeoutCancel")
  /\ UNCHANGED <<signalVars, diskVars, pipeVars, robotVars>>

LoopWait ==
  /\ pc = "loop" /\ ~cancelRequested /\ ~expired
  /\ Goto("poll")
  /\ UNCHANGED <<signalVars, diskVars, pipeVars, robotVars>>

\* cancel_requested.wait returns, early if it was set.
Poll ==
  /\ pc = "poll"
  /\ IF cancelRequested THEN Goto("loop") ELSE Request("status")
  /\ UNCHANGED <<signalVars, diskVars, pipeVars, robotVars>>

\* Mutant: only a job that was started is recorded FAILED.
ExceptBlockForgets ==
  /\ pc = "except"
  /\ IF lastState \notin Terminal /\ startAttempted THEN Request("safetyCancel")
                                                    ELSE Goto("close")
  /\ UNCHANGED <<signalVars, diskVars, pipeVars, robotVars>>

\* Mutant: the except block does not ask whether the job has ended.
ExceptBlockRepeats ==
  /\ pc = "except"
  /\ IF startAttempted THEN Request("safetyCancel") ELSE Record("FAILED", "FAILED")
  /\ UNCHANGED <<signalVars, diskVars, pipeVars, robotVars>>

\* A failed job that was started is cancelled, once, and recorded FAILED; a
\* failure after a terminal state was reported records nothing.
ExceptBlock ==
  /\ pc = "except"
  /\ IF lastState \in Terminal THEN Goto("close")
     ELSE IF startAttempted    THEN Request("safetyCancel")
                               ELSE Record("FAILED", lastState)
  /\ UNCHANGED <<signalVars, diskVars, pipeVars, robotVars>>

\* AdapterProcess.close: end the adapter's input if it still runs.
CloseStdin ==
  /\ pc = "close"
  /\ stdinOpen' = (adapter # "up")
  /\ Goto(IF adapter = "up" THEN "reap" ELSE "streams")
  /\ UNCHANGED <<pipeBroken, requests, responses, signalVars, diskVars, robotVars>>

\* process.wait returns.
Reaped ==
  /\ pc = "reap" /\ adapter # "up"
  /\ Goto("streams")
  /\ UNCHANGED <<signalVars, diskVars, pipeVars, robotVars>>

\* It did not exit in 2 s: SIGTERM, and SIGKILL after 3 s more.
TerminateAdapter ==
  /\ pc = "reap" /\ adapter = "up"
  /\ adapter' = "killed"
  /\ Goto("streams")
  /\ UNCHANGED <<job, cancels, signalVars, diskVars, pipeVars>>

\* It executes nothing any more, but SIGKILL does not end it in 2 s (it is in
\* the kernel): TimeoutExpired leaves the finally block.
AdapterUnkillable ==
  /\ pc = "reap" /\ adapter = "up"
  /\ adapter' = "stuck"
  /\ Goto("exited")
  /\ UNCHANGED <<job, cancels, signalVars, diskVars, pipeVars>>

\* Mutant: every adapter that died leaves bytes behind.
CloseStreamsOfDead ==
  /\ pc = "streams"
  /\ Goto(IF adapter = "dead" THEN "exited" ELSE "restore")
  /\ UNCHANGED <<signalVars, diskVars, pipeVars, robotVars>>

\* Closing stdin flushes it: bytes left by a failed write raise again, and
\* the exception leaves the finally block before the handlers are restored
\* and the lock is released.
CloseStreams ==
  /\ pc = "streams"
  /\ Goto(IF pipeBroken THEN "exited" ELSE "restore")
  /\ UNCHANGED <<signalVars, diskVars, pipeVars, robotVars>>

RestoreHandlers ==
  /\ pc = "restore"
  /\ handlers' = FALSE
  /\ Goto("release")
  /\ UNCHANGED <<cancelRequested, expired, diskVars, pipeVars, robotVars>>

ReleaseLock ==
  /\ pc = "release"
  /\ pc' = "exited" /\ locked' = FALSE
  /\ UNCHANGED <<call, callId, writing, lastState, startAttempted, safetyCancel,
                 signalVars, diskVars, pipeVars, robotVars>>

(***************************************************************************)
(* The adapter: any program that follows ADAPTER-CONTRACT.md, or fails.    *)
(***************************************************************************)

Answer(j, ok, s) == [job |-> j, ok |-> ok, state |-> s]

\* What the adapter may do with a request while the job is in state j, and
\* answer.  A cancellation it answers with ok has stopped the robot.
Answers(type, j) ==
  CASE type = "capabilities" ->
         {Answer(j, TRUE, "complete"), Answer(j, TRUE, "missing"), Answer(j, FALSE, NoState)}
    [] type = "start" ->
         {Answer("RUNNING", TRUE, s) : s \in {"RUNNING", NoState, Bogus}}
         \cup {Answer(s, TRUE, s) : s \in {"SUCCEEDED", "FAILED"}}
         \cup {Answer(s, FALSE, NoState) : s \in {j, "RUNNING"}}
    [] type = "status" ->
         {Answer(j, FALSE, NoState)}
         \cup (IF j = NoState THEN {} ELSE {Answer(j, TRUE, j), Answer(j, TRUE, Bogus)})
    [] type = "cancel" ->
         {Answer(j, FALSE, NoState)}
         \cup (IF j \in Terminal THEN {Answer(j, TRUE, j)} ELSE {})
         \cup (IF j = NoState THEN {Answer(j, TRUE, "CANCELLED")}
               ELSE {Answer("CANCELLED", TRUE, s) : s \in {"CANCELLED", NoState, Bogus}})

\* The adapter handles one request and answers it.
AdapterHandle ==
  /\ adapter = "up" /\ requests # <<>> /\ Len(responses) < MaxResponses
  /\ \E a \in Answers(MessageType(Head(requests).call), job) :
       /\ job' = a.job
       /\ responses' = Append(responses, Reply(Head(requests).id, a.ok, a.state))
       /\ Noted(IF a.ok THEN "honoured" ELSE "refused", Head(requests).call)
  /\ requests' = Tail(requests)
  /\ UNCHANGED <<adapter, pipeBroken, stdinOpen, runtimeVars, signalVars, diskVars>>

\* The job ends by itself.
JobEnds ==
  /\ adapter = "up" /\ job = "RUNNING"
  /\ job' \in {"SUCCEEDED", "FAILED"}
  /\ UNCHANGED <<adapter, cancels, runtimeVars, signalVars, diskVars, pipeVars>>

\* A line on stdout that is not a JSON object.
AdapterPrints ==
  /\ adapter = "up" /\ Len(responses) < MaxResponses
  /\ responses' = Append(responses, Garbage)
  /\ UNCHANGED <<pipeBroken, stdinOpen, requests, runtimeVars, signalVars, diskVars, robotVars>>

\* The adapter dies; the reader thread puts None after its last line.
AdapterDies ==
  /\ adapter = "up"
  /\ adapter' = "dead"
  /\ requests' = <<>>
  /\ responses' = Append(responses, Eof)
  /\ UNCHANGED <<job, cancels, pipeBroken, stdinOpen, runtimeVars, signalVars, diskVars>>

\* It has handled every line and reads end of file.  (An adapter that also
\* stops its hardware here does more than is needed below.)
AdapterExits ==
  /\ adapter = "up" /\ ~stdinOpen /\ requests = <<>>
  /\ adapter' = "exited"
  /\ responses' = Append(responses, Eof)
  /\ UNCHANGED <<job, cancels, pipeBroken, stdinOpen, requests, runtimeVars, signalVars, diskVars>>

(***************************************************************************)
(* Signals, the clock, crashes                                             *)
(***************************************************************************)

\* SIGTERM or SIGINT with the handlers installed.
Signal ==
  /\ Running /\ handlers /\ ~cancelRequested
  /\ cancelRequested' = TRUE
  /\ UNCHANGED <<handlers, expired, runtimeVars, diskVars, pipeVars, robotVars>>

\* The deadline set when the job was recorded RUNNING passes.
Expire ==
  /\ Running /\ lastState = "RUNNING" /\ ~expired
  /\ expired' = TRUE
  /\ UNCHANGED <<cancelRequested, handlers, runtimeVars, diskVars, pipeVars, robotVars>>

\* SIGKILL, power loss, or a signal while the handlers are not installed: the
\* adapter's pipes close.
Crash ==
  /\ Running
  /\ pc' = "crashed"
  /\ stdinOpen' = FALSE
  /\ UNCHANGED <<call, callId, writing, lastState, startAttempted, safetyCancel, locked,
                 pipeBroken, requests, responses, signalVars, diskVars, robotVars>>

-----------------------------------------------------------------------------

Transition == WriteState \/ EmitEvent \/ TransitionRaises

Exchange == \/ Send \/ SpawnFails \/ SendFails
            \/ RequestTimeout \/ SkipOther \/ ReceiveError \/ Receive

Finally == \/ CloseStdin \/ Reaped \/ TerminateAdapter \/ AdapterUnkillable
           \/ CloseStreams \/ RestoreHandlers \/ ReleaseLock

Runtime == \/ AcquireLock \/ InstallHandlers \/ SelectAdapter \/ Transition \/ Exchange
           \/ LoopCancel \/ LoopTimeout \/ LoopWait \/ Poll \/ ExceptBlock \/ Finally

Adapter == AdapterHandle \/ JobEnds \/ AdapterPrints \/ AdapterDies \/ AdapterExits

Next == Runtime \/ Adapter \/ Signal \/ Expire \/ Crash

Spec == Init /\ [][Next]_vars

\* The operating system schedules the process; its timeouts are part of it.
\* The adapter owes nothing.
Fairness == WF_vars(Runtime)

\* The deadline need not pass.
FairSpec == Spec /\ Fairness

-----------------------------------------------------------------------------
(***************************************************************************)
(* Properties                                                              *)
(***************************************************************************)

Lines == [what : {"reply", "garbage", "eof"}, id : 0..3, ok : BOOLEAN,
          state : Terminal \cup {"RUNNING", NoState, Bogus, "complete", "missing"}]

States == Terminal \cup {NoState, "RECEIVED", "VALIDATED", "STARTING", "RUNNING", "CANCELLING"}

TypeOK ==
  /\ pc \in {"idle", "install", "select", "write", "emit", "send", "await", "loop", "poll",
             "except", "close", "reap", "streams", "restore", "release", "exited", "crashed"}
  /\ call \in Calls /\ callId \in Ids
  /\ writing \in States /\ lastState \in States \cup {Bogus}
  /\ startAttempted \in BOOLEAN /\ safetyCancel \in {"no", "succeeded", "failed"}
  /\ cancelRequested \in BOOLEAN /\ handlers \in BOOLEAN /\ expired \in BOOLEAN
  /\ locked \in BOOLEAN /\ record \in States /\ events \in Seq(States)
  /\ pipeBroken \in BOOLEAN /\ stdinOpen \in BOOLEAN /\ faults \in BOOLEAN
  /\ requests \in Seq([id : Ids, call : Calls])
  /\ responses \in Seq(Lines)
  /\ adapter \in {"unborn", "up", "exited", "dead", "killed", "stuck"}
  /\ job \in {NoState, "RUNNING", "SUCCEEDED", "FAILED", "CANCELLED"}
  /\ cancels \subseteq Fates

\* The record is the state of the life cycle, the outbox what was published.
Lifecycle == INSTANCE JobLifecycle WITH state     <- record,
                                        published <- events

\* state.json and the outbox show a life cycle of the contract, whatever
\* fails: in particular a terminal state is never replaced, by the except
\* block or by a late answer, and no event is published twice or too early.
LifecycleSpec == Lifecycle!Spec

\* The outcome in state.json is what happened on the robot.  SUCCEEDED and
\* CANCELLED are the end the job came to, no other, and it is over.  FAILED is
\* the end the adapter reported, or the run's own failure, and then a job that
\* was started has been asked to stop.  TIMED_OUT is recorded past the deadline
\* only, with the job asked to stop.  No late, foreign or failed response is
\* taken for any of them.
RecordedOutcomeIsReal ==
  /\ record \in {"SUCCEEDED", "CANCELLED"} => job = record
  /\ record = "FAILED" =>
       IF lastState = "FAILED" THEN job = "FAILED"
       ELSE startAttempted => <<"asked", "safetyCancel">> \in cancels
  /\ record = "TIMED_OUT" => expired /\ <<"asked", "timeoutCancel">> \in cancels

\* The note "safetyCancel succeeded" in the FAILED record is true of that very
\* cancellation: the adapter has answered it with ok.  The answers of requests
\* that timed out, another cancellation's among them, may still be in the queue.
SafetyCancelIsTruthful ==
  safetyCancel = "succeeded" => <<"honoured", "safetyCancel">> \in cancels

\* A run that ends by itself leaves no job running behind an adapter that reads
\* its input to the end, unless that adapter refused a cancellation: every way
\* out of run() after job.start was sent, late starts included, sends a
\* job.cancel behind it.
NoJobLeftBehind ==
  pc = "exited" /\ adapter = "exited" /\ job = "RUNNING"
    => \E c \in CancelCalls : <<"refused", c>> \in cancels

\* A run without a disk failure ends with a terminal state, recorded and
\* published.
EndedRunIsRecorded ==
  pc = "exited" /\ ~faults => record \in Terminal /\ Last(events) = record

\* run() leaves the lock and its handlers behind in two cases only: a write
\* hit a dead adapter, or the adapter could not be killed.
EndedRunReleasesLock ==
  pc = "exited" /\ (locked \/ handlers) => pipeBroken \/ adapter = "stuck"

\* Every run ends once its deadline passes, whatever the adapter does or does
\* not do.
RunEnds == WF_vars(Expire) => (pc # "idle" ~> ~Running)

\* A cancellation signal ends the run, without waiting for the deadline.
CancelEndsRun == cancelRequested ~> ~Running
=============================================================================
