# A TLA+ model of the ROC robot SDK

This directory holds TLA+ modules that model the ROC robot SDK (`src/`), the
TLC configurations that check them on small instances, and proofs that TLAPS
checks for every instance. `R` below stands for `src/roc_adapter_runtime.py`,
`B` for `src/adapters/go2/go2_bridge.py`, `G` for
`src/adapters/go2/runtime_adapter.py` and `S` for `src/roc-robot-tpm-sdk.sh`.

## 1. The system

A robot runs the SDK core (`R`), which executes one local job at a time: it
selects an adapter from the manifests, starts it as a child process, and speaks
a line-oriented JSON protocol with it (`src/ADAPTER-CONTRACT.md`). The adapter
for the Unitree Go2 forwards jobs over HTTP to the Go2 Bridge (`B`), a service
that owns the robot and starts C++ helper programs that drive it. A shell agent
(`S`) signs heartbeats and reports with a key in the TPM or in a file.

### Components

| Component | State | Operations | Makes it correct |
|---|---|---|---|
| Runtime lock (`R` 461-500) | `runtime.lock`, and each process's attempt and the owner it read | `_acquire_lock`, `_pid_is_active`, `_release_lock` | one holder; a stale file is got past; a live holder's file is not removed |
| Job runtime (`R` 200-316, 449-646) | control point, `last_state`, `start_attempted`, cancellation flag, deadline, response queue, `state.json`, child process | `run`, `_transition`, `AdapterProcess.start/request/close`, signal handlers | one life cycle, recorded truthfully; no job left behind; every run ends |
| Event outbox (`R` 319-374) | `outbox.jsonl`, the records each flush has read | `emit`, `flush`, `_deliver` | events durable, ordered, marked delivered only if received |
| Admission and cancel (`R` 540-556, 741-796) | `state.json` and `runtime.lock` shared by processes | idempotency check, `cancel_active_job`, `verify_runtime_process` | a completed job is not repeated; cancel signals the right process |
| Adapter registry (`R` 99-204, 377-446, 655-726) | manifests, `runtime/enabled-adapters.json` | validation, discovery, selection, activation, probe | the adapter that is started can do the job and is enabled |
| Go2 runtime adapter (`G`) | `current_job` | `handle`, `main` | the job it knows is the one on the robot |
| Go2 Bridge (`B`) | `state`, `_cancel_requested`, `_linear_motion_pending`, `_active_motion_process` | `execute_action`, motion threads, `_stop_sport_motion` | linear motions exclude each other; STOP stops; nothing stays reserved |
| LiDAR navigator and local planner (C++) | planner state, counters, side, stall clock; signal flag, Move failures | `update`, `fail`, the control loop | stays in its corridor, never drives blindly, ends |
| Mock wheel adapter | `current_job` | `handle` | a reference adapter |
| Action and camera helpers (C++) | none that lasts | open-loop SDK calls | - |
| TPM agent (`S`) | keys, payload, signature and reports in files; each invocation's variables | prepare, sign, heartbeat, stage report, bind, the loop | reports verify, and name the key the robot was bound with |
| Installers (shell) | systemd units, copied files | install | - |

### How they interact

* `run` processes, `cancel`, `status` and `flush-outbox` of one SDK home share
  `runtime.lock`, `state.json` and `outbox.jsonl`; only `run` takes the lock.
* The runtime and its adapter share two pipes. A thread of the runtime reads the
  adapter's stdout into a queue; a request waits for the line with its id.
* The runtime gets SIGTERM and SIGINT, from `cancel` above all.
* Adapter and Bridge exchange HTTP requests with timeouts; the threads of the
  Bridge's HTTP server and its motion threads share the executor's fields.
* A runtime that crashes leaves its adapter behind, which reads the end of its
  input and stops its job: perhaps beside the adapter of the next run.
* Every invocation of the agent's script works in the same files, without a
  lock, and reads the registry that `activate` writes.
* The Bridge starts a helper, waits for it and signals it; the navigator drives
  the robot over DDS and reads ranges and odometry from it.

### What is hard

Races of processes on files without a lock (outbox, stale lock files,
idempotency); answers that arrive after their request was given up; failures of
disk, pipe or process inside the error handling itself; a STOP between the
acceptance of a motion and the start of its helper; three layers (runtime,
adapter, Bridge), each with its own idea of the job and its own timeouts; shell
invocations that share key, payload and signature files; a planner with counters,
hysteresis and several ways to give up, fed by sensors that go stale and
commands that are lost. `PROJECT.json` lists them under `hazards`, each at its
line with the properties that cover it. Where the code does what a hazard
describes, and a property only names it as an excuse, the hazard has a note.

## 2. The modules

| Module | Models | Uses |
|---|---|---|
| `RuntimeLock` | the lock protocol, one action per file or process call | |
| `JobLifecycle` | abstract: the life cycle that record and events may show | |
| `JobRuntime` | one `run()`, its adapter, signals, clock, failures | implements `JobLifecycle` |
| `EventOutbox` | `emit` and concurrent `flush`es | |
| `JobAdmission` | several `run`s and a `cancel` in one SDK home | composes `RuntimeLock` |
| `Go2Bridge` | `RobotExecutor` and its threads and helpers | |
| `Go2Stack` | runs, their Go2 adapters and the Bridge's HTTP requests | extends `Go2Bridge` |
| `AdapterRegistry` | manifests, activation, `enabled_manifests`, selection | |
| `TpmAgent` | invocations of the agent's script on their shared files | extends `AdapterRegistry` |
| `LocalPlanner` | `LocalPlanner::update`, `fail` as operators on a record | |
| `LidarNavigator` | the control loop, the robot, signals, the deadline | `LocalPlanner` |
| `MC...` | sets of model values for TLC | |
| `RuntimeLockProofs`, `JobRuntimeProofs`, `EventOutboxProofs`, `TpmAgentProofs`, `LidarNavigatorProofs` | theorems about the module in their name | that module, TLAPS |
| `JobAdmissionProofs` | theorems about `JobAdmission` | extends `RuntimeLockProofs` |
| `Go2BridgeProofs` | theorems about `Go2Bridge` | `Go2Bridge`, TLAPS |
| `Go2StackProofs` | theorems about `Go2Stack` | extends `Go2BridgeProofs` |

### RuntimeLock

A process is a process id (`Runners`), so that ids can be reused. `pc` follows
`_acquire_lock` and `_release_lock`: `Create` and `Exists` are the two outcomes
of `os.open(O_CREAT | O_EXCL)`, `WritePid` the write, `ReadOwner` the read,
`Refuse` and `JudgeStale` the two outcomes of `_pid_is_active`, `UnlinkStale`
the unlink that starts the second attempt. `lockFile` names the file's creator
(an inode, which the code does not see) and its content: the pid, or nothing
yet. `Crash` may come anywhere; `ForeignStart` and `ForeignExit` give a pid to
another program. Such a program may belong to another user: `os.kill` raises
PermissionError, which is an OSError, and `_pid_is_active` answers either way.

`contended` is a history variable: two processes have been inside
`_acquire_lock` at once since nobody was last using the lock. The invariants
say what the code gives without contention; `MutualExclusion` is what the
documents promise, and does not hold (section 4).

### JobRuntime and JobLifecycle

`run()` is sequential, so its state is a control point `pc` and its locals. A
call of `_transition(s)` is `WriteState` (`state.json` replaced) followed by
`EmitEvent` (outbox), either of which may raise; `AfterTransition` is where
`run()` goes on. A call of `AdapterProcess.request` is `Send` and then
`Receive`, `SkipOther`, `ReceiveError` or `RequestTimeout`; `Raise` is where an
exception goes from each call site (the `finally` of the timeout branch and the
inner `try` of the except block are different from the rest). `CloseStdin` to
`ReleaseLock` are the finally block, with the two ways in which `close()` itself
raises. The adapter answers anything the contract allows and much it does not:
errors, unknown states, garbage, nothing, late, dying with a job running
(`Answers`, `AdapterPrints`, `AdapterDies`). The request timeout may fire
although the response is in the queue, because the clock is read first.
Request ids are reused once no line carries them, which is all that a fresh
uuid4 means. The history `cancels` has what became of each call that cancels (the
one of a signal, of the deadline, of a failure): asked, answered with the end of
the job, or refused. `RecordedOutcomeIsReal` says for each recorded outcome what
happened on the robot, and `SafetyCancelIsTruthful` that the note "cancelled"
comes from the answer to the safety cancellation itself.

`JobLifecycle` has two variables, the recorded state and the list of published
states, and says which state may follow which and that a state is recorded
before it is published, once. `JobRuntime` implements it (the property
`LifecycleSpec`: `INSTANCE JobLifecycle WITH state <- record, published <-
events`), with disk failures and crashes included.

### EventOutbox

`emit` delivers, opens and appends; the line is written to the inode that was
opened, which `os.replace` may have deprived of its name meanwhile. A flush
reads all lines, delivers the pending ones one by one and replaces the file.
Deliveries may fail, or succeed with the answer lost. `raced` records that two
processes were inside the file together; `faulty` that an answer was lost or a
process died.

### JobAdmission

The `run` of `JobRuntime` in four steps, any number of times over, around the
steps of `RuntimeLock` (its actions are conjoined with what they mean here), and
`cancel_active_job` with its separate steps: state, lock, `/proc` check, kill. A
`cancel` can see the process end, release its lock, or restore its handlers
between any two of them. A process runs one job; then its pid goes to another
run, of any job, or to an unrelated program, also while `state.json` or `cancel`
still holds that pid. Histories record which keys completed, why a completed
key's record no longer protects it, which runs `inherited` a pid that was in an
active record or in the hands of `cancel`, and whether the process that `cancel`
`verified` is still there.

### Go2Bridge

A request has an HTTP thread and perhaps a motion thread. One step is what the
code does under `_motion_process_lock`, or one assignment or Event operation
outside of it. `active` is `_active_motion_process`, `helper` the process of
each request, `target` the process a STOP is reaping. The obstacle avoidance
helper is sent SIGTERM, waited for 3 s and not killed, so it can outlive its
thread: it is `"stray"`. `accepted`, `registered` and `early` record what a STOP
found when it came.

### Go2Stack

A succession of runs, each with an adapter process of its own, over the Bridge of
`Go2Bridge`. A run is reduced to what `JobRuntime` says of its requests to the
adapter: `Ask`, `Conclude` (what it records or asks next, given an answer or an
error), `GiveUp` (the request times out), `Close` and `Crash`. The adapter reads
the lines of its `inbox` one at a time; `job` is the state in `current_job`. A
request to the Bridge is `Post`, which makes a request of `Go2Bridge` arrive,
and then `Started`, `Cancelled` or `ShutdownDone` when that request is
answered, or `HttpFails` when the answer is lost or late: the work goes on in
the Bridge. `HandleStatus` maps the Bridge's `state`, whoever's job that is of.
`EndOfInput` leads to the finally block of `main`; `Kill` is SIGTERM, which skips
it. `Restart` ends the Bridge with its helpers and starts a new one.

The histories `lost`, `overlapped` and `restarted` say why a promise may fail.
`RunsDoNotMeet` is about the moment at which a run starts: nothing of an earlier
run is left that could move the robot, neither its adapter, nor a request, nor a
motion thread, nor a helper (`HasLeft`). Its excuses are a crash, an adapter
that was terminated or that gave up a request, a motion that its STOP `Missed`
(finding 4 in section 4), and a helper that survived its thread's SIGTERM. What
it does not say: the thread of a failed motion may still have to clean up, and
its `_cancel_requested` and the reaping of a helper then concern the next run.
Each excuse in the invariants is needed: without any one of them TLC finds a
state, or a start, that violates the rest. (For `overlapped` in `RunsDoNotMeet`
that takes three runs: two that met, and one that starts after them.)

### AdapterRegistry and TpmAgent

`AdapterRegistry` has the steps of the commands `activate` and `run` between
which the files may change: `Discover` (validation of every manifest),
`ReadEnabled`, `Select`; and `Activate`. A manifest is what the code's tests
tell apart: its id and directory, its entry point, its job types and
capabilities, and the set of fields whose value is not accepted. `seen` has the
files and the registries that there were while each command worked, `known` the
registries since each invocation of the agent started: `RegistryIsFollowed` says
that what is started, or reported, is what the code would choose from one of
these, and excuses nothing.

`TpmAgent` has the invocations of `S`, those that systemd starts again and those
of `bind` and `stage`. `Start` is `collect`; `FindKey`, `OpenKeyFile`,
`WriteKeyFile`, `PersistKey`, `Publish` and `ReadKey` are the calls of `prepare`
that read or write a shared file; `WritePayload`, `Sign`, `Compose` and `Post`
those of a report; `Continue`, `NotDue` and `Poll` the loop. A key is a number,
a message what was put into it, and a signature the pair of the key and the
message that were in the files when it was made. `sig="$(sign)"` runs without
`set -e`, so that after a failure in it the report goes on with the old
signature or the empty file that `openssl` leaves (`SignFails`); without a file
`base64` fails, and the invocation ends. The platform is external: it knows the
robot by the last device report that verified.

### LocalPlanner and LidarNavigator

The planner is a record of the fields that outlive a call of `update`, `Update`
and `Fail` return the new one with the velocities of the tick. Distances are
whole steps and time is counted in ticks of the loop (50 ms in the code). Ranges
are what the planner's comparisons tell apart: front blocked, clear or near
(neither of the two), each side below the stop distance, below the
clearance that a bypass needs, or wide enough. The loop's sensors are arbitrary
at every tick, and may be stale; `room` bounds the corridor; the robot follows
the last accepted velocity by 0 to `MaxStep` steps in each control period.
`Move` is accepted, or refused at once, or given up after `MoveTimeout` periods
(the client's 3 s), in which the robot goes on with its last velocity or with
the new one if it took that after all; `period` is the time since the last
round, which the planner's stall clock gets, and `behind` the rounds that
`next_tick` has missed and that then follow without a pause. `lost` says that
the robot missed a velocity or went on during such a Move; four failures in a
row fail the planner. A call of the client that raises ends the loop
(`LoopRaises`).

## 3. What is checked

All runs are in `PROJECT.json`; every property of a passing run has a mutant of
the code's definitions that breaks it.

| Run | Instance | States | Shows |
|---|---|---|---|
| `lock` | 3 pids, fairness | 69 k | without contention one holder, the file is its own, two attempts suffice; every acquisition ends |
| `lock_race` | 2 pids | - | violated: two holders |
| `job` | 2 lines in the queue, fairness | 226 k | implements `JobLifecycle`; outcomes are real, the note about the safety cancel is true, no job is left behind, the end is recorded, the lock is released; the deadline and a signal each end the run |
| `outbox` | 3 events, 2 flushers, 3 flushes | 389 k | kept unless raced, in order, delivered means received, no needless duplicate |
| `outbox_race` | 2 events, 2 flushes | - | violated: an emitted event is lost |
| `admission` | runs of 2 keys under 2 pids that are reused without end, other programs, a cancel | 2.8 M | repeats have one of two causes; `state.json` is the running job's; cancel signals the run of the named job unless the pid changed hands after the check or went to another run while its record named it |
| `admission_repeat` | same | - | violated: a completed job is executed again |
| `bridge` | a linear motion, a motion of any kind, a stop; fairness | 535 k | linear motions exclude each other; an early STOP holds; STOP ends the motion it finds; a reservation has an owner; the state does not stay ACTION_RUNNING unless a request was refused |
| `bridge_stop_race` | 2 requests | - | violated: a motion moves the robot after STOP was answered |
| `stack` | 2 runs, 3 HTTP requests, a fault | 0.6 M | SUCCEEDED is true unless another run was in the Bridge or the Bridge was restarted; an adapter that is gone leaves no motion behind, with four excuses; when a run starts nothing of an earlier one can move the robot, with the excuses of section 2 |
| `agent` | 2 runtime commands, 2 manual invocations, a service started twice, a fault | 0.5 M | a report that arrives verifies unless signing met another signing or failed; reports name the bound key unless two prepares met or the identity changed; what is started was enabled while its command worked, what is reported since the invocation started |
| `navigator` | target 3, shift 2, bypass 1, two bypasses, Moves that time out, fairness | 347 k | stays in its corridor, no blind driving, exit 0 means arrived, a failed planner stays failed, navigation ends |

### Bounds

The theorems of section 5 remove these bounds for all properties but the
liveness ones. What they are large enough for:

* **Three processes** for the lock: a holder, one that judges its file and one
  that comes between. Contention needs two.
* **Two lines** in the response queue (`MaxResponses`): the late answer of one
  given-up request and the answer or garbage after it. An adapter at the bound
  waits; end of file is always let in. Three request ids suffice: a request that
  times out is followed by at most one more that may time out too.
* **Three events, three flushes**: two records that were read, one that came
  meanwhile; a flush inside a flush, and one after both.
* **Two pids, two keys**: the run that completes and one that looked before, then
  another job's under a reused pid, as often as one likes: pids are not used up.
* **Three requests** of the Bridge: two motions and the STOP between them, or a
  refused second. There is no symmetry, which is unsound for liveness.
* **The stack**: `MaxFaults` = 1, since each excuse is one fault, and it can come
  at any step; two runs, since a run meets the one before it; three HTTP requests:
  a start and a stop of the first run and the start of the second, or two starts
  and a stop. An adapter that would need a fourth waits. The first job is a
  DELIVERY, the second a DELIVERY or a STOP; with a PATROL as well in either place
  the properties hold too (3.1 and 1.8 million states). `View` leaves out the
  histories of `Go2Bridge` that no property of the run reads, and values that
  nobody reads before they are written again.
* **The agent**: two keys are made by two prepares that meet, a third by a change
  of identity; a service starts twice, each invocation makes two reports, there
  is one fault and one change of the installed adapters. `FewProcesses` keeps to
  two processes that work at a time: two commands, a command and an invocation,
  or two invocations (the adapters being fixed), three in all. Commands are
  symmetric, and so are the manual invocations. `View` leaves out the content of
  files that are written again before anybody reads them, and what a command that
  is over has read.
* **Navigator**: two bypasses fit before the target, so all states and the limit
  of attempts are reached; `BlockedFrames` = 2 and `ClearFrames` = 1 make the
  two counters distinguishable. `MaxMoveFailures` is the code's own 4.
  `MoveTimeout` = `StallTimeout` = 2, as both are 3 s in the code. `MaxBehind` =
  1: after a Move that timed out one round follows without a pause.

### Fairness

* `RuntimeLock`: weak fairness of each process inside `_acquire_lock`. The calls
  there do not block; the operating system runs the process.
* `JobRuntime`: weak fairness of the runtime's steps. Each of its waits has a
  timeout, so some step is always enabled. Nothing is assumed of the adapter, of
  the disk or of signals. `RunEnds` additionally assumes that the clock reaches
  the deadline once it is set, and only that.
* `Go2Bridge`: weak fairness of the Bridge's threads together: Python runs some
  thread as long as one can run. Each request has finitely many steps, so no
  more is needed. Its waits for helpers have timeouts. Nothing is assumed of
  helpers, and no request has to come.
* `Go2Stack` and `TpmAgent` state no fairness: their properties are invariants and
  action properties.
* `LidarNavigator`: weak fairness of `Tick`, `LeaveLoop` and `StopAndRelease`
  together: the process runs, one of them is its next step.
  Nothing is assumed of the sensors, the robot, signals or the deadline.

`CHECK_DEADLOCK FALSE` is set where the modelled thing ends: a process exits, the
bounded requests, events or runs are used up.

## 4. Where the code differs from what is said of it

1. **Lock** (`R:483`). `src/ADAPTER-CONTRACT.md:117`: "Core permits one active
   local job per SDK home." The lock file is empty between its creation and the
   write of the pid; a second process that reads it then takes it for stale,
   unlinks it and creates its own. The same happens when two processes judge the
   same stale file. Run `lock_race`.
2. **Outbox** (`R:368`). `src/README.md:78` calls the outbox durable. A flush
   replaces the file by what it read before it delivered; what `emit` appended
   in between is gone. Run `outbox_race`.
3. **Idempotency** (`R:549`). `src/tests/test_adapter_runtime.py:233`: a
   completed idempotent job is not executed twice. The check is made before the
   lock is taken and against the latest job only. Run `admission_repeat`.
4. **STOP** (`B:674`) answers "Task cancelled and robot stopped" although a
   motion that was accepted earlier can still start its helper: it has looked at
   `_cancel_requested` and not yet registered the process. Run
   `bridge_stop_race`.

The runs `stack` and `agent` pass, and what they excuse is worth reading:

* `src/ADAPTER-CONTRACT.md:115` asks an adapter to "stop active hardware when
  standard input closes or the process terminates". SIGTERM, which the runtime
  sends 2 s after it closed the pipe (`R:308`), ends the Go2 adapter without its
  finally block; and an adapter that missed the answer to its start has no
  `current_job` to stop (`G:171`). `LeftMovingIsExcused`.
* The adapter of a crashed run stops whatever the Bridge does when it gets to the
  end of its input (`G:79`), the next run's job as well; that run then reads
  ACTION_DONE and records SUCCEEDED. So does a run whose Bridge was restarted and
  is IDLE (`G:89`). `SucceededIsReal`, `RunsDoNotMeet`.
* The Bridge answers a cancellation with 200 whatever became of its STOP
  (`B:673`). The properties of `Go2Stack` speak of helpers, not of how the robot
  comes to rest when the stop helper itself fails.
* `sig="$(sign)"` (`S:281`) goes on when signing or verifying fails, and the
  report is posted with an old or an empty signature. `ReceivedVerifies`.
* Two invocations that prepare at once may both make a key (`S:226`); the robot
  is then bound with one and reports with the other. `ReportedKeyIsBound`.

Noted while modelling, and not stated as findings: a patrol reserves nothing, so
two patrols (or a patrol and a motion) that are checked before the first helper
is registered both run; the obstacle avoidance helper can survive its thread;
`fail()` before the planner's first fresh input is overwritten by the
initialisation, so a planner that never started is ended by the Bridge's timeout
only, not by its deadline; a refused request leaves `state` at ACTION_RUNNING;
REJECTED is a state of the contract (`src/ADAPTER-CONTRACT.md:94`) that only an
adapter can cause.

## 5. What is proved

Every safety invariant and action property that a passing run checks, and the
refinement of `JobLifecycle`, is a theorem: TLC shows it on the instance of
section 3, TLAPS for every value of the constants. Each module proves that its
inductive invariant (`IInv`, `AInv`, `SInv`) holds, with a step per action, and
takes the properties from it. The invariants were checked with TLC before they
were proved.

The assumptions, which TLC evaluates in the runs, are of four kinds:

* a value that stands for "nobody" or "nothing" is not one of the things it is
  beside: `NoOneAssumption`, `NoKeyAssumption`, `NoProcessAssumption`,
  `NamesAssumption`, `InvocationsAssumption`, `IdentitiesAssumption`;
* bounds are numbers: `MaxResponsesAssumption` (at least one line),
  `BoundsAssumption`, `AgentBoundsAssumption`, `RunsAssumption`;
* parameters have their types: `KindsAssumption`, `RequestsAssumption`,
  `TypesAssumption`, `ManifestsAssumption`; and `PostsAssumption`, that the
  Bridge takes any adapter's requests;
* two are about the robot. `PlannerAssumption`: the lateral shift is more than
  twice the tolerance (the navigator clamps it to 0.40 m at least, the tolerance
  is 0.08 m). `RobotAssumption`: within one control period the robot moves by no
  more than twice the tolerance and a cell (50 ms at 0.14 m/s are 7 mm), the
  corridor is wider than the shift by one period's movement, and a Move that is
  given up takes two control periods or more.

### RuntimeLockProofs: any process ids, crashes, reuses and starts

| Theorem | States |
|---|---|
| `TypeCorrect` | `Spec => []TypeOK` |
| `LockInvariant` | `Spec => []IInv` |
| `Exclusion` | `Spec => []ExclusiveUnlessContended` |
| `LockFileOwnership` | `Spec => []HolderOwnsLockFile` |
| `TwoRounds` | `Spec => []TwoAttemptsSuffice` |

None of the three properties is inductive. That a second process is refused
needs to know that the file it read is the holder's and is still there; that the
holder's file is there needs to know that no process is about to unlink it as
stale; and that needs to know what the process has read and when. `LockInv`
says, as long as there was no contention:

* `OneAcquirer`: at most one process is inside `_acquire_lock`;
* `WriterOwnsEmptyFile`: the one that has created the file and not written it
  finds it empty and its own;
* `HolderOwnsFile`: a holder's pid is in the file, and it is the file's creator;
* `ProbesTheHolder`: a process that probes an owner while somebody holds the
  lock probes that holder;
* `UnlinksNoHolder`: one that is about to unlink the file does so when nobody
  holds the lock;
* `SecondRoundCreates`: in the second attempt there is no file;
* `NobodyExhausted`.

`ForgottenMeansNobodyLeft` deals with the actions that reset `contended`: then
nobody else is inside, and the conjuncts hold of one process.

### JobRuntimeProofs: any number of lines that the adapter prints

| Theorem | States |
|---|---|
| `TypeCorrect` | `Spec => []TypeOK` |
| `RunInvariant` | `Spec => []IInv` |
| `ImplementsLifecycle` | `Spec => LifecycleSpec` |
| `OutcomesAreReal` | `Spec => []RecordedOutcomeIsReal` |
| `SafetyCancelsAreReal` | `Spec => []SafetyCancelIsTruthful` |
| `JobsAreNotLeftBehind` | `Spec => []NoJobLeftBehind` |
| `EndsAreRecorded` | `Spec => []EndedRunIsRecorded` |
| `EndsReleaseTheLock` | `Spec => []EndedRunReleasesLock` |

* `LifeInv` ties the record to the place in `run()`, and the last event to the
  record by the rank of a state in the life cycle: an event is never ahead of the
  record and is behind it while one is being emitted. The step theorem of the
  refinement follows: a `WriteState` or an `EmitEvent` is a step of
  `JobLifecycle`, everything else a stutter.
* `PipeInv`: at most one request is out, or one reply to it. A request that timed
  out is followed only by the safety cancellation, whose line comes last. That a
  response answers the request it is taken for is a consequence.
* `StartInv`, `AnswerInv`, `OutcomeInv` say what a response in the pipe tells of
  the robot: a terminal state in an accepted answer is the state the job ended
  in, and the answer to a call that cancels stands beside that call in `cancels`.
  `EndInv` is what remains of this when the answer is taken and written down: the
  state is the robot's and no line on its way can change it, and a failure has
  asked for its safety cancellation first. `RecordedOutcomeIsReal` and
  `SafetyCancelIsTruthful` follow.
* `LeaveInv`: whoever leaves has `Settled`, which is about requests that are
  still to be read: the adapter is lost, the job has ended, a `job.cancel` is in
  front of the end of its input, or a cancellation was refused.
* `LedgerInv` and `ReleaseInv`: the ends that are recorded and the ways through
  the finally block that release the lock.

### EventOutboxProofs: any number of events, flushing processes and flushes

| Theorem | States |
|---|---|
| `OutboxInvariant` | `Spec => []IInv` |
| `FileStaysInOrder` | `Spec => []FileInOrder` |
| `MarksAreTrue` | `Spec => []DeliveredIsTrue` |
| `OnlyRacesLose` | `Spec => []KeptUnlessRaced` |
| `DuplicatesAreExcused` | `Spec => []NoNeedlessDuplicate` |

The file is replaced by what a flush has in memory, so each statement about the
file must hold of all copies: `OrderInv` (both rise, and are older than the event
that is being emitted) and `MarkInv` (both are marked truthfully). The two
statements that races can break hold of the only copy there is without a race
(`KeptInv`): it tells the events that were emitted, one flush is inside, and an
append goes to the file that has the name. `OnceInv` adds that what is not
marked has not been received.

### JobAdmissionProofs: any set of processes and keys

| Theorem | States |
|---|---|
| `UsesTheLock` | `ASpec => Spec` (of `RuntimeLock`) |
| `AdmissionInvariant` | `ASpec => []AInv` |
| `StateFileIsTrue` | `ASpec => []StateFileIsTheJob` |
| `OnlyTheNamedJob` | `ASpec => SignalsNamedJob` |
| `RepetitionsAreExcused` | `ASpec => RepeatsAreExcused` |

`UsesTheLock` shows that the composition takes no step that `RuntimeLock` does
not allow, so that every theorem on the lock holds of it; `StateFileIsTheJob`
needs `Exclusion`. `NameInv` follows a pid from `state.json` through the steps
of `cancel`, in both of which it may be reused meanwhile: the process that has
it is of that key unless it has `inherited` the pid, and a `verified` one is
there. `RepeatInv` relates the histories to the file: a completed key that was
not superseded is the one in the file, and no run that is alive and not stale
has it.

### Go2BridgeProofs: any set of requests of any kinds

| Theorem | States |
|---|---|
| `BridgeInvariant` | `Spec => []IInv` |
| `TypeCorrect` | `Spec => []TypeOK` |
| `LinearMotionsExclude` | `Spec => []OneLinearMotion` |
| `ReservationIsOwned` | `Spec => []ReservationHasOwner` |
| `EarlyStopsHold` | `Spec => []EarlyStopHolds` |
| `RegisteredMotionsStop` | `Spec => []StopsRegisteredMotion` |

`ThreadInv` and `HelperInv` confine a thread to the code of what was asked, and a
running helper to the thread that waits for it. `HolderInv`: the reservation
belongs to exactly one linear motion, from `_linear_motion_pending = True` to
its finally block or its error. `EarlyInv`: while the cancellation stands, a
motion that was told to stop early has not started its helper. For
`StopsRegisteredMotion` the STOP must find what was registered when it came:
`NotedInv`, `ActiveInv` and `FoundInv` (if no patrol and no turn was asked for,
which nothing excludes) say that the motion that waits is the one in
`_active_motion_process`, and that a STOP that goes on has reaped it.

### Go2StackProofs: any number of runs, requests and faults, any types of job

| Theorem | States |
|---|---|
| `StackInvariant` | `SSpec => []SInv` |
| `StackTypesCorrect` | `SSpec => []STypeOK` |
| `RunsStayApart` | `SSpec => RunsDoNotMeet` |
| `SuccessIsReal` | `SSpec => []SucceededIsReal` |
| `LeftMovingHasItsReason` | `SSpec => []LeftMovingIsExcused` |
| `BridgeHoldsInStack` | the four properties of the Bridge, under the adapters' requests and its restart |

The invariant goes through the three layers.

* The Bridge: `IInv` of `Go2BridgeProofs`, which every step of an adapter keeps.
  `Restart` is not an action of `Go2Bridge`; that it keeps `IInv` is a lemma of
  its own.
* Who is there: `OwnerInv`, `RunInv` (a run starts when those before it are
  over), `PostedInv` (a request that is not answered is waited for, unless an
  answer was lost or the adapter was terminated). Two runs in the Bridge have
  therefore met (`SoloInv`), and what remains is about a run that met no other.
  `RunsStayApart` joins `PostedInv` (no request is left), `JobInv` (a run whose
  motion did not end asked for a stop) and `StopInv` (the stop reaped what it
  found) in the state in which another run starts.
* What it asked: `LinesInv` (start, then polls, then cancellations; no poll
  after a cancellation), `WaitInv`, `StartInv` (one motion). This keeps a run
  from polling a state that its own STOP has set.
* What the Bridge's state means: `AcceptedInv` and `StateInv`. While a run is
  alone and has asked for no stop, its motion makes the state ACTION_RUNNING from
  the first check on, and ACTION_DONE only with a helper that did its work.
  `JobInv` carries this to what the adapter believes and to the outcome.
* What its stops find: `StopInv`, the counterpart of `FoundInv` for a run that
  is alone, for patrols too.

### TpmAgentProofs: any manifests, commands, invocations and bounds

| Theorem | States |
|---|---|
| `AgentInvariant` | `TSpec => []IInv` |
| `TypeCorrect` | `TSpec => []AgentTypeOK` |
| `ArrivedReportsVerify` | `TSpec => []ReceivedVerifies` |
| `KeyStaysBound` | `TSpec => []ReportedKeyIsBound` |
| `RegistryFollowed` | `TSpec => []RegistryIsFollowed` |

An invocation whose `prepare` met no other is alone with the keys until it has
read its fingerprint (`AloneInv`), and by then the key of its mode is `Settled`:
it exists, and nobody is about to make another (`KeyInv`). A settled key stays,
so that all reports of such invocations name it, restarts included
(`MessageInv`). One whose signing met no other is alone with payload and
signature (`UndisturbedInv`, `SignInv`). What a command has read it has
seen since it began, and what it found and chose comes from such files and such a
registry (`ChoiceInv`; the lemma `Sees` is that what was seen stays seen); an
invocation reports the registry it read, which it has known (`ToldInv`).
`FirstIsLeast` (some manifest of a non-empty set has the least id) comes from
the well-foundedness of the natural numbers, as does `LeastRequest` in
`Go2StackProofs`.

### LidarNavigatorProofs: any distances, frame counts, speeds and ranges

| Theorem | States |
|---|---|
| `NavigatorInvariant` | `Spec => []IInv` |
| `UpdateOutcome` | what a call of `update()` does, through all states it may run through |
| `TypeCorrect` | `Spec => []TypeOK` |
| `BypassStaysInCorridor` | `Spec => []StaysInCorridor` |
| `ForwardIsNotBlind` | `Spec => []BlindForwardBounded` |
| `ExitCodeIsTrue` | `Spec => []ArrivedMeansArrived` |
| `FailureIsFinal` | `Spec => FailedStaysFailed` |

`update()` falls through several states in one call, so the operators are taken
from the last to the first: each takes a `Consistent` planner to an `Outcome`,
which says that the planner is consistent again, that it goes sideways only
where one control period cannot carry the robot out of the corridor (`Headed`),
that it counts the frames in which it goes on towards an obstacle, and completes
at the target only. The loop adds that the robot has the velocity that was sent
last unless a Move was lost, and that it stands when the next round comes late
(`CourseInv`; a Move that times out while the robot goes is a lost one), and
what a failed planner can no longer do (`FailedInv`).

## 6. What is only model-checked

* Liveness: `AcquisitionEnds`, `RunEnds`, `CancelEndsRun`, `RunningEnds` and
  `NavigationEnds`. TLAPS has no rules for fairness and `ENABLED`.
* The violations of section 4, which are counterexamples, and that the excuses
  in the invariants are needed (section 2, `Go2Stack`).

## 7. What is not modelled

* Of the adapter registry: `list`, `validate`, `capabilities`, `probe` and
  `snapshot`, which change no state; the spelling of names; a torn
  `enabled-adapters.json` (it is replaced in one call).
* Of the Go2 adapter: `telemetry.get`, `incidents.get`, `capabilities.get`, and
  the refusal of a second job, which no run asks for.
* Of a run in `Go2Stack`: the failures of its disk, which `JobRuntime` has.
* Of the Bridge: mock mode, named actions, the SDK client, the status fields, the
  camera and the reverse proxy.
* Of the navigator: `--probe`, the DDS channels, the retry of busy calls, the
  real geometry (a LiDAR frame is three facts here), Moves that are accepted after
  more than a control period, and more rounds to be made up for than `MaxBehind`.
* Helpers other than the navigator: sequences of vendor SDK calls, seen as
  processes that run and end.
* Of the agent: the data of the device, the file `robot-id`, `doctor`, which only
  prints, the contents of a challenge, and the limit of systemd on restarts.
* The installers: sequential shell with package managers and systemd, which keep
  little state of their own.

## 8. Plan

1. *(done)* `RuntimeLock` with proofs; `JobLifecycle`, `JobRuntime`;
   `EventOutbox`; `JobAdmission`; `Go2Bridge`; `LocalPlanner`, `LidarNavigator`.
2. *(done)* `Go2Stack`, `AdapterRegistry`, `TpmAgent`.
3. *(done)* Proofs of the safety invariants, the action properties and the
   refinement that the passing runs check.
4. What proofs can still add: an abstract specification of the robot (whose
   motion it executes, and when it may stop) that `Go2Stack` implements without
   contention; what `JobRuntime` promises of its requests as a specification
   that the runs of `Go2Stack` implement; shorter proofs of the longest steps of
   `Go2StackProofs`.
