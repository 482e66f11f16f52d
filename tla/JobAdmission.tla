---------------------------- MODULE JobAdmission ----------------------------
(***************************************************************************)
(* Several `run` processes and a `cancel` process in one SDK home: the     *)
(* idempotency check on state.json, then RuntimeLock, then the job (the    *)
(* run of JobRuntime in four steps), and cancel_active_job.                *)
(*                                                                         *)
(* A run looks at state.json before it takes the lock, as one step with    *)
(* RuntimeLock's Start.  A process runs one job; when it is gone its pid   *)
(* goes to another run, of any job, or to an unrelated program.            *)
(***************************************************************************)
EXTENDS RuntimeLock, FiniteSets

CONSTANTS Keys,     \* idempotency keys; a key has one job id
          NoKey,    \* no state.json, no job
          MaxAlive  \* bound on the runs alive at a time

ASSUME NoKeyAssumption == NoKey \notin Keys

VARIABLES
  key,        \* the job of each run
  phase,      \* "waiting", "recorded" (RECEIVED), "moving" (job.start), "ended"
  stateFile,  \* state.json: its key, its pid, and whether its state is active
  cpc,        \* the cancel process: "idle", "lock", "verify", "kill"
  ckey, cpid, \* its --job-id, and the pid it read
  completed,  \* history: keys whose job was started and recorded terminal
  repeated,   \* history: keys whose job was started after that
  superseded, \* history: completed keys whose record was replaced, by another
              \* key's or by a run that had looked before it was there
  stale,      \* history: runs for which a terminal state was recorded after
              \* they looked at state.json
  inherited,  \* history: runs that got the pid another run had left in an
              \* active state.json, or in the hands of `cancel`
  verified    \* history: the process `cancel` has verified is still there

runVars     == <<key, phase>>
cancelVars  == <<cpc, ckey, cpid>>
jobHistory  == <<completed, repeated, superseded, stale>>
historyVars == <<jobHistory, inherited, verified>>
admissionVars == <<runVars, stateFile, cancelVars, historyVars>>

AInit ==
  /\ Init
  /\ key = [p \in Runners |-> NoKey]
  /\ phase = [p \in Runners |-> "waiting"]
  /\ stateFile = [key |-> NoKey, pid |-> NoOne, active |-> FALSE]
  /\ cpc = "idle" /\ ckey = NoKey /\ cpid = NoOne
  /\ completed = {} /\ repeated = {} /\ superseded = {} /\ stale = {}
  /\ inherited = {} /\ verified = FALSE

\* The runs whose processes are there.
Present == {p \in Runners : pc[p] \notin Gone}

\* Another run starts, as process p and for key k.
NewRun(p, k) ==
  /\ Cardinality(Present) < MaxAlive
  /\ Start(p)
  /\ key' = [key EXCEPT ![p] = k]
  /\ inherited' = inherited \cup
       (IF cpid = p \/ (stateFile.active /\ stateFile.pid = p) THEN {p} ELSE {})
  /\ UNCHANGED <<phase, stateFile, cancelVars, jobHistory, verified>>

\* Mutant: state.json is not looked at.
SubmitUnchecked(p, k) == NewRun(p, k)

\* run() goes past its idempotency check.  (A run for the key of a terminal
\* record returns that record and does nothing else.)
Submit(p, k) == ~(stateFile.key = k /\ ~stateFile.active) /\ NewRun(p, k)

\* The steps inside _acquire_lock and _release_lock.
LockStep(p) == (Acquire(p) \/ ReleaseOwn(p)) /\ UNCHANGED admissionVars

\* The process that cancel has verified is not the one with that pid any more.
Leaves(p) == verified' = (verified /\ cpid # p)

\* What the process had in memory is gone.
Forgotten(p) == /\ key' = [key EXCEPT ![p] = NoKey]
                /\ phase' = [phase EXCEPT ![p] = "waiting"]
                /\ stale' = stale \ {p} /\ inherited' = inherited \ {p}
                /\ Leaves(p)

\* The process ends: after its release, without the lock, by a crash, or by an
\* exception of close() that leaves the finally block before the release.
Exit(p) ==
  /\ ReleaseNothing(p) \/ ReleaseUnlink(p) \/ ExitFailed(p) \/ Crash(p)
  /\ Forgotten(p)
  /\ UNCHANGED <<stateFile, cancelVars, completed, repeated, superseded>>

\* An unrelated program gets the pid of a process that is gone, and ends.
OtherProgram(p) ==
  /\ \/ ForeignStart(p) /\ UNCHANGED verified
     \/ ForeignExit(p) /\ Leaves(p)
  /\ UNCHANGED <<runVars, stateFile, cancelVars, jobHistory, inherited>>

\* The record that p replaces was of a completed job, not of its own.
Supersede(p) ==
  superseded \cup (IF stateFile.key # key[p] \/ p \in stale
                     THEN {stateFile.key} \cap completed ELSE {})

\* The first transition.  The pid in state.json is now its own.
RecordReceived(p) ==
  /\ pc[p] = "held" /\ phase[p] = "waiting"
  /\ phase' = [phase EXCEPT ![p] = "recorded"]
  /\ stateFile' = [key |-> key[p], pid |-> p, active |-> TRUE]
  /\ superseded' = Supersede(p)
  /\ inherited' = IF cpid = p THEN inherited ELSE inherited \ {p}
  /\ UNCHANGED <<key, cancelVars, completed, repeated, stale, verified, vars>>

\* job.start reaches the adapter.
StartJob(p) ==
  /\ pc[p] = "held" /\ phase[p] = "recorded"
  /\ phase' = [phase EXCEPT ![p] = "moving"]
  /\ repeated' = repeated \cup ({key[p]} \cap completed)
  /\ UNCHANGED <<key, stateFile, cancelVars, completed, superseded, stale, inherited, verified,
                 vars>>

\* The job ends (or never started) and its terminal state is recorded.
RecordTerminal(p) ==
  /\ pc[p] = "held" /\ phase[p] \in {"recorded", "moving"}
  /\ phase' = [phase EXCEPT ![p] = "ended"]
  /\ stateFile' = [key |-> key[p], pid |-> p, active |-> FALSE]
  /\ completed' = completed \cup (IF phase[p] = "moving" THEN {key[p]} ELSE {})
  /\ superseded' = Supersede(p) \ {key[p]}
  /\ stale' = stale \cup (Present \ {p})
  /\ UNCHANGED <<key, cancelVars, repeated, inherited, verified, vars>>

\* Or it cannot be recorded: the disk failed.
EndUnrecorded(p) ==
  /\ pc[p] = "held" /\ phase[p] # "ended"
  /\ phase' = [phase EXCEPT ![p] = "ended"]
  /\ UNCHANGED <<key, stateFile, cancelVars, historyVars, vars>>

\* The finally block.
EndRun(p) == phase[p] = "ended" /\ FinishJob(p) /\ UNCHANGED admissionVars

(***************************************************************************)
(* cancel_active_job                                                       *)
(***************************************************************************)

\* state.json is the active state of that job.
CancelReadState(k) ==
  /\ cpc = "idle"
  /\ stateFile.key = k /\ stateFile.active
  /\ cpc' = "lock" /\ ckey' = k /\ cpid' = stateFile.pid
  /\ UNCHANGED <<runVars, stateFile, historyVars, vars>>

CancelGoto(from, to) ==
  /\ cpc = from /\ cpc' = to
  /\ UNCHANGED <<runVars, ckey, cpid, stateFile, jobHistory, inherited, vars>>

CancelEnds == cpc' = "idle" /\ ckey' = NoKey /\ cpid' = NoOne /\ verified' = FALSE

CancelFails(at) ==
  /\ cpc = at /\ CancelEnds
  /\ UNCHANGED <<runVars, stateFile, jobHistory, inherited, vars>>

\* The lock is that process's.
CancelReadLock ==
  /\ CancelGoto("lock", "verify") /\ UNCHANGED verified
  /\ lockFile.content = cpid

\* Mutant: any process with that pid will do.
CancelVerifyAlive ==
  /\ CancelGoto("verify", "kill") /\ verified' = TRUE
  /\ pc[cpid] # "idle"

\* verify_runtime_process: /proc/<pid>/cmdline is that of a `run`, of any job.
CancelVerify ==
  /\ CancelGoto("verify", "kill") /\ verified' = TRUE
  /\ pc[cpid] \notin Gone

\* One of the checks fails, or os.kill does: the process is gone, or its pid
\* is now another user's.
CancelRefused ==
  \/ CancelFails("lock") /\ lockFile.content # cpid
  \/ CancelFails("verify") /\ pc[cpid] \in Gone
  \/ CancelFails("kill") /\ pc[cpid] \in Gone

\* SIGTERM while the handlers are installed sets cancel_requested: the job
\* ends, in one of the ways it may end anyway.  So may an unrelated program.
CancelSignals ==
  /\ cpc = "kill" /\ pc[cpid] \in {"held", "foreign"} /\ CancelEnds
  /\ UNCHANGED <<runVars, stateFile, jobHistory, inherited, vars>>

\* The signal handlers are those of run() while it has a job.
Handling(p) == pc[p] = "held" /\ phase[p] \in {"recorded", "moving"}

\* Before they are installed and after they were restored SIGTERM kills the
\* process.
CancelKills ==
  /\ cpc = "kill" /\ pc[cpid] \notin Gone /\ ~Handling(cpid)
  /\ Crash(cpid) \/ ExitFailed(cpid)
  /\ Forgotten(cpid)
  /\ CancelEnds
  /\ UNCHANGED <<stateFile, completed, repeated, superseded>>

-----------------------------------------------------------------------------

Run(p) == \/ \E k \in Keys : Submit(p, k)
          \/ LockStep(p) \/ RecordReceived(p) \/ StartJob(p) \/ RecordTerminal(p)
          \/ EndUnrecorded(p) \/ EndRun(p) \/ Exit(p)

Cancel == \/ \E k \in Keys : CancelReadState(k)
          \/ CancelReadLock \/ CancelVerify \/ CancelRefused \/ CancelSignals \/ CancelKills

ANext == Cancel \/ \E p \in Runners : Run(p) \/ OtherProgram(p)

ASpec == AInit /\ [][ANext]_<<vars, admissionVars>>

-----------------------------------------------------------------------------
(***************************************************************************)
(* Properties                                                              *)
(***************************************************************************)

\* Running: between the first transition and the end of the job.
InJob == {p \in Runners : pc[p] = "held" /\ phase[p] \in {"recorded", "moving"}}

\* What tests/test_adapter_runtime.py says: a completed idempotent job is not
\* executed twice.  The check before the lock, and a state.json that keeps the
\* latest job only, break it.
NotExecutedTwice == repeated = {}

\* What the code gives: a completed job is executed again only by a run that
\* looked at state.json before it completed, or after its record was replaced.
RepeatsAreExcused ==
  [][ \A k \in repeated' \ repeated :
        \/ k \in superseded
        \/ \E p \in stale : key[p] = k /\ phase[p] # phase'[p] ]_<<vars, admissionVars>>

\* Without contention on the lock, state.json is the running job's: what
\* `status` shows and `cancel` checks is the job the robot executes.
StateFileIsTheJob ==
  ~contended => \A p \in InJob : stateFile = [key |-> key[p], pid |-> p, active |-> TRUE]

\* `cancel --job-id` signals the run of that job, wherever the processes are
\* between its reads, its checks and os.kill and although pids are reused: the
\* signal goes elsewhere only if the pid changed hands after the process was
\* verified, or to another run that got the pid its record still names.
SignalsNamedJob ==
  [][ cpc = "kill" /\ cpc' = "idle" /\ verified
        => key[cpid] = ckey \/ cpid \in inherited ]_<<vars, admissionVars>>
=============================================================================
