-------------------------- MODULE JobRuntimeProofs --------------------------
(***************************************************************************)
(* Proofs about JobRuntime, for any bound on the response queue and so for *)
(* any number of lines an adapter prints: its properties, and that it      *)
(* implements JobLifecycle.                                                *)
(*                                                                         *)
(* None of the properties is inductive.  What run() may record next rests  *)
(* on where it is (LifeInv); that a response answers the request awaited,  *)
(* on what may still be in the pipes (PipeInv); that an outcome is real,   *)
(* on what the responses in the pipes say of the robot (AnswerInv) and on  *)
(* no request being in the pipes once the end was taken from one (EndInv); *)
(* that no job is left behind, on the cancellations sent (LeaveInv).       *)
(***************************************************************************)
EXTENDS JobRuntime, SequenceTheorems, TLAPS

Recording  == pc \in {"write", "emit"}
Requesting == pc \in {"send", "await"}
Leaving    == pc \in {"close", "reap", "streams", "restore", "release", "exited"}
Early      == {"RECEIVED", "VALIDATED", "STARTING"}

(***************************************************************************)
(* The record and the events                                               *)
(***************************************************************************)

\* The place of a state in the life cycle: a later one has a greater rank.
Rank(s) == CASE s = NoState      -> 0
             [] s = "RECEIVED"   -> 1
             [] s = "VALIDATED"  -> 2
             [] s = "STARTING"   -> 3
             [] s = "RUNNING"    -> 4
             [] s = "CANCELLING" -> 5
             [] OTHER            -> 6

\* What is in state.json when run() is at pc, and last_state with it.
RecordAt(s, l) == record = s /\ lastState = l

RecordInv ==
  /\ pc \in {"idle", "install"} => RecordAt(NoState, "RECEIVED")
  /\ pc = "select" => RecordAt("RECEIVED", "RECEIVED")
  /\ pc \in {"loop", "poll"} => RecordAt("RUNNING", "RUNNING")
  /\ Requesting => CASE call = "capabilities" -> RecordAt("VALIDATED", "VALIDATED")
                     [] call = "start"        -> RecordAt("STARTING", "STARTING")
                     [] call = "cancel"       -> RecordAt("CANCELLING", "RUNNING")
                     [] call = "safetyCancel" -> record \notin Terminal /\ lastState \notin Terminal
                     [] OTHER                 -> RecordAt("RUNNING", "RUNNING")
  /\ pc = "except" /\ lastState \notin Terminal => record \notin Terminal

\* What _transition is about to record or has just recorded.
WritingInv ==
  /\ pc = "write" => record \notin Terminal /\ writing \in Lifecycle!Successors[record]
  /\ pc = "emit" => record = writing /\ writing # NoState
  /\ Recording => \/ writing = lastState /\ writing # "CANCELLING"
                  \/ writing = "CANCELLING" /\ lastState = "RUNNING"
                  \/ RecordingFailure

\* The events are never ahead of the record.
EventsInv ==
  events # <<>> => /\ Rank(Last(events)) <= Rank(record)
                   /\ pc = "emit" => Rank(Last(events)) < Rank(record)

LifeInv == RecordInv /\ WritingInv /\ EventsInv

\* Without a disk failure the except block is reached by unfinished jobs only.
LedgerInv ==
  ~faults => /\ pc = "except" => lastState \notin Terminal
             /\ Leaving => record \in Terminal /\ events # <<>> /\ Last(events) = record

\* The two ways out of the finally block that skip its end.
ReleaseInv ==
  /\ pc = "release" => ~handlers
  /\ pc = "exited" /\ (locked \/ handlers) => pipeBroken \/ adapter = "stuck"

(***************************************************************************)
(* The pipes                                                               *)
(***************************************************************************)

IsReply(i) == responses[i].what = "reply"

\* Nothing is in the pipes but what no request() takes.
Quiescent == requests = <<>> /\ \A i \in DOMAIN responses : ~IsReply(i)

\* At most one request is in the pipes, or the reply to it: the last one.
OneOutstanding ==
  /\ Len(requests) <= 1
  /\ \A i \in DOMAIN requests : requests[i].id = callId
  /\ \A i \in DOMAIN responses : IsReply(i) => responses[i].id = callId /\ requests = <<>>
  /\ \A i, j \in DOMAIN responses : IsReply(i) /\ IsReply(j) => i = j

PipeInv ==
  /\ \A i \in DOMAIN responses : ~IsReply(i) => responses[i].id \notin Ids
  /\ \/ pc \in {"idle", "install", "select", "loop", "poll"}
     \/ pc = "send" /\ call # "safetyCancel"
     \/ Recording /\ writing \notin Terminal
     => Quiescent
  /\ \/ pc = "send"
     \/ pc = "await" /\ call # "safetyCancel"
     \/ pc = "except" /\ lastState \notin Terminal
     => OneOutstanding

(***************************************************************************)
(* The robot                                                               *)
(***************************************************************************)

IsStart(i) == requests[i].call = "start"

NoStart == \A i \in DOMAIN requests : ~IsStart(i)

\* job.start is sent once, in front of everything else.
StartInv ==
  /\ \A i \in DOMAIN requests : IsStart(i) => i = 1 /\ job = NoState
  /\ ~startAttempted \/ (pc = "send" /\ call = "start") => job = NoState /\ NoStart
  /\ pc = "send" /\ call = "start" => startAttempted
  /\ \/ pc \in {"idle", "install", "select"}
     \/ Requesting /\ call = "capabilities"
     \/ Recording /\ writing \in Early
     => ~startAttempted

\* The states of a job an adapter may name, or none.
JobReports == Terminal \cup {"RUNNING", NoState, Bogus}

\* The end of a job whose cancellation is answered with state s.
EndOf(s) == IF s \in Terminal THEN s ELSE "CANCELLED"

\* What an accepted response says of the robot.
Says(r) ==
  r.what = "reply" /\ r.id = callId /\ r.ok =>
    /\ call # "capabilities" => r.state \in JobReports
    /\ call = "start" => job # NoState
    /\ call \in {"start", "status"} /\ r.state \in Terminal => job = r.state
    /\ call = "cancel" => job = EndOf(r.state)
    /\ call = "timeoutCancel" => job \in Terminal
    /\ call = "safetyCancel" => <<"honoured", "safetyCancel">> \in cancels

AnswerInv ==
  pc = "await" => /\ \A i \in DOMAIN responses : Says(responses[i])
                  /\ \A i \in DOMAIN requests : requests[i].id = callId
                                                  => requests[i].call = call

\* The robot has a job, and the safety cancellation was answered.
OutcomeInv ==
  /\ \/ pc \in {"loop", "poll"}
     \/ Requesting /\ call \in {"status", "cancel", "timeoutCancel"}
     \/ Recording /\ writing \in {"RUNNING", "CANCELLING"}
     => job # NoState
  /\ safetyCancel = "succeeded" => <<"honoured", "safetyCancel">> \in cancels

\* The ends an adapter reports.
Reported == {"SUCCEEDED", "FAILED", "CANCELLED"}

\* Whatever was asked for is in the history.
Asked(c) == <<"asked", c>> \in cancels

\* The outcome of the run: the last state taken from the adapter is the robot's
\* and nothing in the pipes can change it, a failure has asked for the safety
\* cancellation first, and a time-out for the job's.
EndInv ==
  /\ lastState \in Reported => job = lastState /\ requests = <<>>
  /\ lastState = "TIMED_OUT" => expired /\ Asked("timeoutCancel")
  /\ Requesting /\ call = "timeoutCancel" => expired
  /\ pc = "await" /\ call \in CancelCalls => Asked(call)
  /\ record \in Terminal => \/ record = lastState
                            \/ record = "FAILED" /\ lastState \notin Terminal
  /\ \/ Recording /\ RecordingFailure /\ startAttempted
     \/ record = "FAILED" /\ lastState \notin Terminal /\ startAttempted
     => Asked("safetyCancel")

\* Every request behind the first goes to a process that was started.
BirthInv ==
  adapter = "unborn" => /\ ~startAttempted /\ pc \notin {"await", "loop", "poll"}
                        /\ Requesting => call = "capabilities"
                        /\ Recording => writing \notin {"STARTING", "RUNNING", "CANCELLING"}

RobotInv == StartInv /\ AnswerInv /\ OutcomeInv /\ EndInv /\ BirthInv

\* The adapter is gone for another reason than its input's end, or the job has
\* ended, or it will read a job.cancel after everything else, or has refused one.
Settled ==
  \/ adapter \in {"unborn", "dead", "killed", "stuck"}
  \/ job # "RUNNING" /\ NoStart
  \/ \E i \in DOMAIN requests : requests[i].call \in CancelCalls
  \/ \E c \in CancelCalls : <<"refused", c>> \in cancels

LeaveInv ==
  /\ pc \notin {"reap", "streams", "restore", "release", "exited", "crashed"} => stdinOpen
  /\ adapter = "exited" => ~stdinOpen /\ requests = <<>>
  /\ \/ Leaving
     \/ Recording /\ writing \in Terminal
     \/ pc = "except" /\ lastState \in Terminal
     \/ pc = "await" /\ call \in CancelCalls
     => Settled

(***************************************************************************)
(* Types                                                                   *)
(***************************************************************************)

JobStates == {NoState, "RUNNING", "SUCCEEDED", "FAILED", "CANCELLED"}

LineStates == JobReports \cup {"complete", "missing"}

RequestLines == [id : Ids, call : Calls]

ControlOK ==
  /\ pc \in {"idle", "install", "select", "write", "emit", "send", "await", "loop", "poll",
             "except", "close", "reap", "streams", "restore", "release", "exited", "crashed"}
  /\ call \in Calls
  /\ writing \in States /\ lastState \in States \cup {Bogus}
  /\ startAttempted \in BOOLEAN /\ safetyCancel \in {"no", "succeeded", "failed"}

SwitchesOK ==
  /\ cancelRequested \in BOOLEAN /\ handlers \in BOOLEAN /\ expired \in BOOLEAN
  /\ locked \in BOOLEAN /\ faults \in BOOLEAN
  /\ pipeBroken \in BOOLEAN /\ stdinOpen \in BOOLEAN

RobotOK ==
  /\ adapter \in {"unborn", "up", "exited", "dead", "killed", "stuck"}
  /\ job \in JobStates
  /\ cancels \subseteq Fates

DiskOK == record \in States /\ events \in Seq(States)

QueuesOK == callId \in Ids /\ requests \in Seq(RequestLines) /\ responses \in Seq(Lines)

IInv == TypeOK /\ LifeInv /\ LedgerInv /\ ReleaseInv /\ PipeInv /\ RobotInv /\ LeaveInv


-----------------------------------------------------------------------------

LEMMA TypeParts == TypeOK <=> ControlOK /\ SwitchesOK /\ RobotOK /\ DiskOK /\ QueuesOK
BY DEF TypeOK, ControlOK, SwitchesOK, RobotOK, DiskOK, QueuesOK, RequestLines, JobStates

\* With one request outstanding there is a fresh id.
LEMMA FreshIdIsFresh ==
  ASSUME TypeOK, PipeInv, OneOutstanding
  PROVE  /\ FreshId \in Ids
         /\ \A i \in DOMAIN requests : requests[i].id # FreshId
         /\ \A i \in DOMAIN responses : responses[i].id # FreshId
<1>1. \A i \in InFlight : i = callId \/ i \notin Ids
  BY DEF InFlight, OneOutstanding, PipeInv
<1>2. callId \in Ids
  BY DEF TypeOK
<1>3. \E i \in Ids : i # callId
  BY <1>2 DEF Ids
<1>4. \E i \in Ids : i \notin InFlight
  BY <1>1, <1>3
<1>5. FreshId \in Ids /\ FreshId \notin InFlight
  BY <1>4, Zenon DEF FreshId
<1> QED
  BY <1>5 DEF InFlight

\* What an answer says of the job, that was in state j, and does to it.
AnswerIsTrue(type, j, a) ==
  /\ a.job \in JobStates /\ a.ok \in BOOLEAN /\ a.state \in LineStates
  /\ type # "capabilities" => a.state \in JobReports
  /\ type \in {"capabilities", "status"} => a.job = j
  /\ type = "start" /\ a.ok => a.job # NoState
  /\ type \in {"start", "status"} /\ a.ok /\ a.state \in Terminal => a.job = a.state
  /\ type = "cancel" /\ a.ok /\ j # NoState => a.job = EndOf(a.state)
  /\ type = "cancel" => a.job = j \/ (j # NoState /\ a.job = "CANCELLED")

\* The answers of an adapter that follows the contract are true.
LEMMA AnswersAreTrue ==
  ASSUME NEW j \in JobStates, NEW type \in {"capabilities", "start", "status", "cancel"},
         NEW a \in Answers(type, j)
  PROVE  AnswerIsTrue(type, j, a)
<1> USE DEF Terminal, NoState, Bogus, JobStates, JobReports, LineStates, EndOf
<1>1. CASE type = "capabilities"
  <2> USE <1>1 DEF AnswerIsTrue, Answer
  <2>1. ASSUME NEW s \in {"complete", "missing"}, a = Answer(j, TRUE, s)
        PROVE  AnswerIsTrue(type, j, a)
    BY <2>1
  <2>2. ASSUME a = Answer(j, FALSE, NoState) PROVE AnswerIsTrue(type, j, a)
    BY <2>2
  <2>3. a \in {Answer(j, TRUE, "complete"), Answer(j, TRUE, "missing"), Answer(j, FALSE, NoState)}
    BY DEF Answers
  <2> HIDE DEF AnswerIsTrue, Answer
  <2> QED
    BY <2>1, <2>2, <2>3, Zenon
<1>2. CASE type = "start"
  <2> USE <1>2 DEF AnswerIsTrue, Answer
  <2>1. ASSUME NEW s \in {"RUNNING", NoState, Bogus}, a = Answer("RUNNING", TRUE, s)
        PROVE  AnswerIsTrue(type, j, a)
    BY <2>1
  <2>2. ASSUME NEW s \in {"SUCCEEDED", "FAILED"}, a = Answer(s, TRUE, s)
        PROVE  AnswerIsTrue(type, j, a)
    BY <2>2
  <2>3. ASSUME NEW s \in {j, "RUNNING"}, a = Answer(s, FALSE, NoState)
        PROVE  AnswerIsTrue(type, j, a)
    BY <2>3
  <2> HIDE DEF AnswerIsTrue, Answer
  <2>4. \/ \E s \in {"RUNNING", NoState, Bogus} : a = Answer("RUNNING", TRUE, s)
        \/ \E s \in {"SUCCEEDED", "FAILED"} : a = Answer(s, TRUE, s)
        \/ \E s \in {j, "RUNNING"} : a = Answer(s, FALSE, NoState)
    BY DEF Answers
  <2> QED
    BY <2>1, <2>2, <2>3, <2>4, Zenon
<1>3. CASE type = "status"
  <2> USE <1>3 DEF AnswerIsTrue, Answer
  <2>1. ASSUME a = Answer(j, FALSE, NoState) PROVE AnswerIsTrue(type, j, a)
    BY <2>1
  <2>2. ASSUME j # NoState, NEW s \in {j, Bogus}, a = Answer(j, TRUE, s)
        PROVE  AnswerIsTrue(type, j, a)
    BY <2>2
  <2> HIDE DEF AnswerIsTrue, Answer
  <2>3. \/ a = Answer(j, FALSE, NoState)
        \/ j # NoState /\ \E s \in {j, Bogus} : a = Answer(j, TRUE, s)
    BY DEF Answers
  <2> QED
    BY <2>1, <2>2, <2>3, Zenon
<1>4. CASE type = "cancel"
  <2> USE <1>4 DEF AnswerIsTrue, Answer
  <2>1. ASSUME a = Answer(j, FALSE, NoState) PROVE AnswerIsTrue(type, j, a)
    BY <2>1
  <2>2. ASSUME j \in Terminal, a = Answer(j, TRUE, j) PROVE AnswerIsTrue(type, j, a)
    BY <2>2
  <2>3. ASSUME j = NoState, a = Answer(j, TRUE, "CANCELLED") PROVE AnswerIsTrue(type, j, a)
    BY <2>3
  <2>4. ASSUME j # NoState, NEW s \in {"CANCELLED", NoState, Bogus}, a = Answer("CANCELLED", TRUE, s)
        PROVE  AnswerIsTrue(type, j, a)
    BY <2>4
  <2> HIDE DEF AnswerIsTrue, Answer
  <2>5. \/ a = Answer(j, FALSE, NoState)
        \/ j \in Terminal /\ a = Answer(j, TRUE, j)
        \/ j = NoState /\ a = Answer(j, TRUE, "CANCELLED")
        \/ j # NoState /\ \E s \in {"CANCELLED", NoState, Bogus} : a = Answer("CANCELLED", TRUE, s)
    BY DEF Answers
  <2> QED
    BY <2>1, <2>2, <2>3, <2>4, <2>5, Zenon
<1> QED
  BY <1>1, <1>2, <1>3, <1>4

\* What AdapterHandle does, with an answer that is true.
LEMMA Handled ==
  ASSUME TypeOK, AdapterHandle
  PROVE  \E a : /\ AnswerIsTrue(MessageType(requests[1].call), job, a)
                /\ job' = a.job
                /\ responses' = Append(responses, Reply(requests[1].id, a.ok, a.state))
                /\ Noted(IF a.ok THEN "honoured" ELSE "refused", requests[1].call)
<1>1. requests[1] \in RequestLines /\ Head(requests) = requests[1]
  BY TypeParts DEF AdapterHandle, QueuesOK
<1>2. PICK a \in Answers(MessageType(requests[1].call), job) :
         /\ job' = a.job
         /\ responses' = Append(responses, Reply(requests[1].id, a.ok, a.state))
         /\ Noted(IF a.ok THEN "honoured" ELSE "refused", requests[1].call)
  BY <1>1 DEF AdapterHandle
<1>3. MessageType(requests[1].call) \in {"capabilities", "start", "status", "cancel"}
  BY <1>1 DEF RequestLines, MessageType, Calls, CancelCalls
<1>4. AnswerIsTrue(MessageType(requests[1].call), job, a)
  BY <1>3, AnswersAreTrue, TypeParts DEF RobotOK
<1> QED
  BY <1>2, <1>4

\* Once the job runs or has ended, a request handled does not take it back.
LEMMA HandledKeepsJob ==
  ASSUME TypeOK, StartInv, requests # <<>>, NEW a,
         AnswerIsTrue(MessageType(requests[1].call), job, a)
  PROVE  /\ job \in Terminal => a.job \in Terminal
         /\ job # NoState => a.job # NoState
<1>1. requests[1] \in RequestLines /\ 1 \in DOMAIN requests
  BY TypeParts DEF QueuesOK
<1>2. MessageType(requests[1].call) \in {"capabilities", "start", "status", "cancel"}
  BY <1>1 DEF RequestLines, MessageType, Calls, CancelCalls
<1>3. MessageType(requests[1].call) = "start" => job = NoState
  BY <1>1 DEF MessageType, StartInv, IsStart
<1> QED
  BY <1>2, <1>3 DEF AnswerIsTrue, EndOf, Terminal, NoState

\* Taking the first request leaves the others one place nearer.
LEMMA FirstTaken ==
  ASSUME TypeOK, requests # <<>>, requests' = Tail(requests)
  PROVE  \A i \in DOMAIN requests' : /\ i \in Nat \ {0} /\ i + 1 \in DOMAIN requests
                                     /\ requests'[i] = requests[i + 1]
BY TypeParts DEF QueuesOK

LEMMA FirstResponseTaken ==
  ASSUME TypeOK, responses # <<>>, responses' = Tail(responses)
  PROVE  \A i \in DOMAIN responses' : /\ i \in Nat \ {0} /\ i + 1 \in DOMAIN responses
                                      /\ responses'[i] = responses[i + 1]
BY TypeParts DEF QueuesOK

\* The types are kept, if there is a fresh id whenever one is needed.
LEMMA TypeStep == TypeOK /\ PipeInv /\ AnswerInv /\ [Next]_vars => TypeOK'
<1> SUFFICES ASSUME TypeOK, PipeInv, AnswerInv, [Next]_vars PROVE TypeOK'
  OBVIOUS
<1> USE TypeParts DEF runtimeVars, signalVars, diskVars, pipeVars, robotVars, Record, Request, Goto
<1>1. ControlOK'
  <2> USE DEF ControlOK, Terminal, NoState, Bogus, Calls, CancelCalls, States
  <2>1. CASE Receive
    <3> DEFINE r == Head(responses)
    <3>1. call # "capabilities" => r.state \in JobReports
      <4>1. Says(r) /\ Belongs(r) /\ r.ok
        BY <2>1 DEF Receive, AnswerInv, QueuesOK
      <4> QED
        BY <4>1 DEF Says, Belongs
    <3>2. OnReply(r)
      BY <2>1 DEF Receive
    <3> HIDE DEF r
    <3>3. CASE call = "capabilities"
      BY <3>1, <3>2, <3>3 DEF OnReply, OnCapabilities
    <3>4. CASE call = "start"
      BY <3>1, <3>2, <3>4 DEF OnReply, OnStart, StateOr, JobReports
    <3>5. CASE call = "status"
      BY <3>1, <3>2, <3>5 DEF OnReply, OnStatus, StateOr, JobReports
    <3>6. CASE call \in {"cancel", "timeoutCancel", "safetyCancel"}
      BY <3>1, <3>2, <3>6 DEF OnReply, OnCancel, OnSafetyCancel, StateOr
    <3> QED
      BY <3>3, <3>4, <3>5, <3>6
  <2>2. CASE Transition
    BY <2>2 DEF Transition, WriteState, EmitEvent, TransitionRaises, AfterTransition
  <2>3. CASE Send \/ SpawnFails \/ SendFails \/ RequestTimeout \/ SkipOther \/ ReceiveError
    BY <2>3 DEF Send, SpawnFails, SendFails, RequestTimeout, SkipOther, ReceiveError, Raise
  <2>4. CASE Finally
    BY <2>4 DEF Finally, CloseStdin, Reaped, TerminateAdapter, AdapterUnkillable, CloseStreams,
       RestoreHandlers, ReleaseLock
  <2>5. CASE AcquireLock \/ InstallHandlers \/ SelectAdapter
    BY <2>5 DEF AcquireLock, InstallHandlers, SelectAdapter
  <2>6. CASE LoopCancel \/ LoopTimeout \/ LoopWait \/ Poll \/ ExceptBlock
    BY <2>6 DEF LoopCancel, LoopTimeout, LoopWait, Poll, ExceptBlock
  <2>7. CASE Adapter \/ Signal \/ Expire \/ Crash \/ UNCHANGED vars
    BY <2>7 DEF Adapter, AdapterHandle, JobEnds, AdapterPrints, AdapterDies, AdapterExits,
       Signal, Expire, Crash, vars
  <2> QED
    BY <2>1, <2>2, <2>3, <2>4, <2>5, <2>6, <2>7 DEF Next, Runtime, Exchange
<1>2. SwitchesOK'
  <2> USE DEF SwitchesOK
  <2>1. CASE Finally
    <3>1. CASE CloseStdin
      BY <3>1, Zenon DEF CloseStdin
    <3>2. CASE \/ Reaped \/ TerminateAdapter \/ AdapterUnkillable
               \/ CloseStreams \/ RestoreHandlers \/ ReleaseLock
      BY <3>2 DEF Reaped, TerminateAdapter, AdapterUnkillable, CloseStreams,
         RestoreHandlers, ReleaseLock
    <3> QED
      BY <2>1, <3>1, <3>2 DEF Finally
  <2>2. CASE WriteState \/ TransitionRaises
    BY <2>2 DEF WriteState, TransitionRaises
  <2>3. CASE EmitEvent
    <3>1. AfterTransition
      BY <2>3 DEF EmitEvent
    <3>2. UNCHANGED locked
      BY <3>1 DEF AfterTransition
    <3> QED
      BY <2>3, <3>2 DEF EmitEvent
  <2>4. CASE Send \/ SpawnFails \/ SendFails \/ RequestTimeout \/ SkipOther \/ ReceiveError
    BY <2>4 DEF Send, SpawnFails, SendFails, RequestTimeout, SkipOther, ReceiveError, Raise
  <2>5. CASE Receive
    <3>1. UNCHANGED locked
      BY <2>5 DEF Receive, OnReply, OnCapabilities, OnStart, OnStatus, OnCancel, OnSafetyCancel,
         ControlOK, Calls
    <3> QED
      BY <2>5, <3>1 DEF Receive
  <2>6. CASE AcquireLock \/ InstallHandlers \/ SelectAdapter
    BY <2>6 DEF AcquireLock, InstallHandlers, SelectAdapter
  <2>7. CASE LoopCancel \/ LoopTimeout \/ LoopWait \/ Poll \/ ExceptBlock
    BY <2>7 DEF LoopCancel, LoopTimeout, LoopWait, Poll, ExceptBlock
  <2>8. CASE Adapter \/ Signal \/ Expire \/ Crash \/ UNCHANGED vars
    BY <2>8 DEF Adapter, AdapterHandle, JobEnds, AdapterPrints, AdapterDies, AdapterExits,
       Signal, Expire, Crash, vars
  <2> QED
    BY <2>1, <2>2, <2>3, <2>4, <2>5, <2>6, <2>7, <2>8 DEF Next, Runtime, Transition, Exchange
<1>3. RobotOK'
  <2> USE DEF RobotOK
  <2>1. CASE AdapterHandle
    <3>1. PICK a : /\ AnswerIsTrue(MessageType(requests[1].call), job, a) /\ job' = a.job
                   /\ Noted(IF a.ok THEN "honoured" ELSE "refused", requests[1].call)
      BY <2>1, Handled
    <3>2. UNCHANGED adapter /\ job' \in JobStates
      BY <2>1, <3>1 DEF AdapterHandle, AnswerIsTrue
    <3> QED
      BY <3>1, <3>2 DEF Noted, Fates
  <2>2. CASE Runtime
    BY <2>2 DEF Runtime, AcquireLock, InstallHandlers, SelectAdapter,
       Transition, WriteState, EmitEvent, TransitionRaises,
       Exchange, Send, SpawnFails, SendFails, RequestTimeout, SkipOther, ReceiveError, Receive,
       Noted, Fates, ControlOK, Calls, CancelCalls,
       LoopCancel, LoopTimeout, LoopWait, Poll, ExceptBlock,
       Finally, CloseStdin, Reaped, TerminateAdapter, AdapterUnkillable, CloseStreams,
       RestoreHandlers, ReleaseLock
  <2>3. CASE JobEnds
    BY <2>3 DEF JobEnds, JobStates
  <2>4. CASE \/ AdapterPrints \/ AdapterDies \/ AdapterExits
             \/ Signal \/ Expire \/ Crash \/ UNCHANGED vars
    BY <2>4 DEF AdapterPrints, AdapterDies, AdapterExits, Signal, Expire, Crash, vars
  <2> QED
    BY <2>1, <2>2, <2>3, <2>4 DEF Next, Adapter
<1>4. DiskOK'
  <2> USE DEF DiskOK
  <2>1. CASE Transition
    BY <2>1 DEF Transition, WriteState, EmitEvent, TransitionRaises, ControlOK
  <2>2. CASE ~Transition
    BY <2>2 DEF Next, Runtime, AcquireLock, InstallHandlers, SelectAdapter,
       Exchange, Send, SpawnFails, SendFails, RequestTimeout, SkipOther, ReceiveError, Receive,
       Noted,
       LoopCancel, LoopTimeout, LoopWait, Poll, ExceptBlock,
       Finally, CloseStdin, Reaped, TerminateAdapter, AdapterUnkillable, CloseStreams,
       RestoreHandlers, ReleaseLock,
       Adapter, AdapterHandle, JobEnds, AdapterPrints, AdapterDies, AdapterExits,
       Signal, Expire, Crash, vars
  <2> QED
    BY <2>1, <2>2
<1>5. QueuesOK'
  <2> USE DEF QueuesOK
  <2>1. CASE Exchange
    <3>1. CASE Send
      <4>1. FreshId \in Ids
        BY <3>1, FreshIdIsFresh DEF Send, PipeInv
      <4> QED
        BY <3>1, <4>1 DEF Send, RequestLines, ControlOK
    <3>2. CASE SpawnFails \/ SendFails \/ RequestTimeout
      BY <3>2 DEF SpawnFails, SendFails, RequestTimeout, Raise
    <3>3. CASE SkipOther
      BY <3>3 DEF SkipOther
    <3>4. CASE ReceiveError
      BY <3>4 DEF ReceiveError, Raise
    <3>5. CASE Receive
      <4>1. callId' = callId
        BY <3>5 DEF Receive, OnReply, OnCapabilities, OnStart, OnStatus, OnCancel, OnSafetyCancel,
           ControlOK, Calls
      <4> QED
        BY <3>5, <4>1 DEF Receive
    <3> QED
      BY <2>1, <3>1, <3>2, <3>3, <3>4, <3>5 DEF Exchange
  <2>2. CASE AdapterHandle
    <3>1. requests[1] \in RequestLines
      BY <2>2 DEF AdapterHandle
    <3>2. PICK a : /\ AnswerIsTrue(MessageType(requests[1].call), job, a)
                   /\ responses' = Append(responses, Reply(requests[1].id, a.ok, a.state))
      BY <2>2, Handled
    <3>3. Reply(requests[1].id, a.ok, a.state) \in Lines
      BY <3>1, <3>2 DEF Lines, Reply, RequestLines, Ids, AnswerIsTrue, LineStates, JobReports
    <3> QED
      BY <2>2, <3>2, <3>3 DEF AdapterHandle
  <2>3. CASE AdapterPrints \/ AdapterDies \/ AdapterExits
    <3>1. Garbage \in Lines /\ Eof \in Lines
      BY DEF Garbage, Eof, Lines
    <3>2. CASE AdapterPrints
      BY <3>1, <3>2 DEF AdapterPrints
    <3>3. CASE AdapterDies
      BY <3>1, <3>3 DEF AdapterDies
    <3>4. CASE AdapterExits
      BY <3>1, <3>4 DEF AdapterExits
    <3> QED
      BY <2>3, <3>2, <3>3, <3>4
  <2>4. CASE ~Exchange /\ Runtime
    BY <2>4 DEF Runtime, AcquireLock, InstallHandlers, SelectAdapter,
       Transition, WriteState, EmitEvent, AfterTransition, TransitionRaises,
       LoopCancel, LoopTimeout, LoopWait, Poll, ExceptBlock,
       Finally, CloseStdin, Reaped, TerminateAdapter, AdapterUnkillable, CloseStreams,
       RestoreHandlers, ReleaseLock
  <2>5. CASE JobEnds \/ Signal \/ Expire \/ Crash \/ UNCHANGED vars
    BY <2>5 DEF JobEnds, Signal, Expire, Crash, vars
  <2> QED
    BY <2>1, <2>2, <2>3, <2>4, <2>5 DEF Next, Adapter
<1> QED
  BY <1>1, <1>2, <1>3, <1>4, <1>5
     DEF TypeOK, ControlOK, SwitchesOK, RobotOK, DiskOK, QueuesOK, RequestLines, JobStates
-----------------------------------------------------------------------------

\* What JobLifecycle lets follow a state, written out.
LEMMA Successors ==
  /\ Lifecycle!Terminal = Terminal /\ Lifecycle!NoState = NoState
  /\ Lifecycle!Successors[NoState] = {"RECEIVED", "FAILED"}
  /\ Lifecycle!Successors["RECEIVED"] = {"VALIDATED", "FAILED"}
  /\ Lifecycle!Successors["VALIDATED"] = {"STARTING", "FAILED"}
  /\ Lifecycle!Successors["STARTING"] = {"RUNNING"} \cup Terminal
  /\ Lifecycle!Successors["RUNNING"] = {"CANCELLING"} \cup Terminal
  /\ Lifecycle!Successors["CANCELLING"] = Terminal
BY DEF Lifecycle!Terminal, Terminal, Lifecycle!NoState, NoState, Lifecycle!Successors,
   Lifecycle!Active, Lifecycle!Reported

\* A recorded state is later than the one before.
LEMMA RankGrows ==
  ASSUME NEW s \in States \ Terminal, NEW t \in Lifecycle!Successors[s]
  PROVE  Rank(s) < Rank(t)
<1>1. s \in {NoState, "RECEIVED", "VALIDATED", "STARTING", "RUNNING", "CANCELLING"}
  BY DEF States
<1> QED
  BY <1>1, Successors DEF Rank, Terminal, NoState

LEMMA LifeStep == TypeOK /\ AnswerInv /\ LifeInv /\ [Next]_vars => LifeInv'
<1> SUFFICES ASSUME TypeOK, AnswerInv, LifeInv, [Next]_vars PROVE LifeInv'
  OBVIOUS
<1> USE TypeParts, Successors DEF runtimeVars, signalVars, diskVars, pipeVars, robotVars, Record,
        Request, Goto
<1>1. RecordInv'
  <2> USE DEF LifeInv, RecordInv, RecordAt, Requesting, Terminal, NoState
  <2>1. CASE AcquireLock \/ InstallHandlers \/ SelectAdapter
    BY <2>1 DEF AcquireLock, InstallHandlers, SelectAdapter
  <2>2. CASE WriteState
    BY <2>2 DEF WriteState
  <2>3. CASE EmitEvent
    <3>1. AfterTransition /\ record' = record
      BY <2>3 DEF EmitEvent
    <3>2. /\ record = writing
          /\ \/ writing = lastState /\ writing # "CANCELLING"
             \/ writing = "CANCELLING" /\ lastState = "RUNNING"
             \/ writing = "FAILED"
      BY <2>3 DEF EmitEvent, WritingInv, Recording, RecordingFailure
    <3>3. CASE writing \in {"RECEIVED", "VALIDATED", "STARTING", "RUNNING", "CANCELLING"}
      BY <3>1, <3>2, <3>3 DEF AfterTransition
    <3>4. CASE writing \notin {"RECEIVED", "VALIDATED", "STARTING", "RUNNING", "CANCELLING"}
      BY <3>1, <3>2, <3>4 DEF AfterTransition
    <3> QED
      BY <3>3, <3>4
  <2>4. CASE TransitionRaises
    BY <2>4 DEF TransitionRaises, WritingInv, Recording, RecordingFailure
  <2>5. CASE Send \/ SpawnFails \/ SendFails \/ RequestTimeout \/ SkipOther
    BY <2>5 DEF Send, SpawnFails, SendFails, RequestTimeout, SkipOther, Raise
  <2>6. CASE ReceiveError
    BY <2>6 DEF ReceiveError, Raise
  <2>7. CASE Receive
    BY <2>7 DEF Receive, OnReply, OnCapabilities, OnStart, OnStatus, OnCancel, OnSafetyCancel,
       ControlOK, Calls
  <2>8. CASE LoopCancel \/ LoopTimeout \/ LoopWait \/ Poll \/ ExceptBlock
    BY <2>8 DEF LoopCancel, LoopTimeout, LoopWait, Poll, ExceptBlock
  <2>9. CASE Finally
    BY <2>9 DEF Finally, CloseStdin, Reaped, TerminateAdapter, AdapterUnkillable, CloseStreams,
       RestoreHandlers, ReleaseLock
  <2>10. CASE Adapter \/ Signal \/ Expire \/ Crash \/ UNCHANGED vars
    BY <2>10 DEF Adapter, AdapterHandle, JobEnds, AdapterPrints, AdapterDies, AdapterExits,
       Signal, Expire, Crash, vars
  <2> QED
    BY <2>1, <2>2, <2>3, <2>4, <2>5, <2>6, <2>7, <2>8, <2>9, <2>10
       DEF Next, Runtime, Transition, Exchange
<1>2. WritingInv'
  <2> USE DEF LifeInv, WritingInv, RecordInv, RecordAt, Recording, RecordingFailure, Requesting,
              Terminal, NoState
  <2>1. CASE AcquireLock \/ InstallHandlers \/ SelectAdapter
    BY <2>1 DEF AcquireLock, InstallHandlers, SelectAdapter
  <2>2. CASE WriteState
    BY <2>2, Successors DEF WriteState, DiskOK, ControlOK, States
  <2>3. CASE EmitEvent
    BY <2>3 DEF EmitEvent, AfterTransition
  <2>4. CASE TransitionRaises
    BY <2>4 DEF TransitionRaises
  <2>5. CASE Send \/ SpawnFails \/ SendFails \/ RequestTimeout \/ SkipOther
    BY <2>5 DEF Send, SpawnFails, SendFails, RequestTimeout, SkipOther, Raise, DiskOK, States
  <2>6. CASE ReceiveError
    BY <2>6 DEF ReceiveError, Raise, DiskOK, States
  <2>7. CASE Receive
    <3>1. PICK r \in Lines : OnReply(r) /\ record' = record /\ pc = "await"
      BY <2>7 DEF Receive, QueuesOK
    <3>2. CASE call = "capabilities"
      BY <3>1, <3>2 DEF OnReply, OnCapabilities
    <3>3. CASE call = "start"
      BY <3>1, <3>3 DEF OnReply, OnStart
    <3>4. CASE call = "status"
      BY <3>1, <3>4 DEF OnReply, OnStatus
    <3>5. CASE call \in {"cancel", "timeoutCancel"}
      BY <3>1, <3>5 DEF OnReply, OnCancel
    <3>6. CASE call = "safetyCancel"
      BY <3>1, <3>6 DEF OnReply, OnSafetyCancel, DiskOK, States
    <3> QED
      BY <3>2, <3>3, <3>4, <3>5, <3>6 DEF ControlOK, Calls
  <2>8. CASE LoopCancel \/ LoopTimeout \/ LoopWait \/ Poll \/ ExceptBlock
    BY <2>8 DEF LoopCancel, LoopTimeout, LoopWait, Poll, ExceptBlock, DiskOK, States
  <2>9. CASE Finally
    BY <2>9 DEF Finally, CloseStdin, Reaped, TerminateAdapter, AdapterUnkillable, CloseStreams,
       RestoreHandlers, ReleaseLock
  <2>10. CASE Adapter \/ Signal \/ Expire \/ Crash \/ UNCHANGED vars
    BY <2>10 DEF Adapter, AdapterHandle, JobEnds, AdapterPrints, AdapterDies, AdapterExits,
       Signal, Expire, Crash, vars
  <2> QED
    BY <2>1, <2>2, <2>3, <2>4, <2>5, <2>6, <2>7, <2>8, <2>9, <2>10
       DEF Next, Runtime, Transition, Exchange
<1>3. EventsInv'
  <2> USE DEF LifeInv, EventsInv
  <2>1. CASE WriteState
    BY <2>1, RankGrows DEF WriteState, WritingInv, DiskOK, Rank, Terminal, NoState
  <2>2. CASE EmitEvent
    <3>1. events' # <<>> /\ Last(events') = record /\ record' = record
      BY <2>2 DEF EmitEvent, WritingInv, DiskOK, ControlOK, Last
    <3>2. pc' # "emit"
      BY <2>2 DEF EmitEvent, AfterTransition
    <3> QED
      BY <3>1, <3>2 DEF Rank
  <2>3. CASE ~WriteState /\ ~EmitEvent
    <3>1. UNCHANGED <<record, events>>
      BY <2>3 DEF Next, Runtime, AcquireLock, InstallHandlers, SelectAdapter, Transition,
         TransitionRaises,
       Exchange, Send, SpawnFails, SendFails, RequestTimeout, SkipOther, ReceiveError, Receive,
       LoopCancel, LoopTimeout, LoopWait, Poll, ExceptBlock,
       Finally, CloseStdin, Reaped, TerminateAdapter, AdapterUnkillable, CloseStreams,
       RestoreHandlers, ReleaseLock,
       Adapter, AdapterHandle, JobEnds, AdapterPrints, AdapterDies, AdapterExits,
       Signal, Expire, Crash, vars
    <3>2. pc' = "emit" => pc = "emit"
      BY <2>3 DEF Next, Runtime, AcquireLock, InstallHandlers, SelectAdapter, Transition,
         TransitionRaises,
       Exchange, Send, SpawnFails, SendFails, RequestTimeout, SkipOther, ReceiveError, Receive,
       Raise,
       OnReply, OnCapabilities, OnStart, OnStatus, OnCancel, OnSafetyCancel, ControlOK, Calls,
       LoopCancel, LoopTimeout, LoopWait, Poll, ExceptBlock,
       Finally, CloseStdin, Reaped, TerminateAdapter, AdapterUnkillable, CloseStreams,
       RestoreHandlers, ReleaseLock,
       Adapter, AdapterHandle, JobEnds, AdapterPrints, AdapterDies, AdapterExits,
       Signal, Expire, Crash, vars
    <3> QED
      BY <3>1, <3>2
  <2> QED
    BY <2>1, <2>2, <2>3
<1> QED
  BY <1>1, <1>2, <1>3 DEF LifeInv

LEMMA LedgerStep == TypeOK /\ LifeInv /\ LedgerInv /\ [Next]_vars => LedgerInv'
<1> SUFFICES ASSUME TypeOK, LifeInv, LedgerInv, [Next]_vars PROVE LedgerInv'
  OBVIOUS
<1> USE TypeParts DEF runtimeVars, signalVars, diskVars, pipeVars, robotVars, Record, Request, Goto,
        LedgerInv, Leaving
<1>1. CASE EmitEvent
  <2>1. /\ events' # <<>> /\ Last(events') = record /\ record' = record /\ record = writing
        /\ UNCHANGED faults
    BY <1>1 DEF EmitEvent, LifeInv, WritingInv, DiskOK, ControlOK, Last
  <2>2. pc' # "except" /\ (Leaving' => writing \in Terminal)
    BY <1>1 DEF EmitEvent, AfterTransition, LifeInv, WritingInv, ControlOK, States, Terminal,
       NoState
  <2> QED
    BY <2>1, <2>2
<1>2. CASE WriteState \/ TransitionRaises
  BY <1>2 DEF WriteState, TransitionRaises
<1>3. CASE AcquireLock \/ InstallHandlers \/ SelectAdapter
  BY <1>3 DEF AcquireLock, InstallHandlers, SelectAdapter, LifeInv, RecordInv, RecordAt, Terminal
<1>4. CASE Send \/ SpawnFails \/ SendFails \/ RequestTimeout \/ SkipOther \/ ReceiveError
  BY <1>4 DEF Send, SpawnFails, SendFails, RequestTimeout, SkipOther, ReceiveError, Raise,
     LifeInv,
     RecordInv, RecordAt, Requesting, Terminal
<1>5. CASE Receive
  <2>1. PICK r \in Lines : OnReply(r) /\ UNCHANGED <<record, events, faults>> /\ pc = "await"
    BY <1>5 DEF Receive, QueuesOK
  <2> USE DEF LifeInv, RecordInv, RecordAt, Requesting, Terminal, NoState
  <2>2. CASE call = "capabilities"
    BY <2>1, <2>2 DEF OnReply, OnCapabilities
  <2>3. CASE call = "start"
    BY <2>1, <2>3 DEF OnReply, OnStart
  <2>4. CASE call = "status"
    BY <2>1, <2>4 DEF OnReply, OnStatus
  <2>5. CASE call \in {"cancel", "timeoutCancel", "safetyCancel"}
    BY <2>1, <2>5 DEF OnReply, OnCancel, OnSafetyCancel
  <2> QED
    BY <2>2, <2>3, <2>4, <2>5 DEF ControlOK, Calls
<1>6. CASE LoopCancel \/ LoopTimeout \/ LoopWait \/ Poll \/ ExceptBlock
  BY <1>6 DEF LoopCancel, LoopTimeout, LoopWait, Poll, ExceptBlock
<1>7. CASE Finally
  BY <1>7 DEF Finally, CloseStdin, Reaped, TerminateAdapter, AdapterUnkillable, CloseStreams,
     RestoreHandlers, ReleaseLock
<1>8. CASE Adapter \/ Signal \/ Expire \/ Crash \/ UNCHANGED vars
  BY <1>8 DEF Adapter, AdapterHandle, JobEnds, AdapterPrints, AdapterDies, AdapterExits,
     Signal, Expire, Crash, vars
<1> QED
  BY <1>1, <1>2, <1>3, <1>4, <1>5, <1>6, <1>7, <1>8 DEF Next, Runtime, Transition, Exchange

LEMMA ReleaseStep == TypeOK /\ ReleaseInv /\ [Next]_vars => ReleaseInv'
<1> SUFFICES ASSUME TypeOK, ReleaseInv, [Next]_vars PROVE ReleaseInv'
  OBVIOUS
<1> USE TypeParts DEF runtimeVars, signalVars, diskVars, pipeVars, robotVars, Record, Request, Goto,
        ReleaseInv
<1>1. CASE Transition
  BY <1>1 DEF Transition, WriteState, EmitEvent, TransitionRaises, AfterTransition
<1>2. CASE AcquireLock \/ InstallHandlers \/ SelectAdapter
  BY <1>2 DEF AcquireLock, InstallHandlers, SelectAdapter
<1>3. CASE Send \/ SpawnFails \/ SendFails \/ RequestTimeout \/ SkipOther \/ ReceiveError
  BY <1>3 DEF Send, SpawnFails, SendFails, RequestTimeout, SkipOther, ReceiveError, Raise
<1>4. CASE Receive
  BY <1>4 DEF Receive, OnReply, OnCapabilities, OnStart, OnStatus, OnCancel, OnSafetyCancel,
     ControlOK, Calls
<1>5. CASE LoopCancel \/ LoopTimeout \/ LoopWait \/ Poll \/ ExceptBlock
  BY <1>5 DEF LoopCancel, LoopTimeout, LoopWait, Poll, ExceptBlock
<1>6. CASE Finally
  BY <1>6 DEF Finally, CloseStdin, Reaped, TerminateAdapter, AdapterUnkillable, CloseStreams,
     RestoreHandlers, ReleaseLock
<1>7. CASE Adapter \/ Signal \/ Expire \/ Crash \/ UNCHANGED vars
  BY <1>7 DEF Adapter, AdapterHandle, JobEnds, AdapterPrints, AdapterDies, AdapterExits,
     Signal, Expire, Crash, vars
<1> QED
  BY <1>1, <1>2, <1>3, <1>4, <1>5, <1>6, <1>7 DEF Next, Runtime, Exchange

LEMMA PipeStep == TypeOK /\ TypeOK' /\ LifeInv /\ PipeInv /\ [Next]_vars => PipeInv'
<1> SUFFICES ASSUME TypeOK, TypeOK', LifeInv, PipeInv, [Next]_vars PROVE PipeInv'
  OBVIOUS
<1> USE TypeParts DEF runtimeVars, signalVars, diskVars, pipeVars, robotVars, Record, Request, Goto,
        PipeInv, Quiescent, OneOutstanding, IsReply
<1>1. CASE Transition
  BY <1>1 DEF Transition, WriteState, EmitEvent, TransitionRaises, AfterTransition, Recording,
     RecordingFailure,
    LifeInv, WritingInv, Terminal, ControlOK, States
<1>2. CASE AcquireLock \/ InstallHandlers \/ SelectAdapter
  BY <1>2 DEF AcquireLock, InstallHandlers, SelectAdapter, Recording
<1>3. CASE Send
  BY <1>3 DEF Send, QueuesOK, Recording
<1>4. CASE SpawnFails \/ SendFails \/ RequestTimeout
  BY <1>4 DEF SpawnFails, SendFails, RequestTimeout, Raise, Terminal, Recording
<1>5. CASE SkipOther
  BY <1>5 DEF SkipOther, QueuesOK, Recording
<1>6. CASE ReceiveError
  BY <1>6 DEF ReceiveError, Raise, Belongs, QueuesOK, Terminal, Recording
<1>7. CASE Receive
  <2>1. pc = "await" /\ responses' = Tail(responses) /\ UNCHANGED requests /\ IsReply(1)
    BY <1>7 DEF Receive, Belongs, QueuesOK
  <2>2. \A i \in DOMAIN responses' : i + 1 \in DOMAIN responses /\ responses'[i] = responses[i + 1]
    BY <1>7, <2>1 DEF Receive, QueuesOK
  <2>3. CASE call = "safetyCancel"
    <3>1. pc' = "write" /\ writing' = "FAILED" /\ UNCHANGED call
      BY <1>7, <2>3 DEF Receive, OnReply, OnSafetyCancel
    <3> QED
      BY <2>2, <3>1 DEF Recording, Terminal
  <2>4. CASE call # "safetyCancel"
    <3>1. Quiescent'
      BY <1>7, <2>1, <2>2, <2>4 DEF Receive, QueuesOK
    <3>2. Len(requests') = 0
      BY <3>1
    <3> QED
      BY <2>2, <3>1, <3>2
  <2> QED
    BY <2>3, <2>4
<1>8. CASE LoopCancel \/ LoopTimeout \/ LoopWait \/ Poll \/ ExceptBlock
  BY <1>8 DEF LoopCancel, LoopTimeout, LoopWait, Poll, ExceptBlock, Recording, Terminal
<1>9. CASE Finally
  BY <1>9 DEF Finally, CloseStdin, Reaped, TerminateAdapter, AdapterUnkillable, CloseStreams,
     RestoreHandlers, ReleaseLock, Recording
<1>10. CASE AdapterHandle
  BY <1>10 DEF AdapterHandle, QueuesOK, Reply, Recording
<1>11. CASE AdapterPrints
  BY <1>11 DEF AdapterPrints, Garbage, QueuesOK, Recording, Ids
<1>12. CASE AdapterDies
  BY <1>12 DEF AdapterDies, Eof, QueuesOK, Recording, Ids
<1>13. CASE AdapterExits
  BY <1>13 DEF AdapterExits, Eof, QueuesOK, Recording, Ids
<1>14. CASE JobEnds \/ Signal \/ Expire \/ Crash \/ UNCHANGED vars
  BY <1>14 DEF JobEnds, Signal, Expire, Crash, vars, Recording
<1> QED
  BY <1>1, <1>2, <1>3, <1>4, <1>5, <1>6, <1>7, <1>8, <1>9, <1>10, <1>11, <1>12, <1>13, <1>14
     DEF Next, Runtime, Exchange, Adapter

\* The one job.start: when it is sent nothing has happened on the robot.
LEMMA StartStep == TypeOK /\ PipeInv /\ StartInv /\ [Next]_vars => StartInv'
<1> SUFFICES ASSUME TypeOK, PipeInv, StartInv, [Next]_vars PROVE StartInv'
  OBVIOUS
<1> USE TypeParts DEF runtimeVars, signalVars, diskVars, pipeVars, robotVars, Record, Request, Goto,
        StartInv, NoStart, IsStart, Recording, Requesting, Early
<1>1. CASE WriteState \/ TransitionRaises
  BY <1>1 DEF WriteState, TransitionRaises
<1>2. CASE EmitEvent
  BY <1>2 DEF EmitEvent, AfterTransition
<1>3. CASE AcquireLock \/ InstallHandlers \/ SelectAdapter
  BY <1>3 DEF AcquireLock, InstallHandlers, SelectAdapter
<1>4. CASE Send
  <2>1. requests' = Append(requests, [id |-> FreshId, call |-> call])
        /\ pc = "send" /\ pc' = "await" /\ UNCHANGED <<call, writing, startAttempted, job>>
    BY <1>4 DEF Send
  <2>2. CASE call = "safetyCancel"
    BY <2>1, <2>2 DEF QueuesOK
  <2>3. CASE call # "safetyCancel"
    <3>1. requests = <<>>
      BY <2>1, <2>3 DEF PipeInv, Quiescent
    <3>2. requests' = <<[id |-> FreshId, call |-> call]>>
      BY <2>1, <3>1
    <3> QED
      BY <2>1, <3>2
  <2> QED
    BY <2>2, <2>3
<1>5. CASE SpawnFails \/ SendFails \/ RequestTimeout \/ SkipOther \/ ReceiveError
  BY <1>5 DEF SpawnFails, SendFails, RequestTimeout, SkipOther, ReceiveError, Raise
<1>6. CASE Receive
  <2>1. PICK r \in Lines : OnReply(r) /\ UNCHANGED <<requests, job>> /\ pc = "await"
    BY <1>6 DEF Receive, QueuesOK
  <2>2. CASE call = "capabilities"
    BY <2>1, <2>2 DEF OnReply, OnCapabilities
  <2>3. CASE call = "start"
    BY <2>1, <2>3 DEF OnReply, OnStart, Terminal
  <2>4. CASE call = "status"
    BY <2>1, <2>4 DEF OnReply, OnStatus, Terminal
  <2>5. CASE call \in {"cancel", "timeoutCancel", "safetyCancel"}
    BY <2>1, <2>5 DEF OnReply, OnCancel, OnSafetyCancel, Terminal
  <2> QED
    BY <2>2, <2>3, <2>4, <2>5 DEF ControlOK, Calls
<1>7. CASE LoopCancel \/ LoopTimeout \/ LoopWait \/ Poll \/ ExceptBlock
  BY <1>7 DEF LoopCancel, LoopTimeout, LoopWait, Poll, ExceptBlock
<1>8. CASE Finally
  BY <1>8 DEF Finally, CloseStdin, Reaped, TerminateAdapter, AdapterUnkillable, CloseStreams,
     RestoreHandlers, ReleaseLock
<1>9. CASE AdapterHandle
  <2>1. PICK a : AnswerIsTrue(MessageType(requests[1].call), job, a) /\ job' = a.job
    BY <1>9, Handled
  <2>2. \A i \in DOMAIN requests' : /\ i \in Nat \ {0} /\ i + 1 \in DOMAIN requests
                                    /\ requests'[i] = requests[i + 1]
    BY <1>9, FirstTaken DEF AdapterHandle
  <2>3. UNCHANGED runtimeVars /\ requests # <<>> /\ 1 \in DOMAIN requests
    BY <1>9 DEF AdapterHandle, QueuesOK
  <2>4. requests[1] \in RequestLines
    BY <2>3 DEF QueuesOK
  <2>5. NoStart'
    BY <2>2
  <2>6. ~IsStart(1) /\ job = NoState => job' = NoState
    BY <2>1, <2>4 DEF AnswerIsTrue, RequestLines, MessageType, Calls, CancelCalls
  <2> QED
    BY <2>3, <2>5, <2>6
<1>10. CASE JobEnds
  BY <1>10 DEF JobEnds, NoState
<1>11. CASE \/ AdapterPrints \/ AdapterDies \/ AdapterExits
            \/ Signal \/ Expire \/ Crash \/ UNCHANGED vars
  BY <1>11 DEF AdapterPrints, AdapterDies, AdapterExits, Signal, Expire, Crash, vars
<1> QED
  BY <1>1, <1>2, <1>3, <1>4, <1>5, <1>6, <1>7, <1>8, <1>9, <1>10, <1>11
     DEF Next, Runtime, Transition, Exchange, Adapter

\* A request and a response that is in the pipes says what it did.
LEMMA AnswerStep ==
  TypeOK /\ TypeOK' /\ PipeInv /\ StartInv /\ AnswerInv /\ OutcomeInv /\ [Next]_vars => AnswerInv'
<1> SUFFICES ASSUME TypeOK, TypeOK', PipeInv, StartInv, AnswerInv, OutcomeInv, [Next]_vars
             PROVE  AnswerInv'
  OBVIOUS
<1> USE TypeParts DEF runtimeVars, signalVars, diskVars, pipeVars, robotVars, Record, Request, Goto,
        AnswerInv
<1>1. CASE pc # "await" /\ ~Send
  BY <1>1 DEF Next, Runtime, AcquireLock, InstallHandlers, SelectAdapter,
     Transition, WriteState, EmitEvent, AfterTransition, TransitionRaises,
     Exchange, SpawnFails, SendFails, RequestTimeout, SkipOther, ReceiveError, Receive, Raise,
     LoopCancel, LoopTimeout, LoopWait, Poll, ExceptBlock,
     Finally, CloseStdin, Reaped, TerminateAdapter, AdapterUnkillable, CloseStreams,
     RestoreHandlers, ReleaseLock,
     Adapter, AdapterHandle, JobEnds, AdapterPrints, AdapterDies, AdapterExits,
     Signal, Expire, Crash, vars
<1>2. CASE Send
  <2>1. /\ \A i \in DOMAIN requests : requests[i].id # FreshId
        /\ \A i \in DOMAIN responses : responses[i].id # FreshId
    BY <1>2, FreshIdIsFresh DEF Send, PipeInv
  <2>2. /\ requests' = Append(requests, [id |-> FreshId, call |-> call])
        /\ callId' = FreshId /\ call' = call /\ responses' = responses
    BY <1>2 DEF Send
  <2>3. \A i \in DOMAIN requests' : requests'[i].id = callId' => requests'[i].call = call'
    BY <2>1, <2>2 DEF QueuesOK
  <2> QED
    BY <2>1, <2>2, <2>3 DEF Says, MessageType
<1>3. CASE SpawnFails \/ SendFails \/ RequestTimeout \/ ReceiveError
  BY <1>3 DEF SpawnFails, SendFails, RequestTimeout, ReceiveError, Raise
<1>4. CASE Receive
  BY <1>4 DEF Receive, OnReply, OnCapabilities, OnStart, OnStatus, OnCancel, OnSafetyCancel,
     ControlOK, Calls
<1>5. CASE SkipOther
  <2>1. \A i \in DOMAIN responses' : i + 1 \in DOMAIN responses /\ responses'[i] = responses[i + 1]
    BY <1>5, FirstResponseTaken DEF SkipOther
  <2> QED
    BY <1>5, <2>1 DEF SkipOther, Says, MessageType
<1>6. CASE pc = "await" /\ AdapterHandle
  <2>1. PICK a, r : /\ AnswerIsTrue(MessageType(requests[1].call), job, a)
                    /\ job' = a.job
                    /\ r = Reply(requests[1].id, a.ok, a.state)
                    /\ responses' = Append(responses, r)
                    /\ Noted(IF a.ok THEN "honoured" ELSE "refused", requests[1].call)
    BY <1>6, Handled
  <2>2. UNCHANGED runtimeVars /\ requests # <<>> /\ requests' = Tail(requests)
    BY <1>6 DEF AdapterHandle
  <2>3. requests[1] \in RequestLines /\ 1 \in DOMAIN requests
    BY <2>2 DEF QueuesOK
  <2>4. job \in Terminal => job' \in Terminal
    BY <2>1, <2>2, HandledKeepsJob
  <2>5. job # NoState => job' # NoState
    BY <2>1, <2>2, HandledKeepsJob
  <2>6. \A i \in DOMAIN responses : Says(responses[i])'
    <3>1. call # "safetyCancel" => \A i \in DOMAIN responses : ~IsReply(i)
      BY <1>6, <2>2 DEF PipeInv, OneOutstanding
    <3>2. cancels \subseteq cancels'
      BY <2>1 DEF Noted
    <3>3. ASSUME NEW i \in DOMAIN responses PROVE Says(responses[i])'
      <4>1. Says(responses[i])
        BY <1>6
      <4>2. CASE ~IsReply(i)
        BY <2>1, <4>2 DEF Says, IsReply
      <4>3. CASE IsReply(i)
        <5>1. call = "safetyCancel" /\ UNCHANGED <<call, callId>>
          BY <2>2, <3>1, <4>3
        <5>2. responses'[i] = responses[i]
          BY <2>1 DEF QueuesOK
        <5> QED
          BY <3>2, <4>1, <5>1, <5>2 DEF Says
      <4> QED
        BY <4>2, <4>3
    <3> QED
      BY <3>3
  <2>7. Says(r)'
    <3>1. CASE requests[1].id # callId
      BY <2>1, <2>2, <3>1 DEF Says, Reply
    <3>2. CASE requests[1].id = callId /\ ~a.ok
      BY <2>1, <2>2, <3>2 DEF Says, Reply
    <3>3. CASE requests[1].id = callId /\ a.ok
      <4>1. requests[1].call = call
        BY <1>6, <2>3, <3>3
      <4>2. call \in {"status", "cancel", "timeoutCancel"} => job # NoState
        BY <1>6 DEF OutcomeInv, Requesting
      <4>3. r.state = a.state /\ r.state \in LineStates
        BY <2>1 DEF Reply, AnswerIsTrue
      <4>4. call = "safetyCancel" => <<"honoured", "safetyCancel">> \in cancels'
        BY <2>1, <3>3, <4>1 DEF Noted, CancelCalls
      <4>5. CASE call \in {"capabilities", "start", "status"}
        BY <2>1, <2>2, <3>3, <4>1, <4>2, <4>3, <4>5 DEF Says, AnswerIsTrue, MessageType, CancelCalls
      <4>6. CASE call \in CancelCalls
        <5>1. MessageType(requests[1].call) = "cancel"
          BY <4>1, <4>6 DEF MessageType
        <5>2. call # "safetyCancel" => job' = EndOf(r.state)
          BY <2>1, <3>3, <4>2, <4>3, <4>6, <5>1 DEF AnswerIsTrue, CancelCalls
        <5>3. EndOf(r.state) \in Terminal /\ r.state \in JobReports
          BY <2>1, <4>3, <5>1 DEF EndOf, Terminal, AnswerIsTrue
        <5> QED
          BY <2>2, <4>4, <4>6, <5>2, <5>3 DEF Says, CancelCalls
      <4> QED
        BY <4>5, <4>6, TypeParts DEF ControlOK, Calls, CancelCalls
    <3> QED
      BY <3>1, <3>2, <3>3
  <2>8. \A i \in DOMAIN responses' : (i \in DOMAIN responses /\ Says(responses[i])') \/ responses'[i] = r
    BY <2>1, <2>6 DEF QueuesOK
  <2>9. \A i \in DOMAIN responses' : Says(responses[i])'
    BY <2>7, <2>8
  <2>10. \A i \in DOMAIN requests' : requests'[i].id = callId' => requests'[i].call = call'
    BY <1>6, <2>2, FirstTaken DEF MessageType
  <2> QED
    BY <2>9, <2>10
<1>7. CASE pc = "await" /\ JobEnds
  BY <1>7 DEF JobEnds, Says, EndOf, Terminal, NoState
<1>8. CASE AdapterPrints \/ AdapterDies \/ AdapterExits
  <2>1. PICK e : e.what # "reply" /\ responses' = Append(responses, e)
    BY <1>8 DEF AdapterPrints, AdapterDies, AdapterExits, Garbage, Eof
  <2>2. \A i \in DOMAIN responses' : \/ i \in DOMAIN responses /\ responses'[i] = responses[i]
                                     \/ responses'[i] = e
    BY <2>1 DEF QueuesOK
  <2> QED
    BY <1>8, <2>1, <2>2 DEF AdapterPrints, AdapterDies, AdapterExits, Says, MessageType
<1>9. CASE Signal \/ Expire \/ Crash \/ UNCHANGED vars
  BY <1>9 DEF Signal, Expire, Crash, vars, Says, MessageType
<1> QED
  BY <1>1, <1>2, <1>3, <1>4, <1>5, <1>6, <1>7, <1>8, <1>9
     DEF Next, Runtime, Transition, Exchange, Adapter, Finally, AcquireLock, InstallHandlers,
     SelectAdapter,
     WriteState, EmitEvent, TransitionRaises, LoopCancel, LoopTimeout, LoopWait, Poll,
     ExceptBlock,
     CloseStdin, Reaped, TerminateAdapter, AdapterUnkillable, CloseStreams, RestoreHandlers,
     ReleaseLock

LEMMA OutcomeStep ==
  TypeOK /\ LifeInv /\ StartInv /\ AnswerInv /\ OutcomeInv /\ [Next]_vars => OutcomeInv'
<1> SUFFICES ASSUME TypeOK, LifeInv, StartInv, AnswerInv, OutcomeInv, [Next]_vars
             PROVE  OutcomeInv'
  OBVIOUS
<1> USE TypeParts DEF runtimeVars, signalVars, diskVars, pipeVars, robotVars, Record, Request, Goto,
        OutcomeInv, Recording, Requesting
<1>1. CASE WriteState \/ TransitionRaises
  BY <1>1 DEF WriteState, TransitionRaises
<1>2. CASE EmitEvent
  BY <1>2 DEF EmitEvent, AfterTransition
<1>3. CASE AcquireLock \/ InstallHandlers \/ SelectAdapter
  BY <1>3 DEF AcquireLock, InstallHandlers, SelectAdapter
<1>4. CASE Send \/ SpawnFails \/ SendFails \/ RequestTimeout \/ SkipOther
  BY <1>4 DEF Send, SpawnFails, SendFails, RequestTimeout, SkipOther, Raise, Noted
<1>5. CASE ReceiveError
  BY <1>5 DEF ReceiveError, Raise
<1>6. CASE Receive
  <2>1. PICK r \in Lines : /\ Says(r) /\ Belongs(r) /\ r.ok /\ OnReply(r)
                           /\ UNCHANGED <<record, job, cancels>> /\ pc = "await"
    BY <1>6 DEF Receive, AnswerInv, QueuesOK
  <2> USE DEF Says, Belongs, StateOr, Terminal, NoState
  <2>2. CASE call = "capabilities"
    BY <2>1, <2>2 DEF OnReply, OnCapabilities
  <2>3. CASE call = "start"
    BY <2>1, <2>3 DEF OnReply, OnStart
  <2>4. CASE call = "status"
    BY <2>1, <2>4 DEF OnReply, OnStatus
  <2>5. CASE call \in {"cancel", "timeoutCancel", "safetyCancel"}
    BY <2>1, <2>5 DEF OnReply, OnCancel, OnSafetyCancel
  <2> QED
    BY <2>2, <2>3, <2>4, <2>5 DEF ControlOK, Calls
<1>7. CASE LoopCancel \/ LoopTimeout \/ LoopWait \/ Poll \/ ExceptBlock
  BY <1>7 DEF LoopCancel, LoopTimeout, LoopWait, Poll, ExceptBlock
<1>8. CASE Finally
  BY <1>8 DEF Finally, CloseStdin, Reaped, TerminateAdapter, AdapterUnkillable, CloseStreams,
     RestoreHandlers, ReleaseLock
<1>9. CASE AdapterHandle
  <2>1. PICK a : /\ AnswerIsTrue(MessageType(requests[1].call), job, a)
                 /\ job' = a.job
                 /\ Noted(IF a.ok THEN "honoured" ELSE "refused", requests[1].call)
    BY <1>9, Handled
  <2>2. UNCHANGED <<runtimeVars, record>> /\ requests # <<>>
    BY <1>9 DEF AdapterHandle
  <2>3. requests[1] \in RequestLines /\ 1 \in DOMAIN requests
    BY <2>2 DEF QueuesOK
  <2>4. job \in Terminal => job' \in Terminal
    BY <2>1, <2>2, HandledKeepsJob
  <2>5. job # NoState => job' # NoState
    BY <2>1, <2>2, HandledKeepsJob
  <2> QED
    BY <2>1, <2>2, <2>4, <2>5 DEF Noted
<1>10. CASE JobEnds
  BY <1>10 DEF JobEnds, Terminal, NoState
<1>11. CASE \/ AdapterPrints \/ AdapterDies \/ AdapterExits
            \/ Signal \/ Expire \/ Crash \/ UNCHANGED vars
  BY <1>11 DEF AdapterPrints, AdapterDies, AdapterExits, Signal, Expire, Crash, vars
<1> QED
  BY <1>1, <1>2, <1>3, <1>4, <1>5, <1>6, <1>7, <1>8, <1>9, <1>10, <1>11
     DEF Next, Runtime, Transition, Exchange, Adapter

\* Only the first request starts the adapter, and the adapter never becomes unborn.
LEMMA BirthStep == TypeOK /\ LifeInv /\ BirthInv /\ [Next]_vars => BirthInv'
<1> SUFFICES ASSUME TypeOK, LifeInv, BirthInv, [Next]_vars PROVE BirthInv'
  OBVIOUS
<1> USE TypeParts DEF runtimeVars, signalVars, diskVars, pipeVars, robotVars, Record, Request, Goto,
        BirthInv, Recording, Requesting
<1>1. CASE WriteState \/ TransitionRaises
  BY <1>1 DEF WriteState, TransitionRaises
<1>2. CASE EmitEvent
  BY <1>2 DEF EmitEvent, AfterTransition, LifeInv, WritingInv, ControlOK, States, Terminal, NoState
<1>3. CASE AcquireLock \/ InstallHandlers \/ SelectAdapter
  BY <1>3 DEF AcquireLock, InstallHandlers, SelectAdapter
<1>4. CASE Send \/ SpawnFails \/ SendFails \/ RequestTimeout \/ SkipOther \/ ReceiveError
  BY <1>4 DEF Send, SpawnFails, SendFails, RequestTimeout, SkipOther, ReceiveError, Raise
<1>5. CASE Receive
  <2>1. adapter # "unborn" /\ adapter' = adapter
    BY <1>5 DEF Receive
  <2> QED
    BY <2>1
<1>6. CASE LoopCancel \/ LoopTimeout \/ LoopWait \/ Poll
  BY <1>6 DEF LoopCancel, LoopTimeout, LoopWait, Poll
<1>7. CASE ExceptBlock
  BY <1>7 DEF ExceptBlock
<1>8. CASE Finally
  BY <1>8 DEF Finally, CloseStdin, Reaped, TerminateAdapter, AdapterUnkillable, CloseStreams,
     RestoreHandlers, ReleaseLock
<1>9. CASE Adapter
  BY <1>9 DEF Adapter, AdapterHandle, JobEnds, AdapterPrints, AdapterDies, AdapterExits
<1>10. CASE Signal \/ Expire \/ Crash \/ UNCHANGED vars
  BY <1>10 DEF Signal, Expire, Crash, vars
<1> QED
  BY <1>1, <1>2, <1>3, <1>4, <1>5, <1>6, <1>7, <1>8, <1>9, <1>10
     DEF Next, Runtime, Transition, Exchange

\* The outcome taken from the adapter is the robot's and stays so.
LEMMA EndStep ==
  TypeOK /\ LifeInv /\ PipeInv /\ AnswerInv /\ BirthInv /\ EndInv /\ [Next]_vars => EndInv'
<1> SUFFICES ASSUME TypeOK, LifeInv, PipeInv, AnswerInv, BirthInv, EndInv, [Next]_vars
             PROVE  EndInv'
  OBVIOUS
<1> USE TypeParts DEF runtimeVars, signalVars, diskVars, pipeVars, robotVars, Record, Request, Goto,
        EndInv, Asked, Recording, Requesting, RecordingFailure
<1>1. CASE WriteState \/ TransitionRaises
  BY <1>1 DEF WriteState, TransitionRaises, LifeInv, WritingInv, Terminal
<1>2. CASE EmitEvent
  BY <1>2 DEF EmitEvent, AfterTransition, LifeInv, WritingInv, ControlOK, States, Terminal, NoState
<1>3. CASE AcquireLock \/ InstallHandlers \/ SelectAdapter
  BY <1>3 DEF AcquireLock, InstallHandlers, SelectAdapter, LifeInv, RecordInv, RecordAt, Reported,
     Terminal, NoState
<1>4. CASE Send
  <2>1. lastState \notin Reported
    BY <1>4 DEF Send, LifeInv, RecordInv, RecordAt, Reported, Terminal, ControlOK, Calls
  <2>2. cancels \subseteq cancels' /\ (call \in CancelCalls => <<"asked", call>> \in cancels')
    BY <1>4 DEF Send, Noted
  <2> QED
    BY <1>4, <2>1, <2>2 DEF Send
<1>5. CASE SpawnFails \/ SendFails \/ RequestTimeout \/ ReceiveError
  <2>1. /\ Raise /\ UNCHANGED <<requests, job, record, expired>> /\ cancels \subseteq cancels'
        /\ pc \in {"send", "await"} /\ (call \in CancelCalls => <<"asked", call>> \in cancels')
    <3>1. CASE SpawnFails
      <4>1. pc = "send" /\ adapter = "unborn" /\ Raise
        BY <3>1 DEF SpawnFails
      <4>2. call \notin CancelCalls
        BY <4>1 DEF CancelCalls, BirthInv
      <4>3. UNCHANGED <<requests, job, record, expired, cancels>>
        BY <3>1 DEF SpawnFails
      <4> QED
        BY <4>1, <4>2, <4>3
    <3>2. CASE SendFails
      BY <3>2 DEF SendFails, Noted
    <3>3. CASE RequestTimeout
      BY <3>3 DEF RequestTimeout
    <3>4. CASE ReceiveError
      BY <3>4 DEF ReceiveError
    <3> QED
      BY <1>5, <3>1, <3>2, <3>3, <3>4
  <2>2. CASE call = "timeoutCancel"
    BY <2>1, <2>2 DEF Raise, LifeInv, RecordInv, RecordAt, Reported, Terminal, CancelCalls
  <2>3. CASE call = "safetyCancel"
    BY <2>1, <2>3 DEF Raise, LifeInv, RecordInv, Reported, Terminal, CancelCalls
  <2>4. CASE call \notin {"timeoutCancel", "safetyCancel"}
    BY <2>1, <2>4 DEF Raise
  <2> QED
    BY <2>2, <2>3, <2>4
<1>6. CASE SkipOther
  BY <1>6 DEF SkipOther
<1>7. CASE Receive
  <2>1. PICK r \in Lines : /\ Says(r) /\ Belongs(r) /\ r.ok /\ OnReply(r)
                           /\ r = responses[1]
                           /\ UNCHANGED <<requests, record, job, cancels, expired>> /\ pc = "await"
    BY <1>7 DEF Receive, AnswerInv, QueuesOK
  <2>2. call # "safetyCancel" => requests = <<>>
    BY <1>7, <2>1 DEF Receive, PipeInv, OneOutstanding, IsReply, Belongs, QueuesOK
  <2>3. record \notin Terminal
    BY <2>1 DEF LifeInv, RecordInv, RecordAt, Terminal, ControlOK, Calls
  <2>4. job \notin {"TIMED_OUT", "REJECTED"}
    BY DEF RobotOK, JobStates, NoState
  <2> USE DEF Says, Belongs, StateOr, Terminal, NoState, Reported
  <2>5. CASE call = "capabilities"
    BY <2>1, <2>3, <2>5 DEF OnReply, OnCapabilities
  <2>6. CASE call = "start"
    BY <2>1, <2>2, <2>3, <2>4, <2>6 DEF OnReply, OnStart
  <2>7. CASE call = "status"
    BY <2>1, <2>2, <2>3, <2>4, <2>7 DEF OnReply, OnStatus
  <2>8. CASE call = "cancel"
    BY <2>1, <2>2, <2>3, <2>4, <2>8 DEF OnReply, OnCancel, EndOf
  <2>9. CASE call = "timeoutCancel"
    BY <2>1, <2>3, <2>9 DEF OnReply, CancelCalls
  <2>10. CASE call = "safetyCancel"
    BY <2>1, <2>3, <2>10 DEF OnReply, OnSafetyCancel, CancelCalls, LifeInv, RecordInv
  <2> QED
    BY <2>5, <2>6, <2>7, <2>8, <2>9, <2>10 DEF ControlOK, Calls
<1>8. CASE LoopCancel \/ LoopTimeout \/ LoopWait \/ Poll
  BY <1>8 DEF LoopCancel, LoopTimeout, LoopWait, Poll, Terminal, Reported, LifeInv, RecordInv,
     RecordAt
<1>9. CASE ExceptBlock
  BY <1>9 DEF ExceptBlock, Terminal, Reported, LifeInv, RecordInv
<1>10. CASE Finally
  BY <1>10 DEF Finally, CloseStdin, Reaped, TerminateAdapter, AdapterUnkillable, CloseStreams,
     RestoreHandlers, ReleaseLock
<1>11. CASE AdapterHandle
  <2>1. requests # <<>> /\ lastState \notin Reported
    BY <1>11 DEF AdapterHandle
  <2>2. cancels \subseteq cancels'
    BY <1>11 DEF AdapterHandle, Noted
  <2> QED
    BY <1>11, <2>1, <2>2 DEF AdapterHandle
<1>12. CASE JobEnds
  BY <1>12 DEF JobEnds, Reported
<1>13. CASE AdapterPrints \/ AdapterDies \/ AdapterExits
  <2>1. /\ UNCHANGED <<runtimeVars, record, expired, job, cancels>>
        /\ requests' = requests \/ requests' = <<>>
    BY <1>13 DEF AdapterPrints, AdapterDies, AdapterExits
  <2> QED
    BY <2>1
<1>14. CASE Signal \/ Expire \/ Crash \/ UNCHANGED vars
  BY <1>14 DEF Signal, Expire, Crash, vars
<1> QED
  BY <1>1, <1>2, <1>3, <1>4, <1>5, <1>6, <1>7, <1>8, <1>9, <1>10, <1>11, <1>12, <1>13, <1>14
     DEF Next, Runtime, Transition, Exchange, Adapter

LEMMA LeaveStep ==
  TypeOK /\ TypeOK' /\ LifeInv /\ PipeInv /\ StartInv /\ AnswerInv /\ OutcomeInv
    /\ LeaveInv /\ [Next]_vars => LeaveInv'
<1> SUFFICES ASSUME TypeOK, TypeOK', LifeInv, PipeInv, StartInv, AnswerInv, OutcomeInv,
                    LeaveInv, [Next]_vars
             PROVE  LeaveInv'
  OBVIOUS
<1> USE TypeParts DEF runtimeVars, signalVars, diskVars, pipeVars, robotVars, Record, Request, Goto,
        LeaveInv, Leaving, Recording, Requesting, Settled, NoStart, IsStart
<1>1. CASE WriteState
  BY <1>1 DEF WriteState
<1>2. CASE TransitionRaises
  BY <1>2 DEF TransitionRaises, LifeInv, WritingInv, RecordingFailure, Terminal
<1>3. CASE EmitEvent
  BY <1>3 DEF EmitEvent, AfterTransition, LifeInv, WritingInv, ControlOK, States, Terminal,
     NoState
<1>4. CASE AcquireLock \/ InstallHandlers \/ SelectAdapter
  BY <1>4 DEF AcquireLock, InstallHandlers, SelectAdapter, Terminal, LifeInv, RecordInv, RecordAt
<1>5. CASE Send
  <2>1. /\ requests' = Append(requests, [id |-> FreshId, call |-> call])
        /\ pc' = "await" /\ adapter' = "up" /\ UNCHANGED <<stdinOpen, call>> /\ pc = "send"
    BY <1>5 DEF Send
  <2>2. call \in CancelCalls => \E i \in DOMAIN requests' : requests'[i].call \in CancelCalls
    <3>1. /\ Len(requests) + 1 \in DOMAIN requests'
          /\ requests'[Len(requests) + 1].call = call
      BY <2>1 DEF QueuesOK
    <3> QED
      BY <3>1
  <2> QED
    BY <2>1, <2>2
<1>6. CASE SpawnFails
  BY <1>6 DEF SpawnFails, Raise, LifeInv, RecordInv, RecordAt, Terminal
<1>7. CASE SendFails
  BY <1>7 DEF SendFails, Raise, RobotOK, LifeInv, RecordInv, RecordAt, Terminal
<1>8. CASE RequestTimeout
  BY <1>8 DEF RequestTimeout, Raise, LifeInv, RecordInv, RecordAt, Terminal, CancelCalls
<1>9. CASE SkipOther
  BY <1>9 DEF SkipOther
<1>10. CASE ReceiveError
  BY <1>10 DEF ReceiveError, Raise, LifeInv, RecordInv, RecordAt, Terminal, CancelCalls
<1>11. CASE Receive
  <2>1. PICK r \in Lines : /\ Says(r) /\ Belongs(r) /\ r.ok /\ OnReply(r)
                           /\ UNCHANGED <<requests, stdinOpen, robotVars>> /\ pc = "await"
    BY <1>11 DEF Receive, AnswerInv, QueuesOK
  <2> USE DEF Says, Belongs, StateOr, Terminal, NoState
  <2>2. CASE call = "capabilities"
    BY <2>1, <2>2 DEF OnReply, OnCapabilities, LifeInv, RecordInv, RecordAt
  <2>3. CASE call = "start"
    BY <2>1, <2>3 DEF OnReply, OnStart, StartInv
  <2>4. CASE call = "status"
    BY <2>1, <2>4 DEF OnReply, OnStatus, StartInv, LifeInv, RecordInv, RecordAt
  <2>5. CASE call \in {"cancel", "timeoutCancel", "safetyCancel"}
    BY <2>1, <2>5 DEF OnReply, OnCancel, OnSafetyCancel, CancelCalls
  <2> QED
    BY <2>2, <2>3, <2>4, <2>5 DEF ControlOK, Calls
<1>12. CASE LoopCancel \/ LoopTimeout \/ LoopWait \/ Poll
  BY <1>12 DEF LoopCancel, LoopTimeout, LoopWait, Poll, Terminal, LifeInv, RecordInv, RecordAt
<1>13. CASE ExceptBlock
  BY <1>13 DEF ExceptBlock, StartInv, NoState
<1>14. CASE CloseStdin
  BY <1>14 DEF CloseStdin
<1>15. CASE \/ Reaped \/ TerminateAdapter \/ AdapterUnkillable
            \/ CloseStreams \/ RestoreHandlers \/ ReleaseLock
  BY <1>15 DEF Reaped, TerminateAdapter, AdapterUnkillable, CloseStreams,
     RestoreHandlers, ReleaseLock
<1>16. CASE AdapterHandle
  <2>1. PICK a : /\ AnswerIsTrue(MessageType(requests[1].call), job, a)
                 /\ job' = a.job
                 /\ Noted(IF a.ok THEN "honoured" ELSE "refused", requests[1].call)
    BY <1>16, Handled
  <2>2. /\ UNCHANGED <<runtimeVars, adapter, stdinOpen>> /\ adapter = "up"
        /\ requests # <<>> /\ requests' = Tail(requests)
    BY <1>16 DEF AdapterHandle
  <2>3. requests[1] \in RequestLines /\ 1 \in DOMAIN requests
    BY <2>2 DEF QueuesOK
  <2>4. NoStart'
    BY <2>2, FirstTaken DEF StartInv
  <2>5. Settled => Settled'
    <3>1. CASE requests[1].call \in CancelCalls
      <4>1. ~a.ok => <<"refused", requests[1].call>> \in cancels'
        BY <2>1, <3>1 DEF Noted
      <4>2. MessageType(requests[1].call) = "cancel"
        BY <3>1 DEF MessageType
      <4>3. a.ok => job' # "RUNNING"
        BY <2>1, <4>2 DEF AnswerIsTrue, EndOf, Terminal, NoState
      <4> QED
        BY <2>4, <3>1, <4>1, <4>3
    <3>2. CASE requests[1].call \notin CancelCalls
      <4>1. ASSUME NEW i \in DOMAIN requests, requests[i].call \in CancelCalls
            PROVE  \E k \in DOMAIN requests' : requests'[k].call \in CancelCalls
        <5>1. i - 1 \in DOMAIN requests' /\ requests'[i - 1] = requests[i]
          BY <2>2, <3>2, <4>1 DEF QueuesOK
        <5> QED
          BY <4>1, <5>1
      <4>2. job # "RUNNING" /\ NoStart => job' # "RUNNING"
        BY <2>1, <2>3, <3>2 DEF AnswerIsTrue, RequestLines, MessageType, Calls, CancelCalls
      <4>3. cancels \subseteq cancels'
        BY <2>1 DEF Noted
      <4> QED
        BY <2>2, <2>4, <4>1, <4>2, <4>3
    <3> QED
      BY <3>1, <3>2
  <2> QED
    BY <2>2, <2>5
<1>17. CASE JobEnds
  BY <1>17 DEF JobEnds
<1>18. CASE AdapterPrints \/ AdapterDies \/ AdapterExits
  BY <1>18 DEF AdapterPrints, AdapterDies, AdapterExits
<1>19. CASE Signal \/ Expire \/ Crash \/ UNCHANGED vars
  BY <1>19 DEF Signal, Expire, Crash, vars
<1> QED
  BY <1>1, <1>2, <1>3, <1>4, <1>5, <1>6, <1>7, <1>8, <1>9, <1>10, <1>11, <1>12, <1>13, <1>14,
     <1>15, <1>16, <1>17, <1>18, <1>19
     DEF Next, Runtime, Transition, Exchange, Adapter, Finally

-----------------------------------------------------------------------------

\* The invariant of one run is inductive.
THEOREM RunInvariant == Spec => []IInv
<1>1. Init => IInv
  <2> SUFFICES ASSUME Init PROVE IInv
    OBVIOUS
  <2> USE DEF Init, NoState
  <2>1. ControlOK /\ SwitchesOK
    BY DEF ControlOK, SwitchesOK, Calls, States, Terminal
  <2>2. RobotOK /\ DiskOK /\ QueuesOK
    BY DEF RobotOK, JobStates, DiskOK, States, QueuesOK, Ids
  <2>3. LifeInv
    BY DEF LifeInv, RecordInv, RecordAt, WritingInv, Recording, Requesting, EventsInv, Last
  <2>4. LedgerInv /\ ReleaseInv
    BY DEF LedgerInv, ReleaseInv, Leaving
  <2>5. PipeInv
    BY DEF PipeInv, Quiescent, OneOutstanding, IsReply, Recording
  <2>6. RobotInv
    BY DEF RobotInv, StartInv, NoStart, IsStart, Requesting, Recording, AnswerInv, OutcomeInv,
       EndInv, Reported, RecordingFailure, BirthInv, Terminal
  <2>7. LeaveInv
    BY DEF LeaveInv, Leaving, Recording
  <2> QED
    BY <2>1, <2>2, <2>3, <2>4, <2>5, <2>6, <2>7, TypeParts DEF IInv
<1>2. IInv /\ [Next]_vars => IInv'
  BY TypeStep, LifeStep, LedgerStep, ReleaseStep, PipeStep, StartStep, AnswerStep, OutcomeStep,
     BirthStep, EndStep, LeaveStep DEF IInv, RobotInv
<1> QED
  BY <1>1, <1>2, PTL DEF Spec

\* Every variable keeps its type; in particular there is a fresh id for every
\* request, whatever is still in the pipes.
THEOREM TypeCorrect == Spec => []TypeOK
<1>1. IInv => TypeOK
  BY DEF IInv
<1> QED
  BY <1>1, RunInvariant, PTL

\* Whatever fails, state.json and the outbox go through the life cycle of the
\* contract: a terminal state is final, an event is published once, and never
\* before its state is recorded.
THEOREM ImplementsLifecycle == Spec => LifecycleSpec
<1>1. Init => Lifecycle!Init
  BY DEF Init, Lifecycle!Init, Lifecycle!NoState, NoState
<1>2. IInv /\ [Next]_vars => [Lifecycle!Next]_<<record, events>>
  <2> SUFFICES ASSUME IInv, [Next]_vars
               PROVE  Lifecycle!Record \/ Lifecycle!Publish \/ UNCHANGED <<record, events>>
    BY DEF Lifecycle!Next
  <2>1. CASE WriteState
    BY <2>1, Successors DEF WriteState, Lifecycle!Record, IInv, LifeInv, WritingInv
  <2>2. CASE EmitEvent
    <3>1. record # NoState /\ events' = Append(events, record) /\ UNCHANGED record
      BY <2>2 DEF EmitEvent, IInv, LifeInv, WritingInv
    <3>2. events # <<>> => Last(events) # record
      BY <2>2 DEF EmitEvent, IInv, LifeInv, EventsInv, Rank
    <3> QED
      BY <3>1, <3>2, Successors DEF Lifecycle!Publish, Lifecycle!Last, Last
  <2>3. CASE ~WriteState /\ ~EmitEvent
    BY <2>3 DEF Next, Runtime, AcquireLock, InstallHandlers, SelectAdapter, Transition,
       TransitionRaises,
       Exchange, Send, SpawnFails, SendFails, RequestTimeout, SkipOther, ReceiveError, Receive,
       LoopCancel, LoopTimeout, LoopWait, Poll, ExceptBlock,
       Finally, CloseStdin, Reaped, TerminateAdapter, AdapterUnkillable, CloseStreams,
       RestoreHandlers, ReleaseLock,
       Adapter, AdapterHandle, JobEnds, AdapterPrints, AdapterDies, AdapterExits,
       Signal, Expire, Crash, vars, diskVars
  <2> QED
    BY <2>1, <2>2, <2>3
<1> QED
  BY <1>1, <1>2, RunInvariant, PTL DEF Spec, LifecycleSpec, Lifecycle!Spec

\* The outcome in state.json is the robot's: SUCCEEDED and CANCELLED are the end
\* the job came to, FAILED is the end reported or a failure that has asked the
\* job to stop, TIMED_OUT is past the deadline, with the job asked to stop.
THEOREM OutcomesAreReal == Spec => []RecordedOutcomeIsReal
<1>1. IInv => RecordedOutcomeIsReal
  BY DEF IInv, RobotInv, EndInv, Reported, Asked, Terminal, RecordedOutcomeIsReal
<1> QED
  BY <1>1, RunInvariant, PTL

\* safetyCancel "succeeded" is written after the adapter has answered the safety
\* cancellation itself with ok, and not for the late answer of another request.
THEOREM SafetyCancelsAreReal == Spec => []SafetyCancelIsTruthful
<1>1. IInv => SafetyCancelIsTruthful
  BY DEF IInv, RobotInv, OutcomeInv, SafetyCancelIsTruthful
<1> QED
  BY <1>1, RunInvariant, PTL

\* No way out of run() leaves a job running with an adapter that reads its
\* input to the end and has not refused to cancel.
THEOREM JobsAreNotLeftBehind == Spec => []NoJobLeftBehind
<1>1. IInv => NoJobLeftBehind
  BY DEF IInv, LeaveInv, Leaving, Settled, NoStart, NoJobLeftBehind
<1> QED
  BY <1>1, RunInvariant, PTL

\* A run without a disk failure ends in a terminal state, recorded and published.
THEOREM EndsAreRecorded == Spec => []EndedRunIsRecorded
<1>1. IInv => EndedRunIsRecorded
  BY DEF IInv, LedgerInv, Leaving, EndedRunIsRecorded
<1> QED
  BY <1>1, RunInvariant, PTL

\* Only a broken pipe and an adapter that cannot be killed keep the lock or the
\* handlers beyond the end of run().
THEOREM EndsReleaseTheLock == Spec => []EndedRunReleasesLock
<1>1. IInv => EndedRunReleasesLock
  BY DEF IInv, ReleaseInv, EndedRunReleasesLock
<1> QED
  BY <1>1, RunInvariant, PTL
=============================================================================
