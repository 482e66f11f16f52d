--------------------------- MODULE Go2StackProofs ---------------------------
(***************************************************************************)
(* Proofs about Go2Stack, for any number of runs, requests and faults, and *)
(* any types of job.                                                       *)
(*                                                                         *)
(* The Bridge keeps its invariant through what the adapters post and       *)
(* through its restart, so that what Go2BridgeProofs shows of it holds     *)
(* here too.  Two runs in the Bridge at a time have met (SoloInv).  A run  *)
(* that met no other is therefore alone with the state, the cancellation   *)
(* and the process of the Bridge: while its motion goes on and no stop was *)
(* asked for, the state is ACTION_RUNNING, and then it is ACTION_DONE only *)
(* if the helper did its work (StateInv); and its stops find the process   *)
(* they noted (StopInv).  No status is asked for once a run has cancelled  *)
(* (LinesInv), so what a run takes for a success is the end of its motion  *)
(* (JobInv).                                                               *)
(***************************************************************************)
EXTENDS Go2Stack, Go2BridgeProofs, SequenceTheorems, WellFoundedInduction

\* A request is a run's from the moment it asks for anything; no adapter asks
\* for a turn.
OwnerInv == \A r \in Requests : /\ kind[r] = "none" <=> owner[r] = NoRun
                                /\ kind[r] # "turn"

\* A run starts when its predecessors are over, with an adapter of its own.
RunInv ==
  /\ \A s, t \in Runs : s < t /\ run[t] # "new" => run[s] \in {"ended", "crashed"}
  /\ \A s \in Runs : /\ run[s] = "new" <=> adapter[s] = "none"
                     /\ run[s] = "new" => \A r \in Requests : owner[r] # s
                     /\ run[s] = "ended" => ~AdapterUp(s)

\* An adapter waits for every request of its own that the Bridge is still to
\* answer, unless it missed an answer or was terminated.
PostedInv ==
  \A s \in Runs :
    /\ Waits(s) => posted[s] \in Requests /\ owner[posted[s]] = s
    /\ \A r \in Requests :
         owner[r] = s /\ pc[Http(r)] # "done" =>
           (Waits(s) /\ posted[s] = r) \/ s \in lost \/ adapter[s] = "killed"

Cancels == {"cancel", "timeoutCancel", "safetyCancel"}

\* The line that asks for a call.
Line(c) == IF c \in Cancels THEN "cancel" ELSE c

\* The adapter has asked the Bridge to stop the motion of a run.
Told(s) == type[s] # "STOP" /\ Stops(s) # {}

\* The lines: the start, the polls, the cancellations.  The last is that of the
\* call in progress.
Lined(s) ==
  /\ run[s] = "new" => call[s] = "start"
  /\ run[s] = "await" => inbox[s] # <<>> /\ inbox[s][Len(inbox[s])] = Line(call[s])
  /\ \A i \in 2..Len(inbox[s]) : inbox[s][i] # "start"
  /\ \A i, j \in 1..Len(inbox[s]) : i < j /\ inbox[s][i] = "cancel" => inbox[s][j] = "cancel"
  /\ Told(s) \/ (\E i \in 1..Len(inbox[s]) : inbox[s][i] = "cancel") =>
       run[s] # "loop" /\ (run[s] = "await" => call[s] \in Cancels)
  /\ Told(s) => \A i \in 1..Len(inbox[s]) : inbox[s][i] = "cancel"

LinesInv == \A s \in Runs : Lined(s)

\* What an adapter waits for is what the line in work asks for.
WaitInv ==
  \A s \in Runs : Waits(s) =>
    /\ inbox[s] = <<>> => run[s] \in {"close", "ended", "crashed"}
    /\ kind[posted[s]] = IF inbox[s] # <<>> /\ Head(inbox[s]) = "start"
                           THEN BridgeAction(type[s]) ELSE "stop"

\* A run starts one motion.
StartInv ==
  \A s \in Runs :
    /\ inbox[s] # <<>> /\ Head(inbox[s]) = "start" /\ adapter[s] = "reading" =>
         \A r \in Requests : owner[r] # s
    /\ \A r, q \in Motions(s) : r = q

\* A thread of the request is at work in the Bridge.
Engaged(r) == pc[Http(r)] \notin {"idle", "done"} \/ pc[Motion(r)] \notin {"idle", "done"}

\* Two runs in the Bridge have met.
SoloInv == \A s, o \in Runs : s # o /\ InBridge(s) /\ InBridge(o) => s \in overlapped

\* What was accepted has a thread, which starts one helper and looks at its exit
\* code last.
AcceptedInv ==
  \A r \in Requests :
    /\ result[r] = "accepted" <=> pc[Motion(r)] # "idle"
    /\ pc[Motion(r)] \in {"idle", "begin", "look", "clearPatrol", "popen"} => helper[r] = "none"
    /\ pc[Motion(r)] = "result" => helper[r] = "ok"

\* The motion has not set a final state.
UnderWay(r) == \/ pc[Http(r)] \in {"clear", "reserve", "check", "spawn"}
               \/ pc[Motion(r)] \in {"begin", "look", "clearPatrol"} \cup Driving

\* The state of the Bridge is that of a motion which nothing disturbs.
Shows(r) ==
  /\ UnderWay(r) => state = "ACTION_RUNNING"
  /\ kind[r] = "linear" /\ pc[Http(r)] \in {"reserve", "spawn"} => ~cancel
  /\ kind[r] = "linear" /\ pc[Motion(r)] \in {"begin", "look"} => ~cancel
  /\ pc[Motion(r)] \in Driving \cup {"raise"} => ~cancel
  /\ pc[Motion(r)] # "idle" /\ ~restarted =>
       state \in {"ACTION_RUNNING", "ERROR"} \/ (state = "ACTION_DONE" /\ helper[r] = "ok")

\* The run is alone in the Bridge and has not told it to stop.
Undisturbed(s) == s \notin overlapped /\ Stops(s) = {} /\ InBridge(s)

StateInv == \A s \in Runs : \A r \in Motions(s) : Undisturbed(s) => Shows(r)

\* A motion that goes on is the adapter's to end.
Watched(s, r) == \/ job[s] = "RUNNING" /\ adapter[s] # "exited"
                 \/ Waits(s) /\ posted[s] = r
                 \/ adapter[s] = "killed"

Real(s) == (\E r \in Motions(s) : helper[r] = "ok") \/ s \in overlapped \/ restarted

JobInv ==
  \A s \in Runs :
    /\ run[s] = "new" => job[s] = "none" /\ outcome[s] = "none"
    /\ job[s] = "RUNNING" => \E r \in Motions(s) : pc[Motion(r)] # "idle"
    /\ s \notin lost \cup overlapped /\ Stops(s) = {} =>
         \A r \in Motions(s) : pc[Motion(r)] # "idle" /\ UnderWay(r) => Watched(s, r)
    /\ run[s] \in {"await", "loop"} /\ job[s] = "SUCCEEDED" /\ type[s] # "STOP" => Real(s)

\* The process of a run that is alone is the active one, and its stops find it.
StopInv ==
  \A s \in Runs \ overlapped : \A r \in Motions(s) :
    /\ pc[Motion(r)] \in {"wait", "unregister"} => active = r
    /\ \A q \in Stops(s) : r \in registered[q] /\ r \in Moving =>
         /\ pc[Http(q)] \notin {"zero", "raise", "done"}
         /\ pc[Http(q)] = "reap" => target[Http(q)] = r

SInv == /\ STypeOK /\ IInv /\ OwnerInv /\ RunInv /\ PostedInv /\ LinesInv /\ WaitInv
        /\ StartInv /\ SoloInv /\ AcceptedInv /\ StateInv /\ JobInv /\ StopInv
        /\ SucceededIsReal

-----------------------------------------------------------------------------

RunsOK ==
  /\ run \in [Runs -> {"new", "await", "loop", "close", "ended", "crashed"}]
  /\ call \in [Runs -> {"start", "status", "cancel", "timeoutCancel", "safetyCancel"}]
  /\ outcome \in [Runs -> {"none", "SUCCEEDED", "FAILED", "CANCELLED", "TIMED_OUT"}]
  /\ type \in [Runs -> {"none", "DELIVERY", "PATROL", "INSPECTION", "STOP"}]
AdaptersOK ==
  /\ inbox \in [Runs -> Seq({"start", "status", "cancel"})]
  /\ adapter \in [Runs -> {"none", "reading", "waiting", "exited", "killed"}]
  /\ job \in [Runs -> {"none", "RUNNING", "SUCCEEDED", "FAILED", "CANCELLED"}]
  /\ posted \in [Runs -> Requests \cup {NoProcess}]
StackOK ==
  /\ owner \in [Requests -> Runs \cup {NoRun}]
  /\ lost \subseteq Runs /\ overlapped \subseteq Runs /\ restarted \in BOOLEAN

\* The type invariant, part by part.
LEMMA STypeParts == STypeOK <=> TypeOK /\ RunsOK /\ AdaptersOK /\ StackOK
BY DEF STypeOK, RunsOK, AdaptersOK, StackOK

-----------------------------------------------------------------------------
(***************************************************************************)
(* The steps                                                               *)
(***************************************************************************)

\* The next request exists: Post finds the least one that is unused.
LEMMA LeastRequest ==
  ASSUME NEW unused \in SUBSET Requests, unused # {}
  PROVE  LET r == CHOOSE q \in unused : \A p \in unused : q <= p IN r \in unused
<1>1. unused \subseteq Nat /\ unused # {}
  BY RequestsAssumption
<1>2. PICK q \in unused : \A p \in unused : <<p, q>> \notin OpToRel(<, Nat)
  BY <1>1, NatLessThanWellFounded, WFMin
<1>3. \A p \in unused : q <= p
  <2> SUFFICES ASSUME NEW p \in unused PROVE q <= p
    OBVIOUS
  <2>1. q \in Nat /\ p \in Nat
    BY <1>1
  <2>2. ~(p < q)
    BY <1>2, <2>1 DEF OpToRel
  <2> QED
    BY <2>1, <2>2
<1> QED
  BY <1>3, Zenon

\* The other runs in the Bridge.
Met(s) == {o \in Runs \ {s} : InBridge(o)}

\* A POST by its request.
PostAs(s, k, r) ==
  /\ r \in Requests /\ kind[r] = "none"
  /\ Arrive(r, k)
  /\ owner' = [owner EXCEPT ![r] = s]
  /\ posted' = [posted EXCEPT ![s] = r]
  /\ adapter' = [adapter EXCEPT ![s] = "waiting"]
  /\ overlapped' = overlapped \cup (IF Met(s) = {} THEN {} ELSE Met(s) \cup {s})
  /\ UNCHANGED <<job, inbox, run, call, outcome, type, lost, restarted>>

\* A POST is by the next request.
LEMMA PostFacts ==
  ASSUME NEW s, NEW k, Post(s, k)
  PROVE  \E r \in Requests : PostAs(s, k, r)
<1> DEFINE unused == {r \in Requests : kind[r] = "none"}
           r == CHOOSE q \in unused : \A p \in unused : q <= p
<1>1. unused # {}
  BY DEF Post
<1>2. r \in unused
  BY <1>1, LeastRequest, Zenon
<1>3. PostAs(s, k, r)
  BY <1>2, Zenon DEF Post, PostAs, Met
<1> QED
  BY <1>2, <1>3

\* What an adapter posts, when, and what for.
Posting(s, k, r) ==
  /\ \/ Handling(s, "start") /\ k = BridgeAction(type[s])
     \/ Handling(s, "cancel") /\ k = "stop"
     \/ EndOfInput(s) /\ k = "stop"
  /\ PostAs(s, k, r)

\* A POST comes from an adapter that reads, and is for a motion or a stop.
LEMMA PostingKinds ==
  ASSUME NEW s, NEW k, NEW r, Posting(s, k, r)
  PROVE  adapter[s] = "reading" /\ k \in {"linear", "patrol", "stop"}
BY DEF Posting, Handling, EndOfInput, BridgeAction

\* All three requests are POSTs of that kind.
LEMMA PostingFacts ==
  ASSUME NEW s \in Runs, HandleStart(s) \/ HandleCancel(s) \/ Shutdown(s)
  PROVE  \E k, r : Posting(s, k, r)
<1>1. CASE HandleStart(s)
  BY <1>1, PostFacts, Zenon DEF HandleStart, Posting
<1>2. CASE HandleCancel(s) \/ Shutdown(s)
  BY <1>2, PostFacts, Zenon DEF HandleCancel, Shutdown, Posting
<1> QED
  BY <1>1, <1>2

\* The adapters ask for what the Bridge's own specification allows.
LEMMA PostingIsNext ==
  ASSUME NEW s, NEW k, NEW r, Posting(s, k, r)
  PROVE  Next
<1>1. r \in Requests /\ Arrive(r, k) /\ k \in {"linear", "patrol", "stop"}
  BY PostingKinds DEF Posting, PostAs
<1> QED
  BY <1>1, PostsAssumption DEF Next

BridgeRuns == \E r \in Requests : RequestStep(r) \/ RequestFails(r) \/ HelperEnds(r)

\* The steps of a run and its adapter that leave the Bridge alone.
LocalStep(s) ==
  \/ StartRun(s) \/ Ask(s) \/ Close(s) \/ GiveUp(s) \/ Crash(s)
  \/ RefuseCancel(s) \/ HandleStatus(s) \/ StatusFails(s) \/ PostFails(s)
  \/ Started(s) \/ Cancelled(s) \/ HttpFails(s)
  \/ ShutdownDone(s) \/ ShutdownFails(s) \/ Exit(s) \/ Kill(s)

\* The steps of the stack: of a run or its adapter, a POST, of the Bridge, a restart.
LEMMA SNextCases ==
  ASSUME SNext
  PROVE  \/ \E s \in Runs : LocalStep(s)
         \/ \E s \in Runs : \E k, r : Posting(s, k, r)
         \/ BridgeRuns /\ UNCHANGED <<runtimeVars, adapterVars, stackVars>>
         \/ Restart
<1>1. ASSUME NEW s \in Runs, RunStep(s) \/ AdapterStep(s) \/ RunFault(s) \/ AdapterFault(s)
      PROVE  LocalStep(s) \/ \E k, r : Posting(s, k, r)
  BY <1>1, PostingFacts, Zenon DEF RunStep, AdapterStep, RunFault, AdapterFault, LocalStep
<1>2. ASSUME BridgeStep \/ BridgeFails
      PROVE  BridgeRuns /\ UNCHANGED <<runtimeVars, adapterVars, stackVars>>
  BY <1>2, Zenon DEF BridgeStep, BridgeFails, BridgeRuns
<1> QED
  BY <1>1, <1>2, Zenon DEF SNext

\* The Bridge is no part of a local step.
LEMMA LocalLeavesBridge ==
  ASSUME NEW s, LocalStep(s)
  PROVE  UNCHANGED <<vars, owner, overlapped, restarted>>
BY Zenon DEF LocalStep, StartRun, Ask, Close, GiveUp, Crash, RefuseCancel, HandleStatus,
   StatusFails, PostFails, Started, Cancelled, HttpFails, ShutdownDone, ShutdownFails, Exit,
   Kill, stackVars

\* The Bridge by itself takes no request, and what it has ended stays ended.
LEMMA BridgeFrame ==
  ASSUME TypeOK, ThreadInv, BridgeRuns
  PROVE  /\ UNCHANGED <<kind, accepted, registered>>
         /\ \A q \in Requests :
              /\ pc[Http(q)] = "done" => pc'[Http(q)] = "done"
              /\ pc[Http(q)] = "idle" <=> pc'[Http(q)] = "idle"
<1> DEFINE Frame ==
      /\ UNCHANGED <<kind, accepted, registered>>
      /\ \A q \in Requests :
           /\ pc[Http(q)] = "done" => pc'[Http(q)] = "done"
           /\ pc[Http(q)] = "idle" <=> pc'[Http(q)] = "idle"
<1> PcOK /\ RequestsOK
  BY TypeParts
<1> USE ThreadFacts DEF Goto, Answer, shared, history, PcOK
<1>1. ASSUME NEW r \in Requests, HttpStep(r) \/ SpawnFails(r) \/ ZeroFails(r)
      PROVE  Frame
  <2>1. CASE Dispatch(r)
    <3>1. kind[r] \in Actions
      BY <2>1 DEF RequestsOK, Dispatch, ThreadInv, HttpAt
    <3> QED
      BY <2>1, <3>1 DEF Dispatch, Actions
  <2>2. CASE (HttpStep(r) /\ ~Dispatch(r)) \/ SpawnFails(r) \/ ZeroFails(r)
    BY <2>2 DEF HttpStep, ClearCancel, Reserve, CheckPatrol, RefusePatrol, Spawn, ZeroDone,
       ZeroFails,
       SpawnFails
  <2> QED
    BY <1>1, <2>1, <2>2
<1>2. ASSUME NEW r \in Requests, MotionStep(r)
      PROVE  Frame
  BY <1>2 DEF MotionStep, Begin, Look, ClearPatrol, ExceptCancelled, Finally
<1>3. ASSUME NEW r \in Requests, NEW t \in {Http(r), Motion(r)}, HelperStep(t) \/ PopenFails(t)
      PROVE  Frame
  BY <1>3 DEF HelperStep, Popen, Register, PopenFails, Wait, Unregister, Succeed, Fail,
     ExceptError
<1>4. ASSUME NEW r \in Requests, NEW t \in {Http(r), Motion(r)}, StopStep(t)
      PROVE  Frame
  BY <1>4 DEF StopStep, SetCancel, Snapshot, Reap, ZeroCleanup
<1>5. ASSUME NEW r \in Requests, HelperEnds(r)
      PROVE  Frame
  BY <1>5 DEF HelperEnds
<1> QED
  BY <1>1, <1>2, <1>3, <1>4, <1>5 DEF BridgeRuns, RequestStep, RequestFails

\* A restart of the Bridge ends its threads and helpers: nothing of what its
\* invariant speaks about is left.
LEMMA RestartKeeps == IInv /\ Restart => IInv'
<1> SUFFICES ASSUME IInv, Restart PROVE IInv'
  OBVIOUS
<1> TypeOK /\ ThreadInv
  BY DEF IInv
<1> PcOK /\ RequestsOK /\ SwitchesOK /\ HelpersOK /\ HistoryOK
  BY TypeParts
<1> USE ThreadFacts
<1>1. \A t \in Threads : pc'[t] \in {"idle", "done"} /\ (pc'[t] = "idle" <=> pc[t] = "idle")
  BY DEF Restart
<1>2. \A r \in Requests : ~Alive(r)'
  BY DEF Restart, Alive, HelpersOK
<1>3. TypeOK'
  <2>1. PcOK'
    BY PcFacts DEF Restart, PcOK
  <2>2. RequestsOK' /\ SwitchesOK' /\ HistoryOK'
    BY DEF Restart, RequestsOK, SwitchesOK, HistoryOK
  <2>3. HelpersOK'
    BY DEF Restart, HelpersOK
  <2> QED
    BY <2>1, <2>2, <2>3 DEF TypeOK, PcOK, RequestsOK, SwitchesOK, HelpersOK, HistoryOK
<1>4. ThreadInv'
  BY <1>1 DEF Restart, ThreadInv, HttpAt, MotionAt, Ending, RequestsOK, Actions
<1>5. HelperInv' /\ HolderInv' /\ EarlyInv'
  BY <1>1, <1>2 DEF Restart, HelperInv, HolderInv, Holds, EarlyInv, Alive
<1>6. NotedInv'
  <2>1. NotedInv
    BY DEF IInv
  <2> QED
    BY <1>1, <2>1 DEF Restart, NotedInv, Ending, HistoryOK
<1>7. ActiveInv' /\ FoundInv'
  BY <1>1, <1>2 DEF Restart, ActiveInv, FoundInv, Moving, Alive
<1> QED
  BY <1>3, <1>4, <1>5, <1>6, <1>7 DEF IInv

\* So the Bridge keeps its invariant.
LEMMA StackKeepsBridge == IInv /\ [SNext]_svars => IInv'
<1> SUFFICES ASSUME IInv, [SNext]_svars PROVE IInv'
  OBVIOUS
<1>1. IInv /\ [Next]_vars => IInv'
  BY BridgeStaysIn
<1>2. ASSUME NEW s \in Runs, LocalStep(s) PROVE IInv'
  BY <1>1, <1>2, LocalLeavesBridge
<1>3. ASSUME NEW s, NEW k, NEW r, Posting(s, k, r) PROVE IInv'
  BY <1>1, <1>3, PostingIsNext
<1>4. ASSUME BridgeRuns PROVE IInv'
  <2>1. PICK r \in Requests : RequestStep(r) \/ RequestFails(r) \/ HelperEnds(r)
    BY <1>4 DEF BridgeRuns
  <2>2. Next
    BY <2>1 DEF Next
  <2> QED
    BY <1>1, <2>2
<1>5. CASE UNCHANGED svars
  BY <1>1, <1>5 DEF svars
<1> QED
  BY <1>2, <1>3, <1>4, <1>5, RestartKeeps, SNextCases

-----------------------------------------------------------------------------
(***************************************************************************)
(* Types                                                                   *)
(***************************************************************************)

Lines == {"start", "status", "cancel"}
Answers == {"error", "RUNNING", "SUCCEEDED", "FAILED", "CANCELLED"}

\* What run and inbox are, apart from the other variables.
ConversationOK ==
  /\ run \in [Runs -> {"new", "await", "loop", "close", "ended", "crashed"}]
  /\ call \in [Runs -> {"start", "status", "cancel", "timeoutCancel", "safetyCancel"}]
  /\ outcome \in [Runs -> {"none", "SUCCEEDED", "FAILED", "CANCELLED", "TIMED_OUT"}]
  /\ inbox \in [Runs -> Seq(Lines)]

\* What Conclude sets is of its type.
LEMMA ConcludeTypes ==
  ASSUME NEW s \in Runs, NEW a \in Answers, NEW rest \in Seq(Lines), ConversationOK,
         Conclude(s, a, rest)
  PROVE  ConversationOK'
<1>1. Append(rest, "cancel") \in Seq(Lines)
  BY DEF Lines
<1>2. inbox' \in [Runs -> Seq(Lines)]
  <2> DEFINE longer == Append(rest, "cancel")
  <2> HIDE DEF longer
  <2>1. longer \in Seq(Lines)
    BY <1>1 DEF longer
  <2>2. inbox' = [inbox EXCEPT ![s] = longer] \/ inbox' = [inbox EXCEPT ![s] = rest]
    BY Zenon DEF Conclude, longer
  <2> QED
    BY <2>1, <2>2, Zenon DEF ConversationOK
<1>3. run' \in [Runs -> {"new", "await", "loop", "close", "ended", "crashed"}]
  BY DEF Conclude, ConversationOK
<1>4. call' \in [Runs -> {"start", "status", "cancel", "timeoutCancel", "safetyCancel"}]
  BY DEF Conclude, ConversationOK
<1>5. outcome' \in [Runs -> {"none", "SUCCEEDED", "FAILED", "CANCELLED", "TIMED_OUT"}]
  <2>1. CASE a = "RUNNING" \/ UNCHANGED outcome
    BY <2>1 DEF Conclude, ConversationOK
  <2>2. CASE a # "RUNNING" /\ outcome' = [outcome EXCEPT ![s] = Recorded(call[s], a)]
                           /\ (a = "error" => call[s] \in {"timeoutCancel", "safetyCancel"})
    <3>1. Recorded(call[s], a) \in {"SUCCEEDED", "FAILED", "CANCELLED", "TIMED_OUT"}
      BY <2>2 DEF Recorded, ConversationOK, Answers
    <3> QED
      BY <2>2, <3>1 DEF ConversationOK
  <2> QED
    BY <2>1, <2>2 DEF Conclude
<1> QED
  BY <1>2, <1>3, <1>4, <1>5 DEF ConversationOK

\* So is what Respond sets.
LEMMA RespondTypes ==
  ASSUME NEW s \in Runs, NEW a \in Answers, ConversationOK, inbox[s] # <<>>, Respond(s, a)
  PROVE  ConversationOK'
<1>1. <<>> \in Seq(Lines) /\ Tail(inbox[s]) \in Seq(Lines)
  BY DEF ConversationOK
<1>2. CASE run[s] = "await" /\ Len(inbox[s]) = 1
  BY <1>1, <1>2, ConcludeTypes, Zenon DEF Respond
<1>3. CASE ~(run[s] = "await" /\ Len(inbox[s]) = 1)
  <2>1. UNCHANGED <<run, call, outcome>>
    BY <1>3, Zenon DEF Respond
  <2>2. inbox' = [inbox EXCEPT ![s] = <<>>] \/ inbox' = [inbox EXCEPT ![s] = Tail(inbox[s])]
    BY <1>3, Zenon DEF Respond
  <2>3. inbox' \in [Runs -> Seq(Lines)]
    BY <1>1, <2>2, Zenon DEF ConversationOK
  <2> QED
    BY <2>1, <2>3 DEF ConversationOK
<1> QED
  BY <1>2, <1>3

\* A local step keeps the types.
LEMMA LocalTypes ==
  ASSUME NEW s \in Runs, LocalStep(s), STypeOK
  PROVE  STypeOK'
<1> TypeOK /\ RunsOK /\ AdaptersOK /\ StackOK /\ ConversationOK
  BY STypeParts DEF RunsOK, AdaptersOK, ConversationOK, Lines
<1>a. TypeOK'
  BY LocalLeavesBridge DEF vars, TypeOK, shared, history
<1>b. StackOK'
  BY LocalLeavesBridge DEF StackOK, LocalStep, StartRun, Ask, Close, GiveUp, Crash,
     RefuseCancel, HandleStatus, StatusFails, PostFails, Started, Cancelled, HttpFails,
     ShutdownDone, ShutdownFails, Exit, Kill, stackVars
<1>c. type' \in [Runs -> {"none", "DELIVERY", "PATROL", "INSPECTION", "STOP"}]
  <2>1. CASE StartRun(s)
    <3>1. PICK t \in Types[s] : type' = [type EXCEPT ![s] = t]
      BY <2>1 DEF StartRun
    <3>2. t \in {"DELIVERY", "PATROL", "INSPECTION", "STOP"}
      BY TypesAssumption
    <3> QED
      BY <3>1, <3>2 DEF RunsOK
  <2>2. CASE UNCHANGED type
    BY <2>2 DEF RunsOK
  <2> QED
    BY <2>1, <2>2, Zenon DEF LocalStep, StartRun, Ask, Close, GiveUp, Crash, RefuseCancel,
       HandleStatus, StatusFails, PostFails, Started, Cancelled, HttpFails, ShutdownDone,
       ShutdownFails, Exit, Kill, runtimeVars
<1>d. /\ adapter' \in [Runs -> {"none", "reading", "waiting", "exited", "killed"}]
      /\ job' \in [Runs -> {"none", "RUNNING", "SUCCEEDED", "FAILED", "CANCELLED"}]
      /\ posted' \in [Runs -> Requests \cup {NoProcess}]
  <2> USE DEF AdaptersOK, adapterVars, MapBridgeState
  <2>1. CASE StartRun(s)
    BY <2>1 DEF StartRun
  <2>2. CASE Ask(s)
    BY <2>2 DEF Ask
  <2>3. CASE Close(s)
    BY <2>3 DEF Close
  <2>4. CASE GiveUp(s)
    BY <2>4 DEF GiveUp
  <2>5. CASE Crash(s)
    BY <2>5 DEF Crash
  <2>6. CASE RefuseCancel(s)
    BY <2>6 DEF RefuseCancel
  <2>7. CASE HandleStatus(s)
    BY <2>7 DEF HandleStatus
  <2>8. CASE StatusFails(s)
    BY <2>8 DEF StatusFails
  <2>9. CASE PostFails(s)
    BY <2>9 DEF PostFails
  <2>10. CASE Started(s)
    BY <2>10 DEF Started
  <2>11. CASE Cancelled(s)
    BY <2>11 DEF Cancelled
  <2>12. CASE HttpFails(s)
    BY <2>12 DEF HttpFails
  <2>13. CASE ShutdownDone(s)
    BY <2>13 DEF ShutdownDone
  <2>14. CASE ShutdownFails(s)
    BY <2>14 DEF ShutdownFails
  <2>15. CASE Exit(s)
    BY <2>15 DEF Exit
  <2>16. CASE Kill(s)
    BY <2>16 DEF Kill
  <2> QED
    BY <2>1, <2>2, <2>3, <2>4, <2>5, <2>6, <2>7, <2>8, <2>9, <2>10, <2>11, <2>12, <2>13, <2>14,
       <2>15, <2>16 DEF LocalStep
<1>e. ConversationOK'
  <2>1. CASE StartRun(s)
    <3>1. <<"start">> \in Seq(Lines)
      BY DEF Lines
    <3>2. inbox' \in [Runs -> Seq(Lines)]
      BY <2>1, <3>1, Zenon DEF StartRun, ConversationOK
    <3> QED
      BY <2>1, <3>2 DEF StartRun, ConversationOK
  <2>2. CASE Ask(s)
    <3>1. PICK c \in {"status", "cancel", "timeoutCancel"} :
            /\ call' = [call EXCEPT ![s] = c]
            /\ inbox' = [inbox EXCEPT ![s] = Append(@, IF c = "status" THEN c ELSE "cancel")]
      BY <2>2 DEF Ask
    <3>2. Append(inbox[s], IF c = "status" THEN c ELSE "cancel") \in Seq(Lines)
      BY DEF ConversationOK, Lines
    <3>3. inbox' \in [Runs -> Seq(Lines)]
      BY <3>1, <3>2, Zenon DEF ConversationOK
    <3> QED
      BY <2>2, <3>1, <3>3 DEF Ask, ConversationOK
  <2>3. CASE Close(s)
    BY <2>3 DEF Close, ConversationOK, runtimeVars, adapterVars
  <2>4. CASE GiveUp(s)
    <3>1. inbox[s] \in Seq(Lines)
      BY DEF ConversationOK
    <3> QED
      BY <2>4, <3>1, ConcludeTypes DEF GiveUp, Answers
  <2>5. CASE Crash(s)
    BY <2>5 DEF Crash, ConversationOK, runtimeVars, adapterVars
  <2>6. CASE RefuseCancel(s)
    BY <2>6, RespondTypes DEF RefuseCancel, Handling, Answers
  <2>7. CASE HandleStatus(s)
    <3>1. (IF job[s] = "RUNNING" THEN MapBridgeState(state) ELSE job[s]) \in Answers
      BY <2>7 DEF HandleStatus, AdaptersOK, MapBridgeState, Answers
    <3> QED
      BY <2>7, <3>1, RespondTypes, Zenon DEF HandleStatus, Handling
  <2>8. CASE StatusFails(s)
    BY <2>8, RespondTypes DEF StatusFails, Handling, Answers
  <2>9. CASE PostFails(s)
    BY <2>9, RespondTypes DEF PostFails, Handling, Answers
  <2>10. CASE Started(s)
    BY <2>10, RespondTypes DEF Started, Answers
  <2>11. CASE Cancelled(s)
    BY <2>11, RespondTypes DEF Cancelled, Handling, Answers
  <2>12. CASE HttpFails(s)
    BY <2>12, RespondTypes DEF HttpFails, Handling, Answers
  <2>13. CASE ShutdownDone(s)
    BY <2>13 DEF ShutdownDone, ConversationOK, runtimeVars, adapterVars
  <2>14. CASE ShutdownFails(s)
    BY <2>14 DEF ShutdownFails, ConversationOK, runtimeVars, adapterVars
  <2>15. CASE Exit(s)
    BY <2>15 DEF Exit, ConversationOK, runtimeVars, adapterVars
  <2>16. CASE Kill(s)
    BY <2>16 DEF Kill, ConversationOK, runtimeVars, adapterVars
  <2> QED
    BY <2>1, <2>2, <2>3, <2>4, <2>5, <2>6, <2>7, <2>8, <2>9, <2>10, <2>11, <2>12, <2>13, <2>14,
       <2>15, <2>16 DEF LocalStep
<1> QED
  BY <1>a, <1>b, <1>c, <1>d, <1>e DEF STypeOK, StackOK, ConversationOK, Lines

\* Every step does.
LEMMA StackTypes ==
  ASSUME STypeOK, IInv, [SNext]_svars
  PROVE  STypeOK'
<1>1. TypeOK'
  BY StackKeepsBridge DEF IInv
<1>2. ASSUME NEW s \in Runs, LocalStep(s) PROVE STypeOK'
  BY <1>2, LocalTypes
<1>3. ASSUME NEW s \in Runs, NEW k, NEW r, Posting(s, k, r) PROVE STypeOK'
  <2> RunsOK /\ AdaptersOK /\ StackOK
    BY STypeParts
  <2>1. RunsOK'
    BY <1>3 DEF RunsOK, Posting, PostAs
  <2>2. AdaptersOK'
    BY <1>3 DEF AdaptersOK, Posting, PostAs
  <2>3. StackOK'
    <3>1. Met(s) \subseteq Runs
      BY DEF Met
    <3>2. overlapped' \subseteq Runs
      BY <1>3, <3>1 DEF StackOK, Posting, PostAs
    <3> QED
      BY <1>3, <3>2 DEF StackOK, Posting, PostAs
  <2> QED
    BY <1>1, <2>1, <2>2, <2>3 DEF STypeOK, RunsOK, AdaptersOK, StackOK
<1>4. CASE (BridgeRuns \/ UNCHANGED vars) /\ UNCHANGED <<runtimeVars, adapterVars, stackVars>>
  BY <1>1, <1>4 DEF STypeOK, runtimeVars, adapterVars, stackVars
<1>5. CASE Restart
  BY <1>1, <1>5 DEF STypeOK, Restart, runtimeVars, adapterVars
<1> QED
  BY <1>2, <1>3, <1>4, <1>5, SNextCases DEF svars

-----------------------------------------------------------------------------
(***************************************************************************)
(* Runs and their adapters                                                 *)
(***************************************************************************)

\* A run and its adapter act for themselves.
LEMMA LocalFrame ==
  ASSUME NEW s \in Runs, LocalStep(s), STypeOK
  PROVE  /\ \A o \in Runs \ {s} :
              /\ run'[o] = run[o] /\ call'[o] = call[o] /\ outcome'[o] = outcome[o]
              /\ type'[o] = type[o] /\ inbox'[o] = inbox[o] /\ adapter'[o] = adapter[o]
              /\ job'[o] = job[o] /\ posted'[o] = posted[o]
         /\ lost \subseteq lost' /\ lost' \subseteq lost \cup {s}
<1> RunsOK /\ AdaptersOK /\ StackOK
  BY STypeParts
<1> USE DEF runtimeVars, adapterVars, stackVars, RunsOK, AdaptersOK, StackOK
<1>1. CASE StartRun(s)
  BY <1>1 DEF StartRun
<1>2. CASE Ask(s)
  BY <1>2 DEF Ask
<1>3. CASE Close(s)
  BY <1>3 DEF Close
<1>4. CASE GiveUp(s)
  BY <1>4 DEF GiveUp, Conclude
<1>5. CASE Crash(s)
  BY <1>5 DEF Crash
<1>6. CASE RefuseCancel(s)
  BY <1>6 DEF RefuseCancel, Respond, Conclude
<1>7. CASE HandleStatus(s)
  BY <1>7 DEF HandleStatus, Respond, Conclude
<1>8. CASE StatusFails(s)
  BY <1>8 DEF StatusFails, Respond, Conclude
<1>9. CASE PostFails(s)
  BY <1>9 DEF PostFails, Respond, Conclude
<1>10. CASE Started(s)
  BY <1>10 DEF Started, Respond, Conclude
<1>11. CASE Cancelled(s)
  BY <1>11 DEF Cancelled, Respond, Conclude
<1>12. CASE HttpFails(s)
  BY <1>12 DEF HttpFails, Respond, Conclude
<1>13. CASE ShutdownDone(s)
  BY <1>13 DEF ShutdownDone
<1>14. CASE ShutdownFails(s)
  BY <1>14 DEF ShutdownFails
<1>15. CASE Exit(s)
  BY <1>15 DEF Exit
<1>16. CASE Kill(s)
  BY <1>16 DEF Kill
<1> QED
  BY <1>1, <1>2, <1>3, <1>4, <1>5, <1>6, <1>7, <1>8, <1>9, <1>10, <1>11, <1>12, <1>13, <1>14,
     <1>15, <1>16 DEF LocalStep

\* How far a run and its adapter get in a step.
LEMMA LocalMoves ==
  ASSUME NEW s \in Runs, LocalStep(s), STypeOK, run[s] = "new" <=> adapter[s] = "none"
  PROVE  /\ run'[s] # "new"
         /\ run[s] \in {"ended", "crashed"} => run'[s] = run[s]
         /\ run'[s] = "ended" => run[s] = "ended" \/ ~AdapterUp(s)'
         /\ run[s] = "new" => StartRun(s)
         /\ ~StartRun(s) /\ ~AdapterUp(s) => adapter'[s] = adapter[s]
         /\ ~StartRun(s) /\ adapter[s] # "none" => adapter'[s] # "none"
         /\ ~StartRun(s) => UNCHANGED type
         /\ Waits(s)' => Waits(s) /\ UNCHANGED posted
         /\ Waits(s) /\ ~Waits(s)' => \/ Answered(s) \/ s \in lost' \/ adapter'[s] = "killed"
<1> RunsOK /\ AdaptersOK /\ StackOK
  BY STypeParts
<1> USE DEF runtimeVars, adapterVars, stackVars, RunsOK, AdaptersOK, StackOK, AdapterUp, Waits,
       Handling, EndOfInput
<1>1. CASE StartRun(s)
  BY <1>1 DEF StartRun
<1>2. CASE Ask(s)
  BY <1>2 DEF Ask
<1>3. CASE Close(s)
  BY <1>3 DEF Close
<1>4. CASE GiveUp(s)
  BY <1>4 DEF GiveUp, Conclude
<1>5. CASE Crash(s)
  BY <1>5 DEF Crash
<1>6. CASE RefuseCancel(s)
  BY <1>6 DEF RefuseCancel, Respond, Conclude
<1>7. CASE HandleStatus(s)
  BY <1>7 DEF HandleStatus, Respond, Conclude
<1>8. CASE StatusFails(s)
  BY <1>8 DEF StatusFails, Respond, Conclude
<1>9. CASE PostFails(s)
  BY <1>9 DEF PostFails, Respond, Conclude
<1>10. CASE Started(s)
  BY <1>10 DEF Started, Respond, Conclude
<1>11. CASE Cancelled(s)
  BY <1>11 DEF Cancelled, Respond, Conclude
<1>12. CASE HttpFails(s)
  BY <1>12 DEF HttpFails, Respond, Conclude
<1>13. CASE ShutdownDone(s)
  BY <1>13 DEF ShutdownDone
<1>14. CASE ShutdownFails(s)
  BY <1>14 DEF ShutdownFails
<1>15. CASE Exit(s)
  BY <1>15 DEF Exit
<1>16. CASE Kill(s)
  BY <1>16 DEF Kill
<1> QED
  BY <1>1, <1>2, <1>3, <1>4, <1>5, <1>6, <1>7, <1>8, <1>9, <1>10, <1>11, <1>12, <1>13, <1>14,
     <1>15, <1>16 DEF LocalStep

\* Only a POST gives a request to a run, and what it asks for.
LEMMA OwnerStep == STypeOK /\ IInv /\ OwnerInv /\ [SNext]_svars => OwnerInv'
<1> SUFFICES ASSUME STypeOK, IInv, OwnerInv, [SNext]_svars PROVE OwnerInv'
  OBVIOUS
<1>1. ASSUME NEW s \in Runs, LocalStep(s) PROVE OwnerInv'
  BY <1>1, LocalLeavesBridge DEF OwnerInv, vars
<1>2. ASSUME NEW s \in Runs, NEW k, NEW r, Posting(s, k, r) PROVE OwnerInv'
  <2> RequestsOK /\ StackOK
    BY STypeParts, TypeParts
  <2>1. s # NoRun /\ k # "none" /\ k # "turn"
    BY <1>2, RunsAssumption, PostingKinds DEF Runs, NoRun
  <2>2. kind' = [kind EXCEPT ![r] = k] /\ owner' = [owner EXCEPT ![r] = s] /\ r \in Requests
    BY <1>2 DEF Posting, PostAs, Arrive
  <2> QED
    BY <2>1, <2>2 DEF OwnerInv, RequestsOK, StackOK
<1>3. CASE BridgeRuns /\ UNCHANGED <<runtimeVars, adapterVars, stackVars>>
  BY <1>3, BridgeFrame DEF IInv, OwnerInv, stackVars
<1>4. CASE Restart \/ UNCHANGED svars
  BY <1>4 DEF Restart, OwnerInv, svars, vars, stackVars
<1> QED
  BY <1>1, <1>2, <1>3, <1>4, SNextCases

\* The runs are one after the other.
LEMMA RunOrderStep == STypeOK /\ RunInv /\ [SNext]_svars => RunInv'
<1> SUFFICES ASSUME STypeOK, RunInv, [SNext]_svars PROVE RunInv'
  OBVIOUS
<1>1. ASSUME NEW s \in Runs, LocalStep(s) PROVE RunInv'
  <2> UNCHANGED owner
    BY <1>1, LocalLeavesBridge
  <2> run[s] = "new" <=> adapter[s] = "none"
    BY DEF RunInv
  <2>1. ASSUME NEW o \in Runs, NEW t \in Runs, o < t, run'[t] # "new"
        PROVE  run'[o] \in {"ended", "crashed"}
    <3>1. CASE run[t] # "new"
      BY <1>1, <2>1, <3>1, LocalFrame, LocalMoves DEF RunInv
    <3>2. CASE run[t] = "new"
      <4>1. t = s
        BY <1>1, <2>1, <3>2, LocalFrame
      <4>2. StartRun(s)
        BY <1>1, <3>2, <4>1, LocalMoves
      <4>3. o = s - 1 \/ o < s - 1
        BY <2>1, <4>1 DEF Runs
      <4>4. s > 1 /\ s - 1 \in Runs
        BY <2>1, <4>1, RunsAssumption DEF Runs
      <4>5. run[s - 1] \in {"ended", "crashed"}
        BY <4>2, <4>4 DEF StartRun
      <4>6. run[o] \in {"ended", "crashed"}
        BY <4>3, <4>4, <4>5 DEF RunInv
      <4> QED
        BY <1>1, <4>1, <4>6, <2>1, LocalFrame DEF Runs
    <3> QED
      BY <3>1, <3>2
  <2>2. ASSUME NEW o \in Runs
        PROVE  /\ run'[o] = "new" <=> adapter'[o] = "none"
               /\ run'[o] = "new" => \A r \in Requests : owner'[r] # o
               /\ run'[o] = "ended" => ~AdapterUp(o)'
    <3>1. CASE o # s
      BY <1>1, <3>1, LocalFrame DEF RunInv, AdapterUp
    <3>2. CASE o = s /\ StartRun(s)
      BY <1>1, <3>2, LocalMoves DEF StartRun, STypeOK
    <3>3. CASE o = s /\ ~StartRun(s)
      BY <1>1, <3>3, LocalMoves DEF RunInv, AdapterUp
    <3> QED
      BY <3>1, <3>2, <3>3
  <2> QED
    BY <2>1, <2>2 DEF RunInv
<1>2. ASSUME NEW s \in Runs, NEW k, NEW r, Posting(s, k, r) PROVE RunInv'
  <2> UNCHANGED run /\ AdapterUp(s)
    BY <1>2, PostingKinds DEF Posting, PostAs, AdapterUp
  <2>1. run[s] # "new" /\ run[s] # "ended"
    BY DEF RunInv, AdapterUp
  <2>2. \A o \in Runs : adapter'[o] = IF o = s THEN "waiting" ELSE adapter[o]
    BY <1>2 DEF Posting, PostAs, STypeOK
  <2>3. \A q \in Requests : owner'[q] = IF q = r THEN s ELSE owner[q]
    BY <1>2 DEF Posting, PostAs, STypeOK
  <2> QED
    BY <2>1, <2>2, <2>3 DEF RunInv, AdapterUp
<1>3. CASE UNCHANGED <<run, adapter, owner>>
  BY <1>3 DEF RunInv, AdapterUp
<1> QED
  BY <1>1, <1>2, <1>3, SNextCases DEF svars, Restart, runtimeVars, adapterVars, stackVars

\* A request that the Bridge is still to answer is awaited, or given up.
LEMMA PostedStep ==
  STypeOK /\ IInv /\ OwnerInv /\ RunInv /\ PostedInv /\ [SNext]_svars => PostedInv'
<1> SUFFICES ASSUME STypeOK, IInv, OwnerInv, RunInv, PostedInv, [SNext]_svars PROVE PostedInv'
  OBVIOUS
<1>1. ASSUME NEW s \in Runs, LocalStep(s) PROVE PostedInv'
  <2> UNCHANGED <<owner, pc>>
    BY <1>1, LocalLeavesBridge DEF vars
  <2> run[s] = "new" <=> adapter[s] = "none"
    BY DEF RunInv
  <2>1. ASSUME NEW o \in Runs \ {s}
        PROVE  /\ Waits(o)' => posted'[o] \in Requests /\ owner'[posted'[o]] = o
               /\ \A r \in Requests : owner'[r] = o /\ pc'[Http(r)] # "done" =>
                    (Waits(o)' /\ posted'[o] = r) \/ o \in lost' \/ adapter'[o] = "killed"
    BY <1>1, LocalFrame DEF PostedInv, Waits
  <2>2. Waits(s)' => posted'[s] \in Requests /\ owner'[posted'[s]] = s
    BY <1>1, LocalMoves DEF PostedInv
  <2>3. ASSUME NEW r \in Requests, owner[r] = s, pc[Http(r)] # "done"
        PROVE  (Waits(s)' /\ posted'[s] = r) \/ s \in lost' \/ adapter'[s] = "killed"
    <3>1. CASE Waits(s) /\ posted[s] = r
      BY <1>1, <2>3, <3>1, LocalMoves DEF Answered
    <3>2. CASE s \in lost
      BY <1>1, <3>2, LocalFrame
    <3>3. CASE adapter[s] = "killed"
      <4>1. run[s] # "new"
        BY <3>3
      <4> QED
        BY <1>1, <3>3, <4>1, LocalMoves DEF StartRun, AdapterUp
    <3> QED
      BY <2>3, <3>1, <3>2, <3>3 DEF PostedInv
  <2> QED
    BY <2>1, <2>2, <2>3 DEF PostedInv
<1>2. ASSUME NEW s \in Runs, NEW k, NEW r, Posting(s, k, r) PROVE PostedInv'
  <2>1. /\ r \in Requests /\ kind[r] = "none" /\ UNCHANGED lost
        /\ \A q \in Requests : owner'[q] = IF q = r THEN s ELSE owner[q]
        /\ \A o \in Runs : /\ posted'[o] = IF o = s THEN r ELSE posted[o]
                           /\ adapter'[o] = IF o = s THEN "waiting" ELSE adapter[o]
        /\ adapter[s] = "reading"
    BY <1>2, PostingKinds DEF Posting, PostAs, STypeOK
  <2>2. \A q \in Requests : q # r => pc'[Http(q)] = pc[Http(q)]
    BY <1>2, ThreadFacts DEF Posting, PostAs, Arrive, Goto, STypeOK, TypeOK
  <2>3. owner[r] = NoRun
    BY <2>1 DEF OwnerInv
  <2>4. \A o \in Runs : o # NoRun
    BY DEF Runs, NoRun
  <2> QED
    BY <2>1, <2>2, <2>3, <2>4 DEF PostedInv, Waits
<1>3. CASE BridgeRuns /\ UNCHANGED <<runtimeVars, adapterVars, stackVars>>
  <2>1. \A r \in Requests : pc'[Http(r)] # "done" => pc[Http(r)] # "done"
    <3>1. TypeOK /\ ThreadInv
      BY DEF IInv
    <3> QED
      BY <1>3, <3>1, BridgeFrame
  <2> QED
    BY <1>3, <2>1 DEF PostedInv, Waits, adapterVars, stackVars
<1>4. CASE Restart
  <2>1. \A r \in Requests : pc'[Http(r)] # "done" => pc[Http(r)] # "done"
    BY <1>4, ThreadFacts DEF Restart
  <2> QED
    BY <1>4, <2>1 DEF Restart, PostedInv, Waits, adapterVars
<1>5. CASE UNCHANGED svars
  BY <1>5 DEF svars, vars, PostedInv, Waits, adapterVars, stackVars
<1> QED
  BY <1>1, <1>2, <1>3, <1>4, <1>5, SNextCases

-----------------------------------------------------------------------------
(***************************************************************************)
(* The requests in the Bridge                                              *)
(***************************************************************************)

\* No adapter asks for a turn: the helpers are those of motion threads.
LEMMA MotionsPopen ==
  ASSUME TypeOK, ThreadInv, OwnerInv, NEW r \in Requests, NEW t \in {Http(r), Motion(r)}, Popen(t)
  PROVE  t = Motion(r)
<1> RequestsOK
  BY TypeParts
<1> QED
  BY ThreadFacts DEF Popen, Goto, RequestsOK, Actions, ThreadInv, HttpAt, Ending, OwnerInv

\* A helper is started once, and its thread looks at its exit code last.
LEMMA AcceptedBridge ==
  ASSUME TypeOK, ThreadInv, OwnerInv, AcceptedInv, BridgeRuns
  PROVE  AcceptedInv'
<1> PcOK /\ RequestsOK /\ HelpersOK
  BY TypeParts
<1>0. ASSUME NEW r \in Requests, NEW t \in {Http(r), Motion(r)}, Popen(t) PROVE t = Motion(r)
  BY <1>0, MotionsPopen
<1> USE ThreadFacts DEF Goto, Answer, shared, history, PcOK, RequestsOK, HelpersOK, ThreadInv,
       HttpAt, MotionAt, Ending, Driving, AcceptedInv, OwnerInv, Alive
<1>1. ASSUME NEW r \in Requests, HttpStep(r) \/ SpawnFails(r) \/ ZeroFails(r)
      PROVE  AcceptedInv'
  <2>1. CASE Dispatch(r)
    <3>1. kind[r] \in Actions
      BY <2>1 DEF RequestsOK, Dispatch, ThreadInv, HttpAt
    <3> QED
      BY <2>1, <3>1 DEF Dispatch, Actions
  <2>2. CASE ClearCancel(r)
    BY <2>2 DEF ClearCancel
  <2>3. CASE Reserve(r)
    BY <2>3 DEF Reserve
  <2>4. CASE CheckPatrol(r) \/ RefusePatrol(r)
    BY <2>4 DEF CheckPatrol, RefusePatrol
  <2>5. CASE Spawn(r)
    BY <2>5 DEF Spawn
  <2>6. CASE ZeroDone(r)
    BY <2>6 DEF ZeroDone
  <2>7. CASE ZeroFails(r)
    BY <2>7 DEF ZeroFails
  <2>8. CASE SpawnFails(r)
    BY <2>8 DEF SpawnFails
  <2> QED
    BY <1>1, <2>1, <2>2, <2>3, <2>4, <2>5, <2>6, <2>7, <2>8 DEF HttpStep
<1>2. ASSUME NEW r \in Requests, MotionStep(r)
      PROVE  AcceptedInv'
  BY <1>2 DEF MotionStep, Begin, Look, ClearPatrol, ExceptCancelled, Finally
<1>3. ASSUME NEW r \in Requests, NEW t \in {Http(r), Motion(r)}, HelperStep(t) \/ PopenFails(t)
      PROVE  AcceptedInv'
  <2>1. CASE Popen(t)
    <3>1. t = Motion(r)
      BY <1>0, <2>1
    <3> QED
      BY <2>1, <3>1 DEF Popen
  <2>2. CASE Register(t)
    BY <2>2 DEF Register
  <2>3. CASE PopenFails(t)
    BY <2>3 DEF PopenFails
  <2>4. CASE Wait(t)
    BY <2>4 DEF Wait
  <2>5. CASE Unregister(t)
    BY <2>5 DEF Unregister
  <2>6. CASE Succeed(t)
    BY <2>6 DEF Succeed, DidItsWork
  <2>7. CASE Fail(t)
    BY <2>7 DEF Fail, DidItsWork
  <2>8. CASE ExceptError(t)
    BY <2>8 DEF ExceptError
  <2> QED
    BY <1>3, <2>1, <2>2, <2>3, <2>4, <2>5, <2>6, <2>7, <2>8 DEF HelperStep
<1>4. ASSUME NEW r \in Requests, NEW t \in {Http(r), Motion(r)}, StopStep(t)
      PROVE  AcceptedInv'
  BY <1>4 DEF StopStep, SetCancel, Snapshot, Reap, ZeroCleanup
<1>5. ASSUME NEW r \in Requests, HelperEnds(r)
      PROVE  AcceptedInv'
  BY <1>5 DEF HelperEnds, Alive
<1> QED
  BY <1>1, <1>2, <1>3, <1>4, <1>5 DEF BridgeRuns, RequestStep, RequestFails

\* A request that has ended in the Bridge does not come back, and the exit code
\* of a helper stays.
LEMMA EngagedFrame ==
  ASSUME TypeOK, ThreadInv, OwnerInv, AcceptedInv, BridgeRuns
  PROVE
      \A q \in Requests :
        /\ pc'[Motion(q)] = "idle" => pc[Motion(q)] = "idle"
        /\ Engaged(q)' => Engaged(q)
        /\ helper[q] = "ok" => helper'[q] = "ok"
        /\ pc'[Motion(q)] # "idle" /\ UnderWay(q)' =>
             UnderWay(q) /\ (pc[Motion(q)] # "idle" \/ pc[Http(q)] = "spawn")
<1> DEFINE Frame ==
      \A q \in Requests :
        /\ pc'[Motion(q)] = "idle" => pc[Motion(q)] = "idle"
        /\ Engaged(q)' => Engaged(q)
        /\ helper[q] = "ok" => helper'[q] = "ok"
        /\ pc'[Motion(q)] # "idle" /\ UnderWay(q)' =>
             UnderWay(q) /\ (pc[Motion(q)] # "idle" \/ pc[Http(q)] = "spawn")
<1> PcOK /\ RequestsOK /\ HelpersOK
  BY TypeParts
<1>0. ASSUME NEW r \in Requests, NEW t \in {Http(r), Motion(r)}, Popen(t) PROVE t = Motion(r)
  BY <1>0, MotionsPopen
<1> USE ThreadFacts DEF Goto, Answer, shared, history, PcOK, HelpersOK, ThreadInv, HttpAt,
       MotionAt, Ending, Driving, AcceptedInv, Engaged, UnderWay, Alive
<1>1. ASSUME NEW r \in Requests, HttpStep(r) \/ SpawnFails(r) \/ ZeroFails(r)
      PROVE  Frame
  <2>1. CASE Dispatch(r)
    <3>1. kind[r] \in Actions
      BY <2>1 DEF RequestsOK, Dispatch, ThreadInv, HttpAt
    <3> QED
      BY <2>1, <3>1 DEF Dispatch, Actions
  <2>2. CASE ClearCancel(r)
    BY <2>2 DEF ClearCancel
  <2>3. CASE Reserve(r)
    BY <2>3 DEF Reserve
  <2>4. CASE CheckPatrol(r) \/ RefusePatrol(r)
    BY <2>4 DEF CheckPatrol, RefusePatrol
  <2>5. CASE Spawn(r)
    BY <2>5 DEF Spawn
  <2>6. CASE ZeroDone(r)
    BY <2>6 DEF ZeroDone
  <2>7. CASE ZeroFails(r)
    BY <2>7 DEF ZeroFails
  <2>8. CASE SpawnFails(r)
    BY <2>8 DEF SpawnFails
  <2> QED
    BY <1>1, <2>1, <2>2, <2>3, <2>4, <2>5, <2>6, <2>7, <2>8 DEF HttpStep
<1>2. ASSUME NEW r \in Requests, MotionStep(r)
      PROVE  Frame
  BY <1>2 DEF MotionStep, Begin, Look, ClearPatrol, ExceptCancelled, Finally
<1>3. ASSUME NEW r \in Requests, NEW t \in {Http(r), Motion(r)}, HelperStep(t) \/ PopenFails(t)
      PROVE  Frame
  <2>1. CASE Popen(t)
    <3>1. t = Motion(r)
      BY <1>0, <2>1
    <3> QED
      BY <2>1, <3>1 DEF Popen
  <2>2. CASE Register(t)
    BY <2>2 DEF Register
  <2>3. CASE PopenFails(t)
    BY <2>3 DEF PopenFails
  <2>4. CASE Wait(t)
    BY <2>4 DEF Wait
  <2>5. CASE Unregister(t)
    BY <2>5 DEF Unregister
  <2>6. CASE Succeed(t)
    BY <2>6 DEF Succeed, DidItsWork
  <2>7. CASE Fail(t)
    BY <2>7 DEF Fail, DidItsWork
  <2>8. CASE ExceptError(t)
    BY <2>8 DEF ExceptError
  <2> QED
    BY <1>3, <2>1, <2>2, <2>3, <2>4, <2>5, <2>6, <2>7, <2>8 DEF HelperStep
<1>4. ASSUME NEW r \in Requests, NEW t \in {Http(r), Motion(r)}, StopStep(t)
      PROVE  Frame
  BY <1>4 DEF StopStep, SetCancel, Snapshot, Reap, ZeroCleanup
<1>5. ASSUME NEW r \in Requests, HelperEnds(r)
      PROVE  Frame
  BY <1>5 DEF HelperEnds, Alive
<1> QED
  BY <1>1, <1>2, <1>3, <1>4, <1>5 DEF BridgeRuns, RequestStep, RequestFails

\* A request at work moves, and no other.
ActsAlone(r) ==
  /\ Engaged(r)
  /\ \A q \in Requests \ {r} : /\ pc'[Http(q)] = pc[Http(q)] /\ pc'[Motion(q)] = pc[Motion(q)]
                               /\ target'[Http(q)] = target[Http(q)]

\* The requests move one at a time, and only those at work.
LEMMA OneActs ==
  ASSUME NEW r \in Requests, RequestStep(r) \/ RequestFails(r), TypeOK
  PROVE  ActsAlone(r)
<1> PcOK /\ HelpersOK
  BY TypeParts
<1> USE ThreadFacts DEF Goto, PcOK, HelpersOK, ActsAlone, Engaged
<1>1. CASE HttpStep(r) \/ SpawnFails(r) \/ ZeroFails(r)
  BY <1>1 DEF HttpStep, Dispatch, ClearCancel, Reserve, CheckPatrol, Spawn, ZeroDone, ZeroFails,
     SpawnFails, RefusePatrol
<1>2. CASE MotionStep(r)
  BY <1>2 DEF MotionStep, Begin, Look, ClearPatrol, ExceptCancelled, Finally
<1>3. ASSUME NEW t \in {Http(r), Motion(r)}, HelperStep(t) \/ PopenFails(t)
      PROVE  ActsAlone(r)
  BY <1>3 DEF HelperStep, Popen, Register, PopenFails, Wait, Unregister, Succeed, Fail,
     ExceptError
<1>4. ASSUME NEW t \in {Http(r), Motion(r)}, StopStep(t)
      PROVE  ActsAlone(r)
  BY <1>4 DEF StopStep, SetCancel, Snapshot, Reap, ZeroCleanup
<1> QED
  BY <1>1, <1>2, <1>3, <1>4 DEF RequestStep, RequestFails

-----------------------------------------------------------------------------
(***************************************************************************)
(* What a run has asked of its adapter                                     *)
(***************************************************************************)

\* A run that starts has asked for nothing yet, and its adapter neither.
LEMMA StartFacts ==
  ASSUME NEW s \in Runs, StartRun(s), STypeOK, RunInv
  PROVE  /\ inbox'[s] = <<"start">> /\ run'[s] = "await" /\ adapter'[s] = "reading"
         /\ UNCHANGED <<call, outcome, job, posted, owner, kind>>
         /\ Motions(s)' = {} /\ Stops(s)' = {}
<1>1. /\ inbox'[s] = <<"start">> /\ run'[s] = "await" /\ adapter'[s] = "reading"
      /\ UNCHANGED <<call, outcome, job, posted, owner, kind>>
  BY DEF StartRun, STypeOK, vars, stackVars
<1>2. \A r \in Requests : owner[r] # s
  BY DEF StartRun, RunInv
<1> QED
  BY <1>1, <1>2 DEF Motions, Stops

\* A request that ends leaves the lines in order; the adapter answers RUNNING
\* to no cancellation.
LEMMA ConcludeLines ==
  ASSUME NEW s \in Runs, NEW a, NEW rest \in Seq(Lines), Conclude(s, a, rest), STypeOK,
         Lined(s), run[s] = "await", rest = <<>> \/ rest = inbox[s],
         a = "RUNNING" => rest = <<>> /\ call[s] \notin Cancels,
         UNCHANGED <<owner, kind, type>>
  PROVE  Lined(s)'
<1> RunsOK /\ AdaptersOK
  BY STypeParts
<1>1. Stops(s)' = Stops(s) /\ Told(s)' = Told(s)
  BY DEF Stops, Told
<1>2. CASE run'[s] = "await" /\ call'[s] = "safetyCancel" /\ inbox'[s] = Append(rest, "cancel")
  BY <1>1, <1>2 DEF Lined, Line, Cancels, Lines
<1>3. CASE a = "RUNNING" /\ run'[s] = "loop" /\ inbox'[s] = rest
  BY <1>1, <1>3 DEF Lined
<1>4. CASE run'[s] = "close" /\ inbox'[s] = rest
  BY <1>1, <1>4 DEF Lined
<1> QED
  BY <1>2, <1>3, <1>4 DEF Conclude, RunsOK, AdaptersOK

\* So does the answer of the adapter, whoever takes it.
LEMMA RespondLines ==
  ASSUME NEW s \in Runs, NEW a, Respond(s, a), STypeOK,
         Lined(s), inbox[s] # <<>>,
         a = "RUNNING" => Head(inbox[s]) # "cancel",
         UNCHANGED <<owner, kind, type>>
  PROVE  Lined(s)'
<1> RunsOK /\ AdaptersOK
  BY STypeParts
<1>1. CASE run[s] = "await" /\ Len(inbox[s]) = 1
  <2>1. Head(inbox[s]) = Line(call[s])
    BY <1>1 DEF Lined, AdaptersOK
  <2>2. a = "RUNNING" => call[s] \notin Cancels
    BY <2>1 DEF Line
  <2>3. Conclude(s, a, <<>>) /\ <<>> \in Seq(Lines)
    BY <1>1 DEF Respond
  <2> QED
    BY <1>1, <2>2, <2>3, ConcludeLines
<1>2. CASE ~(run[s] = "await" /\ Len(inbox[s]) = 1)
  <2>1. UNCHANGED <<run, call, outcome>>
    BY <1>2, Zenon DEF Respond
  <2>2. inbox'[s] = (IF run[s] = "crashed" THEN <<>> ELSE Tail(inbox[s]))
    BY <1>2, Zenon DEF Respond, AdaptersOK
  <2>3. Stops(s)' = Stops(s) /\ Told(s)' = Told(s)
    BY DEF Stops, Told
  <2>4. CASE run[s] = "crashed"
    BY <2>1, <2>2, <2>3, <2>4 DEF Lined
  <2>5. CASE run[s] # "crashed"
    <3>1. inbox[s] \in Seq({"start", "status", "cancel"})
      BY DEF AdaptersOK
    <3>2. /\ Len(inbox'[s]) = Len(inbox[s]) - 1 /\ Len(inbox[s]) \in Nat
          /\ \A i \in 1..Len(inbox'[s]) : inbox'[s][i] = inbox[s][i + 1]
      BY <2>2, <2>5, <3>1
    <3>3. run[s] = "await" =>
            inbox'[s] # <<>> /\ inbox'[s][Len(inbox'[s])] = Line(call[s])
      <4> SUFFICES ASSUME run[s] = "await"
                   PROVE  inbox'[s] # <<>> /\ inbox'[s][Len(inbox'[s])] = Line(call[s])
        OBVIOUS
      <4>1. Len(inbox'[s]) >= 1
        <5>1. Len(inbox[s]) # 0
          BY <3>1, EmptySeq
        <5>2. Len(inbox[s]) # 1
          BY <1>2
        <5>3. \A n \in Nat : n # 0 /\ n # 1 => n - 1 >= 1
          OBVIOUS
        <5> QED
          BY <3>2, <5>1, <5>2, <5>3
      <4>2. inbox'[s][Len(inbox'[s])] = inbox[s][Len(inbox[s])]
        BY <3>2, <4>1
      <4> QED
        BY <4>1, <4>2 DEF Lined
    <3>4. \A i \in 2..Len(inbox'[s]) : inbox'[s][i] # "start"
      BY <3>2 DEF Lined
    <3>5. \A i, j \in 1..Len(inbox'[s]) :
            i < j /\ inbox'[s][i] = "cancel" => inbox'[s][j] = "cancel"
      BY <3>2 DEF Lined
    <3>6. \A i \in 1..Len(inbox'[s]) : \E j \in 1..Len(inbox[s]) : inbox'[s][i] = inbox[s][j]
      BY <3>2
    <3> QED
      BY <2>1, <2>3, <3>3, <3>4, <3>5, <3>6 DEF Lined
  <2> QED
    BY <2>4, <2>5
<1> QED
  BY <1>1, <1>2

\* A run sends its requests one after the other.
LEMMA LocalLines ==
  ASSUME NEW s \in Runs, LocalStep(s), STypeOK, IInv, RunInv, LinesInv
  PROVE  Lined(s)'
<1> RunsOK /\ AdaptersOK /\ ConversationOK
  BY STypeParts DEF RunsOK, AdaptersOK, ConversationOK, Lines
<1> Lined(s) /\ UNCHANGED <<owner, kind>>
  BY LocalLeavesBridge DEF LinesInv, vars
<1> run[s] = "new" <=> adapter[s] = "none"
  BY DEF RunInv
<1>a. ~StartRun(s) => UNCHANGED type /\ Told(s)' = Told(s)
  BY LocalMoves DEF Told, Stops
<1>1. CASE StartRun(s)
  <2>1. run[s] = "new" /\ call'[s] = "start" /\ run'[s] = "await" /\ ~Told(s)'
    BY <1>1, StartFacts DEF Lined, Told, StartRun
  <2>2. inbox'[s] # <<>> /\ Len(inbox'[s]) = 1 /\ inbox'[s][1] = "start"
    <3>1. inbox'[s] = <<"start">>
      BY <1>1, StartFacts
    <3> QED
      BY <3>1
  <2> QED
    <3>1. inbox'[s][Len(inbox'[s])] = Line(call'[s])
      BY <2>1, <2>2 DEF Line, Cancels
    <3>2. \A i \in 1..Len(inbox'[s]) : inbox'[s][i] = "start"
      BY <2>2
    <3>3. \A i \in 2..Len(inbox'[s]) : FALSE
      BY <2>2
    <3> QED
      BY <2>1, <2>2, <3>1, <3>2, <3>3 DEF Lined
<1>2. CASE Ask(s)
  <2>1. PICK c \in {"status", "cancel", "timeoutCancel"} :
          /\ call' = [call EXCEPT ![s] = c]
          /\ inbox' = [inbox EXCEPT ![s] = Append(@, IF c = "status" THEN c ELSE "cancel")]
    BY <1>2 DEF Ask
  <2>2. run[s] = "loop" /\ run'[s] = "await" /\ Told(s)' = Told(s)
    BY <1>2, <1>a DEF Ask, StartRun, RunsOK
  <2>3. inbox'[s] = Append(inbox[s], Line(c)) /\ inbox[s] \in Seq(Lines) /\ Line(c) \in Lines
    BY <2>1 DEF Line, Cancels, AdaptersOK, ConversationOK, Lines
  <2>4. call'[s] = c
    BY <2>1 DEF RunsOK
  <2>5. Line(c) # "start" /\ (Line(c) = "cancel" => c \in Cancels)
    BY DEF Line, Cancels
  <2> QED
    BY <2>2, <2>3, <2>4, <2>5 DEF Lined
<1>3. CASE GiveUp(s)
  <2>1. run[s] = "await" /\ Conclude(s, "error", inbox[s]) /\ UNCHANGED type
    BY <1>3 DEF GiveUp
  <2> QED
    BY <2>1, ConcludeLines DEF ConversationOK
<1>4. CASE RefuseCancel(s) \/ StatusFails(s) \/ PostFails(s) \/ HttpFails(s) \/ Cancelled(s)
  <2>1. inbox[s] # <<>> /\ UNCHANGED type
    BY <1>4 DEF RefuseCancel, StatusFails, PostFails, HttpFails, Cancelled, Handling
  <2>2. Respond(s, "error") \/ Respond(s, "CANCELLED")
    BY <1>4 DEF RefuseCancel, StatusFails, PostFails, HttpFails, Cancelled
  <2> QED
    BY <2>1, <2>2, RespondLines
<1>5. CASE HandleStatus(s)
  <2>1. inbox[s] # <<>> /\ Head(inbox[s]) = "status" /\ UNCHANGED type
    BY <1>5 DEF HandleStatus, Handling
  <2>2. \E a : Respond(s, a)
    BY <1>5 DEF HandleStatus
  <2> QED
    BY <2>1, <2>2, RespondLines
<1>6. CASE Started(s)
  <2>1. inbox[s] # <<>> /\ Head(inbox[s]) = "start" /\ UNCHANGED type
    BY <1>6 DEF Started
  <2>2. \E a : Respond(s, a)
    BY <1>6 DEF Started
  <2> QED
    BY <2>1, <2>2, RespondLines
<1>7. CASE \/ Close(s) \/ Crash(s) \/ ShutdownDone(s) \/ ShutdownFails(s) \/ Exit(s) \/ Kill(s)
  <2>1. UNCHANGED <<inbox, call, type>>
    BY <1>7 DEF Close, Crash, ShutdownDone, ShutdownFails, Exit, Kill, runtimeVars, adapterVars
  <2>2. run'[s] \in {run[s], "ended", "crashed"}
    BY <1>7 DEF Close, Crash, ShutdownDone, ShutdownFails, Exit, Kill, runtimeVars, RunsOK
  <2>3. Told(s)' = Told(s)
    BY <2>1 DEF Told, Stops
  <2> QED
    BY <2>1, <2>2, <2>3 DEF Lined
<1> QED
  BY <1>1, <1>2, <1>3, <1>4, <1>5, <1>6, <1>7 DEF LocalStep

\* No run that has cancelled polls again.
LEMMA LinesStep ==
  STypeOK /\ IInv /\ RunInv /\ OwnerInv /\ StartInv /\ LinesInv /\ [SNext]_svars => LinesInv'
<1> SUFFICES ASSUME STypeOK, IInv, RunInv, OwnerInv, StartInv, LinesInv, [SNext]_svars
             PROVE  LinesInv'
  OBVIOUS
<1> AdaptersOK /\ RunsOK /\ StackOK
  BY STypeParts
<1>1. ASSUME NEW s \in Runs, LocalStep(s) PROVE LinesInv'
  <2> SUFFICES ASSUME NEW o \in Runs PROVE Lined(o)'
    BY DEF LinesInv
  <2>1. CASE o # s
    <3>1. Stops(o)' = Stops(o)
      BY <1>1, LocalLeavesBridge DEF Stops, vars
    <3>2. run'[o] = run[o] /\ call'[o] = call[o] /\ type'[o] = type[o] /\ inbox'[o] = inbox[o]
      BY <1>1, <2>1, LocalFrame
    <3> QED
      BY <3>1, <3>2 DEF LinesInv, Lined, Told
  <2> QED
    BY <1>1, <2>1, LocalLines
<1>2. ASSUME NEW s \in Runs, NEW k, NEW r, Posting(s, k, r) PROVE LinesInv'
  <2> SUFFICES ASSUME NEW o \in Runs PROVE Lined(o)'
    BY DEF LinesInv
  <2>1. UNCHANGED <<run, call, type, inbox>>
    BY <1>2 DEF Posting, PostAs
  <2>2. CASE Told(o)' = Told(o)
    BY <2>1, <2>2 DEF LinesInv, Lined
  <2>3. CASE Told(o)' # Told(o)
    <3>1. Told(o)' /\ ~Told(o) /\ o = s /\ k = "stop" /\ type[s] # "STOP"
      BY <1>2, <2>1, <2>3 DEF Told, Stops, Posting, PostAs, Arrive, STypeOK, TypeOK, OwnerInv
    <3>2. Lined(s) /\ inbox[s] \in Seq({"start", "status", "cancel"})
      BY DEF LinesInv, AdaptersOK
    <3>3. CASE Handling(s, "cancel")
      <4>1. /\ inbox[s] # <<>> /\ inbox[s][1] = "cancel"
            /\ Len(inbox[s]) \in Nat /\ Len(inbox[s]) >= 1
        BY <3>2, <3>3 DEF Handling
      <4>2. \A i \in 1..Len(inbox[s]) : inbox[s][i] = "cancel"
        BY <3>2, <4>1 DEF Lined
      <4> QED
        BY <2>1, <3>1, <3>2, <4>1, <4>2 DEF Lined
    <3>4. CASE EndOfInput(s)
      <4>1. inbox[s] = <<>> /\ run[s] \in {"close", "ended", "crashed"}
        BY <3>4 DEF EndOfInput
      <4> QED
        BY <2>1, <3>1, <3>2, <4>1 DEF Lined
    <3>5. BridgeAction(type[s]) # "stop"
      BY <3>1 DEF BridgeAction
    <3> QED
      BY <1>2, <3>1, <3>3, <3>4, <3>5 DEF Posting
  <2> QED
    BY <2>2, <2>3
<1>3. CASE UNCHANGED <<owner, kind, runtimeVars, inbox>>
  BY <1>3 DEF LinesInv, Lined, Told, Stops, runtimeVars
<1>4. CASE \/ BridgeRuns /\ UNCHANGED <<runtimeVars, adapterVars, stackVars>>
           \/ Restart
           \/ UNCHANGED svars
  <2>1. UNCHANGED <<owner, runtimeVars, inbox>>
    BY <1>4 DEF Restart, svars, adapterVars, stackVars
  <2>2. UNCHANGED kind
    BY <1>4, BridgeFrame DEF IInv, Restart, svars, vars
  <2> QED
    BY <1>3, <2>1, <2>2
<1> QED
  BY <1>1, <1>2, <1>3, <1>4, SNextCases

\* What is in front of an adapter, unless its run starts: the line that was
\* there, or a later one.
LEMMA RespondFront ==
  ASSUME NEW s \in Runs, NEW a, Respond(s, a), STypeOK, Lined(s), inbox[s] # <<>>
  PROVE  ~(inbox'[s] # <<>> /\ Head(inbox'[s]) = "start")
<1> AdaptersOK /\ RunsOK
  BY STypeParts
<1>1. CASE run[s] = "await" /\ Len(inbox[s]) = 1
  <2>1. Conclude(s, a, <<>>)
    BY <1>1 DEF Respond
  <2>2. inbox'[s] = Append(<<>>, "cancel") \/ inbox'[s] = <<>>
    BY <2>1 DEF Conclude, AdaptersOK
  <2> QED
    BY <2>2
<1>2. CASE ~(run[s] = "await" /\ Len(inbox[s]) = 1)
  <2>1. inbox'[s] = <<>> \/ inbox'[s] = Tail(inbox[s])
    BY <1>2, Zenon DEF Respond, AdaptersOK
  <2>2. CASE inbox'[s] = Tail(inbox[s]) /\ inbox'[s] # <<>>
    <3>1. inbox[s] \in Seq({"start", "status", "cancel"})
      BY DEF AdaptersOK
    <3>2. Len(inbox[s]) \in Nat /\ Len(inbox[s]) >= 2 /\ Head(inbox'[s]) = inbox[s][2]
      BY <2>2, <3>1, EmptySeq
    <3>3. inbox[s][2] # "start"
      BY <3>2 DEF Lined
    <3> QED
      BY <3>2, <3>3
  <2> QED
    BY <2>1, <2>2
<1> QED
  BY <1>1, <1>2

\* Unless its run starts or its adapter answers, lines are only added.
LEMMA LocalFront ==
  ASSUME NEW s \in Runs, LocalStep(s), ~StartRun(s), STypeOK, Lined(s)
  PROVE  \/ UNCHANGED <<inbox, adapter>>
         \/ /\ adapter'[s] = adapter[s]
            /\ \E x \in {"status", "cancel"} : inbox'[s] = Append(inbox[s], x)
            /\ run[s] \in {"await", "loop"}
         \/ ~(inbox'[s] # <<>> /\ Head(inbox'[s]) = "start") /\ ~Waits(s)'
         \/ inbox' = inbox /\ adapter'[s] \in {"killed", "exited"}
<1> AdaptersOK /\ RunsOK
  BY STypeParts
<1>1. CASE Ask(s)
  <2>1. PICK c \in {"status", "cancel", "timeoutCancel"} :
          inbox' = [inbox EXCEPT ![s] = Append(@, IF c = "status" THEN c ELSE "cancel")]
    BY <1>1 DEF Ask
  <2>2. inbox'[s] = Append(inbox[s], IF c = "status" THEN c ELSE "cancel")
    BY <2>1 DEF AdaptersOK
  <2> QED
    BY <1>1, <2>2 DEF Ask
<1>2. CASE GiveUp(s)
  <2>1. Conclude(s, "error", inbox[s]) /\ run[s] = "await" /\ UNCHANGED adapter
    BY <1>2 DEF GiveUp
  <2>2. inbox'[s] = Append(inbox[s], "cancel") \/ inbox' = inbox
    BY <2>1 DEF Conclude, AdaptersOK
  <2> QED
    BY <2>1, <2>2
<1>3. CASE Close(s)
  BY <1>3 DEF Close, AdaptersOK
<1>4. CASE Crash(s)
  BY <1>4 DEF Crash, adapterVars
<1>5. CASE RefuseCancel(s) \/ HandleStatus(s) \/ StatusFails(s) \/ PostFails(s)
  <2>1. inbox[s] # <<>> /\ adapter[s] = "reading" /\ UNCHANGED adapter
    BY <1>5 DEF RefuseCancel, HandleStatus, StatusFails, PostFails, Handling
  <2>2. \E a : Respond(s, a)
    BY <1>5 DEF RefuseCancel, HandleStatus, StatusFails, PostFails
  <2> QED
    BY <2>1, <2>2, RespondFront DEF Waits
<1>6. CASE Started(s) \/ Cancelled(s) \/ HttpFails(s)
  <2>1. inbox[s] # <<>> /\ adapter'[s] = "reading"
    BY <1>6 DEF Started, Cancelled, HttpFails, AdaptersOK
  <2>2. \E a : Respond(s, a)
    BY <1>6 DEF Started, Cancelled, HttpFails
  <2> QED
    BY <2>1, <2>2, RespondFront DEF Waits
<1>7. CASE ShutdownDone(s) \/ ShutdownFails(s) \/ Exit(s) \/ Kill(s)
  BY <1>7 DEF ShutdownDone, ShutdownFails, Exit, Kill, AdaptersOK
<1> QED
  BY <1>1, <1>2, <1>3, <1>4, <1>5, <1>6, <1>7 DEF LocalStep

\* What is waited for stays what was asked for.
LEMMA WaitStep ==
  STypeOK /\ IInv /\ OwnerInv /\ RunInv /\ PostedInv /\ LinesInv /\ WaitInv
    /\ [SNext]_svars => WaitInv'
<1> SUFFICES ASSUME STypeOK, IInv, OwnerInv, RunInv, PostedInv, LinesInv, WaitInv, [SNext]_svars
             PROVE  WaitInv'
  OBVIOUS
<1> AdaptersOK /\ RunsOK /\ StackOK
  BY STypeParts
<1> DEFINE Right(o) ==
      Waits(o) =>
        /\ inbox[o] = <<>> => run[o] \in {"close", "ended", "crashed"}
        /\ kind[posted[o]] = IF inbox[o] # <<>> /\ Head(inbox[o]) = "start"
                               THEN BridgeAction(type[o]) ELSE "stop"
<1>0. (\A o \in Runs : Right(o)) /\ (WaitInv' <=> \A o \in Runs : Right(o)')
  BY DEF WaitInv
<1>1. ASSUME NEW s \in Runs, LocalStep(s), NEW o \in Runs PROVE Right(o)'
  <2>1. UNCHANGED kind
    BY <1>1, LocalLeavesBridge DEF vars
  <2>2. CASE o # s
    BY <1>0, <1>1, <2>1, <2>2, LocalFrame DEF Waits
  <2>3. CASE o = s
    <3> SUFFICES ASSUME Waits(s)' PROVE Right(s)'
      BY <2>3 DEF Waits
    <3>1. Waits(s) /\ UNCHANGED posted /\ ~StartRun(s) /\ UNCHANGED type
      BY <1>1, LocalMoves DEF RunInv, Waits, StartRun, AdaptersOK
    <3>2. \/ UNCHANGED <<inbox, adapter>>
          \/ /\ \E x \in {"status", "cancel"} : inbox'[s] = Append(inbox[s], x)
             /\ run[s] \in {"await", "loop"}
      BY <1>1, <3>1, LocalFront DEF LinesInv, Waits
    <3>3. CASE inbox' = inbox
      <4>1. inbox[s] = <<>> => run'[s] \in {"close", "ended", "crashed"}
        <5> SUFFICES ASSUME inbox[s] = <<>> PROVE run'[s] \in {"close", "ended", "crashed"}
          OBVIOUS
        <5>1. run[s] \in {"close", "ended", "crashed"}
          BY <1>0, <3>1
        <5>2. UNCHANGED run \/ run'[s] \in {"close", "ended", "crashed"}
          <6>1. ~(Ask(s) \/ GiveUp(s))
            BY <5>1 DEF Ask, GiveUp
          <6>2. CASE \/ Close(s) \/ Crash(s) \/ ShutdownDone(s) \/ ShutdownFails(s)
                     \/ Exit(s) \/ Kill(s)
            BY <6>2 DEF Close, Crash, ShutdownDone, ShutdownFails, Exit, Kill, runtimeVars, RunsOK
          <6>3. ~(\/ RefuseCancel(s) \/ HandleStatus(s) \/ StatusFails(s) \/ PostFails(s)
                  \/ Started(s) \/ Cancelled(s) \/ HttpFails(s))
            BY DEF RefuseCancel, HandleStatus, StatusFails, PostFails, Started, Cancelled,
               HttpFails,
               Handling
          <6> QED
            BY <1>1, <3>1, <6>1, <6>2, <6>3 DEF LocalStep
        <5> QED
          BY <5>1, <5>2
      <4> QED
        BY <1>0, <2>1, <3>1, <3>3, <4>1
    <3>4. ASSUME NEW x \in {"status", "cancel"}, inbox'[s] = Append(inbox[s], x),
                 run[s] \in {"await", "loop"}
          PROVE  Right(s)'
      <4>1. inbox[s] # <<>> /\ inbox[s] \in Seq({"start", "status", "cancel"})
        BY <1>0, <3>1, <3>4 DEF AdaptersOK
      <4>2. inbox'[s] # <<>> /\ Head(inbox'[s]) = Head(inbox[s])
        BY <3>4, <4>1, EmptySeq
      <4> QED
        BY <1>0, <2>1, <3>1, <4>1, <4>2
    <3> QED
      BY <3>2, <3>3, <3>4
  <2> QED
    BY <2>2, <2>3
<1>2. ASSUME NEW s \in Runs, NEW k, NEW r, Posting(s, k, r), NEW o \in Runs PROVE Right(o)'
  <2>1. /\ UNCHANGED <<run, inbox, type>> /\ r \in Requests /\ kind[r] = "none"
        /\ \A q \in Requests : kind'[q] = IF q = r THEN k ELSE kind[q]
        /\ \A p \in Runs : /\ posted'[p] = IF p = s THEN r ELSE posted[p]
                           /\ adapter'[p] = IF p = s THEN "waiting" ELSE adapter[p]
    BY <1>2 DEF Posting, PostAs, Arrive, AdaptersOK, STypeOK, TypeOK
  <2>2. CASE o # s
    <3>1. Waits(o) => posted[o] # r
      BY <2>1 DEF PostedInv, OwnerInv, NoRun, Runs
    <3> QED
      BY <1>0, <2>1, <2>2, <3>1 DEF Waits, PostedInv
  <2>3. CASE o = s
    BY <1>2, <2>1, <2>3 DEF Posting, Handling, EndOfInput
  <2> QED
    BY <2>2, <2>3
<1>3. CASE UNCHANGED <<kind, runtimeVars, adapterVars>>
  BY <1>3 DEF WaitInv, Waits, runtimeVars, adapterVars
<1>4. CASE \/ BridgeRuns /\ UNCHANGED <<runtimeVars, adapterVars, stackVars>>
           \/ Restart
           \/ UNCHANGED svars
  <2>1. UNCHANGED <<runtimeVars, adapterVars>>
    BY <1>4 DEF Restart, svars
  <2>2. UNCHANGED kind
    BY <1>4, BridgeFrame DEF IInv, Restart, svars, vars
  <2> QED
    BY <1>3, <2>1, <2>2
<1> QED
  BY <1>0, <1>1, <1>2, <1>4, SNextCases

\* A motion is a run's first request, and its only motion.
LEMMA StartStep ==
  STypeOK /\ IInv /\ OwnerInv /\ RunInv /\ LinesInv /\ StartInv /\ [SNext]_svars => StartInv'
<1> SUFFICES ASSUME STypeOK, IInv, OwnerInv, RunInv, LinesInv, StartInv, [SNext]_svars
             PROVE  StartInv'
  OBVIOUS
<1> AdaptersOK /\ RunsOK /\ StackOK
  BY STypeParts
<1> DEFINE Starting(o) == inbox[o] # <<>> /\ Head(inbox[o]) = "start" /\ adapter[o] = "reading"
           StartsOnce(o) == /\ Starting(o) => \A r \in Requests : owner[r] # o
                            /\ \A r, q \in Motions(o) : r = q
<1>0. (\A o \in Runs : StartsOnce(o)) /\ (StartInv' <=> \A o \in Runs : StartsOnce(o)')
  BY DEF StartInv
<1>1. ASSUME NEW s \in Runs, LocalStep(s), NEW o \in Runs PROVE StartsOnce(o)'
  <2>1. UNCHANGED <<owner, kind>>
    BY <1>1, LocalLeavesBridge DEF vars
  <2>2. Motions(o)' = Motions(o)
    BY <2>1 DEF Motions
  <2>3. CASE o # s
    BY <1>0, <1>1, <2>1, <2>2, <2>3, LocalFrame
  <2>4. CASE o = s /\ StartRun(s)
    BY <1>0, <2>1, <2>2, <2>4 DEF StartRun, RunInv
  <2>5. CASE o = s /\ ~StartRun(s)
    <3>1. Starting(s)' => Starting(s)
      <4> SUFFICES ASSUME Starting(s)' PROVE Starting(s)
        OBVIOUS
      <4>1. \/ inbox'[s] = inbox[s] /\ adapter'[s] = adapter[s]
            \/ /\ adapter'[s] = adapter[s]
               /\ \E x \in {"status", "cancel"} : inbox'[s] = Append(inbox[s], x)
        BY <1>1, <2>5, LocalFront DEF LinesInv
      <4>2. ASSUME NEW x \in {"status", "cancel"}, inbox'[s] = Append(inbox[s], x)
            PROVE  inbox[s] # <<>> /\ Head(inbox[s]) = Head(inbox'[s])
        <5>1. inbox[s] \in Seq({"start", "status", "cancel"})
          BY DEF AdaptersOK
        <5>2. CASE inbox[s] = <<>>
          BY <4>2, <5>2
        <5>3. CASE inbox[s] # <<>>
          BY <4>2, <5>1, <5>3, EmptySeq
        <5> QED
          BY <5>2, <5>3
      <4> QED
        BY <4>1, <4>2
    <3> QED
      BY <1>0, <2>1, <2>2, <2>5, <3>1
  <2> QED
    BY <2>3, <2>4, <2>5
<1>2. ASSUME NEW s \in Runs, NEW k, NEW r, Posting(s, k, r), NEW o \in Runs PROVE StartsOnce(o)'
  <2>1. /\ UNCHANGED inbox /\ r \in Requests
        /\ \A q \in Requests : /\ kind'[q] = IF q = r THEN k ELSE kind[q]
                               /\ owner'[q] = IF q = r THEN s ELSE owner[q]
        /\ \A p \in Runs : adapter'[p] = IF p = s THEN "waiting" ELSE adapter[p]
    BY <1>2 DEF Posting, PostAs, Arrive, AdaptersOK, StackOK, STypeOK, TypeOK
  <2>2. CASE o # s
    <3>1. owner[r] # o
      BY <1>2 DEF OwnerInv, Posting, PostAs, NoRun, Runs
    <3>2. Motions(o)' = Motions(o)
      BY <2>1, <2>2, <3>1 DEF Motions
    <3> QED
      BY <1>0, <2>1, <2>2, <3>2
  <2>3. CASE o = s /\ k = "stop"
    <3>1. r \notin Motions(s)
      BY <1>2 DEF OwnerInv, Posting, PostAs, NoRun, Runs, Motions
    <3>2. Motions(s)' = Motions(s)
      BY <2>1, <2>3, <3>1 DEF Motions
    <3> QED
      BY <1>0, <2>1, <2>3, <3>2
  <2>4. CASE o = s /\ k # "stop"
    <3>1. \A q \in Requests : owner[q] # s
      BY <1>0, <1>2, <2>4 DEF Posting, Handling
    <3>2. Motions(s)' \subseteq {r}
      BY <2>1, <3>1 DEF Motions
    <3> QED
      BY <2>1, <2>4, <3>2
  <2> QED
    BY <2>2, <2>3, <2>4
<1>3. CASE UNCHANGED <<kind, owner, adapterVars>>
  BY <1>3 DEF StartInv, Motions, adapterVars
<1>4. CASE \/ BridgeRuns /\ UNCHANGED <<runtimeVars, adapterVars, stackVars>>
           \/ Restart
           \/ UNCHANGED svars
  <2>1. UNCHANGED <<owner, adapterVars>>
    BY <1>4 DEF Restart, svars, stackVars
  <2>2. UNCHANGED kind
    BY <1>4, BridgeFrame DEF IInv, Restart, svars, vars
  <2> QED
    BY <1>3, <2>1, <2>2
<1> QED
  BY <1>0, <1>1, <1>2, <1>4, SNextCases

\* In the Bridge: by what the run waits for, or by a thread.
LEMMA InBridgeFacts ==
  \A s : InBridge(s) <=> \E r \in Requests :
                            owner[r] = s /\ (run[s] \in {"await", "loop"} \/ Engaged(r))
BY DEF InBridge, Engaged

\* No step but a POST of its own takes a run into the Bridge.
LEMMA EntersByPost ==
  ASSUME STypeOK, IInv, OwnerInv, AcceptedInv, RunInv, NEW o \in Runs, InBridge(o)',
         \/ \E s \in Runs : LocalStep(s)
         \/ BridgeRuns /\ UNCHANGED <<runtimeVars, adapterVars, stackVars>>
         \/ Restart
         \/ UNCHANGED svars
  PROVE  InBridge(o)
<1> AdaptersOK /\ RunsOK /\ StackOK
  BY STypeParts
<1>0. PICK r \in Requests : owner'[r] = o /\ (run'[o] \in {"await", "loop"} \/ Engaged(r)')
  BY DEF InBridge, Engaged
<1>a. SUFFICES owner[r] = o /\ (run[o] \in {"await", "loop"} \/ Engaged(r))
  BY InBridgeFacts
<1>1. ASSUME NEW s \in Runs, LocalStep(s)
      PROVE  owner[r] = o /\ (run[o] \in {"await", "loop"} \/ Engaged(r))
  <2>1. owner[r] = o /\ Engaged(r)' = Engaged(r)
    BY <1>0, <1>1, LocalLeavesBridge DEF Engaged, vars
  <2>2. run'[o] \in {"await", "loop"} => run[o] \in {"await", "loop"}
    <3>1. CASE o # s
      BY <1>1, <3>1, LocalFrame
    <3>2. CASE o = s
      <4>1. ~StartRun(s)
        BY <2>1, <3>2 DEF StartRun, RunInv
      <4>2. run[s] # "new"
        BY <2>1, <3>2 DEF RunInv
      <4>3. run[s] = "close" => run'[s] \notin {"await", "loop"}
        BY <1>1, <4>1 DEF LocalStep, Ask, Close, GiveUp, Crash, RefuseCancel, HandleStatus,
           StatusFails, PostFails, Started, Cancelled, HttpFails, ShutdownDone, ShutdownFails,
           Exit, Kill, Respond, Conclude, runtimeVars, RunsOK
      <4> QED
        BY <1>1, <3>2, <4>1, <4>2, <4>3, LocalMoves DEF RunsOK, RunInv
    <3> QED
      BY <3>1, <3>2
  <2> QED
    BY <1>0, <2>1, <2>2
<1>2. CASE BridgeRuns /\ UNCHANGED <<runtimeVars, adapterVars, stackVars>>
  <2>1. Engaged(r)' => Engaged(r)
    BY <1>2, EngagedFrame DEF IInv
  <2> QED
    BY <1>0, <1>2, <2>1 DEF runtimeVars, stackVars
<1>3. CASE Restart
  <2>1. ~Engaged(r)'
    BY <1>3, ThreadFacts DEF Restart, Engaged
  <2> QED
    BY <1>0, <1>3, <2>1 DEF Restart, runtimeVars
<1>4. CASE UNCHANGED svars
  BY <1>0, <1>4 DEF svars, vars, runtimeVars, stackVars, Engaged
<1> QED
  BY <1>1, <1>2, <1>3, <1>4

\* A POST takes no other run into the Bridge, and meets those in it.
LEMMA PostMeets ==
  ASSUME STypeOK, NEW s \in Runs, NEW k, NEW r, Posting(s, k, r),
         NEW o \in Runs \ {s}, InBridge(o)'
  PROVE  InBridge(o) /\ o \in overlapped' /\ s \in overlapped'
<1> StackOK
  BY STypeParts
<1>1. PICK q \in Requests : owner'[q] = o /\ (run'[o] \in {"await", "loop"} \/ Engaged(q)')
  BY DEF InBridge, Engaged
<1>2. q # r /\ owner[q] = o /\ UNCHANGED run
  BY <1>1 DEF Posting, PostAs, StackOK
<1>3. Engaged(q)' = Engaged(q)
  BY <1>2, ThreadFacts DEF Posting, PostAs, Arrive, Goto, Engaged, STypeOK, TypeOK
<1>4. InBridge(o)
  BY <1>1, <1>2, <1>3, InBridgeFacts
<1>5. overlapped' = overlapped \cup (IF Met(s) = {} THEN {} ELSE Met(s) \cup {s})
  BY DEF Posting, PostAs
<1> QED
  BY <1>4, <1>5 DEF Met

\* Who enters the Bridge meets those who are in it.
LEMMA SoloStep ==
  STypeOK /\ IInv /\ OwnerInv /\ AcceptedInv /\ RunInv /\ SoloInv /\ [SNext]_svars => SoloInv'
<1> SUFFICES ASSUME STypeOK, IInv, OwnerInv, AcceptedInv, RunInv, SoloInv, [SNext]_svars
             PROVE  SoloInv'
  OBVIOUS
<1> AdaptersOK /\ RunsOK /\ StackOK
  BY STypeParts
<1>1. CASE \/ \E s \in Runs : LocalStep(s)
           \/ BridgeRuns /\ UNCHANGED <<runtimeVars, adapterVars, stackVars>>
           \/ Restart
           \/ UNCHANGED svars
  <2>1. UNCHANGED overlapped
    BY <1>1, LocalLeavesBridge DEF Restart, svars, stackVars
  <2> QED
    BY <1>1, <2>1, EntersByPost DEF SoloInv
<1>2. ASSUME NEW s \in Runs, NEW k, NEW r, Posting(s, k, r) PROVE SoloInv'
  <2> SUFFICES ASSUME NEW o \in Runs, NEW p \in Runs, o # p, InBridge(o)', InBridge(p)'
               PROVE  o \in overlapped'
    BY DEF SoloInv
  <2>1. CASE o # s
    BY <1>2, <2>1, PostMeets
  <2>2. CASE o = s
    BY <1>2, <2>2, PostMeets
  <2> QED
    BY <2>1, <2>2
<1> QED
  BY <1>1, <1>2, SNextCases

\* What was accepted has its thread, and one helper.
LEMMA AcceptedStep ==
  STypeOK /\ IInv /\ OwnerInv /\ AcceptedInv /\ [SNext]_svars => AcceptedInv'
<1> SUFFICES ASSUME STypeOK, IInv, OwnerInv, AcceptedInv, [SNext]_svars
             PROVE  AcceptedInv'
  OBVIOUS
<1>1. ASSUME NEW s \in Runs, LocalStep(s) PROVE AcceptedInv'
  BY <1>1, LocalLeavesBridge DEF AcceptedInv, vars, shared
<1>2. ASSUME NEW s \in Runs, NEW k, NEW r, Posting(s, k, r) PROVE AcceptedInv'
  <2>1. UNCHANGED <<result, helper>>
    BY <1>2 DEF Posting, PostAs, Arrive, shared
  <2>2. \A q \in Requests : pc'[Motion(q)] = pc[Motion(q)]
    BY <1>2, ThreadFacts DEF Posting, PostAs, Arrive, Goto, STypeOK, TypeOK
  <2> QED
    BY <2>1, <2>2 DEF AcceptedInv
<1>3. CASE BridgeRuns
  BY <1>3, AcceptedBridge DEF IInv
<1>4. CASE Restart
  <2>1. \A q \in Requests : /\ pc'[Motion(q)] \in {"idle", "done"}
                            /\ pc'[Motion(q)] = "idle" <=> pc[Motion(q)] = "idle"
                            /\ helper'[q] = IF Alive(q) THEN "failed" ELSE helper[q]
    BY <1>4, ThreadFacts DEF Restart, STypeOK, TypeOK
  <2> QED
    BY <1>4, <2>1 DEF Restart, AcceptedInv, Alive
<1>5. CASE UNCHANGED svars
  BY <1>5 DEF svars, vars, shared, AcceptedInv
<1> QED
  BY <1>1, <1>2, <1>3, <1>4, <1>5, SNextCases

-----------------------------------------------------------------------------
(***************************************************************************)
(* A run that is alone in the Bridge                                       *)
(***************************************************************************)

\* A motion that is alone sets the state of the Bridge.
LEMMA ShowsStep ==
  ASSUME NEW r \in Requests, TypeOK, ThreadInv, OwnerInv, AcceptedInv, Shows(r),
         kind[r] \in {"linear", "patrol"}, RequestStep(r) \/ RequestFails(r), UNCHANGED restarted
  PROVE  Shows(r)'
<1> PcOK /\ RequestsOK /\ SwitchesOK /\ HelpersOK
  BY TypeParts
<1>0. ASSUME NEW t \in {Http(r), Motion(r)}, Popen(t) PROVE t = Motion(r)
  BY <1>0, MotionsPopen
<1> USE ThreadFacts DEF Goto, Answer, shared, history, PcOK, RequestsOK, SwitchesOK, HelpersOK,
       ThreadInv, HttpAt, MotionAt, Ending, Driving, AcceptedInv, Shows, UnderWay, Alive
<1>1. CASE HttpStep(r) \/ SpawnFails(r) \/ ZeroFails(r)
  <2>1. CASE Dispatch(r)
    <3>1. kind[r] \in Actions
      BY <2>1 DEF RequestsOK, Dispatch, ThreadInv, HttpAt
    <3> QED
      BY <2>1, <3>1 DEF Dispatch, Actions
  <2>2. CASE ClearCancel(r)
    BY <2>2 DEF ClearCancel
  <2>3. CASE Reserve(r)
    BY <2>3 DEF Reserve
  <2>4. CASE CheckPatrol(r)
    <3>1. /\ pc[Http(r)] = "check" /\ kind[r] = "patrol" /\ pc[Motion(r)] = "idle"
          /\ \E to \in {"refuse", "spawn"} : pc' = [pc EXCEPT ![Http(r)] = to]
      BY <2>4 DEF CheckPatrol
    <3> QED
      BY <2>4, <3>1 DEF CheckPatrol
  <2>9. CASE RefusePatrol(r)
    <3>1. pc[Motion(r)] = "idle" /\ pc' = [pc EXCEPT ![Http(r)] = "done"]
      BY <2>9 DEF RefusePatrol
    <3> QED
      BY <2>9, <3>1 DEF RefusePatrol
  <2>5. CASE Spawn(r)
    BY <2>5 DEF Spawn
  <2>6. CASE ZeroDone(r)
    BY <2>6 DEF ZeroDone
  <2>7. CASE ZeroFails(r)
    BY <2>7 DEF ZeroFails
  <2>8. CASE SpawnFails(r)
    BY <2>8 DEF SpawnFails
  <2> QED
    BY <1>1, <2>1, <2>2, <2>3, <2>4, <2>5, <2>6, <2>7, <2>8, <2>9 DEF HttpStep
<1>2. CASE MotionStep(r)
  BY <1>2 DEF MotionStep, Begin, Look, ClearPatrol, ExceptCancelled, Finally
<1>3. ASSUME NEW t \in {Http(r), Motion(r)}, HelperStep(t) \/ PopenFails(t)
      PROVE  Shows(r)'
  <2>1. CASE Popen(t)
    <3>1. t = Motion(r)
      BY <1>0, <2>1
    <3> QED
      BY <2>1, <3>1 DEF Popen
  <2>2. CASE Register(t)
    BY <2>2 DEF Register
  <2>3. CASE PopenFails(t)
    BY <2>3 DEF PopenFails
  <2>4. CASE Wait(t)
    BY <2>4 DEF Wait
  <2>5. CASE Unregister(t)
    BY <2>5 DEF Unregister
  <2>6. CASE Succeed(t)
    BY <2>6 DEF Succeed, DidItsWork
  <2>7. CASE Fail(t)
    BY <2>7 DEF Fail, DidItsWork
  <2>8. CASE ExceptError(t)
    BY <2>8 DEF ExceptError
  <2> QED
    BY <1>3, <2>1, <2>2, <2>3, <2>4, <2>5, <2>6, <2>7, <2>8 DEF HelperStep
<1>4. ASSUME NEW t \in {Http(r), Motion(r)}, StopStep(t)
      PROVE  Shows(r)'
  BY <1>4 DEF StopStep, SetCancel, Snapshot, Reap, ZeroCleanup
<1> QED
  BY <1>1, <1>2, <1>3, <1>4 DEF RequestStep, RequestFails

\* Whoever works in the Bridge beside a run meets it.
LEMMA AloneInBridge ==
  ASSUME STypeOK, IInv, OwnerInv, SoloInv, NEW s \in Runs, s \notin overlapped, InBridge(s),
         NEW q \in Requests, Engaged(q)
  PROVE  owner[q] = s
<1>1. kind[q] # "none"
  BY DEF IInv, ThreadInv, HttpAt, MotionAt, Engaged
<1>2. owner[q] \in Runs
  BY <1>1 DEF OwnerInv, STypeOK
<1>3. InBridge(owner[q])
  BY InBridgeFacts
<1> QED
  BY <1>2, <1>3 DEF SoloInv

\* The requests of a run that has posted nothing but a motion.
LEMMA PostFirst ==
  ASSUME STypeOK, IInv, OwnerInv, StartInv, NEW s \in Runs, NEW k, NEW r, Posting(s, k, r)
  PROVE  /\ k # "stop" => Motions(s)' = {r} /\ Stops(s)' = {}
         /\ k = "stop" => Motions(s)' = Motions(s) /\ Stops(s)' = Stops(s) \cup {r}
         /\ \A o \in Runs \ {s} : Motions(o)' = Motions(o) /\ Stops(o)' = Stops(o)
         /\ pc'[Http(r)] = "dispatch" /\ pc'[Motion(r)] = "idle"
         /\ \A q \in Requests \ {r} : pc'[Http(q)] = pc[Http(q)]
         /\ \A q \in Requests : pc'[Motion(q)] = pc[Motion(q)]
         /\ UNCHANGED <<state, cancel, active, helper, target>>
<1> StackOK
  BY STypeParts
<1>1. /\ r \in Requests /\ kind[r] = "none"
      /\ \A q \in Requests : /\ kind'[q] = IF q = r THEN k ELSE kind[q]
                             /\ owner'[q] = IF q = r THEN s ELSE owner[q]
  BY DEF Posting, PostAs, Arrive, StackOK, STypeOK, TypeOK
<1>2. owner[r] = NoRun /\ \A o \in Runs : o # NoRun
  BY <1>1 DEF OwnerInv, Runs, NoRun
<1>3. ASSUME k # "stop" PROVE Motions(s)' = {r} /\ Stops(s)' = {}
  <2>1. \A q \in Requests : owner[q] # s
    BY <1>3 DEF Posting, Handling, StartInv
  <2>2. k \in {"linear", "patrol"}
    BY <1>3, PostingKinds
  <2> QED
    BY <1>1, <2>1, <2>2 DEF Motions, Stops
<1>4. ASSUME k = "stop" PROVE Motions(s)' = Motions(s) /\ Stops(s)' = Stops(s) \cup {r}
  BY <1>1, <1>2, <1>4 DEF Motions, Stops
<1>5. ASSUME NEW o \in Runs \ {s} PROVE Motions(o)' = Motions(o) /\ Stops(o)' = Stops(o)
  BY <1>1, <1>2 DEF Motions, Stops
<1>6. pc'[Http(r)] = "dispatch" /\ UNCHANGED <<state, cancel, active, helper, target>>
  BY <1>1, ThreadFacts DEF Posting, PostAs, Arrive, Goto, STypeOK, TypeOK, shared
<1>7. /\ \A q \in Requests \ {r} : pc'[Http(q)] = pc[Http(q)]
      /\ \A q \in Requests : pc'[Motion(q)] = pc[Motion(q)]
  BY <1>1, ThreadFacts DEF Posting, PostAs, Arrive, Goto, STypeOK, TypeOK
<1>8. pc[Motion(r)] = "idle"
  BY <1>1 DEF IInv, ThreadInv, MotionAt
<1> QED
  BY <1>1, <1>3, <1>4, <1>5, <1>6, <1>7, <1>8

\* While a run is undisturbed in the Bridge, the Bridge shows its motion.
LEMMA StateStep ==
  STypeOK /\ IInv /\ OwnerInv /\ RunInv /\ StartInv /\ SoloInv /\ AcceptedInv /\ StateInv
    /\ [SNext]_svars => StateInv'
<1> SUFFICES ASSUME STypeOK, IInv, OwnerInv, RunInv, StartInv, SoloInv, AcceptedInv, StateInv,
                    [SNext]_svars
             PROVE  StateInv'
  OBVIOUS
<1> SUFFICES ASSUME NEW s \in Runs, Undisturbed(s)', NEW r \in Motions(s)'
             PROVE  Shows(r)'
  BY DEF StateInv
<1>1. ASSUME NEW p \in Runs, LocalStep(p) PROVE Shows(r)'
  <2>1. UNCHANGED <<pc, kind, state, cancel, helper, restarted, owner, overlapped>>
    BY <1>1, LocalLeavesBridge DEF vars, shared
  <2>2. Undisturbed(s) /\ r \in Motions(s)
    BY <1>1, <2>1, EntersByPost DEF Undisturbed, Motions, Stops
  <2> QED
    BY <2>1, <2>2 DEF StateInv, Shows, UnderWay
<1>2. ASSUME NEW p \in Runs, NEW k, NEW q, Posting(p, k, q) PROVE Shows(r)'
  <2>1. p = s
    BY <1>2, PostMeets DEF Undisturbed
  <2>2. k # "stop"
    BY <1>2, <2>1, PostFirst DEF Undisturbed
  <2>3. r = q
    BY <1>2, <2>1, <2>2, PostFirst
  <2>4. pc'[Http(r)] = "dispatch" /\ pc'[Motion(r)] = "idle"
    BY <1>2, <2>3, PostFirst
  <2> QED
    BY <2>4 DEF Shows, UnderWay, Driving
<1>3. CASE BridgeRuns /\ UNCHANGED <<runtimeVars, adapterVars, stackVars>>
  <2>1. TypeOK /\ ThreadInv
    BY DEF IInv
  <2>2. UNCHANGED <<kind, owner, overlapped, restarted>>
    BY <1>3, <2>1, BridgeFrame DEF stackVars
  <2>3. Undisturbed(s) /\ r \in Motions(s)
    BY <1>3, <2>2, EntersByPost DEF Undisturbed, Motions, Stops
  <2>4. Shows(r)
    BY <2>3 DEF StateInv
  <2>5. PICK q \in Requests : RequestStep(q) \/ RequestFails(q) \/ HelperEnds(q)
    BY <1>3 DEF BridgeRuns
  <2>6. CASE RequestStep(q) \/ RequestFails(q)
    <3>1. Engaged(q)
      BY <2>1, <2>6, OneActs DEF ActsAlone
    <3>2. owner[q] = s
      BY <2>3, <3>1, AloneInBridge DEF Undisturbed
    <3>3. q \in Motions(s)
      <4>1. kind[q] \in {"linear", "patrol", "stop"}
        BY <2>1, <3>1 DEF OwnerInv, ThreadInv, HttpAt, MotionAt, Engaged, TypeOK, Actions
      <4> QED
        BY <2>3, <3>2, <4>1 DEF Undisturbed, Motions, Stops
    <3>4. q = r
      BY <2>3, <3>3 DEF StartInv
    <3> QED
      BY <2>1, <2>2, <2>4, <2>6, <3>3, <3>4, ShowsStep DEF Motions
  <2>7. CASE HelperEnds(q)
    <3>1. UNCHANGED <<pc, state, cancel>>
      BY <2>7 DEF HelperEnds
    <3>2. r \in Requests /\ (helper[r] = "ok" => helper'[r] = "ok")
      BY <1>3, <2>1, <2>3, EngagedFrame DEF Motions
    <3> QED
      BY <2>2, <2>4, <3>1, <3>2 DEF Shows, UnderWay
  <2> QED
    BY <2>5, <2>6, <2>7
<1>4. CASE Restart
  <2>1. r \in Requests /\ restarted'
    BY <1>4 DEF Motions, Restart
  <2>2. pc'[Http(r)] \in {"idle", "done"} /\ pc'[Motion(r)] \in {"idle", "done"}
    BY <1>4, <2>1, ThreadFacts DEF Restart
  <2> QED
    BY <2>1, <2>2 DEF Shows, UnderWay, Driving
<1>5. CASE UNCHANGED svars
  <2>1. UNCHANGED <<pc, kind, state, cancel, helper, restarted, owner, overlapped>>
    BY <1>5 DEF svars, vars, shared, stackVars
  <2>2. Undisturbed(s) /\ r \in Motions(s)
    BY <1>5, <2>1, EntersByPost DEF Undisturbed, Motions, Stops
  <2> QED
    BY <2>1, <2>2 DEF StateInv, Shows, UnderWay
<1> QED
  BY <1>1, <1>2, <1>3, <1>4, <1>5, SNextCases

-----------------------------------------------------------------------------
(***************************************************************************)
(* What an adapter believes of its job                                     *)
(***************************************************************************)

\* The answer to a poll of a run that has cancelled nothing is true.
LEMMA PollIsReal ==
  ASSUME STypeOK, IInv, LinesInv, StateInv, JobInv, NEW s \in Runs, HandleStatus(s),
         job[s] = "RUNNING", MapBridgeState(state) = "SUCCEEDED",
         run[s] \in {"await", "loop"}, type[s] # "STOP"
  PROVE  Real(s)
<1> SUFFICES ASSUME s \notin overlapped, ~restarted PROVE \E r \in Motions(s) : helper[r] = "ok"
  BY DEF Real
<1>1. PICK r \in Motions(s) : pc[Motion(r)] # "idle"
  BY DEF JobInv
<1>2. InBridge(s)
  BY <1>1 DEF InBridge, Motions
<1>3. Stops(s) = {}
  <2>1. /\ inbox[s] # <<>> /\ Head(inbox[s]) = "status"
        /\ inbox[s] \in Seq({"start", "status", "cancel"})
    BY DEF HandleStatus, Handling, STypeOK
  <2>2. Len(inbox[s]) \in Nat /\ Len(inbox[s]) >= 1 /\ inbox[s][1] = "status"
    BY <2>1, EmptySeq
  <2>3. ~Told(s)
    BY <2>2 DEF LinesInv, Lined
  <2> QED
    BY <2>3 DEF Told
<1>4. Shows(r)
  BY <1>2, <1>3 DEF StateInv, Undisturbed
<1>5. state \notin {"ACTION_RUNNING", "ERROR"}
  BY DEF MapBridgeState
<1> QED
  BY <1>1, <1>4, <1>5 DEF Shows

\* The answers and what becomes of the job.
LEMMA LocalJob ==
  ASSUME STypeOK, IInv, NEW s \in Runs, LocalStep(s), ~StartRun(s)
  PROVE  \/ HandleStatus(s) \/ Started(s)
         \/ (Cancelled(s) \/ ShutdownDone(s)) /\ job'[s] = "CANCELLED"
         \/ UNCHANGED job /\ ~HandleStatus(s)
<1> AdaptersOK
  BY STypeParts
<1>1. CASE Cancelled(s) \/ ShutdownDone(s)
  BY <1>1 DEF Cancelled, ShutdownDone, AdaptersOK
<1>2. CASE \/ Ask(s) \/ Close(s) \/ GiveUp(s) \/ Crash(s) \/ RefuseCancel(s) \/ StatusFails(s)
           \/ PostFails(s) \/ HttpFails(s) \/ ShutdownFails(s) \/ Exit(s) \/ Kill(s)
  BY <1>2 DEF Ask, Close, GiveUp, Crash, RefuseCancel, StatusFails, PostFails, HttpFails,
     ShutdownFails, Exit, Kill, adapterVars
<1> QED
  BY <1>1, <1>2 DEF LocalStep

\* A motion that was accepted is the one that the adapter started.
LEMMA StartedFacts ==
  ASSUME STypeOK, IInv, OwnerInv, PostedInv, WaitInv, AcceptedInv, NEW s \in Runs, Started(s)
  PROVE  /\ job'[s] \in {job[s], "RUNNING", "SUCCEEDED"}
         /\ job'[s] = "SUCCEEDED" /\ job[s] # "SUCCEEDED" => type[s] = "STOP"
         /\ type[s] # "STOP" =>
              /\ posted[s] \in Motions(s)
              /\ job'[s] = "RUNNING" <=> pc[Motion(posted[s])] # "idle" \/ job[s] = "RUNNING"
<1> AdaptersOK
  BY STypeParts
<1> DEFINE j == IF type[s] = "STOP" THEN "SUCCEEDED"
                ELSE IF result[posted[s]] = "accepted" THEN "RUNNING" ELSE "error"
<1>1. job'[s] = IF j = "error" THEN job[s] ELSE j
  BY DEF Started, AdaptersOK
<1>2. ASSUME type[s] # "STOP"
      PROVE  posted[s] \in Motions(s)
  <2>1. kind[posted[s]] = BridgeAction(type[s])
    BY DEF Started, WaitInv
  <2>2. BridgeAction(type[s]) \in {"linear", "patrol"}
    BY <1>2 DEF BridgeAction
  <2> QED
    BY <2>1, <2>2 DEF Started, PostedInv, Motions
<1>3. ASSUME type[s] # "STOP"
      PROVE  result[posted[s]] = "accepted" <=> pc[Motion(posted[s])] # "idle"
  BY <1>2, <1>3 DEF AcceptedInv, Motions
<1> QED
  BY <1>1, <1>2, <1>3

\* A job that RUNS was accepted.
LEMMA JobRuns ==
  ASSUME STypeOK, IInv, OwnerInv, RunInv, PostedInv, WaitInv, AcceptedInv, JobInv,
         NEW s \in Runs, LocalStep(s), job'[s] = "RUNNING"
  PROVE  (\E r \in Motions(s) : pc[Motion(r)] # "idle") /\ Motions(s)' = Motions(s)
<1> AdaptersOK
  BY STypeParts
<1>1. Motions(s)' = Motions(s)
  BY LocalLeavesBridge DEF Motions, vars
<1>2. CASE job[s] = "RUNNING"
  BY <1>1, <1>2 DEF JobInv
<1>3. CASE job[s] # "RUNNING"
  <2>1. ~StartRun(s)
    BY <1>3 DEF StartRun
  <2>2. ~HandleStatus(s)
    <3> SUFFICES ASSUME HandleStatus(s) PROVE FALSE
      OBVIOUS
    <3>1. job'[s] = IF job[s] = "RUNNING" THEN MapBridgeState(state) ELSE job[s]
      BY DEF HandleStatus, AdaptersOK
    <3> QED
      BY <1>3, <3>1
  <2>3. Started(s)
    BY <1>3, <2>1, <2>2, LocalJob
  <2>4. type[s] # "STOP"
    BY <2>3 DEF Started, AdaptersOK
  <2> QED
    BY <1>1, <1>3, <2>3, <2>4, StartedFacts
<1> QED
  BY <1>2, <1>3

\* A run is in the loop, or awaits an answer, once it was started and until it
\* closes its adapter.
LEMMA LocalRuns ==
  ASSUME NEW s \in Runs, LocalStep(s), ~StartRun(s), STypeOK, run'[s] \in {"await", "loop"}
  PROVE  run[s] \in {"await", "loop"}
<1> RunsOK
  BY STypeParts
<1>1. CASE \/ RefuseCancel(s) \/ HandleStatus(s) \/ StatusFails(s) \/ PostFails(s)
           \/ Started(s) \/ Cancelled(s) \/ HttpFails(s)
  <2>1. \E a : Respond(s, a)
    BY <1>1, Zenon DEF RefuseCancel, HandleStatus, StatusFails, PostFails, Started, Cancelled,
       HttpFails
  <2>2. run[s] = "await" \/ UNCHANGED run
    BY <2>1 DEF Respond
  <2> QED
    BY <2>2
<1>2. CASE \/ Ask(s) \/ Close(s) \/ GiveUp(s) \/ Crash(s) \/ ShutdownDone(s) \/ ShutdownFails(s)
           \/ Exit(s) \/ Kill(s)
  BY <1>2 DEF Ask, Close, GiveUp, Crash, ShutdownDone, ShutdownFails, Exit, Kill, runtimeVars,
     RunsOK
<1> QED
  BY <1>1, <1>2 DEF LocalStep

\* While a motion that is alone goes on, a step of its run leaves it to the
\* adapter, unless it gives up a request.
LEMMA LocalWatch ==
  ASSUME STypeOK, IInv, OwnerInv, RunInv, PostedInv, WaitInv, StartInv, AcceptedInv, StateInv,
         NEW s \in Runs, LocalStep(s), s \notin lost' \cup overlapped, Stops(s) = {},
         NEW r \in Motions(s), pc[Motion(r)] # "idle", UnderWay(r), Watched(s, r)
  PROVE  Watched(s, r)'
<1> AdaptersOK
  BY STypeParts
<1> r \in Requests
  BY DEF Motions
<1>1. CASE StartRun(s)
  BY <1>1 DEF RunInv, StartRun, Motions
<1>2. CASE HandleStatus(s)
  <2>1. Engaged(r)
    BY DEF UnderWay, Driving, Engaged
  <2>2. Shows(r)
    BY <2>1, InBridgeFacts DEF StateInv, Undisturbed, Motions
  <2>3. state = "ACTION_RUNNING"
    BY <2>2 DEF Shows
  <2>4. job'[s] = IF job[s] = "RUNNING" THEN "RUNNING" ELSE job[s]
    BY <1>2, <2>3 DEF HandleStatus, MapBridgeState, AdaptersOK
  <2> QED
    BY <1>2, <2>4 DEF HandleStatus, Handling, Watched, Waits
<1>3. CASE Started(s)
  <2>1. posted[s] \in Requests /\ owner[posted[s]] = s
    BY <1>3 DEF Started, PostedInv
  <2>2. kind[posted[s]] = BridgeAction(type[s])
    BY <1>3 DEF Started, WaitInv
  <2>3. type[s] # "STOP"
    BY <2>1, <2>2 DEF BridgeAction, Stops
  <2>4. posted[s] = r
    BY <1>3, <2>3, StartedFacts DEF StartInv
  <2>5. job'[s] = "RUNNING"
    BY <1>3, <2>3, <2>4, StartedFacts
  <2> QED
    BY <1>3, <2>5 DEF Started, Watched, AdaptersOK
<1>4. CASE Cancelled(s) \/ ShutdownDone(s)
  <2>1. posted[s] \in Requests /\ owner[posted[s]] = s
    BY <1>4 DEF Cancelled, ShutdownDone, PostedInv
  <2>2. kind[posted[s]] = "stop"
    BY <1>4 DEF Cancelled, ShutdownDone, WaitInv
  <2> QED
    BY <2>1, <2>2 DEF Stops
<1>5. CASE PostFails(s) \/ HttpFails(s) \/ ShutdownFails(s)
  BY <1>5 DEF PostFails, HttpFails, ShutdownFails
<1>6. CASE Exit(s)
  BY <1>6 DEF Exit, EndOfInput, Watched, Waits
<1>7. CASE Kill(s) \/ Close(s)
  BY <1>7 DEF Kill, Close, AdapterUp, Watched, Waits, AdaptersOK
<1>8. CASE Ask(s) \/ GiveUp(s) \/ Crash(s) \/ RefuseCancel(s) \/ StatusFails(s)
  BY <1>8 DEF Ask, GiveUp, Crash, RefuseCancel, StatusFails, Watched, Waits, adapterVars
<1> QED
  BY <1>1, <1>2, <1>3, <1>4, <1>5, <1>6, <1>7, <1>8 DEF LocalStep

\* A job runs while its motion does, for all the adapter knows.
LEMMA JobStep ==
  STypeOK /\ IInv /\ OwnerInv /\ RunInv /\ PostedInv /\ LinesInv /\ WaitInv /\ StartInv
    /\ AcceptedInv /\ StateInv /\ JobInv /\ [SNext]_svars => JobInv'
<1> SUFFICES ASSUME STypeOK, IInv, OwnerInv, RunInv, PostedInv, LinesInv, WaitInv, StartInv,
                    AcceptedInv, StateInv, JobInv, [SNext]_svars
             PROVE  JobInv'
  OBVIOUS
<1> AdaptersOK /\ RunsOK
  BY STypeParts
<1> DEFINE Alone(s) == s \notin lost \cup overlapped /\ Stops(s) = {}
           Job(s) ==
             /\ run[s] = "new" => job[s] = "none" /\ outcome[s] = "none"
             /\ job[s] = "RUNNING" => \E r \in Motions(s) : pc[Motion(r)] # "idle"
             /\ Alone(s) => \A r \in Motions(s) :
                             pc[Motion(r)] # "idle" /\ UnderWay(r) => Watched(s, r)
             /\ run[s] \in {"await", "loop"} /\ job[s] = "SUCCEEDED" /\ type[s] # "STOP" =>
                  Real(s)
<1> SUFFICES ASSUME NEW s \in Runs, Job(s)
             PROVE  Job(s)'
  BY Zenon DEF JobInv
<1>1. ASSUME NEW p \in Runs, LocalStep(p) PROVE Job(s)'
  <2>1. UNCHANGED <<pc, kind, helper, restarted, owner, overlapped>>
    BY <1>1, LocalLeavesBridge DEF vars, shared
  <2>2. /\ Motions(s)' = Motions(s) /\ Stops(s)' = Stops(s) /\ Real(s)' = Real(s)
        /\ \A r : UnderWay(r)' = UnderWay(r)
    BY <2>1 DEF Motions, Stops, Real, UnderWay
  <2>3. CASE p # s
    <3>1. /\ run'[s] = run[s] /\ type'[s] = type[s] /\ adapter'[s] = adapter[s]
          /\ outcome'[s] = outcome[s] /\ job'[s] = job[s] /\ posted'[s] = posted[s]
          /\ lost \subseteq lost'
      BY <1>1, <2>3, LocalFrame
    <3>2. \A r : Watched(s, r)' = Watched(s, r)
      BY <3>1 DEF Watched, Waits
    <3> QED
      BY <2>1, <2>2, <3>1, <3>2
  <2>4. CASE p = s
    <3>1. run[s] = "new" <=> adapter[s] = "none"
      BY DEF RunInv
    <3>2. run'[s] # "new" /\ (~StartRun(s) => UNCHANGED type) /\ lost \subseteq lost'
      BY <1>1, <2>4, <3>1, LocalMoves, LocalFrame
    <3>3. job'[s] = "RUNNING" => \E r \in Motions(s) : pc[Motion(r)] # "idle"
      BY <1>1, <2>4, JobRuns
    <3>4. ASSUME Alone(s)', NEW r \in Motions(s), pc[Motion(r)] # "idle", UnderWay(r)
          PROVE  Watched(s, r)'
      BY <1>1, <2>1, <2>2, <2>4, <3>2, <3>4, LocalWatch
    <3>5. ASSUME run'[s] \in {"await", "loop"}, job'[s] = "SUCCEEDED", type'[s] # "STOP"
          PROVE  Real(s)
      <4>1. CASE StartRun(s)
        BY <3>5, <4>1 DEF StartRun
      <4>2. CASE ~StartRun(s)
        <5>1. run[s] \in {"await", "loop"} /\ type[s] # "STOP"
          BY <1>1, <2>4, <3>2, <3>5, <4>2, LocalRuns
        <5>2. CASE job[s] = "SUCCEEDED"
          BY <5>1, <5>2
        <5>3. CASE job[s] # "SUCCEEDED"
          <6>1. HandleStatus(s)
            BY <1>1, <2>4, <3>5, <4>2, <5>1, <5>3, LocalJob, StartedFacts
          <6>2. job[s] = "RUNNING" /\ MapBridgeState(state) = "SUCCEEDED"
            BY <3>5, <5>3, <6>1 DEF HandleStatus, AdaptersOK
          <6> QED
            BY <5>1, <6>1, <6>2, PollIsReal
        <5> QED
          BY <5>2, <5>3
      <4> QED
        BY <4>1, <4>2
    <3> QED
      BY <2>1, <2>2, <3>2, <3>3, <3>4, <3>5
  <2> QED
    BY <2>3, <2>4
<1>2. ASSUME NEW p \in Runs, NEW k, NEW q, Posting(p, k, q) PROVE Job(s)'
  <2>1. /\ UNCHANGED <<job, run, outcome, type, lost, restarted, helper>>
        /\ overlapped \subseteq overlapped'
        /\ \A r \in Requests : pc'[Motion(r)] = pc[Motion(r)]
    BY <1>2, PostFirst DEF Posting, PostAs
  <2>2. Motions(s) \subseteq Motions(s)'
    BY <1>2 DEF Posting, PostAs, Arrive, Motions, STypeOK, TypeOK
  <2>3. Real(s) => Real(s)'
    BY <2>1, <2>2 DEF Real
  <2>4. ASSUME Alone(s)', NEW r \in Motions(s)', pc'[Motion(r)] # "idle", UnderWay(r)'
        PROVE  Watched(s, r)'
    <3>1. r \in Requests
      BY DEF Motions
    <3>2. p # s
      <4>1. CASE k = "stop"
        BY <1>2, <2>4, <4>1, PostFirst
      <4>2. CASE k # "stop"
        BY <1>2, <2>4, <4>2, PostFirst
      <4> QED
        BY <4>1, <4>2
    <3>3. r \in Motions(s) /\ Stops(s) = {} /\ r # q
      BY <1>2, <2>4, <3>2, PostFirst
    <3>4. pc[Motion(r)] # "idle" /\ UnderWay(r)
      BY <1>2, <2>4, <3>1, <3>3, PostFirst DEF UnderWay
    <3>5. Watched(s, r)
      BY <2>1, <2>4, <3>3, <3>4
    <3>6. adapter'[s] = adapter[s] /\ posted'[s] = posted[s] /\ job'[s] = job[s]
      BY <1>2, <3>2 DEF Posting, PostAs, AdaptersOK
    <3> QED
      BY <3>5, <3>6 DEF Watched, Waits
  <2>5. job'[s] = "RUNNING" => \E r \in Motions(s)' : pc'[Motion(r)] # "idle"
    BY <2>1, <2>2 DEF Motions
  <2> QED
    BY <2>1, <2>3, <2>4, <2>5
<1>3. CASE BridgeRuns /\ UNCHANGED <<runtimeVars, adapterVars, stackVars>>
  <2>1. TypeOK /\ ThreadInv
    BY DEF IInv
  <2>2. UNCHANGED <<run, outcome, type, adapter, job, posted, lost, kind, owner, overlapped,
                    restarted>>
    BY <1>3, <2>1, BridgeFrame DEF runtimeVars, adapterVars, stackVars
  <2>3. Motions(s)' = Motions(s) /\ Stops(s)' = Stops(s)
    BY <2>2 DEF Motions, Stops
  <2>4. Real(s) => Real(s)'
    BY <1>3, <2>1, <2>2, <2>3, EngagedFrame DEF Real, Motions
  <2>5. job'[s] = "RUNNING" => \E r \in Motions(s)' : pc'[Motion(r)] # "idle"
    BY <1>3, <2>1, <2>2, <2>3, EngagedFrame DEF Motions
  <2>6. ASSUME Alone(s)', NEW r \in Motions(s), pc'[Motion(r)] # "idle", UnderWay(r)'
        PROVE  Watched(s, r)'
    <3>1. Alone(s) /\ r \in Requests /\ owner[r] = s
      BY <2>2, <2>3, <2>6 DEF Motions
    <3>2. UnderWay(r) /\ (pc[Motion(r)] # "idle" \/ pc[Http(r)] = "spawn")
      BY <1>3, <2>1, <2>6, <3>1, EngagedFrame
    <3>3. CASE pc[Motion(r)] # "idle"
      BY <2>2, <3>1, <3>2, <3>3 DEF Watched, Waits
    <3>4. CASE pc[Http(r)] = "spawn"
      <4>1. (Waits(s) /\ posted[s] = r) \/ adapter[s] = "killed"
        BY <3>1, <3>4 DEF PostedInv
      <4> QED
        BY <2>2, <4>1 DEF Watched, Waits
    <3> QED
      BY <3>2, <3>3, <3>4
  <2> QED
    BY <2>2, <2>3, <2>4, <2>5, <2>6
<1>4. CASE Restart
  <2>1. /\ UNCHANGED <<run, outcome, type, adapter, job, posted, lost, kind, owner, overlapped>>
        /\ restarted'
    BY <1>4 DEF Restart, runtimeVars, adapterVars
  <2>2. Motions(s)' = Motions(s) /\ Stops(s)' = Stops(s) /\ Motions(s) \subseteq Requests
    BY <2>1 DEF Motions, Stops
  <2>3. \A r \in Requests : /\ pc'[Http(r)] \in {"idle", "done"}
                            /\ pc'[Motion(r)] \in {"idle", "done"}
                            /\ pc'[Motion(r)] = "idle" => pc[Motion(r)] = "idle"
    BY <1>4, ThreadFacts DEF Restart
  <2>4. \A r \in Requests : ~UnderWay(r)'
    BY <2>3 DEF UnderWay, Driving
  <2> QED
    BY <2>1, <2>2, <2>3, <2>4 DEF Real
<1>5. CASE UNCHANGED svars
  <2>1. UNCHANGED <<run, outcome, type, adapter, job, posted, lost, pc, kind, helper, owner,
                    overlapped, restarted>>
    BY <1>5 DEF svars, vars, shared, runtimeVars, adapterVars, stackVars
  <2>2. /\ Motions(s)' = Motions(s) /\ Stops(s)' = Stops(s) /\ Real(s)' = Real(s)
        /\ \A r : UnderWay(r)' = UnderWay(r) /\ Watched(s, r)' = Watched(s, r)
    BY <2>1 DEF Motions, Stops, Real, UnderWay, Watched, Waits
  <2> QED
    BY <2>1, <2>2
<1> QED
  BY <1>1, <1>2, <1>3, <1>4, <1>5, SNextCases

\* The parts of StopInv, of a motion and of a stop.
IsActive(r) == pc[Motion(r)] \in {"wait", "unregister"} => active = r
Finds(q, r) == r \in registered[q] /\ r \in Moving =>
                 /\ pc[Http(q)] \notin {"zero", "raise", "done"}
                 /\ pc[Http(q)] = "reap" => target[Http(q)] = r

\* No stop makes another process the active one.
LEMMA ActiveKeeps ==
  ASSUME NEW x \in Requests, RequestStep(x) \/ RequestFails(x), TypeOK, ThreadInv, OwnerInv,
         NEW r \in Requests, kind[r] \in {"linear", "patrol"}, x = r \/ kind[x] = "stop",
         IsActive(r)
  PROVE  IsActive(r)'
<1> PcOK /\ RequestsOK /\ SwitchesOK
  BY TypeParts
<1> USE ThreadFacts DEF Goto, Answer, shared, history, PcOK
<1>1. CASE HttpStep(x) \/ SpawnFails(x) \/ ZeroFails(x)
  BY <1>1 DEF HttpStep, Dispatch, ClearCancel, Reserve, CheckPatrol, RefusePatrol, Spawn, ZeroDone,
     ZeroFails, SpawnFails, IsActive
<1>2. CASE MotionStep(x)
  BY <1>2 DEF MotionStep, Begin, Look, ClearPatrol, ExceptCancelled, Finally, IsActive
<1>3. ASSUME NEW t \in {Http(x), Motion(x)}, HelperStep(t) \/ PopenFails(t)
      PROVE  IsActive(r)'
  <2>1. CASE ExceptError(t)
    BY <1>3, <2>1 DEF ExceptError, IsActive
  <2>2. CASE ~ExceptError(t)
    <3>1. pc[t] \in Driving
      BY <1>3, <2>2 DEF HelperStep, Popen, Register, PopenFails, Wait, Unregister, Succeed, Fail,
         Driving
    <3>2. t = Motion(r)
      BY <3>1 DEF ThreadInv, HttpAt, MotionAt, Driving, Ending
    <3> QED
      BY <1>3, <2>2, <3>2 DEF HelperStep, Popen, Register, PopenFails, Wait, Unregister, Succeed,
         Fail, IsActive
  <2> QED
    BY <2>1, <2>2
<1>4. ASSUME NEW t \in {Http(x), Motion(x)}, StopStep(t)
      PROVE  IsActive(r)'
  BY <1>4 DEF StopStep, SetCancel, Snapshot, Reap, ZeroCleanup, IsActive
<1> QED
  BY <1>1, <1>2, <1>3, <1>4 DEF RequestStep, RequestFails

\* A stop looks for the process it noted where the motion has put it.
LEMMA StopFinds ==
  ASSUME NEW x \in Requests, RequestStep(x) \/ RequestFails(x), TypeOK, ThreadInv, HelperInv,
         NotedInv, NEW r \in Requests, kind[r] \in {"linear", "patrol"}, IsActive(r),
         NEW q \in Requests, kind[q] = "stop", Finds(q, r)
  PROVE  Finds(q, r)'
<1> PcOK /\ RequestsOK /\ HelpersOK /\ SwitchesOK
  BY TypeParts
<1> USE ThreadFacts DEF Goto, Answer, shared, history, PcOK
<1>1. BridgeRuns /\ Next
  BY DEF BridgeRuns, Next
<1>2. UNCHANGED registered
  BY <1>1, BridgeFrame
<1> SUFFICES ASSUME r \in registered[q], r \in Moving'
             PROVE  /\ pc'[Http(q)] \notin {"zero", "raise", "done"}
                    /\ pc'[Http(q)] = "reap" => target'[Http(q)] = r
  BY <1>2 DEF Finds
<1>3. r \in Moving
  BY <1>1, NotedHelpersEnd
<1>4. /\ pc[Http(q)] \notin {"zero", "raise", "done"}
      /\ pc[Http(q)] = "reap" => target[Http(q)] = r
  BY <1>3 DEF Finds
<1>5. active = r /\ Alive(r) /\ r # NoProcess
  <2>1. pc[Motion(r)] = "wait"
    BY <1>3 DEF Moving, HelperInv, NotedInv, Ending
  <2>2. active = r /\ Alive(r)
    BY <1>3, <2>1 DEF IsActive, Moving, Alive
  <2> QED
    BY <2>2, NoProcessAssumption
<1>6. CASE x # q
  BY <1>4, <1>6, OneActs DEF ActsAlone
<1>7. CASE x = q
  <2>1. pc[Http(q)] \in {"dispatch", "setCancel", "snapshot", "reap"} /\ pc[Motion(q)] = "idle"
    BY <1>4 DEF ThreadInv, HttpAt, MotionAt, Ending
  <2>2. CASE HttpStep(q) \/ SpawnFails(q) \/ ZeroFails(q)
    BY <1>4, <2>1, <2>2 DEF HttpStep, Dispatch, ClearCancel, Reserve, CheckPatrol, RefusePatrol,
       Spawn,
       ZeroDone, ZeroFails, SpawnFails
  <2>3. CASE MotionStep(q)
    BY <2>1, <2>3 DEF MotionStep, Begin, Look, ClearPatrol, ExceptCancelled, Finally
  <2>4. ASSUME NEW t \in {Http(q), Motion(q)}, HelperStep(t) \/ PopenFails(t)
        PROVE  FALSE
    BY <2>1, <2>4 DEF HelperStep, Popen, Register, PopenFails, Wait, Unregister, Succeed, Fail,
       ExceptError
  <2>5. ASSUME NEW t \in {Http(q), Motion(q)}, SetCancel(t) \/ Snapshot(t) \/ ZeroCleanup(t)
        PROVE  /\ pc'[Http(q)] \notin {"zero", "raise", "done"}
               /\ pc'[Http(q)] = "reap" => target'[Http(q)] = r
    BY <1>5, <2>1, <2>5 DEF SetCancel, Snapshot, ZeroCleanup, HelpersOK
  <2>6. ASSUME NEW t \in {Http(q), Motion(q)}, Reap(t)
        PROVE  FALSE
    <3>1. t = Http(q) /\ target[t] = r
      BY <1>4, <2>1, <2>6 DEF Reap
    <3>2. helper'[r] = "failed"
      BY <1>5, <2>6, <3>1 DEF Reap, HelpersOK
    <3> QED
      BY <3>2 DEF Moving
  <2> QED
    BY <1>7, <2>2, <2>3, <2>4, <2>5, <2>6 DEF RequestStep, RequestFails, StopStep
<1> QED
  BY <1>6, <1>7

\* While a run is alone in the Bridge, its stops end its motion.
LEMMA StopStepKeeps ==
  STypeOK /\ IInv /\ OwnerInv /\ RunInv /\ StartInv /\ SoloInv /\ AcceptedInv /\ StopInv
    /\ [SNext]_svars => StopInv'
<1> SUFFICES ASSUME STypeOK, IInv, OwnerInv, RunInv, StartInv, SoloInv, AcceptedInv, StopInv,
                    [SNext]_svars
             PROVE  StopInv'
  OBVIOUS
<1> TypeOK /\ ThreadInv /\ HelperInv /\ NotedInv
  BY DEF IInv
<1> DEFINE Good(s) == s \notin overlapped =>
                        \A r \in Motions(s) : IsActive(r) /\ \A q \in Stops(s) : Finds(q, r)
<1>0. StopInv <=> \A s \in Runs : Good(s)
  BY DEF StopInv, IsActive, Finds
<1>a. StopInv' <=> \A s \in Runs : Good(s)'
  BY DEF StopInv, IsActive, Finds
<1> SUFFICES ASSUME NEW s \in Runs, Good(s), s \notin overlapped', NEW r \in Motions(s)',
                    NEW q
             PROVE  IsActive(r)' /\ (q \in Stops(s)' => Finds(q, r)')
  BY <1>0, <1>a
<1> r \in Requests
  BY DEF Motions
<1>1. ASSUME UNCHANGED <<vars, owner, overlapped>>
      PROVE  IsActive(r)' /\ (q \in Stops(s)' => Finds(q, r)')
  BY <1>1 DEF vars, shared, history, Motions, Stops, IsActive, Finds, Moving
<1>2. ASSUME NEW p \in Runs, LocalStep(p)
      PROVE  IsActive(r)' /\ (q \in Stops(s)' => Finds(q, r)')
  BY <1>1, <1>2, LocalLeavesBridge
<1>3. ASSUME NEW p \in Runs, NEW k, NEW new, Posting(p, k, new)
      PROVE  IsActive(r)' /\ (q \in Stops(s)' => Finds(q, r)')
  <2>1. s \notin overlapped
    BY <1>3 DEF Posting, PostAs
  <2>2. r # new => r \in Motions(s)
    BY <1>3 DEF Posting, PostAs, Arrive, Motions, STypeOK, TypeOK
  <2>3. IsActive(r)'
    BY <1>3, <2>1, <2>2, PostFirst DEF IsActive
  <2>4. ASSUME q \in Stops(s)', q # new PROVE Finds(q, r)'
    <3>1. q \in Stops(s) /\ q \in Requests
      BY <1>3, <2>4 DEF Posting, PostAs, Arrive, Stops, STypeOK, TypeOK
    <3>2. r \in Motions(s)
      BY <1>3, <2>2, <2>4, PostFirst DEF Stops
    <3>3. registered'[q] = registered[q]
      BY <1>3, <2>4, <3>1 DEF Posting, PostAs, Arrive, STypeOK, TypeOK
    <3>4. Moving' = Moving
      BY <1>3, PostFirst DEF Moving
    <3> QED
      BY <1>3, <2>1, <2>4, <3>1, <3>2, <3>3, <3>4, PostFirst DEF Finds
  <2>5. Finds(new, r)'
    BY <1>3, PostFirst DEF Finds
  <2> QED
    BY <2>3, <2>4, <2>5
<1>4. CASE BridgeRuns /\ UNCHANGED <<runtimeVars, adapterVars, stackVars>>
  <2>1. UNCHANGED <<kind, owner, overlapped, registered, run>>
    BY <1>4, BridgeFrame DEF stackVars, runtimeVars
  <2>2. r \in Motions(s) /\ IsActive(r) /\ Stops(s)' = Stops(s) /\ Stops(s) \subseteq Requests
    BY <2>1 DEF Motions, Stops
  <2>3. q \in Stops(s) => Finds(q, r)
    BY <2>1, <2>2
  <2>4. PICK x \in Requests : RequestStep(x) \/ RequestFails(x) \/ HelperEnds(x)
    BY <1>4 DEF BridgeRuns
  <2>5. CASE HelperEnds(x)
    <3>1. UNCHANGED <<pc, active, target>> /\ Moving' \subseteq Moving
      BY <2>5 DEF HelperEnds, Moving, TypeOK
    <3> QED
      BY <2>1, <2>2, <2>3, <3>1 DEF IsActive, Finds
  <2>6. CASE RequestStep(x) \/ RequestFails(x)
    <3>1. Engaged(x)
      BY <2>6, OneActs DEF ActsAlone
    <3>2. ASSUME Engaged(r) PROVE x = r \/ kind[x] = "stop"
      <4>1. InBridge(s)
        BY <2>2, <3>2, InBridgeFacts DEF Motions
      <4>2. owner[x] = s
        BY <2>1, <3>1, <4>1, AloneInBridge
      <4>3. kind[x] \in {"linear", "patrol", "stop"}
        BY <3>1 DEF OwnerInv, ThreadInv, HttpAt, MotionAt, Engaged, TypeOK, Actions
      <4> QED
        BY <2>2, <4>2, <4>3 DEF StartInv, Motions
    <3>3. IsActive(r)'
      <4>1. CASE Engaged(r)
        BY <2>2, <2>6, <3>2, <4>1, ActiveKeeps DEF Motions
      <4>2. CASE ~Engaged(r)
        BY <1>4, <4>2, EngagedFrame DEF Engaged, IsActive
      <4> QED
        BY <4>1, <4>2
    <3>4. q \in Stops(s) => Finds(q, r)'
      BY <2>2, <2>3, <2>6, StopFinds DEF Motions, Stops
    <3> QED
      BY <2>2, <3>3, <3>4
  <2> QED
    BY <2>4, <2>5, <2>6
<1>5. CASE Restart
  <2>1. pc'[Motion(r)] \in {"idle", "done"}
    BY <1>5, ThreadFacts DEF Restart
  <2>2. r \notin Moving'
    BY <1>5 DEF Restart, Moving, Alive, TypeOK
  <2> QED
    BY <2>1, <2>2 DEF IsActive, Finds
<1>6. CASE UNCHANGED svars
  BY <1>1, <1>6 DEF svars, stackVars
<1> QED
  BY <1>2, <1>3, <1>4, <1>5, <1>6, SNextCases

\* What a run records of the answer to its request.
LEMMA RespondRecords ==
  ASSUME STypeOK, NEW s \in Runs, NEW a, Respond(s, a), outcome'[s] = "SUCCEEDED",
         outcome[s] # "SUCCEEDED"
  PROVE  run[s] = "await" /\ a = "SUCCEEDED"
<1> RunsOK
  BY STypeParts
<1>1. run[s] = "await" /\ Conclude(s, a, <<>>)
  BY DEF Respond
<1>2. outcome'[s] = Recorded(call[s], a)
  BY <1>1 DEF Conclude, RunsOK
<1> QED
  BY <1>1, <1>2 DEF Recorded

\* A run that records a success has moved the robot to the end.
LEMMA SucceededStep ==
  STypeOK /\ IInv /\ OwnerInv /\ PostedInv /\ LinesInv /\ WaitInv /\ AcceptedInv /\ StateInv
    /\ JobInv /\ RunInv /\ SucceededIsReal /\ [SNext]_svars => SucceededIsReal'
<1> SUFFICES ASSUME STypeOK, IInv, OwnerInv, PostedInv, LinesInv, WaitInv, AcceptedInv, StateInv,
                    JobInv, RunInv, SucceededIsReal, [SNext]_svars
             PROVE  SucceededIsReal'
  OBVIOUS
<1> AdaptersOK /\ RunsOK
  BY STypeParts
<1> TypeOK /\ ThreadInv
  BY DEF IInv
<1> SUFFICES ASSUME NEW s \in Runs, outcome'[s] = "SUCCEEDED", type'[s] # "STOP"
             PROVE  Real(s)'
  BY DEF SucceededIsReal, Real
<1>1. ASSUME NEW p \in Runs, LocalStep(p) PROVE Real(s)'
  <2>1. Real(s)' = Real(s)
    BY <1>1, LocalLeavesBridge DEF Real, Motions, vars, shared
  <2>2. CASE outcome[s] = "SUCCEEDED" /\ type[s] # "STOP"
    BY <2>1, <2>2 DEF SucceededIsReal, Real
  <2>3. CASE p # s
    BY <1>1, <2>2, <2>3, LocalFrame
  <2>4. CASE p = s /\ StartRun(s)
    BY <2>2, <2>4 DEF StartRun, JobInv
  <2>5. CASE p = s /\ ~StartRun(s) /\ outcome[s] = "SUCCEEDED"
    <3>1. run[s] = "new" <=> adapter[s] = "none"
      BY DEF RunInv
    <3> QED
      BY <1>1, <2>2, <2>5, <3>1, LocalMoves
  <2>6. CASE p = s /\ ~StartRun(s) /\ outcome[s] # "SUCCEEDED"
    <3> LocalStep(s)
      BY <1>1, <2>6
    <3>1. CASE HandleStatus(s)
      <4> DEFINE j == IF job[s] = "RUNNING" THEN MapBridgeState(state) ELSE job[s]
      <4>1. Respond(s, j) /\ UNCHANGED type
        BY <3>1 DEF HandleStatus
      <4>2. run[s] = "await" /\ j = "SUCCEEDED"
        BY <2>6, <4>1, RespondRecords
      <4>3. CASE job[s] = "RUNNING"
        BY <2>1, <3>1, <4>1, <4>2, <4>3, PollIsReal
      <4>4. CASE job[s] # "RUNNING"
        BY <2>1, <4>1, <4>2, <4>4 DEF JobInv
      <4> QED
        BY <4>3, <4>4
    <3>2. CASE Started(s)
      <4> DEFINE j == IF type[s] = "STOP" THEN "SUCCEEDED"
                      ELSE IF result[posted[s]] = "accepted" THEN "RUNNING" ELSE "error"
      <4>1. Respond(s, j) /\ UNCHANGED type
        BY <3>2 DEF Started
      <4>2. j = "SUCCEEDED"
        BY <2>6, <4>1, RespondRecords
      <4> QED
        BY <4>1, <4>2
    <3>3. CASE RefuseCancel(s) \/ StatusFails(s) \/ PostFails(s) \/ HttpFails(s)
      <4>1. Respond(s, "error")
        BY <3>3 DEF RefuseCancel, StatusFails, PostFails, HttpFails
      <4> QED
        BY <2>6, <4>1, RespondRecords
    <3>4. CASE Cancelled(s)
      <4>1. Respond(s, "CANCELLED")
        BY <3>4 DEF Cancelled
      <4> QED
        BY <2>6, <4>1, RespondRecords
    <3>5. CASE GiveUp(s)
      <4>1. Conclude(s, "error", inbox[s])
        BY <3>5 DEF GiveUp
      <4>2. outcome'[s] = outcome[s] \/ outcome'[s] \in {"TIMED_OUT", "FAILED"}
        BY <4>1 DEF Conclude, Recorded, RunsOK
      <4> QED
        BY <2>6, <4>2
    <3>6. CASE \/ Ask(s) \/ Close(s) \/ Crash(s) \/ ShutdownDone(s) \/ ShutdownFails(s)
               \/ Exit(s) \/ Kill(s)
      <4>1. UNCHANGED outcome
        BY <3>6 DEF Ask, Close, Crash, ShutdownDone, ShutdownFails, Exit, Kill, runtimeVars
      <4> QED
        BY <2>6, <4>1
    <3> QED
      BY <2>6, <3>1, <3>2, <3>3, <3>4, <3>5, <3>6 DEF LocalStep
  <2> QED
    BY <2>3, <2>4, <2>5, <2>6
<1>2. ASSUME UNCHANGED <<outcome, type>>, Motions(s) \subseteq Motions(s)',
             \A r \in Requests : helper[r] = "ok" => helper'[r] = "ok",
             overlapped \subseteq overlapped', restarted => restarted'
      PROVE  Real(s)'
  BY <1>2 DEF SucceededIsReal, Real, Motions
<1>3. ASSUME NEW p \in Runs, NEW k, NEW q, Posting(p, k, q) PROVE Real(s)'
  <2>1. Motions(s) \subseteq Motions(s)'
    BY <1>3 DEF Posting, PostAs, Arrive, Motions
  <2>2. UNCHANGED helper
    BY <1>3 DEF Posting, PostAs, Arrive, shared
  <2> QED
    BY <1>2, <1>3, <2>1, <2>2 DEF Posting, PostAs
<1>4. CASE BridgeRuns /\ UNCHANGED <<runtimeVars, adapterVars, stackVars>>
  <2>1. UNCHANGED <<outcome, type, kind, owner, overlapped, restarted>>
    BY <1>4, BridgeFrame DEF runtimeVars, stackVars
  <2>2. \A r \in Requests : helper[r] = "ok" => helper'[r] = "ok"
    BY <1>4, EngagedFrame
  <2> QED
    BY <1>2, <2>1, <2>2 DEF Motions
<1>5. CASE Restart
  BY <1>5 DEF Restart, Real
<1>6. CASE UNCHANGED svars
  BY <1>2, <1>6 DEF svars, vars, shared, runtimeVars, stackVars, Motions
<1> QED
  BY <1>1, <1>3, <1>4, <1>5, <1>6, SNextCases

-----------------------------------------------------------------------------
(***************************************************************************)
(* Theorems                                                                *)
(***************************************************************************)

\* All is at rest.
LEMMA StackStarts == SInit => SInv
<1> SUFFICES ASSUME SInit PROVE SInv
  OBVIOUS
<1>1. IInv
  BY BridgeStarts DEF SInit
<1>2. STypeOK
  <2>1. \A s \in Runs : inbox[s] \in Seq({"start", "status", "cancel"})
    BY DEF SInit
  <2> QED
    BY <1>1, <2>1 DEF SInit, STypeOK, IInv
<1>3. /\ \A r \in Requests : /\ kind[r] = "none" /\ owner[r] = NoRun /\ helper[r] = "none"
                             /\ result[r] = "none" /\ pc[Motion(r)] = "idle"
      /\ \A s \in Runs : s # NoRun
  BY ThreadFacts DEF SInit, Init, Runs, NoRun
<1>4. \A s \in Runs : Motions(s) = {} /\ Stops(s) = {} /\ ~InBridge(s)
  BY <1>3 DEF Motions, Stops, InBridge
<1>5. \A s \in Runs : /\ run[s] = "new" /\ call[s] = "start" /\ inbox[s] = <<>>
                      /\ adapter[s] = "none" /\ job[s] = "none" /\ outcome[s] = "none"
  BY DEF SInit
<1>6. OwnerInv /\ AcceptedInv
  BY <1>3 DEF OwnerInv, AcceptedInv
<1>7. RunInv /\ PostedInv /\ WaitInv /\ StartInv /\ SoloInv
  BY <1>3, <1>4, <1>5 DEF RunInv, PostedInv, WaitInv, StartInv, SoloInv, AdapterUp, Waits
<1>8. LinesInv
  <2>1. Len(<<>>) = 0
    OBVIOUS
  <2> QED
    BY <1>4, <1>5, <2>1 DEF LinesInv, Lined, Told
<1>9. StateInv /\ JobInv /\ StopInv /\ SucceededIsReal
  BY <1>4, <1>5 DEF StateInv, JobInv, StopInv, SucceededIsReal
<1> QED
  BY <1>1, <1>2, <1>6, <1>7, <1>8, <1>9 DEF SInv

\* Whatever the adapters post, and although the Bridge may restart: what a run
\* believes of its job and of the robot, as told at the head of this module.
THEOREM StackInvariant == SSpec => []SInv
<1>1. SInv /\ [SNext]_svars => SInv'
  <2> SUFFICES ASSUME SInv, [SNext]_svars PROVE SInv'
    OBVIOUS
  <2> USE DEF SInv
  <2>1. IInv' /\ STypeOK'
    BY StackKeepsBridge, StackTypes
  <2>2. OwnerInv' /\ RunInv' /\ PostedInv' /\ LinesInv' /\ WaitInv'
    BY OwnerStep, RunOrderStep, PostedStep, LinesStep, WaitStep
  <2>3. StartInv' /\ SoloInv' /\ AcceptedInv' /\ StateInv'
    BY StartStep, SoloStep, AcceptedStep, StateStep
  <2>4. JobInv' /\ StopInv' /\ SucceededIsReal'
    BY JobStep, StopStepKeeps, SucceededStep
  <2> QED
    BY <2>1, <2>2, <2>3, <2>4
<1> QED
  BY <1>1, StackStarts, PTL DEF SSpec

\* The runs, the adapters, the Bridge and what they exchange are of their types.
THEOREM StackTypesCorrect == SSpec => []STypeOK
<1>1. SInv => STypeOK
  BY DEF SInv
<1> QED
  BY <1>1, StackInvariant, PTL

\* Whatever the requests, the faults and their order, no motion of an earlier run
\* goes on or is still to start when a run starts: unless the earlier one crashed,
\* had its adapter terminated, lost a request or met yet another run, or its STOP
\* came before the helper of its motion was registered, or the helper outlived
\* the SIGTERM of its thread.
THEOREM RunsStayApart == SSpec => RunsDoNotMeet
<1> DEFINE Apart(s) == \/ run[s] = "crashed" \/ adapter[s] = "killed"
                       \/ s \in lost \/ s \in overlapped \/ HasLeft(s)
           AllApart == \A s, t \in Runs : s < t /\ run[t] # "new" => Apart(s)
<1>1. ASSUME SInv, NEW s \in Runs, NEW t \in Runs, s < t, run[t] # "new"
      PROVE  Apart(s)
  <2> SUFFICES ASSUME run[s] # "crashed", adapter[s] # "killed", s \notin lost \cup overlapped
               PROVE  HasLeft(s)
    OBVIOUS
  <2>1. run[s] = "ended" /\ ~AdapterUp(s)
    BY <1>1 DEF SInv, RunInv
  <2>2. adapter[s] = "exited"
    BY <1>1, <2>1 DEF SInv, STypeOK, RunInv, AdapterUp
  <2>3. ASSUME NEW r \in Requests, owner[r] = s
        PROVE  pc[Http(r)] = "done"
    BY <1>1, <2>2, <2>3 DEF SInv, PostedInv, Waits
  <2>4. ASSUME NEW r \in Requests, owner[r] = s, ~StandsStill(r), helper[r] # "stray"
        PROVE  Missed(s, r)
    <3>1. helper[r] = "running" \/ pc[Motion(r)] \in {"begin", "look", "clearPatrol", "popen"}
      BY <2>4 DEF StandsStill, Alive
    <3>2. /\ pc[Motion(r)] \in {"begin", "look", "clearPatrol"} \cup Driving
          /\ kind[r] \in {"linear", "patrol"}
      BY <1>1, <3>1 DEF SInv, IInv, HelperInv, ThreadInv, TypeOK, Actions, MotionAt, OwnerInv,
         Driving
    <3>3. r \in Motions(s) /\ pc[Motion(r)] # "idle" /\ UnderWay(r)
      BY <2>4, <3>2 DEF Motions, UnderWay, Driving
    <3>4. Stops(s) # {}
      BY <1>1, <2>2, <3>3 DEF SInv, JobInv, Watched, Waits
    <3>5. ASSUME NEW q \in Stops(s), r \in registered[q]
          PROVE  FALSE
      <4>1. pc[Motion(r)] \notin {"begin", "look", "clearPatrol", "popen"}
        BY <1>1, <3>5 DEF SInv, IInv, NotedInv, Stops, Ending
      <4>2. r \in Moving
        BY <3>1, <4>1 DEF Moving
      <4> QED
        BY <1>1, <2>3, <3>3, <3>5, <4>2 DEF SInv, StopInv, Stops
    <3> QED
      BY <3>4, <3>5 DEF Missed
  <2> QED
    BY <2>1, <2>3, <2>4 DEF HasLeft
<1>2. SInv => AllApart
  BY <1>1
<1>3. AllApart' => [ \A s, t \in Runs :
                       s < t /\ run[t] = "new" /\ run'[t] # "new" =>
                         \/ run'[s] = "crashed" \/ adapter'[s] = "killed"
                         \/ s \in lost' \/ s \in overlapped'
                         \/ HasLeft(s)' ]_svars
  OBVIOUS
<1> QED
  BY <1>2, <1>3, StackInvariant, PTL DEF RunsDoNotMeet

\* A run that records SUCCEEDED has moved the robot to the end, although its
\* adapter asks the Bridge for its state and not for the job's, unless another
\* run came between or the Bridge was restarted.
THEOREM SuccessIsReal == SSpec => []SucceededIsReal
<1>1. SInv => SucceededIsReal
  BY DEF SInv
<1> QED
  BY <1>1, StackInvariant, PTL

\* An adapter that ended by itself leaves the robot moving only if it missed an
\* answer, if another run came between, or if its STOP arrived before the helper
\* was registered.
THEOREM LeftMovingHasItsReason == SSpec => []LeftMovingIsExcused
<1>1. SInv => LeftMovingIsExcused
  <2> SUFFICES ASSUME SInv, NEW s \in Runs, NEW r \in Motions(s), r \in Moving,
                      adapter[s] = "exited", s \notin lost, s \notin overlapped
               PROVE  Missed(s, r)
    BY DEF LeftMovingIsExcused
  <2>1. pc[Motion(r)] \in {"register", "wait"}
    BY DEF SInv, IInv, HelperInv, Motions, Moving
  <2>2. Stops(s) # {}
    <3> SUFFICES ASSUME Stops(s) = {} PROVE FALSE
      OBVIOUS
    <3>1. UnderWay(r) /\ pc[Motion(r)] # "idle"
      BY <2>1 DEF UnderWay, Driving
    <3>2. Watched(s, r)
      BY <3>1 DEF SInv, JobInv
    <3> QED
      BY <3>2 DEF Watched, Waits
  <2>3. ASSUME NEW q \in Stops(s), r \in registered[q] PROVE FALSE
    <3>1. pc[Http(q)] = "done"
      BY DEF SInv, PostedInv, Stops, Waits
    <3> QED
      BY <2>3, <3>1 DEF SInv, StopInv
  <2> QED
    BY <2>2, <2>3 DEF Missed
<1> QED
  BY <1>1, StackInvariant, PTL

\* What is proved of the Bridge by itself holds under the adapters' requests,
\* lost ones included, and across its restart: one linear motion at a time, and
\* a stop that comes early keeps the robot from moving.
THEOREM BridgeHoldsInStack ==
  SSpec => [](OneLinearMotion /\ EarlyStopHolds /\ ReservationHasOwner /\ StopsRegisteredMotion)
<1>1. SInv => OneLinearMotion /\ EarlyStopHolds /\ ReservationHasOwner /\ StopsRegisteredMotion
  BY InvariantImplies DEF SInv
<1> QED
  BY <1>1, StackInvariant, PTL
=============================================================================
