------------------------- MODULE JobAdmissionProofs -------------------------
(***************************************************************************)
(* Proofs about JobAdmission, for any set of processes and of keys: it     *)
(* uses the lock as RuntimeLock specifies it, so that what is proved of    *)
(* the lock holds here, and it has its properties, but the one that the    *)
(* code does not have (NotExecutedTwice).                                  *)
(*                                                                         *)
(* That a repetition is excused rests on a relation between the histories  *)
(* and state.json (RepeatInv): a completed key that was not superseded is  *)
(* the one in the file, and no run that is not stale has it.               *)
(***************************************************************************)
EXTENDS JobAdmission, RuntimeLockProofs

RunsOK == /\ key \in [Runners -> Keys \cup {NoKey}]
          /\ phase \in [Runners -> {"waiting", "recorded", "moving", "ended"}]

FileOK == /\ DOMAIN stateFile = {"key", "pid", "active"}
          /\ stateFile.key \in Keys \cup {NoKey}
          /\ stateFile.active \in BOOLEAN
          /\ stateFile.active => stateFile.pid \in Runners

CancelOK == /\ cpc \in {"idle", "lock", "verify", "kill"}
            /\ IF cpc = "idle" THEN cpid = NoOne ELSE cpid \in Runners /\ ckey \in Keys

HistoryOK == /\ completed \subseteq Keys /\ repeated \subseteq Keys
             /\ superseded \subseteq Keys /\ stale \subseteq Runners

Alive(p) == pc[p] \notin Gone

\* What a process does, and for which key, is known while it is there.
RunInv ==
  \A p \in Runners :
    /\ Alive(p) => key[p] \in Keys
    /\ phase[p] \in {"recorded", "moving"} => pc[p] = "held"

\* state.json and what `cancel` read in it name the job of the process with that
\* pid, unless it has inherited the pid; what `cancel` has verified is there.
NameInv ==
  /\ verified => cpc = "kill" /\ Alive(cpid)
  /\ \A p \in Runners : Alive(p) /\ p \notin inherited =>
       /\ stateFile.active /\ stateFile.pid = p => key[p] = stateFile.key
       /\ cpid = p => key[p] = ckey

RepeatInv ==
  /\ \A k \in completed \ superseded : stateFile.key = k /\ ~stateFile.active
  /\ \A p \in Runners :
       Alive(p) /\ phase[p] # "ended" /\ p \notin stale => key[p] \notin completed \ superseded

DataOK == RunsOK /\ FileOK /\ CancelOK

AInv == DataOK /\ HistoryOK /\ RunInv /\ NameInv /\ RepeatInv /\ StateFileIsTheJob
-----------------------------------------------------------------------------
(***************************************************************************)
(* The parts of the invariant                                              *)
(***************************************************************************)

\* What the runs keep.
LEMMA RunsTypes ==
  RunsOK /\ CancelOK /\ [ANext]_<<vars, admissionVars>>
    => RunsOK'
<1> SUFFICES ASSUME RunsOK, CancelOK,
                    [ANext]_<<vars, admissionVars>>
             PROVE  RunsOK'
  OBVIOUS
<1> USE NoKeyAssumption, NoOneAssumption
    DEF vars, runVars, cancelVars, jobHistory, historyVars
<1>1. ASSUME NEW p \in Runners, NEW k \in Keys, Submit(p, k)
      PROVE  RunsOK'
  BY <1>1 DEF RunsOK, CancelOK, Submit, NewRun, Present
<1>2. ASSUME NEW p \in Runners, LockStep(p)
      PROVE  RunsOK'
  BY <1>2 DEF RunsOK, CancelOK, LockStep, admissionVars
<1>3. ASSUME NEW p \in Runners, RecordReceived(p)
      PROVE  RunsOK'
  BY <1>3 DEF RunsOK, CancelOK, RecordReceived, Supersede
<1>4. ASSUME NEW p \in Runners, StartJob(p)
      PROVE  RunsOK'
  BY <1>4 DEF RunsOK, CancelOK, StartJob
<1>5. ASSUME NEW p \in Runners, RecordTerminal(p)
      PROVE  RunsOK'
  BY <1>5 DEF RunsOK, CancelOK, RecordTerminal, Supersede, Present
<1>6. ASSUME NEW p \in Runners, EndUnrecorded(p)
      PROVE  RunsOK'
  BY <1>6 DEF RunsOK, CancelOK, EndUnrecorded
<1>7. ASSUME NEW p \in Runners, EndRun(p)
      PROVE  RunsOK'
  BY <1>7 DEF RunsOK, CancelOK, EndRun, admissionVars
<1>8. ASSUME NEW p \in Runners, Exit(p)
      PROVE  RunsOK'
  BY <1>8 DEF RunsOK, CancelOK, Exit, Forgotten, Leaves
<1>9. ASSUME NEW k \in Keys, CancelReadState(k)
      PROVE  RunsOK'
  BY <1>9 DEF RunsOK, CancelOK, CancelReadState
<1>10. CASE CancelReadLock
  BY <1>10 DEF RunsOK, CancelOK, CancelReadLock, CancelGoto
<1>11. CASE CancelVerify
  BY <1>11 DEF RunsOK, CancelOK, CancelVerify, CancelGoto
<1>12. CASE CancelRefused
  BY <1>12 DEF RunsOK, CancelOK, CancelRefused, CancelFails, CancelEnds
<1>13. CASE CancelSignals
  BY <1>13 DEF RunsOK, CancelOK, CancelSignals, CancelEnds
<1>14. CASE CancelKills
  BY <1>14 DEF RunsOK, CancelOK, CancelKills, CancelEnds, Forgotten, Leaves
<1>15. CASE UNCHANGED <<vars, admissionVars>>
  BY <1>15 DEF vars, admissionVars, RunsOK, CancelOK
<1>16. ASSUME NEW p \in Runners, OtherProgram(p)
      PROVE  RunsOK'
  BY <1>16 DEF RunsOK, CancelOK, OtherProgram, Leaves
<1> QED
  BY <1>1, <1>2, <1>3, <1>4, <1>5, <1>6, <1>7, <1>8, <1>9, <1>10, <1>11, <1>12, <1>13,
     <1>14, <1>15, <1>16 DEF ANext, Run, Cancel

\* What is in state.json.
LEMMA FileTypes ==
  RunsOK /\ FileOK /\ [ANext]_<<vars, admissionVars>>
    => FileOK'
<1> SUFFICES ASSUME RunsOK, FileOK,
                    [ANext]_<<vars, admissionVars>>
             PROVE  FileOK'
  OBVIOUS
<1> USE NoKeyAssumption, NoOneAssumption
    DEF vars, runVars, cancelVars, jobHistory, historyVars
<1>1. ASSUME NEW p \in Runners, NEW k \in Keys, Submit(p, k)
      PROVE  FileOK'
  BY <1>1 DEF RunsOK, FileOK, Submit, NewRun, Present
<1>2. ASSUME NEW p \in Runners, LockStep(p)
      PROVE  FileOK'
  BY <1>2 DEF RunsOK, FileOK, LockStep, admissionVars
<1>3. ASSUME NEW p \in Runners, RecordReceived(p)
      PROVE  FileOK'
  BY <1>3 DEF RunsOK, FileOK, RecordReceived, Supersede
<1>4. ASSUME NEW p \in Runners, StartJob(p)
      PROVE  FileOK'
  BY <1>4 DEF RunsOK, FileOK, StartJob
<1>5. ASSUME NEW p \in Runners, RecordTerminal(p)
      PROVE  FileOK'
  BY <1>5 DEF RunsOK, FileOK, RecordTerminal, Supersede, Present
<1>6. ASSUME NEW p \in Runners, EndUnrecorded(p)
      PROVE  FileOK'
  BY <1>6 DEF RunsOK, FileOK, EndUnrecorded
<1>7. ASSUME NEW p \in Runners, EndRun(p)
      PROVE  FileOK'
  BY <1>7 DEF RunsOK, FileOK, EndRun, admissionVars
<1>8. ASSUME NEW p \in Runners, Exit(p)
      PROVE  FileOK'
  BY <1>8 DEF RunsOK, FileOK, Exit, Forgotten, Leaves
<1>9. ASSUME NEW k \in Keys, CancelReadState(k)
      PROVE  FileOK'
  BY <1>9 DEF RunsOK, FileOK, CancelReadState
<1>10. CASE CancelReadLock
  BY <1>10 DEF RunsOK, FileOK, CancelReadLock, CancelGoto
<1>11. CASE CancelVerify
  BY <1>11 DEF RunsOK, FileOK, CancelVerify, CancelGoto
<1>12. CASE CancelRefused
  BY <1>12 DEF RunsOK, FileOK, CancelRefused, CancelFails, CancelEnds
<1>13. CASE CancelSignals
  BY <1>13 DEF RunsOK, FileOK, CancelSignals, CancelEnds
<1>14. CASE CancelKills
  BY <1>14 DEF RunsOK, FileOK, CancelKills, CancelEnds, Forgotten, Leaves
<1>15. CASE UNCHANGED <<vars, admissionVars>>
  BY <1>15 DEF vars, admissionVars, RunsOK, FileOK
<1>16. ASSUME NEW p \in Runners, OtherProgram(p)
      PROVE  FileOK'
  BY <1>16 DEF RunsOK, FileOK, OtherProgram, Leaves
<1> QED
  BY <1>1, <1>2, <1>3, <1>4, <1>5, <1>6, <1>7, <1>8, <1>9, <1>10, <1>11, <1>12, <1>13,
     <1>14, <1>15, <1>16 DEF ANext, Run, Cancel

\* What the cancel process has read.
LEMMA CancelTypes ==
  FileOK /\ CancelOK /\ [ANext]_<<vars, admissionVars>>
    => CancelOK'
<1> SUFFICES ASSUME FileOK, CancelOK,
                    [ANext]_<<vars, admissionVars>>
             PROVE  CancelOK'
  OBVIOUS
<1> USE NoKeyAssumption, NoOneAssumption
    DEF vars, runVars, cancelVars, jobHistory, historyVars
<1>1. ASSUME NEW p \in Runners, NEW k \in Keys, Submit(p, k)
      PROVE  CancelOK'
  BY <1>1 DEF FileOK, CancelOK, Submit, NewRun, Present
<1>2. ASSUME NEW p \in Runners, LockStep(p)
      PROVE  CancelOK'
  BY <1>2 DEF FileOK, CancelOK, LockStep, admissionVars
<1>3. ASSUME NEW p \in Runners, RecordReceived(p)
      PROVE  CancelOK'
  BY <1>3 DEF FileOK, CancelOK, RecordReceived, Supersede
<1>4. ASSUME NEW p \in Runners, StartJob(p)
      PROVE  CancelOK'
  BY <1>4 DEF FileOK, CancelOK, StartJob
<1>5. ASSUME NEW p \in Runners, RecordTerminal(p)
      PROVE  CancelOK'
  BY <1>5 DEF FileOK, CancelOK, RecordTerminal, Supersede, Present
<1>6. ASSUME NEW p \in Runners, EndUnrecorded(p)
      PROVE  CancelOK'
  BY <1>6 DEF FileOK, CancelOK, EndUnrecorded
<1>7. ASSUME NEW p \in Runners, EndRun(p)
      PROVE  CancelOK'
  BY <1>7 DEF FileOK, CancelOK, EndRun, admissionVars
<1>8. ASSUME NEW p \in Runners, Exit(p)
      PROVE  CancelOK'
  BY <1>8 DEF FileOK, CancelOK, Exit, Forgotten, Leaves
<1>9. ASSUME NEW k \in Keys, CancelReadState(k)
      PROVE  CancelOK'
  BY <1>9 DEF FileOK, CancelOK, CancelReadState
<1>10. CASE CancelReadLock
  BY <1>10 DEF FileOK, CancelOK, CancelReadLock, CancelGoto
<1>11. CASE CancelVerify
  BY <1>11 DEF FileOK, CancelOK, CancelVerify, CancelGoto
<1>12. CASE CancelRefused
  BY <1>12 DEF FileOK, CancelOK, CancelRefused, CancelFails, CancelEnds
<1>13. CASE CancelSignals
  BY <1>13 DEF FileOK, CancelOK, CancelSignals, CancelEnds
<1>14. CASE CancelKills
  BY <1>14 DEF FileOK, CancelOK, CancelKills, CancelEnds, Forgotten, Leaves
<1>15. CASE UNCHANGED <<vars, admissionVars>>
  BY <1>15 DEF vars, admissionVars, FileOK, CancelOK
<1>16. ASSUME NEW p \in Runners, OtherProgram(p)
      PROVE  CancelOK'
  BY <1>16 DEF FileOK, CancelOK, OtherProgram, Leaves
<1> QED
  BY <1>1, <1>2, <1>3, <1>4, <1>5, <1>6, <1>7, <1>8, <1>9, <1>10, <1>11, <1>12, <1>13,
     <1>14, <1>15, <1>16 DEF ANext, Run, Cancel

\* What the histories keep.
LEMMA HistoryTypes ==
  RunsOK /\ FileOK /\ CancelOK /\ HistoryOK /\ RunInv /\ [ANext]_<<vars, admissionVars>>
    => HistoryOK'
<1> SUFFICES ASSUME RunsOK, FileOK, CancelOK, HistoryOK, RunInv,
                    [ANext]_<<vars, admissionVars>>
             PROVE  HistoryOK'
  OBVIOUS
<1> USE NoKeyAssumption, NoOneAssumption
    DEF vars, runVars, cancelVars, jobHistory, historyVars
<1>1. ASSUME NEW p \in Runners, NEW k \in Keys, Submit(p, k)
      PROVE  HistoryOK'
  BY <1>1 DEF RunsOK, FileOK, CancelOK, HistoryOK, RunInv, Alive, Gone, Submit, NewRun, Present
<1>2. ASSUME NEW p \in Runners, LockStep(p)
      PROVE  HistoryOK'
  BY <1>2 DEF RunsOK, FileOK, CancelOK, HistoryOK, RunInv, Alive, Gone, LockStep, admissionVars
<1>3. ASSUME NEW p \in Runners, RecordReceived(p)
      PROVE  HistoryOK'
  BY <1>3 DEF RunsOK, FileOK, CancelOK, HistoryOK, RunInv, Alive, Gone, RecordReceived, Supersede
<1>4. ASSUME NEW p \in Runners, StartJob(p)
      PROVE  HistoryOK'
  BY <1>4 DEF RunsOK, FileOK, CancelOK, HistoryOK, RunInv, Alive, Gone, StartJob
<1>5. ASSUME NEW p \in Runners, RecordTerminal(p)
      PROVE  HistoryOK'
  BY <1>5 DEF RunsOK, FileOK, CancelOK, HistoryOK, RunInv, Alive, Gone, RecordTerminal, Supersede,
     Present
<1>6. ASSUME NEW p \in Runners, EndUnrecorded(p)
      PROVE  HistoryOK'
  BY <1>6 DEF RunsOK, FileOK, CancelOK, HistoryOK, RunInv, Alive, Gone, EndUnrecorded
<1>7. ASSUME NEW p \in Runners, EndRun(p)
      PROVE  HistoryOK'
  BY <1>7 DEF RunsOK, FileOK, CancelOK, HistoryOK, RunInv, Alive, Gone, EndRun, admissionVars
<1>8. ASSUME NEW p \in Runners, Exit(p)
      PROVE  HistoryOK'
  BY <1>8 DEF RunsOK, FileOK, CancelOK, HistoryOK, RunInv, Alive, Gone, Exit, Forgotten, Leaves
<1>9. ASSUME NEW k \in Keys, CancelReadState(k)
      PROVE  HistoryOK'
  BY <1>9 DEF RunsOK, FileOK, CancelOK, HistoryOK, RunInv, Alive, Gone, CancelReadState
<1>10. CASE CancelReadLock
  BY <1>10 DEF RunsOK, FileOK, CancelOK, HistoryOK, RunInv, Alive, Gone, CancelReadLock,
     CancelGoto
<1>11. CASE CancelVerify
  BY <1>11 DEF RunsOK, FileOK, CancelOK, HistoryOK, RunInv, Alive, Gone, CancelVerify, CancelGoto
<1>12. CASE CancelRefused
  BY <1>12 DEF RunsOK, FileOK, CancelOK, HistoryOK, RunInv, Alive, Gone, CancelRefused,
     CancelFails, CancelEnds
<1>13. CASE CancelSignals
  BY <1>13 DEF RunsOK, FileOK, CancelOK, HistoryOK, RunInv, Alive, Gone, CancelSignals, CancelEnds
<1>14. CASE CancelKills
  BY <1>14 DEF RunsOK, FileOK, CancelOK, HistoryOK, RunInv, Alive, Gone, CancelKills, CancelEnds,
     Forgotten, Leaves
<1>15. CASE UNCHANGED <<vars, admissionVars>>
  BY <1>15 DEF vars, admissionVars, RunsOK, FileOK, CancelOK, HistoryOK, RunInv, Alive
<1>16. ASSUME NEW p \in Runners, OtherProgram(p)
      PROVE  HistoryOK'
  BY <1>16 DEF RunsOK, FileOK, CancelOK, HistoryOK, RunInv, Alive, Gone, OtherProgram, Leaves
<1> QED
  BY <1>1, <1>2, <1>3, <1>4, <1>5, <1>6, <1>7, <1>8, <1>9, <1>10, <1>11, <1>12, <1>13,
     <1>14, <1>15, <1>16 DEF ANext, Run, Cancel

\* Where the steps of the lock lead.
LEMMA LockMoves ==
  ASSUME NEW p \in Runners, TypeOK
  PROVE  /\ Start(p) => pc[p] = "idle" /\ pc' = [pc EXCEPT ![p] = "open"]
         /\ Acquire(p) \/ ReleaseOwn(p) =>
              /\ pc[p] \notin Gone \cup {"held"}
              /\ \E to \in Acquiring \cup Holding \cup Failed :
                   to \notin Gone /\ pc' = [pc EXCEPT ![p] = to]
         /\ FinishJob(p) => pc[p] = "held" /\ pc' = [pc EXCEPT ![p] = "relRead"]
         /\ ReleaseNothing(p) \/ ReleaseUnlink(p) \/ ExitFailed(p) \/ Crash(p) =>
              pc[p] \notin Gone /\ pc' = [pc EXCEPT ![p] = "idle"]
         /\ ForeignStart(p) => pc[p] = "idle" /\ pc' = [pc EXCEPT ![p] = "foreign"]
         /\ ForeignExit(p) => pc[p] = "foreign" /\ pc' = [pc EXCEPT ![p] = "idle"]
<1> USE DEF Goto, Acquiring, Holding, Failed, Gone
<1>1. Acquire(p) \/ ReleaseOwn(p) =>
              /\ pc[p] \notin Gone \cup {"held"}
              /\ \E to \in Acquiring \cup Holding \cup Failed :
                   to \notin Gone /\ pc' = [pc EXCEPT ![p] = to]
  BY DEF Acquire, Create, Exists, WritePid, ReadOwner, Refuse, JudgeStale, UnlinkStale, ReleaseOwn
<1>2. Start(p) => pc[p] = "idle" /\ pc' = [pc EXCEPT ![p] = "open"]
  BY DEF Start
<1>3. FinishJob(p) => pc[p] = "held" /\ pc' = [pc EXCEPT ![p] = "relRead"]
  BY DEF FinishJob
<1>4. ReleaseNothing(p) \/ ReleaseUnlink(p) \/ ExitFailed(p) \/ Crash(p) =>
              pc[p] \notin Gone /\ pc' = [pc EXCEPT ![p] = "idle"]
  BY DEF ReleaseNothing, ReleaseUnlink, ExitFailed, Crash
<1>5. /\ ForeignStart(p) => pc[p] = "idle" /\ pc' = [pc EXCEPT ![p] = "foreign"]
      /\ ForeignExit(p) => pc[p] = "foreign" /\ pc' = [pc EXCEPT ![p] = "idle"]
  BY DEF ForeignStart, ForeignExit
<1> QED
  BY <1>1, <1>2, <1>3, <1>4, <1>5

\* A process has its key from its start to its end.
LEMMA RunStep ==
  TypeOK /\ RunsOK /\ CancelOK /\ RunInv /\ [ANext]_<<vars, admissionVars>>
    => RunInv'
<1> SUFFICES ASSUME TypeOK, RunsOK, CancelOK, RunInv,
                    [ANext]_<<vars, admissionVars>>
             PROVE  RunInv'
  OBVIOUS
<1> USE NoKeyAssumption, NoOneAssumption
    DEF vars, runVars, cancelVars, jobHistory, historyVars
<1>1. ASSUME NEW p \in Runners, NEW k \in Keys, Submit(p, k)
      PROVE  RunInv'
  BY <1>1, LockMoves DEF RunInv, Alive, Gone, RunsOK, CancelOK, TypeOK, Submit, NewRun, Present
<1>2. ASSUME NEW p \in Runners, LockStep(p)
      PROVE  RunInv'
  BY <1>2, LockMoves DEF RunInv, Alive, Gone, RunsOK, CancelOK, TypeOK, LockStep, admissionVars
<1>3. ASSUME NEW p \in Runners, RecordReceived(p)
      PROVE  RunInv'
  BY <1>3 DEF RunInv, Alive, Gone, RunsOK, CancelOK, TypeOK, RecordReceived, Supersede
<1>4. ASSUME NEW p \in Runners, StartJob(p)
      PROVE  RunInv'
  BY <1>4 DEF RunInv, Alive, Gone, RunsOK, CancelOK, TypeOK, StartJob
<1>5. ASSUME NEW p \in Runners, RecordTerminal(p)
      PROVE  RunInv'
  BY <1>5 DEF RunInv, Alive, Gone, RunsOK, CancelOK, TypeOK, RecordTerminal, Supersede, Present
<1>6. ASSUME NEW p \in Runners, EndUnrecorded(p)
      PROVE  RunInv'
  BY <1>6 DEF RunInv, Alive, Gone, RunsOK, CancelOK, TypeOK, EndUnrecorded
<1>7. ASSUME NEW p \in Runners, EndRun(p)
      PROVE  RunInv'
  BY <1>7, LockMoves DEF RunInv, Alive, Gone, RunsOK, CancelOK, TypeOK, EndRun, admissionVars
<1>8. ASSUME NEW p \in Runners, Exit(p)
      PROVE  RunInv'
  BY <1>8, LockMoves DEF RunInv, Alive, Gone, RunsOK, CancelOK, TypeOK, Exit, Forgotten, Leaves
<1>9. ASSUME NEW k \in Keys, CancelReadState(k)
      PROVE  RunInv'
  BY <1>9 DEF RunInv, Alive, Gone, RunsOK, CancelOK, TypeOK, CancelReadState
<1>10. CASE CancelReadLock
  BY <1>10 DEF RunInv, Alive, Gone, RunsOK, CancelOK, TypeOK, CancelReadLock, CancelGoto
<1>11. CASE CancelVerify
  BY <1>11 DEF RunInv, Alive, Gone, RunsOK, CancelOK, TypeOK, CancelVerify, CancelGoto
<1>12. CASE CancelRefused
  BY <1>12 DEF RunInv, Alive, Gone, RunsOK, CancelOK, TypeOK, CancelRefused, CancelFails,
     CancelEnds
<1>13. CASE CancelSignals
  BY <1>13 DEF RunInv, Alive, Gone, RunsOK, CancelOK, TypeOK, CancelSignals, CancelEnds
<1>14. CASE CancelKills
  BY <1>14, LockMoves DEF RunInv, Alive, Gone, RunsOK, CancelOK, TypeOK, CancelKills, CancelEnds,
     Forgotten, Leaves
<1>15. CASE UNCHANGED <<vars, admissionVars>>
  BY <1>15 DEF vars, admissionVars, RunInv, Alive, Gone, RunsOK, CancelOK, TypeOK
<1>16. ASSUME NEW p \in Runners, OtherProgram(p)
      PROVE  RunInv'
  BY <1>16, LockMoves DEF RunInv, Alive, Gone, RunsOK, CancelOK, TypeOK, OtherProgram, Leaves
<1> QED
  BY <1>1, <1>2, <1>3, <1>4, <1>5, <1>6, <1>7, <1>8, <1>9, <1>10, <1>11, <1>12, <1>13,
     <1>14, <1>15, <1>16 DEF ANext, Run, Cancel

\* A run that gets a pid which is still named is noted as its heir.
LEMMA NameStep ==
  TypeOK /\ RunsOK /\ FileOK /\ CancelOK /\ RunInv /\ NameInv /\ [ANext]_<<vars, admissionVars>>
    => NameInv'
<1> SUFFICES ASSUME TypeOK, RunsOK, FileOK, CancelOK, RunInv, NameInv,
                    [ANext]_<<vars, admissionVars>>
             PROVE  NameInv'
  OBVIOUS
<1> USE NoKeyAssumption, NoOneAssumption
    DEF vars, runVars, cancelVars, jobHistory, historyVars
<1>1. ASSUME NEW p \in Runners, NEW k \in Keys, Submit(p, k)
      PROVE  NameInv'
  BY <1>1, LockMoves DEF NameInv, TypeOK, RunInv, Alive, Gone, RunsOK, FileOK, CancelOK, Submit,
     NewRun, Present
<1>2. ASSUME NEW p \in Runners, LockStep(p)
      PROVE  NameInv'
  BY <1>2, LockMoves DEF NameInv, TypeOK, RunInv, Alive, Gone, RunsOK, FileOK, CancelOK, LockStep,
     admissionVars
<1>3. ASSUME NEW p \in Runners, RecordReceived(p)
      PROVE  NameInv'
  BY <1>3 DEF NameInv, RunInv, Alive, Gone, RunsOK, FileOK, CancelOK, RecordReceived, Supersede
<1>4. ASSUME NEW p \in Runners, StartJob(p)
      PROVE  NameInv'
  BY <1>4 DEF NameInv, RunInv, Alive, Gone, RunsOK, FileOK, CancelOK, StartJob
<1>5. ASSUME NEW p \in Runners, RecordTerminal(p)
      PROVE  NameInv'
  BY <1>5 DEF NameInv, RunInv, Alive, Gone, RunsOK, FileOK, CancelOK, RecordTerminal, Supersede,
     Present
<1>6. ASSUME NEW p \in Runners, EndUnrecorded(p)
      PROVE  NameInv'
  BY <1>6 DEF NameInv, RunInv, Alive, Gone, RunsOK, FileOK, CancelOK, EndUnrecorded
<1>7. ASSUME NEW p \in Runners, EndRun(p)
      PROVE  NameInv'
  BY <1>7, LockMoves DEF NameInv, TypeOK, RunInv, Alive, Gone, RunsOK, FileOK, CancelOK, EndRun,
     admissionVars
<1>8. ASSUME NEW p \in Runners, Exit(p)
      PROVE  NameInv'
  <2>1. pc[p] \notin Gone /\ pc' = [pc EXCEPT ![p] = "idle"]
    BY <1>8, LockMoves DEF Exit
  <2>2. Forgotten(p) /\ UNCHANGED <<stateFile, cancelVars>>
    BY <1>8 DEF Exit
  <2> QED
    BY <2>1, <2>2 DEF NameInv, TypeOK, Alive, Gone, RunsOK, CancelOK, Forgotten, Leaves
<1>9. ASSUME NEW k \in Keys, CancelReadState(k)
      PROVE  NameInv'
  BY <1>9 DEF NameInv, RunInv, Alive, Gone, RunsOK, FileOK, CancelOK, CancelReadState
<1>10. CASE CancelReadLock
  BY <1>10 DEF NameInv, RunInv, Alive, Gone, RunsOK, FileOK, CancelOK, CancelReadLock, CancelGoto
<1>11. CASE CancelVerify
  BY <1>11 DEF NameInv, RunInv, Alive, Gone, RunsOK, FileOK, CancelOK, CancelVerify, CancelGoto
<1>12. CASE CancelRefused
  BY <1>12 DEF NameInv, RunInv, Alive, Gone, RunsOK, FileOK, CancelOK, CancelRefused, CancelFails,
     CancelEnds
<1>13. CASE CancelSignals
  BY <1>13 DEF NameInv, RunInv, Alive, Gone, RunsOK, FileOK, CancelOK, CancelSignals, CancelEnds
<1>14. CASE CancelKills
  BY <1>14, LockMoves DEF NameInv, TypeOK, RunInv, Alive, Gone, RunsOK, FileOK, CancelOK,
     CancelKills, CancelEnds,
     Forgotten, Leaves
<1>15. CASE UNCHANGED <<vars, admissionVars>>
  BY <1>15 DEF vars, admissionVars, NameInv, RunInv, Alive, Gone, RunsOK, FileOK, CancelOK
<1>16. ASSUME NEW p \in Runners, OtherProgram(p)
      PROVE  NameInv'
  <2>1. \/ pc[p] = "idle" /\ pc' = [pc EXCEPT ![p] = "foreign"] /\ verified' = verified
        \/ pc[p] = "foreign" /\ pc' = [pc EXCEPT ![p] = "idle"] /\ Leaves(p)
    BY <1>16, LockMoves DEF OtherProgram
  <2>2. UNCHANGED <<runVars, stateFile, cancelVars, inherited>>
    BY <1>16 DEF OtherProgram
  <2>3. \A q \in Runners : Alive(q)' => Alive(q)
    BY <2>1 DEF Alive, Gone, TypeOK
  <2>4. \A q \in Runners : Alive(q) => q # p /\ Alive(q)'
    BY <2>1 DEF Alive, Gone, TypeOK
  <2>5. verified' => verified
    BY <2>1 DEF Leaves
  <2>6. verified' => cpc' = "kill" /\ Alive(cpid)'
    <3>1. verified' => cpc = "kill" /\ Alive(cpid) /\ cpid \in Runners
      BY <2>5 DEF NameInv, CancelOK
    <3> QED
      BY <2>2, <2>4, <3>1 DEF Alive
  <2> QED
    BY <2>2, <2>3, <2>6 DEF NameInv
<1> QED
  BY <1>1, <1>2, <1>3, <1>4, <1>5, <1>6, <1>7, <1>8, <1>9, <1>10, <1>11, <1>12, <1>13,
     <1>14, <1>15, <1>16 DEF ANext, Run, Cancel

\* A record that ends the claim of a key makes the runs that looked before it
\* stale.
LEMMA RepeatStep ==
  TypeOK /\ RunsOK /\ FileOK /\ CancelOK /\ HistoryOK /\ RunInv /\ RepeatInv /\ [ANext]_<<vars,
  admissionVars>>
    => RepeatInv'
<1> SUFFICES ASSUME TypeOK, RunsOK, FileOK, CancelOK, HistoryOK, RunInv, RepeatInv,
                    [ANext]_<<vars, admissionVars>>
             PROVE  RepeatInv'
  OBVIOUS
<1> USE NoKeyAssumption, NoOneAssumption
    DEF vars, runVars, cancelVars, jobHistory, historyVars
<1>1. ASSUME NEW p \in Runners, NEW k \in Keys, Submit(p, k)
      PROVE  RepeatInv'
  BY <1>1, LockMoves DEF RepeatInv, RunInv, Alive, Gone, RunsOK, FileOK, CancelOK, HistoryOK,
     TypeOK, Submit, NewRun, Present
<1>2. ASSUME NEW p \in Runners, LockStep(p)
      PROVE  RepeatInv'
  BY <1>2, LockMoves DEF RepeatInv, RunInv, Alive, Gone, RunsOK, FileOK, CancelOK, HistoryOK,
     TypeOK, LockStep, admissionVars
<1>3. ASSUME NEW p \in Runners, RecordReceived(p)
      PROVE  RepeatInv'
  BY <1>3 DEF RepeatInv, RunInv, Alive, Gone, RunsOK, FileOK, CancelOK, HistoryOK, TypeOK,
     RecordReceived, Supersede
<1>4. ASSUME NEW p \in Runners, StartJob(p)
      PROVE  RepeatInv'
  BY <1>4 DEF RepeatInv, RunInv, Alive, Gone, RunsOK, FileOK, CancelOK, HistoryOK, TypeOK,
     StartJob
<1>5. ASSUME NEW p \in Runners, RecordTerminal(p)
      PROVE  RepeatInv'
  BY <1>5 DEF RepeatInv, RunInv, Alive, Gone, RunsOK, FileOK, CancelOK, HistoryOK, TypeOK,
     RecordTerminal, Supersede, Present
<1>6. ASSUME NEW p \in Runners, EndUnrecorded(p)
      PROVE  RepeatInv'
  BY <1>6 DEF RepeatInv, RunInv, Alive, Gone, RunsOK, FileOK, CancelOK, HistoryOK, TypeOK,
     EndUnrecorded
<1>7. ASSUME NEW p \in Runners, EndRun(p)
      PROVE  RepeatInv'
  BY <1>7, LockMoves DEF RepeatInv, RunInv, Alive, Gone, RunsOK, FileOK, CancelOK, HistoryOK,
     TypeOK, EndRun, admissionVars
<1>8. ASSUME NEW p \in Runners, Exit(p)
      PROVE  RepeatInv'
  BY <1>8, LockMoves DEF RepeatInv, RunInv, Alive, Gone, RunsOK, FileOK, CancelOK, HistoryOK,
     TypeOK, Exit, Forgotten, Leaves
<1>9. ASSUME NEW k \in Keys, CancelReadState(k)
      PROVE  RepeatInv'
  BY <1>9 DEF RepeatInv, RunInv, Alive, Gone, RunsOK, FileOK, CancelOK, HistoryOK, TypeOK,
     CancelReadState
<1>10. CASE CancelReadLock
  BY <1>10 DEF RepeatInv, RunInv, Alive, Gone, RunsOK, FileOK, CancelOK, HistoryOK, TypeOK,
     CancelReadLock, CancelGoto
<1>11. CASE CancelVerify
  BY <1>11 DEF RepeatInv, RunInv, Alive, Gone, RunsOK, FileOK, CancelOK, HistoryOK, TypeOK,
     CancelVerify, CancelGoto
<1>12. CASE CancelRefused
  BY <1>12 DEF RepeatInv, RunInv, Alive, Gone, RunsOK, FileOK, CancelOK, HistoryOK, TypeOK,
     CancelRefused, CancelFails, CancelEnds
<1>13. CASE CancelSignals
  BY <1>13 DEF RepeatInv, RunInv, Alive, Gone, RunsOK, FileOK, CancelOK, HistoryOK, TypeOK,
     CancelSignals, CancelEnds
<1>14. CASE CancelKills
  BY <1>14, LockMoves DEF RepeatInv, RunInv, Alive, Gone, RunsOK, FileOK, CancelOK, HistoryOK,
     TypeOK, CancelKills, CancelEnds, Forgotten, Leaves
<1>15. CASE UNCHANGED <<vars, admissionVars>>
  BY <1>15 DEF vars, admissionVars, RepeatInv, RunInv, Alive, Gone, RunsOK, FileOK, CancelOK,
     HistoryOK, TypeOK
<1>16. ASSUME NEW p \in Runners, OtherProgram(p)
      PROVE  RepeatInv'
  BY <1>16, LockMoves DEF RepeatInv, RunInv, Alive, Gone, RunsOK, FileOK, CancelOK, HistoryOK,
     TypeOK, OtherProgram, Leaves
<1> QED
  BY <1>1, <1>2, <1>3, <1>4, <1>5, <1>6, <1>7, <1>8, <1>9, <1>10, <1>11, <1>12, <1>13,
     <1>14, <1>15, <1>16 DEF ANext, Run, Cancel

\* Whoever writes state.json holds the lock, so nobody else is in a job.
LEMMA StateStep ==
  IInv /\ RunsOK /\ CancelOK /\ RunInv /\ StateFileIsTheJob /\ [ANext]_<<vars, admissionVars>>
    => StateFileIsTheJob'
<1> SUFFICES ASSUME IInv, RunsOK, CancelOK, RunInv, StateFileIsTheJob,
                    [ANext]_<<vars, admissionVars>>, ~contended'
             PROVE  \A p \in InJob' : stateFile' = [key |-> key'[p], pid |-> p, active |-> TRUE]
  BY DEF StateFileIsTheJob
<1> TypeOK
  BY DEF IInv
<1> USE DEF runVars, cancelVars, jobHistory, historyVars, InJob
\* A step of another part of p's run.
<1>1. ASSUME NEW p \in Runners, ~contended, stateFile' = stateFile, key' = key,
             InJob' \subseteq InJob
      PROVE  \A q \in InJob' : stateFile' = [key |-> key'[q], pid |-> q, active |-> TRUE]
  BY <1>1 DEF StateFileIsTheJob
\* Of two holders the lock knows one only.
<1>2. ~contended => \A p, q \in Runners : pc[p] = "held" /\ pc[q] = "held" => p = q
  BY DEF IInv, LockInv, HolderOwnsFile, Holding
\* The end of a process.
<1>3. ASSUME NEW p \in Runners,
             ReleaseNothing(p) \/ ReleaseUnlink(p) \/ ExitFailed(p) \/ Crash(p),
             stateFile' = stateFile, Forgotten(p)
      PROVE  \A q \in InJob' : stateFile' = [key |-> key'[q], pid |-> q, active |-> TRUE]
  <2>1. pc' = [pc EXCEPT ![p] = "idle"] /\ Forget(p)
    BY <1>3, LockMoves DEF ReleaseNothing, ReleaseUnlink, ExitFailed, Crash
  <2>2. CASE contended
    <3>1. \A q \in Runners : pc'[q] \in Gone
      BY <2>1, <2>2 DEF Forget, TypeOK, Gone
    <3> QED
      BY <3>1 DEF Gone
  <2>3. CASE ~contended
    <3>1. InJob' \subseteq InJob \ {p}
      BY <1>3, <2>1 DEF Forgotten, TypeOK, RunsOK
    <3>2. \A q \in Runners \ {p} : key'[q] = key[q]
      BY <1>3 DEF Forgotten, RunsOK
    <3> QED
      BY <1>3, <2>3, <3>1, <3>2 DEF StateFileIsTheJob
  <2> QED
    BY <2>2, <2>3
<1>4. ASSUME NEW p \in Runners, NEW k \in Keys, Submit(p, k)
      PROVE  \A q \in InJob' : stateFile' = [key |-> key'[q], pid |-> q, active |-> TRUE]
  <2>1. ~contended
    BY <1>4, Zenon DEF Submit, NewRun, Start
  <2>2. /\ pc' = [pc EXCEPT ![p] = "open"] /\ key' = [key EXCEPT ![p] = k]
        /\ phase' = phase /\ stateFile' = stateFile
    BY <1>4, LockMoves DEF Submit, NewRun
  <2> QED
    BY <2>1, <2>2 DEF StateFileIsTheJob, TypeOK, RunsOK
<1>5. ASSUME NEW p \in Runners, LockStep(p) \/ EndRun(p)
      PROVE  \A q \in InJob' : stateFile' = [key |-> key'[q], pid |-> q, active |-> TRUE]
  <2>1. /\ contended' = contended /\ phase' = phase /\ stateFile' = stateFile /\ key' = key
        /\ phase[p] \notin {"recorded", "moving"}
        /\ \E to \in Acquiring \cup Holding \cup Failed : pc' = [pc EXCEPT ![p] = to]
    <3>1. CASE EndRun(p)
      BY <3>1, LockMoves DEF EndRun, FinishJob, admissionVars, Holding
    <3>2. CASE LockStep(p)
      <4>1. contended' = contended
        BY <3>2 DEF LockStep, Acquire, Create, Exists, WritePid, ReadOwner, Refuse, JudgeStale,
           UnlinkStale, ReleaseOwn
      <4> QED
        BY <3>2, <4>1, LockMoves DEF LockStep, admissionVars, RunInv
    <3> QED
      BY <1>5, <3>1, <3>2
  <2>2. InJob' \subseteq InJob
    BY <2>1 DEF TypeOK
  <2> QED
    BY <1>1, <2>1, <2>2
<1>6. ASSUME NEW p \in Runners, RecordReceived(p)
      PROVE  \A q \in InJob' : stateFile' = [key |-> key'[q], pid |-> q, active |-> TRUE]
  BY <1>2, <1>6 DEF RecordReceived, vars, RunsOK
<1>7. ASSUME NEW p \in Runners, RecordTerminal(p)
      PROVE  \A q \in InJob' : stateFile' = [key |-> key'[q], pid |-> q, active |-> TRUE]
  BY <1>2, <1>7 DEF RecordTerminal, vars, RunsOK
<1>8. ASSUME NEW p \in Runners, StartJob(p) \/ EndUnrecorded(p)
      PROVE  \A q \in InJob' : stateFile' = [key |-> key'[q], pid |-> q, active |-> TRUE]
  <2>1. /\ ~contended /\ stateFile' = stateFile /\ key' = key
        /\ InJob' \subseteq InJob
    BY <1>8 DEF StartJob, EndUnrecorded, vars, RunsOK
  <2> QED
    BY <1>1, <2>1
<1>9. ASSUME NEW p \in Runners, Exit(p)
      PROVE  \A q \in InJob' : stateFile' = [key |-> key'[q], pid |-> q, active |-> TRUE]
  BY <1>3, <1>9 DEF Exit
<1>10. CASE CancelKills
  <2>1. cpid \in Runners
    BY <1>10 DEF CancelKills, CancelOK
  <2> QED
    BY <1>3, <1>10, <2>1 DEF CancelKills
<1>12. ASSUME NEW p \in Runners, OtherProgram(p)
       PROVE  \A q \in InJob' : stateFile' = [key |-> key'[q], pid |-> q, active |-> TRUE]
  <2>1. /\ contended' = contended /\ stateFile' = stateFile /\ key' = key /\ phase' = phase
        /\ \E to \in Gone : pc' = [pc EXCEPT ![p] = to]
    BY <1>12, LockMoves DEF OtherProgram, ForeignStart, ForeignExit, Gone
  <2>2. InJob' \subseteq InJob
    BY <2>1 DEF TypeOK, Gone
  <2> QED
    BY <1>1, <2>1, <2>2
<1>11. CASE \/ \E k \in Keys : CancelReadState(k)
            \/ CancelReadLock \/ CancelVerify \/ CancelRefused \/ CancelSignals
            \/ UNCHANGED <<vars, admissionVars>>
  <2>1. /\ stateFile' = stateFile /\ key' = key /\ phase' = phase
        /\ pc' = pc /\ contended' = contended
    BY <1>11 DEF CancelReadState, CancelReadLock, CancelVerify, CancelRefused, CancelSignals,
       CancelGoto, CancelFails, vars, admissionVars
  <2> QED
    BY <2>1 DEF StateFileIsTheJob
<1> QED
  BY <1>4, <1>5, <1>6, <1>7, <1>8, <1>9, <1>10, <1>11, <1>12 DEF ANext, Run, Cancel

-----------------------------------------------------------------------------
(***************************************************************************)
(* Theorems                                                                *)
(***************************************************************************)

\* The processes of this module use the lock as those of RuntimeLock do.
THEOREM UsesTheLock == ASpec => Spec
<1>1. ASpec => []DataOK
  <2>1. AInit => DataOK
    BY DEF AInit, DataOK, RunsOK, FileOK, CancelOK
  <2>2. DataOK /\ [ANext]_<<vars, admissionVars>> => DataOK'
    BY RunsTypes, FileTypes, CancelTypes DEF DataOK
  <2> QED
    BY <2>1, <2>2, PTL DEF ASpec
<1>2. AInit => Init
  BY DEF AInit
<1>3. DataOK /\ [ANext]_<<vars, admissionVars>> => [Next]_vars
  <2> SUFFICES ASSUME DataOK, [ANext]_<<vars, admissionVars>> PROVE Next \/ UNCHANGED vars
    OBVIOUS
  <2>1. ASSUME NEW p \in Runners, \/ \E k \in Keys : Submit(p, k)
                                  \/ LockStep(p) \/ EndRun(p) \/ Exit(p) \/ OtherProgram(p)
        PROVE  Next
    BY <2>1 DEF Next, Environment, Release, Submit, NewRun, LockStep, EndRun, Exit,
       OtherProgram
  <2>2. CASE CancelKills
    <3>1. cpid \in Runners /\ (Crash(cpid) \/ ExitFailed(cpid))
      BY <2>2 DEF CancelKills, DataOK, CancelOK
    <3> QED
      BY <3>1 DEF Next, Environment, Release
  <2>3. ASSUME NEW p \in Runners, RecordReceived(p) \/ StartJob(p) \/ RecordTerminal(p)
                                  \/ EndUnrecorded(p)
        PROVE  UNCHANGED vars
    BY <2>3 DEF RecordReceived, StartJob, RecordTerminal, EndUnrecorded
  <2>4. CASE \/ \E k \in Keys : CancelReadState(k)
             \/ CancelReadLock \/ CancelVerify \/ CancelRefused \/ CancelSignals
    BY <2>4 DEF CancelReadState, CancelReadLock, CancelVerify, CancelRefused, CancelSignals,
       CancelGoto, CancelFails
  <2>5. CASE UNCHANGED <<vars, admissionVars>>
    BY <2>5
  <2> QED
    BY <2>1, <2>2, <2>3, <2>4, <2>5 DEF ANext, Run, Cancel
<1> QED
  BY <1>1, <1>2, <1>3, PTL DEF ASpec, Spec

\* For any number of processes and keys, the runs are never outside AInv.
THEOREM AdmissionInvariant == ASpec => []AInv
<1>1. AInit => AInv
  <2> SUFFICES ASSUME AInit PROVE AInv
    OBVIOUS
  <2>1. RunsOK /\ CancelOK /\ HistoryOK
    BY DEF AInit, RunsOK, CancelOK, HistoryOK
  <2>2. FileOK
    BY DEF AInit, FileOK
  <2>3. RunInv /\ NameInv /\ RepeatInv /\ StateFileIsTheJob
    BY NoOneAssumption DEF AInit, Init, RunInv, Alive, Gone, NameInv, RepeatInv,
       StateFileIsTheJob, InJob
  <2> QED
    BY <2>1, <2>2, <2>3 DEF AInv, DataOK
<1>2. IInv /\ AInv /\ [ANext]_<<vars, admissionVars>> => AInv'
  BY RunsTypes, FileTypes, CancelTypes, HistoryTypes, RunStep, NameStep, RepeatStep, StateStep
     DEF AInv, DataOK, IInv
<1>3. ASpec => []IInv
  BY UsesTheLock, LockInvariant, PTL
<1> QED
  BY <1>1, <1>2, <1>3, PTL DEF ASpec

\* What `status` shows and `cancel` checks is the job the robot executes, as
\* long as no two starts overlap inside _acquire_lock.
THEOREM StateFileIsTrue == ASpec => []StateFileIsTheJob
<1>1. AInv => StateFileIsTheJob
  BY DEF AInv
<1> QED
  BY <1>1, AdmissionInvariant, PTL

\* The SIGTERM of `cancel --job-id` goes to the run of that job, although pids
\* are reused by runs and by other programs at any point; but for a process
\* that took the pid after the verification, or another run that had got the
\* pid its record still names.
THEOREM OnlyTheNamedJob == ASpec => SignalsNamedJob
<1>1. AInv => (cpc = "kill" /\ verified => key[cpid] = ckey \/ cpid \in inherited)
  BY DEF AInv, DataOK, CancelOK, NameInv
<1>2. AInv /\ [ANext]_<<vars, admissionVars>>
        => [ cpc = "kill" /\ cpc' = "idle" /\ verified
               => key[cpid] = ckey \/ cpid \in inherited ]_<<vars, admissionVars>>
  BY <1>1
<1> QED
  BY <1>2, AdmissionInvariant, PTL DEF ASpec, SignalsNamedJob

\* A completed job is executed again only by a run that passed the idempotency
\* check before it completed, or after its record was replaced.
THEOREM RepetitionsAreExcused == ASpec => RepeatsAreExcused
<1> DEFINE Excused == \A k \in repeated' \ repeated :
                        \/ k \in superseded
                        \/ \E p \in stale : key[p] = k /\ phase[p] # phase'[p]
<1>1. AInv /\ [ANext]_<<vars, admissionVars>> => [Excused]_<<vars, admissionVars>>
  <2> SUFFICES ASSUME AInv, ANext PROVE Excused
    OBVIOUS
  <2>1. ASSUME NEW p \in Runners, StartJob(p)
        PROVE  Excused
    <3>1. /\ repeated' = repeated \cup ({key[p]} \cap completed)
          /\ phase[p] = "recorded" /\ phase'[p] = "moving" /\ pc[p] = "held"
      BY <2>1 DEF StartJob, AInv, DataOK, RunsOK
    <3>2. key[p] \in completed => key[p] \in superseded \/ p \in stale
      BY <3>1 DEF AInv, RepeatInv, Alive, Gone
    <3> QED
      BY <3>1, <3>2
  <2>2. ASSUME \A p \in Runners : ~StartJob(p)
        PROVE  repeated' = repeated
    BY <2>2 DEF ANext, Run, Cancel, Submit, NewRun, OtherProgram, LockStep, RecordReceived,
       RecordTerminal,
       EndUnrecorded, EndRun, Exit, CancelReadState, CancelReadLock, CancelVerify, CancelRefused,
       CancelSignals, CancelKills, CancelGoto, CancelFails, admissionVars, jobHistory, historyVars
  <2> QED
    BY <2>1, <2>2
<1> QED
  BY <1>1, AdmissionInvariant, PTL DEF ASpec, RepeatsAreExcused
=============================================================================
