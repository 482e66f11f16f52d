------------------------- MODULE RuntimeLockProofs -------------------------
(***************************************************************************)
(* Proofs about RuntimeLock, for any set of process ids.                   *)
(*                                                                         *)
(* ExclusiveUnlessContended is not inductive: that nobody else holds the   *)
(* lock when p writes its pid rests on what p saw on its way there.  The   *)
(* strengthening LockInv says, for a history without contention, what      *)
(* each step of the one process inside _acquire_lock knows of the file.    *)
(***************************************************************************)
EXTENDS RuntimeLock, TLAPS

\* One process at a time is inside _acquire_lock.
OneAcquirer ==
  \A p, q \in Runners : pc[p] \in Acquiring /\ pc[q] \in Acquiring => p = q

\* The file a process has created is there until it writes its pid.
WriterOwnsEmptyFile ==
  \A p \in Runners : pc[p] = "write" => lockFile = [creator |-> p, content |-> NoOne]

\* A holder's pid is in the file.
HolderOwnsFile ==
  \A h \in Runners : pc[h] \in Holding => lockFile = [creator |-> h, content |-> h]

\* What the process read is the holder, if there is one.
ProbesTheHolder ==
  \A p, h \in Runners : pc[p] = "probe" /\ pc[h] \in Holding => owner[p] = h

\* A process about to unlink has ruled a holder out.
UnlinksNoHolder ==
  \A p, h \in Runners : pc[p] = "unlink" => pc[h] \notin Holding

\* In its second round a process finds no file and creates it.
SecondRoundCreates ==
  \A p \in Runners : pc[p] \in Acquiring /\ attempt[p] = 2 =>
                       \/ pc[p] = "open" /\ lockFile = NoFile
                       \/ pc[p] = "write"

NobodyExhausted == \A p \in Runners : pc[p] # "exhausted"

LockInv ==
  ~contended => /\ OneAcquirer
                /\ WriterOwnsEmptyFile
                /\ HolderOwnsFile
                /\ ProbesTheHolder
                /\ UnlinksNoHolder
                /\ SecondRoundCreates
                /\ NobodyExhausted

IInv == TypeOK /\ LockInv

-----------------------------------------------------------------------------

\* Every variable keeps its type: in particular the loop of _acquire_lock
\* never counts past its second round.
THEOREM TypeCorrect == Spec => []TypeOK
<1> DEFINE DataOK ==
      /\ pc \in [Runners -> Acquiring \cup Holding \cup Failed \cup Gone]
      /\ lockFile \in [creator : Runners \cup {NoOne}, content : Runners \cup {NoOne}]
      /\ attempt \in [Runners -> 1..Attempts]
      /\ owner \in [Runners -> Runners \cup {NoOne}]
<1>1. Init => TypeOK
  <2>1. Init => DataOK
    BY DEF Init, Gone, NoFile, Attempts
  <2>2. Init => contended \in BOOLEAN
    BY DEF Init
  <2> QED
    BY <2>1, <2>2 DEF TypeOK
<1>2. DataOK /\ [Next]_vars => DataOK'
  <2> SUFFICES ASSUME DataOK, [Next]_vars PROVE DataOK'
    OBVIOUS
  <2> USE DEF Acquiring, Holding, Failed, Gone, Goto, NoFile, Attempts, ForgetLocals
  <2>1. ASSUME NEW p \in Runners, Acquire(p) PROVE DataOK'
    <3>1. CASE Create(p)
      BY <3>1 DEF Create
    <3>2. CASE Exists(p) \/ JudgeStale(p)
      BY <3>2 DEF Exists, JudgeStale
    <3>3. CASE WritePid(p)
      BY <3>3 DEF WritePid
    <3>6. CASE Refuse(p)
      BY <3>6 DEF Refuse
    <3>4. CASE ReadOwner(p)
      BY <3>4 DEF ReadOwner
    <3>5. CASE UnlinkStale(p)
      BY <3>5 DEF UnlinkStale
    <3> QED
      BY <2>1, <3>1, <3>2, <3>3, <3>4, <3>5, <3>6 DEF Acquire
  <2>2. ASSUME NEW p \in Runners, Release(p) PROVE DataOK'
    BY <2>2 DEF Release, FinishJob, ReleaseOwn, ReleaseNothing, ReleaseUnlink, ExitFailed
  <2>3. ASSUME NEW p \in Runners, Environment(p) PROVE DataOK'
    BY <2>3 DEF Environment, Start, Crash, ForeignStart, ForeignExit
  <2>4. CASE UNCHANGED vars
    BY <2>4 DEF vars
  <2> QED
    BY <2>1, <2>2, <2>3, <2>4 DEF Next
<1>3. contended \in BOOLEAN /\ [Next]_vars => contended' \in BOOLEAN
  BY Zenon DEF Next, vars, Acquire, Create, Exists, WritePid, ReadOwner, Refuse, JudgeStale,
     UnlinkStale, Release, FinishJob, ReleaseOwn, ReleaseNothing, ReleaseUnlink, ExitFailed,
     Environment, Start, Crash, ForeignStart, ForeignExit, Forget
<1>4. TypeOK /\ [Next]_vars => TypeOK'
  BY <1>2, <1>3 DEF TypeOK
<1> QED
  BY <1>1, <1>4, PTL DEF Spec

\* When the history forgets a contention no runtime process is left, and
\* nothing remains to be shown.
LEMMA ForgottenMeansNobodyLeft ==
  ASSUME NEW p \in Runners, TypeOK, contended, Forget(p), ~contended',
         pc' = [pc EXCEPT ![p] = "idle"]
  PROVE  LockInv'
<1>1. \A q \in Runners : pc'[q] \in Gone
  BY DEF TypeOK, Forget, Gone
<1> QED
  BY <1>1 DEF LockInv, OneAcquirer, WriterOwnsEmptyFile, HolderOwnsFile, ProbesTheHolder,
     UnlinksNoHolder, SecondRoundCreates, NobodyExhausted, Acquiring, Holding, Gone

\* The invariant of _acquire_lock and _release_lock is inductive.
THEOREM LockInvariant == Spec => []IInv
<1> USE NoOneAssumption DEF NoFile
<1>1. Init => LockInv
  BY DEF Init, LockInv, OneAcquirer, WriterOwnsEmptyFile, HolderOwnsFile, ProbesTheHolder,
     UnlinksNoHolder, SecondRoundCreates, NobodyExhausted, Acquiring, Holding
<1>2. TypeOK /\ TypeOK' /\ LockInv /\ [Next]_vars => LockInv'
  <2> SUFFICES ASSUME TypeOK, TypeOK', LockInv, [Next]_vars PROVE LockInv'
    OBVIOUS
  <2> USE DEF TypeOK, Attempts, Acquiring, Holding, Failed, Gone, Goto, ForgetLocals,
              LockInv, OneAcquirer, WriterOwnsEmptyFile, HolderOwnsFile, ProbesTheHolder,
              UnlinksNoHolder, SecondRoundCreates, NobodyExhausted
  <2>1. ASSUME NEW p \in Runners, Acquire(p) PROVE LockInv'
    <3>1. CASE Create(p)
      BY <3>1 DEF Create
    <3>2. CASE Exists(p)
      BY <3>2 DEF Exists
    <3>3. CASE WritePid(p)
      BY <3>3 DEF WritePid
    <3>4. CASE ReadOwner(p)
      BY <3>4 DEF ReadOwner
    <3>5. CASE Refuse(p)
      BY <3>5 DEF Refuse
    <3>6. CASE JudgeStale(p)
      <4>1. ASSUME ~contended, NEW h \in Runners, pc[h] \in Holding PROVE FALSE
        <5>1. owner[p] = h
          BY <3>6, <4>1 DEF JudgeStale
        <5>2. PidIsActive(h) = {TRUE}
          BY <4>1 DEF PidIsActive
        <5> QED
          BY <3>6, <5>1, <5>2 DEF JudgeStale
      <4> QED
        BY <3>6, <4>1 DEF JudgeStale
    <3>7. CASE UnlinkStale(p)
      BY <3>7 DEF UnlinkStale
    <3> QED
      BY <2>1, <3>1, <3>2, <3>3, <3>4, <3>5, <3>6, <3>7 DEF Acquire
  <2>2. ASSUME NEW p \in Runners, Release(p) PROVE LockInv'
    <3>1. CASE FinishJob(p)
      BY <3>1 DEF FinishJob
    <3>2. CASE ReleaseOwn(p)
      BY <3>2 DEF ReleaseOwn
    <3>3. CASE ReleaseNothing(p)
      BY <3>3, ForgottenMeansNobodyLeft DEF ReleaseNothing, Forget
    <3>4. CASE ReleaseUnlink(p)
      BY <3>4, ForgottenMeansNobodyLeft DEF ReleaseUnlink, Forget
    <3>5. CASE ExitFailed(p)
      BY <3>5, ForgottenMeansNobodyLeft DEF ExitFailed, Forget
    <3> QED
      BY <2>2, <3>1, <3>2, <3>3, <3>4, <3>5 DEF Release
  <2>3. ASSUME NEW p \in Runners, Environment(p) PROVE LockInv'
    <3>1. CASE Start(p)
      <4>1. ASSUME ~contended'
            PROVE  ~contended /\ \A q \in Runners \ {p} : pc[q] \notin Acquiring
        BY Zenon, <3>1, <4>1 DEF Start
      <4> QED
        BY <3>1, <4>1 DEF Start
    <3>2. CASE Crash(p)
      BY <3>2, ForgottenMeansNobodyLeft DEF Crash, Forget
    <3>3. CASE ForeignStart(p)
      BY <3>3 DEF ForeignStart
    <3>4. CASE ForeignExit(p)
      BY <3>4 DEF ForeignExit
    <3> QED
      BY <2>3, <3>1, <3>2, <3>3, <3>4 DEF Environment
  <2>4. CASE UNCHANGED vars
    BY <2>4 DEF vars
  <2> QED
    BY <2>1, <2>2, <2>3, <2>4 DEF Next
<1> QED
  BY <1>1, <1>2, TypeCorrect, PTL DEF Spec, IInv

-----------------------------------------------------------------------------

\* For any number of processes: starts that do not overlap inside
\* _acquire_lock never give two holders of runtime.lock.
THEOREM Exclusion == Spec => []ExclusiveUnlessContended
<1>1. IInv => ExclusiveUnlessContended
  BY DEF IInv, LockInv, HolderOwnsFile, ExclusiveUnlessContended, MutualExclusion, Holders
<1> QED
  BY <1>1, LockInvariant, PTL

\* A live job's lock file is never unlinked by another process, and a release
\* never unlinks a file that is not the process's own.
THEOREM LockFileOwnership == Spec => []HolderOwnsLockFile
<1>1. IInv => HolderOwnsLockFile
  BY DEF IInv, LockInv, HolderOwnsFile, HolderOwnsLockFile, Holders
<1> QED
  BY <1>1, LockInvariant, PTL

\* Two rounds of _acquire_lock are enough.
THEOREM TwoRounds == Spec => []TwoAttemptsSuffice
<1>1. IInv => TwoAttemptsSuffice
  BY DEF IInv, LockInv, NobodyExhausted, TwoAttemptsSuffice
<1> QED
  BY <1>1, LockInvariant, PTL
=============================================================================
