---------------------------- MODULE RuntimeLock ----------------------------
(***************************************************************************)
(* The pid lock file that makes one runtime process at a time run a job:   *)
(* JobRuntime._acquire_lock, _pid_is_active and _release_lock.             *)
(*                                                                         *)
(* A runner is a process id.  pc[p] = "idle" says that no process has that *)
(* id now; when p starts again it is another process with the same id, and *)
(* pc[p] = "foreign" says that an unrelated program got it.  Every call on *)
(* the file (open, write, read, unlink) and os.kill(owner, 0) is one step, *)
(* so that the processes interleave where the operating system lets them.  *)
(*                                                                         *)
(* All runners belong to one user.  A foreign process may belong to        *)
(* another one: os.kill then raises EPERM and the code takes it for dead.  *)
(***************************************************************************)
EXTENDS Naturals

CONSTANTS Runners,  \* the process ids runtime processes can get
          NoOne     \* no pid: the file is absent, empty, or owner = -1

ASSUME NoOneAssumption == NoOne \notin Runners

VARIABLES
  pc,         \* where the process with that id is
  lockFile,   \* runtime.lock: the process whose open() made this inode, and
              \* the pid written in it
  attempt,    \* the iteration of "for _ in range(2)"
  owner,      \* the pid the process read from the file
  contended   \* history: a process entered _acquire_lock while another was
              \* inside it, and one of the processes alive then still is

vars == <<pc, lockFile, attempt, owner, contended>>

\* Mutant: a single round, range(1).
OneAttempt == 1

Attempts == 2       \* range(2)

NoFile == [creator |-> NoOne, content |-> NoOne]

Acquiring == {"open", "write", "read", "probe", "unlink"}
Holding   == {"held", "relRead", "relUnlink"}
Failed    == {"refused", "exhausted"}
Gone      == {"idle", "foreign"}

\* The processes that believe they have the lock.
Holders == {p \in Runners : pc[p] \in Holding}

TypeOK ==
  /\ pc \in [Runners -> Acquiring \cup Holding \cup Failed \cup Gone]
  /\ lockFile \in [creator : Runners \cup {NoOne}, content : Runners \cup {NoOne}]
  /\ attempt \in [Runners -> 1..Attempts]
  /\ owner \in [Runners -> Runners \cup {NoOne}]
  /\ contended \in BOOLEAN

Init ==
  /\ pc = [p \in Runners |-> "idle"]
  /\ lockFile = NoFile
  /\ attempt = [p \in Runners |-> 1]
  /\ owner = [p \in Runners |-> NoOne]
  /\ contended = FALSE

Goto(p, from, to) == pc[p] = from /\ pc' = [pc EXCEPT ![p] = to]

(***************************************************************************)
(* _acquire_lock                                                           *)
(***************************************************************************)

\* The locals of the function are gone when it returns or raises.
ForgetLocals(p) == /\ attempt' = [attempt EXCEPT ![p] = 1]
                   /\ owner' = [owner EXCEPT ![p] = NoOne]

\* `roc_adapter_runtime.py run` reaches _acquire_lock.
Start(p) ==
  /\ Goto(p, "idle", "open")
  /\ attempt' = [attempt EXCEPT ![p] = 1]
  /\ owner' = [owner EXCEPT ![p] = NoOne]
  /\ contended' = (contended \/ \E q \in Runners \ {p} : pc[q] \in Acquiring)
  /\ UNCHANGED lockFile

\* os.open with O_CREAT | O_EXCL creates an empty file ...
Create(p) ==
  /\ Goto(p, "open", "write")
  /\ lockFile = NoFile
  /\ lockFile' = [creator |-> p, content |-> NoOne]
  /\ UNCHANGED <<attempt, owner, contended>>

\* ... or raises FileExistsError.
Exists(p) ==
  /\ Goto(p, "open", "read")
  /\ lockFile # NoFile
  /\ UNCHANGED <<lockFile, attempt, owner, contended>>

\* Mutant: the pid is not written to the file.
WritePidForgotten(p) ==
  /\ Goto(p, "write", "held")
  /\ UNCHANGED <<lockFile, attempt, owner, contended>>

\* The pid reaches the file when it is closed.  If the file was unlinked
\* meanwhile the pid goes to an inode that no longer has a name.
WritePid(p) ==
  /\ Goto(p, "write", "held")
  /\ lockFile' = IF lockFile.creator = p THEN [lockFile EXCEPT !.content = p]
                                         ELSE lockFile
  /\ ForgetLocals(p)
  /\ UNCHANGED contended

\* An absent file (OSError) and an empty one (ValueError) give owner = -1.
ReadOwner(p) ==
  /\ Goto(p, "read", "probe")
  /\ owner' = [owner EXCEPT ![p] = lockFile.content]
  /\ UNCHANGED <<lockFile, attempt, contended>>

\* Mutant: every owner is taken for dead.
PidNeverActive(q) == {FALSE}

\* What os.kill(pid, 0) can answer: _pid_is_active.
PidIsActive(q) ==
  CASE q = NoOne        -> {FALSE}
    [] pc[q] = "foreign" -> {TRUE, FALSE}
    [] OTHER             -> {pc[q] # "idle"}

\* Another runtime, or a process that got its pid, is alive.
Refuse(p) ==
  /\ Goto(p, "probe", "refused")
  /\ TRUE \in PidIsActive(owner[p])
  /\ ForgetLocals(p)
  /\ UNCHANGED <<lockFile, contended>>

JudgeStale(p) ==
  /\ Goto(p, "probe", "unlink")
  /\ FALSE \in PidIsActive(owner[p])
  /\ UNCHANGED <<lockFile, attempt, owner, contended>>

\* Mutant: retry until the lock is acquired.
UnlinkStaleRetryForever(p) ==
  /\ Goto(p, "unlink", "open")
  /\ lockFile' = NoFile
  /\ UNCHANGED <<attempt, owner, contended>>

\* Mutant: the bound of the loop is tested with <=.
UnlinkStaleOffByOne(p) ==
  /\ Goto(p, "unlink", "open")
  /\ attempt[p] <= Attempts
  /\ lockFile' = NoFile
  /\ attempt' = [attempt EXCEPT ![p] = @ + 1]
  /\ UNCHANGED <<owner, contended>>

\* unlink removes whatever file has the name now; a missing one is ignored.
\* The loop ends after its second round.
UnlinkStale(p) ==
  /\ pc[p] = "unlink"
  /\ lockFile' = NoFile
  /\ IF attempt[p] < Attempts
       THEN /\ pc' = [pc EXCEPT ![p] = "open"]
            /\ attempt' = [attempt EXCEPT ![p] = @ + 1]
            /\ UNCHANGED owner
       ELSE /\ pc' = [pc EXCEPT ![p] = "exhausted"]
            /\ ForgetLocals(p)
  /\ UNCHANGED contended

(***************************************************************************)
(* The job, and _release_lock                                              *)
(***************************************************************************)

\* run() reaches _release_lock in its finally block.
FinishJob(p) ==
  /\ Goto(p, "held", "relRead")
  /\ UNCHANGED <<lockFile, attempt, owner, contended>>

\* The history forgets a contention when its last process is gone.
Forget(p) == contended' = (contended /\ \E q \in Runners \ {p} : pc[q] \notin Gone)

\* The file holds this process's pid: it will be unlinked.
ReleaseOwn(p) ==
  /\ Goto(p, "relRead", "relUnlink")
  /\ lockFile.content = p
  /\ UNCHANGED <<lockFile, attempt, owner, contended>>

\* It does not (absent, empty, another pid): leave it and exit.
ReleaseNothing(p) ==
  /\ Goto(p, "relRead", "idle")
  /\ lockFile.content # p
  /\ Forget(p)
  /\ UNCHANGED <<lockFile, attempt, owner>>

ReleaseUnlink(p) ==
  /\ Goto(p, "relUnlink", "idle")
  /\ lockFile' = NoFile
  /\ Forget(p)
  /\ UNCHANGED <<attempt, owner>>

\* A process that did not get the lock prints the error and exits.
ExitFailed(p) ==
  /\ pc[p] \in Failed
  /\ pc' = [pc EXCEPT ![p] = "idle"]
  /\ Forget(p)
  /\ UNCHANGED <<lockFile, attempt, owner>>

(***************************************************************************)
(* The environment                                                         *)
(***************************************************************************)

\* SIGKILL, power loss, an OSError that _acquire_lock does not catch: the
\* process is gone and the file stays as it is.
Crash(p) ==
  /\ pc[p] \in Acquiring \cup Holding
  /\ pc' = [pc EXCEPT ![p] = "idle"]
  /\ Forget(p)
  /\ ForgetLocals(p)
  /\ UNCHANGED lockFile

\* An unrelated program gets the process id, and exits.
ForeignStart(p) ==
  /\ Goto(p, "idle", "foreign")
  /\ UNCHANGED <<lockFile, attempt, owner, contended>>

ForeignExit(p) ==
  /\ Goto(p, "foreign", "idle")
  /\ UNCHANGED <<lockFile, attempt, owner, contended>>

-----------------------------------------------------------------------------

Acquire(p) == \/ Create(p) \/ Exists(p) \/ WritePid(p) \/ ReadOwner(p)
              \/ Refuse(p) \/ JudgeStale(p) \/ UnlinkStale(p)

Release(p) == \/ FinishJob(p) \/ ReleaseOwn(p) \/ ReleaseNothing(p)
              \/ ReleaseUnlink(p) \/ ExitFailed(p)

Environment(p) == Start(p) \/ Crash(p) \/ ForeignStart(p) \/ ForeignExit(p)

Next == \E p \in Runners : Acquire(p) \/ Release(p) \/ Environment(p)

Spec == Init /\ [][Next]_vars

\* The operating system keeps scheduling a process inside _acquire_lock.
Fairness == \A p \in Runners : WF_vars(Acquire(p))

FairSpec == Spec /\ Fairness

-----------------------------------------------------------------------------
(***************************************************************************)
(* Properties                                                              *)
(***************************************************************************)

\* What the documents promise: at most one process runs a job in an SDK home.
\* The code does not give it when two processes are inside _acquire_lock
\* together (see README).
MutualExclusion == \A p, q \in Holders : p = q

\* What the code gives: starts that do not overlap inside _acquire_lock never
\* produce two holders, whatever crashes, stale or half-written files and
\* reused process ids came before.
ExclusiveUnlessContended == ~contended => MutualExclusion

\* Without contention a holder's pid is in the file from the write to the
\* unlink: nobody removes the lock of a live job (so that `cancel` finds it and
\* the next start is refused), and _release_lock removes nobody else's.
HolderOwnsLockFile ==
  ~contended => \A p \in Holders : lockFile = [creator |-> p, content |-> p]

\* Without contention a stale file costs one of the two attempts and the
\* other one gets the lock: "Cannot acquire adapter runtime lock" is never
\* raised.
TwoAttemptsSuffice == ~contended => \A p \in Runners : pc[p] # "exhausted"

\* _acquire_lock ends for every process, though others may keep creating and
\* abandoning lock files meanwhile.
AcquisitionEnds == \A p \in Runners : pc[p] \in Acquiring ~> pc[p] \notin Acquiring

=============================================================================
