---------------------------- MODULE JobLifecycle ----------------------------
(***************************************************************************)
(* What a reader of state.json and of the event outbox may rely on for one *)
(* run of a job, whatever the adapter, the disk and the clock do: the      *)
(* states follow the life cycle below, a terminal state is final, and the  *)
(* events are the recorded states in their order, each at most once and    *)
(* never before it is recorded.  JobRuntime implements it.                 *)
(***************************************************************************)
EXTENDS Sequences, SequencesExt

Terminal == {"SUCCEEDED", "FAILED", "CANCELLED", "TIMED_OUT", "REJECTED"}
Active   == {"RECEIVED", "VALIDATED", "STARTING", "RUNNING", "CANCELLING"}

NoState == "none"

VARIABLES
  state,      \* what the file says of the job, NoState before its first state
  published   \* the states that were published

\* The terminal states an adapter may answer with.
Reported == Terminal

Successors ==
  [s \in Active \cup {NoState} |->
     CASE s = NoState      -> {"RECEIVED", "FAILED"}
       [] s = "RECEIVED"   -> {"VALIDATED", "FAILED"}
       [] s = "VALIDATED"  -> {"STARTING", "FAILED"}
       [] s = "STARTING"   -> {"RUNNING"} \cup Reported
       [] s = "RUNNING"    -> {"CANCELLING", "TIMED_OUT"} \cup Reported
       [] s = "CANCELLING" -> Reported]

Init == state = NoState /\ published = <<>>

\* A state is recorded.
Record ==
  /\ state \notin Terminal
  /\ state' \in Successors[state]
  /\ UNCHANGED published

\* The recorded state is published, once.
Publish ==
  /\ state # NoState
  /\ published # <<>> => Last(published) # state
  /\ published' = Append(published, state)
  /\ UNCHANGED state

Next == Record \/ Publish

Spec == Init /\ [][Next]_<<state, published>>
=============================================================================
