----------------------------- MODULE MCGo2Stack -----------------------------
(* A TLC instance of Go2Stack: two runs and three HTTP requests.           *)
EXTENDS Go2Stack

MCRequests == 1..3

\* Requests take what the adapter asks for; Next of Go2Bridge is not used.
MCKinds == [r \in MCRequests |-> Actions]

DeliveryFirst == [s \in Runs |-> IF s = 1 THEN {"DELIVERY"} ELSE {"DELIVERY", "STOP"}]

\* Without the history variables of Go2Bridge that nothing here reads, and
\* without values that nobody reads before they are written again: a run's
\* latest request unless it waits for the answer, the variables of an adapter
\* that is gone and of a thread that is done, a result that no adapter waits
\* for, what a STOP found if the property excuses its run, and which way a run
\* that is over did not succeed.
View ==
  LET live(t, v)  == IF pc[t] = "done" THEN 0 ELSE v[t]
      inUse(s, v) == IF AdapterUp(s) THEN v[s] ELSE 0
      awaited     == {r \in Requests : \E s \in Runs : Waits(s) /\ posted[s] = r}
  IN  <<pc, kind, shared,
        [t \in Threads |-> <<live(t, target), live(t, cleanup)>>],
        [r \in Requests |->
           <<IF r \in awaited THEN result[r] ELSE 0,
             IF owner[r] \in lost \cup overlapped THEN {} ELSE registered[r]>>],
        [s \in Runs |-> <<IF run[s] = "await" THEN call[s] ELSE 0,
                          inUse(s, inbox), inUse(s, job), inUse(s, posted)>>],
        [s \in Runs |-> IF run[s] = "ended" THEN outcome[s] = "SUCCEEDED" ELSE outcome[s]],
        run, type, adapter, stackVars, faults>>
=============================================================================
