----------------------------- MODULE MCTpmAgent -----------------------------
(* TLC instance of TpmAgent and AdapterRegistry.                           *)
EXTENDS TpmAgent, TLC

\* Three good files, two of them with the same id, and one with a defect.
File(d, i, types, defects) ==
  [directory |-> d, id |-> i, jobTypes |-> types, capabilities |-> {"motion"},
   defects |-> defects, entrypoint |-> "inside"]
MCManifests == {File(1, 1, {"DELIVERY", "PATROL"}, {}), File(2, 2, {"DELIVERY"}, {}),
                File(2, 2, {"PATROL"}, {}), File(3, 3, {"DELIVERY"}, {"version"})}

MCJobs == {[type |-> "DELIVERY", requiredCapabilities |-> {"motion"}, adapter |-> a,
            defects |-> {}] : a \in {AnyAdapter, 2}}

MCConfigured == {{NoneName}, {1}, {2, 3}, {1, 2}, {1, NoneName}}

\* Two commands, one of them and an invocation of the script, or two invocations
\* at a time and three in all.
FewProcesses ==
  LET commands == Cardinality({c \in Commands : step[c] # "new"})
      started  == Cardinality({p \in Invocations : starts[p] > 0})
      up       == Cardinality({p \in Invocations : pc[p] # "off"})
      again    == Cardinality({p \in Invocations : starts[p] > 1})
  IN  \/ commands + started <= 2 /\ started <= 1
      \/ installed = {} /\ changes + commands = 0 /\ up <= 2 /\ started + again <= 3

\* A file counts only while an invocation is about to read it: it is written
\* again before anyone else does, or is a signature of no report to come.  What a
\* command read, and has seen, counts while it works or if it started an adapter.
View ==
  LET up(place) == \E p \in Invocations : pc[p] = place
      over(c)   == step[c] \in {"done", "failed"} IN
  <<installed, registry, step, chosen, changes,
    [c \in Commands |-> IF over(c) THEN <<>> ELSE <<found[c], task[c], seen[c]>>],
    pc, localVars, private, made, received, bound, noteVars, faults,
    IF up("read") THEN pem ELSE <<>>,
    IF up("sign") THEN payload ELSE NoMessage,
    IF up("sign") \/ up("take") THEN signature ELSE signature # NoFile,
    {<<k, report[k]>> : k \in {env[p].kind : p \in {q \in Invocations : pc[q] = "post"}}}>>

Symmetry == Permutations(Commands) \cup Permutations(Manual)
=============================================================================
