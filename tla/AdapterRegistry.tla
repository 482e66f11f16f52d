--------------------------- MODULE AdapterRegistry ---------------------------
(***************************************************************************)
(* The adapters of a device: the adapter.json files under the roots, the   *)
(* file runtime/enabled-adapters.json that `activate` writes, and the `run`*)
(* commands that read both, one after the other, and select an adapter.    *)
(*                                                                         *)
(* Adapter ids are numbers in the order of sorted().  The order of the     *)
(* names in enabled-adapters.json and their spelling before strip() are    *)
(* left out.  The file is replaced in one call and never torn.             *)
(***************************************************************************)
EXTENDS Naturals, FiniteSets

CONSTANTS Manifests,    \* the adapter.json files there may be
          Commands,     \* processes of the runtime that `run` or `activate`
          Jobs,         \* the jobs they may be given, with their --adapter
          Configured,   \* the values of --adapters: sets of ids, NoneName perhaps
          NoneName,     \* the name "none"
          AnyAdapter,   \* --adapter auto
          Unregistered, \* ROC_ENABLE_UNREGISTERED_ADAPTERS is 1
          Absent,       \* the file enabled-adapters.json does not exist
          None,         \* no job, no adapter
          MaxChanges    \* bound on installations and removals

ASSUME ManifestsAssumption ==
  \A m \in Manifests : /\ m.id \in Nat /\ m.directory \in Nat
                       /\ m.defects \subseteq STRING
                       /\ m.entrypoint \in {"inside", "outside", "missing"}
ASSUME NamesAssumption ==
  NoneName \notin Nat /\ AnyAdapter \notin Nat /\ None \notin Manifests
ASSUME BoundsAssumption == MaxChanges \in Nat /\ Unregistered \in BOOLEAN

VARIABLES
  installed, \* the adapter.json files under the roots
  registry,  \* the file enabled-adapters.json: the ids in it
  step,      \* where each command is
  found,     \* what it discovered, then the enabled ones of these
  task,      \* its job
  chosen,    \* the adapter it starts
  seen,      \* history: the files and the registries there were while each worked
  changes    \* how many installations and removals there were

registryVars == <<installed, registry, step, found, task, chosen, seen, changes>>

Nothing == [files |-> {}, ids |-> {}]

RInit ==
  /\ installed \in SUBSET Manifests /\ registry = Absent
  /\ step = [c \in Commands |-> "new"] /\ found = [c \in Commands |-> {}]
  /\ task = [c \in Commands |-> None] /\ chosen = [c \in Commands |-> None]
  /\ seen = [c \in Commands |-> Nothing] /\ changes = 0

Enter(c, from, to) == step[c] = from /\ step' = [step EXCEPT ![c] = to]

\* Whoever works has seen the files and the registry change.
Witnessed(files, ids) ==
  seen' = [c \in Commands |->
             IF step[c] \in {"discovered", "enabled"}
               THEN [files |-> seen[c].files \cup {files}, ids |-> seen[c].ids \cup {ids}]
               ELSE seen[c]]

Ids(files) == {m.id : m \in files}

\* validate_manifest: m.defects are the fields with a value it does not accept.
ValidManifest(m) == m.defects = {} /\ m.directory = m.id /\ m.entrypoint = "inside"

\* discover_adapters: one file that is not valid, or an id in two roots, and no
\* command of the runtime goes on.
Discoverable(files) == /\ \A m \in files : ValidManifest(m)
                       /\ Cardinality(Ids(files)) = Cardinality(files)

Discover(c) ==
  /\ Enter(c, "new", IF Discoverable(installed) THEN "discovered" ELSE "failed")
  /\ found' = [found EXCEPT ![c] = installed]
  /\ seen' = [seen EXCEPT ![c] = [files |-> {installed}, ids |-> {registry}]]
  /\ UNCHANGED <<installed, registry, task, chosen, changes>>

\* activate_adapters: "none" stands alone, every other name is an installed one.
Accepted(names, files) == names = {NoneName} \/ names \subseteq Ids(files)

\* Mutant: "none" is stored like a name.
ActivateNone(c, names) ==
  /\ Enter(c, "discovered", "done")
  /\ Accepted(names, found[c])
  /\ registry' = names
  /\ Witnessed(installed, names)
  /\ UNCHANGED <<installed, found, task, chosen, changes>>

Activate(c, names) ==
  \/ /\ Enter(c, "discovered", "done")
     /\ Accepted(names, found[c])
     /\ registry' = names \ {NoneName}
     /\ Witnessed(installed, registry')
     /\ UNCHANGED <<installed, found, task, chosen, changes>>
  \/ /\ Enter(c, "discovered", "failed")
     /\ ~Accepted(names, found[c])
     /\ UNCHANGED <<installed, registry, found, task, chosen, seen, changes>>

\* enabled_manifests.
Enabled(files, ids) ==
  IF ids = Absent THEN (IF Unregistered THEN files ELSE {})
  ELSE {m \in files : m.id \in ids}

\* Mutant: the registry narrows nothing.
ReadEnabledAll(c) ==
  /\ Enter(c, "discovered", "enabled")
  /\ UNCHANGED <<installed, registry, found, task, chosen, seen, changes>>

\* `run` goes on with the enabled adapters, if all of them are installed.
ReadEnabled(c) ==
  LET missing == IF registry = Absent THEN {} ELSE registry \ Ids(found[c]) IN
  /\ Enter(c, "discovered", IF missing = {} THEN "enabled" ELSE "failed")
  /\ found' = [found EXCEPT ![c] = Enabled(@, registry)]
  /\ UNCHANGED <<installed, registry, task, chosen, seen, changes>>

\* validate_job: j.defects are the fields with a value it does not accept.
ValidJob(j) == j.defects = {}

Supports(m, j) == j.type \in m.jobTypes /\ j.requiredCapabilities \subseteq m.capabilities

Candidates(files, j) ==
  {m \in files : j.adapter \in {AnyAdapter, m.id} /\ Supports(m, j)}

\* select_adapter: the first one in the order of the ids.
First(files) == CHOOSE m \in files : \A n \in files : m.id <= n.id

Select(c, j) ==
  LET able == Candidates(found[c], j) IN
  /\ Enter(c, "enabled", IF ValidJob(j) /\ able # {} THEN "started" ELSE "failed")
  /\ task' = [task EXCEPT ![c] = j]
  /\ chosen' = [chosen EXCEPT ![c] = IF ValidJob(j) /\ able # {} THEN First(able) ELSE @]
  /\ UNCHANGED <<installed, registry, found, seen, changes>>

\* git pull, or a user, adds an adapter or removes one.
Change ==
  /\ changes < MaxChanges /\ changes' = changes + 1
  /\ \E m \in Manifests :
       installed' = IF m \in installed THEN installed \ {m} ELSE installed \cup {m}
  /\ Witnessed(installed', registry)
  /\ UNCHANGED <<registry, step, found, task, chosen>>

RNext == \/ \E c \in Commands : \/ Discover(c) \/ ReadEnabled(c)
                                \/ \E names \in Configured : Activate(c, names)
                                \/ \E j \in Jobs : Select(c, j)
         \/ Change

-----------------------------------------------------------------------------

\* What a run starts was there and was enabled while the run worked, whatever
\* was installed, removed and activated meanwhile: it is the first one able to do
\* the job among files that were all in place at a time, by a registry that was
\* in force at a time, and none that this registry names was missing.
StartedIsEnabled ==
  \A c \in Commands : step[c] = "started" =>
    \E files \in seen[c].files, ids \in seen[c].ids :
      LET able == Candidates(Enabled(files, ids), task[c])
      IN  /\ Discoverable(files) /\ (ids = Absent \/ ids \subseteq Ids(files))
          /\ chosen[c] \in able /\ \A m \in able : chosen[c].id <= m.id
=============================================================================
