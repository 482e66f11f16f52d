--------------------------- MODULE TpmAgentProofs ---------------------------
(***************************************************************************)
(* What the agent and the registry keep, for any manifests, commands and   *)
(* invocations, and any bounds.                                            *)
(*                                                                         *)
(* The argument: an invocation whose prepare met no other one is alone     *)
(* with the keys until it has read its fingerprint, and by then the key of *)
(* its mode is settled: it exists, and nobody is about to make another.    *)
(* A settled key stays, so all reports of such invocations name it, across *)
(* restarts.  An invocation whose signing met no other one is alone with   *)
(* the payload and the signature.  What a command or an invocation has     *)
(* read it has seen since it began.                                        *)
(***************************************************************************)
EXTENDS TpmAgent, FiniteSetTheorems, WellFoundedInduction, TLAPS

Places == {"off", "find", "make", "write", "publish", "read",
           "ready", "sign", "take", "post", "posted", "poll"}
Envs == [kind : {"none", "heartbeat", "stage", "device"},
         mode : Modes \cup {"none"}, fingerprint : Keys \cup {NoKey},
         adapters : SUBSET Ids(Manifests)]

\* The files of the registry, and what the commands have read.
FilesOK ==
  /\ installed \subseteq Manifests /\ (registry = Absent \/ registry \subseteq Ids(Manifests))
  /\ step \in [Commands -> {"new", "discovered", "enabled", "started", "done", "failed"}]
  /\ found \in [Commands -> SUBSET Manifests]
  /\ chosen \in [Commands -> Manifests \cup {None}]
  /\ task \in [Commands -> Jobs \cup {None}]
  /\ seen \in [Commands -> [files : SUBSET SUBSET Manifests,
                            ids : SUBSET ((SUBSET Ids(Manifests)) \cup {Absent})]]

AgentOK ==
  /\ pc \in [Invocations -> Places]
  /\ env \in [Invocations -> Envs]
  /\ raced \subseteq Invocations /\ disturbed \subseteq Invocations
  /\ DOMAIN known = Invocations

KeysOK ==
  /\ private \in [Modes -> Keys \cup {NoKey}] /\ pem \in [Modes -> Keys \cup {NoKey}]
  /\ made \in Nat

\* The files an invocation writes and reads by kind.
ReportsOK ==
  /\ DOMAIN report = {"heartbeat", "stage", "device"}
  /\ DOMAIN received = Invocations /\ DOMAIN count = Invocations
  /\ \A p \in Invocations : pc[p] \notin {"off", "find"} => env[p].mode \in Modes
  /\ \A p \in Invocations : pc[p] = "write" => env[p].mode = "SOFTWARE"
  /\ \A p \in Invocations : pc[p] # "off" => env[p].kind \in {"heartbeat", "stage", "device"}

Types == FilesOK /\ AgentOK /\ KeysOK /\ ReportsOK

Complete(files, ids) == Discoverable(files) /\ (ids = Absent \/ ids \subseteq Ids(files))

Least(c, able) == chosen[c] \in able /\ \A m \in able : chosen[c].id <= m.id

\* What a command has read it has seen; the registry there is now it sees.
Read(c) ==
  /\ step[c] = "discovered" =>
       found[c] \in seen[c].files /\ registry \in seen[c].ids /\ Discoverable(found[c])
  /\ step[c] = "enabled" =>
       \E files \in seen[c].files, ids \in seen[c].ids :
         Complete(files, ids) /\ found[c] = Enabled(files, ids)
  /\ step[c] = "started" =>
       \E files \in seen[c].files, ids \in seen[c].ids :
         Complete(files, ids) /\ Least(c, Candidates(Enabled(files, ids), task[c]))

ChoiceInv == \A c \in Commands : Read(c)

\* Two that prepare have met.
AloneInv == \A p, q \in Preparing : p # q => p \in raced

\* The key of the mode exists, and nobody is about to make another.
Settled(m) ==
  /\ m \in Modes /\ private[m] # NoKey
  /\ \A q \in Invocations : pc[q] \in {"make", "write"} => env[q].mode # m

Prepared == {"ready", "sign", "take", "post", "posted", "poll"}

\* Who met no other has a settled key, and read it.
KeyInv ==
  \A p \in Invocations \ raced :
    /\ pc[p] \in {"publish", "read"} \cup Prepared => Settled(env[p].mode)
    /\ pc[p] = "read" => pem[env[p].mode] = Key(p)
    /\ pc[p] \in Prepared => env[p].fingerprint = Key(p)

\* A message says the settled key of its mode.
Truthful(x) == ~x.raced => Settled(x.env.mode) /\ x.env.fingerprint = private[x.env.mode]

MessageInv ==
  /\ bound = NoMessage \/ Truthful(bound)
  /\ \A k \in DOMAIN report : report[k] = NoReport \/ Truthful(report[k].message)
  /\ \A p \in Invocations : received[p] = NoReport \/ Truthful(received[p].message)

\* Two that sign have met.
UndisturbedInv == \A p, q \in Signing : p # q => p \in disturbed

Honest(r) == r.clean /\ ~r.message.raced => Verifies(r)

\* The payload and the signature are those of the one that signs.
SignInv ==
  /\ \A p \in Invocations \ disturbed :
       /\ pc[p] = "sign" => payload = Message(p, count[p])
       /\ pc[p] = "take" /\ p \notin raced =>
            signature = [key |-> env[p].fingerprint, of |-> Message(p, count[p])]
  /\ \A k \in DOMAIN report : Honest(report[k])
  /\ \A p \in Invocations : Honest(received[p])

\* What an invocation says of the adapters is what it read when it started.
ToldInv ==
  \A p \in Invocations :
    /\ pc[p] # "off" => env[p].adapters \in known[p]
    /\ pc[p] = "post" /\ report[env[p].kind].message.by = p =>
         report[env[p].kind].message.env.adapters = env[p].adapters
    /\ received[p].message.by = p =>
         pc[p] = "posted" /\ received[p].message.env.adapters = env[p].adapters

IInv == Types /\ ChoiceInv /\ AloneInv /\ KeyInv /\ MessageInv /\ UndisturbedInv
              /\ SignInv /\ ToldInv
\* Some file of the set has the least id, so First names one.
LEMMA FirstIsLeast ==
  ASSUME NEW files \in SUBSET Manifests, files # {}
  PROVE  First(files) \in files /\ \A n \in files : First(files).id <= n.id
<1>1. Ids(files) \subseteq Nat /\ Ids(files) # {}
  BY ManifestsAssumption DEF Ids
<1>2. PICK i \in Ids(files) : \A j \in Ids(files) : <<j, i>> \notin OpToRel(<, Nat)
  BY <1>1, NatLessThanWellFounded, WFMin
<1>3. \A j \in Ids(files) : i <= j
  <2> SUFFICES ASSUME NEW j \in Ids(files) PROVE i <= j
    OBVIOUS
  <2>1. i \in Nat /\ j \in Nat
    BY <1>1
  <2>2. ~(j < i)
    BY <1>2, <2>1 DEF OpToRel
  <2> QED
    BY <2>1, <2>2
<1>4. PICK m \in files : m.id = i
  BY DEF Ids
<1>5. \A n \in files : m.id <= n.id
  BY <1>3, <1>4 DEF Ids
<1> QED
  BY <1>5, Zenon DEF First

\* What is seen is files of manifests and ids of theirs.
LEMMA WitnessedTypes ==
  ASSUME FilesOK, NEW files \in SUBSET Manifests, NEW ids,
         ids = Absent \/ ids \subseteq Ids(Manifests), Witnessed(files, ids)
  PROVE  seen' \in [Commands -> [files : SUBSET SUBSET Manifests,
                                 ids : SUBSET ((SUBSET Ids(Manifests)) \cup {Absent})]]
<1> DEFINE Known == [files : SUBSET SUBSET Manifests,
                     ids : SUBSET ((SUBSET Ids(Manifests)) \cup {Absent})]
           more(c) == [files |-> seen[c].files \cup {files}, ids |-> seen[c].ids \cup {ids}]
<1>1. ASSUME NEW c \in Commands PROVE seen[c] \in Known
  BY DEF FilesOK
<1>2. ASSUME NEW c \in Commands PROVE more(c) \in Known
  <2>1. seen[c].files \cup {files} \in SUBSET SUBSET Manifests
    BY <1>1
  <2>2. seen[c].ids \cup {ids} \in SUBSET ((SUBSET Ids(Manifests)) \cup {Absent})
    BY <1>1
  <2> QED
    BY <2>1, <2>2
<1>3. seen' = [c \in Commands |->
                 IF step[c] \in {"discovered", "enabled"} THEN more(c) ELSE seen[c]]
  BY DEF Witnessed
<1> HIDE DEF Known, more
<1>4. seen' \in [Commands -> Known]
  BY <1>1, <1>2, <1>3
<1> QED
  BY <1>4 DEF Known

LEMMA FilesTypes == FilesOK /\ [RNext]_registryVars => FilesOK'
<1> SUFFICES ASSUME FilesOK, [RNext]_registryVars PROVE FilesOK'
  OBVIOUS
<1>1. ASSUME NEW c \in Commands, Discover(c)
      PROVE  FilesOK'
  BY <1>1 DEF FilesOK, Discover, Enter
<1>2. ASSUME NEW c \in Commands, ReadEnabled(c)
      PROVE  FilesOK'
  <2>1. Enabled(found[c], registry) \subseteq Manifests
    BY DEF FilesOK, Enabled
  <2> QED
    BY <1>2, <2>1 DEF FilesOK, ReadEnabled, Enter
<1>3. ASSUME NEW c \in Commands, NEW names \in Configured, Activate(c, names)
      PROVE  FilesOK'
  <2>1. found[c] \subseteq Manifests
    BY DEF FilesOK
  <2>2. Accepted(names, found[c]) => names \ {NoneName} \subseteq Ids(Manifests)
    BY <2>1 DEF Accepted, Ids
  <2>3. CASE UNCHANGED seen
    BY <1>3, <2>2, <2>3 DEF FilesOK, Activate, Enter
  <2>4. CASE Accepted(names, found[c]) /\ registry' = names \ {NoneName}
             /\ Witnessed(installed, registry')
    <3>1. installed \in SUBSET Manifests /\ registry' \subseteq Ids(Manifests)
      BY <2>2, <2>4 DEF FilesOK
    <3>2. seen' \in [Commands -> [files : SUBSET SUBSET Manifests,
                                  ids : SUBSET ((SUBSET Ids(Manifests)) \cup {Absent})]]
      BY <2>4, <3>1, WitnessedTypes
    <3> QED
      BY <1>3, <3>1, <3>2 DEF FilesOK, Activate, Enter
  <2> QED
    BY <1>3, <2>3, <2>4 DEF Activate
<1>4. ASSUME NEW c \in Commands, NEW j \in Jobs, Select(c, j)
      PROVE  FilesOK'
  <2> DEFINE able == Candidates(found[c], j)
  <2>1. able \in SUBSET Manifests
    BY DEF FilesOK, Candidates
  <2>2. able # {} => First(able) \in Manifests
    BY <2>1, FirstIsLeast
  <2>3. chosen' \in [Commands -> Manifests \cup {None}]
    <3> HIDE DEF able
    <3>1. chosen'= chosen \/ (able # {} /\ chosen' = [chosen EXCEPT ![c] = First(able)])
      BY <1>4 DEF Select, able, FilesOK
    <3> QED
      BY <2>2, <3>1 DEF FilesOK
  <2> QED
    BY <1>4, <2>3 DEF FilesOK, Select, Enter
<1>5. CASE Change
  <2>1. installed' \in SUBSET Manifests
    BY <1>5 DEF FilesOK, Change
  <2>2. seen' \in [Commands -> [files : SUBSET SUBSET Manifests,
                                ids : SUBSET ((SUBSET Ids(Manifests)) \cup {Absent})]]
    BY <1>5, <2>1, WitnessedTypes DEF FilesOK, Change
  <2> QED
    BY <1>5, <2>1, <2>2 DEF FilesOK, Change
<1>6. CASE UNCHANGED registryVars
  BY <1>6 DEF FilesOK, registryVars
<1> QED
  BY <1>1, <1>2, <1>3, <1>4, <1>5, <1>6 DEF RNext

\* The window of a command only grows, and to what is there.
LEMMA Sees ==
  ASSUME FilesOK, NEW files, NEW ids, Witnessed(files, ids), NEW d \in Commands
  PROVE  /\ seen[d].files \subseteq seen'[d].files /\ seen[d].ids \subseteq seen'[d].ids
         /\ step[d] = "discovered" => ids \in seen'[d].ids
BY DEF FilesOK, Witnessed

\* Who has read the files stays with what it read, and goes on seeing.
LEMMA ChoiceStep == FilesOK /\ ChoiceInv /\ [RNext]_registryVars => ChoiceInv'
<1> SUFFICES ASSUME FilesOK, ChoiceInv, [RNext]_registryVars, NEW d \in Commands
             PROVE  Read(d)'
  BY DEF ChoiceInv, Read
<1> Read(d)
  BY DEF ChoiceInv, Read
\* A step of another command, or of nobody.
<1>0. ASSUME step'[d] = step[d], found'[d] = found[d], chosen'[d] = chosen[d], task'[d] = task[d],
             \/ seen'[d] = seen[d] /\ registry' = registry
             \/ /\ seen[d].files \subseteq seen'[d].files /\ seen[d].ids \subseteq seen'[d].ids
                /\ step[d] = "discovered" => registry' \in seen'[d].ids
      PROVE  Read(d)'
  BY <1>0 DEF Read, Least
<1>1. ASSUME NEW c \in Commands, Discover(c)
      PROVE  Read(d)'
  <2>1. CASE d = c
    BY <1>1, <2>1 DEF FilesOK, Read, Discover, Enter
  <2>2. CASE d # c
    BY <1>0, <1>1, <2>2 DEF FilesOK, Discover, Enter
  <2> QED
    BY <2>1, <2>2
<1>2. ASSUME NEW c \in Commands, ReadEnabled(c)
      PROVE  Read(d)'
  <2>1. CASE d = c
    <3>1. step'[c] \in {"enabled", "failed"} /\ found'[c] = Enabled(found[c], registry)
      BY <1>2 DEF FilesOK, ReadEnabled, Enter
    <3>2. step'[c] = "enabled" => Complete(found[c], registry)
      BY <1>2, <2>1 DEF FilesOK, Read, ReadEnabled, Enter, Complete
    <3>3. found[c] \in seen'[c].files /\ registry \in seen'[c].ids
      BY <1>2, <2>1 DEF Read, ReadEnabled, Enter
    <3> QED
      BY <2>1, <3>1, <3>2, <3>3 DEF Read
  <2>2. CASE d # c
    BY <1>0, <1>2, <2>2 DEF FilesOK, ReadEnabled, Enter
  <2> QED
    BY <2>1, <2>2
<1>3. ASSUME NEW c \in Commands, NEW names \in Configured, Activate(c, names)
      PROVE  Read(d)'
  <2>1. CASE d = c
    BY <1>3, <2>1 DEF FilesOK, Read, Activate, Enter
  <2>2. CASE d # c
    BY <1>0, <1>3, <2>2, Sees DEF FilesOK, Activate, Enter
  <2> QED
    BY <2>1, <2>2
<1>4. ASSUME NEW c \in Commands, NEW j \in Jobs, Select(c, j)
      PROVE  Read(d)'
  <2>1. CASE d = c
    <3>1. PICK files \in seen[c].files, ids \in seen[c].ids :
             Complete(files, ids) /\ found[c] = Enabled(files, ids)
      BY <1>4, <2>1 DEF Read, Select, Enter
    <3> DEFINE able == Candidates(found[c], j)
    <3>2. able \in SUBSET Manifests
      BY DEF FilesOK, Candidates
    <3>3. able # {} => First(able) \in able /\ \A m \in able : First(able).id <= m.id
      BY <3>2, FirstIsLeast
    <3>4. /\ task'[c] = j /\ seen' = seen
          /\ \/ step'[c] = "failed"
             \/ step'[c] = "started" /\ able # {} /\ chosen'[c] = First(able)
      BY <1>4 DEF FilesOK, Select, Enter
    <3>5. step'[c] = "started" => Least(c, Candidates(Enabled(files, ids), task[c]))'
      BY <3>1, <3>3, <3>4 DEF Least
    <3> QED
      BY <2>1, <3>1, <3>4, <3>5 DEF Read
  <2>2. CASE d # c
    BY <1>0, <1>4, <2>2 DEF FilesOK, Select, Enter
  <2> QED
    BY <2>1, <2>2
<1>5. CASE Change
  BY <1>0, <1>5, Sees DEF Change
<1>6. CASE UNCHANGED registryVars
  BY <1>0, <1>6 DEF registryVars
<1> QED
  BY <1>1, <1>2, <1>3, <1>4, <1>5, <1>6 DEF RNext

LEMMA AgentTypes ==
  FilesOK /\ AgentOK /\ KeysOK /\ ReportsOK /\ [TNext]_<<agentVars, registryVars>> => AgentOK'
<1> SUFFICES ASSUME FilesOK, AgentOK, KeysOK, ReportsOK, [TNext]_<<agentVars, registryVars>>
             PROVE  AgentOK'
  OBVIOUS
<1> USE InvocationsAssumption, IdentitiesAssumption
    DEF localVars, keyVars, fileVars, noteVars, registryVars, Invocations
<1>1. ASSUME NEW p \in Invocations, Start(p), UNCHANGED registryVars
      PROVE  AgentOK'
  <2>1. Active \in SUBSET Ids(Manifests)
    BY DEF FilesOK, Active
  <2>2. PICK k \in {"heartbeat", "stage", "device"} :
          env' = [env EXCEPT ![p].kind = k, ![p].adapters = Active]
    BY <1>1 DEF Start
  <2>3. env' \in [Invocations -> Envs]
    BY <2>1, <2>2 DEF AgentOK, Envs
  <2>4. pc' \in [Invocations -> Places]
    BY <1>1 DEF Start, At, AgentOK, Places
  <2>5. raced' \subseteq Invocations /\ disturbed' \subseteq Invocations
    BY <1>1 DEF Start, AgentOK, Preparing
  <2>6. DOMAIN known' = Invocations
    BY <1>1 DEF Start, AgentOK
  <2> QED
    BY <2>3, <2>4, <2>5, <2>6 DEF AgentOK
<1>2. ASSUME NEW p \in Invocations, OpenKeyFile(p), UNCHANGED registryVars
      PROVE  AgentOK'
  BY <1>2 DEF OpenKeyFile, At, AgentOK, FilesOK, KeysOK, ReportsOK, Places, Envs, Preparing,
     Signing, NoEnv
<1>3. ASSUME NEW p \in Invocations, WriteKeyFile(p), UNCHANGED registryVars
      PROVE  AgentOK'
  BY <1>3 DEF WriteKeyFile, MakeKey, At, AgentOK, FilesOK, KeysOK, ReportsOK, Places, Envs,
     Preparing, Signing, NoEnv
<1>4. ASSUME NEW p \in Invocations, PersistKey(p), UNCHANGED registryVars
      PROVE  AgentOK'
  BY <1>4 DEF PersistKey, MakeKey, At, AgentOK, FilesOK, KeysOK, ReportsOK, Places, Envs,
     Preparing, Signing, NoEnv
<1>5. ASSUME NEW p \in Invocations, Publish(p), UNCHANGED registryVars
      PROVE  AgentOK'
  BY <1>5 DEF Publish, At, AgentOK, FilesOK, KeysOK, ReportsOK, Places, Envs, Preparing,
     Signing, NoEnv
<1>6. ASSUME NEW p \in Invocations, ReadKey(p), UNCHANGED registryVars
      PROVE  AgentOK'
  BY <1>6 DEF ReadKey, At, AgentOK, FilesOK, KeysOK, ReportsOK, Places, Envs, Preparing,
     Signing, NoEnv
<1>7. ASSUME NEW p \in Invocations, NEW m \in Identities, FindKey(p, m), UNCHANGED registryVars
      PROVE  AgentOK'
  <2>1. env' = [env EXCEPT ![p].mode = m] /\ UNCHANGED noteVars
        /\ \E to \in {"make", "publish"} : pc' = [pc EXCEPT ![p] = to]
    BY <1>7 DEF FindKey, Identify, At
  <2>2. env' \in [Invocations -> Envs]
    BY <2>1 DEF AgentOK, Envs
  <2>3. pc' \in [Invocations -> Places]
    BY <2>1 DEF AgentOK, Places
  <2> QED
    BY <2>1, <2>2, <2>3 DEF AgentOK
<1>8. ASSUME NEW p \in Invocations, WritePayload(p), UNCHANGED registryVars
      PROVE  AgentOK'
  BY <1>8 DEF WritePayload, At, AgentOK, FilesOK, KeysOK, ReportsOK, Places, Envs,
     Preparing, Signing, NoEnv
<1>9. ASSUME NEW p \in Invocations, Sign(p), UNCHANGED registryVars
      PROVE  AgentOK'
  BY <1>9 DEF Sign, At, AgentOK, FilesOK, KeysOK, ReportsOK, Places, Envs, Preparing,
     Signing, NoEnv
<1>10. ASSUME NEW p \in Invocations, Compose(p), UNCHANGED registryVars
      PROVE  AgentOK'
  BY <1>10 DEF Compose, At, AgentOK, FilesOK, KeysOK, ReportsOK, Places, Envs, Preparing,
     Signing, NoEnv
<1>11. ASSUME NEW p \in Invocations, Post(p), UNCHANGED registryVars
      PROVE  AgentOK'
  BY <1>11 DEF Post, At, AgentOK, FilesOK, KeysOK, ReportsOK, Places, Envs, Preparing,
     Signing, NoEnv
<1>12. ASSUME NEW p \in Invocations, Finish(p), UNCHANGED registryVars
      PROVE  AgentOK'
  BY <1>12 DEF Finish, Leave, AgentOK, FilesOK, KeysOK, ReportsOK, Places, Envs, Preparing,
     Signing, NoEnv
<1>13. ASSUME NEW p \in Invocations, Continue(p), UNCHANGED registryVars
      PROVE  AgentOK'
  BY <1>13 DEF Continue, At, AgentOK, FilesOK, KeysOK, ReportsOK, Places, Envs, Preparing,
     Signing, NoEnv
<1>14. ASSUME NEW p \in Invocations, NotDue(p), UNCHANGED registryVars
      PROVE  AgentOK'
  BY <1>14 DEF NotDue, At, AgentOK, FilesOK, KeysOK, ReportsOK, Places, Envs, Preparing,
     Signing, NoEnv
<1>15. ASSUME NEW p \in Invocations, Poll(p), UNCHANGED registryVars
      PROVE  AgentOK'
  <2>1. PICK k \in {"heartbeat", "stage"} : env' = [env EXCEPT ![p].kind = k]
    BY <1>15 DEF Poll
  <2>2. env' \in [Invocations -> Envs]
    BY <2>1 DEF AgentOK, Envs
  <2>3. pc' \in [Invocations -> Places]
    BY <1>15 DEF Poll, At, AgentOK, Places
  <2> QED
    BY <1>15, <2>2, <2>3 DEF Poll, AgentOK
<1>16. ASSUME NEW p \in Invocations, SignFails(p), UNCHANGED registryVars
      PROVE  AgentOK'
  BY <1>16 DEF SignFails, At, AgentOK, FilesOK, KeysOK, ReportsOK, Places, Envs, Preparing,
     Signing, NoEnv
<1>17. ASSUME NEW p \in Invocations, PostFails(p), UNCHANGED registryVars
      PROVE  AgentOK'
  BY <1>17 DEF PostFails, At, AgentOK, FilesOK, KeysOK, ReportsOK, Places, Envs, Preparing,
     Signing, NoEnv
<1>18. ASSUME NEW p \in Invocations, Die(p), UNCHANGED registryVars
      PROVE  AgentOK'
  BY <1>18 DEF Die, Leave, AgentOK, FilesOK, KeysOK, ReportsOK, Places, Envs, Preparing,
     Signing, NoEnv
<1>19. CASE RegistryStep
  BY <1>19 DEF RegistryStep, AgentOK, FilesOK, KeysOK, ReportsOK, Places, Envs, Preparing,
     Signing, NoEnv
<1>20. CASE UNCHANGED <<agentVars, registryVars>>
  BY <1>20 DEF agentVars, AgentOK, FilesOK, KeysOK, ReportsOK, Places, Envs, Preparing,
     Signing, NoEnv
<1> QED
  BY <1>1, <1>2, <1>3, <1>4, <1>5, <1>6, <1>7, <1>8, <1>9, <1>10, <1>11, <1>12, <1>13,
     <1>14, <1>15, <1>16, <1>17, <1>18, <1>19, <1>20 DEF TNext, Prepare, Report, Loop, Fault

LEMMA KeysTypes ==
  KeysOK /\ AgentOK /\ ReportsOK /\ [TNext]_<<agentVars, registryVars>> => KeysOK'
<1> SUFFICES ASSUME KeysOK, AgentOK, ReportsOK, [TNext]_<<agentVars, registryVars>>
             PROVE  KeysOK'
  OBVIOUS
<1> USE InvocationsAssumption, IdentitiesAssumption
    DEF localVars, keyVars, fileVars, noteVars, registryVars, Invocations
<1>1. ASSUME NEW p \in Invocations, Start(p), UNCHANGED registryVars
      PROVE  KeysOK'
  BY <1>1 DEF Start, At, KeysOK, ReportsOK, Keys, Modes, Key
<1>2. ASSUME NEW p \in Invocations, OpenKeyFile(p), UNCHANGED registryVars
      PROVE  KeysOK'
  BY <1>2 DEF OpenKeyFile, At, KeysOK, ReportsOK, Keys, Modes, Key
<1>3. ASSUME NEW p \in Invocations, WriteKeyFile(p), UNCHANGED registryVars
      PROVE  KeysOK'
  <2>1. made + 1 \in Keys
    BY <1>3, AgentBoundsAssumption DEF WriteKeyFile, PersistKey, MakeKey, KeysOK, Keys
  <2> QED
    BY <1>3, <2>1 DEF WriteKeyFile, PersistKey, MakeKey, KeysOK, Modes
<1>4. ASSUME NEW p \in Invocations, PersistKey(p), UNCHANGED registryVars
      PROVE  KeysOK'
  <2>1. made + 1 \in Keys
    BY <1>4, AgentBoundsAssumption DEF WriteKeyFile, PersistKey, MakeKey, KeysOK, Keys
  <2> QED
    BY <1>4, <2>1 DEF WriteKeyFile, PersistKey, MakeKey, KeysOK, Modes
<1>5. ASSUME NEW p \in Invocations, Publish(p), UNCHANGED registryVars
      PROVE  KeysOK'
  BY <1>5 DEF Publish, At, KeysOK, ReportsOK, Keys, Modes, Key
<1>6. ASSUME NEW p \in Invocations, ReadKey(p), UNCHANGED registryVars
      PROVE  KeysOK'
  BY <1>6 DEF ReadKey, At, KeysOK, ReportsOK, Keys, Modes, Key
<1>7. ASSUME NEW p \in Invocations, NEW m \in Identities, FindKey(p, m), UNCHANGED registryVars
      PROVE  KeysOK'
  BY <1>7 DEF FindKey, Identify, At, KeysOK, ReportsOK, Keys, Modes, Key
<1>8. ASSUME NEW p \in Invocations, WritePayload(p), UNCHANGED registryVars
      PROVE  KeysOK'
  BY <1>8 DEF WritePayload, At, KeysOK, ReportsOK, Keys, Modes, Key
<1>9. ASSUME NEW p \in Invocations, Sign(p), UNCHANGED registryVars
      PROVE  KeysOK'
  BY <1>9 DEF Sign, At, KeysOK, ReportsOK, Keys, Modes, Key
<1>10. ASSUME NEW p \in Invocations, Compose(p), UNCHANGED registryVars
      PROVE  KeysOK'
  BY <1>10 DEF Compose, At, KeysOK, ReportsOK, Keys, Modes, Key
<1>11. ASSUME NEW p \in Invocations, Post(p), UNCHANGED registryVars
      PROVE  KeysOK'
  BY <1>11 DEF Post, At, KeysOK, ReportsOK, Keys, Modes, Key
<1>12. ASSUME NEW p \in Invocations, Finish(p), UNCHANGED registryVars
      PROVE  KeysOK'
  BY <1>12 DEF Finish, Leave, KeysOK, ReportsOK, Keys, Modes, Key
<1>13. ASSUME NEW p \in Invocations, Continue(p), UNCHANGED registryVars
      PROVE  KeysOK'
  BY <1>13 DEF Continue, At, KeysOK, ReportsOK, Keys, Modes, Key
<1>14. ASSUME NEW p \in Invocations, NotDue(p), UNCHANGED registryVars
      PROVE  KeysOK'
  BY <1>14 DEF NotDue, At, KeysOK, ReportsOK, Keys, Modes, Key
<1>15. ASSUME NEW p \in Invocations, Poll(p), UNCHANGED registryVars
      PROVE  KeysOK'
  BY <1>15 DEF Poll, At, KeysOK, ReportsOK, Keys, Modes, Key
<1>16. ASSUME NEW p \in Invocations, SignFails(p), UNCHANGED registryVars
      PROVE  KeysOK'
  BY <1>16 DEF SignFails, At, KeysOK, ReportsOK, Keys, Modes, Key
<1>17. ASSUME NEW p \in Invocations, PostFails(p), UNCHANGED registryVars
      PROVE  KeysOK'
  BY <1>17 DEF PostFails, At, KeysOK, ReportsOK, Keys, Modes, Key
<1>18. ASSUME NEW p \in Invocations, Die(p), UNCHANGED registryVars
      PROVE  KeysOK'
  BY <1>18 DEF Die, Leave, KeysOK, ReportsOK, Keys, Modes, Key
<1>19. CASE RegistryStep
  BY <1>19 DEF RegistryStep, KeysOK, ReportsOK, Keys, Modes, Key
<1>20. CASE UNCHANGED <<agentVars, registryVars>>
  BY <1>20 DEF agentVars, KeysOK, ReportsOK, Keys, Modes, Key
<1> QED
  BY <1>1, <1>2, <1>3, <1>4, <1>5, <1>6, <1>7, <1>8, <1>9, <1>10, <1>11, <1>12, <1>13,
     <1>14, <1>15, <1>16, <1>17, <1>18, <1>19, <1>20 DEF TNext, Prepare, Report, Loop, Fault

LEMMA ReportsTypes ==
  AgentOK /\ ReportsOK /\ [TNext]_<<agentVars, registryVars>> => ReportsOK'
<1> SUFFICES ASSUME AgentOK, ReportsOK, [TNext]_<<agentVars, registryVars>>
             PROVE  ReportsOK'
  OBVIOUS
<1> USE InvocationsAssumption, IdentitiesAssumption
    DEF localVars, keyVars, fileVars, noteVars, registryVars, Invocations
<1>1. ASSUME NEW p \in Invocations, Start(p), UNCHANGED registryVars
      PROVE  ReportsOK'
  BY <1>1 DEF Start, At, AgentOK, ReportsOK, Envs, Places, Modes, NoEnv
<1>2. ASSUME NEW p \in Invocations, OpenKeyFile(p), UNCHANGED registryVars
      PROVE  ReportsOK'
  BY <1>2 DEF OpenKeyFile, At, AgentOK, ReportsOK, Envs, Places, Modes, NoEnv
<1>3. ASSUME NEW p \in Invocations, WriteKeyFile(p), UNCHANGED registryVars
      PROVE  ReportsOK'
  BY <1>3 DEF WriteKeyFile, MakeKey, At, AgentOK, ReportsOK, Envs, Places, Modes, NoEnv
<1>4. ASSUME NEW p \in Invocations, PersistKey(p), UNCHANGED registryVars
      PROVE  ReportsOK'
  BY <1>4 DEF PersistKey, MakeKey, At, AgentOK, ReportsOK, Envs, Places, Modes, NoEnv
<1>5. ASSUME NEW p \in Invocations, Publish(p), UNCHANGED registryVars
      PROVE  ReportsOK'
  BY <1>5 DEF Publish, At, AgentOK, ReportsOK, Envs, Places, Modes, NoEnv
<1>6. ASSUME NEW p \in Invocations, ReadKey(p), UNCHANGED registryVars
      PROVE  ReportsOK'
  BY <1>6 DEF ReadKey, At, AgentOK, ReportsOK, Envs, Places, Modes, NoEnv
<1>7. ASSUME NEW p \in Invocations, NEW m \in Identities, FindKey(p, m), UNCHANGED registryVars
      PROVE  ReportsOK'
  BY <1>7 DEF FindKey, Identify, At, AgentOK, ReportsOK, Envs, Places, Modes, NoEnv
<1>8. ASSUME NEW p \in Invocations, WritePayload(p), UNCHANGED registryVars
      PROVE  ReportsOK'
  BY <1>8 DEF WritePayload, At, AgentOK, ReportsOK, Envs, Places, Modes, NoEnv
<1>9. ASSUME NEW p \in Invocations, Sign(p), UNCHANGED registryVars
      PROVE  ReportsOK'
  BY <1>9 DEF Sign, At, AgentOK, ReportsOK, Envs, Places, Modes, NoEnv
<1>10. ASSUME NEW p \in Invocations, Compose(p), UNCHANGED registryVars
      PROVE  ReportsOK'
  BY <1>10 DEF Compose, At, AgentOK, ReportsOK, Envs, Places, Modes, NoEnv
<1>11. ASSUME NEW p \in Invocations, Post(p), UNCHANGED registryVars
      PROVE  ReportsOK'
  BY <1>11 DEF Post, At, AgentOK, ReportsOK, Envs, Places, Modes, NoEnv
<1>12. ASSUME NEW p \in Invocations, Finish(p), UNCHANGED registryVars
      PROVE  ReportsOK'
  BY <1>12 DEF Finish, Leave, AgentOK, ReportsOK, Envs, Places, Modes, NoEnv
<1>13. ASSUME NEW p \in Invocations, Continue(p), UNCHANGED registryVars
      PROVE  ReportsOK'
  BY <1>13 DEF Continue, At, AgentOK, ReportsOK, Envs, Places, Modes, NoEnv
<1>14. ASSUME NEW p \in Invocations, NotDue(p), UNCHANGED registryVars
      PROVE  ReportsOK'
  BY <1>14 DEF NotDue, At, AgentOK, ReportsOK, Envs, Places, Modes, NoEnv
<1>15. ASSUME NEW p \in Invocations, Poll(p), UNCHANGED registryVars
      PROVE  ReportsOK'
  BY <1>15 DEF Poll, At, AgentOK, ReportsOK, Envs, Places, Modes, NoEnv
<1>16. ASSUME NEW p \in Invocations, SignFails(p), UNCHANGED registryVars
      PROVE  ReportsOK'
  BY <1>16 DEF SignFails, At, AgentOK, ReportsOK, Envs, Places, Modes, NoEnv
<1>17. ASSUME NEW p \in Invocations, PostFails(p), UNCHANGED registryVars
      PROVE  ReportsOK'
  BY <1>17 DEF PostFails, At, AgentOK, ReportsOK, Envs, Places, Modes, NoEnv
<1>18. ASSUME NEW p \in Invocations, Die(p), UNCHANGED registryVars
      PROVE  ReportsOK'
  BY <1>18 DEF Die, Leave, AgentOK, ReportsOK, Envs, Places, Modes, NoEnv
<1>19. CASE RegistryStep
  BY <1>19 DEF RegistryStep, AgentOK, ReportsOK, Envs, Places, Modes, NoEnv
<1>20. CASE UNCHANGED <<agentVars, registryVars>>
  BY <1>20 DEF agentVars, AgentOK, ReportsOK, Envs, Places, Modes, NoEnv
<1> QED
  BY <1>1, <1>2, <1>3, <1>4, <1>5, <1>6, <1>7, <1>8, <1>9, <1>10, <1>11, <1>12, <1>13,
     <1>14, <1>15, <1>16, <1>17, <1>18, <1>19, <1>20 DEF TNext, Prepare, Report, Loop, Fault

LEMMA AloneStep ==
  AgentOK /\ AloneInv /\ [TNext]_<<agentVars, registryVars>> => AloneInv'
<1> SUFFICES ASSUME AgentOK, AloneInv, [TNext]_<<agentVars, registryVars>>
             PROVE  AloneInv'
  OBVIOUS
<1> USE InvocationsAssumption, IdentitiesAssumption
    DEF localVars, keyVars, fileVars, noteVars, registryVars, Invocations
<1>1. ASSUME NEW p \in Invocations, Start(p), UNCHANGED registryVars
      PROVE  AloneInv'
  BY <1>1 DEF Start, At, AgentOK, AloneInv, Places, Preparing
<1>2. ASSUME NEW p \in Invocations, OpenKeyFile(p), UNCHANGED registryVars
      PROVE  AloneInv'
  BY <1>2 DEF OpenKeyFile, At, AgentOK, AloneInv, Places, Preparing
<1>3. ASSUME NEW p \in Invocations, WriteKeyFile(p), UNCHANGED registryVars
      PROVE  AloneInv'
  BY <1>3 DEF WriteKeyFile, MakeKey, At, AgentOK, AloneInv, Places, Preparing
<1>4. ASSUME NEW p \in Invocations, PersistKey(p), UNCHANGED registryVars
      PROVE  AloneInv'
  BY <1>4 DEF PersistKey, MakeKey, At, AgentOK, AloneInv, Places, Preparing
<1>5. ASSUME NEW p \in Invocations, Publish(p), UNCHANGED registryVars
      PROVE  AloneInv'
  BY <1>5 DEF Publish, At, AgentOK, AloneInv, Places, Preparing
<1>6. ASSUME NEW p \in Invocations, ReadKey(p), UNCHANGED registryVars
      PROVE  AloneInv'
  BY <1>6 DEF ReadKey, At, AgentOK, AloneInv, Places, Preparing
<1>7. ASSUME NEW p \in Invocations, NEW m \in Identities, FindKey(p, m), UNCHANGED registryVars
      PROVE  AloneInv'
  BY <1>7 DEF FindKey, Identify, At, AgentOK, AloneInv, Places, Preparing
<1>8. ASSUME NEW p \in Invocations, WritePayload(p), UNCHANGED registryVars
      PROVE  AloneInv'
  BY <1>8 DEF WritePayload, At, AgentOK, AloneInv, Places, Preparing
<1>9. ASSUME NEW p \in Invocations, Sign(p), UNCHANGED registryVars
      PROVE  AloneInv'
  BY <1>9 DEF Sign, At, AgentOK, AloneInv, Places, Preparing
<1>10. ASSUME NEW p \in Invocations, Compose(p), UNCHANGED registryVars
      PROVE  AloneInv'
  BY <1>10 DEF Compose, At, AgentOK, AloneInv, Places, Preparing
<1>11. ASSUME NEW p \in Invocations, Post(p), UNCHANGED registryVars
      PROVE  AloneInv'
  BY <1>11 DEF Post, At, AgentOK, AloneInv, Places, Preparing
<1>12. ASSUME NEW p \in Invocations, Finish(p), UNCHANGED registryVars
      PROVE  AloneInv'
  BY <1>12 DEF Finish, Leave, AgentOK, AloneInv, Places, Preparing
<1>13. ASSUME NEW p \in Invocations, Continue(p), UNCHANGED registryVars
      PROVE  AloneInv'
  BY <1>13 DEF Continue, At, AgentOK, AloneInv, Places, Preparing
<1>14. ASSUME NEW p \in Invocations, NotDue(p), UNCHANGED registryVars
      PROVE  AloneInv'
  BY <1>14 DEF NotDue, At, AgentOK, AloneInv, Places, Preparing
<1>15. ASSUME NEW p \in Invocations, Poll(p), UNCHANGED registryVars
      PROVE  AloneInv'
  BY <1>15 DEF Poll, At, AgentOK, AloneInv, Places, Preparing
<1>16. ASSUME NEW p \in Invocations, SignFails(p), UNCHANGED registryVars
      PROVE  AloneInv'
  BY <1>16 DEF SignFails, At, AgentOK, AloneInv, Places, Preparing
<1>17. ASSUME NEW p \in Invocations, PostFails(p), UNCHANGED registryVars
      PROVE  AloneInv'
  BY <1>17 DEF PostFails, At, AgentOK, AloneInv, Places, Preparing
<1>18. ASSUME NEW p \in Invocations, Die(p), UNCHANGED registryVars
      PROVE  AloneInv'
  BY <1>18 DEF Die, Leave, AgentOK, AloneInv, Places, Preparing
<1>19. CASE RegistryStep
  BY <1>19 DEF RegistryStep, AgentOK, AloneInv, Places, Preparing
<1>20. CASE UNCHANGED <<agentVars, registryVars>>
  BY <1>20 DEF agentVars, AgentOK, AloneInv, Places, Preparing
<1> QED
  BY <1>1, <1>2, <1>3, <1>4, <1>5, <1>6, <1>7, <1>8, <1>9, <1>10, <1>11, <1>12, <1>13,
     <1>14, <1>15, <1>16, <1>17, <1>18, <1>19, <1>20 DEF TNext, Prepare, Report, Loop, Fault

\* Nothing takes a settled key away: only who makes a key of its mode could.
LEMMA SettledStays ==
  AgentOK /\ KeysOK /\ ReportsOK /\ [TNext]_<<agentVars,
  registryVars>> => \A m : Settled(m) => Settled(m)' /\ private'[m] = private[m]
<1> SUFFICES ASSUME AgentOK, KeysOK, ReportsOK, [TNext]_<<agentVars, registryVars>>
             PROVE  \A m : Settled(m) => Settled(m)' /\ private'[m] = private[m]
  OBVIOUS
<1> USE InvocationsAssumption, IdentitiesAssumption
    DEF localVars, keyVars, fileVars, noteVars, registryVars, Invocations
<1>1. ASSUME NEW p \in Invocations, Start(p), UNCHANGED registryVars
      PROVE  \A m : Settled(m) => Settled(m)' /\ private'[m] = private[m]
  BY <1>1 DEF Start, At, AgentOK, KeysOK, ReportsOK, Settled, Places, Key
<1>2. ASSUME NEW p \in Invocations, OpenKeyFile(p), UNCHANGED registryVars
      PROVE  \A m : Settled(m) => Settled(m)' /\ private'[m] = private[m]
  BY <1>2 DEF OpenKeyFile, At, AgentOK, KeysOK, ReportsOK, Settled, Places, Key
<1>3. ASSUME NEW p \in Invocations, WriteKeyFile(p), UNCHANGED registryVars
      PROVE  \A m : Settled(m) => Settled(m)' /\ private'[m] = private[m]
  BY <1>3 DEF WriteKeyFile, MakeKey, At, AgentOK, KeysOK, ReportsOK, Settled, Places, Key
<1>4. ASSUME NEW p \in Invocations, PersistKey(p), UNCHANGED registryVars
      PROVE  \A m : Settled(m) => Settled(m)' /\ private'[m] = private[m]
  BY <1>4 DEF PersistKey, MakeKey, At, AgentOK, KeysOK, ReportsOK, Settled, Places, Key
<1>5. ASSUME NEW p \in Invocations, Publish(p), UNCHANGED registryVars
      PROVE  \A m : Settled(m) => Settled(m)' /\ private'[m] = private[m]
  BY <1>5 DEF Publish, At, AgentOK, KeysOK, ReportsOK, Settled, Places, Key
<1>6. ASSUME NEW p \in Invocations, ReadKey(p), UNCHANGED registryVars
      PROVE  \A m : Settled(m) => Settled(m)' /\ private'[m] = private[m]
  BY <1>6 DEF ReadKey, At, AgentOK, KeysOK, ReportsOK, Settled, Places, Key
<1>7. ASSUME NEW p \in Invocations, NEW m \in Identities, FindKey(p, m), UNCHANGED registryVars
      PROVE  \A n : Settled(n) => Settled(n)' /\ private'[n] = private[n]
  BY <1>7 DEF FindKey, Identify, At, AgentOK, KeysOK, ReportsOK, Settled, Places, Key
<1>8. ASSUME NEW p \in Invocations, WritePayload(p), UNCHANGED registryVars
      PROVE  \A m : Settled(m) => Settled(m)' /\ private'[m] = private[m]
  BY <1>8 DEF WritePayload, At, AgentOK, KeysOK, ReportsOK, Settled, Places, Key
<1>9. ASSUME NEW p \in Invocations, Sign(p), UNCHANGED registryVars
      PROVE  \A m : Settled(m) => Settled(m)' /\ private'[m] = private[m]
  BY <1>9 DEF Sign, At, AgentOK, KeysOK, ReportsOK, Settled, Places, Key
<1>10. ASSUME NEW p \in Invocations, Compose(p), UNCHANGED registryVars
      PROVE  \A m : Settled(m) => Settled(m)' /\ private'[m] = private[m]
  BY <1>10 DEF Compose, At, AgentOK, KeysOK, ReportsOK, Settled, Places, Key
<1>11. ASSUME NEW p \in Invocations, Post(p), UNCHANGED registryVars
      PROVE  \A m : Settled(m) => Settled(m)' /\ private'[m] = private[m]
  BY <1>11 DEF Post, At, AgentOK, KeysOK, ReportsOK, Settled, Places, Key
<1>12. ASSUME NEW p \in Invocations, Finish(p), UNCHANGED registryVars
      PROVE  \A m : Settled(m) => Settled(m)' /\ private'[m] = private[m]
  BY <1>12 DEF Finish, Leave, AgentOK, KeysOK, ReportsOK, Settled, Places, Key
<1>13. ASSUME NEW p \in Invocations, Continue(p), UNCHANGED registryVars
      PROVE  \A m : Settled(m) => Settled(m)' /\ private'[m] = private[m]
  BY <1>13 DEF Continue, At, AgentOK, KeysOK, ReportsOK, Settled, Places, Key
<1>14. ASSUME NEW p \in Invocations, NotDue(p), UNCHANGED registryVars
      PROVE  \A m : Settled(m) => Settled(m)' /\ private'[m] = private[m]
  BY <1>14 DEF NotDue, At, AgentOK, KeysOK, ReportsOK, Settled, Places, Key
<1>15. ASSUME NEW p \in Invocations, Poll(p), UNCHANGED registryVars
      PROVE  \A m : Settled(m) => Settled(m)' /\ private'[m] = private[m]
  BY <1>15 DEF Poll, At, AgentOK, KeysOK, ReportsOK, Settled, Places, Key
<1>16. ASSUME NEW p \in Invocations, SignFails(p), UNCHANGED registryVars
      PROVE  \A m : Settled(m) => Settled(m)' /\ private'[m] = private[m]
  BY <1>16 DEF SignFails, At, AgentOK, KeysOK, ReportsOK, Settled, Places, Key
<1>17. ASSUME NEW p \in Invocations, PostFails(p), UNCHANGED registryVars
      PROVE  \A m : Settled(m) => Settled(m)' /\ private'[m] = private[m]
  BY <1>17 DEF PostFails, At, AgentOK, KeysOK, ReportsOK, Settled, Places, Key
<1>18. ASSUME NEW p \in Invocations, Die(p), UNCHANGED registryVars
      PROVE  \A m : Settled(m) => Settled(m)' /\ private'[m] = private[m]
  BY <1>18 DEF Die, Leave, AgentOK, KeysOK, ReportsOK, Settled, Places, Key
<1>19. CASE RegistryStep
  BY <1>19 DEF RegistryStep, AgentOK, KeysOK, ReportsOK, Settled, Places, Key
<1>20. CASE UNCHANGED <<agentVars, registryVars>>
  BY <1>20 DEF agentVars, AgentOK, KeysOK, ReportsOK, Settled, Places, Key
<1> QED
  BY <1>1, <1>2, <1>3, <1>4, <1>5, <1>6, <1>7, <1>8, <1>9, <1>10, <1>11, <1>12, <1>13,
     <1>14, <1>15, <1>16, <1>17, <1>18, <1>19, <1>20 DEF TNext, Prepare, Report, Loop, Fault

\* Who prepares alone publishes and reads the key that it found or made.
LEMMA KeyStep ==
  AgentOK /\ KeysOK /\ ReportsOK /\ AloneInv /\ KeyInv /\ [TNext]_<<agentVars,
  registryVars>> => KeyInv'
<1> SUFFICES ASSUME AgentOK, KeysOK, ReportsOK, AloneInv, KeyInv, [TNext]_<<agentVars,
registryVars>>
             PROVE  KeyInv'
  OBVIOUS
<1> USE InvocationsAssumption, IdentitiesAssumption
    DEF localVars, keyVars, fileVars, noteVars, registryVars, Invocations
<1>1. ASSUME NEW p \in Invocations, Start(p), UNCHANGED registryVars
      PROVE  KeyInv'
  BY <1>1 DEF Start, At, AgentOK, KeysOK, ReportsOK, AloneInv, KeyInv, Places, Preparing,
     Prepared, Settled, Key, Envs
<1>2. ASSUME NEW p \in Invocations, OpenKeyFile(p), UNCHANGED registryVars
      PROVE  KeyInv'
  BY <1>2 DEF OpenKeyFile, At, AgentOK, KeysOK, ReportsOK, AloneInv, KeyInv, Places,
     Preparing, Prepared, Settled, Key, Envs
<1>3. ASSUME NEW p \in Invocations, WriteKeyFile(p), UNCHANGED registryVars
      PROVE  KeyInv'
  BY <1>3 DEF WriteKeyFile, MakeKey, At, AgentOK, KeysOK, ReportsOK, AloneInv, KeyInv,
     Places, Preparing, Prepared, Settled, Key, Envs
<1>4. ASSUME NEW p \in Invocations, PersistKey(p), UNCHANGED registryVars
      PROVE  KeyInv'
  BY <1>4 DEF PersistKey, MakeKey, At, AgentOK, KeysOK, ReportsOK, AloneInv, KeyInv, Places,
     Preparing, Prepared, Settled, Key, Envs
<1>5. ASSUME NEW p \in Invocations, Publish(p), UNCHANGED registryVars
      PROVE  KeyInv'
  BY <1>5 DEF Publish, At, AgentOK, KeysOK, ReportsOK, AloneInv, KeyInv, Places, Preparing,
     Prepared, Settled, Key, Envs
<1>6. ASSUME NEW p \in Invocations, ReadKey(p), UNCHANGED registryVars
      PROVE  KeyInv'
  BY <1>6 DEF ReadKey, At, AgentOK, KeysOK, ReportsOK, AloneInv, KeyInv, Places, Preparing,
     Prepared, Settled, Key, Envs
<1>7. ASSUME NEW p \in Invocations, NEW m \in Identities, FindKey(p, m), UNCHANGED registryVars
      PROVE  KeyInv'
  BY <1>7 DEF FindKey, Identify, At, AgentOK, KeysOK, ReportsOK, AloneInv, KeyInv, Places,
     Preparing, Prepared, Settled, Key, Envs
<1>8. ASSUME NEW p \in Invocations, WritePayload(p), UNCHANGED registryVars
      PROVE  KeyInv'
  BY <1>8 DEF WritePayload, At, AgentOK, KeysOK, ReportsOK, AloneInv, KeyInv, Places,
     Preparing, Prepared, Settled, Key, Envs
<1>9. ASSUME NEW p \in Invocations, Sign(p), UNCHANGED registryVars
      PROVE  KeyInv'
  BY <1>9 DEF Sign, At, AgentOK, KeysOK, ReportsOK, AloneInv, KeyInv, Places, Preparing,
     Prepared, Settled, Key, Envs
<1>10. ASSUME NEW p \in Invocations, Compose(p), UNCHANGED registryVars
      PROVE  KeyInv'
  BY <1>10 DEF Compose, At, AgentOK, KeysOK, ReportsOK, AloneInv, KeyInv, Places, Preparing,
     Prepared, Settled, Key, Envs
<1>11. ASSUME NEW p \in Invocations, Post(p), UNCHANGED registryVars
      PROVE  KeyInv'
  BY <1>11 DEF Post, At, AgentOK, KeysOK, ReportsOK, AloneInv, KeyInv, Places, Preparing,
     Prepared, Settled, Key, Envs
<1>12. ASSUME NEW p \in Invocations, Finish(p), UNCHANGED registryVars
      PROVE  KeyInv'
  BY <1>12 DEF Finish, Leave, AgentOK, KeysOK, ReportsOK, AloneInv, KeyInv, Places,
     Preparing, Prepared, Settled, Key, Envs
<1>13. ASSUME NEW p \in Invocations, Continue(p), UNCHANGED registryVars
      PROVE  KeyInv'
  BY <1>13 DEF Continue, At, AgentOK, KeysOK, ReportsOK, AloneInv, KeyInv, Places,
     Preparing, Prepared, Settled, Key, Envs
<1>14. ASSUME NEW p \in Invocations, NotDue(p), UNCHANGED registryVars
      PROVE  KeyInv'
  BY <1>14 DEF NotDue, At, AgentOK, KeysOK, ReportsOK, AloneInv, KeyInv, Places, Preparing,
     Prepared, Settled, Key, Envs
<1>15. ASSUME NEW p \in Invocations, Poll(p), UNCHANGED registryVars
      PROVE  KeyInv'
  BY <1>15 DEF Poll, At, AgentOK, KeysOK, ReportsOK, AloneInv, KeyInv, Places, Preparing,
     Prepared, Settled, Key, Envs
<1>16. ASSUME NEW p \in Invocations, SignFails(p), UNCHANGED registryVars
      PROVE  KeyInv'
  BY <1>16 DEF SignFails, At, AgentOK, KeysOK, ReportsOK, AloneInv, KeyInv, Places,
     Preparing, Prepared, Settled, Key, Envs
<1>17. ASSUME NEW p \in Invocations, PostFails(p), UNCHANGED registryVars
      PROVE  KeyInv'
  BY <1>17 DEF PostFails, At, AgentOK, KeysOK, ReportsOK, AloneInv, KeyInv, Places,
     Preparing, Prepared, Settled, Key, Envs
<1>18. ASSUME NEW p \in Invocations, Die(p), UNCHANGED registryVars
      PROVE  KeyInv'
  BY <1>18 DEF Die, Leave, AgentOK, KeysOK, ReportsOK, AloneInv, KeyInv, Places, Preparing,
     Prepared, Settled, Key, Envs
<1>19. CASE RegistryStep
  BY <1>19 DEF RegistryStep, AgentOK, KeysOK, ReportsOK, AloneInv, KeyInv, Places,
     Preparing, Prepared, Settled, Key, Envs
<1>20. CASE UNCHANGED <<agentVars, registryVars>>
  BY <1>20 DEF agentVars, AgentOK, KeysOK, ReportsOK, AloneInv, KeyInv, Places, Preparing,
     Prepared, Settled, Key, Envs
<1> QED
  BY <1>1, <1>2, <1>3, <1>4, <1>5, <1>6, <1>7, <1>8, <1>9, <1>10, <1>11, <1>12, <1>13,
     <1>14, <1>15, <1>16, <1>17, <1>18, <1>19, <1>20 DEF TNext, Prepare, Report, Loop, Fault

\* Messages stay true, because settled keys stay.
LEMMA MessageStep ==
  AgentOK /\ KeysOK /\ ReportsOK /\ KeyInv /\ MessageInv /\ [TNext]_<<agentVars,
  registryVars>> => MessageInv'
<1> SUFFICES ASSUME AgentOK, KeysOK, ReportsOK, KeyInv, MessageInv, [TNext]_<<agentVars,
registryVars>>
             PROVE  MessageInv'
  OBVIOUS
<1> USE InvocationsAssumption, IdentitiesAssumption
    DEF localVars, keyVars, fileVars, noteVars, registryVars, Invocations
<1>T. \A x : Truthful(x) /\ ~x.raced => Settled(x.env.mode)' /\ x.env.fingerprint = private'[x.env.mode]
  BY SettledStays DEF Truthful
<1>1. ASSUME NEW p \in Invocations, Start(p), UNCHANGED registryVars
      PROVE  MessageInv'
  BY <1>T, <1>1 DEF Start, At, MessageInv, Truthful
<1>2. ASSUME NEW p \in Invocations, OpenKeyFile(p), UNCHANGED registryVars
      PROVE  MessageInv'
  BY <1>T, <1>2 DEF OpenKeyFile, At, MessageInv, Truthful
<1>3. ASSUME NEW p \in Invocations, WriteKeyFile(p), UNCHANGED registryVars
      PROVE  MessageInv'
  BY <1>T, <1>3 DEF WriteKeyFile, MakeKey, At, MessageInv, Truthful
<1>4. ASSUME NEW p \in Invocations, PersistKey(p), UNCHANGED registryVars
      PROVE  MessageInv'
  BY <1>T, <1>4 DEF PersistKey, MakeKey, At, MessageInv, Truthful
<1>5. ASSUME NEW p \in Invocations, Publish(p), UNCHANGED registryVars
      PROVE  MessageInv'
  BY <1>T, <1>5 DEF Publish, At, MessageInv, Truthful
<1>6. ASSUME NEW p \in Invocations, ReadKey(p), UNCHANGED registryVars
      PROVE  MessageInv'
  BY <1>T, <1>6 DEF ReadKey, At, MessageInv, Truthful
<1>7. ASSUME NEW p \in Invocations, NEW m \in Identities, FindKey(p, m), UNCHANGED registryVars
      PROVE  MessageInv'
  BY <1>T, <1>7 DEF FindKey, Identify, At, MessageInv, Truthful
<1>8. ASSUME NEW p \in Invocations, WritePayload(p), UNCHANGED registryVars
      PROVE  MessageInv'
  BY <1>T, <1>8 DEF WritePayload, At, MessageInv, Truthful
<1>9. ASSUME NEW p \in Invocations, Sign(p), UNCHANGED registryVars
      PROVE  MessageInv'
  BY <1>T, <1>9 DEF Sign, At, MessageInv, Truthful
<1>10. ASSUME NEW p \in Invocations, Compose(p), UNCHANGED registryVars
      PROVE  MessageInv'
  <2>1. Truthful(Message(p, count[p]))
    BY <1>10 DEF Compose, At, KeyInv, Truthful, Message, Prepared, Key
  <2>2. \A k \in DOMAIN report' : report'[k] = report[k] \/ report'[k].message = Message(p,
  count[p])
    BY <1>10 DEF Compose, ReportsOK
  <2> QED
    BY <1>T, <1>10, <2>1, <2>2 DEF Compose, MessageInv, Truthful
<1>11. ASSUME NEW p \in Invocations, Post(p), UNCHANGED registryVars
      PROVE  MessageInv'
  <2>1. env[p].kind \in DOMAIN report
    BY <1>11 DEF Post, At, ReportsOK
  <2>2. \A q \in Invocations : \/ received'[q] = received[q]
                               \/ received'[q] = report[env[p].kind]
    BY <1>11 DEF Post, ReportsOK
  <2>3. \/ bound' = bound
        \/ bound' = report[env[p].kind].message
    BY <1>11 DEF Post
  <2>4. NoReport.message = NoMessage
    BY DEF NoReport
  <2> QED
    BY <1>T, <1>11, <2>1, <2>2, <2>3, <2>4 DEF Post, MessageInv, Truthful
<1>12. ASSUME NEW p \in Invocations, Finish(p), UNCHANGED registryVars
      PROVE  MessageInv'
  BY <1>T, <1>12 DEF Finish, Leave, MessageInv, Truthful
<1>13. ASSUME NEW p \in Invocations, Continue(p), UNCHANGED registryVars
      PROVE  MessageInv'
  BY <1>T, <1>13 DEF Continue, At, MessageInv, Truthful
<1>14. ASSUME NEW p \in Invocations, NotDue(p), UNCHANGED registryVars
      PROVE  MessageInv'
  BY <1>T, <1>14 DEF NotDue, At, MessageInv, Truthful
<1>15. ASSUME NEW p \in Invocations, Poll(p), UNCHANGED registryVars
      PROVE  MessageInv'
  BY <1>T, <1>15 DEF Poll, At, MessageInv, Truthful
<1>16. ASSUME NEW p \in Invocations, SignFails(p), UNCHANGED registryVars
      PROVE  MessageInv'
  BY <1>T, <1>16 DEF SignFails, At, MessageInv, Truthful
<1>17. ASSUME NEW p \in Invocations, PostFails(p), UNCHANGED registryVars
      PROVE  MessageInv'
  BY <1>T, <1>17 DEF PostFails, At, MessageInv, Truthful
<1>18. ASSUME NEW p \in Invocations, Die(p), UNCHANGED registryVars
      PROVE  MessageInv'
  BY <1>T, <1>18 DEF Die, Leave, MessageInv, Truthful
<1>19. CASE RegistryStep
  BY <1>T, <1>19 DEF RegistryStep, MessageInv, Truthful
<1>20. CASE UNCHANGED <<agentVars, registryVars>>
  BY <1>T, <1>20 DEF agentVars, MessageInv, Truthful
<1> QED
  BY <1>T, <1>1, <1>2, <1>3, <1>4, <1>5, <1>6, <1>7, <1>8, <1>9, <1>10, <1>11, <1>12, <1>13,
     <1>14, <1>15, <1>16, <1>17, <1>18, <1>19, <1>20 DEF TNext, Prepare, Report, Loop, Fault

LEMMA UndisturbedStep ==
  AgentOK /\ UndisturbedInv /\ [TNext]_<<agentVars, registryVars>> => UndisturbedInv'
<1> SUFFICES ASSUME AgentOK, UndisturbedInv, [TNext]_<<agentVars, registryVars>>
             PROVE  UndisturbedInv'
  OBVIOUS
<1> USE InvocationsAssumption, IdentitiesAssumption
    DEF localVars, keyVars, fileVars, noteVars, registryVars, Invocations
<1>1. ASSUME NEW p \in Invocations, Start(p), UNCHANGED registryVars
      PROVE  UndisturbedInv'
  BY <1>1 DEF Start, At, AgentOK, UndisturbedInv, Places, Signing
<1>2. ASSUME NEW p \in Invocations, OpenKeyFile(p), UNCHANGED registryVars
      PROVE  UndisturbedInv'
  BY <1>2 DEF OpenKeyFile, At, AgentOK, UndisturbedInv, Places, Signing
<1>3. ASSUME NEW p \in Invocations, WriteKeyFile(p), UNCHANGED registryVars
      PROVE  UndisturbedInv'
  BY <1>3 DEF WriteKeyFile, MakeKey, At, AgentOK, UndisturbedInv, Places, Signing
<1>4. ASSUME NEW p \in Invocations, PersistKey(p), UNCHANGED registryVars
      PROVE  UndisturbedInv'
  BY <1>4 DEF PersistKey, MakeKey, At, AgentOK, UndisturbedInv, Places, Signing
<1>5. ASSUME NEW p \in Invocations, Publish(p), UNCHANGED registryVars
      PROVE  UndisturbedInv'
  BY <1>5 DEF Publish, At, AgentOK, UndisturbedInv, Places, Signing
<1>6. ASSUME NEW p \in Invocations, ReadKey(p), UNCHANGED registryVars
      PROVE  UndisturbedInv'
  BY <1>6 DEF ReadKey, At, AgentOK, UndisturbedInv, Places, Signing
<1>7. ASSUME NEW p \in Invocations, NEW m \in Identities, FindKey(p, m), UNCHANGED registryVars
      PROVE  UndisturbedInv'
  BY <1>7 DEF FindKey, Identify, At, AgentOK, UndisturbedInv, Places, Signing
<1>8. ASSUME NEW p \in Invocations, WritePayload(p), UNCHANGED registryVars
      PROVE  UndisturbedInv'
  BY <1>8 DEF WritePayload, At, AgentOK, UndisturbedInv, Places, Signing
<1>9. ASSUME NEW p \in Invocations, Sign(p), UNCHANGED registryVars
      PROVE  UndisturbedInv'
  BY <1>9 DEF Sign, At, AgentOK, UndisturbedInv, Places, Signing
<1>10. ASSUME NEW p \in Invocations, Compose(p), UNCHANGED registryVars
      PROVE  UndisturbedInv'
  BY <1>10 DEF Compose, At, AgentOK, UndisturbedInv, Places, Signing
<1>11. ASSUME NEW p \in Invocations, Post(p), UNCHANGED registryVars
      PROVE  UndisturbedInv'
  BY <1>11 DEF Post, At, AgentOK, UndisturbedInv, Places, Signing
<1>12. ASSUME NEW p \in Invocations, Finish(p), UNCHANGED registryVars
      PROVE  UndisturbedInv'
  BY <1>12 DEF Finish, Leave, AgentOK, UndisturbedInv, Places, Signing
<1>13. ASSUME NEW p \in Invocations, Continue(p), UNCHANGED registryVars
      PROVE  UndisturbedInv'
  BY <1>13 DEF Continue, At, AgentOK, UndisturbedInv, Places, Signing
<1>14. ASSUME NEW p \in Invocations, NotDue(p), UNCHANGED registryVars
      PROVE  UndisturbedInv'
  BY <1>14 DEF NotDue, At, AgentOK, UndisturbedInv, Places, Signing
<1>15. ASSUME NEW p \in Invocations, Poll(p), UNCHANGED registryVars
      PROVE  UndisturbedInv'
  BY <1>15 DEF Poll, At, AgentOK, UndisturbedInv, Places, Signing
<1>16. ASSUME NEW p \in Invocations, SignFails(p), UNCHANGED registryVars
      PROVE  UndisturbedInv'
  BY <1>16 DEF SignFails, At, AgentOK, UndisturbedInv, Places, Signing
<1>17. ASSUME NEW p \in Invocations, PostFails(p), UNCHANGED registryVars
      PROVE  UndisturbedInv'
  BY <1>17 DEF PostFails, At, AgentOK, UndisturbedInv, Places, Signing
<1>18. ASSUME NEW p \in Invocations, Die(p), UNCHANGED registryVars
      PROVE  UndisturbedInv'
  BY <1>18 DEF Die, Leave, AgentOK, UndisturbedInv, Places, Signing
<1>19. CASE RegistryStep
  BY <1>19 DEF RegistryStep, AgentOK, UndisturbedInv, Places, Signing
<1>20. CASE UNCHANGED <<agentVars, registryVars>>
  BY <1>20 DEF agentVars, AgentOK, UndisturbedInv, Places, Signing
<1> QED
  BY <1>1, <1>2, <1>3, <1>4, <1>5, <1>6, <1>7, <1>8, <1>9, <1>10, <1>11, <1>12, <1>13,
     <1>14, <1>15, <1>16, <1>17, <1>18, <1>19, <1>20 DEF TNext, Prepare, Report, Loop, Fault

\* Who signs alone signs its own message with its own key.
LEMMA SignStep ==
  AgentOK /\ ReportsOK /\ KeyInv /\ UndisturbedInv /\ SignInv /\ [TNext]_<<agentVars,
  registryVars>> => SignInv'
<1> SUFFICES ASSUME AgentOK, ReportsOK, KeyInv, UndisturbedInv, SignInv, [TNext]_<<agentVars,
registryVars>>
             PROVE  SignInv'
  OBVIOUS
<1> USE InvocationsAssumption, IdentitiesAssumption
    DEF localVars, keyVars, fileVars, noteVars, registryVars, Invocations
<1>1. ASSUME NEW p \in Invocations, Start(p), UNCHANGED registryVars
      PROVE  SignInv'
  BY <1>1 DEF Start, At, AgentOK, ReportsOK, KeyInv, UndisturbedInv, SignInv, Honest,
     Verifies, Message, Signing, Preparing, Prepared, Key, NoReport
<1>2. ASSUME NEW p \in Invocations, OpenKeyFile(p), UNCHANGED registryVars
      PROVE  SignInv'
  BY <1>2 DEF OpenKeyFile, At, AgentOK, ReportsOK, KeyInv, UndisturbedInv, SignInv, Honest,
     Verifies, Message, Signing, Preparing, Prepared, Key, NoReport
<1>3. ASSUME NEW p \in Invocations, WriteKeyFile(p), UNCHANGED registryVars
      PROVE  SignInv'
  BY <1>3 DEF WriteKeyFile, MakeKey, At, AgentOK, ReportsOK, KeyInv, UndisturbedInv,
     SignInv, Honest, Verifies, Message, Signing, Preparing, Prepared, Key, NoReport
<1>4. ASSUME NEW p \in Invocations, PersistKey(p), UNCHANGED registryVars
      PROVE  SignInv'
  BY <1>4 DEF PersistKey, MakeKey, At, AgentOK, ReportsOK, KeyInv, UndisturbedInv, SignInv,
     Honest, Verifies, Message, Signing, Preparing, Prepared, Key, NoReport
<1>5. ASSUME NEW p \in Invocations, Publish(p), UNCHANGED registryVars
      PROVE  SignInv'
  BY <1>5 DEF Publish, At, AgentOK, ReportsOK, KeyInv, UndisturbedInv, SignInv, Honest,
     Verifies, Message, Signing, Preparing, Prepared, Key, NoReport
<1>6. ASSUME NEW p \in Invocations, ReadKey(p), UNCHANGED registryVars
      PROVE  SignInv'
  BY <1>6 DEF ReadKey, At, AgentOK, ReportsOK, KeyInv, UndisturbedInv, SignInv, Honest,
     Verifies, Message, Signing, Preparing, Prepared, Key, NoReport
<1>7. ASSUME NEW p \in Invocations, NEW m \in Identities, FindKey(p, m), UNCHANGED registryVars
      PROVE  SignInv'
  BY <1>7 DEF FindKey, Identify, At, AgentOK, ReportsOK, KeyInv, UndisturbedInv, SignInv,
     Honest, Verifies, Message, Signing, Preparing, Prepared, Key, NoReport
<1>8. ASSUME NEW p \in Invocations, WritePayload(p), UNCHANGED registryVars
      PROVE  SignInv'
  BY <1>8 DEF WritePayload, At, AgentOK, ReportsOK, KeyInv, UndisturbedInv, SignInv, Honest,
     Verifies, Message, Signing, Preparing, Prepared, Key, NoReport
<1>9. ASSUME NEW p \in Invocations, Sign(p), UNCHANGED registryVars
      PROVE  SignInv'
  BY <1>9 DEF Sign, At, AgentOK, ReportsOK, KeyInv, UndisturbedInv, SignInv, Honest,
     Verifies, Message, Signing, Preparing, Prepared, Key, NoReport
<1>10. ASSUME NEW p \in Invocations, Compose(p), UNCHANGED registryVars
      PROVE  SignInv'
  BY <1>10 DEF Compose, At, AgentOK, ReportsOK, KeyInv, UndisturbedInv, SignInv, Honest,
     Verifies, Message, Signing, Preparing, Prepared, Key, NoReport
<1>11. ASSUME NEW p \in Invocations, Post(p), UNCHANGED registryVars
      PROVE  SignInv'
  BY <1>11 DEF Post, At, AgentOK, ReportsOK, KeyInv, UndisturbedInv, SignInv, Honest,
     Verifies, Message, Signing, Preparing, Prepared, Key, NoReport
<1>12. ASSUME NEW p \in Invocations, Finish(p), UNCHANGED registryVars
      PROVE  SignInv'
  BY <1>12 DEF Finish, Leave, AgentOK, ReportsOK, KeyInv, UndisturbedInv, SignInv, Honest,
     Verifies, Message, Signing, Preparing, Prepared, Key, NoReport
<1>13. ASSUME NEW p \in Invocations, Continue(p), UNCHANGED registryVars
      PROVE  SignInv'
  BY <1>13 DEF Continue, At, AgentOK, ReportsOK, KeyInv, UndisturbedInv, SignInv, Honest,
     Verifies, Message, Signing, Preparing, Prepared, Key, NoReport
<1>14. ASSUME NEW p \in Invocations, NotDue(p), UNCHANGED registryVars
      PROVE  SignInv'
  BY <1>14 DEF NotDue, At, AgentOK, ReportsOK, KeyInv, UndisturbedInv, SignInv, Honest,
     Verifies, Message, Signing, Preparing, Prepared, Key, NoReport
<1>15. ASSUME NEW p \in Invocations, Poll(p), UNCHANGED registryVars
      PROVE  SignInv'
  BY <1>15 DEF Poll, At, AgentOK, ReportsOK, KeyInv, UndisturbedInv, SignInv, Honest,
     Verifies, Message, Signing, Preparing, Prepared, Key, NoReport
<1>16. ASSUME NEW p \in Invocations, SignFails(p), UNCHANGED registryVars
      PROVE  SignInv'
  BY <1>16 DEF SignFails, At, AgentOK, ReportsOK, KeyInv, UndisturbedInv, SignInv, Honest,
     Verifies, Message, Signing, Preparing, Prepared, Key, NoReport
<1>17. ASSUME NEW p \in Invocations, PostFails(p), UNCHANGED registryVars
      PROVE  SignInv'
  BY <1>17 DEF PostFails, At, AgentOK, ReportsOK, KeyInv, UndisturbedInv, SignInv, Honest,
     Verifies, Message, Signing, Preparing, Prepared, Key, NoReport
<1>18. ASSUME NEW p \in Invocations, Die(p), UNCHANGED registryVars
      PROVE  SignInv'
  BY <1>18 DEF Die, Leave, AgentOK, ReportsOK, KeyInv, UndisturbedInv, SignInv, Honest,
     Verifies, Message, Signing, Preparing, Prepared, Key, NoReport
<1>19. CASE RegistryStep
  BY <1>19 DEF RegistryStep, AgentOK, ReportsOK, KeyInv, UndisturbedInv, SignInv, Honest,
     Verifies, Message, Signing, Preparing, Prepared, Key, NoReport
<1>20. CASE UNCHANGED <<agentVars, registryVars>>
  BY <1>20 DEF agentVars, AgentOK, ReportsOK, KeyInv, UndisturbedInv, SignInv, Honest,
     Verifies, Message, Signing, Preparing, Prepared, Key, NoReport
<1> QED
  BY <1>1, <1>2, <1>3, <1>4, <1>5, <1>6, <1>7, <1>8, <1>9, <1>10, <1>11, <1>12, <1>13,
     <1>14, <1>15, <1>16, <1>17, <1>18, <1>19, <1>20 DEF TNext, Prepare, Report, Loop, Fault

\* The registry changes under those that are up, who know what they read all the
\* same.
LEMMA ToldStep ==
  FilesOK /\ AgentOK /\ ReportsOK /\ ToldInv /\ [TNext]_<<agentVars, registryVars>> => ToldInv'
<1> SUFFICES ASSUME FilesOK, AgentOK, ReportsOK, ToldInv, [TNext]_<<agentVars, registryVars>>
             PROVE  ToldInv'
  OBVIOUS
<1> USE InvocationsAssumption, IdentitiesAssumption
    DEF localVars, keyVars, fileVars, noteVars, registryVars, Invocations
<1>1. ASSUME NEW p \in Invocations, Start(p), UNCHANGED registryVars
      PROVE  ToldInv'
  BY <1>1 DEF Start, At, FilesOK, AgentOK, ReportsOK, ToldInv, Active, Envs, Message,
     NoReport, NoMessage, NoEnv
<1>2. ASSUME NEW p \in Invocations, OpenKeyFile(p), UNCHANGED registryVars
      PROVE  ToldInv'
  BY <1>2 DEF OpenKeyFile, At, FilesOK, AgentOK, ReportsOK, ToldInv, Active, Envs, Message,
     NoReport, NoMessage, NoEnv
<1>3. ASSUME NEW p \in Invocations, WriteKeyFile(p), UNCHANGED registryVars
      PROVE  ToldInv'
  BY <1>3 DEF WriteKeyFile, MakeKey, At, FilesOK, AgentOK, ReportsOK, ToldInv, Active, Envs,
     Message, NoReport, NoMessage, NoEnv
<1>4. ASSUME NEW p \in Invocations, PersistKey(p), UNCHANGED registryVars
      PROVE  ToldInv'
  BY <1>4 DEF PersistKey, MakeKey, At, FilesOK, AgentOK, ReportsOK, ToldInv, Active, Envs,
     Message, NoReport, NoMessage, NoEnv
<1>5. ASSUME NEW p \in Invocations, Publish(p), UNCHANGED registryVars
      PROVE  ToldInv'
  BY <1>5 DEF Publish, At, FilesOK, AgentOK, ReportsOK, ToldInv, Active, Envs, Message,
     NoReport, NoMessage, NoEnv
<1>6. ASSUME NEW p \in Invocations, ReadKey(p), UNCHANGED registryVars
      PROVE  ToldInv'
  BY <1>6 DEF ReadKey, At, FilesOK, AgentOK, ReportsOK, ToldInv, Active, Envs, Message,
     NoReport, NoMessage, NoEnv
<1>7. ASSUME NEW p \in Invocations, NEW m \in Identities, FindKey(p, m), UNCHANGED registryVars
      PROVE  ToldInv'
  BY <1>7 DEF FindKey, Identify, At, FilesOK, AgentOK, ReportsOK, ToldInv, Active, Envs,
     Message, NoReport, NoMessage, NoEnv
<1>8. ASSUME NEW p \in Invocations, WritePayload(p), UNCHANGED registryVars
      PROVE  ToldInv'
  BY <1>8 DEF WritePayload, At, FilesOK, AgentOK, ReportsOK, ToldInv, Active, Envs, Message,
     NoReport, NoMessage, NoEnv
<1>9. ASSUME NEW p \in Invocations, Sign(p), UNCHANGED registryVars
      PROVE  ToldInv'
  BY <1>9 DEF Sign, At, FilesOK, AgentOK, ReportsOK, ToldInv, Active, Envs, Message,
     NoReport, NoMessage, NoEnv
<1>10. ASSUME NEW p \in Invocations, Compose(p), UNCHANGED registryVars
      PROVE  ToldInv'
  BY <1>10 DEF Compose, At, FilesOK, AgentOK, ReportsOK, ToldInv, Active, Envs, Message,
     NoReport, NoMessage, NoEnv
<1>11. ASSUME NEW p \in Invocations, Post(p), UNCHANGED registryVars
      PROVE  ToldInv'
  BY <1>11 DEF Post, At, FilesOK, AgentOK, ReportsOK, ToldInv, Active, Envs, Message,
     NoReport, NoMessage, NoEnv
<1>12. ASSUME NEW p \in Invocations, Finish(p), UNCHANGED registryVars
      PROVE  ToldInv'
  BY <1>12 DEF Finish, Leave, FilesOK, AgentOK, ReportsOK, ToldInv, Active, Envs, Message,
     NoReport, NoMessage, NoEnv
<1>13. ASSUME NEW p \in Invocations, Continue(p), UNCHANGED registryVars
      PROVE  ToldInv'
  BY <1>13 DEF Continue, At, FilesOK, AgentOK, ReportsOK, ToldInv, Active, Envs, Message,
     NoReport, NoMessage, NoEnv
<1>14. ASSUME NEW p \in Invocations, NotDue(p), UNCHANGED registryVars
      PROVE  ToldInv'
  BY <1>14 DEF NotDue, At, FilesOK, AgentOK, ReportsOK, ToldInv, Active, Envs, Message,
     NoReport, NoMessage, NoEnv
<1>15. ASSUME NEW p \in Invocations, Poll(p), UNCHANGED registryVars
      PROVE  ToldInv'
  BY <1>15 DEF Poll, At, FilesOK, AgentOK, ReportsOK, ToldInv, Active, Envs, Message,
     NoReport, NoMessage, NoEnv
<1>16. ASSUME NEW p \in Invocations, SignFails(p), UNCHANGED registryVars
      PROVE  ToldInv'
  BY <1>16 DEF SignFails, At, FilesOK, AgentOK, ReportsOK, ToldInv, Active, Envs, Message,
     NoReport, NoMessage, NoEnv
<1>17. ASSUME NEW p \in Invocations, PostFails(p), UNCHANGED registryVars
      PROVE  ToldInv'
  BY <1>17 DEF PostFails, At, FilesOK, AgentOK, ReportsOK, ToldInv, Active, Envs, Message,
     NoReport, NoMessage, NoEnv
<1>18. ASSUME NEW p \in Invocations, Die(p), UNCHANGED registryVars
      PROVE  ToldInv'
  BY <1>18 DEF Die, Leave, FilesOK, AgentOK, ReportsOK, ToldInv, Active, Envs, Message,
     NoReport, NoMessage, NoEnv
<1>19. CASE RegistryStep
  BY <1>19 DEF RegistryStep, FilesOK, AgentOK, ReportsOK, ToldInv, Active, Envs, Message,
     NoReport, NoMessage, NoEnv
<1>20. CASE UNCHANGED <<agentVars, registryVars>>
  BY <1>20 DEF agentVars, FilesOK, AgentOK, ReportsOK, ToldInv, Active, Envs, Message,
     NoReport, NoMessage, NoEnv
<1> QED
  BY <1>1, <1>2, <1>3, <1>4, <1>5, <1>6, <1>7, <1>8, <1>9, <1>10, <1>11, <1>12, <1>13,
     <1>14, <1>15, <1>16, <1>17, <1>18, <1>19, <1>20 DEF TNext, Prepare, Report, Loop, Fault

-----------------------------------------------------------------------------

LEMMA InitInv == TInit => IInv
<1> SUFFICES ASSUME TInit PROVE IInv
  OBVIOUS
<1> USE DEF TInit, RInit
<1>1. Types
  <2>1. FilesOK
    BY DEF FilesOK, Nothing
  <2>2. AgentOK
    BY DEF AgentOK, Places, Envs, NoEnv
  <2>3. KeysOK
    BY AgentBoundsAssumption DEF KeysOK
  <2>4. ReportsOK
    BY InvocationsAssumption DEF ReportsOK
  <2> QED
    BY <2>1, <2>2, <2>3, <2>4 DEF Types
<1>2. ChoiceInv /\ AloneInv /\ UndisturbedInv
  BY DEF ChoiceInv, Read, AloneInv, UndisturbedInv, Preparing, Signing
<1>3. KeyInv
  BY DEF KeyInv, Prepared
<1>4. MessageInv
  BY DEF MessageInv
<1>5. SignInv
  BY DEF SignInv, Honest, NoReport
<1>6. ToldInv
  BY InvocationsAssumption DEF ToldInv, NoReport, NoMessage
<1> QED
  BY <1>1, <1>2, <1>3, <1>4, <1>5, <1>6 DEF IInv

\* Every step of the agent's world is a step of the registry, or leaves it alone.
LEMMA RegistrySteps == [TNext]_<<agentVars, registryVars>> => [RNext]_registryVars
  BY DEF TNext, RegistryStep, registryVars

LEMMA StepInv == IInv /\ [TNext]_<<agentVars, registryVars>> => IInv'
<1> SUFFICES ASSUME IInv, [TNext]_<<agentVars, registryVars>> PROVE IInv'
  OBVIOUS
<1> USE DEF IInv, Types
<1>1. Types'
  BY RegistrySteps, FilesTypes, AgentTypes, KeysTypes, ReportsTypes
<1>2. ChoiceInv'
  BY RegistrySteps, ChoiceStep
<1>3. AloneInv' /\ KeyInv' /\ MessageInv'
  BY AloneStep, KeyStep, MessageStep
<1>4. UndisturbedInv' /\ SignInv' /\ ToldInv'
  BY UndisturbedStep, SignStep, ToldStep
<1> QED
  BY <1>1, <1>2, <1>3, <1>4

\* The inductive invariant of the agents, their files and the registry.
THEOREM AgentInvariant == TSpec => []IInv
  BY InitInv, StepInv, PTL DEF TSpec

\* The registry holds ids of manifests, and every invocation its kind of
\* variables (TpmAgent!AgentTypeOK).
THEOREM TypeCorrect == TSpec => []AgentTypeOK
<1>1. IInv => AgentTypeOK
  BY DEF IInv, Types, FilesOK, AgentOK, KeysOK, AgentTypeOK, Places, Envs
<1> QED
  BY <1>1, AgentInvariant, PTL

\* What arrives from an undisturbed signing verifies with the key it names,
\* whatever the others do to the files meanwhile.
THEOREM ArrivedReportsVerify == TSpec => []ReceivedVerifies
<1>1. IInv => ReceivedVerifies
  BY DEF IInv, SignInv, Honest, ReceivedVerifies, Arrived
<1> QED
  BY <1>1, AgentInvariant, PTL

\* The reports name the key the robot was bound with, through restarts, failed
\* calls and binding again.
THEOREM KeyStaysBound == TSpec => []ReportedKeyIsBound
<1>1. IInv => ReportedKeyIsBound
  BY DEF IInv, MessageInv, Truthful, ReportedKeyIsBound, Arrived
<1> QED
  BY <1>1, AgentInvariant, PTL

\* For any manifests and any order of activations, installations, removals and
\* reads: a run starts the first able adapter of a registry and of files that were
\* there while it worked, and an invocation tells a registry that was there since
\* it started.
THEOREM RegistryFollowed == TSpec => []RegistryIsFollowed
<1>1. IInv => StartedIsEnabled
  BY DEF IInv, ChoiceInv, Read, Complete, Least, StartedIsEnabled
<1>2. IInv => RegistryIsFollowed
  BY <1>1 DEF IInv, ToldInv, RegistryIsFollowed, Arrived
<1> QED
  BY <1>2, AgentInvariant, PTL
=============================================================================
