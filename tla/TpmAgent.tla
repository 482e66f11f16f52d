------------------------------ MODULE TpmAgent ------------------------------
(***************************************************************************)
(* roc-robot-tpm-sdk.sh: the agent that systemd keeps running (service),   *)
(* and the commands bind and stage.  Each invocation reads the enabled     *)
(* adapters and finds or makes the key of the device (prepare), and then   *)
(* signs reports and posts them to the platform.                           *)
(*                                                                         *)
(* All of them work in the same files, without a lock: the payload, the    *)
(* signature, the keys and the reports.  A signature is taken with         *)
(* sig="$(sign)", where set -e is not in force: when signing or verifying  *)
(* fails, the report is posted all the same.  Verifying therefore changes  *)
(* nothing, and is left out; so are the device's data in the reports, the  *)
(* file robot-id, and doctor, which only prints.                           *)
(***************************************************************************)
EXTENDS AdapterRegistry

CONSTANTS Services,   \* invocations that systemd starts again
          Manual,     \* invocations of bind and stage
          Identities, \* what prepare may find: a TPM, or leave to use software
          NoKey,      \* an empty or missing file
          MaxKeys,    \* bound on keys made
          MaxStarts,  \* bound on starts of a service
          MaxReports, \* bound on reports of each invocation
          MaxFaults   \* bound on failed calls and ended invocations

Invocations == Services \cup Manual
Modes == {"TPM", "SOFTWARE"}
Keys == 1..MaxKeys

ASSUME InvocationsAssumption == Services \cap Manual = {} /\ None \notin Invocations
ASSUME IdentitiesAssumption == Identities \subseteq Modes /\ NoKey \notin Nat
ASSUME AgentBoundsAssumption == {MaxKeys, MaxStarts, MaxReports, MaxFaults} \subseteq Nat

VARIABLES
  pc,        \* where each invocation is
  env,       \* its shell variables
  starts,    \* how often each was started
  count,     \* the reports each has begun: the nonce of the latest
  private,   \* the private keys: the software key file, the TPM's handle
  pem,       \* the files with the public keys
  made,      \* how many keys were made
  payload,   \* payload.txt
  signature, \* signature.bin
  report,    \* the report files in OUTPUT_DIR
  received,  \* what the platform got from each invocation's post
  bound,     \* the message by which the platform knows the robot's key
  raced,     \* history: invocations whose prepare met another's
  disturbed, \* history: invocations whose signing met another's, or failed
  known,     \* history: the registries there were since each invocation started
  faults     \* how many faults there were

localVars  == <<env, starts, count>>
keyVars    == <<private, pem, made>>
fileVars   == <<payload, signature, report>>
noteVars   == <<raced, disturbed, known>>
agentVars  == <<pc, localVars, keyVars, fileVars, received, bound, noteVars, faults>>

\* kind is that of its report: "heartbeat", "stage" (a challenge) or "device"
\* (bind); mode is IDENTITY_MODE, fingerprint PUBLIC_KEY_FINGERPRINT, adapters
\* ENABLED_ADAPTERS_JSON.
NoEnv == [kind |-> "none", mode |-> "none", fingerprint |-> NoKey, adapters |-> {}]
NoMessage == [by |-> None, nonce |-> 0, env |-> NoEnv, raced |-> FALSE]
NoSignature == [key |-> NoKey, of |-> NoMessage]
NoFile == None
NoReport == [message |-> NoMessage, sig |-> NoSignature, clean |-> FALSE]

TInit ==
  /\ RInit
  /\ pc = [p \in Invocations |-> "off"] /\ env = [p \in Invocations |-> NoEnv]
  /\ starts = [p \in Invocations |-> 0] /\ count = [p \in Invocations |-> 0]
  /\ private = [m \in Modes |-> NoKey] /\ pem = [m \in Modes |-> NoKey] /\ made = 0
  /\ payload = NoMessage /\ signature = NoFile
  /\ report = [k \in {"heartbeat", "stage", "device"} |-> NoReport]
  /\ received = [p \in Invocations |-> NoReport] /\ bound = NoMessage
  /\ raced = {} /\ disturbed = {} /\ known = [p \in Invocations |-> {}] /\ faults = 0

At(p, from, to) == pc[p] = from /\ pc' = [pc EXCEPT ![p] = to]

\* The ids in the registry.
Active == IF registry = Absent THEN {} ELSE registry

\* The invocation ends, with its variables.
Leave(p) == /\ pc' = [pc EXCEPT ![p] = "off"]
            /\ env' = [env EXCEPT ![p] = NoEnv]
            /\ raced' = raced \ {p} /\ disturbed' = disturbed \ {p}
            /\ known' = [known EXCEPT ![p] = {}]

(***************************************************************************)
(* prepare                                                                 *)
(***************************************************************************)

Preparing == {p \in Invocations : pc[p] \in {"find", "make", "write", "publish", "read"}}

\* A service has the robot's id, which bind was given.  collect reads the
\* registry.
Start(p) ==
  /\ At(p, "off", "find")
  /\ \E k \in {"heartbeat", "stage", "device"} :
       /\ IF k = "heartbeat" THEN p \in Services /\ starts[p] < MaxStarts /\ bound # NoMessage
                             ELSE p \in Manual /\ starts[p] = 0
       /\ env' = [env EXCEPT ![p].kind = k, ![p].adapters = Active]
  /\ starts' = [starts EXCEPT ![p] = @ + 1]
  /\ raced' = raced \cup (IF Preparing = {} THEN {} ELSE Preparing \cup {p})
  /\ known' = [known EXCEPT ![p] = {Active}]
  /\ UNCHANGED <<count, keyVars, fileVars, received, bound, disturbed>>

\* The invocation finds a TPM, or has the leave to use software.
Identify(p, m, to) == /\ At(p, "find", to)
                      /\ env' = [env EXCEPT ![p].mode = m]
                      /\ UNCHANGED <<starts, count, keyVars, fileVars, received, bound, noteVars>>

\* Mutant: an existing key is not looked for.
FindNoKey(p, m) == Identify(p, m, "make")

\* Is there a key?
FindKey(p, m) == Identify(p, m, IF private[m] = NoKey THEN "make" ELSE "publish")

Key(p) == private[env[p].mode]

\* openssl genpkey opens its file before it has a key ...
OpenKeyFile(p) ==
  /\ At(p, "make", "write") /\ env[p].mode = "SOFTWARE"
  /\ private' = [private EXCEPT !["SOFTWARE"] = NoKey]
  /\ UNCHANGED <<localVars, pem, made, fileVars, received, bound, noteVars>>

MakeKey(m) == /\ made < MaxKeys /\ made' = made + 1
              /\ private' = [private EXCEPT ![m] = made']

WriteKeyFile(p) ==
  /\ At(p, "write", "publish")
  /\ MakeKey("SOFTWARE")
  /\ UNCHANGED <<localVars, pem, fileVars, received, bound, noteVars>>

\* ... and tpm2_evictcontrol fails if the handle was taken meanwhile: Die.
PersistKey(p) ==
  /\ At(p, "make", "publish") /\ env[p].mode = "TPM"
  /\ private["TPM"] = NoKey
  /\ MakeKey("TPM")
  /\ UNCHANGED <<localVars, pem, fileVars, received, bound, noteVars>>

\* openssl rsa -pubout, or tpm2_readpublic; it fails without a key: Die.
Publish(p) ==
  /\ At(p, "publish", "read")
  /\ Key(p) # NoKey
  /\ pem' = [pem EXCEPT ![env[p].mode] = Key(p)]
  /\ UNCHANGED <<localVars, private, made, fileVars, received, bound, noteVars>>

ReadKey(p) ==
  /\ At(p, "read", "ready")
  /\ env' = [env EXCEPT ![p].fingerprint = pem[env[p].mode]]
  /\ UNCHANGED <<starts, count, keyVars, fileVars, received, bound, noteVars>>

(***************************************************************************)
(* heartbeat, stage_report and bind: a report is signed and posted         *)
(***************************************************************************)

Signing == {p \in Invocations : pc[p] \in {"sign", "take"}}

Message(p, n) == [by |-> p, nonce |-> n, env |-> env[p], raced |-> p \in raced]

\* Mutant: the payload is not written before it is signed.
WritePayloadLate(p) ==
  /\ At(p, "ready", "sign")
  /\ count[p] < MaxReports
  /\ count' = [count EXCEPT ![p] = @ + 1]
  /\ disturbed' = IF Signing = {} THEN disturbed \ {p} ELSE disturbed \cup Signing \cup {p}
  /\ UNCHANGED <<env, starts, keyVars, fileVars, received, bound, raced, known>>

\* A new nonce, and payload.txt.
WritePayload(p) ==
  /\ At(p, "ready", "sign")
  /\ count[p] < MaxReports
  /\ count' = [count EXCEPT ![p] = @ + 1]
  /\ payload' = Message(p, count[p] + 1)
  /\ disturbed' = IF Signing = {} THEN disturbed \ {p} ELSE disturbed \cup Signing \cup {p}
  /\ UNCHANGED <<env, starts, keyVars, signature, report, received, bound, raced, known>>

\* sign: the files decide what is signed with which key.
Sign(p) ==
  /\ At(p, "sign", "take")
  /\ Key(p) # NoKey
  /\ signature' = [key |-> Key(p), of |-> payload]
  /\ UNCHANGED <<localVars, keyVars, payload, report, received, bound, noteVars>>

\* The old signature stays if there is one, or the empty file that openssl has
\* opened.  (Without a file base64 fails, and the invocation ends: Die.)
SignFails(p) ==
  /\ At(p, "sign", "take")
  /\ \/ signature # NoFile /\ signature' = signature
     \/ env[p].mode = "SOFTWARE" /\ signature' = NoSignature
  /\ disturbed' = disturbed \cup {p}
  /\ UNCHANGED <<localVars, keyVars, payload, report, received, bound, raced, known>>

\* base64 reads the signature, and the report is written.
Compose(p) ==
  /\ At(p, "take", "post")
  /\ report' = [report EXCEPT ![env[p].kind] =
       [message |-> Message(p, count[p]), sig |-> signature, clean |-> p \notin disturbed]]
  /\ UNCHANGED <<localVars, keyVars, payload, signature, received, bound, noteVars>>

Verifies(r) == r.sig = [key |-> r.message.env.fingerprint, of |-> r.message]

\* post sends the file.  The platform knows the robot by the latest device
\* report that verifies.
Post(p) ==
  LET r == report[env[p].kind] IN
  /\ At(p, "post", "posted")
  /\ received' = [received EXCEPT ![p] = r]
  /\ bound' = IF env[p].kind = "device" /\ Verifies(r) THEN r.message ELSE bound
  /\ UNCHANGED <<localVars, keyVars, fileVars, noteVars>>

\* curl fails: || true.
PostFails(p) ==
  /\ At(p, "post", "posted")
  /\ UNCHANGED <<localVars, keyVars, fileVars, received, bound, noteVars>>

(***************************************************************************)
(* The loop of the agent                                                   *)
(***************************************************************************)

\* A command ends ...
Finish(p) ==
  /\ pc[p] = "posted" /\ p \in Manual
  /\ Leave(p)
  /\ received' = [received EXCEPT ![p] = NoReport]
  /\ UNCHANGED <<starts, count, keyVars, fileVars, bound>>

\* ... and the agent goes on, from a heartbeat to the challenge.
Continue(p) ==
  /\ At(p, "posted", IF env[p].kind = "heartbeat" THEN "poll" ELSE "ready") /\ p \in Services
  /\ env' = [env EXCEPT ![p].kind = "heartbeat"]
  /\ received' = [received EXCEPT ![p] = NoReport]
  /\ UNCHANGED <<starts, count, keyVars, fileVars, bound, noteVars>>

\* The interval is not over.
NotDue(p) ==
  /\ At(p, "ready", "poll") /\ env[p].kind = "heartbeat"
  /\ UNCHANGED <<localVars, keyVars, fileVars, received, bound, noteVars>>

\* The platform has a challenge, or none.
Poll(p) ==
  /\ At(p, "poll", "ready")
  /\ \E k \in {"heartbeat", "stage"} : env' = [env EXCEPT ![p].kind = k]
  /\ UNCHANGED <<starts, count, keyVars, fileVars, received, bound, noteVars>>

\* A signal; in prepare, a tool that fails; in the loop, a challenge without one
\* of its fields.
Die(p) ==
  /\ pc[p] # "off"
  /\ Leave(p)
  /\ received' = [received EXCEPT ![p] = NoReport]
  /\ UNCHANGED <<starts, count, keyVars, fileVars, bound>>

-----------------------------------------------------------------------------

Prepare(p) == \/ Start(p) \/ OpenKeyFile(p) \/ WriteKeyFile(p) \/ PersistKey(p)
              \/ Publish(p) \/ ReadKey(p)
              \/ \E m \in Identities : FindKey(p, m)

Report(p) == WritePayload(p) \/ Sign(p) \/ Compose(p) \/ Post(p)

Loop(p) == Finish(p) \/ Continue(p) \/ NotDue(p) \/ Poll(p)

Fault(p) == /\ SignFails(p) \/ PostFails(p) \/ Die(p)
            /\ faults < MaxFaults /\ faults' = faults + 1

RegistryStep ==
  /\ RNext
  /\ known' = [p \in Invocations |-> IF pc[p] = "off" THEN {} ELSE known[p] \cup {Active'}]
  /\ UNCHANGED <<pc, localVars, keyVars, fileVars, received, bound, raced, disturbed, faults>>

TNext == \/ /\ \E p \in Invocations : Prepare(p) \/ Report(p) \/ Loop(p)
            /\ UNCHANGED <<registryVars, faults>>
         \/ \E p \in Invocations : Fault(p) /\ UNCHANGED registryVars
         \/ RegistryStep

TSpec == TInit /\ [][TNext]_<<agentVars, registryVars>>

-----------------------------------------------------------------------------
(***************************************************************************)
(* Properties                                                              *)
(***************************************************************************)

AgentTypeOK ==
  /\ installed \subseteq Manifests /\ (registry = Absent \/ registry \subseteq Ids(Manifests))
  /\ step \in [Commands -> {"new", "discovered", "enabled", "started", "done", "failed"}]
  /\ chosen \in [Commands -> Manifests \cup {None}]
  /\ pc \in [Invocations -> {"off", "find", "make", "write", "publish", "read",
                             "ready", "sign", "take", "post", "posted", "poll"}]
  /\ env \in [Invocations -> [kind : {"none", "heartbeat", "stage", "device"},
                              mode : Modes \cup {"none"}, fingerprint : Keys \cup {NoKey},
                              adapters : SUBSET Ids(Manifests)]]
  /\ private \in [Modes -> Keys \cup {NoKey}] /\ pem \in [Modes -> Keys \cup {NoKey}]
  /\ raced \subseteq Invocations /\ disturbed \subseteq Invocations

\* The invocations whose report has reached the platform.
Arrived == {p \in Invocations : pc[p] = "posted" /\ received[p] # NoReport}

\* Every report that the platform receives carries a signature that verifies,
\* of this report and by the key it names, unless the signing met another
\* invocation's or failed, or the key was read while another was preparing.
ReceivedVerifies ==
  \A p \in Arrived :
    received[p].clean /\ ~received[p].message.raced => Verifies(received[p])

\* Heartbeats and stage reports name the key the robot was bound with, across
\* restarts of the agent: unless two invocations prepared at the same time, or
\* the identity changed between TPM and software.
ReportedKeyIsBound ==
  \A p \in Arrived :
    LET m == received[p].message
    IN  env[p].kind # "device" /\ bound # NoMessage =>
          \/ m.env.fingerprint = bound.env.fingerprint
          \/ m.env.mode # bound.env.mode \/ m.raced \/ bound.raced

\* What a run starts was enabled while it worked, and what an invocation tells
\* the platform was enabled at a time since it started: whatever was activated
\* before that is not told any more, whatever is activated and reported by
\* others meanwhile.
RegistryIsFollowed ==
  /\ StartedIsEnabled
  /\ \A p \in Arrived : LET m == received[p].message
                      IN  m.by = p => m.env.adapters \in known[p]
=============================================================================
