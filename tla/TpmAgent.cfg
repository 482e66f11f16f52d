\* Commands of the runtime, two invocations of bind or stage, and a service.
CONSTANTS
  Commands = {c1, c2}
  Services = {s}
  Manual = {b1, b2}
  Manifests <- MCManifests
  Jobs <- MCJobs
  Configured <- MCConfigured
  NoneName = none
  AnyAdapter = auto
  Absent = Absent
  None = None
  NoKey = NoKey
  Unregistered = FALSE
  Identities = {"TPM", "SOFTWARE"}
  MaxChanges = 1
  MaxKeys = 3
  MaxStarts = 2
  MaxReports = 2
  MaxFaults = 1
SPECIFICATION TSpec
CONSTRAINT FewProcesses
SYMMETRY Symmetry
VIEW View
INVARIANTS AgentTypeOK ReceivedVerifies ReportedKeyIsBound RegistryIsFollowed
\* The bounds end the processes.
CHECK_DEADLOCK FALSE
