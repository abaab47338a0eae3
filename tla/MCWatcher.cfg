SPECIFICATION FairSpec
CONSTANTS
  c1 = c1
  Containers <- OneContainer
  Policies = {"Always", "OnFailure", "Never"}
  StartupProbed = {c1}
  LivenessProbed = {c1}
  ReadinessProbed = {c1}
  FailureThreshold = 1
  SuccessThreshold = 1
  MaxExits = 0
INVARIANT SucceededPodsDone
PROPERTY TerminalStatusStays
PROPERTY StoppedContainersHandled
