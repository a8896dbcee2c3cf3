SPECIFICATION FairSpec
CONSTANTS
  Services <- VoiceAndImage
  GpuServices <- VoiceAndImage
  IdleStopped = {"llm"}
  Mode = "resource"
  Admit <- MCAdmit
  Fits <- MCFits
  Calls <- Overlapping
  Requests <- MCRequests
  Service <- MCService
  Kind <- MCKind
  DockerFaults = FALSE
  MaxEpoch = 1
  Nobody = Nobody
INVARIANTS LoadedFits NoLostWakeup
PROPERTY IdleWorkerStops
