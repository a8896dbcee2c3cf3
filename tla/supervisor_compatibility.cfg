SPECIFICATION Spec
CONSTANTS
  Services <- VoiceAndCpu
  GpuServices <- Voice
  IdleStopped <- Voice
  Mode = "compatibility"
  Admit <- MCAdmit
  Fits <- MCFits
  Calls <- Contended
  Requests <- MCRequests
  Service <- MCService
  Kind <- MCKind
  DockerFaults = TRUE
  MaxEpoch = 0
  Nobody = Nobody
INVARIANT ExclusiveIsolation
PROPERTIES NeverStopsLeased ImplementsGpuLeases
