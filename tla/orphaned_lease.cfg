SPECIFICATION GatewaySpec
CONSTANTS
  Services <- GpuAndCpu
  GpuServices <- Gpu
  IdleStopped <- Gpu
  Mode = "compatibility"
  Admit <- MCAdmit
  Fits <- MCFits
  Calls <- TwoJobs
  Requests <- MCRequests
  Service <- MCService
  Kind <- MCKind
  DockerFaults = FALSE
  MaxEpoch = 0
  Nobody = Nobody
  AnswersMayBeLate = TRUE
  ReleasesMayFail = FALSE
  GatewayMayRestart = FALSE
INVARIANT NoOrphans
