SPECIFICATION FairGatewaySpec
CONSTANTS
  Services <- GpuAndCpu
  GpuServices <- Gpu
  IdleStopped <- Gpu
  Mode = "compatibility"
  Admit <- MCAdmit
  Fits <- MCFits
  Calls <- Jobs
  Requests <- MCRequests
  Service <- MCService
  Kind <- MCKind
  DockerFaults = FALSE
  MaxEpoch = 1
  Nobody = Nobody
  AnswersMayBeLate = TRUE
  ReleasesMayFail = TRUE
  GatewayMayRestart = TRUE
INVARIANTS WorkingHoldsLease NoLeaseOfTheDead
PROPERTY JobsEnd
