SPECIFICATION SchedulerSpec
CONSTANTS
  Workers <- MCWorkers
  Configs <- MCConfigs
  Unknown = Unknown
  Preference <- MCPreference
INVARIANTS AllocatedShareGpu PlanSharesGpu RefusalsJustified
