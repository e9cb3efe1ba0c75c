SPECIFICATION Spec
CONSTANTS
  build = build  nothing = nothing  unknown = unknown
  StageName <- Stages
  StepCount <- Counts
  MaxRetries = 2
  Faults = {"setup", "config", "ssh", "hook", "write", "slow"}
INVARIANTS TypeOK DoneMeansStageRan ContainerRemoved PanicsForCause
PROPERTIES ServerAsPromised
CHECK_DEADLOCK FALSE
