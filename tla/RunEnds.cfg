SPECIFICATION InterruptSpec
CONSTANTS
  build = build  nothing = nothing  unknown = unknown
  StageName <- Stages
  StepCount <- Counts
  MaxRetries = 2
  Faults = {"setup", "docker", "config", "ssh", "env", "hook", "write", "slow"}
PROPERTIES RunEnds InterruptEndsRun SuccessIsReported
CHECK_DEADLOCK FALSE
