SPECIFICATION Spec
CONSTANTS
  build = build  nothing = nothing  unknown = unknown
  StageName <- Stages
  StepCount <- Counts
  MaxRetries = 2
  Faults = {"config"}
INVARIANTS CredentialsAreOptional
CHECK_DEADLOCK FALSE
