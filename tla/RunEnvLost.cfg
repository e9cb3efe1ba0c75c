SPECIFICATION Spec
CONSTANTS
  build = build  nothing = nothing  unknown = unknown
  StageName <- Stages
  StepCount <- Counts
  MaxRetries = 2
  Faults = {"env"}
INVARIANTS DoneMeansStageRan
CHECK_DEADLOCK FALSE
