SPECIFICATION FairSpec
CONSTANTS
  User = {"root", "builder"}
  Name = {"CORK_PORT", "CORK_DEBUG"}
  Value = {"", "11900"}
  Containers <- Boxes
  MaxRetries = 2
  Faults = {"keys", "disk", "port", "lost", "slow"}
INVARIANTS TypeOK StatusTellsTheTruth EnvironmentArrives FailureIsTheHooks KeyIsAuthorized
PROPERTIES PubIsStable ImplementsServerContract ClientLearns
CHECK_DEADLOCK FALSE
