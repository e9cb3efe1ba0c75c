SPECIFICATION FairSpec
CONSTANTS
  StageName = {"dialogue", "unknown"}
  Definition <- Dialogue
  Name = {"a", "b"}
  Key = {"out"}
  v = v  w = w   empty = empty
  Value = {empty}
  Escape <- EscapeOne
  Empty = empty
  NoValue = NoValue
  ExportName = {"V"}
  MaxSteps = 2
  MaxInput = 2
  Prompted = TRUE
  Faults = {"drop", "io"}
INVARIANTS AnswersReachTheCommand
PROPERTIES ClientReturns
CHECK_DEADLOCK FALSE
