SPECIFICATION Spec
CONSTANTS
  StageName = {"default", "build", "test", "unknown"}
  NoStage = NoStage
  ParamName = {"p", "q"}
  Name <- Names
  Key <- Keys
  Lookup <- Lookups
  MaxDepth = 2
  Definitions <- Defs
INVARIANTS TypeOK OutputsAvailable RequiredParamsCollected RefusedForCause LookupsFound
CHECK_DEADLOCK FALSE
