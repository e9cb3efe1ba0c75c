SPECIFICATION Spec
CONSTANTS
  fileValue = fileValue
  optionValue = optionValue
  defaultValue = defaultValue
  StageName = {"default"}
  NoStage = NoStage
  ParamName = {"p", "q"}
  Name <- Names
  Key <- Keys
  Lookup <- Lookups
  MaxDepth = 50
  NoValue = NoValue
  Value <- Values
  StepLists <- Lists
  ParamSets <- Sections
  CorkFiles <- Files
  OptionLists <- Options
INVARIANTS TypeOK EveryLookupAnswered GivenValuesWin
CHECK_DEADLOCK FALSE
