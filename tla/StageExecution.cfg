SPECIFICATION ServerSpec
CONSTANTS
  StageName = {"dialogue", "once", "twice", "unnamed", "hidden", "container", "missing", "exported", "nothing", "unknown"}
  Definition <- AllStages
  Name = {"a", "b", "x"}
  Key = {"out"}
  v = v  w = w   empty = empty
  Value = {v, empty, w}
  Escape <- EscapeFn
  Empty = empty
  NoValue = NoValue
  ExportName = {"V", "W"}
  MaxSteps = 4
  MaxInput = 2
  Prompted = FALSE
  Faults = {"drop", "io"}
INVARIANTS TypeOK SuccessIsComplete CommandsDoNotOverlap OutputsDirOutlivesCommand HandshakeNeverRejected ExportsDelivered
PROPERTIES ImplementsContract LostConnectionEndsStage
CHECK_DEADLOCK FALSE
