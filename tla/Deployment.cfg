CONSTANTS
  IntervalModules = {"collect"}
  Modules <- OneOfEach
  MaxFault = 1
  Requests <- TwoOperations
SPECIFICATION FairSpec
INVARIANTS TypeOK TriggerServedOnce ConfigurationSettled  CancelledDrainSpares
CHECK_DEADLOCK FALSE
PROPERTY OperationEnds
