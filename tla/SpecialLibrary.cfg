CONSTANTS
  Workflow <- TwoWorkflows
  Manga = {}
  Archive = {a1}
  Proc = {p1, p2}
  Kinds <- LibraryKinds
  Together <- LibraryMixes
  MaxConcurrency = 2
  MaxAttempt <- LibraryAttempts
  MaxOwner = 2
  LastPage = 1
  BatchPages = 2
  MaxFailures = 2
  ResumeAfterRestart = TRUE
  ReleaseOnlyStopped = TRUE
SPECIFICATION FairSpec
INVARIANT Exclusive
PROPERTIES EndedByItsProcess  RecoveryIsSafe NoBatchHangs
CHECK_DEADLOCK FALSE
