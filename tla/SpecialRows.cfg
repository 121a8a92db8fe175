\* Workflows that take over a row, one after the other.
CONSTANTS
  Workflow <- TwoWorkflows
  Manga = {m1}
  Archive = {a1}
  Proc = {p1, p2}
  Kinds <- RowKinds
  Together <- RowMixes
  MaxConcurrency = 2
  MaxAttempt <- RowAttempts
  MaxOwner = 1
  LastPage = 2
  BatchPages = 1
  MaxFailures = 1
  ResumeAfterRestart = TRUE
  ReleaseOnlyStopped = TRUE
SPECIFICATION Spec
INVARIANTS TypeOK ClaimsWhatItUses RowIsKeptByOne OneExecutor SubmissionRemembered
PROPERTIES CancelledNeverCompletes 
CHECK_DEADLOCK FALSE
