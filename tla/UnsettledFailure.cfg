\* One undisturbed process and the Web.
CONSTANTS
  Manga = {m1}
  Worker = {w1}
  MaxAttempt = 2
  Scheduled <- EveryOperation
  ReleaseOnlyStopped = TRUE
SPECIFICATION Spec
PROPERTIES NoUnsettledFailure
