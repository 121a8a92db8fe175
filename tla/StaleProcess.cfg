\* Leases are released under processes that still run.
CONSTANTS
  Manga = {m1}
  Worker = {w1, w2}
  MaxAttempt = 2
  Scheduled <- DownloadOperations
  ReleaseOnlyStopped = FALSE
SPECIFICATION Spec
PROPERTIES DirectPromotionIsExclusive 
SYMMETRY WorkerSymmetry
