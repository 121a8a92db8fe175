\* Two fair task processes under a ticking Supervisor; a lease is released only
\* after the process that held it has stopped.
CONSTANTS
  Manga = {m1}
  Worker = {w1, w2}
  MaxAttempt = 2
  Scheduled <- EveryOperation
  ReleaseOnlyStopped = TRUE
SPECIFICATION FairSpec
INVARIANTS TypeOK AttemptHoldsItsRow OneExecutor
PROPERTIES StaleProcessWritesNothing NoAutomaticTakeover CancelLostOnlyToEarlierRead
           ImplementsRowOwnership CancellationCompletes AttemptSettles
