CONSTANTS
  Manga = {a, b, c}
  Administered = {}
  Worker = {w1}
  None = None
SPECIFICATION FairSpec
PROPERTY ChainsAdvance
CHECK_DEADLOCK FALSE
