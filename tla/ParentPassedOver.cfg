CONSTANTS
  Manga = {a, b}
  Administered = {}
  Worker = {w1}
  None = None
SPECIFICATION FairSpec
PROPERTY ParentsSuperseded
CHECK_DEADLOCK FALSE
