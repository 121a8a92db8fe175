CONSTANTS
  Manga = {a, b, c}
  Administered = {a}
  Worker = {w1, w2}
  None = None
SYMMETRY RowSymmetry
SPECIFICATION Spec
INVARIANTS TypeOK AcyclicUnlessByHand SomeVersionRemains
PROPERTY LeasedLinkIsStable
