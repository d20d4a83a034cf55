SPECIFICATION Spec
CONSTANTS
  d1 = d1
  d2 = d2
  r1 = r1
  Dev = {d1, d2}
  Run = {r1}
  Nobody = Nobody
  Stranger = Stranger
  Specs <- MCSpecs
SYMMETRY MCSymmetry
CHECK_DEADLOCK FALSE
INVARIANTS
  NeverMixed
  GetsWhatItAskedFor
  NothingLeftBehind
