SPECIFICATION Spec
CONSTANTS
  Egresses = {e1, e2}
  Files = {e1}
  NoEgress = none
  Handlers = {h1, h2}
  MaxCrashes = 1
INVARIANT StatusIsTrue
PROPERTIES OnlyStopsWalkBack EndSettles
SYMMETRY Symmetry
CHECK_DEADLOCK FALSE
