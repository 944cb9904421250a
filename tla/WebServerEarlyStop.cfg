SPECIFICATION Spec
CONSTANTS
  Callers = {c1, c2}
  Workers = {w1}
  Loop = loop
SYMMETRY Symmetry
INVARIANTS
  StoppedMeansClosed
