\* Two addresses, a burst of two and a half requests.
CONSTANTS
  c1 = c1
  c2 = c2
  Client = {c1, c2}
  Token = 2
  Burst = 5
  MaxTime = 5
  MaxRefusals = 2
SPECIFICATION Spec
SYMMETRY Symmetry
INVARIANT WindowBound
PROPERTY ImplementsContract
\* The clock stops at its bound.
CHECK_DEADLOCK FALSE
