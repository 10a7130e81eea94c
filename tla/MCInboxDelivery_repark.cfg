CONSTANTS
  k1 = k1 k2 = k2 k3 = k3 c1 = c1 c2 = c2 c3 = c3
  Tasks = {k1}
  Conns = {c1, c2}
  NoConn = NoConn
  Wedge = 2
SPECIFICATION Spec
SYMMETRY Symmetry
INVARIANT ReparkNeverDuplicates
CHECK_DEADLOCK FALSE
