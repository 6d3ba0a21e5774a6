\* Two conversations, two joins with one token or two.
CONSTANTS
  j1 = j1
  j2 = j2
  i1 = i1
  i2 = i2
  NumSessions = 2
  Joins = {j1, j2}
  Ids = {i1, i2}
  None = None
SPECIFICATION FairSpec
INVARIANTS OnAir HeardOrDisclosed
PROPERTIES NeverCutOff GhostsLeave
SYMMETRY Symmetry
\* The run ends.
CHECK_DEADLOCK FALSE
