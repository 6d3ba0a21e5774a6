\* A token that outlasts the local limit, or has expired when it arrives.
CONSTANTS
  b1 = b1
  b2 = b2
  k1 = k1
  k2 = k2
  r1 = r1
  t1 = t1
  t2 = t2
  Tabs = {b1, b2}
  Connects = {k1, k2}
  Runs = {r1}
  Targets = {t1, t2}
  Capacity = 2
  RunCapacity = 1
  MaxLocal = 1
  Lifetimes = {0, 2}
  Required = 1
  MaxAttempts = 3
  MaxTime = 1
  MaxJumps = 1
  None = None
SPECIFICATION FairSpec
INVARIANTS RunsAreBacked RequestsAreConsented
PROPERTIES NoAttemptAfterEnd CallsEnd TokensAreForgotten
SYMMETRY Symmetry
\* Everything ends.
CHECK_DEADLOCK FALSE
