CONSTANTS
  c1 = c1  c2 = c2  h1 = h1  h2 = h2  r1 = r1  r2 = r2
  rtc = rtc  d1 = d1  d2 = d2  q1 = q1  k1 = k1  g1 = g1  g2 = g2
  Convs = {c1}
  Dialogues = {rtc}
  Rtc = rtc
  Entries <- MCEntries
  Sources = {}
  Contracts = {k1}
  Configs = {g1}
  RequestIds = {}
  Executors = {"other"}
  MaxPending = 1
  None = None
  Handlers = {h1}
  Refreshers = {}
SPECIFICATION Spec
CHECK_DEADLOCK FALSE
INVARIANT AbortedStaysFailed
