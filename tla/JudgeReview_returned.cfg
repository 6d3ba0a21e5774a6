CONSTANTS
  c1 = c1  c2 = c2  h1 = h1  h2 = h2  r1 = r1  r2 = r2
  rtc = rtc  d1 = d1  d2 = d2  q1 = q1  k1 = k1  g1 = g1  g2 = g2
  Convs = {c1}
  Dialogues = {rtc, d1}
  Rtc = rtc
  Entries <- MCEntries
  Sources = {"agent_version"}
  Contracts = {k1}
  Configs = {g1}
  RequestIds = {}
  Executors = {"waylo_livekit"}
  MaxPending = 1
  None = None
  Handlers = {h1, h2}
  Refreshers = {r1, r2}
SPECIFICATION Spec
CHECK_DEADLOCK FALSE
PROPERTY AnswerIsConfirmable
