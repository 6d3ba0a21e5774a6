\* A status poll and a run.
CONSTANTS
  Callers = {"poll", "run"}
SPECIFICATION CodexFairSpec
PROPERTY DisconnectDeletesToken
