\* Three clients of the store, and two restarts.
CONSTANTS
  p1 = p1  p2 = p2  v1 = v1  u1 = u1  c3 = c3
  Products = {p1, p2}
  Reviews = {v1}
  Updates = {u1}
  Clients = {x1, x2, c3}
  MaxCrashes = 2
  Torn = Torn
  None = None
\* Three conversations with up to two live events each, and a restart.
  NumJobs = 3
  MaxEvents = 2
  MaxRunCrashes = 1
  Lost = Lost
\* A monitored call of eight frames; two batches of two frames may wait.
  QueueSize = 2
  BatchFrames = 2
  MaxFrames = 8
\* One payload is submitted twice, and a restart.
  Submissions = {"click", "retry"}
  MaxSuiteCrashes = 1
  NoSuite = NoSuite
\* A spoken session of two turns of up to two utterances.
  MaxTurns = 2
  MaxUtterances = 2
  MaxSegments = 2
\* A conversation of three events, of two calls of a tool and one of another.
  x1 = x1  x2 = x2  y1 = y1
  Calls = {x1, x2, y1}
  Tools = {"X", "Y"}
  ToolOf <- ToolOfCall
  Designs <- Bench
  MaxObservations = 3
\* Two users, one of whom founds a workspace; the other starts a run.
  ann = ann  ben = ben  team = team
  Users = {ann, ben}
  Places = {team}
  Founder <- FounderOf
  Offers <- OffersMade
  Runners = {ben}
  Absent = Absent
  Personal = Personal
  Free = Free
  Unbound = Unbound
\* Each edits a design in a process of its own or the same; one restart.
  Authors = {"ann's editor", "ben's editor"}
  UserOf <- UserOfAuthor
  MaxDrafts <- DraftsOf
  Processes = {x1, x2}
  NoOne = NoOne
  MaxVersions = 3
  Attempts = 2
  MaxRestarts = 1
\* Two scenarios, two requests at a time; a torn file, a failed write, restarts.
  ScenarioIds = {"billing", "refund"}
  Requests = {x1, x2}
  Unreadable = Unreadable
  MaxScenarioFaults = 2
SPECIFICATION RecordsSpec
INVARIANTS
  RecordsTypeOK KeptUntilRestart
  VerdictIsEarned ReportIsTrue EventsKept
  WholeOrUnavailable SuiteRowIsTrue TurnIsHeard EvidenceDecides
  AuthoringIsKept CatalogHeals
PROPERTIES
  RestartsKeep WorkConcludes BoundStays
\* Everything ends.
CHECK_DEADLOCK FALSE
\* The processes, two clients and the requests bear the names of two calls, so that one
\* permutation serves the four parts they move in, all of which are checked for safety.
SYMMETRY Symmetry
