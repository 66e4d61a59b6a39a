\* A run that waited in the queue longer than the stale threshold is claimed.
SPECIFICATION Spec

CONSTANTS
  Processes = {p1}
  Runs = {r1}
  PlanVersions = {v1}
  NumSteps = 1
  SummarySteps = {}
  StaleAfter = 1
  BeatEvery = 1
  MaxMisses = 1
  MaxClock = 2
  MaxExits = 0
  Faults = FALSE
  Punctual = TRUE
  None = None

PROPERTIES
  SweepSparesLiveWorker

\* Run identifiers and clock are bounded, and an idle server may stay idle.
CHECK_DEADLOCK FALSE
