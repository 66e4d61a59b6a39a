\* Two exits of the process, and time for every run to end.
SPECIFICATION FairSpec

CONSTANTS
  Processes = {p1}
  Runs = {r1}
  PlanVersions = {v1}
  NumSteps = 1
  SummarySteps = {}
  StaleAfter = 1
  BeatEvery = 1
  MaxMisses = 1
  MaxClock = 3
  MaxExits = 2
  Faults = FALSE
  Punctual = FALSE
  None = None

PROPERTIES
  SubmittedRunEnds
  AbandonedRunIsInterrupted

\* Run identifiers and clock are bounded, and an idle server may stay idle.
CHECK_DEADLOCK FALSE
