\* Two processes submit, forced and not, while runs end and are cancelled.
SPECIFICATION Spec

CONSTANTS
  Processes = {p1, p2}
  Runs = {r1, r2}
  PlanVersions = {v1}
  NumSteps = 0
  SummarySteps = {}
  StaleAfter = 1
  BeatEvery = 1
  MaxMisses = 1
  MaxClock = 0
  MaxExits = 0
  Faults = FALSE
  Punctual = FALSE
  None = None

SYMMETRY RunAndProcessSymmetry
CONSTRAINT RequestsWithinRuns

INVARIANTS
  OneActivePerVersion
  OneOwner

\* Run identifiers and clock are bounded, and an idle server may stay idle.
CHECK_DEADLOCK FALSE
