\* Watchdogs that renew in time, and sweeps of what they observed long ago.
SPECIFICATION Spec

CONSTANTS
  Processes = {p1}
  Runs = {r1}
  PlanVersions = {v1}
  NumSteps = 2
  SummarySteps = {2}
  StaleAfter = 2
  BeatEvery = 1
  MaxMisses = 1
  MaxClock = 5
  MaxExits = 1
  Faults = FALSE
  Punctual = TRUE
  None = None

PROPERTIES
  SweepSparesRenewingWorker
  OnlyTheOwnerFails

\* Run identifiers and clock are bounded, and an idle server may stay idle.
CHECK_DEADLOCK FALSE
