\* One process with two workers, through crashes and restarts.
SPECIFICATION FairSpec

CONSTANTS
  p1 = p1
  p2 = p2
  w1 = w1
  w2 = w2
  Processes = {p1}
  Workers = {w1, w2}
  HostOf <- OneProcess
  Hashes = {h1, h2}
  MaxOutputs = 2
  Limit = 3
  MaxRows = 3
  MaxRuns = 2
  MaxFaults = 1
  MaxCrashes = 2

INVARIANTS
  FailureNeedsAFault

PROPERTIES
  PublishedStays
  EveryStartRepairs

\* Rows and runs are bounded, and an idle server may stay idle.
CHECK_DEADLOCK FALSE
