\* Two processes, each with a worker, over one project directory: every race of
\* publishers and every crash between commit, file operation and mark.
SPECIFICATION Spec

CONSTANTS
  p1 = p1
  p2 = p2
  w1 = w1
  w2 = w2
  Processes = {p1, p2}
  Workers = {w1, w2}
  HostOf <- TwoProcesses
  Hashes = {h1, h2}
  MaxOutputs = 2
  Limit = 3
  MaxRows = 3
  MaxRuns = 2
  MaxFaults = 1
  MaxCrashes = 1

SYMMETRY HashSymmetry

INVARIANTS
  TypeOK
  NothingLost
  PublishedIsOnDisk
  SuccessIsOnDisk

\* Rows and runs are bounded, and an idle server may stay idle.
CHECK_DEADLOCK FALSE
