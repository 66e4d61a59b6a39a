\* One process, one run of two steps with a run summary: crashes, shutdowns,
\* faults, late watchdogs and sweeps.
SPECIFICATION Spec

CONSTANTS
  Processes = {p1}
  Runs = {r1}
  PlanVersions = {v1}
  NumSteps = 2
  SummarySteps = {2}
  StaleAfter = 1
  BeatEvery = 1
  MaxMisses = 2
  MaxClock = 2
  MaxExits = 1
  Faults = TRUE
  Punctual = FALSE
  None = None

INVARIANTS
  TypeOK
  PendingIffSubmitted
  ManifestIsFaithful
  SuccessIsComplete
  DiagnosticsAreTrue

PROPERTIES
  TerminalIsFinal
  ImplementsContract

\* Run identifiers and clock are bounded, and an idle server may stay idle.
CHECK_DEADLOCK FALSE
