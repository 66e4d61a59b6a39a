\* Two versions of a plan and a run: created, edited, committed, copied.
SPECIFICATION Spec

CONSTANTS
  Versions = {v1, v2}
  Runs = {r1}
  Columns = {c1, c2}
  Default = c1
  NamedSteps = {"manual-binning", "split"}
  Blank = Blank
  None = None

SYMMETRY VersionSymmetry

INVARIANTS
  TypeOK
  TargetsAgree
  CommittedIsReady
  ManifestAgrees

PROPERTIES
  CommittedIsFrozen
  EditIsLocal

\* Version and run identifiers are bounded.
CHECK_DEADLOCK FALSE
