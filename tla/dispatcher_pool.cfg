\* Two workers and three runs that are dispatched again, raise and overflow the
\* histories, with a shutdown at any time.
SPECIFICATION FairSpec

CONSTANTS
  Runs = {r1, r2, r3}
  Workers = {w1, w2}
  MaxRemembered = 1
  MaxDispatches = 4
  Sentinel = Sentinel
  Nothing = Nothing

INVARIANTS
  TypeOK
  EachRunInOnePlace
  RunningIsAsked
  DrainIsReported

PROPERTIES
  ImplementsContract
  EveryRequestIsTaken
  WorkersExit

\* Dispatches are bounded, and a dispatcher that is shut down stops.
CHECK_DEADLOCK FALSE
