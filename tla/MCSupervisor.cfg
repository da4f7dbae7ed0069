\* Two control connections: every pair of restart, status and stop, overlapping or not.
SPECIFICATION Spec
CONSTANTS
  Handlers = {h1, h2}
  Main = Main
  None = None
INVARIANTS
  TypeOK
  NoStrayBroker
  TrackedIsReachable
  SerialRestartSucceeds
  LeavesNothing
PROPERTIES
  CommandAnswered
  SupervisorStops
  CancelledEnds
\* A supervisor that has ended, or that nobody asks for anything, is at rest.
CHECK_DEADLOCK FALSE
