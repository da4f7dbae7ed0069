\* A terminal and two handlers of the supervisor, three commands, two faults, two brokers.
SPECIFICATION Spec
CONSTANTS
  None = None
  Terminals = {t1}
  Handlers = {h1, h2}
  MaxCommands = 3
  MaxFaults = 2
  MaxBrokers = 2
INVARIANTS
  TypeOK
  InstallRepairs
  RemovedIsGone
PROPERTY NothingForeignGoes
SYMMETRY Symmetry
\* There are no more commands than MaxCommands.
CHECK_DEADLOCK FALSE
