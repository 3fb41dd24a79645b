\* What the failure record says of the cleanup evidence it cites.
CONSTANTS
  Checks = 3
  CreateLag = 1
SPECIFICATION Spec
INVARIANTS
  CleanupFileAgrees
\* Deadlock: the controller stops when its one run is done.
CHECK_DEADLOCK FALSE
