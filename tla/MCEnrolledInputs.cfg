\* The inputs of the called container, when its removal has failed twice.
CONSTANTS
  Checks = 3
  CreateLag = 1
SPECIFICATION Spec
INVARIANTS
  ExecutionInputsKept
\* Deadlock: the run ends.
CHECK_DEADLOCK FALSE
