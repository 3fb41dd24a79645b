\* What a completed report says of the filesystem workers.
CONSTANTS
  search = search
  write = write
  listed = listed
  drifted = drifted
  MaxTurns = 2
  MaxToolCalls = 2
  MaxOutputTokens = 2
  TimeoutMs = 1
  MaxBatch = 2
  Rules <- MCRules
  DefaultDecision = "denied"
  Calls <- MCCalls
  Checks = 3
  CreateLag = 1
  PolicyModes <- MCPolicyModes
  TargetTools <- MCTargetTools
  Catalogs <- MCCatalogs
  Approved = listed
SPECIFICATION Spec
INVARIANTS
  PublishedMeansNoWorker
\* Deadlock: the evaluation stops when it has published or aborted.
CHECK_DEADLOCK FALSE
