\* As MCEvidence, for a tool experiment that is named like the initialization.
CONSTANTS
  MaxLines = 0
  NumPids = 1
  Call = "initialization"
  InitialScopes <- MCInitialScopes
  CallScopes <- MCCallScopes
  FirstEffects <- MCFirstEffects
  LaterEffects <- MCLaterEffects
  MaxActs <- MCBothActs
  MaxTies = 0
  Contexts <- MCContexts
SPECIFICATION MCSpec
INVARIANT
  FindingIdsUnique
CHECK_DEADLOCK FALSE
