\* A trace of at most five lines by two threads; one experiment with two acts
\* of its processes, and one step in the same millisecond as the step before.
CONSTANTS
  MaxLines = 5
  NumPids = 2
  Call = "call"
  InitialScopes <- MCInitialScopes
  CallScopes <- MCCallScopes
  FirstEffects <- MCFirstEffects
  LaterEffects <- MCLaterEffects
  MaxActs <- MCMaxActs
  MaxTies = 1
  Contexts <- MCContexts
SPECIFICATION MCSpec
INVARIANTS
  HealthyTraceAccountsForAll
  EventsMatchKernel
  AttributionSound
  ReportAccepted
  FindingsAgree
\* Deadlock: an analysis ends with its report, a trace with its events.
CHECK_DEADLOCK FALSE
