\* A session of 2 sends and 3 transcript entries; interfaces of up to 3 tools
\* and schemas of up to 5 nodes; profiles of up to 7 objects; an agent's session
\* of up to 4 messages and 2 phases.
CONSTANTS
  p1 = p1
  p2 = p2
  s1 = s1
  s2 = s2
  none = none
  Sends <- MCSends
  NoSend <- none
  ClientMsgs <- MCClientMsgs
  ServerMsgs <- MCServerMsgs
  Params <- MCParams
  MaxMessages = 3
  MaxBytes = 5
  Interfaces <- MCInterfaces
  Capabilities = {"fs", "net"}
  MaxTools = 2
  MaxFieldCharacters = 2
  MaxSchemaDepth = 2
  MaxSchemaNodes = 4
  MaxSchemaTextCharacters = 5
  MaxSchemaKeyCharacters = 3
  MaxEvidence = 2
  MaxTruncations = 3
  Profiles <- MCProfiles
  CaptureLimits <- MCCaptureLimits
  Catalogs <- MCCatalogs
  MessageSizes = {1, 2}
  MaxTranscriptCount = 4
  MaxTranscriptSize = 5
  MaxToolCount = 2
  MaxToolSchema = 1
  MaxArgumentSize = 1
  MaxStderr = 1
  MaxPhases = 2
SPECIFICATION MCSpec
INVARIANTS
  TranscriptGapFree
  WriteAhead
  SingleGuardedCall
  CleanCloseIsComplete
  NothingMissedSilently
  DeltaSound
  AgentTranscriptSound
PROPERTIES
  NoDispatchAfterCatalogChange
  ClosedIsFinal
  CloseSettles
\* Deadlock: once closed and every send has failed or drained, the transport stops.
CHECK_DEADLOCK FALSE
