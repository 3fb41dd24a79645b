\* As MCCommands, for one property that the comparison does not have.
CONSTANTS
  Checks = 3
  CreateLag = 1
  Calls = 1
  Drafts <- MCDrafts
  Policies <- MCPolicies
  Predictions <- MCPredictions
  EffectIds = {1, 2, 3}
  EffectOf <- MCEffects
  SensorOf <- MCSensorOf
  Required <- MCRequired
  Advertised = TRUE
  ApprovedMax = 3
  Results <- MCResults
  Moments = {1, 2, 3}
  PlanCompiledAt = 2
  PlanExpiry <- MCExpiry
  Tools <- MCTools
  Tree <- MCTree
  KeyClass <- MCKeyClass
  Conforms <- MCConforms
  Weight <- MCWeight
  ArrayItems = 16
  MaxExpandedSteps = 10
  MaxArgumentWork <- MCMaxArgumentWork
  MaxCaseWork <- MCMaxCaseWork
  MaxArtifact <- MCMaxArtifact
  MaxPredicateChecks = 30
  MaxCanonicalBytes = 4
  Audits <- MCAudits
  Candidates <- MCCandidates
  MaxSubmitted = 3
  MaxCandidates = 2
  MaxProposedSteps = 4
  MaxFeatures = 12
SPECIFICATION MCSpec
INVARIANT
  NothingRefused
CHECK_DEADLOCK FALSE
