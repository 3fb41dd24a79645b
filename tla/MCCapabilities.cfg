\* Publication: 2 publishers, 2 conflicting editions of one run.  Refresh: two
\* publishers, three runs, a page of two, sessions that last.  Capabilities: one
\* review, two permits, four instants; one enrollment under two capabilities, two
\* presentations, five instants.
CONSTANTS
  w1 = w1
  w2 = w2
  r1 = r1
  d1 = d1
  d2 = d2
  e1 = e1
  e2 = e2
  Publishers <- MCPublishers
  Runs <- MCRuns
  Digests <- MCDigests
  Editions <- MCEditions
  RunOf <- MCRunOf
  ArtifactsOf <- MCArtifactsOf
  Concurrency = 2
  Refreshers = {w1, w2}
  TargetRuns = {1, 2, 3}
  HistoryLimit = 2
  rev = rev
  f1 = f1
  f2 = f2
  p1 = p1
  p2 = p2
  plan1 = plan1
  plan2 = plan2
  tree1 = tree1
  tree2 = tree2
  enr = enr
  doc = doc
  k1 = k1
  k2 = k2
  c1 = c1
  c2 = c2
  Reviews <- MCReviews
  Permits <- MCPermits
  Plans <- MCPlans
  Trees <- MCTrees
  Fixtures <- MCFixtures
  Allowed <- MCAllowed
  ReviewNeeded <- MCReviewNeeded
  Ranks <- MCRanks
  Required <- MCRequired
  CompiledAt <- MCCompiledAt
  PolicyEnd <- MCPolicyEnd
  MaxTime = 3
  MaxLifetime = 2
  Capabilities <- MCCapabilitySet
  EnrollmentOf <- MCEnrollmentOf
  Documents <- MCDocuments
  Presentations <- MCPresentations
  Instants <- MCInstants
  ClassRanks <- MCClassRanks
  OperatorRank = 2
  CaseRank <- MCCaseRank
  RecordRank <- MCRecordRank
  PlannedAt <- MCPlannedAt
  RecordedAt <- MCRecordedAt
  PolicyExpiry <- MCPolicyExpiry
  ReviewLifetime = 2
SPECIFICATION MCSpec
SYMMETRY MCSymmetries
INVARIANTS
  StoredBeforeNamed
  RefreshSound
  LinksUsedOnce
  DispatchAsReviewed
  EnrolledReceiptsSound
PROPERTIES
  LedgerPromise
\* Deadlock: nothing is left to call when every capability is used up.
CHECK_DEADLOCK FALSE
