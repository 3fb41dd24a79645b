\* One controlled run over every failure, host change and daemon delay.  Two
\* publishers, two editions of one run that share their one artifact, uploads
\* one at a time.
CONSTANTS
  Checks = 3
  CreateLag = 1
  w1 = w1
  w2 = w2
  r1 = r1
  d1 = d1
  d2 = d2
  e1 = e1
  e2 = e2
  Publishers <- MCPublishers
  Runs <- MCRuns
  Digests <- MCOneDigest
  Editions <- MCEditions
  RunOf <- MCRunOf
  ArtifactsOf <- MCSharedArtifactsOf
  Concurrency = 1
SPECIFICATION MCSpec
INVARIANTS
  InputsOutliveContainer
  AttemptIsConclusive
  FailureRecordTruthful
  VerifiedMeansGone
PROPERTIES
  ForeignKept
  RunSettles
  RetryConverges
\* Deadlock: the controller stops when its one run is done.
CHECK_DEADLOCK FALSE
